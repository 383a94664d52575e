---------------------------- MODULE ScheduledJob ----------------------------
(***************************************************************************)
(* One scheduled job of any of the eight services that have them (syncs.ts,   *)
(* alerts.ts, snapshots.ts, quality.ts, insights.ts, dbt.ts, reverse-etl.ts,  *)
(* hosted-agents.ts), on every node of a cluster: the ticks that claim a due  *)
(* slot, run() with its guard, update(), failing statements and crashes.       *)
(*                                                                         *)
(* Time is abstract: next_run_at is ahead or due.  nextRunAt() is always after *)
(* now, so a value that a tick has read and that was overwritten never comes   *)
(* back, and a tick need only know whether its own is still in the row.         *)
(***************************************************************************)
EXTENDS Naturals

CONSTANTS
  Kinds,      \* the services of this instance
  Node,
  Run,        \* calls of run() under way, cluster-wide
  MaxMishaps, \* bound on crashes of nodes and on statements that fail before a run's try block
  None

(* What distinguishes the services.  guard: "atomic" if no await separates the *)
(* look at `running` from the add, "late" if one does, "none" without a guard. *)
(* skips: a tick passes over a job that runs on its node.  reschedules: the     *)
(* triggers whose runs write next_run_at from the row they read.  records: a    *)
(* run writes to the database between its guard and its try block, and when     *)
(* that fails "frees" `running` or "keeps" the job in it.                      *)
Sync == [guard |-> "late", skips |-> TRUE, reschedules |-> {"manual", "schedule"}, records |-> "no"]
Hosted == [guard |-> "late", skips |-> FALSE, reschedules |-> {}, records |-> "no"]
Alert == [guard |-> "atomic", skips |-> FALSE, reschedules |-> {}, records |-> "no"]
Quality == Alert
Insight == Alert
Dbt == [guard |-> "atomic", skips |-> TRUE, reschedules |-> {"schedule"}, records |-> "frees"]
Reverse == [guard |-> "atomic", skips |-> FALSE, reschedules |-> {}, records |-> "keeps"]
Snapshot == [guard |-> "none", skips |-> FALSE, reschedules |-> {}, records |-> "no"]

Service == [sync |-> Sync, hosted |-> Hosted, alert |-> Alert, quality |-> Quality,
            insight |-> Insight, dbt |-> Dbt, reverse |-> Reverse, snapshot |-> Snapshot]

ASSUME JobAssumption ==
  /\ Kinds \subseteq DOMAIN Service
  /\ MaxMishaps \in Nat
  /\ None \notin Node

VARIABLES
  kind,    \* the job's service
  row,     \* its row: enabled, recurring (schedule.kind is not manual) and next_run_at
  running, \* the nodes whose `running` set has it
  slot,    \* what each node's tick() has selected: nothing, the slot that is still in the
           \* row ("current"), one overwritten since ("moved") or claimed since ("taken")
  run,     \* each run(): where it is, its node and trigger, the next_run_at it would write
  mishaps  \* crashes and failing statements so far

vars == <<kind, row, running, slot, run, mishaps>>

service == Service[kind]
NoRun == [pc |-> "idle", node |-> None, by |-> "none", next |-> "none"]

nextRunAt(recurring) == IF recurring THEN "ahead" ELSE "none"
planned(r) == IF r.enabled THEN nextRunAt(r.recurring) ELSE "none"

(* next_run_at is written: ticks that selected the old value hold an old one.  *)
outdated(how) == [n \in Node |-> IF slot[n] = "current" THEN how ELSE slot[n]]

AtWork(r) == run[r].pc \in {"record", "work"}

Init ==
  /\ kind \in Kinds
  /\ row = [enabled |-> TRUE, recurring |-> TRUE, next |-> "ahead"]
  /\ running = {}
  /\ slot = [n \in Node |-> "none"]
  /\ run = [r \in Run |-> NoRun]
  /\ mishaps = 0

-----------------------------------------------------------------------------
(* The clock reaches next_run_at.                                            *)
ComesDue ==
  /\ row.next = "ahead"
  /\ row' = [row EXCEPT !.next = "due"]
  /\ UNCHANGED <<kind, running, slot, run, mishaps>>

(* A SELECT with its comparison the wrong way round.                          *)
TickReads_Early(n) ==
  /\ slot[n] = "none"
  /\ row.enabled /\ row.next = "ahead"
  /\ slot' = [slot EXCEPT ![n] = "current"]
  /\ UNCHANGED <<kind, row, running, run, mishaps>>

(* tick(): the SELECT of what is enabled and due.                            *)
TickReads(n) ==
  /\ slot[n] = "none"
  /\ row.enabled /\ row.next = "due"
  /\ slot' = [slot EXCEPT ![n] = "current"]
  /\ UNCHANGED <<kind, row, running, run, mishaps>>

(* syncs.ts and dbt.ts leave a job alone that runs here, and dbt.ts one whose   *)
(* schedule is manual.                                                       *)
passes(n) == service.skips /\ (n \in running \/ (kind = "dbt" /\ ~row.recurring))

TickSkips(n) ==
  /\ slot[n] # "none" /\ passes(n)
  /\ slot' = [slot EXCEPT ![n] = "none"]
  /\ UNCHANGED <<kind, row, running, run, mishaps>>

start(r, n, by) == run' = [run EXCEPT ![r] = [NoRun EXCEPT !.pc = "read", !.node = n, !.by = by]]

(* A claim by id, without the comparison of next_run_at.                      *)
Claim_ById(n, r) ==
  /\ slot[n] # "none" /\ ~passes(n) /\ run[r].pc = "idle"
  /\ row' = [row EXCEPT !.next = nextRunAt(row.recurring)]
  /\ slot' = [outdated("taken") EXCEPT ![n] = "none"]
  /\ start(r, n, "schedule")
  /\ UNCHANGED <<kind, running, mishaps>>

(* The UPDATE of next_run_at applies only where it is still what the tick read, *)
(* and the tick whose UPDATE applies calls run().                             *)
Claim(n, r) ==
  /\ slot[n] = "current" /\ ~passes(n) /\ run[r].pc = "idle"
  /\ row' = [row EXCEPT !.next = nextRunAt(row.recurring)]
  /\ slot' = [outdated("taken") EXCEPT ![n] = "none"]
  /\ start(r, n, "schedule")
  /\ UNCHANGED <<kind, running, mishaps>>

ClaimMissed(n) ==
  /\ slot[n] \in {"moved", "taken"} /\ ~passes(n)
  /\ slot' = [slot EXCEPT ![n] = "none"]
  /\ UNCHANGED <<kind, row, running, run, mishaps>>

(* A person or an agent runs the job now.                                    *)
RunNow(r, n) ==
  /\ run[r].pc = "idle"
  /\ start(r, n, "manual")
  /\ UNCHANGED <<kind, row, running, slot, mishaps>>

-----------------------------------------------------------------------------
(* run(): the row, the guard, the work.                                      *)
RunReads(r) ==
  /\ run[r].pc = "read"
  /\ run' = [run EXCEPT ![r].pc = "guard",
                        ![r].next = IF run[r].by \in service.reschedules THEN planned(row) ELSE "none"]
  /\ UNCHANGED <<kind, row, running, slot, mishaps>>

isRunning(r) == service.guard # "none" /\ run[r].node \in running

Refused(r) ==
  /\ run[r].pc = "guard" /\ isRunning(r)
  /\ run' = [run EXCEPT ![r] = NoRun]
  /\ UNCHANGED <<kind, row, running, slot, mishaps>>

(* Every guard looks first and adds after an await.                           *)
Guard_Late(r) ==
  /\ run[r].pc = "guard" /\ ~isRunning(r)
  /\ run' = [run EXCEPT ![r].pc = IF service.guard = "none" THEN "work" ELSE "late"]
  /\ UNCHANGED <<kind, row, running, slot, mishaps>>

Guard(r) ==
  /\ run[r].pc = "guard" /\ ~isRunning(r)
  /\ run' = [run EXCEPT ![r].pc = CASE service.guard = "late" -> "late"
                                    [] service.records # "no" -> "record"
                                    [] OTHER -> "work"]
  /\ running' = IF service.guard = "atomic" THEN running \cup {run[r].node} ELSE running
  /\ UNCHANGED <<kind, row, slot, mishaps>>

(* Some reads and writes later the run adds itself.                           *)
Enter(r) ==
  /\ run[r].pc = "late"
  /\ run' = [run EXCEPT ![r].pc = "work"]
  /\ running' = running \cup {run[r].node}
  /\ UNCHANGED <<kind, row, slot, mishaps>>

Record(r) ==
  /\ run[r].pc = "record"
  /\ run' = [run EXCEPT ![r].pc = "work"]
  /\ UNCHANGED <<kind, row, running, slot, mishaps>>

(* One of the statements before the try block fails.                         *)
RecordFails(r) ==
  /\ run[r].pc \in {"late", "record"} /\ mishaps < MaxMishaps
  /\ mishaps' = mishaps + 1
  /\ running' = IF run[r].pc = "record" /\ service.records = "frees"
                THEN running \ {run[r].node} ELSE running
  /\ run' = [run EXCEPT ![r] = NoRun]
  /\ UNCHANGED <<kind, row, slot>>

(* It has failed or done its work: some services write next_run_at, and the     *)
(* finally block frees `running`.                                            *)
Finish(r) ==
  LET reschedules == run[r].by \in service.reschedules IN
  /\ run[r].pc = "work"
  /\ row' = IF reschedules THEN [row EXCEPT !.next = run[r].next] ELSE row
  /\ slot' = IF reschedules THEN outdated("moved") ELSE slot
  /\ running' = running \ {run[r].node}
  /\ run' = [run EXCEPT ![r] = NoRun]
  /\ UNCHANGED <<kind, mishaps>>

-----------------------------------------------------------------------------
(* next_run_at follows a new schedule, and not enabled.                       *)
Edit_ScheduleOnly(e, m) ==
  /\ row' = [enabled |-> e, recurring |-> m,
             next |-> IF m = row.recurring THEN row.next ELSE nextRunAt(m)]
  /\ slot' = IF m = row.recurring THEN slot ELSE outdated("moved")
  /\ UNCHANGED <<kind, running, run, mishaps>>

(* enabled as it was before the patch.                                        *)
Edit_OldEnabled(e, m) ==
  /\ row' = [enabled |-> e, recurring |-> m,
             next |-> IF row.enabled THEN nextRunAt(m) ELSE "none"]
  /\ slot' = outdated("moved")
  /\ UNCHANGED <<kind, running, run, mishaps>>

(* update() of the schedule or of enabled: next_run_at follows the patch merged  *)
(* into the row read.  Edits of one job come one at a time.                    *)
Edit(e, m) ==
  /\ row' = [enabled |-> e, recurring |-> m, next |-> IF e THEN nextRunAt(m) ELSE "none"]
  /\ slot' = outdated("moved")
  /\ UNCHANGED <<kind, running, run, mishaps>>

(* A node dies with its tick and its runs, and starts again.                  *)
Crash(n) ==
  /\ mishaps < MaxMishaps /\ mishaps' = mishaps + 1
  /\ running' = running \ {n}
  /\ slot' = [slot EXCEPT ![n] = "none"]
  /\ run' = [r \in Run |-> IF run[r].node = n THEN NoRun ELSE run[r]]
  /\ UNCHANGED <<kind, row>>

TickStep(n) == TickReads(n) \/ TickSkips(n) \/ ClaimMissed(n) \/ \E r \in Run : Claim(n, r)
RunStep(r) == RunReads(r) \/ Refused(r) \/ Guard(r) \/ Enter(r) \/ Record(r) \/ Finish(r)

Next ==
  \/ ComesDue
  \/ \E n \in Node : TickStep(n) \/ Crash(n) \/ \E r \in Run : RunNow(r, n)
  \/ \E r \in Run : RunStep(r) \/ RecordFails(r)
  \/ \E e, m \in BOOLEAN : Edit(e, m)

Spec == Init /\ [][Next]_vars

(* Clocks go on, the tickers of running nodes fire, and runs end.              *)
FairSpec ==
  /\ Spec
  /\ WF_vars(ComesDue)
  /\ \A n \in Node : WF_vars(TickStep(n))
  /\ \A r \in Run : WF_vars(RunStep(r))

-----------------------------------------------------------------------------
RunPlaces == {"idle", "read", "guard", "late", "record", "work"}

(* Every variable has its type, and a run that is guarded is in `running`.      *)
TypeOK ==
  /\ kind \in Kinds
  /\ row \in [enabled : BOOLEAN, recurring : BOOLEAN, next : {"none", "ahead", "due"}]
  /\ running \in SUBSET Node
  /\ slot \in [Node -> {"none", "current", "moved", "taken"}]
  /\ run \in [Run -> [pc : RunPlaces, node : Node \cup {None},
                      by : {"none", "manual", "schedule"}, next : {"none", "ahead"}]]
  /\ mishaps \in 0 .. MaxMishaps
  /\ \A r \in Run : service.guard = "atomic" /\ AtWork(r) => run[r].node \in running

(* "Every scheduled job runs exactly once" (README.md), "claimed with a        *)
(* conditional update on its next_run_at" (REFERENCE.md): no tick starts a run  *)
(* for a slot that another tick has taken.                                   *)
OnePerSlot ==
  [][\A n \in Node, r \in Run :
       run[r].pc = "idle" /\ run'[r].by = "schedule" /\ run'[r].node = n => slot[n] # "taken"]_vars

(* A tick that selected the job before somebody disabled it does not run it     *)
(* after.                                                                   *)
DisabledStays ==
  [][\A r \in Run : run[r].pc = "idle" /\ run'[r].by = "schedule" => row.enabled]_vars

(* "This alert is being checked right now": one run of the job on a node, where *)
(* the service looks at `running` and adds to it without an await between.      *)
OneRunPerNode ==
  service.guard = "atomic" =>
    \A q, r \in Run : AtWork(q) /\ AtWork(r) /\ run[q].node = run[r].node => q = r

(* An enabled job with a schedule has a next run, whatever ran or failed.       *)
Armed == service.reschedules = {} /\ row.enabled /\ row.recurring => row.next # "none"

unedited == \A e, m \in BOOLEAN : ~Edit(e, m)

(* An enabled job with a schedule and a next run runs again and again once it   *)
(* is left alone, whatever crashed or failed before.                          *)
KeepsRunning ==
  /\ service.records # "keeps"
  /\ <>[](row.enabled /\ row.recurring /\ row.next # "none")
  /\ <>[][unedited]_vars
  => []<>(\E r \in Run : AtWork(r))
=============================================================================
