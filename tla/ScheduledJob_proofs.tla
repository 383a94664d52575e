------------------------ MODULE ScheduledJob_proofs ------------------------
(***************************************************************************)
(* Safety of ScheduledJob for any number of nodes and runs, any services and   *)
(* any number of crashes and failing statements.  IInv is the inductive        *)
(* invariant.                                                                *)
(***************************************************************************)
EXTENDS ScheduledJob, TLAPS

\* What every service fixes, and what its runs can be doing.
Guards == {"atomic", "late", "none"}
GuardsAreKept ==
  /\ service.guard = "atomic" => \A r \in Run : run[r].pc # "late"
  /\ \A r \in Run : IF run[r].pc = "idle" THEN run[r] = NoRun ELSE run[r].node \in Node

\* A tick that may still claim holds the slot that is in the row, and the row
\* says that it is due.
CurrentIsDue == \A n \in Node : slot[n] = "current" => row.enabled /\ row.next = "due"

IInv == TypeOK /\ GuardsAreKept /\ OneRunPerNode /\ Armed /\ CurrentIsDue

Runs == [pc : RunPlaces, node : Node \cup {None}, by : {"none", "manual", "schedule"},
         next : {"none", "ahead"}]
Rows == [enabled : BOOLEAN, recurring : BOOLEAN, next : {"none", "ahead", "due"}]
Slots == {"none", "current", "moved", "taken"}

USE JobAssumption DEF JobAssumption, RunPlaces

-----------------------------------------------------------------------------
LEMMA ServiceFacts ==
  ASSUME TypeOK
  PROVE  /\ service.guard \in Guards /\ service.records \in {"no", "frees", "keeps"}
         /\ service.reschedules \subseteq {"manual", "schedule"}
BY DEF TypeOK, service, Service, Sync, Hosted, Alert, Quality, Insight, Dbt, Reverse, Snapshot, Guards

LEMMA TypeFacts ==
  ASSUME IInv
  PROVE  /\ run \in [Run -> Runs] /\ row \in Rows /\ slot \in [Node -> Slots]
         /\ running \in SUBSET Node /\ mishaps \in 0 .. MaxMishaps
BY DEF IInv, TypeOK, Runs, Rows, Slots

LEMMA NoRunIsRun == NoRun \in Runs
BY DEF NoRun, Runs

LEMMA InitIInv == Init => IInv
<1> SUFFICES ASSUME Init PROVE IInv
  OBVIOUS
<1>1. run \in [Run -> Runs] /\ \A r \in Run : run[r] = NoRun
  BY NoRunIsRun DEF Init
<1>2. row \in Rows /\ slot \in [Node -> Slots] /\ running = {} /\ mishaps \in 0 .. MaxMishaps
  BY DEF Init, Rows, Slots
<1>3. \A r \in Run : run[r].pc = "idle"
  BY <1>1 DEF NoRun
<1>4. TypeOK
  BY <1>1, <1>2, <1>3 DEF Init, TypeOK, Runs, Rows, Slots, AtWork
<1>5. GuardsAreKept
  BY <1>1, <1>3 DEF GuardsAreKept
<1>6. OneRunPerNode
  BY <1>3 DEF OneRunPerNode, AtWork
<1>7. Armed /\ CurrentIsDue
  BY DEF Init, Armed, CurrentIsDue
<1> QED
  BY <1>4, <1>5, <1>6, <1>7 DEF IInv

\* outdated() leaves no tick with the slot that is in the row.
LEMMA OutdatedFacts ==
  ASSUME IInv, NEW how \in {"moved", "taken"}
  PROVE  outdated(how) \in [Node -> Slots \ {"current"}]
BY TypeFacts DEF outdated, Slots

-----------------------------------------------------------------------------
\* The clock and the ticks leave runs alone, the claim but for the one it starts.
LEMMA TickSteps ==
  ASSUME IInv, kind' = kind, running' = running, run' = run, mishaps' = mishaps,
         row' \in Rows, slot' \in [Node -> Slots],
         service.reschedules = {} /\ row'.enabled /\ row'.recurring => row'.next # "none",
         \A n \in Node : slot'[n] = "current" => row'.enabled /\ row'.next = "due"
  PROVE  IInv'
<1>1. service' = service
  BY DEF service
<1>2. TypeOK'
  BY <1>1 DEF IInv, TypeOK, Rows, Slots, AtWork
<1>3. GuardsAreKept' /\ OneRunPerNode'
  BY <1>1 DEF IInv, GuardsAreKept, OneRunPerNode, AtWork
<1>4. Armed' /\ CurrentIsDue'
  BY <1>1 DEF Armed, CurrentIsDue
<1> QED
  BY <1>2, <1>3, <1>4 DEF IInv

\* One run changes: it comes to its work only past its guard, and leaves
\* `running` when it leaves its work.
LEMMA RunSteps ==
  ASSUME IInv, NEW r \in Run, NEW o \in Runs, kind' = kind, run' = [run EXCEPT ![r] = o],
         mishaps' \in 0 .. MaxMishaps, running' \in SUBSET Node,
         row' \in Rows, slot' \in [Node -> Slots],
         service.reschedules = {} /\ row'.enabled /\ row'.recurring => row'.next # "none",
         \A n \in Node : slot'[n] = "current" => row'.enabled /\ row'.next = "due",
         IF o.pc = "idle" THEN o = NoRun ELSE o.node \in Node,
         service.guard = "atomic" =>
           /\ o.pc # "late"
           /\ o.pc \in {"record", "work"} =>
                /\ o.node \in running'
                /\ (AtWork(r) /\ o.node = run[r].node) \/ o.node \notin running
           /\ \/ running \subseteq running'
              \/ AtWork(r) /\ o.pc = "idle" /\ running' = running \ {run[r].node}
  PROVE  IInv'
<1>1. service' = service /\ run \in [Run -> Runs]
  BY TypeFacts DEF service
<1>2. run' \in [Run -> Runs] /\ run'[r] = o /\ \A q \in Run \ {r} : run'[q] = run[q]
  BY <1>1
<1>3. ASSUME service.guard = "atomic", NEW q \in Run, AtWork(q)' PROVE run'[q].node \in running'
  <2>1. CASE q = r
    BY <1>2, <1>3, <2>1 DEF AtWork
  <2>2. CASE q # r
    <3>1. AtWork(q) /\ run'[q] = run[q]
      BY <1>2, <1>3, <2>2 DEF AtWork
    <3>2. run[q].node \in running
      BY <1>3, <3>1 DEF IInv, TypeOK
    <3>3. AtWork(r) => run[q].node # run[r].node
      BY <1>3, <2>2, <3>1 DEF IInv, OneRunPerNode
    <3> QED
      BY <1>3, <3>1, <3>2, <3>3
  <2> QED
    BY <2>1, <2>2
<1>4. TypeOK'
  BY <1>1, <1>2, <1>3 DEF IInv, TypeOK, Rows, Runs, Slots, AtWork
<1>5. GuardsAreKept'
  BY <1>1, <1>2 DEF IInv, GuardsAreKept
<1>6. OneRunPerNode'
  <2> SUFFICES ASSUME service.guard = "atomic", NEW q \in Run \ {r}, AtWork(q)', AtWork(r)'
               PROVE  run'[q].node # run'[r].node
    BY <1>1, <1>2 DEF IInv, OneRunPerNode, AtWork
  <2>1. AtWork(q) /\ run'[q] = run[q] /\ run'[r] = o /\ o.pc \in {"record", "work"}
    BY <1>2 DEF AtWork
  <2>2. run[q].node \in running
    BY <2>1 DEF IInv, TypeOK
  <2>3. AtWork(r) => run[q].node # run[r].node
    BY <2>1 DEF IInv, OneRunPerNode
  <2> QED
    BY <2>1, <2>2, <2>3
<1>7. Armed' /\ CurrentIsDue'
  BY <1>1 DEF Armed, CurrentIsDue
<1> QED
  BY <1>4, <1>5, <1>6, <1>7 DEF IInv

\* What a step finds that leaves the row and the slots.
LEMMA RowStays ==
  ASSUME IInv, row' = row, slot' = slot
  PROVE  /\ row' \in Rows /\ slot' \in [Node -> Slots]
         /\ service.reschedules = {} /\ row'.enabled /\ row'.recurring => row'.next # "none"
         /\ \A n \in Node : slot'[n] = "current" => row'.enabled /\ row'.next = "due"
BY TypeFacts DEF IInv, Armed, CurrentIsDue

-----------------------------------------------------------------------------
LEMMA ComesDueIInv == ASSUME IInv, ComesDue PROVE IInv'
<1>1. row' \in Rows /\ row'.enabled = row.enabled /\ row'.next = "due"
  BY TypeFacts DEF ComesDue, Rows
<1>2. \A n \in Node : slot[n] # "current"
  BY DEF ComesDue, IInv, CurrentIsDue
<1> QED
  BY <1>1, <1>2, TypeFacts, TickSteps DEF ComesDue

LEMMA TickReadsIInv == ASSUME IInv, NEW n \in Node, TickReads(n) PROVE IInv'
<1>1. slot' \in [Node -> Slots]
  BY TypeFacts DEF TickReads, Slots
<1>2. row.enabled /\ row.next = "due" /\ row' = row
  BY DEF TickReads
<1> QED
  BY <1>1, <1>2, TypeFacts, TickSteps DEF TickReads

LEMMA TickEndsIInv == ASSUME IInv, NEW n \in Node, TickSkips(n) \/ ClaimMissed(n) PROVE IInv'
<1>1. /\ slot' \in [Node -> Slots]
      /\ \A m \in Node : slot'[m] = "current" => slot[m] = "current"
  BY TypeFacts DEF TickSkips, ClaimMissed, Slots
<1>2. /\ row' = row /\ kind' = kind /\ running' = running /\ run' = run /\ mishaps' = mishaps
  BY DEF TickSkips, ClaimMissed
<1>3. /\ service.reschedules = {} /\ row'.enabled /\ row'.recurring => row'.next # "none"
      /\ \A m \in Node : slot'[m] = "current" => row'.enabled /\ row'.next = "due"
  BY <1>1, <1>2 DEF IInv, Armed, CurrentIsDue
<1> QED
  BY <1>1, <1>2, <1>3, TypeFacts, TickSteps

\* A run that has just begun.
LEMMA StartFacts ==
  ASSUME IInv, NEW r \in Run, NEW n \in Node, NEW by \in {"manual", "schedule"}, start(r, n, by)
  PROVE  \E o \in Runs : o.pc = "read" /\ o.node = n /\ o.by = by /\ run' = [run EXCEPT ![r] = o]
<1> DEFINE o == [NoRun EXCEPT !.pc = "read", !.node = n, !.by = by]
<1>1. o \in Runs /\ o.pc = "read" /\ o.node = n /\ o.by = by
  BY DEF NoRun, Runs
<1> QED
  BY <1>1 DEF start

LEMMA ClaimIInv == ASSUME IInv, NEW n \in Node, NEW r \in Run, Claim(n, r) PROVE IInv'
<1>1. PICK o \in Runs : o.pc = "read" /\ o.node = n /\ run' = [run EXCEPT ![r] = o]
  BY StartFacts DEF Claim
<1>2. /\ row' \in Rows
      /\ service.reschedules = {} /\ row'.enabled /\ row'.recurring => row'.next # "none"
  BY TypeFacts DEF Claim, nextRunAt, Rows
<1>3. slot' \in [Node -> Slots] /\ \A m \in Node : slot'[m] # "current"
  BY OutdatedFacts DEF Claim, Slots
<1>4. kind' = kind /\ running' = running /\ mishaps' = mishaps
  BY DEF Claim
<1> QED
  BY <1>1, <1>2, <1>3, <1>4, TypeFacts, RunSteps

LEMMA RunNowIInv == ASSUME IInv, NEW n \in Node, NEW r \in Run, RunNow(r, n) PROVE IInv'
<1>1. PICK o \in Runs : o.pc = "read" /\ o.node = n /\ run' = [run EXCEPT ![r] = o]
  BY StartFacts DEF RunNow
<1>2. row' = row /\ slot' = slot /\ kind' = kind /\ running' = running /\ mishaps' = mishaps
  BY DEF RunNow
<1> QED
  BY <1>1, <1>2, TypeFacts, RowStays, RunSteps

\* A run that goes on to another place, with another next_run_at perhaps.
LEMMA RunReadsIInv == ASSUME IInv, NEW r \in Run, RunReads(r) PROVE IInv'
<1> DEFINE o == [run[r] EXCEPT !.pc = "guard",
                               !.next = IF run[r].by \in service.reschedules THEN planned(row) ELSE "none"]
<1>1. o \in Runs /\ o.pc = "guard" /\ o.node \in Node
  BY TypeFacts DEF IInv, GuardsAreKept, Runs, planned, nextRunAt, RunReads
<1>2. run' = [run EXCEPT ![r] = o]
  BY DEF RunReads
<1>3. row' = row /\ slot' = slot /\ kind' = kind /\ running' = running /\ mishaps' = mishaps
  BY DEF RunReads
<1> HIDE DEF o
<1> QED
  BY <1>1, <1>2, <1>3, TypeFacts, RowStays, RunSteps

LEMMA RefusedIInv == ASSUME IInv, NEW r \in Run, Refused(r) PROVE IInv'
<1>1. row' = row /\ slot' = slot /\ kind' = kind /\ running' = running /\ mishaps' = mishaps
  BY DEF Refused
<1>2. run' = [run EXCEPT ![r] = NoRun] /\ NoRun.pc = "idle"
  BY DEF Refused, NoRun
<1> QED
  BY <1>1, <1>2, NoRunIsRun, TypeFacts, RowStays, RunSteps

LEMMA GuardIInv == ASSUME IInv, NEW r \in Run, Guard(r) PROVE IInv'
<1> DEFINE o == [run[r] EXCEPT !.pc = CASE service.guard = "late" -> "late"
                                        [] service.records # "no" -> "record"
                                        [] OTHER -> "work"]
<1>1. o \in Runs /\ o.pc \in {"late", "record", "work"} /\ o.node = run[r].node
      /\ (service.guard = "atomic" => o.pc # "late")
  BY TypeFacts DEF Runs
<1>n. run[r].node \in Node
  BY DEF IInv, GuardsAreKept, Guard
<1>2. run' = [run EXCEPT ![r] = o]
  BY DEF Guard
<1>3. row' = row /\ slot' = slot /\ kind' = kind /\ mishaps' = mishaps
  BY DEF Guard
<1>4. service.guard = "atomic" => run[r].node \notin running /\ running' = running \cup {run[r].node}
  BY DEF Guard, isRunning
<1>5. running' \in SUBSET Node
  BY <1>n, TypeFacts DEF Guard
<1> HIDE DEF o
<1> QED
  BY <1>1, <1>n, <1>2, <1>3, <1>4, <1>5, TypeFacts, RowStays, RunSteps

LEMMA EnterIInv == ASSUME IInv, NEW r \in Run, Enter(r) \/ Record(r) PROVE IInv'
<1> DEFINE o == [run[r] EXCEPT !.pc = "work"]
<1>1. o \in Runs /\ o.pc = "work" /\ o.node = run[r].node
  BY TypeFacts DEF Runs
<1>2. run[r].node \in Node
  BY DEF IInv, GuardsAreKept, Enter, Record
<1>3. run' = [run EXCEPT ![r] = o] /\ row' = row /\ slot' = slot /\ kind' = kind /\ mishaps' = mishaps
  BY DEF Enter, Record
<1>4. running' \in SUBSET Node
  BY <1>2, TypeFacts DEF Enter, Record
<1>5. service.guard = "atomic" => AtWork(r) /\ run[r].node \in running /\ running' = running
  BY DEF IInv, TypeOK, GuardsAreKept, Enter, Record, AtWork
<1> HIDE DEF o
<1> QED
  BY <1>1, <1>2, <1>3, <1>4, <1>5, TypeFacts, RowStays, RunSteps

\* A failure before the try block: the service either frees the job or keeps it.
LEMMA RecordFailsIInv == ASSUME IInv, NEW r \in Run, RecordFails(r) PROVE IInv'
<1>1. run' = [run EXCEPT ![r] = NoRun] /\ NoRun.pc = "idle" /\ row' = row /\ slot' = slot /\ kind' = kind
  BY DEF RecordFails, NoRun
<1>2. mishaps' \in 0 .. MaxMishaps /\ running' \in SUBSET Node
  BY TypeFacts DEF RecordFails
<1>3. running \subseteq running' \/ (AtWork(r) /\ running' = running \ {run[r].node})
  BY DEF RecordFails, AtWork
<1> QED
  BY <1>1, <1>2, <1>3, NoRunIsRun, RowStays, RunSteps

LEMMA FinishIInv == ASSUME IInv, NEW r \in Run, Finish(r) PROVE IInv'
<1>1. run' = [run EXCEPT ![r] = NoRun] /\ NoRun.pc = "idle" /\ kind' = kind /\ mishaps' = mishaps
  BY DEF Finish, NoRun
<1>2. AtWork(r) /\ running' = running \ {run[r].node} /\ running' \in SUBSET Node
  BY TypeFacts DEF Finish, AtWork
<1>3. /\ row' \in Rows /\ slot' \in [Node -> Slots]
      /\ service.reschedules = {} /\ row'.enabled /\ row'.recurring => row'.next # "none"
      /\ \A n \in Node : slot'[n] = "current" => row'.enabled /\ row'.next = "due"
  <2>1. CASE run[r].by \in service.reschedules
    <3>1. row' = [row EXCEPT !.next = run[r].next] /\ slot' = outdated("moved")
      BY <2>1 DEF Finish
    <3>2. row' \in Rows
      BY <3>1, TypeFacts DEF Rows, Runs
    <3> QED
      BY <2>1, <3>1, <3>2, OutdatedFacts DEF Slots
  <2>2. CASE run[r].by \notin service.reschedules
    BY <2>2, RowStays DEF Finish
  <2> QED
    BY <2>1, <2>2
<1> QED
  BY <1>1, <1>2, <1>3, NoRunIsRun, TypeFacts, RunSteps

LEMMA EditIInv == ASSUME IInv, NEW e \in BOOLEAN, NEW m \in BOOLEAN, Edit(e, m) PROVE IInv'
<1>1. /\ row' \in Rows
      /\ service.reschedules = {} /\ row'.enabled /\ row'.recurring => row'.next # "none"
  BY DEF Edit, nextRunAt, Rows
<1>2. slot' \in [Node -> Slots] /\ \A n \in Node : slot'[n] # "current"
  BY OutdatedFacts DEF Edit, Slots
<1>3. kind' = kind /\ running' = running /\ run' = run /\ mishaps' = mishaps
  BY DEF Edit
<1> QED
  BY <1>1, <1>2, <1>3, TickSteps

\* A crash takes a node's runs and what it has in `running`.
LEMMA CrashIInv == ASSUME IInv, NEW n \in Node, Crash(n) PROVE IInv'
<1>1. /\ run \in [Run -> Runs] /\ run' \in [Run -> Runs]
      /\ \A r \in Run : run'[r] = IF run[r].node = n THEN NoRun ELSE run[r]
  BY TypeFacts, NoRunIsRun DEF Crash
<1>2. /\ slot' \in [Node -> Slots] /\ \A m \in Node : slot'[m] = "current" => slot[m] = "current"
      /\ running' = running \ {n} /\ row' = row /\ service' = service /\ kind' = kind
  BY TypeFacts DEF Crash, Slots, service
<1>3. mishaps' \in 0 .. MaxMishaps
  BY TypeFacts DEF Crash
<1>4. \A r \in Run : AtWork(r)' => AtWork(r) /\ run'[r] = run[r] /\ run[r].node # n
  BY <1>1 DEF AtWork, NoRun
<1>5. TypeOK'
  BY <1>1, <1>2, <1>3, <1>4, TypeFacts DEF IInv, TypeOK, Runs, Rows, Slots
<1>6. GuardsAreKept'
  BY <1>1, <1>2 DEF IInv, GuardsAreKept, NoRun
<1>7. OneRunPerNode'
  BY <1>2, <1>4 DEF IInv, OneRunPerNode
<1>8. Armed' /\ CurrentIsDue'
  BY <1>2 DEF IInv, Armed, CurrentIsDue
<1> QED
  BY <1>5, <1>6, <1>7, <1>8 DEF IInv

LEMMA NextIInv == IInv /\ [Next]_vars => IInv'
<1> SUFFICES ASSUME IInv, [Next]_vars PROVE IInv'
  OBVIOUS
<1>1. CASE UNCHANGED vars
  BY <1>1, TypeFacts, RowStays, TickSteps DEF vars
<1>2. CASE ComesDue
  BY <1>2, ComesDueIInv
<1>3. ASSUME NEW n \in Node, TickStep(n) \/ Crash(n) PROVE IInv'
  BY <1>3, TickReadsIInv, TickEndsIInv, ClaimIInv, CrashIInv DEF TickStep
<1>4. ASSUME NEW n \in Node, NEW r \in Run, RunNow(r, n) PROVE IInv'
  BY <1>4, RunNowIInv
<1>5. ASSUME NEW r \in Run, RunStep(r) \/ RecordFails(r) PROVE IInv'
  BY <1>5, RunReadsIInv, RefusedIInv, GuardIInv, EnterIInv, FinishIInv, RecordFailsIInv DEF RunStep
<1>6. ASSUME NEW e \in BOOLEAN, NEW m \in BOOLEAN, Edit(e, m) PROVE IInv'
  BY <1>6, EditIInv
<1> QED
  BY <1>1, <1>2, <1>3, <1>4, <1>5, <1>6 DEF Next

LEMMA SpecIInv == Spec => []IInv
BY InitIInv, NextIInv, PTL DEF Spec

-----------------------------------------------------------------------------
\* Every variable keeps its type, and a guarded run is in `running`.
THEOREM TypeCorrect == Spec => []TypeOK
<1>1. IInv => TypeOK
  BY DEF IInv
<1> QED
  BY <1>1, SpecIInv, PTL

\* A service that adds to `running` where it looks runs a job once on a node.
THEOREM OneAtATime == Spec => []OneRunPerNode
<1>1. IInv => OneRunPerNode
  BY DEF IInv
<1> QED
  BY <1>1, SpecIInv, PTL

\* An enabled job with a schedule has a next run, but for the services whose
\* runs write it from the row they read.
THEOREM StaysArmed == Spec => []Armed
<1>1. IInv => Armed
  BY DEF IInv
<1> QED
  BY <1>1, SpecIInv, PTL

\* Only a claim starts a scheduled run.
LEMMA StartsByClaim ==
  ASSUME IInv, [Next]_vars, NEW r \in Run, run[r].pc = "idle", run'[r].by = "schedule"
  PROVE  \E n \in Node : Claim(n, r) /\ run'[r].node = n
<1>1. run[r] = NoRun /\ run \in [Run -> Runs]
  BY TypeFacts DEF IInv, GuardsAreKept
<1>2. run'[r] # run[r]
  BY <1>1 DEF NoRun
<1>3. ASSUME NEW n \in Node, NEW q \in Run, RunNow(q, n) PROVE FALSE
  BY <1>1, <1>2, <1>3 DEF RunNow, start, NoRun
<1>4. ASSUME NEW q \in Run, RunStep(q) \/ RecordFails(q) PROVE FALSE
  <2>1. run[q].pc # "idle" /\ \A o \in Run \ {q} : run'[o] = run[o]
    BY <1>1, <1>4 DEF RunStep, RunReads, Refused, Guard, Enter, Record, Finish, RecordFails
  <2> QED
    BY <1>2, <2>1
<1>5. ASSUME NEW n \in Node, Crash(n) PROVE FALSE
  BY <1>1, <1>2, <1>5 DEF Crash
<1>6. PICK n \in Node, q \in Run : Claim(n, q)
  BY <1>2, <1>3, <1>4, <1>5 DEF Next, vars, ComesDue, TickStep, TickReads, TickSkips, ClaimMissed, Edit
<1>7. q = r
  BY <1>1, <1>2, <1>6 DEF Claim, start
<1>8. run'[r].node = n
  BY <1>1, <1>6, <1>7 DEF Claim, start, NoRun
<1> QED
  BY <1>6, <1>7, <1>8

\* No slot is taken twice, whichever nodes' ticks selected it.
THEOREM SlotsAreClaimedOnce == Spec => OnePerSlot
<1>1. IInv /\ [Next]_vars =>
        [\A n \in Node, r \in Run :
           run[r].pc = "idle" /\ run'[r].by = "schedule" /\ run'[r].node = n => slot[n] # "taken"]_vars
  BY StartsByClaim DEF Claim
<1> QED
  BY <1>1, SpecIInv, PTL DEF Spec, OnePerSlot

\* Disabling a job takes it from the ticks that have selected it.
THEOREM DisabledJobsStay == Spec => DisabledStays
<1>1. IInv /\ [Next]_vars =>
        [\A r \in Run : run[r].pc = "idle" /\ run'[r].by = "schedule" => row.enabled]_vars
  BY StartsByClaim DEF Claim, IInv, CurrentIsDue
<1> QED
  BY <1>1, SpecIInv, PTL DEF Spec, DisabledStays
=============================================================================
