---------------------------- MODULE AuditExport ----------------------------
(***************************************************************************)
(* The audit log and one sink of it (audit.ts, audit-export.ts): rows that     *)
(* are stamped and inserted later, and the nodes that export them in batches   *)
(* behind a cursor, under the lease audit-sink:<id>.                          *)
(*                                                                         *)
(* A row is its place in the order of (timestamp, id).  The clock is `settled`, *)
(* the last row stamped SETTLE_MS ago: a row is inserted within that time.      *)
(***************************************************************************)
EXTENDS FiniteSets, Integers

CONSTANTS
  Node,
  MaxRows,   \* bound on audit rows
  Batch,     \* audit_export.batch_size
  Rounds,    \* batches in one drain (20 in the code)
  MaxTrouble,\* bound on crashes, lost leases and failing saves
  None

ASSUME AuditAssumption == /\ MaxRows \in Nat /\ Batch \in Nat \ {0} /\ Rounds \in Nat \ {0}
                          /\ MaxTrouble \in Nat /\ None \notin Node

VARIABLES
  row,     \* each row: "none" yet, "stamped", "in" the table (one whose insert fails never is)
  settled, \* the last row that is old enough to be exported
  sink,    \* enabled, cursor, and whether retry_after is still ahead; None once removed
  holder,  \* the node with the lease
  drain,   \* each node's tick(): where it is, settled and cursor as it has them, the
           \* last row of its batch and the rounds so far
  got,     \* the rows that reached the sink
  trouble, \* crashes, lost leases and failing saves so far
  resent   \* history: a send failed, or one of those happened

vars == <<row, settled, sink, holder, drain, got, trouble, resent>>

Row == 1 .. MaxRows
NoDrain == [pc |-> "idle", settled |-> 0, cursor |-> 0, last |-> 0, round |-> 0]

Init ==
  /\ row = [k \in Row |-> "none"] /\ settled = 0
  /\ sink = [enabled |-> TRUE, cursor |-> 0, waits |-> FALSE]
  /\ holder = None
  /\ drain = [n \in Node |-> NoDrain]
  /\ got = {} /\ trouble = 0 /\ resent = FALSE

-----------------------------------------------------------------------------
(* AuditService.log() stamps a row and does not wait for the INSERT.          *)
Stamp(k) ==
  /\ row[k] = "none" /\ \A j \in 1 .. k - 1 : row[j] # "none"
  /\ row' = [row EXCEPT ![k] = "stamped"]
  /\ UNCHANGED <<settled, sink, holder, drain, got, trouble, resent>>

Insert(k) ==
  /\ row[k] = "stamped"
  /\ row' = [row EXCEPT ![k] = "in"]
  /\ UNCHANGED <<settled, sink, holder, drain, got, trouble, resent>>

Settle ==
  /\ settled < MaxRows /\ row[settled + 1] = "in"
  /\ settled' = settled + 1
  /\ UNCHANGED <<row, sink, holder, drain, got, trouble, resent>>

-----------------------------------------------------------------------------
(* tick(): one at a time on a node.  Enabled sinks that do not wait are read   *)
(* before their lease is asked for.                                          *)
at(n, pc) == drain[n].pc = pc
goto(n, pc) == drain' = [drain EXCEPT ![n].pc = pc]
stop(n) == drain' = [drain EXCEPT ![n] = NoDrain]

TickReads(n) ==
  /\ at(n, "idle") /\ sink # None
  /\ sink.enabled /\ ~sink.waits
  /\ drain' = [drain EXCEPT ![n] = [NoDrain EXCEPT !.pc = "lease", !.settled = settled,
                                                   !.cursor = sink.cursor]]
  /\ UNCHANGED <<row, settled, sink, holder, got, trouble, resent>>

(* The sink is drained whoever has its lease.                                 *)
Lease_Any(n) ==
  /\ at(n, "lease")
  /\ holder' = IF holder = None THEN n ELSE holder
  /\ goto(n, "select")
  /\ UNCHANGED <<row, settled, sink, got, trouble, resent>>

Lease(n) ==
  /\ at(n, "lease")
  /\ \/ holder \in {None, n} /\ holder' = n /\ goto(n, "select")
     \/ holder \notin {None, n} /\ stop(n) /\ UNCHANGED holder
  /\ UNCHANGED <<row, settled, sink, got, trouble, resent>>

between(low, high) == {k \in Row : row[k] = "in" /\ low < k /\ k <= high}

(* drain(): the oldest rows after the cursor that are settled, up to a batch.   *)
aBatch(rows, last) ==
  LET taken == {j \in rows : j <= last} IN
  Cardinality(taken) = Batch \/ (taken = rows /\ Cardinality(rows) < Batch)

SelectFrom(n, rows) ==
  /\ at(n, "select")
  /\ \/ rows = {} /\ stop(n)
     \/ \E last \in rows : /\ aBatch(rows, last)
                           /\ drain' = [drain EXCEPT ![n].pc = "send", ![n].last = last]
  /\ UNCHANGED <<row, settled, sink, holder, got, trouble, resent>>

(* Rows are selected as soon as they are there.                              *)
Select_Unsettled(n) == SelectFrom(n, between(drain[n].cursor, MaxRows))

Select(n) == SelectFrom(n, between(drain[n].cursor, drain[n].settled))

batch(n) == between(drain[n].cursor, drain[n].last)

Send(n) ==
  /\ at(n, "send")
  /\ got' = got \cup batch(n)
  /\ goto(n, "save")
  /\ UNCHANGED <<row, settled, sink, holder, trouble, resent>>

(* Refused, or delivered and the answer lost.                                *)
SendFails(n) ==
  /\ at(n, "send")
  /\ \E some \in {{}, batch(n)} : got' = got \cup some
  /\ goto(n, "failed")
  /\ resent' = TRUE
  /\ UNCHANGED <<row, settled, sink, holder, trouble>>

(* The failed batch is skipped.                                              *)
BackOff_Skips(n) ==
  /\ at(n, "failed")
  /\ sink' = IF sink = None THEN None
             ELSE [sink EXCEPT !.waits = TRUE, !.cursor = drain[n].last]
  /\ stop(n)
  /\ UNCHANGED <<row, settled, holder, got, trouble, resent>>

BackOff(n) ==
  /\ at(n, "failed")
  /\ sink' = IF sink = None THEN None ELSE [sink EXCEPT !.waits = TRUE]
  /\ stop(n)
  /\ UNCHANGED <<row, settled, holder, got, trouble, resent>>

(* A drain that goes on as long as there are full batches.                    *)
Save_Endless(n) ==
  LET d == drain[n] IN
  /\ at(n, "save")
  /\ sink' = IF sink = None THEN None ELSE [sink EXCEPT !.cursor = d.last, !.waits = FALSE]
  /\ IF sink = None \/ Cardinality(batch(n)) < Batch THEN stop(n)
     ELSE drain' = [drain EXCEPT ![n].pc = "select", ![n].cursor = d.last, ![n].round = @ + 1]
  /\ UNCHANGED <<row, settled, holder, got, trouble, resent>>

(* A sink that is gone ends the drain; so do a short batch and the last round.  *)
Save(n) ==
  LET d == drain[n] IN
  /\ at(n, "save")
  /\ sink' = IF sink = None THEN None ELSE [sink EXCEPT !.cursor = d.last, !.waits = FALSE]
  /\ IF sink = None \/ Cardinality(batch(n)) < Batch \/ d.round + 1 = Rounds THEN stop(n)
     ELSE drain' = [drain EXCEPT ![n].pc = "select", ![n].cursor = d.last, ![n].round = @ + 1]
  /\ UNCHANGED <<row, settled, holder, got, trouble, resent>>

goesWrong == trouble < MaxTrouble /\ trouble' = trouble + 1 /\ resent' = TRUE

SaveFails(n) ==
  /\ at(n, "save") /\ goesWrong
  /\ stop(n)
  /\ UNCHANGED <<row, settled, sink, holder, got>>

Crash(n) ==
  /\ ~at(n, "idle") /\ goesWrong
  /\ stop(n)
  /\ UNCHANGED <<row, settled, sink, holder, got>>

(* The lease of a node that was paused runs out.                              *)
LeaseExpires ==
  /\ holder # None /\ goesWrong
  /\ holder' = None
  /\ UNCHANGED <<row, settled, sink, drain, got>>

-----------------------------------------------------------------------------
(* retry_after passes.                                                       *)
BackoffEnds ==
  /\ sink # None /\ sink.waits
  /\ sink' = [sink EXCEPT !.waits = FALSE]
  /\ UNCHANGED <<row, settled, holder, drain, got, trouble, resent>>

(* update(): enabling it, or another configuration, ends the wait.            *)
Update(e) ==
  /\ sink # None
  /\ sink' = [sink EXCEPT !.enabled = e, !.waits = IF e THEN FALSE ELSE @]
  /\ UNCHANGED <<row, settled, holder, drain, got, trouble, resent>>

Remove ==
  /\ sink # None
  /\ sink' = None
  /\ UNCHANGED <<row, settled, holder, drain, got, trouble, resent>>

DrainStep(n) == Lease(n) \/ Select(n) \/ BackOff(n) \/ Save(n)

Next ==
  \/ \E k \in Row : Stamp(k) \/ Insert(k)
  \/ Settle
  \/ \E n \in Node : TickReads(n) \/ DrainStep(n) \/ Send(n) \/ SendFails(n) \/ SaveFails(n) \/ Crash(n)
  \/ LeaseExpires \/ BackoffEnds
  \/ \E e \in BOOLEAN : Update(e)
  \/ Remove

Spec == Init /\ [][Next]_vars

(* Time passes, inserts end, the tickers fire and drains go on; a sink that is  *)
(* asked again and again answers in the end.                                 *)
FairSpec ==
  /\ Spec
  /\ WF_vars(Settle) /\ WF_vars(BackoffEnds)
  /\ \A k \in Row : WF_vars(Insert(k))
  /\ \A n \in Node : WF_vars(DrainStep(n)) /\ SF_vars(TickReads(n)) /\ SF_vars(Send(n))

-----------------------------------------------------------------------------
Places == {"idle", "lease", "select", "send", "failed", "save"}

(* Every variable has its type.                                              *)
TypeOK ==
  /\ row \in [Row -> {"none", "stamped", "in"}]
  /\ settled \in 0 .. MaxRows
  /\ sink \in [enabled : BOOLEAN, cursor : 0 .. MaxRows, waits : BOOLEAN] \cup {None}
  /\ holder \in Node \cup {None}
  /\ drain \in [Node -> [pc : Places, settled : 0 .. MaxRows, cursor : 0 .. MaxRows,
                         last : 0 .. MaxRows, round : 0 .. Rounds - 1]]
  /\ got \in SUBSET Row
  /\ trouble \in 0 .. MaxTrouble /\ resent \in BOOLEAN

(* "Nothing is lost across restarts or outages (at least once ...)" and "a late *)
(* row must not fall behind a cursor" (header of audit-export.ts).  The sink     *)
(* that is removed has no cursor any more.                                    *)
D == INSTANCE Delivery WITH Item <- Row,
       source <- {k \in Row : row[k] = "in"}, arrived <- got,
       mark <- IF sink = None THEN 0 ELSE sink.cursor
Exports == D!AtLeastOnce

(* "A batch whose answer was lost is sent again": without a failure, a crash or  *)
(* a lost lease, no row is sent twice, by one node or by two.                   *)
OnceUnlessTroubled ==
  [][\A n \in Node : at(n, "send") /\ drain'[n].pc = "save" /\ batch(n) \cap got # {} => resent]_vars

(* Every row of the table reaches a sink that stays enabled.                   *)
Exported ==
  <>[](sink # None /\ sink.enabled) => \A k \in Row : row[k] = "in" ~> k \in got
=============================================================================
