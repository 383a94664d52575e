------------------------------ MODULE Delivery ------------------------------
(***************************************************************************)
(* What AuditExportService and StreamService promise: "at least once".  A      *)
(* source of ordered items, what of it has arrived at the other end, and a     *)
(* mark (a sink's cursor, a stream's committed offset or checkpoint) from      *)
(* which a restart goes on.  Nothing that the mark has passed is missing.      *)
(***************************************************************************)
EXTENDS Naturals

CONSTANT Item  \* the places in the source

VARIABLES
  source,  \* the items there are
  arrived, \* those that reached the sink or the table, once or more often
  mark     \* everything up to here is done with

deliveryVars == <<source, arrived, mark>>

Init == source = {} /\ arrived = {} /\ mark = 0

(* An item appears, never behind the mark.                                    *)
Produce(i) ==
  /\ i > mark
  /\ source' = source \cup {i}
  /\ UNCHANGED <<arrived, mark>>

Arrive(some) ==
  /\ some \subseteq source
  /\ arrived' = arrived \cup some
  /\ UNCHANGED <<source, mark>>

(* The mark moves, also back, but not past what has not arrived.               *)
Mark(m) ==
  /\ \A i \in source : i <= m => i \in arrived
  /\ mark' = m
  /\ UNCHANGED <<source, arrived>>

Next == \/ \E i \in Item : Produce(i)
        \/ \E some \in SUBSET Item : Arrive(some)
        \/ \E m \in Item \cup {0} : Mark(m)

AtLeastOnce == Init /\ [][Next]_deliveryVars
=============================================================================
