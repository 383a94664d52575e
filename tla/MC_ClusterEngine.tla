-------------------------- MODULE MC_ClusterEngine --------------------------
(* ClusterEngine on small instances of prompt nodes.  Tended: they crash and    *)
(* their opens fail, over several leases.  Of two nodes one may evict in Racing  *)
(* while two calls ask and in Failing while statements fail, and one may shut    *)
(* down in Stopping.                                                         *)
(* For liveness, Dying: a holder dies and two calls race to take over, and      *)
(* Slipping: a node whose releases may run when it has acquired again.          *)
EXTENDS ClusterEngine, TLC

Leaving(m, ways) == [n \in Node |-> IF n = m THEN ways ELSE {}]

Tended == [nodes |-> Node, calls |-> Call, until |-> MaxTime, prompt |-> TRUE,
           leaves |-> [n \in Node |-> {"crash"}], faults |-> {"open"}]
Racing(m, n) == [nodes |-> {m, n}, calls |-> Call, until |-> 0, prompt |-> TRUE,
                 leaves |-> Leaving(m, {"release"}), faults |-> {}]
Stopping(m, n, c) == [Racing(m, n) EXCEPT !.calls = {c}, !.leaves = Leaving(m, {"stop"})]
Failing(m, n, c) == [Racing(m, n) EXCEPT !.calls = {c}, !.faults = {"statement", "open"}]
Many == {Tended} \cup {Racing(m, n) : m, n \in Node}
          \cup UNION {{Stopping(m, n, c), Failing(m, n, c)} : m, n \in Node, c \in Call}

First == CHOOSE m \in Node : TRUE
Dying == [Tended EXCEPT !.leaves = Leaving(First, {"crash"}), !.faults = {}]
Slipping == [Dying EXCEPT !.calls = {CHOOSE c \in Call : TRUE}, !.until = 0,
                          !.leaves = Leaving(First, {"release"})]
DyingOrSlipping == {Dying, Slipping}

Symmetry == Permutations(Node) \cup Permutations(Call)
=============================================================================
