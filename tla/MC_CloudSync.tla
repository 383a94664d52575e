---------------------------- MODULE MC_CloudSync ----------------------------
(* CloudSync in six worlds.  In three, evictions come between requests and two   *)
(* writes are made: the instance alone while things go wrong, alone while nothing *)
(* does, and with another instance that pushes at any time.  One write is made   *)
(* without "Sync now", where all goes on at once around one request (Rough), and *)
(* where two requests pull, in an instance that is alone or nothing else happens. *)
EXTENDS CloudSync

One(S) == {CHOOSE x \in S : TRUE}
Alone == [openers |-> One(Opener), statements |-> Statement,
          shared |-> FALSE, syncs |-> TRUE, slow |-> TRUE, faults |-> TRUE, crashes |-> TRUE, hasty |-> FALSE]
Calm == [Alone EXCEPT !.slow = FALSE, !.faults = FALSE, !.crashes = FALSE]
Joined == [Calm EXCEPT !.shared = TRUE]

Rough == [Alone EXCEPT !.statements = One(Statement), !.shared = TRUE, !.syncs = FALSE,
                       !.hasty = TRUE]
Crowded == {[Rough EXCEPT !.openers = Opener, !.shared = FALSE],
            [Joined EXCEPT !.openers = Opener, !.statements = One(Statement), !.syncs = FALSE]}
Six == {Alone, Calm, Joined, Rough} \cup Crowded
=============================================================================
