----------------------------- MODULE MC_DataApp -----------------------------
(* DataApp with two processes at a time: one world where people start the app and  *)
(* switch it at any time, and one where it is left to itself.                   *)
EXTENDS DataApp

Visited == [visits |-> TRUE, overlaps |-> TRUE]
OnItsOwn == [visits |-> FALSE, overlaps |-> FALSE]
Both == {Visited, OnItsOwn}
=============================================================================
