-------------------------- MODULE MC_ScheduledJob --------------------------
(* ScheduledJob on two nodes with two runs under way.                       *)
EXTENDS ScheduledJob
=============================================================================
