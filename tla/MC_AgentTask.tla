---------------------------- MODULE MC_AgentTask ----------------------------
(* AgentTask on a small instance: two people who decide, one who cancels, two   *)
(* tool calls.                                                               *)
EXTENDS AgentTask, TLC

Symmetry == Permutations(Decider) \cup Permutations(Canceller)
=============================================================================
