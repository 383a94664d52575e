--------------------------- MODULE MC_ResultCache ---------------------------
(* ResultCache on small instances: two requests that read, two that write.   *)
EXTENDS ResultCache, TLC

Symmetry == Permutations(Text) \cup Permutations(Reader) \cup Permutations(Writer)
=============================================================================
