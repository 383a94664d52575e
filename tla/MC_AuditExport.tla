--------------------------- MODULE MC_AuditExport ---------------------------
(* AuditExport with two nodes.                                              *)
EXTENDS AuditExport, TLC

Symmetry == Permutations(Node)
=============================================================================
