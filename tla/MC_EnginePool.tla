---------------------------- MODULE MC_EnginePool ----------------------------
(* Instances of EnginePool for TLC.                                        *)
EXTENDS EnginePool, TLC

Symmetry == Permutations(Engine) \cup Permutations(Caller) \cup Permutations(Workspace)
                \cup Permutations(Fingerprint) \cup Permutations(Hot)
=============================================================================
