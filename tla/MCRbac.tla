-------------------------------- MODULE MCRbac --------------------------------
(* Rbac.tla on small instances.                                            *)
EXTENDS Rbac, TLC

Permuted == Permutations(Threads)
=============================================================================
