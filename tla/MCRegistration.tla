--------------------------- MODULE MCRegistration ---------------------------
(* Registration.tla on small instances.                                    *)
EXTENDS Registration, TLC

Permuted == Permutations(Requests) \cup Permutations(Instances) \cup Permutations(Emails)
=============================================================================
