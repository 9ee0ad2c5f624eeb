----------------------------- MODULE MCAccounts -----------------------------
(* Accounts, on a small instance.  Account 1 is the first administrator.    *)
EXTENDS Accounts, TLC

CONSTANTS h1, h2

Pair == {h1, h2}
HandlerSymmetry == Permutations(Pair)
=============================================================================
