---------------------------- MODULE MCAuthPatch ----------------------------
(* AuthPatch.tla with an address of four characters and a replacement that *)
(* is one character longer, as the one of config.h is.  The address is     *)
(* searched for in all strings of six characters, and in longer ones that  *)
(* contain it twice: so that both overlap, so that the replacement of the  *)
(* first one runs into the second one, and further apart.                  *)
EXTENDS AuthPatch

MCUrl == <<"a", "a", "b", "a">>
MCTarget == <<"c", "a", "a", "b", "c">>

Strings(n) == [1..n -> {"a", "b", "nul"}]
Twice == {<<"a", "a", "b", "a", "a", "b", "a">>}
  \cup {MCUrl \o gap \o MCUrl : gap \in UNION {Strings(n) : n \in 0..2}}

MCImages ==
  {<<[rdata |-> FALSE, data |-> MCUrl], [rdata |-> TRUE, data |-> d],
     [rdata |-> TRUE, data |-> MCUrl]>> : d \in Strings(6) \cup Twice}
  \cup {<<[rdata |-> FALSE, data |-> MCUrl]>>}
=============================================================================
