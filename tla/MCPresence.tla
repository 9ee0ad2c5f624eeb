----------------------------- MODULE MCPresence -----------------------------
(* Presence.tla with connections that use callsigns one after the other.    *)
EXTENDS Presence, TLC

CONSTANTS c1, c2, c3, k1, k2

MCBoxOf == [p \in {"zero", "far"} |-> p]
MCOverlap == {<<"zero", "zero">>, <<"far", "far">>}

Symmetry == Permutations(Clients) \cup Permutations(Callsigns)
=============================================================================
