---------------------------- MODULE MCFlightPlan ----------------------------
(* FlightPlan.tla with two controllers and two pilots, who use one callsign *)
(* one after the other.                                                     *)
EXTENDS FlightPlan, TLC

CONSTANTS a1, a2, p1, p2, k1, k2, k3, x, y

MCCallsignOf == (a1 :> k1) @@ (a2 :> k2) @@ (p1 :> k3) @@ (p2 :> k3)

\* The controllers change places together with their callsigns.
SwapControllers == (a1 :> a2) @@ (a2 :> a1) @@ (k1 :> k2) @@ (k2 :> k1)

Symmetry == Permutations(Plans) \cup Permutations({p1, p2}) \cup {SwapControllers}
=============================================================================
