------------------------------ MODULE MCMetar ------------------------------
(* Metar.tla with few workers and a short queue.                           *)
EXTENDS Metar

CONSTANTS c1, c2, w1, w2
=============================================================================
