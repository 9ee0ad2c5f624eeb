----------------------------- MODULE MCDelivery -----------------------------
(* Delivery.tla with two or three clients and channels of one place.       *)
EXTENDS Delivery

CONSTANTS c1, c2, c3
=============================================================================
