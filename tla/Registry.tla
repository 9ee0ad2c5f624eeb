------------------------------ MODULE Registry ------------------------------
(***************************************************************************)
(* What the post office of the FSD server promises to the goroutines that  *)
(* use it, whatever its locks and its two data structures do: a callsign   *)
(* belongs to at most one connection, a connection is placed on the map of *)
(* the world only while it owns a callsign, it is never in two places, and *)
(* it leaves the map before its callsign becomes free again.               *)
(* PostOffice.tla implements this specification.                           *)
(***************************************************************************)
CONSTANTS
  Clients,    \* connections (*Client)
  Callsigns,  \* callsigns a client may log in with
  Boxes,      \* bounding boxes
  NoClient,   \* "this callsign is free"
  NoBox       \* "this connection is not on the map"

VARIABLES
  owner,      \* owner[cs] : the connection that holds cs
  place       \* place[c]  : the box under which c is found

regVars == <<owner, place>>

Owns(c) == \E cs \in Callsigns : owner[cs] = c

RegInit ==
  /\ owner = [cs \in Callsigns |-> NoClient]
  /\ place = [c \in Clients |-> NoBox]

\* A connection without a callsign takes a free one.
Claim(c, cs) ==
  /\ owner[cs] = NoClient
  /\ ~Owns(c)
  /\ owner' = [owner EXCEPT ![cs] = c]
  /\ UNCHANGED place

\* The owner of a callsign appears on the map, or moves on it.
Put(c, b) ==
  /\ Owns(c)
  /\ place' = [place EXCEPT ![c] = b]
  /\ UNCHANGED owner

\* The owner of a callsign disappears from the map.
TakeOff(c) ==
  /\ Owns(c)
  /\ place[c] # NoBox
  /\ place' = [place EXCEPT ![c] = NoBox]
  /\ UNCHANGED owner

\* A connection that is off the map gives its callsign back.
Yield(c, cs) ==
  /\ owner[cs] = c
  /\ place[c] = NoBox
  /\ owner' = [owner EXCEPT ![cs] = NoClient]
  /\ UNCHANGED place

RegNext ==
  \E c \in Clients :
    \/ \E cs \in Callsigns : Claim(c, cs) \/ Yield(c, cs)
    \/ \E b \in Boxes : Put(c, b)
    \/ TakeOff(c)

RegSpec == RegInit /\ [][RegNext]_regVars
=============================================================================
