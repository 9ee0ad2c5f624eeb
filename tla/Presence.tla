------------------------------ MODULE Presence ------------------------------
(***************************************************************************)
(* What the client of a user shows: the aircraft and controllers it was    *)
(* told of by add packets (#AP, #AA) and position reports, until a delete  *)
(* packet (#DP, #DA) takes them away.  Packets name callsigns only, and a  *)
(* callsign is used by one connection after the other, so the order in     *)
(* which handleConn registers, announces, takes leave and releases decides *)
(* whether a screen shows ghosts.                                          *)
(*                                                                         *)
(* The module adds to PostOffice.tla what the callbacks of its broadcasts  *)
(* do.  A send channel is first in, first out, with one worker and one     *)
(* socket behind it, so what a client will show is already decided when a  *)
(* packet is queued: shown[r] is what r shows once its channel is empty.   *)
(***************************************************************************)
EXTENDS PostOffice

VARIABLES
  sent,       \* recipients the running callback has reached
  deleting,   \* clients whose running broadcast is their own delete packet
  cancelled,  \* clients whose context is done: a send to them may do nothing
  shown       \* shown[r][cs]: whose packets made r show callsign cs

pvars == <<vars, sent, deleting, cancelled, shown>>

PInit ==
  /\ Init
  /\ sent = [c \in Clients |-> {}]
  /\ deleting = {}
  /\ cancelled = {}
  /\ shown = [r \in Clients |-> [cs \in Callsigns |-> NoClient]]

\* A fresh client shows nothing and has a context of its own.
PConnect(c, cs) ==
  /\ Connect(c, cs)
  /\ shown' = [shown EXCEPT ![c] = [k \in Callsigns |-> NoClient]]
  /\ cancelled' = cancelled \ {c}
  /\ UNCHANGED <<sent, deleting>>

\* handleDelete, or a handler that broadcasts something else.
PBroadcast(c) ==
  /\ HandleBroadcast(c, "broadcast")
  /\ deleting' \in {deleting, deleting \cup {c}}
  /\ UNCHANGED <<sent, cancelled, shown>>

\* The deferred cancelCtx of eventLoop.
PLeave(c) ==
  /\ Leave(c)
  /\ cancelled' = cancelled \cup {c}
  /\ UNCHANGED <<sent, deleting, shown>>

\* The steps of the post office that tell nobody anything.
Silent(c) ==
  /\ \/ RegisterMap(c)
     \/ RegisterTree(c)
     \/ \E ok \in BOOLEAN : Motd(c, ok)
     \/ HandleBroadcast(c, "search")
     \/ \E p \in Positions : MoveStart(c, p)
     \/ MoveTree(c)
     \/ SearchBegin(c)
     \/ AllBegin(c)
     \/ ReleaseTree(c)
     \/ ReleaseMap(c)
  /\ UNCHANGED <<sent, deleting, cancelled, shown>>

\* What the packet that c is broadcasting makes its recipient show.
Shows(c) == IF pc[c] = "farewell" \/ c \in deleting THEN NoClient ELSE c

\* The callback of a running broadcast: the packet goes to one more recipient.
Deliver(c, r) ==
  /\ c \in mapReaders \cup treeReaders
  /\ r \in recipients[c] \ sent[c]
  /\ sent' = [sent EXCEPT ![c] = @ \cup {r}]
  /\ \/ /\ pc[c] # "broadcast" \/ c \in deleting
        /\ shown' = [shown EXCEPT ![r][callsign[c]] = Shows(c)]
     \/ /\ (pc[c] = "broadcast" /\ c \notin deleting) \/ r \in cancelled
        /\ UNCHANGED shown
  /\ UNCHANGED <<vars, deleting, cancelled>>

\* Everyone was reached.  handleDelete then cancels the context of its client.
PAllEnd(c) ==
  /\ AllEnd(c)
  /\ sent[c] = recipients[c]
  /\ sent' = [sent EXCEPT ![c] = {}]
  /\ deleting' = deleting \ {c}
  /\ cancelled' = IF c \in deleting THEN cancelled \cup {c} ELSE cancelled
  /\ UNCHANGED shown

PSearchEnd(c) ==
  /\ SearchEnd(c)
  /\ sent[c] = recipients[c]
  /\ sent' = [sent EXCEPT ![c] = {}]
  /\ UNCHANGED <<deleting, cancelled, shown>>

\* A kill, a kick or a failed write cancels the context of a client, at any time.
Cancel(c) ==
  /\ pc[c] \in Mapped
  /\ cancelled' = cancelled \cup {c}
  /\ UNCHANGED <<vars, sent, deleting, shown>>

PNext ==
  \E c \in Clients :
    \/ \E cs \in Callsigns : PConnect(c, cs)
    \/ PBroadcast(c)
    \/ PLeave(c)
    \/ Silent(c)
    \/ \E r \in Clients : Deliver(c, r)
    \/ PAllEnd(c)
    \/ PSearchEnd(c)
    \/ Cancel(c)

PSpec == PInit /\ [][PNext]_pvars

-----------------------------------------------------------------------------
(* Properties.                                                             *)

\* Type correctness of the variables this module adds.
PTypeOK ==
  /\ sent \in [Clients -> SUBSET Clients]
  /\ deleting \subseteq Clients
  /\ cancelled \subseteq Clients
  /\ shown \in [Clients -> [Callsigns -> Clients \cup {NoClient}]]

\* A client to which packets are sure to get through.
Listening(r) == pc[r] \in Mapped /\ r \notin cancelled

\* No ghosts: whatever a listening client shows is a connection that still
\* owns the callsign and has yet to send it a farewell.  In particular nothing
\* is shown once its connection has left the post office.
NoGhosts ==
  \A r \in Clients, cs \in Callsigns :
    LET s == shown[r][cs] IN
    Listening(r) /\ s # NoClient =>
      /\ clientMap[cs] = s
      /\ pc[s] \in {"announce", "loop", "move", "search", "broadcast", "farewell"}
      /\ pc[s] = "farewell" /\ s \in mapReaders => r \in recipients[s] \ sent[s]

\* What is shown under a callsign is taken away only by its own connection: a
\* late delete packet of an earlier user of the callsign never hides it.
OnlyOwnDelete ==
  [][\A r \in Clients, cs \in Callsigns :
       LET s == shown[r][cs] IN
       s # NoClient /\ shown'[r][cs] # s /\ Listening(r) =>
         pc[s] = "farewell" \/ s \in deleting]_pvars
=============================================================================
