----------------------------- MODULE FlightPlan -----------------------------
(***************************************************************************)
(* Flight plans: what a client has filed, what controllers amend, and what *)
(* the controllers' screens show (fsd/handler.go handleFileFlightplan,     *)
(* handleAmendFlightplan, handleClientQueryFlightplanRequest).             *)
(*                                                                         *)
(* A plan is a field of the Client object, stored in one step and          *)
(* broadcast in others; an amendment first looks its target up by callsign *)
(* and then works on the object it found, whatever becomes of the callsign *)
(* meanwhile.  A session is one such object: it connects once, and a       *)
(* reconnecting user is another session.  Of the post office only two      *)
(* things are used: what Registry.tla promises, a callsign has one owner;  *)
(* and that nobody arrives or leaves while a broadcast holds the lock of   *)
(* the callsign map.                                                       *)
(*                                                                         *)
(* A session may be cancelled at any time while it is registered.  Its     *)
(* goroutine goes on until the socket is closed, but what is sent to it    *)
(* may be dropped.  A login may fail after it has been registered; such a  *)
(* session is released without a farewell.  A delete packet that a peer    *)
(* sends by itself is left out: it only takes a callsign off the screens,  *)
(* which is always allowed here, and Presence.tla has it.                  *)
(***************************************************************************)
EXTENDS Naturals, FiniteSets

CONSTANTS
  Sessions,     \* connections over time, each used once (*Client)
  Controllers,  \* those that log in as active ATC
  Callsigns,    \* callsigns they use
  CallsignOf,   \* which session uses which
  Plans,        \* the information section of a plan or an amendment
  Budget,       \* bound on the packets that file, amend or query plans
  NoPlan,       \* the empty string: nothing filed
  NoSession     \* nobody

ASSUME FlightPlanAssumption ==
  /\ Controllers \subseteq Sessions
  /\ CallsignOf \in [Sessions -> Callsigns]
  /\ Budget \in Nat
  /\ NoPlan \notin Plans
  /\ NoSession \notin Sessions

VARIABLES
  pc,         \* where the goroutine of a session is
  owner,      \* the callsign map
  cancelled,  \* sessions whose context is done
  plan,       \* Client.flightPlan
  found,      \* the client that find returned to the running handler
  about,      \* callsign the running handler is about
  text,       \* plan the running handler carries; NoPlan in a delete packet
  pending,    \* recipients the running broadcast has not reached
  budget,     \* how many packets may still come
  screen,     \* screen[r][cs]: the plan that controller r shows for cs
  disturbed,  \* sessions whose running operation overlaps another on its callsign (history)
  contested,  \* callsigns with no undisturbed plan since operations overlapped (history)
  meant       \* the plans a session has filed, or that were addressed to it (history)

locals == <<found, about, text>>
history == <<disturbed, contested>>
vars == <<pc, owner, cancelled, plan, locals, pending, budget, screen, history, meant>>

\* A session in one of these has not finished what it does about a callsign.
Busy == {"store", "announce", "broadcast", "load", "reply", "release"}

Online(s) == owner[CallsignOf[s]] = s

\* Whoever is sent something gets it.
Live(s) == Online(s) /\ s \notin cancelled

\* Somebody holds the lock of the callsign map for reading.
Broadcasting == \E s \in Sessions : pc[s] = "broadcast"

Init ==
  /\ pc = [s \in Sessions |-> "fresh"]
  /\ owner = [cs \in Callsigns |-> NoSession]
  /\ cancelled = {}
  /\ plan = [s \in Sessions |-> NoPlan]
  /\ found = [s \in Sessions |-> NoSession]
  /\ about = CallsignOf
  /\ text = [s \in Sessions |-> NoPlan]
  /\ pending = [s \in Sessions |-> {}]
  /\ budget = Budget
  /\ screen = [s \in Sessions |-> [cs \in Callsigns |-> NoPlan]]
  /\ disturbed = {}
  /\ contested = {}
  /\ meant = [s \in Sessions |-> {}]

Goto(s, p) == pc' = [pc EXCEPT ![s] = p]
Spend == budget > 0 /\ budget' = budget - 1

\* What else is under way about a callsign when s starts on it.
Overlap(s, cs) ==
  LET others == {d \in Sessions \ {s} : pc[d] \in Busy /\ about[d] = cs} IN
  IF others = {}
    THEN UNCHANGED history
    ELSE disturbed' = disturbed \cup others \cup {s} /\ contested' = contested \cup {cs}

\* The plan p is meant for s.
Mean(s, p) == meant' = [meant EXCEPT ![s] = @ \cup {p}]

\* Faulty: a send that does not wait for room in the channel.
SendOrDrop(r, cs, p) ==
  \/ screen' = [screen EXCEPT ![r][cs] = p]
  \/ UNCHANGED screen

\* Client.send: once the context is done, either case of the select may win.
Send(r, cs, p) ==
  \/ screen' = [screen EXCEPT ![r][cs] = p]
  \/ r \in cancelled /\ UNCHANGED screen

\* A handler of s starts: it is about cs and carries p.
Begin(s, cs, p) ==
  /\ about' = [about EXCEPT ![s] = cs]
  /\ text' = [text EXCEPT ![s] = p]
  /\ Overlap(s, cs)

\* The handler returns, and forgets its local variables.
Return(s, p) ==
  /\ Goto(s, p)
  /\ found' = [found EXCEPT ![s] = NoSession]
  /\ about' = [about EXCEPT ![s] = CallsignOf[s]]
  /\ text' = [text EXCEPT ![s] = NoPlan]
  /\ disturbed' = disturbed \ {s}

-----------------------------------------------------------------------------
(* Coming and going.                                                       *)

\* Faulty: a callsign is taken over from whoever has it.
ConnectTakesOver(s) ==
  /\ pc[s] = "fresh"
  /\ ~Broadcasting
  /\ owner' = [owner EXCEPT ![CallsignOf[s]] = s]
  /\ Goto(s, "login")
  /\ Overlap(s, CallsignOf[s])
  /\ UNCHANGED <<cancelled, plan, locals, pending, screen, budget, meant>>

\* register: from now on the session can be found, and gets broadcasts.
Connect(s) ==
  /\ pc[s] = "fresh"
  /\ owner[CallsignOf[s]] = NoSession
  /\ ~Broadcasting
  /\ owner' = [owner EXCEPT ![CallsignOf[s]] = s]
  /\ Goto(s, "login")
  /\ Overlap(s, CallsignOf[s])
  /\ UNCHANGED <<cancelled, plan, locals, pending, screen, budget, meant>>

\* The welcome message is out, and the event loop begins.
Welcome(s) ==
  /\ pc[s] = "login"
  /\ Goto(s, "loop")
  /\ UNCHANGED <<owner, cancelled, plan, locals, pending, screen, budget, history, meant>>

\* The welcome message fails: handleConn returns past the deferred farewell, and
\* what was amended meanwhile stays on the screens.
LoginFails(s) ==
  /\ pc[s] = "login"
  /\ Goto(s, "release")
  /\ contested' = contested \cup {CallsignOf[s]}
  /\ disturbed' = disturbed \cup {s} \cup {d \in Sessions : pc[d] \in Busy /\ about[d] = CallsignOf[s]}
  /\ UNCHANGED <<owner, cancelled, plan, locals, pending, screen, budget, meant>>

\* A kill, a kick, a delete packet of its own, or a sender worker that cannot write.
Cancel(s) ==
  /\ Online(s)
  /\ cancelled' = cancelled \cup {s}
  /\ UNCHANGED <<pc, owner, plan, locals, pending, screen, budget, history, meant>>

\* The event loop ends, which cancels the context.  Then the farewell: a delete
\* packet takes the callsign off every screen.
Leave(s) ==
  /\ pc[s] = "loop"
  /\ cancelled' = cancelled \cup {s}
  /\ Begin(s, CallsignOf[s], NoPlan)
  /\ Goto(s, "announce")
  /\ UNCHANGED <<owner, plan, found, pending, screen, budget, meant>>

Release(s) ==
  /\ pc[s] = "release"
  /\ ~Broadcasting
  /\ owner' = [owner EXCEPT ![CallsignOf[s]] = NoSession]
  /\ Return(s, "gone")
  /\ UNCHANGED <<cancelled, plan, pending, screen, contested, budget, meant>>

-----------------------------------------------------------------------------
(* The handlers.                                                           *)

\* Whoever files or amends a plan shows it already: the broadcast leaves the
\* sender out.
File(s, p) ==
  /\ pc[s] = "loop"
  /\ Spend
  /\ plan' = [plan EXCEPT ![s] = p]
  /\ screen' = [screen EXCEPT ![s][CallsignOf[s]] = p]
  /\ Mean(s, p)
  /\ Begin(s, CallsignOf[s], p)
  /\ Goto(s, "announce")
  /\ UNCHANGED <<owner, cancelled, found, pending>>

\* Faulty: the error of find is ignored.
FindUnchecked(s, cs, p, then) ==
  /\ pc[s] = "loop"
  /\ Spend
  /\ s \in Controllers
  /\ found' = [found EXCEPT ![s] = owner[cs]]
  /\ IF p = NoPlan THEN UNCHANGED meant ELSE Mean(owner[cs], p)
  /\ Begin(s, cs, p)
  /\ Goto(s, then)
  /\ UNCHANGED <<owner, cancelled, plan, pending, screen>>

\* handleAmendFlightplan and handleClientQueryFlightplanRequest up to find;
\* an unknown callsign is answered with an error and changes nothing.
Find(s, cs, p, then) ==
  /\ pc[s] = "loop"
  /\ Spend
  /\ s \in Controllers
  /\ owner[cs] # NoSession
  /\ found' = [found EXCEPT ![s] = owner[cs]]
  /\ IF p = NoPlan THEN UNCHANGED meant ELSE Mean(owner[cs], p)
  /\ Begin(s, cs, p)
  /\ Goto(s, then)
  /\ UNCHANGED <<owner, cancelled, plan, pending, screen>>

Amend(s, cs, p) == Find(s, cs, p, "store")
Query(s, cs) == Find(s, cs, NoPlan, "load")

\* Faulty: the target is looked up again when its plan is stored.
AmendStoreByCallsign(s) ==
  /\ pc[s] = "store"
  /\ owner[about[s]] # NoSession
  /\ plan' = [plan EXCEPT ![owner[about[s]]] = text[s]]
  /\ screen' = [screen EXCEPT ![s][about[s]] = text[s]]
  /\ Goto(s, "announce")
  /\ UNCHANGED <<owner, cancelled, locals, pending, history, budget, meant>>

\* The amendment goes into the object that was found.
AmendStore(s) ==
  /\ pc[s] = "store"
  /\ plan' = [plan EXCEPT ![found[s]] = text[s]]
  /\ screen' = [screen EXCEPT ![s][about[s]] = text[s]]
  /\ Goto(s, "announce")
  /\ UNCHANGED <<owner, cancelled, locals, pending, history, budget, meant>>

QueryLoad(s) ==
  /\ pc[s] = "load"
  /\ text' = [text EXCEPT ![s] = plan[found[s]]]
  /\ Goto(s, "reply")
  /\ UNCHANGED <<owner, cancelled, plan, found, about, pending, screen, history, budget, meant>>

\* A query for a client that has filed nothing is not answered.
QueryReply(s) ==
  /\ pc[s] = "reply"
  /\ IF text[s] = NoPlan THEN UNCHANGED screen ELSE Send(s, about[s], text[s])
  /\ Return(s, "loop")
  /\ UNCHANGED <<owner, cancelled, plan, pending, contested, budget, meant>>

\* broadcastAllATC takes the read lock; the farewell goes to everyone, but only
\* controllers show plans.
BroadcastBegin(s) ==
  /\ pc[s] = "announce"
  /\ pending' = [pending EXCEPT ![s] = {r \in Controllers \ {s} : Online(r)}]
  /\ Goto(s, "broadcast")
  /\ UNCHANGED <<owner, cancelled, plan, locals, screen, history, budget, meant>>

BroadcastTo(s, r) ==
  /\ pc[s] = "broadcast"
  /\ r \in pending[s]
  /\ pending' = [pending EXCEPT ![s] = @ \ {r}]
  /\ Send(r, about[s], text[s])
  /\ UNCHANGED <<pc, owner, cancelled, plan, locals, history, budget, meant>>

\* Everyone has it: the screens agree again, unless others were at work too.
Agreed(s) == contested' = IF s \in disturbed THEN contested ELSE contested \ {about[s]}

BroadcastEnd(s) ==
  /\ pc[s] = "broadcast"
  /\ pending[s] = {}
  /\ IF text[s] = NoPlan
       THEN Goto(s, "release") /\ UNCHANGED <<locals, disturbed>>
       ELSE Return(s, "loop")
  /\ Agreed(s)
  /\ UNCHANGED <<owner, cancelled, plan, pending, screen, budget, meant>>

-----------------------------------------------------------------------------
Next ==
  \E s \in Sessions :
    \/ Connect(s)
    \/ Welcome(s)
    \/ LoginFails(s)
    \/ Cancel(s)
    \/ Leave(s)
    \/ Release(s)
    \/ \E p \in Plans : File(s, p)
    \/ \E cs \in Callsigns, p \in Plans : Amend(s, cs, p)
    \/ \E cs \in Callsigns : Query(s, cs)
    \/ AmendStore(s)
    \/ QueryLoad(s)
    \/ QueryReply(s)
    \/ BroadcastBegin(s)
    \/ \E r \in Controllers : BroadcastTo(s, r)
    \/ BroadcastEnd(s)

Spec == Init /\ [][Next]_vars

-----------------------------------------------------------------------------
(* Properties.                                                             *)

\* Type correctness; a handler that goes on after find has found somebody.
TypeOK ==
  /\ pc \in [Sessions -> Busy \cup {"fresh", "login", "loop", "gone"}]
  /\ owner \in [Callsigns -> Sessions \cup {NoSession}]
  /\ plan \in [Sessions -> Plans \cup {NoPlan}]
  /\ found \in [Sessions -> Sessions \cup {NoSession}]
  /\ \A s \in Sessions : pc[s] \in {"store", "load"} => found[s] # NoSession
  /\ about \in [Sessions -> Callsigns]
  /\ text \in [Sessions -> Plans \cup {NoPlan}]
  /\ pending \in [Sessions -> SUBSET Controllers]
  /\ budget \in 0..Budget
  /\ screen \in [Sessions -> [Callsigns -> Plans \cup {NoPlan}]]
  /\ disturbed \subseteq Sessions
  /\ contested \subseteq Callsigns
  /\ cancelled \subseteq Sessions
  /\ meant \in [Sessions -> SUBSET Plans]

\* What the server has on file for a callsign.
Current(cs) == IF owner[cs] = NoSession THEN NoPlan ELSE plan[owner[cs]]

\* Controllers agree with the server: when nothing is under way about a
\* callsign, and a plan has been filed, amended or deleted undisturbed since
\* operations on it last overlapped or a login failed, whatever a controller
\* shows for it is what is on file, and nothing is shown for a callsign that
\* nobody uses.  A controller whose context is done may miss a plan while it is
\* still registered: it shows what it shows until its socket is closed.
ScreensAgree ==
  \A r \in Controllers, cs \in Callsigns :
    /\ Live(r)
    /\ cs \notin contested
    /\ \A s \in Sessions : pc[s] \in Busy => about[s] # cs
    => screen[r][cs] \in {NoPlan, Current(cs)}

\* A plan stays with those it is meant for: a session has on file only what it
\* has filed itself, or what a controller addressed to its callsign while it was
\* this session's.  Whoever takes the callsign over between the look-up of an
\* amendment and its storing does not get the plan of the one before.
PlansStayWithTheirOwners ==
  \A s \in Sessions : plan[s] # NoPlan => plan[s] \in meant[s]

R == INSTANCE Registry
       WITH Clients <- Sessions, NoClient <- NoSession, Boxes <- {}, NoBox <- NoSession,
            place <- [s \in Sessions |-> NoSession]

\* The callsigns change hands as the registry says (the map of the world plays no
\* part): whatever is proved here about plans holds behind any post office that
\* keeps the promise of Registry.tla and locks its map while it broadcasts.
ImplementsRegistry == R!RegSpec
=============================================================================
