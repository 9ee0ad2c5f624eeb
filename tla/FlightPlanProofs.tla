--------------------------- MODULE FlightPlanProofs ---------------------------
(***************************************************************************)
(* The controllers' screens agree with the plans on file, for any number   *)
(* of sessions, callsigns and plans.  The invariant follows the one        *)
(* operation that is under way about a callsign from the step that looks   *)
(* the target up to the end of its broadcast; sessions that overlap are    *)
(* marked as such, and nothing is said of their callsign until somebody    *)
(* has announced a plan of it undisturbed.                                 *)
(***************************************************************************)
EXTENDS FlightPlan, TLAPS

-----------------------------------------------------------------------------
(* The inductive invariant.                                                *)

\* The callsign map is the sessions that are online.
OwnersOnline ==
  \A s \in Sessions, cs \in Callsigns :
    owner[cs] = s <=> pc[s] \notin {"fresh", "gone"} /\ CallsignOf[s] = cs

\* What is known of the local variables of a handler, disturbed or not.
LocalsFit ==
  \A s \in Sessions :
    /\ pc[s] \in {"store", "load", "reply"} => s \in Controllers
    /\ pc[s] = "store" => text[s] # NoPlan
    /\ found[s] # NoSession => pc[found[s]] # "fresh"
    /\ pc[s] \in {"store", "load"} => CallsignOf[found[s]] = about[s]
    /\ pc[s] \in {"announce", "broadcast"} /\ text[s] = NoPlan => about[s] = CallsignOf[s]
    /\ pc[s] \in {"fresh", "login"} => about[s] = CallsignOf[s] /\ text[s] = NoPlan
    /\ pc[s] = "release" => about[s] = CallsignOf[s] /\ text[s] = NoPlan
    /\ \A r \in pending[s] : pc[r] # "fresh"
    /\ pc[s] = "fresh" => plan[s] = NoPlan /\ \A cs \in Callsigns : screen[s][cs] = NoPlan

\* Two that are busy about one callsign know that they overlap.
OverlapsNoticed ==
  \A s \in Sessions, d \in Sessions :
    s # d /\ pc[s] \in Busy /\ pc[d] \in Busy /\ about[s] = about[d] =>
      s \in disturbed /\ about[s] \in contested

\* What r shows of cs is on file.
Agrees(r, cs) == screen[r][cs] \in {NoPlan, Current(cs)}

\* A session that is busy about a callsign on its own.
Alone(s) == pc[s] \in Busy /\ (s \notin disturbed \/ about[s] \notin contested)

\* How far it is.
Progress ==
  \A s \in Sessions : Alone(s) =>
    /\ pc[s] \in {"store", "load"} => owner[about[s]] = found[s]
    /\ pc[s] = "reply" => text[s] \in {NoPlan, Current(about[s])}
    /\ pc[s] \in {"announce", "broadcast"} /\ text[s] # NoPlan =>
         text[s] = Current(about[s]) /\ screen[s][about[s]] = text[s]
    /\ pc[s] = "broadcast" =>
         \A r \in Controllers \ {s} :
           Live(r) => r \in pending[s] \/ screen[r][about[s]] = text[s]
    /\ pc[s] = "release" =>
         \A r \in Controllers \ {s} : Live(r) => screen[r][about[s]] = NoPlan

\* An operation that changes what is on file, from the change to its announcement.
Announcing(s) == pc[s] \in {"announce", "broadcast", "release"}

\* The screens agree unless somebody is about to make them.
Agreement ==
  \A r \in Controllers, cs \in Callsigns :
    Live(r) /\ cs \notin contested /\ (\A s \in Sessions : Announcing(s) => about[s] # cs) => Agrees(r, cs)

\* What an amendment carries is meant for the session that was found, whatever
\* has become of its callsign.
TextsAddressed ==
  \A a \in Sessions : pc[a] = "store" => text[a] \in meant[found[a]]

FInv ==
  /\ TypeOK /\ OwnersOnline /\ LocalsFit /\ OverlapsNoticed /\ Progress /\ Agreement
  /\ PlansStayWithTheirOwners /\ TextsAddressed
-----------------------------------------------------------------------------
(* Every step preserves it.                                                *)

\* A new session finds an unused callsign, and shows nothing.
LEMMA ConnectKeeps ==
  ASSUME FInv, NEW s \in Sessions, Connect(s)
  PROVE  FInv'
<1> USE FlightPlanAssumption DEF FInv, TypeOK, Busy, Goto, locals, history
<1>1. TypeOK'
  <2>1. disturbed' \subseteq Sessions /\ contested' \subseteq Callsigns
    BY DEF Connect, Overlap
  <2>2. pc' \in [Sessions -> Busy \cup {"fresh", "login", "loop", "gone"}] /\ about' \in [Sessions -> Callsigns]
    BY DEF Connect
  <2>3. /\ owner' \in [Callsigns -> Sessions \cup {NoSession}] /\ plan' \in [Sessions -> Plans \cup {NoPlan}]
        /\ found' \in [Sessions -> Sessions \cup {NoSession}] /\ budget' \in 0..Budget
    BY DEF Connect
  <2>4. \A d \in Sessions : pc'[d] \in {"store", "load"} => found'[d] # NoSession
    BY DEF Connect
  <2>5. text' \in [Sessions -> Plans \cup {NoPlan}] /\ pending' \in [Sessions -> SUBSET Controllers]
    BY DEF Connect
  <2>6. screen' \in [Sessions -> [Callsigns -> Plans \cup {NoPlan}]]
    BY DEF Connect
  <2>7. cancelled' \subseteq Sessions /\ meant' \in [Sessions -> SUBSET Plans]
    BY DEF Connect
  <2> QED BY <2>1, <2>2, <2>3, <2>4, <2>5, <2>6, <2>7
<1>2. OwnersOnline'
  BY DEF Connect, OwnersOnline
<1>3. LocalsFit'
  BY DEF Connect, LocalsFit
<1>4. OverlapsNoticed'
  BY DEF Connect, Overlap, OverlapsNoticed
<1>5. Progress'
  BY DEF Connect, Overlap, Progress, LocalsFit, Alone, Current, Live, Online, Broadcasting
<1>6. Agreement'
  BY DEF Connect, Overlap, Progress, LocalsFit, OverlapsNoticed, Agreement, Alone, Current, Live, Online,
     Announcing, Agrees
<1>7. PlansStayWithTheirOwners' /\ TextsAddressed'
  BY DEF Connect, PlansStayWithTheirOwners, TextsAddressed
<1> QED BY <1>1, <1>2, <1>3, <1>4, <1>5, <1>6, <1>7

\* A login succeeds: nothing is known of the callsign that was not known before.
LEMMA WelcomeKeeps ==
  ASSUME FInv, NEW s \in Sessions, Welcome(s)
  PROVE  FInv'
<1> USE FlightPlanAssumption DEF FInv, TypeOK, Busy, Goto, locals, history
<1>1. TypeOK'
  BY DEF Welcome
<1>2. OwnersOnline'
  BY DEF Welcome, OwnersOnline
<1>3. LocalsFit'
  BY DEF Welcome, LocalsFit
<1>4. OverlapsNoticed'
  BY DEF Welcome, OverlapsNoticed
<1>5. Progress'
  BY DEF Welcome, Progress, Alone, Current, Live, Online
<1>6. Agreement'
  BY DEF Welcome, Agreement, Current, Live, Online, Announcing, Agrees
<1>7. PlansStayWithTheirOwners' /\ TextsAddressed'
  BY DEF Welcome, PlansStayWithTheirOwners, TextsAddressed
<1> QED BY <1>1, <1>2, <1>3, <1>4, <1>5, <1>6, <1>7

\* A login fails: nothing more is said of its callsign.
LEMMA LoginFailsKeeps ==
  ASSUME FInv, NEW s \in Sessions, LoginFails(s)
  PROVE  FInv'
<1> USE FlightPlanAssumption DEF FInv, TypeOK, Busy, Goto, locals, history
<1>0. about[s] = CallsignOf[s] /\ text[s] = NoPlan
  BY DEF LoginFails, LocalsFit
<1>1. TypeOK'
  BY DEF LoginFails
<1>2. OwnersOnline'
  BY DEF LoginFails, OwnersOnline
<1>3. LocalsFit'
  BY <1>0 DEF LoginFails, LocalsFit
<1>4. OverlapsNoticed'
  BY <1>0 DEF LoginFails, OverlapsNoticed
<1>5. Progress'
  BY <1>0 DEF LoginFails, Progress, Alone, Current, Live, Online
<1>6. Agreement'
  BY <1>0 DEF LoginFails, Agreement, Current, Live, Online, Announcing, Agrees
<1>7. PlansStayWithTheirOwners' /\ TextsAddressed'
  BY DEF LoginFails, PlansStayWithTheirOwners, TextsAddressed
<1> QED BY <1>1, <1>2, <1>3, <1>4, <1>5, <1>6, <1>7

\* One controller less whose screen is of interest.
LEMMA CancelKeeps ==
  ASSUME FInv, NEW s \in Sessions, Cancel(s)
  PROVE  FInv'
<1> USE FlightPlanAssumption DEF FInv, TypeOK, Busy, locals, history
<1>0. \A r \in Sessions : Live(r)' => Live(r)
  BY DEF Cancel, Live, Online
<1>1. TypeOK'
  BY DEF Cancel
<1>2. OwnersOnline' /\ LocalsFit' /\ OverlapsNoticed'
  BY DEF Cancel, OwnersOnline, LocalsFit, OverlapsNoticed
<1>3. Progress'
  BY <1>0 DEF Cancel, Progress, Alone, Current
<1>4. Agreement'
  BY <1>0 DEF Cancel, Agreement, Current, Announcing, Agrees
<1>5. PlansStayWithTheirOwners' /\ TextsAddressed'
  BY DEF Cancel, PlansStayWithTheirOwners, TextsAddressed
<1> QED BY <1>1, <1>2, <1>3, <1>4, <1>5

\* A farewell starts: it is about the callsign of its sender.
LEMMA LeaveKeeps ==
  ASSUME FInv, NEW s \in Sessions, Leave(s)
  PROVE  FInv'
<1> USE FlightPlanAssumption DEF FInv, TypeOK, Busy, Goto, locals, history
<1>1. TypeOK'
  <2>1. disturbed' \subseteq Sessions /\ contested' \subseteq Callsigns
    BY DEF Leave, Begin, Overlap
  <2>2. pc' \in [Sessions -> Busy \cup {"fresh", "login", "loop", "gone"}] /\ about' \in [Sessions -> Callsigns]
    BY DEF Leave, Begin
  <2>3. /\ owner' \in [Callsigns -> Sessions \cup {NoSession}] /\ plan' \in [Sessions -> Plans \cup {NoPlan}]
        /\ found' \in [Sessions -> Sessions \cup {NoSession}] /\ budget' \in 0..Budget
    BY DEF Leave
  <2>4. \A d \in Sessions : pc'[d] \in {"store", "load"} => found'[d] # NoSession
    BY DEF Leave
  <2>5. text' \in [Sessions -> Plans \cup {NoPlan}] /\ pending' \in [Sessions -> SUBSET Controllers]
    BY DEF Leave, Begin
  <2>6. screen' \in [Sessions -> [Callsigns -> Plans \cup {NoPlan}]]
    BY DEF Leave
  <2>7. cancelled' \subseteq Sessions /\ meant' \in [Sessions -> SUBSET Plans]
    BY DEF Leave
  <2> QED BY <2>1, <2>2, <2>3, <2>4, <2>5, <2>6, <2>7
<1>2. OwnersOnline'
  BY DEF Leave, OwnersOnline
<1>3. LocalsFit'
  BY DEF Leave, Begin, LocalsFit
<1>4. OverlapsNoticed'
  BY DEF Leave, Begin, Overlap, OverlapsNoticed
<1>5. Progress'
  BY DEF Leave, Begin, Overlap, Progress, Alone, Current, Live, Online
<1>6. Agreement'
  BY DEF Leave, Begin, Overlap, OwnersOnline, LocalsFit, Agreement, Current, Live, Online, Announcing, Agrees
<1>7. PlansStayWithTheirOwners' /\ TextsAddressed'
  BY DEF Leave, Begin, PlansStayWithTheirOwners, TextsAddressed
<1> QED BY <1>1, <1>2, <1>3, <1>4, <1>5, <1>6, <1>7

\* The callsign is given back: nothing is on file for it any more.
LEMMA ReleaseKeeps ==
  ASSUME FInv, NEW s \in Sessions, Release(s)
  PROVE  FInv'
<1> USE FlightPlanAssumption DEF FInv, TypeOK, Busy, Goto, locals, history
<1>1. TypeOK'
  BY DEF Release, Return
<1>2. OwnersOnline'
  <2>1. owner[CallsignOf[s]] = s /\ pc[s] = "release"
    BY DEF Release, OwnersOnline
  <2>2. /\ \A cs \in Callsigns : owner'[cs] = IF cs = CallsignOf[s] THEN NoSession ELSE owner[cs]
        /\ \A d \in Sessions : pc'[d] = IF d = s THEN "gone" ELSE pc[d]
    BY DEF Release, Return
  <2> QED BY <2>1, <2>2 DEF OwnersOnline
<1>3. LocalsFit'
  BY DEF Release, Return, LocalsFit
<1>4. OverlapsNoticed'
  BY DEF Release, Return, OverlapsNoticed
<1>5. Progress'
  BY DEF Release, Return, Progress, LocalsFit, OverlapsNoticed, Alone, Current, Live, Online
<1>6. Agreement'
  BY DEF Release, Return, Progress, LocalsFit, OverlapsNoticed, Agreement, Alone, Current, Live, Online,
     Broadcasting, Announcing, Agrees
<1>7. PlansStayWithTheirOwners' /\ TextsAddressed'
  BY DEF Release, Return, PlansStayWithTheirOwners, TextsAddressed
<1> QED BY <1>1, <1>2, <1>3, <1>4, <1>5, <1>6, <1>7

\* A plan is filed: its sender shows it, everyone else is about to.
LEMMA FileKeeps ==
  ASSUME FInv, NEW s \in Sessions, NEW p \in Plans, File(s, p)
  PROVE  FInv'
<1> USE FlightPlanAssumption DEF FInv, TypeOK, Busy, Goto, locals, history
<1>1. TypeOK'
  <2>1. disturbed' \subseteq Sessions /\ contested' \subseteq Callsigns
    BY DEF File, Begin, Overlap
  <2>2. pc' \in [Sessions -> Busy \cup {"fresh", "login", "loop", "gone"}] /\ about' \in [Sessions -> Callsigns]
    BY DEF File, Begin
  <2>3. /\ owner' \in [Callsigns -> Sessions \cup {NoSession}] /\ plan' \in [Sessions -> Plans \cup {NoPlan}]
        /\ found' \in [Sessions -> Sessions \cup {NoSession}] /\ budget' \in 0..Budget
    BY DEF File, Spend
  <2>4. \A d \in Sessions : pc'[d] \in {"store", "load"} => found'[d] # NoSession
    BY DEF File
  <2>5. text' \in [Sessions -> Plans \cup {NoPlan}] /\ pending' \in [Sessions -> SUBSET Controllers]
    BY DEF File, Begin
  <2>6. screen' \in [Sessions -> [Callsigns -> Plans \cup {NoPlan}]]
    BY DEF File
  <2>7. cancelled' \subseteq Sessions /\ meant' \in [Sessions -> SUBSET Plans]
    BY DEF File, Mean
  <2> QED BY <2>1, <2>2, <2>3, <2>4, <2>5, <2>6, <2>7
<1>2. OwnersOnline'
  BY DEF File, OwnersOnline
<1>3. LocalsFit'
  BY DEF File, Begin, LocalsFit
<1>4. OverlapsNoticed'
  BY DEF File, Begin, Overlap, OverlapsNoticed
<1>5. Progress'
  <2>1. /\ pc[s] = "loop" /\ pc' = [pc EXCEPT ![s] = "announce"]
        /\ plan' = [plan EXCEPT ![s] = p]
        /\ screen' = [screen EXCEPT ![s][CallsignOf[s]] = p]
        /\ about' = [about EXCEPT ![s] = CallsignOf[s]] /\ text' = [text EXCEPT ![s] = p]
        /\ UNCHANGED <<owner, cancelled, found, pending>>
    BY DEF File, Begin
  <2>2. disturbed \subseteq disturbed' /\ contested \subseteq contested'
    BY DEF File, Begin, Overlap
  <2>3. owner[CallsignOf[s]] = s
    <3>1. pc[s] = "loop"
      BY <2>1
    <3> QED BY <3>1 DEF OwnersOnline
  <2>4. ASSUME NEW d \in Sessions \ {s}, Alone(d)'
        PROVE  Alone(d) /\ about[d] # CallsignOf[s] /\ Current(about[d])' = Current(about[d])
    <3>1. about[d] # CallsignOf[s] /\ pc[d] \in Busy /\ pc'[d] = pc[d] /\ about'[d] = about[d]
      BY <2>4 DEF File, Begin, Overlap, Alone
    <3>2. owner[about[d]] # s
      BY <3>1 DEF OwnersOnline
    <3> QED BY <2>1, <2>2, <2>4, <3>1, <3>2 DEF Alone, Current
  <2>5. ASSUME NEW d \in Sessions \ {s}, Alone(d)'
        PROVE  /\ pc'[d] = pc[d] /\ about'[d] = about[d] /\ text'[d] = text[d]
               /\ found'[d] = found[d] /\ pending'[d] = pending[d] /\ UNCHANGED owner
               /\ \A r \in Sessions : screen'[r][about[d]] = screen[r][about[d]]
               /\ \A r \in Sessions : Live(r)' = Live(r)
    BY <2>1, <2>4, <2>5 DEF Live, Online
  <2> QED BY <2>1, <2>3, <2>4, <2>5 DEF Progress, Current
<1>6. Agreement'
  BY DEF File, Begin, Overlap, Spend, OwnersOnline, LocalsFit, Agreement, Alone, Current, Live, Online,
     Announcing, Agrees
<1>7. PlansStayWithTheirOwners' /\ TextsAddressed'
  BY DEF File, Begin, Mean, PlansStayWithTheirOwners, TextsAddressed
<1> QED BY <1>1, <1>2, <1>3, <1>4, <1>5, <1>6, <1>7

\* The target of an amendment is looked up.
LEMMA AmendKeeps ==
  ASSUME FInv, NEW s \in Sessions, NEW cs \in Callsigns, NEW p \in Plans, Amend(s, cs, p)
  PROVE  FInv'
<1> USE FlightPlanAssumption DEF FInv, TypeOK, Busy, Goto, locals, history
<1>0. owner[cs] \in Sessions
  BY DEF Amend, Find
<1>1. TypeOK'
  <2>1. disturbed' \subseteq Sessions /\ contested' \subseteq Callsigns
    BY DEF Amend, Find, Begin, Overlap
  <2>2. pc' \in [Sessions -> Busy \cup {"fresh", "login", "loop", "gone"}] /\ about' \in [Sessions -> Callsigns]
    BY DEF Amend, Find, Begin
  <2>3. /\ found' \in [Sessions -> Sessions \cup {NoSession}] /\ budget' \in 0..Budget
        /\ UNCHANGED <<owner, cancelled, plan, pending, screen>>
    BY <1>0 DEF Amend, Find, Spend
  <2>4. \A d \in Sessions : pc'[d] \in {"store", "load"} => found'[d] # NoSession
    BY <1>0 DEF Amend, Find
  <2>5. text' \in [Sessions -> Plans \cup {NoPlan}] /\ meant' \in [Sessions -> SUBSET Plans]
    <3>1. text' = [text EXCEPT ![s] = p] /\ meant' = [meant EXCEPT ![owner[cs]] = @ \cup {p}]
      BY DEF Amend, Find, Begin, Mean
    <3> QED BY <1>0, <3>1
  <2> QED BY <2>1, <2>2, <2>3, <2>4, <2>5
<1>2. OwnersOnline'
  BY DEF Amend, Find, OwnersOnline
<1>3. LocalsFit'
  BY DEF Amend, Find, Begin, LocalsFit, OwnersOnline
<1>4. OverlapsNoticed'
  BY DEF Amend, Find, Begin, Overlap, OverlapsNoticed
<1>5. Progress'
  BY DEF Amend, Find, Begin, Overlap, Progress, Alone, Current, Live, Online
<1>6. Agreement'
  <2>1. /\ UNCHANGED <<owner, cancelled, plan, screen>> /\ contested \subseteq contested'
        /\ pc[s] = "loop" /\ pc' = [pc EXCEPT ![s] = "store"] /\ about' = [about EXCEPT ![s] = cs]
    BY DEF Amend, Find, Begin, Overlap
  <2>2. \A d \in Sessions : (Announcing(d)' <=> Announcing(d)) /\ (Announcing(d) => about'[d] = about[d])
    BY <2>1 DEF Announcing
  <2> QED BY <2>1, <2>2 DEF Agreement, Agrees, Current, Live, Online
<1>7. PlansStayWithTheirOwners' /\ TextsAddressed'
  <2>1. /\ pc' = [pc EXCEPT ![s] = "store"] /\ UNCHANGED plan
        /\ found' = [found EXCEPT ![s] = owner[cs]] /\ text' = [text EXCEPT ![s] = p]
        /\ meant' = [meant EXCEPT ![owner[cs]] = @ \cup {p}]
    BY DEF Amend, Find, Begin, Mean
  <2>2. \A d \in Sessions : meant[d] \subseteq meant'[d]
    BY <1>0, <2>1
  <2>3. PlansStayWithTheirOwners'
    BY <2>1, <2>2 DEF PlansStayWithTheirOwners
  <2>4. TextsAddressed'
    BY <1>0, <2>1, <2>2 DEF TextsAddressed
  <2> QED BY <2>3, <2>4
<1> QED BY <1>1, <1>2, <1>3, <1>4, <1>5, <1>6, <1>7

\* The target of a query is looked up.
LEMMA QueryKeeps ==
  ASSUME FInv, NEW s \in Sessions, NEW cs \in Callsigns, Query(s, cs)
  PROVE  FInv'
<1> USE FlightPlanAssumption DEF FInv, TypeOK, Busy, Goto, locals, history
<1>1. TypeOK'
  BY DEF Query, Find, Begin, Overlap, Spend
<1>2. OwnersOnline'
  BY DEF Query, Find, OwnersOnline
<1>3. LocalsFit'
  BY DEF Query, Find, Begin, LocalsFit, OwnersOnline
<1>4. OverlapsNoticed'
  BY DEF Query, Find, Begin, Overlap, OverlapsNoticed
<1>5. Progress'
  BY DEF Query, Find, Begin, Overlap, Progress, Alone, Current, Live, Online
<1>6. Agreement'
  <2>1. /\ UNCHANGED <<owner, cancelled, plan, screen>> /\ contested \subseteq contested'
        /\ pc[s] = "loop" /\ pc' = [pc EXCEPT ![s] = "load"] /\ about' = [about EXCEPT ![s] = cs]
    BY DEF Query, Find, Begin, Overlap
  <2>2. \A d \in Sessions : (Announcing(d)' <=> Announcing(d)) /\ (Announcing(d) => about'[d] = about[d])
    BY <2>1 DEF Announcing
  <2> QED BY <2>1, <2>2 DEF Agreement, Agrees, Current, Live, Online
<1>7. PlansStayWithTheirOwners' /\ TextsAddressed'
  BY DEF Query, Find, Begin, PlansStayWithTheirOwners, TextsAddressed
<1> QED BY <1>1, <1>2, <1>3, <1>4, <1>5, <1>6, <1>7

\* The plan of the target changes: only its callsign is concerned.
LEMMA AmendStoreKeeps ==
  ASSUME FInv, NEW s \in Sessions, AmendStore(s)
  PROVE  FInv'
<1> USE FlightPlanAssumption DEF FInv, TypeOK, Busy, Goto, locals, history
<1>1. TypeOK'
  BY DEF AmendStore
<1>2. OwnersOnline'
  BY DEF AmendStore, OwnersOnline
<1>3. LocalsFit'
  BY DEF AmendStore, LocalsFit
<1>4. OverlapsNoticed'
  BY DEF AmendStore, OverlapsNoticed
<1>5. Progress'
  BY DEF AmendStore, Progress, OwnersOnline, LocalsFit, OverlapsNoticed, Alone, Current, Live, Online, Agrees
<1>6. Agreement'
  BY DEF AmendStore, OwnersOnline, LocalsFit, Agreement, Current, Live, Online, Announcing, Agrees
<1>7. PlansStayWithTheirOwners' /\ TextsAddressed'
  BY DEF AmendStore, PlansStayWithTheirOwners, TextsAddressed
<1> QED BY <1>1, <1>2, <1>3, <1>4, <1>5, <1>6, <1>7

\* A plan is read.
LEMMA QueryLoadKeeps ==
  ASSUME FInv, NEW s \in Sessions, QueryLoad(s)
  PROVE  FInv'
<1> USE FlightPlanAssumption DEF FInv, TypeOK, Busy, Goto, locals, history
<1>1. TypeOK'
  BY DEF QueryLoad
<1>2. OwnersOnline'
  BY DEF QueryLoad, OwnersOnline
<1>3. LocalsFit'
  BY DEF QueryLoad, LocalsFit
<1>4. OverlapsNoticed'
  BY DEF QueryLoad, OverlapsNoticed
<1>5. Progress'
  BY DEF QueryLoad, Progress, Alone, Current, Live, Online
<1>6. Agreement'
  <2>1. /\ UNCHANGED <<owner, cancelled, plan, about, screen, contested>>
        /\ pc[s] = "load" /\ pc' = [pc EXCEPT ![s] = "reply"]
    BY DEF QueryLoad
  <2>2. \A d \in Sessions : Announcing(d)' <=> Announcing(d)
    BY <2>1 DEF Announcing
  <2> QED BY <2>1, <2>2 DEF Agreement, Agrees, Current, Live, Online
<1>7. PlansStayWithTheirOwners' /\ TextsAddressed'
  BY DEF QueryLoad, PlansStayWithTheirOwners, TextsAddressed
<1> QED BY <1>1, <1>2, <1>3, <1>4, <1>5, <1>6, <1>7

\* The controller who asked shows the plan that was read.
LEMMA QueryReplyKeeps ==
  ASSUME FInv, NEW s \in Sessions, QueryReply(s)
  PROVE  FInv'
<1> USE FlightPlanAssumption DEF FInv, TypeOK, Busy, Goto, locals, history
<1>0. screen' = [screen EXCEPT ![s][about[s]] = text[s]] \/ (UNCHANGED screen)
  BY DEF QueryReply, Send
<1>1. TypeOK'
  <2>1. screen' \in [Sessions -> [Callsigns -> Plans \cup {NoPlan}]]
    <3>1. CASE UNCHANGED screen
      BY <3>1
    <3>2. CASE screen' = [screen EXCEPT ![s][about[s]] = text[s]]
      BY <3>2
    <3> QED BY <1>0, <3>1, <3>2
  <2> QED BY <2>1 DEF QueryReply, Return
<1>2. OwnersOnline'
  BY <1>0 DEF QueryReply, Return, OwnersOnline
<1>3. LocalsFit'
  BY <1>0 DEF QueryReply, Return, LocalsFit
<1>4. OverlapsNoticed'
  BY <1>0 DEF QueryReply, Return, OverlapsNoticed
<1>5. Progress'
  <2>1. \A r \in Sessions, cs \in Callsigns : cs # about[s] => screen'[r][cs] = screen[r][cs]
    BY <1>0
  <2> QED BY <2>1 DEF QueryReply, Return, Progress, OverlapsNoticed, Alone, Current, Live, Online
<1>6. Agreement'
  <2>1. /\ UNCHANGED <<owner, cancelled, plan, contested>> /\ pc[s] = "reply"
        /\ pc' = [pc EXCEPT ![s] = "loop"] /\ about' = [about EXCEPT ![s] = CallsignOf[s]]
    BY DEF QueryReply, Return
  <2>2. \A d \in Sessions : (Announcing(d)' <=> Announcing(d)) /\ (Announcing(d) => about'[d] = about[d])
    BY <2>1 DEF Announcing
  <2>3. about[s] \notin contested => text[s] \in {NoPlan, Current(about[s])}
    BY <2>1 DEF Progress, Alone
  <2>4. SUFFICES ASSUME NEW r \in Controllers, NEW cs \in Callsigns, Live(r), cs \notin contested,
                        \A d \in Sessions : Announcing(d) => about[d] # cs
                 PROVE  screen'[r][cs] \in {NoPlan, Current(cs)}
    BY <2>1, <2>2 DEF Agreement, Agrees, Current, Live, Online
  <2>5. screen[r][cs] \in {NoPlan, Current(cs)}
    BY <2>4 DEF Agreement, Agrees
  <2>6. CASE r = s /\ cs = about[s]
    BY <1>0, <2>3, <2>4, <2>5, <2>6
  <2>7. CASE ~(r = s /\ cs = about[s])
    <3>1. screen'[r][cs] = screen[r][cs]
      BY <1>0, <2>7
    <3> QED BY <2>5, <3>1
  <2> QED BY <2>6, <2>7
<1>7. PlansStayWithTheirOwners' /\ TextsAddressed'
  BY <1>0 DEF QueryReply, Return, PlansStayWithTheirOwners, TextsAddressed
<1> QED BY <1>1, <1>2, <1>3, <1>4, <1>5, <1>6, <1>7

\* Whoever is online now will be reached.
LEMMA BroadcastBeginKeeps ==
  ASSUME FInv, NEW s \in Sessions, BroadcastBegin(s)
  PROVE  FInv'
<1> USE FlightPlanAssumption DEF FInv, TypeOK, Busy, Goto, locals, history
<1>1. TypeOK'
  BY DEF BroadcastBegin
<1>2. OwnersOnline'
  BY DEF BroadcastBegin, OwnersOnline
<1>3. LocalsFit'
  <2>1. \A r \in Controllers : Online(r) => pc[r] # "fresh"
    BY DEF OwnersOnline, Live, Online
  <2>2. /\ pc[s] = "announce" /\ pc' = [pc EXCEPT ![s] = "broadcast"]
        /\ UNCHANGED <<plan, found, about, text, screen>>
        /\ \A d \in Sessions : pending'[d] \subseteq pending[d] \cup {r \in Controllers : Online(r)}
    BY DEF BroadcastBegin
  <2> QED BY <2>1, <2>2 DEF LocalsFit
<1>4. OverlapsNoticed'
  BY DEF BroadcastBegin, OverlapsNoticed
<1>5. Progress'
  BY DEF BroadcastBegin, Progress, Alone, Current, Live, Online
<1>6. Agreement'
  BY DEF BroadcastBegin, Agreement, Current, Live, Online, Announcing, Agrees
<1>7. PlansStayWithTheirOwners' /\ TextsAddressed'
  BY DEF BroadcastBegin, PlansStayWithTheirOwners, TextsAddressed
<1> QED BY <1>1, <1>2, <1>3, <1>4, <1>5, <1>6, <1>7

\* One more controller shows the plan.
LEMMA BroadcastToKeeps ==
  ASSUME FInv, NEW s \in Sessions, NEW r \in Controllers, BroadcastTo(s, r)
  PROVE  FInv'
<1> USE FlightPlanAssumption DEF FInv, TypeOK, Busy, Goto, locals, history
<1>0. screen' = [screen EXCEPT ![r][about[s]] = text[s]] \/ (UNCHANGED screen /\ r \in cancelled)
  BY DEF BroadcastTo, Send
<1>1. TypeOK'
  <2>1. screen' \in [Sessions -> [Callsigns -> Plans \cup {NoPlan}]]
    <3>1. CASE UNCHANGED screen
      BY <3>1
    <3>2. CASE screen' = [screen EXCEPT ![r][about[s]] = text[s]]
      BY <3>2
    <3> QED BY <1>0, <3>1, <3>2
  <2> QED BY <2>1 DEF BroadcastTo
<1>2. OwnersOnline'
  BY <1>0 DEF BroadcastTo, OwnersOnline
<1>3. LocalsFit'
  BY <1>0 DEF BroadcastTo, LocalsFit
<1>4. OverlapsNoticed'
  BY <1>0 DEF BroadcastTo, OverlapsNoticed
<1>5. Progress'
  BY <1>0 DEF BroadcastTo, Progress, OverlapsNoticed, Alone, Current, Live, Online
<1>6. Agreement'
  BY <1>0 DEF BroadcastTo, Agreement, Current, Live, Online, Announcing, Agrees
<1>7. PlansStayWithTheirOwners' /\ TextsAddressed'
  BY <1>0 DEF BroadcastTo, PlansStayWithTheirOwners, TextsAddressed
<1> QED BY <1>1, <1>2, <1>3, <1>4, <1>5, <1>6, <1>7

\* Everyone online shows the plan, or nothing after a farewell.
LEMMA BroadcastEndKeeps ==
  ASSUME FInv, NEW s \in Sessions, BroadcastEnd(s)
  PROVE  FInv'
<1> USE FlightPlanAssumption DEF FInv, TypeOK, Busy, Goto, locals, history
<1>1. TypeOK'
  <2>1. disturbed' \subseteq Sessions /\ contested' \subseteq Callsigns
    BY DEF BroadcastEnd, Return, Agreed
  <2>2. pc' \in [Sessions -> Busy \cup {"fresh", "login", "loop", "gone"}] /\ about' \in [Sessions -> Callsigns]
    <3>1. \/ pc' = [pc EXCEPT ![s] = "release"] /\ about' = about
          \/ pc' = [pc EXCEPT ![s] = "loop"] /\ about' = [about EXCEPT ![s] = CallsignOf[s]]
      BY DEF BroadcastEnd, Return
    <3>2. CASE pc' = [pc EXCEPT ![s] = "release"] /\ about' = about
      BY <3>2
    <3>3. CASE pc' = [pc EXCEPT ![s] = "loop"] /\ about' = [about EXCEPT ![s] = CallsignOf[s]]
      BY <3>3
    <3> QED BY <3>1, <3>2, <3>3
  <2>3. /\ owner' \in [Callsigns -> Sessions \cup {NoSession}] /\ plan' \in [Sessions -> Plans \cup {NoPlan}]
        /\ found' \in [Sessions -> Sessions \cup {NoSession}] /\ budget' \in 0..Budget
    <3>1. found' \in {found, [found EXCEPT ![s] = NoSession]}
      BY DEF BroadcastEnd, Return
    <3>2. UNCHANGED <<owner, plan, budget>>
      BY DEF BroadcastEnd
    <3> QED BY <3>1, <3>2
  <2>4. \A d \in Sessions : pc'[d] \in {"store", "load"} => found'[d] # NoSession
    BY DEF BroadcastEnd, Return
  <2>5. text' \in [Sessions -> Plans \cup {NoPlan}] /\ pending' \in [Sessions -> SUBSET Controllers]
    BY DEF BroadcastEnd, Return
  <2>6. screen' \in [Sessions -> [Callsigns -> Plans \cup {NoPlan}]]
    BY DEF BroadcastEnd
  <2>7. cancelled' \subseteq Sessions /\ meant' \in [Sessions -> SUBSET Plans]
    BY DEF BroadcastEnd
  <2> QED BY <2>1, <2>2, <2>3, <2>4, <2>5, <2>6, <2>7
<1>2. OwnersOnline'
  BY DEF BroadcastEnd, Return, OwnersOnline
<1>3. LocalsFit'
  BY DEF BroadcastEnd, Return, LocalsFit
<1>4. OverlapsNoticed'
  BY DEF BroadcastEnd, Return, Agreed, OverlapsNoticed
<1>5. Progress'
  <2>1. /\ pc[s] = "broadcast" /\ pending[s] = {}
        /\ UNCHANGED <<owner, cancelled, plan, pending, screen>>
        /\ contested' = IF s \in disturbed THEN contested ELSE contested \ {about[s]}
    BY DEF BroadcastEnd, Agreed
  <2>2. \/ text[s] = NoPlan /\ pc' = [pc EXCEPT ![s] = "release"] /\ UNCHANGED <<found, about, text, disturbed>>
        \/ text[s] # NoPlan /\ pc' = [pc EXCEPT ![s] = "loop"]
    BY DEF BroadcastEnd, Return
  <2>3. ASSUME NEW d \in Sessions \ {s}
        PROVE  /\ pc'[d] = pc[d] /\ found'[d] = found[d] /\ about'[d] = about[d] /\ text'[d] = text[d]
               /\ d \in disturbed' <=> d \in disturbed
    BY DEF BroadcastEnd, Return
  <2>4. ASSUME NEW d \in Sessions \ {s}, Alone(d)' PROVE Alone(d)
    BY <2>1, <2>3, <2>4 DEF Alone, OverlapsNoticed
  <2>5. ASSUME Alone(s)'
        PROVE  /\ pc'[s] = "release" /\ about'[s] = about[s]
               /\ \A r \in Controllers \ {s} : Live(r) => screen[r][about[s]] = NoPlan
    <3>1. text[s] = NoPlan /\ pc'[s] = "release" /\ UNCHANGED <<about, disturbed>>
      BY <2>2, <2>5 DEF Alone
    <3>2. Alone(s)
      BY <2>1, <2>5, <3>1 DEF Alone
    <3> QED BY <2>1, <3>1, <3>2 DEF Progress, Live
  <2>6. \A r \in Sessions : Live(r)' = Live(r)
    BY <2>1 DEF Live, Online
  <2> QED BY <2>1, <2>3, <2>4, <2>5, <2>6 DEF Progress, Current
<1>6. Agreement'
  BY DEF BroadcastEnd, Return, Agreed, Progress, OwnersOnline, OverlapsNoticed, Agreement, Alone,
     Current, Live, Online, Broadcasting, Announcing, Agrees
<1>7. PlansStayWithTheirOwners' /\ TextsAddressed'
  BY DEF BroadcastEnd, Return, PlansStayWithTheirOwners, TextsAddressed
<1> QED BY <1>1, <1>2, <1>3, <1>4, <1>5, <1>6, <1>7

\* Nobody is connected at first.
LEMMA FInvInit == Init => FInv
<1> SUFFICES ASSUME Init PROVE FInv
  OBVIOUS
<1> USE FlightPlanAssumption DEF Init
<1>1. TypeOK
  BY DEF TypeOK
<1>2. OwnersOnline /\ LocalsFit /\ OverlapsNoticed
  BY DEF OwnersOnline, LocalsFit, OverlapsNoticed, Busy
<1>3. Progress /\ Agreement
  BY DEF Progress, Agreement, Agrees
<1>4. PlansStayWithTheirOwners /\ TextsAddressed
  BY DEF PlansStayWithTheirOwners, TextsAddressed
<1> QED BY <1>1, <1>2, <1>3, <1>4 DEF FInv

\* Every step preserves the invariant.
LEMMA FInvNext == FInv /\ [Next]_vars => FInv'
<1> SUFFICES ASSUME FInv, [Next]_vars PROVE FInv'
  OBVIOUS
<1>1. CASE UNCHANGED vars
  BY <1>1 DEF vars, locals, history, FInv, TypeOK, OwnersOnline, LocalsFit, OverlapsNoticed,
     Progress, Alone, Current, Live, Online, Agreement, Agrees, Announcing, PlansStayWithTheirOwners,
     TextsAddressed
<1> QED BY <1>1, ConnectKeeps, WelcomeKeeps, LoginFailsKeeps, CancelKeeps, LeaveKeeps, ReleaseKeeps, FileKeeps, AmendKeeps, QueryKeeps,
           AmendStoreKeeps, QueryLoadKeeps, QueryReplyKeeps, BroadcastBeginKeeps, BroadcastToKeeps,
           BroadcastEndKeeps DEF Next

-----------------------------------------------------------------------------
(* The properties, for every value of the constants.                       *)

\* The inductive invariant holds in every reachable state.
THEOREM FlightPlanInvariant == Spec => []FInv
<1>1. Init => FInv
  BY FInvInit
<1>2. FInv /\ [Next]_vars => FInv'
  BY FInvNext
<1> QED BY <1>1, <1>2, PTL DEF Spec

\* Type correctness; in particular a handler that goes on after find has found
\* somebody (handler.go handleAmendFlightplan).
THEOREM FlightPlanTypes == Spec => []TypeOK
<1>1. FInv => TypeOK
  BY DEF FInv
<1> QED BY <1>1, FlightPlanInvariant, PTL

\* Once nobody is at work on a callsign whose plan was last announced
\* undisturbed, every controller who shows a plan for it shows the one on file
\* (handler.go handleFileFlightplan, handleAmendFlightplan).
THEOREM ScreensAlwaysAgree == Spec => []ScreensAgree
<1>1. FInv => ScreensAgree
  BY DEF FInv, Agreement, ScreensAgree, Agrees, Announcing, Busy
<1> QED BY <1>1, FlightPlanInvariant, PTL

\* Nobody has a plan on file that was meant for somebody else: an amendment ends
\* in the session that was looked up, also when another one has taken the callsign
\* over before it is stored (handler.go handleAmendFlightplan).
THEOREM PlansNeverStray == Spec => []PlansStayWithTheirOwners
<1>1. FInv => PlansStayWithTheirOwners
  BY DEF FInv
<1> QED BY <1>1, FlightPlanInvariant, PTL

\* The callsigns are handed on as the registry promises: whoever connects has none and takes one that is free,
\* and only who leaves gives one back (postoffice.go register, release).
THEOREM Implementation == Spec => ImplementsRegistry
<1>1. Init => R!RegInit
  BY DEF Init, R!RegInit
<1>2. FInv /\ [Next]_vars => [R!RegNext]_(R!regVars)
  <2> SUFFICES ASSUME FInv, Next, owner' # owner PROVE R!RegNext
    BY DEF R!regVars, vars
  <2>1. ASSUME NEW s \in Sessions, Connect(s) PROVE R!RegNext
    <3>1. R!Claim(s, CallsignOf[s])
      <4>1. ~R!Owns(s)
        BY <2>1 DEF FInv, OwnersOnline, Connect, R!Owns
      <4> QED BY <2>1, <4>1 DEF Connect, R!Claim
    <3> QED BY <3>1, FlightPlanAssumption DEF R!RegNext
  <2>2. ASSUME NEW s \in Sessions, Release(s) PROVE R!RegNext
    <3>1. owner[CallsignOf[s]] = s
      BY <2>2, FlightPlanAssumption DEF FInv, OwnersOnline, Release
    <3>2. R!Yield(s, CallsignOf[s])
      BY <2>2, <3>1 DEF Release, R!Yield
    <3> QED BY <3>2, FlightPlanAssumption DEF R!RegNext
  <2> QED BY <2>1, <2>2 DEF Next, Welcome, LoginFails, Cancel, Leave, File, Amend, Query, Find, AmendStore, QueryLoad, QueryReply,
             BroadcastBegin, BroadcastTo, BroadcastEnd
<1> QED BY <1>1, <1>2, FlightPlanInvariant, PTL DEF Spec, ImplementsRegistry, R!RegSpec
=============================================================================
