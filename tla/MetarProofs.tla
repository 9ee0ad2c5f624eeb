----------------------------- MODULE MetarProofs -----------------------------
(***************************************************************************)
(* No weather request is lost or answered twice, for any number of clients *)
(* and workers and any capacities.  A request is counted where it is: in   *)
(* the event loop of its client, in the queue, or with a worker.  The      *)
(* lemmas say how each of the counts moves; RequestsConserved is then a    *)
(* sum in which what one place loses the next one gains.                   *)
(***************************************************************************)
EXTENDS Metar, FiniteSetTheorems, TLAPS

\* A worker has a request exactly while it fetches or sends.
ServingFits ==
  \A w \in Workers :
    IF stage[w] \in {"idle", "ended"} THEN serving[w] = NoClient ELSE serving[w] \in Clients

MInv == TypeOK /\ ServingFits /\ RequestsConserved

-----------------------------------------------------------------------------
(* Counting.                                                               *)

\* The places of a client in a queue, and the workers that serve it.
Places(queue, c) == {i \in DOMAIN queue : queue[i] = c}
Servers(of, c) == {w \in Workers : of[w] = c}

\* Places in a queue can be counted.
LEMMA PlacesCount ==
  ASSUME NEW queue \in Seq(Clients), NEW c
  PROVE  IsFiniteSet(Places(queue, c)) /\ Cardinality(Places(queue, c)) \in Nat
<1>1. Places(queue, c) \in SUBSET (1..Len(queue))
  BY DEF Places
<1>2. IsFiniteSet(1..Len(queue))
  BY FS_Interval
<1>. QED
  BY <1>1, <1>2, FS_Subset, FS_CardinalityType

\* Whoever is appended to a queue gains one place, and nobody else does.
LEMMA AppendCounts ==
  ASSUME NEW queue \in Seq(Clients), NEW d \in Clients, NEW c
  PROVE  Cardinality(Places(Append(queue, d), c))
           = Cardinality(Places(queue, c)) + (IF d = c THEN 1 ELSE 0)
<1>1. Places(Append(queue, d), c) = IF d = c THEN Places(queue, c) \cup {Len(queue) + 1} ELSE Places(queue, c)
  BY DEF Places
<1>2. Len(queue) + 1 \notin Places(queue, c)
  BY DEF Places
<1>3. IsFiniteSet(Places(queue, c)) /\ Cardinality(Places(queue, c)) \in Nat
  BY PlacesCount
<1>4. Cardinality(Places(queue, c) \cup {Len(queue) + 1}) = Cardinality(Places(queue, c)) + 1
  BY <1>2, <1>3, FS_AddElement
<1>. QED
  BY <1>1, <1>3, <1>4

\* Whoever is taken from the head of a queue loses one place, and nobody else does.
LEMMA TailCounts ==
  ASSUME NEW queue \in Seq(Clients), queue # <<>>, NEW c
  PROVE  Cardinality(Places(queue, c))
           = Cardinality(Places(Tail(queue), c)) + (IF Head(queue) = c THEN 1 ELSE 0)
<1>. DEFINE behind == Places(queue, c) \ {1}
            shift == [i \in Places(Tail(queue), c) |-> i + 1]
<1>0. Tail(queue) \in Seq(Clients)
  OBVIOUS
<1>1. IsFiniteSet(Places(Tail(queue), c)) /\ Cardinality(Places(Tail(queue), c)) \in Nat
  BY <1>0, PlacesCount
<1>2. ExistsBijection(Places(Tail(queue), c), behind)
  <2>1. ASSUME NEW i \in Places(Tail(queue), c)
        PROVE  i \in Nat /\ i + 1 \in behind
    <3>1. i \in 1..Len(Tail(queue)) /\ Len(Tail(queue)) = Len(queue) - 1 /\ Tail(queue)[i] = queue[i + 1]
      BY DEF Places
    <3>. QED
      BY <3>1 DEF Places
  <2>2. ASSUME NEW k \in behind
        PROVE  k - 1 \in Places(Tail(queue), c) /\ k = (k - 1) + 1
    BY DEF Places
  <2>3. shift \in Injection(Places(Tail(queue), c), behind)
    BY <2>1 DEF Injection, IsInjective
  <2>4. shift \in Surjection(Places(Tail(queue), c), behind)
    BY <2>1, <2>2 DEF Surjection
  <2>. QED
    BY <2>3, <2>4 DEF Bijection, ExistsBijection
<1>3. Cardinality(behind) = Cardinality(Places(Tail(queue), c))
  BY <1>1, <1>2, FS_Bijection
<1>4. 1 \in Places(queue, c) <=> Head(queue) = c
  BY DEF Places
<1>5. IsFiniteSet(Places(queue, c)) /\ Cardinality(Places(queue, c)) \in Nat
  BY PlacesCount
<1>6. Cardinality(behind) = IF 1 \in Places(queue, c) THEN Cardinality(Places(queue, c)) - 1
                                                     ELSE Cardinality(Places(queue, c))
  BY <1>5, FS_RemoveElement
<1>. QED
  BY <1>3, <1>4, <1>5, <1>6

\* The workers that serve a client can be counted.
LEMMA ServersCount ==
  ASSUME NEW of, NEW c
  PROVE  IsFiniteSet(Servers(of, c)) /\ Cardinality(Servers(of, c)) \in Nat
<1>1. Servers(of, c) \in SUBSET Workers /\ IsFiniteSet(Workers)
  BY MetarAssumption DEF Servers
<1>. QED
  BY <1>1, FS_Subset, FS_CardinalityType

\* A worker that was idle and takes a request serves its client now.
LEMMA TakingCounts ==
  ASSUME NEW of \in [Workers -> Clients \cup {NoClient}], NEW w \in Workers, NEW d \in Clients,
         of[w] = NoClient, NEW c \in Clients
  PROVE  Cardinality(Servers([of EXCEPT ![w] = d], c))
           = Cardinality(Servers(of, c)) + (IF d = c THEN 1 ELSE 0)
<1>1. w \notin Servers(of, c)
  BY MetarAssumption DEF Servers
<1>2. Servers([of EXCEPT ![w] = d], c) = IF d = c THEN Servers(of, c) \cup {w} ELSE Servers(of, c)
  BY <1>1 DEF Servers
<1>3. IsFiniteSet(Servers(of, c)) /\ Cardinality(Servers(of, c)) \in Nat
  BY ServersCount
<1>4. Cardinality(Servers(of, c) \cup {w}) = Cardinality(Servers(of, c)) + 1
  BY <1>1, <1>3, FS_AddElement
<1>. QED
  BY <1>2, <1>3, <1>4

\* A worker that has answered serves nobody.
LEMMA AnsweringCounts ==
  ASSUME NEW of \in [Workers -> Clients \cup {NoClient}], NEW w \in Workers, NEW c \in Clients
  PROVE  Cardinality(Servers([of EXCEPT ![w] = NoClient], c))
           = Cardinality(Servers(of, c)) - (IF of[w] = c THEN 1 ELSE 0)
<1>. DEFINE before == Servers(of, c)
            after == Servers([of EXCEPT ![w] = NoClient], c)
<1>1. after = before \ {w}
  BY MetarAssumption DEF Servers
<1>2. w \in before <=> of[w] = c
  BY DEF Servers
<1>3. IsFiniteSet(before) /\ Cardinality(before) \in Nat
  BY ServersCount
<1>. HIDE DEF before, after
<1>4. Cardinality(before \ {w}) = IF w \in before THEN Cardinality(before) - 1 ELSE Cardinality(before)
  BY <1>3, FS_RemoveElement
<1>5. Cardinality(after) = Cardinality(before) - (IF of[w] = c THEN 1 ELSE 0)
  BY <1>1, <1>2, <1>3, <1>4
<1>. QED
  BY <1>5 DEF before, after

-----------------------------------------------------------------------------
(* The counts of a state, and what a step must do to keep their sum.       *)

\* The three counts of a client are numbers, and they are what Queued and
\* Served count.
LEMMA CountsFit ==
  ASSUME TypeOK, NEW c \in Clients
  PROVE  /\ Queued(c) = Cardinality(Places(requests, c)) /\ Queued(c) \in Nat
         /\ Served(c) = Cardinality(Servers(serving, c)) /\ Served(c) \in Nat
         /\ Asking(c) \in {0, 1}
<1>1. requests \in Seq(Clients)
  BY DEF TypeOK
<1>2. Queued(c) = Cardinality(Places(requests, c)) /\ Served(c) = Cardinality(Servers(serving, c))
  BY DEF Queued, Served, Places, Servers
<1>. QED
  BY <1>1, <1>2, PlacesCount, ServersCount DEF Asking

\* What is not touched keeps its counts.
LEMMA CountsStay ==
  ASSUME NEW c \in Clients
  PROVE  /\ UNCHANGED requests => Queued(c)' = Queued(c)
         /\ UNCHANGED serving => Served(c)' = Served(c)
         /\ pc'[c] = pc[c] => Asking(c)' = Asking(c)
  BY DEF Queued, Served, Asking

-----------------------------------------------------------------------------
(* Steps of the clients.                                                   *)

\* A client that asks adds one open request, which is in its event loop.
LEMMA AskKeeps ==
  ASSUME MInv, NEW d \in Clients, Ask(d)
  PROVE  MInv'
<1>. USE DEF MInv
<1>1. TypeOK' /\ ServingFits'
  BY MetarAssumption DEF Ask, Goto, Spend, TypeOK, ServingFits
<1>2. ASSUME NEW c \in Clients
      PROVE  open'[c] = Asking(c)' + Queued(c)' + Served(c)'
  <2>1. open[c] = Asking(c) + Queued(c) + Served(c) /\ Queued(c)' = Queued(c) /\ Served(c)' = Served(c)
    BY CountsStay DEF Ask, RequestsConserved
  <2>2. open'[c] = open[c] + (IF c = d THEN 1 ELSE 0) /\ Asking(c)' = Asking(c) + (IF c = d THEN 1 ELSE 0)
    BY DEF Ask, Goto, Asking, TypeOK
  <2>3. Asking(c) \in {0, 1} /\ Queued(c) \in Nat /\ Served(c) \in Nat
    BY CountsFit
  <2>. QED
    BY <2>1, <2>2, <2>3
<1>. QED
  BY <1>1, <1>2 DEF RequestsConserved

\* A request moves from the event loop to the end of the queue.
LEMMA EnqueueKeeps ==
  ASSUME MInv, NEW d \in Clients, Enqueue(d)
  PROVE  MInv'
<1>. USE DEF MInv
<1>1. TypeOK' /\ ServingFits'
  BY MetarAssumption DEF Enqueue, Goto, TypeOK, ServingFits
<1>2. ASSUME NEW c \in Clients
      PROVE  open'[c] = Asking(c)' + Queued(c)' + Served(c)'
  <2>1. open[c] = Asking(c) + Queued(c) + Served(c) /\ open'[c] = open[c] /\ Served(c)' = Served(c)
    BY CountsStay DEF Enqueue, RequestsConserved
  <2>2. Asking(c)' + (IF d = c THEN 1 ELSE 0) = Asking(c)
    BY DEF Enqueue, Goto, Asking, TypeOK
  <2>3. Queued(c)' = Queued(c) + (IF d = c THEN 1 ELSE 0)
    <3>1. Queued(c)' = Cardinality(Places(Append(requests, d), c))
      BY DEF Enqueue, Queued, Places
    <3>2. requests \in Seq(Clients)
      BY DEF TypeOK
    <3>. QED
      BY <3>1, <3>2, AppendCounts, CountsFit
  <2>4. Asking(c)' \in {0, 1}
    BY DEF Asking
  <2>. QED
    BY <2>1, <2>2, <2>3, <2>4, CountsFit
<1>. QED
  BY <1>1, <1>2 DEF RequestsConserved

\* A client that gives up withdraws the request that it was about to queue.
LEMMA GiveUpKeeps ==
  ASSUME MInv, NEW d \in Clients, GiveUp(d)
  PROVE  MInv'
<1>. USE DEF MInv
<1>1. ASSUME NEW c \in Clients
      PROVE  /\ open'[c] = Asking(c)' + Queued(c)' + Served(c)'
             /\ open'[c] \in Nat
  <2>1. open[c] = Asking(c) + Queued(c) + Served(c) /\ Queued(c)' = Queued(c) /\ Served(c)' = Served(c)
    BY CountsStay DEF GiveUp, RequestsConserved
  <2>2. /\ open'[c] = open[c] - (IF c = d THEN 1 ELSE 0)
        /\ Asking(c)' = Asking(c) - (IF c = d THEN 1 ELSE 0)
        /\ Asking(c)' \in {0, 1}
    BY DEF GiveUp, Goto, Answered, Asking, TypeOK
  <2>. QED
    BY <2>1, <2>2, CountsFit
<1>2. open' \in [Clients -> Nat]
  BY <1>1 DEF GiveUp, Answered, TypeOK
<1>3. TypeOK' /\ ServingFits'
  BY <1>2 DEF GiveUp, Goto, TypeOK, ServingFits
<1>. QED
  BY <1>1, <1>3 DEF RequestsConserved

\* Steps that touch neither the places nor the numbers of requests.
LEMMA OthersKeep ==
  ASSUME MInv, TypeOK', ServingFits', UNCHANGED <<requests, serving, open>>,
         \A c \in Clients : pc[c] = "ask" <=> pc'[c] = "ask"
  PROVE  MInv'
<1>1. ASSUME NEW c \in Clients
      PROVE  open'[c] = Asking(c)' + Queued(c)' + Served(c)'
  BY CountsStay DEF MInv, RequestsConserved, Asking
<1>. QED
  BY <1>1 DEF MInv, RequestsConserved

\* Writing, ending, cancelling, stalling and resuming leave requests alone.
LEMMA ClientKeeps ==
  ASSUME MInv, NEW c \in Clients, Write(c) \/ End(c) \/ Cancel(c) \/ Stall(c) \/ Resume(c)
  PROVE  MInv'
<1>. USE MetarAssumption DEF MInv, TypeOK, ServingFits
<1>1. CASE Write(c)
  <2>1. TypeOK' /\ ServingFits' /\ UNCHANGED <<requests, serving, open, pc>>
    BY <1>1 DEF Write
  <2>. QED
    BY <2>1, OthersKeep
<1>2. CASE End(c)
  <2>1. TypeOK' /\ ServingFits' /\ UNCHANGED <<requests, serving, open>>
    BY <1>2 DEF End, Goto
  <2>2. \A d \in Clients : pc[d] = "ask" <=> pc'[d] = "ask"
    BY <1>2 DEF End, Goto
  <2>. QED
    BY <2>1, <2>2, OthersKeep
<1>3. CASE Cancel(c)
  <2>1. TypeOK' /\ ServingFits' /\ UNCHANGED <<requests, serving, open, pc>>
    BY <1>3 DEF Cancel, Spend
  <2>. QED
    BY <2>1, OthersKeep
<1>4. CASE Stall(c) \/ Resume(c)
  <2>1. TypeOK' /\ ServingFits' /\ UNCHANGED <<requests, serving, open, pc>>
    BY <1>4 DEF Stall, Resume
  <2>. QED
    BY <2>1, OthersKeep
<1>. QED
  BY <1>1, <1>2, <1>3, <1>4

-----------------------------------------------------------------------------
(* Steps of the workers.                                                   *)

\* A request moves from the head of the queue to a worker.
LEMMA TakeKeeps ==
  ASSUME MInv, NEW w \in Workers, Take(w)
  PROVE  MInv'
<1>. USE DEF MInv
<1>1. requests \in Seq(Clients) /\ requests # <<>> /\ Head(requests) \in Clients
  BY DEF Take, TypeOK
<1>2. TypeOK'
  <2>2. requests' \in Seq(Clients) /\ Len(requests') <= QueueCap
    BY MetarAssumption DEF Take, TypeOK
  <2>. QED
    BY <1>1, <2>2 DEF Take, TypeOK
<1>3. ServingFits'
  BY DEF Take, TypeOK, ServingFits
<1>4. ASSUME NEW c \in Clients
      PROVE  open'[c] = Asking(c)' + Queued(c)' + Served(c)'
  <2>1. open[c] = Asking(c) + Queued(c) + Served(c) /\ open'[c] = open[c] /\ Asking(c)' = Asking(c)
    BY CountsStay DEF Take, RequestsConserved
  <2>2. Queued(c) = Queued(c)' + (IF Head(requests) = c THEN 1 ELSE 0)
    <3>1. Queued(c)' = Cardinality(Places(Tail(requests), c))
      BY DEF Take, Queued, Places
    <3>. QED
      BY <1>1, <3>1, TailCounts, CountsFit
  <2>3. Served(c)' = Served(c) + (IF Head(requests) = c THEN 1 ELSE 0)
    <3>1. serving \in [Workers -> Clients \cup {NoClient}] /\ serving[w] = NoClient
      BY DEF Take, TypeOK, ServingFits
    <3>2. Served(c)' = Cardinality(Servers([serving EXCEPT ![w] = Head(requests)], c))
      BY DEF Take, Served, Servers
    <3>3. Cardinality(Servers([serving EXCEPT ![w] = Head(requests)], c))
            = Cardinality(Servers(serving, c)) + (IF Head(requests) = c THEN 1 ELSE 0)
      <4>1. Head(requests) \in Clients
        BY <1>1
      <4>. QED
        BY <3>1, <4>1, TakingCounts
    <3>4. Served(c) = Cardinality(Servers(serving, c))
      BY CountsFit
    <3>. QED
      BY <3>2, <3>3, <3>4
  <2>4. Queued(c)' \in Nat /\ Queued(c) \in Nat /\ Served(c) \in Nat /\ Asking(c) \in {0, 1}
    <3>1. requests' \in Seq(Clients) /\ Queued(c)' = Cardinality(Places(requests', c))
      BY <1>2 DEF TypeOK, Queued, Places
    <3>. QED
      BY <3>1, PlacesCount, CountsFit
  <2>. QED
    BY <2>1, <2>2, <2>3, <2>4
<1>. QED
  BY <1>2, <1>3, <1>4 DEF RequestsConserved

\* Fetching, and a worker that ends, leave the requests where they are.
LEMMA WorkerKeeps ==
  ASSUME MInv, NEW w \in Workers, Fetch(w) \/ WorkerEnds(w)
  PROVE  MInv'
<1>1. TypeOK' /\ ServingFits' /\ UNCHANGED <<requests, serving, open, pc>>
  BY DEF MInv, TypeOK, ServingFits, Fetch, WorkerEnds
<1>. QED
  BY <1>1, OthersKeep

\* A request is answered once: the worker that sends the answer forgets it.
LEMMA SendKeeps ==
  ASSUME MInv, NEW w \in Workers, Send(w)
  PROVE  MInv'
<1>. USE DEF MInv
<1>1. serving \in [Workers -> Clients \cup {NoClient}] /\ serving[w] \in Clients
  BY DEF Send, TypeOK, ServingFits
<1>2. ASSUME NEW c \in Clients
      PROVE  /\ open'[c] = Asking(c)' + Queued(c)' + Served(c)'
             /\ open'[c] \in Nat
  <2>1. open[c] = Asking(c) + Queued(c) + Served(c) /\ Asking(c)' = Asking(c) /\ Queued(c)' = Queued(c)
    BY CountsStay DEF Send, RequestsConserved
  <2>2. open'[c] = open[c] - (IF serving[w] = c THEN 1 ELSE 0)
    BY DEF Send, Answered, TypeOK
  <2>3. Served(c)' = Served(c) - (IF serving[w] = c THEN 1 ELSE 0)
    <3>1. Served(c)' = Cardinality(Servers([serving EXCEPT ![w] = NoClient], c))
      BY DEF Send, Served, Servers
    <3>. QED
      <4>1. Cardinality(Servers([serving EXCEPT ![w] = NoClient], c))
              = Cardinality(Servers(serving, c)) - (IF serving[w] = c THEN 1 ELSE 0)
        BY <1>1, AnsweringCounts
      <4>2. Served(c) = Cardinality(Servers(serving, c))
        BY CountsFit
      <4>. QED
        BY <3>1, <4>1, <4>2
  <2>4. Served(c)' \in Nat
    <3>1. Served(c)' = Cardinality(Servers(serving', c))
      BY DEF Served, Servers
    <3>. QED
      BY <3>1, ServersCount
  <2>. QED
    BY <2>1, <2>2, <2>3, <2>4, CountsFit
<1>3. open' \in [Clients -> Nat]
  BY <1>2 DEF Send, Answered, TypeOK
<1>4. channel' \in [Clients -> 0..Cap]
  <2>1. channel \in [Clients -> 0..Cap] /\ Cap \in Nat
    BY MetarAssumption DEF TypeOK
  <2>2. \/ channel[serving[w]] < Cap /\ channel' = [channel EXCEPT ![serving[w]] = @ + 1]
        \/ UNCHANGED channel
    BY DEF Send
  <2>. QED
    BY <1>1, <2>1, <2>2
<1>5. TypeOK' /\ ServingFits'
  BY <1>3, <1>4 DEF Send, TypeOK, ServingFits
<1>. QED
  BY <1>2, <1>5 DEF RequestsConserved

-----------------------------------------------------------------------------
(* The theorems.                                                           *)

\* The invariant holds initially: nobody has asked.
LEMMA InitHolds == Init => MInv
<1>. SUFFICES ASSUME Init PROVE MInv
  OBVIOUS
<1>1. requests \in Seq(Clients) /\ Len(requests) = 0
  BY DEF Init
<1>0. TypeOK /\ ServingFits
  <2>1. QueueCap \in Nat /\ Cap \in Nat /\ Budget \in Nat
    BY MetarAssumption
  <2>2. channel \in [Clients -> 0..Cap] /\ open \in [Clients -> Nat] /\ budget \in 0..Budget
    BY <2>1 DEF Init
  <2>3. /\ pc \in [Clients -> {"loop", "ask", "done"}]
        /\ serving \in [Workers -> Clients \cup {NoClient}]
        /\ stage \in [Workers -> {"idle", "fetch", "send", "ended"}]
    BY DEF Init
  <2>4. ServingFits
    BY DEF Init, ServingFits
  <2>5. cancelled \subseteq Clients /\ stalled \subseteq Clients /\ stopped \in BOOLEAN
    BY DEF Init
  <2>6. Len(requests) <= QueueCap
    BY <1>1, <2>1
  <2>. QED
    BY <1>1, <2>2, <2>3, <2>4, <2>5, <2>6 DEF TypeOK
<1>2. ASSUME NEW c \in Clients
      PROVE  open[c] = Asking(c) + Queued(c) + Served(c)
  <2>1. open[c] = 0 /\ Asking(c) = 0
    BY DEF Init, Asking
  <2>2. Places(requests, c) = {} /\ Servers(serving, c) = {}
    BY MetarAssumption DEF Init, Places, Servers
  <2>. QED
    BY <1>0, <2>1, <2>2, CountsFit, FS_EmptySet
<1>. QED
  BY <1>0, <1>2 DEF MInv, RequestsConserved

\* Every step keeps it.
LEMMA StepKeeps == MInv /\ [Next]_vars => MInv'
<1>. SUFFICES ASSUME MInv, [Next]_vars PROVE MInv'
  OBVIOUS
<1>1. ASSUME NEW c \in Clients, Ask(c) \/ ClientStep(c) PROVE MInv'
  BY <1>1, AskKeeps, EnqueueKeeps, GiveUpKeeps, ClientKeeps DEF ClientStep
<1>2. ASSUME NEW c \in Clients, Write(c) \/ Cancel(c) \/ Stall(c) \/ Resume(c) PROVE MInv'
  BY <1>2, ClientKeeps
<1>3. ASSUME NEW w \in Workers, WorkerStep(w) PROVE MInv'
  BY <1>3, TakeKeeps, WorkerKeeps, SendKeeps DEF WorkerStep
<1>4. CASE Shutdown
  <2>1. TypeOK' /\ ServingFits' /\ UNCHANGED <<requests, serving, open, pc>>
    BY <1>4, MetarAssumption DEF Shutdown, Spend, MInv, TypeOK, ServingFits
  <2>. QED
    BY <2>1, OthersKeep
<1>5. CASE UNCHANGED vars
  <2>1. TypeOK' /\ ServingFits' /\ UNCHANGED <<requests, serving, open, pc>>
    BY <1>5 DEF vars, MInv, TypeOK, ServingFits
  <2>. QED
    BY <2>1, OthersKeep
<1>. QED
  BY <1>1, <1>2, <1>3, <1>4, <1>5 DEF Next, Quiet

\* MInv, the inductive invariant of the METAR service, always holds.
THEOREM MetarInvariant == Spec => []MInv
  BY InitHolds, StepKeeps, PTL DEF Spec

\* Types, for any capacities: neither the queue nor a channel overflows, and
\* no client is ever owed a negative number of answers.
THEOREM MetarTypes == Spec => []TypeOK
<1>1. MInv => TypeOK
  BY DEF MInv
<1>. QED
  BY <1>1, MetarInvariant, PTL

\* No request is lost and none is answered twice, whatever the workers do, for
\* any number of clients and workers.
THEOREM NoRequestLost == Spec => []RequestsConserved
<1>1. MInv => RequestsConserved
  BY DEF MInv
<1>. QED
  BY <1>1, MetarInvariant, PTL

-----------------------------------------------------------------------------
(* Who can hold up whom.                                                   *)

\* Workers end only when the server stops, and then all contexts are done.
StopsFit ==
  /\ stopped => cancelled = Clients
  /\ \A w \in Workers : stage[w] = "ended" => stopped

\* A worker, or the sender worker that it waits for, can go on ...
GoesOn(w) ==
  \/ stage[w] = "idle" /\ requests # <<>>
  \/ stage[w] = "fetch"
  \/ /\ stage[w] = "send"
     /\ \/ serving[w] \in cancelled
        \/ channel[serving[w]] < Cap
        \/ channel[serving[w]] > 0 /\ serving[w] \notin stalled

\* ... or it waits for a peer that does not read.
HeldUp(w) ==
  stage[w] = "send" /\ serving[w] \in stalled \ cancelled /\ channel[serving[w]] = Cap

\* While a client is owed an answer, somebody is at work on one, unless its own
\* peer does not read, or peers that do not read hold up each of the workers.
WeatherFlows ==
  \A c \in Clients \ cancelled : open[c] > 0 =>
    \/ pc[c] = "ask" /\ Len(requests) < QueueCap
    \/ \E w \in Workers : GoesOn(w)
    \/ c \in stalled /\ \E w \in Workers : serving[w] = c /\ HeldUp(w)
    \/ \A w \in Workers : HeldUp(w)

\* Cancelling, stopping and ending go together.
LEMMA StopsKept == TypeOK /\ StopsFit /\ [Next]_vars => StopsFit'
<1>. SUFFICES ASSUME TypeOK, StopsFit, [Next]_vars PROVE StopsFit'
  OBVIOUS
<1>. USE DEF StopsFit, TypeOK
<1>1. ASSUME NEW c \in Clients, Ask(c) \/ ClientStep(c) \/ Write(c) \/ Stall(c) \/ Resume(c)
      PROVE  StopsFit'
  BY <1>1 DEF Ask, ClientStep, Enqueue, GiveUp, End, Write, Stall, Resume
<1>2. ASSUME NEW c \in Clients, Cancel(c)
      PROVE  StopsFit'
  BY <1>2 DEF Cancel
<1>3. ASSUME NEW w \in Workers, WorkerStep(w)
      PROVE  StopsFit'
  BY <1>3 DEF WorkerStep, Take, Fetch, Send, WorkerEnds
<1>4. CASE Shutdown
  BY <1>4 DEF Shutdown
<1>5. CASE UNCHANGED vars
  BY <1>5 DEF vars
<1>. QED
  BY <1>1, <1>2, <1>3, <1>4, <1>5 DEF Next, Quiet

\* Who is counted is there: in the queue, or with a worker.
LEMMA CountedIsThere ==
  ASSUME MInv, NEW c \in Clients, open[c] > 0, pc[c] # "ask", requests = <<>>
  PROVE  \E w \in Workers : serving[w] = c
<1>1. Queued(c) = Cardinality(Places(requests, c)) /\ Served(c) = Cardinality(Servers(serving, c))
  BY CountsFit DEF MInv
<1>2. Places(requests, c) = {}
  BY DEF Places
<1>3. Served(c) # 0
  <2>1. Queued(c) = 0
    BY <1>1, <1>2, FS_EmptySet
  <2>2. open[c] = 0 + 0 + Served(c)
    BY <2>1 DEF MInv, RequestsConserved, Asking
  <2>. QED
    BY <2>2
<1>4. Servers(serving, c) # {}
  BY <1>1, <1>3, FS_EmptySet
<1>. QED
  BY <1>4 DEF Servers

\* A worker that is neither ended nor idle in vain goes on, or a peer holds it up.
LEMMA WorkersAct ==
  ASSUME MInv, NEW w \in Workers, stage[w] # "ended", stage[w] = "idle" => requests # <<>>
  PROVE  GoesOn(w) \/ HeldUp(w)
<1>1. CASE stage[w] = "send"
  <2>1. serving[w] \in Clients /\ channel[serving[w]] \in 0..Cap /\ Cap \in Nat \ {0}
    BY <1>1, MetarAssumption DEF MInv, TypeOK, ServingFits
  <2>. QED
    BY <1>1, <2>1 DEF GoesOn, HeldUp
<1>2. CASE stage[w] # "send"
  BY <1>2 DEF MInv, TypeOK, GoesOn
<1>. QED
  BY <1>1, <1>2

\* Weather stops for a client only with its own peer, or with a peer for every
\* worker: NUM_METAR_WORKERS of them are what it takes, however many clients
\* there are and however full the queue is.
THEOREM OnlyPeersStopTheWeather == Spec => []WeatherFlows
<1>1. Init => StopsFit
  BY DEF Init, StopsFit
<1>2. MInv /\ StopsFit /\ [Next]_vars => StopsFit'
  BY StopsKept DEF MInv
<1>3. MInv /\ StopsFit => WeatherFlows
  <2>. SUFFICES ASSUME MInv, StopsFit, NEW c \in Clients \ cancelled, open[c] > 0,
                       ~(pc[c] = "ask" /\ Len(requests) < QueueCap)
                PROVE  \/ \E w \in Workers : GoesOn(w)
                       \/ c \in stalled /\ \E w \in Workers : serving[w] = c /\ HeldUp(w)
                       \/ \A w \in Workers : HeldUp(w)
    BY DEF WeatherFlows
  <2>1. \A w \in Workers : stage[w] # "ended"
    BY DEF StopsFit
  <2>2. CASE requests # <<>>
    BY <2>1, <2>2, WorkersAct
  <2>3. CASE requests = <<>>
    <3>1. pc[c] # "ask"
      BY <2>3, MetarAssumption
    <3>2. PICK w \in Workers : serving[w] = c
      BY <2>3, <3>1, CountedIsThere
    <3>3. stage[w] # "idle"
      BY <3>2, MetarAssumption DEF MInv, ServingFits
    <3>4. GoesOn(w) \/ HeldUp(w)
      BY <2>1, <3>3, WorkersAct
    <3>. QED
      BY <3>2, <3>4 DEF HeldUp
  <2>. QED
    BY <2>2, <2>3
<1>. QED
  BY <1>1, <1>2, <1>3, MetarInvariant, PTL DEF Spec

-----------------------------------------------------------------------------
(* How long it can take.  A queued request costs the workers three steps,  *)
(* one that is being fetched two, an answer one.                           *)

Stages == {"idle", "fetch", "send", "ended"}
AtStage(of, s) == {w \in Workers : of[w] = s}
Weight(s) == IF s = "fetch" THEN 2 ELSE IF s = "send" THEN 1 ELSE 0
Work == 3 * Len(requests) + 2 * Cardinality(AtStage(stage, "fetch"))
                          + Cardinality(AtStage(stage, "send"))

\* A step of a worker is one less to go, and only a client that puts a request
\* into the queue makes them more; whatever else happens costs nobody anything,
\* and does not send a worker back.
WorkIsPaid ==
  \/ Work' = Work - 1 /\ \E w \in Workers : stage'[w] # stage[w]
  \/ Work' = Work + 3 /\ \E c \in Clients : pc[c] = "ask" /\ pc'[c] = "loop" /\ requests' = Append(requests, c)
  \/ /\ Work' = Work /\ UNCHANGED <<requests, serving>>
     /\ \A w \in Workers : stage'[w] # stage[w] => stage[w] = "idle" /\ stage'[w] = "ended"

\* The workers at a stage can be counted.
LEMMA StageCount ==
  ASSUME NEW of, NEW s
  PROVE  IsFiniteSet(AtStage(of, s)) /\ Cardinality(AtStage(of, s)) \in Nat
<1>1. AtStage(of, s) \in SUBSET Workers /\ IsFiniteSet(Workers)
  BY MetarAssumption DEF AtStage
<1>. QED
  BY <1>1, FS_Subset, FS_CardinalityType

\* A worker that goes from a stage to another is counted there instead.
LEMMA StageMoves ==
  ASSUME NEW of \in [Workers -> Stages], NEW w \in Workers, NEW t \in Stages, of[w] # t, NEW s \in Stages
  PROVE  /\ s = t => Cardinality(AtStage([of EXCEPT ![w] = t], s)) = Cardinality(AtStage(of, s)) + 1
         /\ s = of[w] => Cardinality(AtStage([of EXCEPT ![w] = t], s)) = Cardinality(AtStage(of, s)) - 1
         /\ s # t /\ s # of[w] => Cardinality(AtStage([of EXCEPT ![w] = t], s)) = Cardinality(AtStage(of, s))
<1>. DEFINE before == AtStage(of, s)
            after == AtStage([of EXCEPT ![w] = t], s)
<1>1. IsFiniteSet(before) /\ Cardinality(before) \in Nat
  BY StageCount
<1>2. CASE s = t
  <2>1. after = before \cup {w} /\ w \notin before /\ s # of[w]
    BY <1>2 DEF AtStage
  <2>. HIDE DEF before, after
  <2>2. Cardinality(before \cup {w}) = Cardinality(before) + 1
    BY <1>1, <2>1, FS_AddElement
  <2>3. Cardinality(after) = Cardinality(before) + 1
    BY <2>1, <2>2
  <2>. QED
    BY <1>1, <1>2, <2>1, <2>3 DEF before, after
<1>3. CASE s # t
  <2>1. after = before \ {w} /\ (w \in before <=> s = of[w])
    BY <1>3 DEF AtStage
  <2>. HIDE DEF before, after
  <2>2. Cardinality(before \ {w}) = IF w \in before THEN Cardinality(before) - 1 ELSE Cardinality(before)
    BY <1>1, FS_RemoveElement
  <2>3. Cardinality(after) = Cardinality(before) - (IF s = of[w] THEN 1 ELSE 0)
    BY <1>1, <2>1, <2>2
  <2>. QED
    BY <1>1, <1>3, <2>3 DEF before, after
<1>. QED
  BY <1>2, <1>3

\* Where the work is, for a worker that goes from a stage to the next one.
LEMMA WorkMoves ==
  ASSUME TypeOK, NEW w \in Workers, NEW t \in Stages,
         requests' \in Seq(Clients),
         stage[w] # t, stage' = [stage EXCEPT ![w] = t]
  PROVE  Work' = Work + 3 * (Len(requests') - Len(requests)) + Weight(t) - Weight(stage[w])
<1>. DEFINE F == Cardinality(AtStage(stage, "fetch"))
            S == Cardinality(AtStage(stage, "send"))
            F1 == Cardinality(AtStage(stage', "fetch"))
            S1 == Cardinality(AtStage(stage', "send"))
            f == (IF "fetch" = t THEN 1 ELSE 0) - (IF "fetch" = stage[w] THEN 1 ELSE 0)
            g == (IF "send" = t THEN 1 ELSE 0) - (IF "send" = stage[w] THEN 1 ELSE 0)
<1>1. F \in Nat /\ S \in Nat /\ F1 \in Nat /\ S1 \in Nat
  BY StageCount
<1>2. stage \in [Workers -> Stages]
  BY DEF TypeOK, Stages
<1>3. F1 = F + f /\ S1 = S + g
  <2>1. /\ "fetch" = t => F1 = F + 1
        /\ "fetch" = stage[w] => F1 = F - 1
        /\ "fetch" # t /\ "fetch" # stage[w] => F1 = F
    BY <1>2, StageMoves DEF Stages
  <2>2. /\ "send" = t => S1 = S + 1
        /\ "send" = stage[w] => S1 = S - 1
        /\ "send" # t /\ "send" # stage[w] => S1 = S
    BY <1>2, StageMoves DEF Stages
  <2>. HIDE DEF F, S, F1, S1
  <2>. QED
    BY <1>1, <2>1, <2>2
<1>4. Work = 3 * Len(requests) + 2 * F + S /\ Work' = 3 * Len(requests') + 2 * F1 + S1
  BY DEF Work, AtStage
<1>5. 2 * f + g = Weight(t) - Weight(stage[w]) /\ f \in Int /\ g \in Int
  BY DEF Weight
<1>6. Len(requests) \in Nat /\ Len(requests') \in Nat
  BY DEF TypeOK
<1>7. Weight(t) \in Nat /\ Weight(stage[w]) \in Nat
  BY DEF Weight
<1>. HIDE DEF F, S, F1, S1, f, g
<1>. QED
  BY <1>1, <1>3, <1>4, <1>5, <1>6, <1>7

\* What is neither queued nor taken leaves the work as it is.
LEMMA WorkStays ==
  ASSUME UNCHANGED <<requests, serving, stage>>
  PROVE  WorkIsPaid
  BY DEF WorkIsPaid, Work, AtStage

\* No answer is waited for in vain for want of work: each request is paid for
\* when it is queued, and every step of a worker uses some of that up.  With
\* OnlyPeersStopTheWeather, which finds somebody who can go on, this is what
\* RequestsAnswered rests on besides fairness.
THEOREM WorkIsUsedUp == Spec => [][WorkIsPaid]_vars
<1>1. ASSUME MInv, [Next]_vars PROVE WorkIsPaid
  <2>0. /\ requests \in Seq(Clients) /\ Len(requests) \in Nat
        /\ stage \in [Workers -> {"idle", "fetch", "send", "ended"}]
        /\ Work \in Nat
    <3>1. requests \in Seq(Clients) /\ stage \in [Workers -> {"idle", "fetch", "send", "ended"}]
      BY <1>1 DEF MInv, TypeOK
    <3>. QED
      BY <3>1, StageCount DEF Work
  <2>t. TypeOK /\ requests' \in Seq(Clients)
    BY <1>1, StepKeeps DEF MInv, TypeOK
  <2>1. ASSUME NEW c \in Clients, Enqueue(c) PROVE WorkIsPaid
    <3>1. requests' = Append(requests, c) /\ Len(requests') = Len(requests) + 1 /\ UNCHANGED stage
      BY <2>0, <2>1 DEF Enqueue
    <3>2. Work' = Work + 3
      <4>1. Cardinality(AtStage(stage, "fetch")) \in Nat /\ Cardinality(AtStage(stage, "send")) \in Nat
        BY StageCount
      <4>. QED
        BY <2>0, <3>1, <4>1 DEF Work, AtStage
    <3>3. pc[c] = "ask" /\ pc'[c] = "loop"
      BY <1>1, <2>1 DEF Enqueue, Goto, MInv, TypeOK
    <3>. QED
      BY <3>1, <3>2, <3>3 DEF WorkIsPaid
  <2>2. ASSUME NEW w \in Workers, Take(w) PROVE WorkIsPaid
    <3>1. Len(requests') = Len(requests) - 1 /\ stage[w] = "idle" /\ stage' = [stage EXCEPT ![w] = "fetch"]
      BY <2>0, <2>2 DEF Take
    <3>2. Work' = Work + 3 * (Len(requests') - Len(requests)) + Weight("fetch") - Weight("idle")
      BY <1>1, <2>t, <3>1, WorkMoves DEF Stages
    <3>3. Work' = Work - 1 /\ stage'[w] # stage[w]
      BY <2>0, <3>1, <3>2 DEF Weight
    <3>. QED
      BY <3>3 DEF WorkIsPaid
  <2>3. ASSUME NEW w \in Workers, Fetch(w) PROVE WorkIsPaid
    <3>1. UNCHANGED requests /\ stage[w] = "fetch" /\ stage' = [stage EXCEPT ![w] = "send"]
      BY <2>3 DEF Fetch
    <3>2. Work' = Work + 3 * (Len(requests') - Len(requests)) + Weight("send") - Weight("fetch")
      BY <1>1, <2>t, <3>1, WorkMoves DEF Stages
    <3>3. Work' = Work - 1 /\ stage'[w] # stage[w]
      BY <2>0, <3>1, <3>2 DEF Weight
    <3>. QED
      BY <3>3 DEF WorkIsPaid
  <2>4. ASSUME NEW w \in Workers, Send(w) PROVE WorkIsPaid
    <3>1. UNCHANGED requests /\ stage[w] = "send" /\ stage' = [stage EXCEPT ![w] = "idle"]
      BY <2>4 DEF Send
    <3>2. Work' = Work + 3 * (Len(requests') - Len(requests)) + Weight("idle") - Weight("send")
      BY <1>1, <2>t, <3>1, WorkMoves DEF Stages
    <3>3. Work' = Work - 1 /\ stage'[w] # stage[w]
      BY <2>0, <3>1, <3>2 DEF Weight
    <3>. QED
      BY <3>3 DEF WorkIsPaid
  <2>5. ASSUME NEW w \in Workers, WorkerEnds(w) PROVE WorkIsPaid
    <3>1. UNCHANGED <<requests, serving>> /\ stage[w] = "idle" /\ stage' = [stage EXCEPT ![w] = "ended"]
      BY <2>5 DEF WorkerEnds
    <3>2. Work' = Work + 3 * (Len(requests') - Len(requests)) + Weight("ended") - Weight("idle")
      BY <1>1, <2>t, <3>1, WorkMoves DEF Stages
    <3>3. Work' = Work /\ \A v \in Workers : stage'[v] # stage[v] => stage[v] = "idle" /\ stage'[v] = "ended"
      BY <2>0, <3>1, <3>2 DEF Weight
    <3>. QED
      BY <3>1, <3>3 DEF WorkIsPaid
  <2>6. ASSUME NEW c \in Clients,
               Ask(c) \/ GiveUp(c) \/ End(c) \/ Write(c) \/ Cancel(c) \/ Stall(c) \/ Resume(c)
        PROVE  WorkIsPaid
    BY <2>6, WorkStays DEF Ask, GiveUp, End, Write, Cancel, Stall, Resume
  <2>7. Shutdown \/ Quiet \/ UNCHANGED vars => WorkIsPaid
    BY WorkStays DEF Shutdown, Quiet, vars
  <2>. QED
    BY <1>1, <2>1, <2>2, <2>3, <2>4, <2>5, <2>6, <2>7 DEF Next, ClientStep, WorkerStep
<1>. QED
  BY <1>1, InitHolds, StepKeeps, PTL DEF Spec
=============================================================================
