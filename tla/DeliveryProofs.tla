---------------------------- MODULE DeliveryProofs ----------------------------
(***************************************************************************)
(* Whom a blocked sender waits for, for any number of clients, any packets *)
(* and any capacity of the channels.  Two arguments meet.  A client has a  *)
(* sender worker, or its context is done, from the moment its event loop   *)
(* starts; only a login that has not come so far, or never will, has       *)
(* neither.  And the recipients of a broadcast stay in the structure they  *)
(* were taken from, because whoever would remove them needs the lock that  *)
(* the broadcast holds.                                                    *)
(***************************************************************************)
EXTENDS Delivery, TLAPS

-----------------------------------------------------------------------------
(* The invariant.                                                          *)

Broadcasts == {"announce", "broadcast", "delete", "farewell", "ranged"}

\* Where the connection goroutine is as long as there is no sender worker: in
\* the login, or in the release that follows one that failed.
BeforeLoop == {"regmap", "regtree", "motd", "announce", "reltree", "relmap", "done"}

\* A worker is missing only in a login, and ends only with the context.
WorkersFit ==
  \A c \in Clients :
    /\ worker[c] = "none" => c \in Joining /\ pc[c] \in BeforeLoop
    /\ worker[c] = "exited" => ctxDone[c]

\* The packets of a goroutine are on their way only in the phases that send.
SendingInside ==
  \A c \in Clients : target[c] # NoClient => pc[c] \in Broadcasts \cup {"send", "reject"}

\* A broadcast holds its lock while it sends, and the clients that it has not
\* reached are still where it found them.
RecipientsStay ==
  \A c \in Clients :
    target[c] # NoClient /\ pc[c] \in Broadcasts =>
      /\ c \in readers[ReadLock[pc[c]]]
      /\ {target[c]} \cup todo[c] \subseteq (IF pc[c] = "ranged" THEN indexed ELSE registered)

DInv == TypeOK /\ WorkersFit /\ SendingInside /\ RecipientsStay

-----------------------------------------------------------------------------
(* The lock that each phase takes.                                         *)

LEMMA ReadLocks ==
  /\ DOMAIN ReadLock = {"announce", "broadcast", "delete", "farewell", "find", "kill", "ranged"}
  /\ \A p \in DOMAIN ReadLock : ReadLock[p] = IF p = "ranged" THEN "tree" ELSE "map"
  BY DEF ReadLock

LEMMA WriteLocks ==
  /\ DOMAIN WriteLock = {"regmap", "regtree", "move", "reltree", "relmap"}
  /\ \A p \in DOMAIN WriteLock : WriteLock[p] = IF p \in {"regmap", "relmap"} THEN "map" ELSE "tree"
  BY DEF WriteLock

LEMMA PhaseNames ==
  Phases = {"announce", "broadcast", "delete", "farewell", "find", "kill", "ranged", "regmap", "regtree",
            "move", "reltree", "relmap", "motd", "loop", "send", "reject", "done"}
  BY ReadLocks, WriteLocks DEF Phases

-----------------------------------------------------------------------------
(* Steps of the connection goroutine.                                      *)

\* A goroutine that has called RLock changes nothing but the lock.
LEMMA RLockKeeps ==
  ASSUME DInv, NEW c \in Clients, RLock(c)
  PROVE  DInv'
<1>. USE DEF DInv
<1>1. PICK l \in LockNames : l = ReadLock[pc[c]]
  BY ReadLocks DEF RLock, LockNames
<1>2. /\ \A m \in LockNames : readers[m] \subseteq readers'[m]
      /\ readers' \in [LockNames -> SUBSET Clients] /\ waiting' \in [LockNames -> SUBSET Clients]
      /\ UNCHANGED <<pc, worker, queue, ctxDone, peer, connOpen, registered, indexed, writer, todo, target, budget>>
  BY <1>1 DEF RLock, TypeOK, sockets, office, sending
<1>3. TypeOK'
  BY <1>2 DEF TypeOK
<1>4. WorkersFit' /\ SendingInside'
  BY <1>2 DEF WorkersFit, SendingInside
<1>5. RecipientsStay'
  <2>. SUFFICES ASSUME NEW d \in Clients, target[d] # NoClient, pc[d] \in Broadcasts
                PROVE  /\ d \in readers'[ReadLock[pc[d]]]
                       /\ {target[d]} \cup todo[d] \subseteq (IF pc[d] = "ranged" THEN indexed ELSE registered)
    BY <1>2 DEF RecipientsStay
  <2>1. ReadLock[pc[d]] \in LockNames
    BY ReadLocks DEF Broadcasts, LockNames
  <2>. QED
    BY <1>2, <2>1 DEF RecipientsStay
<1>. QED
  BY <1>3, <1>4, <1>5

\* What releasing the read lock and finishing a broadcast do together.
LEMMA FinishFits ==
  ASSUME DInv, NEW c \in Clients, pc[c] \in Broadcasts, RUnlock(c), Finish(c)
  PROVE  /\ pc' \in [Clients -> Phases] /\ pc' = [pc EXCEPT ![c] = pc'[c]]
         /\ pc'[c] = IF pc[c] = "farewell" THEN "reltree" ELSE "loop"
         /\ worker' \in [Clients -> {"none", "idle", "write", "exited"}]
         /\ worker' = IF pc[c] = "announce" THEN [worker EXCEPT ![c] = "idle"] ELSE worker
         /\ ctxDone' \in [Clients -> BOOLEAN]
         /\ \A d \in Clients : ctxDone[d] => ctxDone'[d]
         /\ readers' \in [LockNames -> SUBSET Clients]
         /\ \A m \in LockNames : readers[m] \ {c} \subseteq readers'[m]
<1>1. ReadLock[pc[c]] \in LockNames
  BY ReadLocks DEF Broadcasts, LockNames
<1>2. readers' \in [LockNames -> SUBSET Clients] /\ \A m \in LockNames : readers[m] \ {c} \subseteq readers'[m]
  BY <1>1 DEF DInv, TypeOK, RUnlock
<1>3. "reltree" \in Phases /\ "loop" \in Phases
  BY PhaseNames
<1>. QED
  BY <1>2, <1>3 DEF DInv, TypeOK, Finish, Goto, CancelCtx

\* The three parts about workers and recipients survive the end of a broadcast.
LEMMA FinishKeeps ==
  ASSUME DInv, NEW c \in Clients, pc[c] \in Broadcasts, RUnlock(c), Finish(c),
         UNCHANGED <<registered, indexed, todo>>,
         target' = [target EXCEPT ![c] = NoClient]
  PROVE  WorkersFit' /\ SendingInside' /\ RecipientsStay'
<1>. USE DEF DInv
<1>1. WorkersFit'
  <2>. SUFFICES ASSUME NEW d \in Clients
                PROVE  /\ worker'[d] = "none" => d \in Joining /\ pc'[d] \in BeforeLoop
                       /\ worker'[d] = "exited" => ctxDone'[d]
    BY DEF WorkersFit
  <2>1. CASE d # c
    BY <2>1, FinishFits DEF WorkersFit, TypeOK
  <2>2. CASE d = c
    <3>1. pc[c] # "announce" => worker[c] # "none"
      BY DEF WorkersFit, BeforeLoop, Broadcasts
    <3>. QED
      BY <2>2, <3>1, FinishFits DEF WorkersFit, TypeOK
  <2>. QED
    BY <2>1, <2>2
<1>2. SendingInside'
  BY FinishFits DEF SendingInside, TypeOK
<1>3. RecipientsStay'
  <2>. SUFFICES ASSUME NEW d \in Clients, target'[d] # NoClient, pc'[d] \in Broadcasts
                PROVE  /\ d \in readers'[ReadLock[pc'[d]]]
                       /\ {target'[d]} \cup todo'[d] \subseteq (IF pc'[d] = "ranged" THEN indexed' ELSE registered')
    BY DEF RecipientsStay
  <2>1. d # c /\ pc'[d] = pc[d] /\ target'[d] = target[d]
    BY FinishFits DEF TypeOK
  <2>2. ReadLock[pc[d]] \in LockNames
    BY <2>1, ReadLocks DEF Broadcasts, LockNames
  <2>. QED
    BY <2>1, <2>2, FinishFits DEF RecipientsStay
<1>. QED
  BY <1>1, <1>2, <1>3

\* A goroutine that goes on to the next recipient, or starts with the first.
LEMMA AimKeeps ==
  ASSUME DInv, NEW c \in Clients, pc[c] \in Broadcasts, c \in readers[ReadLock[pc[c]]],
         NEW to, to \subseteq (IF pc[c] = "ranged" THEN indexed ELSE registered), NEW d \in to,
         target' = [target EXCEPT ![c] = d], todo' = [todo EXCEPT ![c] = to \ {d}],
         UNCHANGED <<pc, worker, ctxDone, readers, registered, indexed>>
  PROVE  /\ target' \in [Clients -> Clients \cup {NoClient}] /\ todo' \in [Clients -> SUBSET Clients]
         /\ WorkersFit' /\ SendingInside' /\ RecipientsStay'
<1>. USE DEF DInv
<1>1. to \subseteq Clients
  BY DEF TypeOK
<1>2. target' \in [Clients -> Clients \cup {NoClient}] /\ todo' \in [Clients -> SUBSET Clients]
  BY <1>1 DEF TypeOK
<1>3. WorkersFit' /\ SendingInside'
  BY DEF WorkersFit, SendingInside, TypeOK
<1>4. RecipientsStay'
  BY DEF RecipientsStay, TypeOK
<1>. QED
  BY <1>2, <1>3, <1>4

\* all and search start: the recipients are those of the structure that is locked.
LEMMA StartBroadcastKeeps ==
  ASSUME DInv, NEW c \in Clients, StartBroadcast(c)
  PROVE  DInv'
<1>. USE DEF DInv
<1>. DEFINE all == IF pc[c] = "ranged" THEN indexed ELSE registered
<1>1. pc[c] \in Broadcasts /\ c \in readers[ReadLock[pc[c]]] /\ target[c] = NoClient
      /\ UNCHANGED <<queue, peer, connOpen, registered, indexed, writer, waiting, budget>>
  BY DEF StartBroadcast, Broadcasts, sockets, office
<1>2. PICK to \in SUBSET all :
        IF to = {}
          THEN RUnlock(c) /\ Finish(c) /\ UNCHANGED sending
          ELSE \E d \in to :
                 /\ target' = [target EXCEPT ![c] = d]
                 /\ todo' = [todo EXCEPT ![c] = to \ {d}]
                 /\ UNCHANGED <<pc, worker, ctxDone, readers>>
  BY DEF StartBroadcast
<1>3. CASE to = {}
  <2>1. RUnlock(c) /\ Finish(c) /\ UNCHANGED <<target, todo>>
    BY <1>2, <1>3 DEF sending
  <2>2. target' = [target EXCEPT ![c] = NoClient]
    BY <1>1, <2>1 DEF TypeOK
  <2>3. WorkersFit' /\ SendingInside' /\ RecipientsStay'
    BY <1>1, <2>1, <2>2, FinishKeeps
  <2>4. TypeOK'
    BY <1>1, <2>1, FinishFits DEF TypeOK
  <2>. QED
    BY <2>3, <2>4
<1>4. CASE to # {}
  <2>1. PICK d \in to : /\ target' = [target EXCEPT ![c] = d]
                        /\ todo' = [todo EXCEPT ![c] = to \ {d}]
                        /\ UNCHANGED <<pc, worker, ctxDone, readers>>
    BY <1>2, <1>4
  <2>2. /\ target' \in [Clients -> Clients \cup {NoClient}] /\ todo' \in [Clients -> SUBSET Clients]
        /\ WorkersFit' /\ SendingInside' /\ RecipientsStay'
    BY <1>1, <2>1, AimKeeps
  <2>3. TypeOK'
    BY <1>1, <2>1, <2>2 DEF TypeOK
  <2>. QED
    BY <2>2, <2>3
<1>. QED
  BY <1>3, <1>4

\* A look-up, and the kill request that follows one, hold the lock for a moment.
LEMMA FindKeeps ==
  ASSUME DInv, NEW c \in Clients, Find(c) \/ Kill(c)
  PROVE  DInv'
<1>. USE DEF DInv
<1>1. /\ pc[c] \in {"find", "kill"} /\ target[c] = NoClient
      /\ pc' \in [Clients -> Phases] /\ pc'[c] \in {"send", "loop"}
      /\ \A d \in Clients \ {c} : pc'[d] = pc[d] /\ target'[d] = target[d]
      /\ target'[c] # NoClient => pc'[c] = "send"
      /\ target' \in [Clients -> Clients \cup {NoClient}]
      /\ ctxDone' \in [Clients -> BOOLEAN] /\ \A d \in Clients : ctxDone[d] => ctxDone'[d]
      /\ RUnlock(c)
      /\ UNCHANGED <<worker, queue, peer, connOpen, registered, indexed, writer, waiting, todo, budget>>
  <2>1. "send" \in Phases /\ "loop" \in Phases
    BY PhaseNames
  <2>2. pc[c] \in {"find", "kill"} /\ target[c] = NoClient
    BY DEF Find, Kill, SendingInside, Broadcasts
  <2>3. CASE Find(c)
    BY <2>1, <2>2, <2>3 DEF Find, Goto, TypeOK, sockets, office
  <2>4. CASE Kill(c)
    <3>1. RUnlock(c) /\ UNCHANGED <<worker, queue, peer, connOpen, registered, indexed, writer, waiting, todo, budget>>
      BY <2>4 DEF Kill, sockets, office
    <3>2. CASE \E victim \in registered : CancelCtx(victim) /\ Goto(c, "loop") /\ UNCHANGED target
      BY <2>1, <2>2, <3>1, <3>2 DEF Goto, CancelCtx, TypeOK
    <3>3. CASE target' = [target EXCEPT ![c] = c] /\ Goto(c, "send") /\ UNCHANGED ctxDone
      BY <2>1, <2>2, <3>1, <3>3 DEF Goto, TypeOK
    <3>. QED
      BY <2>4, <3>2, <3>3 DEF Kill
  <2>. QED
    BY <2>3, <2>4
<1>2. /\ readers' \in [LockNames -> SUBSET Clients]
      /\ \A m \in LockNames : readers[m] \ {c} \subseteq readers'[m]
  BY <1>1, ReadLocks DEF RUnlock, TypeOK, LockNames
<1>3. TypeOK'
  BY <1>1, <1>2 DEF TypeOK
<1>4. WorkersFit'
  BY <1>1 DEF WorkersFit, BeforeLoop
<1>5. SendingInside'
  BY <1>1 DEF SendingInside
<1>6. RecipientsStay'
  <2>. SUFFICES ASSUME NEW d \in Clients, target'[d] # NoClient, pc'[d] \in Broadcasts
                PROVE  /\ d \in readers'[ReadLock[pc'[d]]]
                       /\ {target'[d]} \cup todo'[d] \subseteq (IF pc'[d] = "ranged" THEN indexed' ELSE registered')
    BY DEF RecipientsStay
  <2>1. d # c /\ pc'[d] = pc[d] /\ target'[d] = target[d]
    BY <1>1 DEF Broadcasts
  <2>2. ReadLock[pc[d]] \in LockNames
    BY <2>1, ReadLocks DEF Broadcasts, LockNames
  <2>. QED
    BY <1>1, <1>2, <2>1, <2>2 DEF RecipientsStay
<1>. QED
  BY <1>3, <1>4, <1>5, <1>6

\* A send queues a packet for the target while there is room, and gives up when
\* its context is done.
LEMMA DeliverKeeps ==
  ASSUME DInv, NEW c \in Clients, Deliver(c)
  PROVE  DInv'
<1>. USE DEF DInv
<1>1. /\ target[c] \in Clients /\ pc[c] \in Broadcasts \cup {"send", "reject"}
      /\ UNCHANGED <<peer, connOpen, registered, indexed, writer, waiting, budget>>
  BY DEF Deliver, TypeOK, SendingInside, sockets, office
<1>2. queue' \in [Clients -> 0..Cap]
  <2>1. queue \in [Clients -> 0..Cap] /\ Cap \in Nat
    BY DeliveryAssumption DEF TypeOK
  <2>2. Sent(c)
    BY DEF Deliver
  <2>. QED
    BY <1>1, <2>1, <2>2 DEF Sent
<1>3. CASE todo[c] # {}
  <2>1. PICK d \in todo[c] : /\ target' = [target EXCEPT ![c] = d]
                             /\ todo' = [todo EXCEPT ![c] = @ \ {d}]
                             /\ UNCHANGED <<pc, worker, ctxDone, readers>>
    BY <1>3 DEF Deliver
  <2>2. d \in Clients /\ todo'[c] \subseteq todo[c]
        /\ target' \in [Clients -> Clients \cup {NoClient}] /\ todo' \in [Clients -> SUBSET Clients]
    BY <2>1 DEF TypeOK
  <2>3. TypeOK'
    BY <1>1, <1>2, <2>1, <2>2 DEF TypeOK
  <2>4. WorkersFit' /\ SendingInside'
    BY <1>1, <2>1 DEF WorkersFit, SendingInside, TypeOK
  <2>5. RecipientsStay'
    BY <1>1, <2>1, <2>2, DeliveryAssumption DEF RecipientsStay, TypeOK
  <2>. QED
    BY <2>3, <2>4, <2>5
<1>4. CASE todo[c] = {} /\ pc[c] \in {"send", "reject"}
  <2>1. /\ target' = [target EXCEPT ![c] = NoClient] /\ AfterSend(c)
        /\ UNCHANGED <<worker, readers, todo>>
    BY <1>4 DEF Deliver
  <2>2. /\ pc' = [pc EXCEPT ![c] = "loop"] /\ pc' \in [Clients -> Phases]
        /\ ctxDone' \in [Clients -> BOOLEAN] /\ \A d \in Clients : ctxDone[d] => ctxDone'[d]
    BY <2>1, PhaseNames DEF AfterSend, Goto, CancelCtx, TypeOK
  <2>3. TypeOK'
    BY <1>1, <1>2, <2>1, <2>2 DEF TypeOK
  <2>4. WorkersFit'
    BY <1>4, <2>1, <2>2 DEF WorkersFit, BeforeLoop, TypeOK
  <2>5. SendingInside' /\ RecipientsStay'
    BY <1>1, <2>1, <2>2 DEF SendingInside, RecipientsStay, TypeOK, Broadcasts
  <2>. QED
    BY <2>3, <2>4, <2>5
<1>5. CASE todo[c] = {} /\ pc[c] \in Broadcasts
  <2>1. /\ target' = [target EXCEPT ![c] = NoClient] /\ RUnlock(c) /\ Finish(c)
        /\ UNCHANGED todo
    BY <1>5 DEF Deliver, Broadcasts
  <2>2. WorkersFit' /\ SendingInside' /\ RecipientsStay'
    BY <1>1, <1>5, <2>1, FinishKeeps
  <2>3. target' \in [Clients -> Clients \cup {NoClient}]
    BY <2>1 DEF TypeOK
  <2>4. TypeOK'
    BY <1>1, <1>2, <1>5, <2>1, <2>3, FinishFits DEF TypeOK
  <2>. QED
    BY <2>2, <2>4
<1>. QED
  BY <1>1, <1>3, <1>4, <1>5

\* Steps that leave the senders, their locks and the two structures alone, and
\* never take a worker or a done context back.
LEMMA OthersKeep ==
  ASSUME DInv, TypeOK', NEW c \in Clients,
         UNCHANGED <<registered, indexed, readers, todo, worker>>,
         \A d \in Clients : ctxDone[d] => ctxDone'[d],
         \A d \in Clients \ {c} : pc'[d] = pc[d] /\ target'[d] = target[d],
         \/ pc'[c] = pc[c] /\ target'[c] = target[c]
         \/ /\ target'[c] # NoClient => pc'[c] \in {"send", "reject"}
            /\ pc[c] \in BeforeLoop => pc'[c] \in BeforeLoop
  PROVE  DInv'
<1>1. WorkersFit' /\ SendingInside' /\ RecipientsStay'
  BY DEF DInv, WorkersFit, SendingInside, RecipientsStay, Broadcasts
<1>. QED
  BY <1>1 DEF DInv

\* A sender that is refused turns to its own channel.
LEMMA RefusedKeeps ==
  ASSUME DInv, NEW c \in Clients, Refused(c)
  PROVE  DInv'
<1>1. target' = [target EXCEPT ![c] = c] /\ pc[c] = "send"
      /\ UNCHANGED <<pc, worker, queue, ctxDone, peer, connOpen, registered, indexed, writer, readers,
                     waiting, todo, budget>>
  BY DEF Refused, Direct, sockets, office, locks
<1>2. TypeOK'
  BY <1>1 DEF DInv, TypeOK
<1>3. \A d \in Clients \ {c} : target'[d] = target[d]
  BY <1>1
<1>. QED
  BY <1>1, <1>2, <1>3, OthersKeep DEF DInv, TypeOK, Broadcasts

\* Calling Lock; the welcome message; the end of the event loop; a new packet.
LEMMA LoopKeeps ==
  ASSUME DInv, NEW c \in Clients,
         Lock(c) \/ Motd(c) \/ ScanFails(c) \/ (\E kind \in Kinds : Packet(c, kind))
  PROVE  DInv'
<1>. USE DEF DInv
<1>1. CASE Lock(c)
  <2>1. WriteLock[pc[c]] \in LockNames
    BY <1>1, WriteLocks DEF Lock, LockNames
  <2>2. TypeOK' /\ UNCHANGED <<pc, worker, ctxDone, registered, indexed, readers, todo, target>>
    BY <1>1, <2>1 DEF Lock, TypeOK, sockets, office, sending
  <2>. QED
    BY <2>2, OthersKeep
<1>2. CASE Motd(c)
  <2>1. "announce" \in Phases /\ "reltree" \in Phases
    BY PhaseNames
  <2>2. TypeOK'
    BY <1>2, <2>1 DEF Motd, Goto, TypeOK, sockets, office, locks, sending
  <2>3. pc'[c] \in BeforeLoop /\ target[c] = NoClient
    BY <1>2 DEF Motd, Goto, TypeOK, BeforeLoop, SendingInside, Broadcasts
  <2>4. /\ UNCHANGED <<worker, ctxDone, registered, indexed, readers, todo, target>>
        /\ \A d \in Clients \ {c} : pc'[d] = pc[d]
    BY <1>2 DEF Motd, Goto, office, locks, sending, TypeOK
  <2>. QED
    BY <2>2, <2>3, <2>4, OthersKeep
<1>3. CASE ScanFails(c)
  <2>1. "farewell" \in Phases
    BY PhaseNames
  <2>2. TypeOK'
    BY <1>3, <2>1 DEF ScanFails, Goto, CancelCtx, TypeOK, sockets, office, locks, sending
  <2>3. pc[c] \notin BeforeLoop /\ target[c] = NoClient
    BY <1>3 DEF ScanFails, BeforeLoop, SendingInside, Broadcasts
  <2>4. /\ UNCHANGED <<worker, registered, indexed, readers, todo, target>>
        /\ \A d \in Clients \ {c} : pc'[d] = pc[d]
        /\ \A d \in Clients : ctxDone[d] => ctxDone'[d]
    BY <1>3 DEF ScanFails, Goto, CancelCtx, office, locks, sending, TypeOK
  <2>. QED
    BY <2>2, <2>3, <2>4, OthersKeep
<1>4. CASE \E kind \in Kinds : Packet(c, kind)
  <2>0. PICK kind \in Kinds : Packet(c, kind)
    BY <1>4
  <2>1. (IF kind = "reply" THEN "send" ELSE kind) \in Phases
    BY DeliveryAssumption, PhaseNames DEF Packets
  <2>2. target' \in [Clients -> Clients \cup {NoClient}] /\ budget' \in 0..Budget
    BY <2>0, DeliveryAssumption DEF Packet, Spend, TypeOK
  <2>3. TypeOK'
    BY <2>0, <2>1, <2>2 DEF Packet, Goto, TypeOK, sockets, office, locks
  <2>4. pc[c] \notin BeforeLoop /\ target[c] = NoClient
    BY <2>0 DEF Packet, BeforeLoop, SendingInside, Broadcasts
  <2>5. target'[c] # NoClient => pc'[c] \in {"send", "reject"}
    BY <2>0, <2>4 DEF Packet, Goto, TypeOK
  <2>6. /\ UNCHANGED <<worker, ctxDone, registered, indexed, readers, todo>>
        /\ \A d \in Clients \ {c} : pc'[d] = pc[d] /\ target'[d] = target[d]
    BY <2>0 DEF Packet, Goto, office, locks, TypeOK
  <2>. QED
    BY <2>3, <2>4, <2>5, <2>6, OthersKeep
<1>. QED
  BY <1>1, <1>2, <1>3, <1>4

\* A section under a write lock finds no readers there, so no broadcast that
\* takes its recipients from the structure it changes.
LEMMA WriteSectionKeeps ==
  ASSUME DInv, NEW c \in Clients, WriteSection(c)
  PROVE  DInv'
<1>. USE DEF DInv
<1>1. PICK l \in LockNames :
        /\ l = WriteLock[pc[c]] /\ l = (IF pc[c] \in {"regmap", "relmap"} THEN "map" ELSE "tree")
        /\ readers[l] = {}
        /\ writer' = [writer EXCEPT ![l] = NoClient]
        /\ readers' = [readers EXCEPT ![l] = waiting[l]]
        /\ waiting' = [waiting EXCEPT ![l] = {}]
  BY WriteLocks DEF WriteSection, LockNames
<1>2. /\ pc[c] \in {"regmap", "regtree", "move", "reltree", "relmap"}
      /\ UNCHANGED <<worker, queue, ctxDone, peer, todo, target, budget>>
  BY WriteLocks DEF WriteSection, sending
<1>3. /\ pc[c] # "regmap" /\ pc[c] # "relmap" => UNCHANGED registered
      /\ pc[c] = "regmap" => registered' = registered \cup {c}
      /\ pc[c] = "relmap" => registered' = registered \ {c}
  BY DEF WriteSection
<1>4. /\ pc[c] # "regtree" /\ pc[c] # "reltree" => UNCHANGED indexed
      /\ pc[c] = "regtree" => indexed' = indexed \cup {c}
      /\ pc[c] = "reltree" => indexed' = indexed \ {c}
  BY DEF WriteSection
<1>5. /\ pc' = [pc EXCEPT ![c] = pc'[c]]
      /\ pc'[c] \in {"regtree", "motd", "ranged", "relmap", "done"}
      /\ pc[c] \in BeforeLoop => pc'[c] \in BeforeLoop
  BY <1>2 DEF WriteSection, Goto, TypeOK, BeforeLoop
<1>6. connOpen' \in [Clients -> BOOLEAN]
  BY DEF WriteSection, CloseConn, TypeOK
<1>7. TypeOK'
  <2>1. pc'[c] \in Phases
    BY <1>5, PhaseNames
  <2>2. pc' \in [Clients -> Phases]
    BY <1>5, <2>1 DEF TypeOK
  <2>3. registered' \subseteq Clients /\ indexed' \subseteq Clients
    BY <1>2, <1>3, <1>4 DEF TypeOK
  <2>. QED
    BY <1>1, <1>2, <1>6, <2>2, <2>3 DEF TypeOK
<1>8. target[c] = NoClient
  BY <1>2 DEF SendingInside, Broadcasts
<1>9. WorkersFit'
  BY <1>2, <1>5 DEF WorkersFit, TypeOK
<1>10. SendingInside'
  BY <1>2, <1>5, <1>8 DEF SendingInside, TypeOK
<1>11. RecipientsStay'
  <2>. SUFFICES ASSUME NEW d \in Clients, target'[d] # NoClient, pc'[d] \in Broadcasts
                PROVE  /\ d \in readers'[ReadLock[pc'[d]]]
                       /\ {target'[d]} \cup todo'[d] \subseteq (IF pc'[d] = "ranged" THEN indexed' ELSE registered')
    BY DEF RecipientsStay
  <2>1. d # c /\ pc'[d] = pc[d] /\ target'[d] = target[d] /\ todo'[d] = todo[d]
    BY <1>2, <1>5, <1>8 DEF TypeOK
  <2>2. /\ d \in readers[ReadLock[pc[d]]]
        /\ {target[d]} \cup todo[d] \subseteq (IF pc[d] = "ranged" THEN indexed ELSE registered)
    BY <2>1 DEF RecipientsStay
  <2>3. ReadLock[pc[d]] \in LockNames /\ ReadLock[pc[d]] = IF pc[d] = "ranged" THEN "tree" ELSE "map"
    BY <2>1, ReadLocks DEF Broadcasts, LockNames
  <2>4. ReadLock[pc[d]] # l
    BY <1>1, <2>2
  <2>5. readers'[ReadLock[pc[d]]] = readers[ReadLock[pc[d]]]
    BY <1>1, <2>3, <2>4 DEF TypeOK
  <2>6. CASE pc[d] = "ranged"
    <3>1. l = "map" /\ UNCHANGED indexed
      BY <1>1, <1>4, <2>3, <2>4, <2>6 DEF LockNames
    <3>. QED
      BY <2>1, <2>2, <2>5, <2>6, <3>1
  <2>7. CASE pc[d] # "ranged"
    <3>1. l = "tree" /\ UNCHANGED registered
      BY <1>1, <1>3, <2>3, <2>4, <2>7 DEF LockNames
    <3>. QED
      BY <2>1, <2>2, <2>5, <2>7, <3>1
  <2>. QED
    BY <2>6, <2>7
<1>. QED
  BY <1>7, <1>9, <1>10, <1>11

-----------------------------------------------------------------------------
(* Steps of the sender worker and of the outside.                          *)

\* A worker ends only together with the context.
LEMMA WorkerKeeps ==
  ASSUME DInv, NEW c \in Clients, TakePacket(c) \/ Write(c) \/ WorkerCancelled(c)
  PROVE  DInv'
<1>. USE DEF DInv
<1>1. /\ UNCHANGED <<pc, registered, indexed, readers, todo, target, writer, waiting, peer, budget>>
      /\ worker[c] \in {"idle", "write"} /\ worker'[c] \in {"idle", "write", "exited"}
      /\ \A d \in Clients \ {c} : worker'[d] = worker[d]
      /\ \A d \in Clients : ctxDone[d] => ctxDone'[d]
      /\ worker'[c] = "exited" => ctxDone'[c]
      /\ worker' \in [Clients -> {"none", "idle", "write", "exited"}]
      /\ ctxDone' \in [Clients -> BOOLEAN] /\ connOpen' \in [Clients -> BOOLEAN]
  <2>1. CASE TakePacket(c)
    BY <2>1 DEF TakePacket, TypeOK, sockets, office, locks, sending
  <2>2. CASE Write(c)
    <3>1. /\ UNCHANGED <<pc, registered, indexed, readers, todo, target, writer, waiting, peer, budget>>
          /\ worker[c] = "write"
      BY <2>2 DEF Write, office, locks, sending
    <3>2. CASE WorkerExits(c)
      BY <3>1, <3>2 DEF WorkerExits, CancelCtx, CloseConn, TypeOK
    <3>3. CASE worker' = [worker EXCEPT ![c] = "idle"] /\ UNCHANGED <<ctxDone, connOpen>>
      BY <3>1, <3>3 DEF TypeOK
    <3>. QED
      BY <2>2, <3>2, <3>3 DEF Write
  <2>3. CASE WorkerCancelled(c)
    BY <2>3 DEF WorkerCancelled, WorkerExits, CancelCtx, CloseConn, TypeOK, office, locks, sending
  <2>. QED
    BY <2>1, <2>2, <2>3
<1>2. queue' \in [Clients -> 0..Cap]
  <2>1. queue \in [Clients -> 0..Cap] /\ Cap \in Nat
    BY DeliveryAssumption DEF TypeOK
  <2>2. UNCHANGED queue \/ (queue[c] > 0 /\ queue' = [queue EXCEPT ![c] = @ - 1])
    BY DEF TakePacket, Write, WorkerCancelled
  <2>. QED
    BY <2>1, <2>2
<1>3. TypeOK'
  BY <1>1, <1>2 DEF TypeOK
<1>4. WorkersFit'
  BY <1>1 DEF WorkersFit
<1>5. SendingInside' /\ RecipientsStay'
  BY <1>1 DEF SendingInside, RecipientsStay
<1>. QED
  BY <1>3, <1>4, <1>5

\* Peers, kicks and the end of the server.
LEMMA OutsideKeeps ==
  ASSUME DInv, NEW c \in Clients, Disconnect(c) \/ Stall(c) \/ Resume(c) \/ Kick(c) \/ Shutdown
  PROVE  DInv'
<1>. USE DEF DInv
<1>1. CASE Disconnect(c) \/ Stall(c) \/ Resume(c)
  <2>1. TypeOK' /\ UNCHANGED <<pc, worker, ctxDone, registered, indexed, readers, todo, target>>
    BY <1>1 DEF Disconnect, Stall, Resume, TypeOK, office, locks, sending
  <2>. QED
    BY <2>1, OthersKeep
<1>2. CASE Kick(c) \/ Shutdown
  <2>1. budget' \in 0..Budget
    BY <1>2, DeliveryAssumption DEF Kick, Shutdown, Spend, TypeOK
  <2>2. ctxDone' \in [Clients -> BOOLEAN] /\ \A d \in Clients : ctxDone[d] => ctxDone'[d]
    BY <1>2 DEF Kick, Shutdown, CancelCtx, TypeOK
  <2>3. UNCHANGED <<pc, worker, queue, peer, connOpen, registered, indexed, writer, readers, waiting, todo, target>>
    BY <1>2 DEF Kick, Shutdown, sockets, office, locks, sending
  <2>4. TypeOK'
    BY <2>1, <2>2, <2>3 DEF TypeOK
  <2>. QED
    BY <2>2, <2>3, <2>4, OthersKeep
<1>. QED
  BY <1>1, <1>2

-----------------------------------------------------------------------------
(* The theorems.                                                           *)

\* Who is online at the start has a worker, and nobody sends.
LEMMA InitHolds == Init => DInv
<1>. SUFFICES ASSUME Init PROVE DInv
  OBVIOUS
<1>1. queue \in [Clients -> 0..Cap] /\ budget \in 0..Budget
  BY DeliveryAssumption DEF Init
<1>2. pc \in [Clients -> Phases]
  BY PhaseNames DEF Init
<1>3. /\ worker \in [Clients -> {"none", "idle", "write", "exited"}]
      /\ peer \in [Clients -> {"reading", "stalled", "gone"}]
      /\ ctxDone \in [Clients -> BOOLEAN] /\ connOpen \in [Clients -> BOOLEAN]
  BY DEF Init
<1>4. /\ writer \in [LockNames -> Clients \cup {NoClient}]
      /\ readers \in [LockNames -> SUBSET Clients] /\ waiting \in [LockNames -> SUBSET Clients]
      /\ todo \in [Clients -> SUBSET Clients] /\ target \in [Clients -> Clients \cup {NoClient}]
      /\ registered \subseteq Clients /\ indexed \subseteq Clients
  BY DEF Init
<1>5. TypeOK
  BY <1>1, <1>2, <1>3, <1>4 DEF TypeOK
<1>6. WorkersFit /\ SendingInside /\ RecipientsStay
  BY DEF Init, WorkersFit, BeforeLoop, SendingInside, RecipientsStay
<1>. QED
  BY <1>5, <1>6 DEF DInv

\* Every step keeps the invariant.
LEMMA StepKeeps == DInv /\ [Next]_vars => DInv'
<1>. SUFFICES ASSUME DInv, [Next]_vars PROVE DInv'
  OBVIOUS
<1>1. ASSUME NEW c \in Clients, ConnStep(c) PROVE DInv'
  BY <1>1, RLockKeeps, StartBroadcastKeeps, FindKeeps, DeliverKeeps, RefusedKeeps, LoopKeeps, WriteSectionKeeps
  DEF ConnStep
<1>2. ASSUME NEW c \in Clients, WorkerStep(c) \/ WorkerCancelled(c) PROVE DInv'
  BY <1>2, WorkerKeeps DEF WorkerStep
<1>3. ASSUME NEW c \in Clients, \E kind \in Kinds : Packet(c, kind) PROVE DInv'
  BY <1>3, LoopKeeps
<1>4. ASSUME NEW c \in Clients, Disconnect(c) \/ Stall(c) \/ Resume(c) \/ Kick(c) PROVE DInv'
  BY <1>4, OutsideKeeps
<1>5. CASE Shutdown
  <2>1. PICK c \in Clients : ~ctxDone[c]
    BY <1>5 DEF Shutdown
  <2>. QED
    BY <1>5, <2>1, OutsideKeeps
<1>6. CASE UNCHANGED vars
  BY <1>6 DEF vars, sockets, office, locks, sending, DInv, TypeOK, WorkersFit, SendingInside, RecipientsStay
<1>. QED
  BY <1>1, <1>2, <1>3, <1>4, <1>5, <1>6 DEF Next, Quiet

\* DInv, the inductive invariant of delivery, always holds.
THEOREM DeliveryInvariant == Spec => []DInv
  BY InitHolds, StepKeeps, PTL DEF Spec

\* Types, and that no channel overflows, for any number of clients and any
\* capacity of the channels.
THEOREM DeliveryTypes == Spec => []TypeOK
<1>1. DInv => TypeOK
  BY DEF DInv
<1>. QED
  BY <1>1, DeliveryInvariant, PTL

\* Whoever is blocked on a full channel has somebody to wait for: a worker
\* that takes packets from it, or a cancelled context that lets the send go.
SendersHaveHope ==
  \A c \in Clients :
    target[c] # NoClient /\ queue[target[c]] = Cap =>
      worker[target[c]] \in {"idle", "write"} \/ ctxDone[target[c]]

\* When everybody is online, whoever is blocked on a full channel has somebody
\* to wait for: its worker, or a context that is done.
THEOREM OnlineSendersHaveHope ==
  ASSUME Joining = {}
  PROVE  Spec => []SendersHaveHope
<1>1. DInv => SendersHaveHope
  BY DEF DInv, TypeOK, WorkersFit, SendersHaveHope
<1>. QED
  BY <1>1, DeliveryInvariant, PTL

\* In general, a sender without hope waits for a client whose login has not
\* reached its event loop, or has failed, and a broadcast without hope waits for
\* one that is still in the structure it was found in.
HopelessWaitForLogins ==
  \A c \in Clients :
    target[c] # NoClient /\ worker[target[c]] \notin {"idle", "write"} /\ ~ctxDone[target[c]] =>
      /\ target[c] \in Joining /\ pc[target[c]] \in BeforeLoop
      /\ pc[c] \in Broadcasts => target[c] \in (IF pc[c] = "ranged" THEN indexed ELSE registered)

\* So the window between registering and starting the worker, and the release
\* that follows a failed welcome message, are the only places where a full
\* channel can block for good.
THEOREM OnlyLoginsAreHopeless == Spec => []HopelessWaitForLogins
<1>1. DInv => HopelessWaitForLogins
  <2>. SUFFICES ASSUME DInv, NEW c \in Clients, target[c] # NoClient,
                       worker[target[c]] \notin {"idle", "write"}, ~ctxDone[target[c]]
                PROVE  /\ target[c] \in Joining /\ pc[target[c]] \in BeforeLoop
                       /\ pc[c] \in Broadcasts => target[c] \in (IF pc[c] = "ranged" THEN indexed ELSE registered)
    BY DEF HopelessWaitForLogins
  <2>1. target[c] \in Clients /\ worker[target[c]] = "none"
    BY DEF DInv, TypeOK, WorkersFit
  <2>. QED
    BY <2>1 DEF DInv, WorkersFit, RecipientsStay
<1>. QED
  BY <1>1, DeliveryInvariant, PTL

-----------------------------------------------------------------------------
(* Nobody waits in a circle.  The chain of those who wait has at most four *)
(* links: for a lock, for the writer that has called Lock, for a reader    *)
(* that is in the way of the writer, for a channel that the reader sends   *)
(* on.  At its end is a goroutine that can go on, or the peer of somebody. *)

\* Who has called Lock is about to write under this lock, who reads under a
\* lock or waits for it is at a reading of it, and there is a writer to wait for.
LocksFit ==
  \A c \in Clients, l \in LockNames :
    /\ writer[l] = c => pc[c] \in DOMAIN WriteLock /\ WriteLock[pc[c]] = l
    /\ c \in readers[l] \cup waiting[l] => pc[c] \in DOMAIN ReadLock /\ ReadLock[pc[c]] = l
    /\ c \in waiting[l] => c \notin readers[l] /\ writer[l] # NoClient

\* Who is to send a packet has somebody to send it to.
SendersAim == \A c \in Clients : pc[c] \in {"send", "reject"} => target[c] # NoClient

LInv == DInv /\ LocksFit /\ SendersAim

\* No phase reads and writes under a lock.
LEMMA LockPhases ==
  /\ DOMAIN ReadLock \cap DOMAIN WriteLock = {}
  /\ {"loop", "send", "reject", "motd", "done"} \cap (DOMAIN ReadLock \cup DOMAIN WriteLock) = {}
  /\ \A p \in DOMAIN ReadLock : ReadLock[p] \in LockNames
  /\ \A p \in DOMAIN WriteLock : WriteLock[p] \in LockNames
  BY ReadLocks, WriteLocks DEF LockNames

\* A goroutine that goes to another phase without a lock.
LEMMA LeavesPhase ==
  ASSUME LocksFit, NEW c \in Clients,
         \A d \in Clients \ {c} : pc'[d] = pc[d],
         \A m \in LockNames : /\ c \notin waiting[m] /\ writer[m] # c /\ readers'[m] \subseteq readers[m] \ {c}
                              /\ waiting'[m] = waiting[m] /\ writer'[m] = writer[m]
  PROVE  LocksFit'
  BY DEF LocksFit

\* A goroutine that is at no lock holds none.
LEMMA HoldsNothing ==
  ASSUME LocksFit, NEW c \in Clients, pc[c] \notin DOMAIN ReadLock \cup DOMAIN WriteLock, NEW m \in LockNames
  PROVE  c \notin readers[m] \cup waiting[m] /\ writer[m] # c
  BY DEF LocksFit

\* A reader holds one lock and waits for none, and gives it back.
LEMMA GivesBack ==
  ASSUME LInv, NEW c \in Clients, pc[c] \in DOMAIN ReadLock, c \in readers[ReadLock[pc[c]]], RUnlock(c),
         NEW m \in LockNames
  PROVE  c \notin waiting[m] /\ writer[m] # c /\ readers'[m] \subseteq readers[m] \ {c}
<1>1. ReadLock[pc[c]] \in LockNames /\ pc[c] \notin DOMAIN WriteLock
  BY LockPhases
<1>2. c \notin waiting[m] /\ writer[m] # c /\ (c \in readers[m] => m = ReadLock[pc[c]])
  BY <1>1 DEF LInv, LocksFit
<1>3. readers \in [LockNames -> SUBSET Clients]
  BY DEF LInv, DInv, TypeOK
<1>. QED
  BY <1>1, <1>2, <1>3 DEF RUnlock

\* RLock waits only for a writer.
LEMMA RLockFits ==
  ASSUME LInv, NEW c \in Clients, RLock(c)
  PROVE  LocksFit' /\ SendersAim'
<1>1. PICK l \in LockNames : l = ReadLock[pc[c]] /\ pc[c] \in DOMAIN ReadLock /\ c \notin readers[l] \cup waiting[l]
  BY LockPhases DEF RLock
<1>2. UNCHANGED <<pc, writer, target>>
  BY DEF RLock, sending
<1>3. \/ writer[l] = NoClient /\ readers' = [readers EXCEPT ![l] = @ \cup {c}] /\ UNCHANGED waiting
      \/ writer[l] # NoClient /\ waiting' = [waiting EXCEPT ![l] = @ \cup {c}] /\ UNCHANGED readers
  BY <1>1 DEF RLock
<1>4. readers \in [LockNames -> SUBSET Clients] /\ waiting \in [LockNames -> SUBSET Clients]
  BY DEF LInv, DInv, TypeOK
<1>5. waiting[l] # {} => writer[l] # NoClient
  BY <1>1, <1>4 DEF LInv, LocksFit
<1>6. LocksFit'
  BY <1>1, <1>2, <1>3, <1>4, <1>5 DEF LInv, LocksFit
<1>. QED
  BY <1>2, <1>6 DEF LInv, SendersAim

\* Where a broadcast begins, goes on or ends.
LEMMA BroadcastFits ==
  ASSUME LInv, NEW c \in Clients, pc[c] \in Broadcasts, c \in readers[ReadLock[pc[c]]],
         UNCHANGED <<writer, waiting>>,
         \A d \in Clients \ {c} : target'[d] = target[d],
         UNCHANGED <<pc, readers>> \/ (RUnlock(c) /\ Finish(c))
  PROVE  LocksFit' /\ SendersAim'
<1>1. CASE UNCHANGED <<pc, readers>>
  <2>1. LocksFit'
    BY <1>1 DEF LInv, LocksFit
  <2>2. SendersAim'
    BY <1>1 DEF LInv, SendersAim, Broadcasts
  <2>. QED
    BY <2>1, <2>2
<1>2. CASE RUnlock(c) /\ Finish(c)
  <2>1. pc[c] \in DOMAIN ReadLock
    BY ReadLocks DEF Broadcasts
  <2>2. /\ \A d \in Clients \ {c} : pc'[d] = pc[d]
        /\ pc'[c] \in {"reltree", "loop"}
    BY <1>2 DEF Finish, Goto, LInv, DInv, TypeOK
  <2>3. LocksFit'
    BY <1>2, <2>1, <2>2, GivesBack, LeavesPhase DEF LInv
  <2>4. SendersAim'
    BY <2>2 DEF LInv, SendersAim
  <2>. QED
    BY <2>3, <2>4
<1>. QED
  BY <1>1, <1>2

LEMMA StartBroadcastFits ==
  ASSUME LInv, NEW c \in Clients, StartBroadcast(c)
  PROVE  LocksFit' /\ SendersAim'
<1>1. pc[c] \in Broadcasts /\ c \in readers[ReadLock[pc[c]]] /\ UNCHANGED <<writer, waiting>>
  BY DEF StartBroadcast, Broadcasts
<1>2. target \in [Clients -> Clients \cup {NoClient}]
  BY DEF LInv, DInv, TypeOK
<1>3. \/ RUnlock(c) /\ Finish(c) /\ UNCHANGED target
      \/ UNCHANGED <<pc, readers>> /\ \E d : target' = [target EXCEPT ![c] = d]
  BY DEF StartBroadcast, sending
<1>4. \A d \in Clients \ {c} : target'[d] = target[d]
  BY <1>2, <1>3
<1>. QED
  BY <1>1, <1>3, <1>4, BroadcastFits

LEMMA FindFits ==
  ASSUME LInv, NEW c \in Clients, Find(c) \/ Kill(c)
  PROVE  LocksFit' /\ SendersAim'
<1>1. pc[c] \in {"find", "kill"} /\ pc[c] \in DOMAIN ReadLock /\ ReadLock[pc[c]] = "map" /\ c \in readers["map"]
      /\ RUnlock(c) /\ UNCHANGED <<writer, waiting>>
  BY ReadLocks DEF Find, Kill
<1>2. /\ \A d \in Clients \ {c} : pc'[d] = pc[d] /\ target'[d] = target[d]
      /\ pc'[c] = "loop" \/ (pc'[c] = "send" /\ target'[c] # NoClient)
  <2>1. CASE Find(c)
    <3>1. PICK d \in registered \cup {c} : target' = [target EXCEPT ![c] = d]
      BY <2>1 DEF Find
    <3>2. d # NoClient
      BY DeliveryAssumption DEF LInv, DInv, TypeOK
    <3>. QED
      BY <2>1, <3>1, <3>2 DEF Find, Goto, LInv, DInv, TypeOK
  <2>2. CASE Kill(c)
    BY <2>2, DeliveryAssumption DEF Kill, Goto, LInv, DInv, TypeOK
  <2>. QED
    BY <2>1, <2>2
<1>3. LocksFit'
  BY <1>1, <1>2, GivesBack, LeavesPhase DEF LInv
<1>4. SendersAim'
  BY <1>2 DEF LInv, SendersAim
<1>. QED
  BY <1>3, <1>4

LEMMA DeliverFits ==
  ASSUME LInv, NEW c \in Clients, Deliver(c)
  PROVE  LocksFit' /\ SendersAim'
<1>1. target[c] # NoClient /\ pc[c] \in Broadcasts \cup {"send", "reject"} /\ UNCHANGED <<writer, waiting>>
  BY DEF Deliver, LInv, DInv, SendingInside
<1>2. \A d \in Clients \ {c} : target'[d] = target[d]
  BY DEF Deliver, LInv, DInv, TypeOK
<1>3. CASE pc[c] \in Broadcasts
  <2>1. c \in readers[ReadLock[pc[c]]]
    BY <1>1, <1>3 DEF LInv, DInv, RecipientsStay
  <2>2. UNCHANGED <<pc, readers>> \/ (RUnlock(c) /\ Finish(c))
    BY <1>3 DEF Deliver, Broadcasts
  <2>. QED
    BY <1>1, <1>2, <1>3, <2>1, <2>2, BroadcastFits
<1>4. CASE pc[c] \in {"send", "reject"} /\ todo[c] # {}
  <2>1. PICK d \in todo[c] : UNCHANGED <<pc, readers>> /\ target' = [target EXCEPT ![c] = d]
    BY <1>4 DEF Deliver
  <2>2. d # NoClient /\ target'[c] = d
    BY <2>1, DeliveryAssumption DEF LInv, DInv, TypeOK
  <2>3. SendersAim'
    BY <1>2, <2>1, <2>2 DEF LInv, SendersAim
  <2>4. LocksFit'
    BY <1>1, <2>1 DEF LInv, LocksFit
  <2>. QED
    BY <2>3, <2>4
<1>5. CASE pc[c] \in {"send", "reject"} /\ todo[c] = {}
  <2>1. UNCHANGED readers /\ pc' = [pc EXCEPT ![c] = "loop"]
    BY <1>5 DEF Deliver, AfterSend, Goto
  <2>2. \A d \in Clients \ {c} : pc'[d] = pc[d]
    BY <2>1
  <2>3. pc'[c] = "loop"
    BY <2>1 DEF LInv, DInv, TypeOK
  <2>4. \A m \in LockNames : c \notin readers[m] \cup waiting[m] /\ writer[m] # c
    BY <1>5, HoldsNothing, LockPhases DEF LInv
  <2>5. LocksFit'
    BY <1>1, <2>1, <2>2, <2>4, LeavesPhase DEF LInv
  <2>. QED
    BY <1>2, <2>2, <2>3, <2>5 DEF LInv, SendersAim
<1>. QED
  BY <1>1, <1>3, <1>4, <1>5

\* A sender that is refused has its own channel to send on.
LEMMA RefusedFits ==
  ASSUME LInv, NEW c \in Clients, Refused(c)
  PROVE  LocksFit' /\ SendersAim'
<1>1. target' = [target EXCEPT ![c] = c] /\ UNCHANGED <<pc, writer, readers, waiting>> /\ c # NoClient
  BY DeliveryAssumption DEF Refused, locks
<1>. QED
  BY <1>1 DEF LInv, DInv, TypeOK, LocksFit, SendersAim

\* Lock is called where nobody else has called it, by a goroutine that holds no lock.
LEMMA LockFits ==
  ASSUME LInv, NEW c \in Clients, Lock(c)
  PROVE  LocksFit' /\ SendersAim'
<1>1. PICK l \in LockNames : /\ l = WriteLock[pc[c]] /\ pc[c] \in DOMAIN WriteLock /\ writer[l] = NoClient
                             /\ writer' = [writer EXCEPT ![l] = c]
  BY LockPhases DEF Lock
<1>2. UNCHANGED <<pc, readers, waiting, target>> /\ writer \in [LockNames -> Clients \cup {NoClient}]
  BY DEF Lock, sending, LInv, DInv, TypeOK
<1>3. LocksFit'
  BY <1>1, <1>2, DeliveryAssumption DEF LInv, LocksFit
<1>. QED
  BY <1>2, <1>3 DEF LInv, SendersAim

\* Unlock admits everybody who waits, so nobody waits for a lock without a writer.
LEMMA WriteSectionFits ==
  ASSUME LInv, NEW c \in Clients, WriteSection(c)
  PROVE  LocksFit' /\ SendersAim'
<1>1. PICK l \in LockNames :
        /\ l = WriteLock[pc[c]] /\ pc[c] \in DOMAIN WriteLock /\ writer[l] = c /\ readers[l] = {}
        /\ writer' = [writer EXCEPT ![l] = NoClient]
        /\ readers' = [readers EXCEPT ![l] = waiting[l]]
        /\ waiting' = [waiting EXCEPT ![l] = {}]
  BY LockPhases DEF WriteSection
<1>2. UNCHANGED target /\ pc' = [pc EXCEPT ![c] = pc'[c]] /\ pc'[c] \in {"regtree", "motd", "ranged", "relmap", "done"}
  BY WriteLocks DEF WriteSection, Goto, sending, LInv, DInv, TypeOK
<1>3. /\ writer \in [LockNames -> Clients \cup {NoClient}]
      /\ readers \in [LockNames -> SUBSET Clients] /\ waiting \in [LockNames -> SUBSET Clients]
      /\ pc \in [Clients -> Phases]
  BY DEF LInv, DInv, TypeOK
<1>4. \A d \in Clients \ {c} : pc'[d] = pc[d]
  BY <1>2, <1>3
<1>5. \A m \in LockNames : c \notin readers[m] \cup waiting[m] /\ (m # l => writer[m] # c)
  BY <1>1, LockPhases DEF LInv, LocksFit
<1>6. ASSUME NEW d \in Clients, NEW m \in LockNames
      PROVE  /\ writer'[m] = d => pc'[d] \in DOMAIN WriteLock /\ WriteLock[pc'[d]] = m
             /\ d \in readers'[m] \cup waiting'[m] => pc'[d] \in DOMAIN ReadLock /\ ReadLock[pc'[d]] = m
             /\ d \in waiting'[m] => d \notin readers'[m] /\ writer'[m] # NoClient
  <2>1. CASE d = c
    BY <2>1, <1>1, <1>3, <1>5, DeliveryAssumption
  <2>2. CASE d # c
    BY <2>2, <1>1, <1>3, <1>4, DeliveryAssumption DEF LInv, LocksFit
  <2>. QED
    BY <2>1, <2>2
<1>7. LocksFit'
  BY <1>6 DEF LocksFit
<1>8. SendersAim'
  BY <1>2, <1>4 DEF LInv, SendersAim
<1>. QED
  BY <1>7, <1>8

\* The welcome message, the end of the event loop, a new packet.
LEMMA LoopFits ==
  ASSUME LInv, NEW c \in Clients, Motd(c) \/ ScanFails(c) \/ (\E kind \in Kinds : Packet(c, kind))
  PROVE  LocksFit' /\ SendersAim'
<1>1. pc[c] \in {"motd", "loop"} /\ UNCHANGED <<writer, readers, waiting>>
      /\ \A d \in Clients \ {c} : pc'[d] = pc[d] /\ target'[d] = target[d]
  BY DEF Motd, ScanFails, Packet, Goto, locks, sending, LInv, DInv, TypeOK
<1>2. pc'[c] \in {"send", "reject"} => target'[c] # NoClient
  <2>1. CASE Motd(c) \/ ScanFails(c)
    BY <2>1 DEF Motd, ScanFails, Goto, LInv, DInv, TypeOK
  <2>2. CASE \E kind \in Kinds : Packet(c, kind)
    <3>1. PICK kind \in Kinds : Packet(c, kind)
      BY <2>2
    <3>2. kind # "send"
      BY DeliveryAssumption DEF Packets
    <3>. QED
      BY <3>1, <3>2, DeliveryAssumption DEF Packet, Goto, LInv, DInv, TypeOK
  <2>. QED
    BY <2>1, <2>2
<1>3. \A m \in LockNames : c \notin readers[m] \cup waiting[m] /\ writer[m] # c
  BY <1>1, HoldsNothing, LockPhases DEF LInv
<1>4. LocksFit'
  BY <1>1, <1>3, LeavesPhase DEF LInv
<1>. QED
  BY <1>1, <1>2, <1>4 DEF LInv, SendersAim

LEMMA LInvInit == Init => LInv
<1>. SUFFICES ASSUME Init PROVE LInv
  OBVIOUS
<1>1. LocksFit /\ SendersAim
  BY DeliveryAssumption DEF Init, LocksFit, SendersAim
<1>. QED
  BY <1>1, InitHolds DEF LInv

LEMMA LInvNext == LInv /\ [Next]_vars => LInv'
<1>. SUFFICES ASSUME LInv, [Next]_vars PROVE LocksFit' /\ SendersAim'
  BY StepKeeps DEF LInv
<1>1. ASSUME NEW c \in Clients, ConnStep(c) \/ \E kind \in Kinds : Packet(c, kind) PROVE LocksFit' /\ SendersAim'
  BY <1>1, RLockFits, StartBroadcastFits, FindFits, DeliverFits, RefusedFits, LockFits, WriteSectionFits,
     LoopFits
  DEF ConnStep
<1>2. ASSUME UNCHANGED <<pc, writer, readers, waiting, target>> PROVE LocksFit' /\ SendersAim'
  BY <1>2 DEF LInv, LocksFit, SendersAim
<1>3. ASSUME NEW c \in Clients, WorkerStep(c) \/ WorkerCancelled(c) \/ Disconnect(c) \/ Stall(c) \/ Resume(c) \/ Kick(c)
      PROVE  UNCHANGED <<pc, writer, readers, waiting, target>>
  BY <1>3 DEF WorkerStep, TakePacket, Write, WorkerCancelled, Disconnect, Stall, Resume, Kick, locks, sending
<1>4. Shutdown \/ Quiet \/ UNCHANGED vars => UNCHANGED <<pc, writer, readers, waiting, target>>
  BY DEF Shutdown, Quiet, vars, locks, sending
<1>. QED
  BY <1>1, <1>2, <1>3, <1>4 DEF Next

\* A goroutine inside a read lock waits for no lock.
LEMMA ReadersRun ==
  ASSUME LInv, NEW l \in LockNames, NEW d \in readers[l]
  PROVE  d \in Clients /\ (Runs(d) \/ WaitsForChannel(d))
<1>1. d \in Clients /\ pc[d] \in DOMAIN ReadLock /\ ReadLock[pc[d]] = l
  BY DEF LInv, DInv, TypeOK, LocksFit
<1>2. pc[d] # "done" /\ pc[d] # "loop" /\ pc[d] # "motd" /\ pc[d] \notin DOMAIN WriteLock
  BY <1>1, LockPhases
<1>3. \A m \in LockNames : d \notin waiting[m]
  BY <1>1 DEF LInv, LocksFit
<1>. QED
  BY <1>1, <1>2, <1>3 DEF Runs, WaitsForPeer, WaitsForLock

\* A goroutine that has called Lock waits for readers only.
LEMMA WritersRun ==
  ASSUME LInv, NEW l \in LockNames, writer[l] # NoClient
  PROVE  Runs(writer[l]) \/ \E d \in readers[l] : Runs(d) \/ WaitsForChannel(d)
<1>1. PICK w \in Clients : w = writer[l]
  BY DEF LInv, DInv, TypeOK
<1>2. pc[w] \in DOMAIN WriteLock /\ WriteLock[pc[w]] = l
  BY <1>1 DEF LInv, LocksFit
<1>3. CASE readers[l] # {}
  BY <1>3, ReadersRun
<1>4. CASE readers[l] = {}
  <2>1. /\ pc[w] # "done" /\ pc[w] # "loop" /\ pc[w] # "motd" /\ pc[w] # "send" /\ pc[w] # "reject"
        /\ pc[w] \notin DOMAIN ReadLock
    BY <1>2, LockPhases
  <2>2. \A m \in LockNames : w \notin waiting[m]
    BY <2>1 DEF LInv, LocksFit
  <2>3. target[w] = NoClient
    BY <2>1, ReadLocks DEF LInv, DInv, SendingInside, Broadcasts
  <2>. QED
    BY <1>1, <1>2, <1>4, <2>1, <2>2, <2>3 DEF Runs, WaitsForPeer, WaitsForLock, WaitsForChannel
<1>. QED
  BY <1>3, <1>4

\* For any number of clients, any packets and any capacity: behind everybody who
\* waits for a lock or a channel there is, after four links at most, one who can
\* go on, a peer that does not read, or a login that has no worker yet.
THEOREM NobodyWaitsInACircle == Spec => []WaitsLead
<1>1. ASSUME LInv, NEW c \in Clients, NEW l \in LockNames, WaitsForLock(c, l)
      PROVE  \/ writer[l] # NoClient /\ Runs(writer[l])
             \/ \E d \in readers[l] : Runs(d) \/ WaitsForChannel(d)
  <2>1. writer[l] # NoClient
    BY <1>1, DeliveryAssumption DEF WaitsForLock, LInv, LocksFit
  <2>. QED
    BY <1>1, <2>1, WritersRun
<1>2. ASSUME LInv, NEW c \in Clients, WaitsForChannel(c)
      PROVE  Writes(target[c]) \/ PeerStalls(target[c]) \/ LoginWindow(target[c])
  <2>1. PICK d \in Clients : d = target[c] /\ queue[d] = Cap /\ ~ctxDone[d]
    BY <1>2 DEF WaitsForChannel, LInv, DInv, TypeOK
  <2>2. queue[d] > 0
    BY <2>1, DeliveryAssumption
  <2>3. worker[d] \in {"none", "idle", "write"}
    BY <1>2, <2>1 DEF LInv, DInv, TypeOK, WorkersFit
  <2>4. worker[d] = "none" => LoginWindow(d)
    BY <1>2, <2>1 DEF LInv, DInv, WorkersFit, LoginWindow
  <2>. QED
    BY <2>1, <2>2, <2>3, <2>4 DEF Writes, PeerStalls
<1>3. LInv => WaitsLead
  BY <1>1, <1>2 DEF WaitsLead
<1>. QED
  BY <1>3, LInvInit, LInvNext, PTL DEF Spec
-----------------------------------------------------------------------------
(* Whatever goes on comes to an end: the safety core of what Delivery.tla  *)
(* says under fairness.  A section under a read lock has so many sends and *)
(* no more, a writer that waits is overtaken by no reader, and a goroutine *)
(* that has left its event loop comes nearer to its end with every step,   *)
(* whatever all others do meanwhile.                                       *)

\* A broadcast has reached one client more, and never turns to it again.
ReachesOne(c) ==
  /\ target[c] # NoClient
  /\ target'[c] \in todo[c]
  /\ todo'[c] = todo[c] \ {target'[c]}

\* Every step of a reader gives the lock back, finds out whom to address, or
\* addresses one of those that are left; and new readers wait for the writer.
SectionShrinks ==
  \A c \in Clients, l \in LockNames :
    /\ c \in readers[l] /\ ConnStep(c) =>
         \/ c \notin readers'[l]
         \/ target[c] = NoClient /\ target'[c] # NoClient
         \/ ReachesOne(c)
    /\ writer[l] # NoClient /\ writer'[l] = writer[l] => readers'[l] \subseteq readers[l]

\* The way out: how many steps there are to come, those of the broadcast of the
\* delete packet counted once.
WayOut == {"farewell", "reltree", "relmap"}
StepsOut(c) ==
  IF pc[c] = "farewell" THEN IF target[c] # NoClient THEN 5
                             ELSE IF c \in readers["map"] THEN 6
                             ELSE IF c \in waiting["map"] THEN 7 ELSE 8
  ELSE IF pc[c] = "reltree" THEN IF writer["tree"] = c THEN 3 ELSE 4
  ELSE IF pc[c] = "relmap" THEN IF writer["map"] = c THEN 1 ELSE 2
  ELSE 0

\* Every step of a goroutine on its way out brings it nearer to the end, and no
\* step of another one takes it back.
OutComesNearer ==
  \A c \in Clients : pc[c] \in WayOut =>
    /\ pc'[c] \in WayOut \cup {"done"}
    /\ \/ StepsOut(c)' < StepsOut(c)
       \/ StepsOut(c)' = StepsOut(c) /\ ReachesOne(c)
       \/ StepsOut(c)' = StepsOut(c) /\ UNCHANGED <<pc[c], target[c], todo[c]>> /\ ~ConnStep(c)

\* A goroutine leaves a read lock, or goes on inside it.
LEMMA ReaderGoesOn ==
  ASSUME LInv, NEW c \in Clients, NEW l \in LockNames, c \in readers[l], ConnStep(c)
  PROVE  c \notin readers'[l] \/ (target[c] = NoClient /\ target'[c] # NoClient) \/ ReachesOne(c)
<1>1. pc[c] \in DOMAIN ReadLock /\ ReadLock[pc[c]] = l
  BY DEF LInv, LocksFit
<1>2. StartBroadcast(c) \/ Find(c) \/ Kill(c) \/ Deliver(c)
  BY <1>1, LockPhases DEF ConnStep, RLock, Refused, Direct, Lock, WriteSection, Motd, ScanFails
<1>3. RUnlock(c) => c \notin readers'[l]
  BY <1>1 DEF RUnlock, LInv, DInv, TypeOK
<1>4. CASE StartBroadcast(c) /\ ~RUnlock(c)
  <2>1. PICK d \in Clients : target' = [target EXCEPT ![c] = d]
    BY <1>4 DEF StartBroadcast, LInv, DInv, TypeOK
  <2>. QED
    BY <1>4, <2>1, DeliveryAssumption DEF StartBroadcast, LInv, DInv, TypeOK
<1>5. CASE Deliver(c) /\ ~RUnlock(c)
  <2>1. target[c] # NoClient /\ pc[c] \notin {"send", "reject"}
    BY <1>1, <1>5, LockPhases DEF Deliver
  <2>2. PICK d \in todo[c] : target' = [target EXCEPT ![c] = d] /\ todo' = [todo EXCEPT ![c] = @ \ {d}]
    BY <1>5, <2>1 DEF Deliver
  <2>. QED
    BY <2>1, <2>2 DEF ReachesOne, LInv, DInv, TypeOK
<1>. QED
  BY <1>2, <1>3, <1>4, <1>5 DEF Find, Kill

\* A reader that comes while a writer waits, waits behind it.
LEMMA WriterIsNext ==
  ASSUME LInv, [Next]_vars, NEW l \in LockNames, writer[l] # NoClient, writer'[l] = writer[l]
  PROVE  readers'[l] \subseteq readers[l]
<1>. USE DEF LInv, DInv, TypeOK
<1>1. ASSUME NEW c \in Clients, ConnStep(c) PROVE readers'[l] \subseteq readers[l]
  <2>1. CASE RLock(c)
    BY <2>1, LockPhases DEF RLock
  <2>2. CASE RUnlock(c)
    BY <2>2 DEF RUnlock
  <2>3. CASE WriteSection(c)
    BY <2>3, LockPhases DEF WriteSection
  <2>4. CASE UNCHANGED readers
    BY <2>4
  <2>. QED
    BY <1>1, <2>1, <2>2, <2>3, <2>4 DEF ConnStep, StartBroadcast, Find, Kill, Deliver, Refused, Lock, Motd,
       ScanFails, locks
<1>2. ASSUME UNCHANGED readers PROVE readers'[l] \subseteq readers[l]
  BY <1>2
<1>. QED
  BY <1>1, <1>2 DEF Next, WorkerStep, TakePacket, Write, WorkerCancelled, Packet, Disconnect, Stall, Resume,
     Kick, Shutdown, Quiet, vars, locks

\* For any number of clients, no section under a read lock goes on for ever but
\* for a channel that stays full, and no writer waits for more readers than
\* there were when it called Lock.
THEOREM SectionsEnd == Spec => [][SectionShrinks]_vars
<1>1. LInv /\ [Next]_vars => SectionShrinks
  BY ReaderGoesOn, WriterIsNext DEF SectionShrinks
<1>. QED
  BY <1>1, LInvInit, LInvNext, PTL DEF Spec

\* What the goroutine itself does on its way out.
LEMMA OutGoesOn ==
  ASSUME LInv, NEW c \in Clients, pc[c] \in WayOut, ConnStep(c)
  PROVE  /\ pc'[c] \in WayOut \cup {"done"}
         /\ StepsOut(c)' < StepsOut(c) \/ (StepsOut(c)' = StepsOut(c) /\ ReachesOne(c))
<1>. USE DEF LInv, DInv, TypeOK
<1>1. CASE pc[c] = "farewell"
  <2>1. pc[c] \in Broadcasts /\ ReadLock[pc[c]] = "map" /\ "map" \in LockNames
    BY <1>1, ReadLocks DEF Broadcasts, LockNames
  <2>2. RLock(c) \/ StartBroadcast(c) \/ Deliver(c)
    BY <1>1, WriteLocks DEF ConnStep, Find, Kill, Refused, Direct, Lock, WriteSection, Motd, ScanFails
  <2>3. CASE RLock(c)
    <3>1. UNCHANGED <<pc, target>> /\ c \notin readers["map"] \cup waiting["map"]
          /\ c \in readers'["map"] \cup waiting'["map"]
      BY <2>1, <2>3 DEF RLock, sending
    <3>2. target[c] = NoClient
      BY <2>1, <3>1 DEF RecipientsStay
    <3>. QED
      BY <1>1, <3>1, <3>2 DEF StepsOut, WayOut
  <2>4. CASE Finish(c)
    <3>1. pc'[c] = "reltree"
      BY <1>1, <2>4 DEF Finish, Goto
    <3>2. target[c] # NoClient \/ c \in readers["map"]
      BY <1>1, <2>1, <2>2, <3>1 DEF RLock, StartBroadcast, Deliver
    <3>. QED
      BY <1>1, <3>1, <3>2 DEF StepsOut, WayOut
  <2>5. CASE StartBroadcast(c) /\ ~Finish(c)
    <3>1. PICK d \in Clients : target' = [target EXCEPT ![c] = d]
      BY <2>5 DEF StartBroadcast
    <3>2. target[c] = NoClient /\ c \in readers["map"] /\ UNCHANGED pc /\ target'[c] # NoClient
      BY <2>1, <2>5, <3>1, DeliveryAssumption DEF StartBroadcast
    <3>. QED
      BY <1>1, <3>2 DEF StepsOut, WayOut
  <2>6. CASE Deliver(c) /\ ~Finish(c)
    <3>1. PICK d \in todo[c] : /\ target' = [target EXCEPT ![c] = d] /\ todo' = [todo EXCEPT ![c] = @ \ {d}]
                               /\ UNCHANGED pc /\ target[c] # NoClient
      BY <1>1, <2>6 DEF Deliver
    <3>2. ReachesOne(c) /\ target'[c] # NoClient
      BY <3>1, DeliveryAssumption DEF ReachesOne
    <3>. QED
      BY <1>1, <3>1, <3>2 DEF StepsOut, WayOut
  <2>. QED
    BY <2>2, <2>3, <2>4, <2>5, <2>6
<1>2. CASE pc[c] \in {"reltree", "relmap"}
  <2>1. pc[c] \in DOMAIN WriteLock /\ WriteLock[pc[c]] \in LockNames
        /\ WriteLock[pc[c]] = (IF pc[c] = "reltree" THEN "tree" ELSE "map")
    BY <1>2, WriteLocks, LockPhases
  <2>2. target[c] = NoClient
    BY <1>2 DEF SendingInside, Broadcasts
  <2>3. Lock(c) \/ WriteSection(c)
    BY <1>2, <2>1, <2>2, LockPhases DEF ConnStep, RLock, StartBroadcast, Find, Kill, Deliver, Refused,
       Direct, Motd, ScanFails
  <2>4. CASE Lock(c)
    BY <1>2, <2>1, <2>4, DeliveryAssumption DEF Lock, StepsOut, WayOut
  <2>5. CASE WriteSection(c)
    <3>1. writer[WriteLock[pc[c]]] = c /\ writer'[WriteLock[pc[c]]] = NoClient
      BY <2>1, <2>5 DEF WriteSection
    <3>2. pc'[c] = IF pc[c] = "reltree" THEN "relmap" ELSE "done"
      BY <1>2, <2>5 DEF WriteSection, Goto
    <3>3. pc'[c] = "relmap" => StepsOut(c)' \in {1, 2}
      BY DEF StepsOut
    <3>. QED
      BY <1>2, <2>1, <3>1, <3>2, <3>3 DEF StepsOut, WayOut
  <2>. QED
    BY <2>3, <2>4, <2>5
<1>. QED
  BY <1>1, <1>2 DEF WayOut

\* What others do to a goroutine that is not in its event loop: they may let it
\* in where it waits to read.
LEMMA OthersStandAside ==
  ASSUME LInv, [Next]_vars, NEW c \in Clients, pc[c] # "loop", ~ConnStep(c), NEW l \in LockNames
  PROVE  /\ UNCHANGED <<pc[c], target[c], todo[c]>>
         /\ writer'[l] = c <=> writer[l] = c
         /\ c \in readers[l] => c \in readers'[l]
         /\ c \in waiting[l] => c \in waiting'[l] \cup readers'[l]
         /\ c \in waiting'[l] \cup readers'[l] => c \in waiting[l] \cup readers[l]
<1>. DEFINE Aside == /\ UNCHANGED <<pc[c], target[c], todo[c]>>
                     /\ writer'[l] = c <=> writer[l] = c
                     /\ c \in readers[l] => c \in readers'[l]
                     /\ c \in waiting[l] => c \in waiting'[l] \cup readers'[l]
                     /\ c \in waiting'[l] \cup readers'[l] => c \in waiting[l] \cup readers[l]
<1>. USE DEF LInv, DInv, TypeOK
<1>1. ASSUME NEW d \in Clients \ {c}, ConnStep(d) PROVE Aside
  <2>1. CASE RLock(d)
    BY <1>1, <2>1, LockPhases DEF RLock, sending
  <2>2. RUnlock(d) /\ UNCHANGED <<waiting, writer>> =>
          /\ writer'[l] = c <=> writer[l] = c
          /\ c \in readers[l] => c \in readers'[l]
          /\ c \in waiting[l] => c \in waiting'[l] \cup readers'[l]
          /\ c \in waiting'[l] \cup readers'[l] => c \in waiting[l] \cup readers[l]
    BY <1>1 DEF RUnlock
  <2>3. CASE StartBroadcast(d)
    <3>1. RUnlock(d) \/ UNCHANGED readers
      BY <2>3 DEF StartBroadcast
    <3>2. UNCHANGED <<waiting, writer, pc[c], target[c], todo[c]>>
      BY <1>1, <2>3 DEF StartBroadcast, Finish, Goto, sending
    <3>. QED
      BY <2>2, <3>1, <3>2
  <2>4. CASE Find(d) \/ Kill(d)
    BY <1>1, <2>2, <2>4 DEF Find, Kill, Goto
  <2>5. CASE Deliver(d)
    <3>1. RUnlock(d) \/ UNCHANGED readers
      BY <2>5 DEF Deliver
    <3>2. UNCHANGED <<waiting, writer, pc[c], target[c], todo[c]>>
      BY <1>1, <2>5 DEF Deliver, Finish, AfterSend, Goto
    <3>. QED
      BY <2>2, <3>1, <3>2
  <2>6. CASE Lock(d)
    BY <1>1, <2>6, LockPhases, DeliveryAssumption DEF Lock, sending
  <2>7. CASE WriteSection(d)
    <3>1. PICK m \in LockNames : /\ writer[m] = d /\ readers[m] = {}
                                 /\ writer' = [writer EXCEPT ![m] = NoClient]
                                 /\ readers' = [readers EXCEPT ![m] = waiting[m]]
                                 /\ waiting' = [waiting EXCEPT ![m] = {}]
      BY <2>7, LockPhases DEF WriteSection
    <3>2. UNCHANGED <<pc[c], target[c], todo[c]>>
      BY <1>1, <2>7 DEF WriteSection, Goto, sending
    <3>. QED
      BY <1>1, <3>1, <3>2, DeliveryAssumption
  <2>8. CASE Motd(d) \/ ScanFails(d) \/ Refused(d)
    BY <1>1, <2>8 DEF Motd, ScanFails, Refused, Goto, locks, sending
  <2>. QED
    BY <1>1, <2>1, <2>3, <2>4, <2>5, <2>6, <2>7, <2>8 DEF ConnStep
<1>2. ASSUME UNCHANGED <<pc[c], target[c], todo[c], writer, readers, waiting>> PROVE Aside
  BY <1>2
<1>3. ASSUME NEW d \in Clients, NEW kind \in Kinds, Packet(d, kind) PROVE Aside
  BY <1>2, <1>3 DEF Packet, Goto, locks
<1>4. ASSUME NEW d \in Clients,
             WorkerStep(d) \/ WorkerCancelled(d) \/ Disconnect(d) \/ Stall(d) \/ Resume(d) \/ Kick(d)
      PROVE  Aside
  BY <1>2, <1>4 DEF WorkerStep, TakePacket, Write, WorkerCancelled, Disconnect, Stall, Resume, Kick, locks, sending
<1>5. Shutdown \/ Quiet \/ UNCHANGED vars => Aside
  BY <1>2 DEF Shutdown, Quiet, vars, locks, sending
<1>. QED
  BY <1>1, <1>3, <1>4, <1>5 DEF Next

\* Whoever has left the event loop, kicked, killed or gone, ends up released:
\* short of fairness and of channels that stay full, nothing keeps it.
THEOREM TheWayOutEnds == Spec => [][OutComesNearer]_vars
<1>1. ASSUME LInv, [Next]_vars, NEW c \in Clients, pc[c] \in WayOut, ~ConnStep(c)
      PROVE  /\ UNCHANGED <<pc[c], target[c], todo[c]>>
             /\ StepsOut(c)' <= StepsOut(c)
  <2>1. pc[c] # "loop" /\ "map" \in LockNames /\ "tree" \in LockNames
    BY <1>1 DEF WayOut, LockNames
  <2>2. /\ UNCHANGED <<pc[c], target[c], todo[c]>>
        /\ writer'["map"] = c <=> writer["map"] = c
        /\ writer'["tree"] = c <=> writer["tree"] = c
        /\ c \in readers["map"] => c \in readers'["map"]
        /\ c \in waiting["map"] => c \in waiting'["map"] \cup readers'["map"]
    BY <1>1, <2>1, OthersStandAside
  <2>. QED
    BY <1>1, <2>2 DEF StepsOut, WayOut
<1>2. ASSUME LInv, [Next]_vars PROVE OutComesNearer
  <2>. SUFFICES ASSUME NEW c \in Clients, pc[c] \in WayOut
                PROVE  /\ pc'[c] \in WayOut \cup {"done"}
                       /\ \/ StepsOut(c)' < StepsOut(c)
                          \/ StepsOut(c)' = StepsOut(c) /\ ReachesOne(c)
                          \/ /\ StepsOut(c)' = StepsOut(c) /\ UNCHANGED <<pc[c], target[c], todo[c]>>
                             /\ ~ConnStep(c)
    BY DEF OutComesNearer
  <2>1. CASE ConnStep(c)
    BY <1>2, <2>1, OutGoesOn
  <2>2. CASE ~ConnStep(c)
    <3>1. StepsOut(c) \in 0..8 /\ StepsOut(c)' \in 0..8
      BY DEF StepsOut
    <3>. QED
      BY <1>1, <1>2, <2>2, <3>1
  <2>. QED
    BY <2>1, <2>2
<1>. QED
  BY <1>2, LInvInit, LInvNext, PTL DEF Spec

-----------------------------------------------------------------------------
(* What the post office makes of it.  Where a connection goroutine is says *)
(* whether its client is in the callsign map and in the R-tree, and so the *)
(* sections of register and release do what the registry promises to every *)
(* other component.                                                        *)

\* Before register has written the map, and after release has; and where the
\* client is, besides, when only the map has it.
OffTheMap == {"regmap", "done"}
OffTheTree == OffTheMap \cup {"regtree", "relmap"}

OfficeFits ==
  \A c \in Clients :
    /\ c \in registered <=> pc[c] \notin OffTheMap
    /\ c \in indexed <=> pc[c] \notin OffTheTree

\* The callsign map and the R-tree, as the registry sees them: which callsign it
\* is does not matter here, and a client is on the map of the world or is not.
R == INSTANCE Registry WITH
       Callsigns <- Clients, Boxes <- {"box"}, NoBox <- "none",
       owner <- [c \in Clients |-> IF c \in registered THEN c ELSE NoClient],
       place <- [c \in Clients |-> IF c \in indexed THEN "box" ELSE "none"]

LEMMA OfficeInit == Init => OfficeFits
  BY DeliveryAssumption DEF Init, OfficeFits, OffTheMap, OffTheTree

\* Outside the sections of register and release nobody enters or leaves.
LEMMA OfficeStays ==
  ASSUME DInv, OfficeFits, [Next]_vars, \A c \in Clients : ~WriteSection(c)
  PROVE  /\ UNCHANGED <<registered, indexed>>
         /\ \A c \in Clients : \/ pc'[c] = pc[c]
                               \/ pc[c] \notin OffTheTree /\ pc'[c] \notin OffTheTree
<1>. DEFINE Same == /\ UNCHANGED <<registered, indexed>>
                    /\ \A c \in Clients : \/ pc'[c] = pc[c]
                                          \/ pc[c] \notin OffTheTree /\ pc'[c] \notin OffTheTree
<1>. USE DEF OffTheTree, OffTheMap
<1>0. pc \in [Clients -> Phases]
  BY DEF DInv, TypeOK
<1>1. ASSUME NEW c \in Clients, StartBroadcast(c) PROVE Same
  BY <1>0, <1>1 DEF StartBroadcast, Finish, Goto, office
<1>2. ASSUME NEW c \in Clients, Find(c) \/ Kill(c) PROVE Same
  BY <1>0, <1>2 DEF Find, Kill, Goto, office
<1>3. ASSUME NEW c \in Clients, Deliver(c) PROVE Same
  <2>1. pc[c] \in Broadcasts \cup {"send", "reject"}
    BY <1>3 DEF Deliver, DInv, SendingInside
  <2>2. pc' = pc \/ pc' = [pc EXCEPT ![c] = "reltree"] \/ pc' = [pc EXCEPT ![c] = "loop"]
    BY <1>3 DEF Deliver, AfterSend, Finish, Goto
  <2>3. UNCHANGED <<registered, indexed>>
    BY <1>3 DEF Deliver, office
  <2>. QED
    BY <1>0, <2>1, <2>2, <2>3 DEF Broadcasts
<1>4. ASSUME NEW c \in Clients, RLock(c) \/ Refused(c) \/ Lock(c) PROVE Same
  BY <1>4 DEF RLock, Refused, Lock, office
<1>5. ASSUME NEW c \in Clients, Motd(c) \/ ScanFails(c) PROVE Same
  BY <1>0, <1>5 DEF Motd, ScanFails, Goto, office
<1>6. ASSUME NEW c \in Clients, NEW kind \in Kinds, Packet(c, kind) PROVE Same
  <2>1. kind \notin OffTheTree
    BY DeliveryAssumption DEF Packets
  <2>. QED
    BY <1>0, <1>6, <2>1 DEF Packet, Goto, office
<1>7. ASSUME NEW c \in Clients,
             WorkerStep(c) \/ WorkerCancelled(c) \/ Disconnect(c) \/ Stall(c) \/ Resume(c) \/ Kick(c)
      PROVE  Same
  BY <1>7 DEF WorkerStep, TakePacket, Write, WorkerCancelled, Disconnect, Stall, Resume, Kick, office
<1>8. Shutdown \/ Quiet \/ UNCHANGED vars => Same
  BY DEF Shutdown, Quiet, vars, office
<1>. QED
  BY <1>1, <1>2, <1>3, <1>4, <1>5, <1>6, <1>7, <1>8 DEF Next, ConnStep

\* A section moves its own goroutine, and puts its client where that one is.
LEMMA OfficeSection ==
  ASSUME DInv, OfficeFits, NEW c \in Clients, WriteSection(c)
  PROVE  \/ pc[c] = "regmap" /\ pc'[c] = "regtree" /\ registered' = registered \cup {c} /\ UNCHANGED indexed
         \/ pc[c] = "regtree" /\ pc'[c] = "motd" /\ indexed' = indexed \cup {c} /\ UNCHANGED registered
         \/ pc[c] = "move" /\ pc'[c] = "ranged" /\ UNCHANGED <<registered, indexed>>
         \/ pc[c] = "reltree" /\ pc'[c] = "relmap" /\ indexed' = indexed \ {c} /\ UNCHANGED registered
         \/ pc[c] = "relmap" /\ pc'[c] = "done" /\ registered' = registered \ {c} /\ UNCHANGED indexed
<1>1. pc \in [Clients -> Phases] /\ pc[c] \in {"regmap", "regtree", "move", "reltree", "relmap"}
  BY WriteLocks DEF DInv, TypeOK, WriteSection
<1>2. /\ pc[c] = "regmap" => registered' = registered \cup {c}
      /\ pc[c] = "relmap" => registered' = registered \ {c}
      /\ pc[c] \notin {"regmap", "relmap"} => UNCHANGED registered
  BY DEF WriteSection
<1>3. /\ pc[c] = "regtree" => indexed' = indexed \cup {c}
      /\ pc[c] = "reltree" => indexed' = indexed \ {c}
      /\ pc[c] \notin {"regtree", "reltree"} => UNCHANGED indexed
  BY DEF WriteSection
<1>4. pc'[c] = [regmap |-> "regtree", regtree |-> "motd", move |-> "ranged",
                reltree |-> "relmap", relmap |-> "done"][pc[c]]
  BY <1>1 DEF WriteSection, Goto
<1>. QED
  BY <1>1, <1>2, <1>3, <1>4

LEMMA OfficeNext == DInv /\ OfficeFits /\ [Next]_vars => OfficeFits'
<1>. SUFFICES ASSUME DInv, OfficeFits, [Next]_vars PROVE OfficeFits'
  OBVIOUS
<1>1. CASE \A c \in Clients : ~WriteSection(c)
  BY <1>1, OfficeStays DEF OfficeFits, OffTheMap, OffTheTree
<1>2. ASSUME NEW c \in Clients, WriteSection(c) PROVE OfficeFits'
  <2>1. \A d \in Clients \ {c} : pc'[d] = pc[d]
    BY <1>2 DEF WriteSection, Goto, DInv, TypeOK
  <2>. QED
    BY <1>2, <2>1, OfficeSection DEF OfficeFits, OffTheMap, OffTheTree
<1>. QED
  BY <1>1, <1>2

\* Whoever is in its event loop, in a broadcast or in a search can be found by
\* callsign and by position, and whoever is done by neither, whatever was going
\* on when its connection broke.
THEOREM OfficeFollowsTheLogin == Spec => []OfficeFits
  BY InitHolds, StepKeeps, OfficeInit, OfficeNext, PTL DEF Spec

\* Every step of register and of release, at whatever moment a login fails or a
\* client is killed, is one that the registry allows, and nothing else touches it.
THEOREM KeepsTheRegistry == Spec => [][R!RegNext]_(R!regVars)
<1>1. ASSUME DInv, OfficeFits, [Next]_vars PROVE [R!RegNext]_(R!regVars)
  <2>1. CASE \A c \in Clients : ~WriteSection(c)
    BY <1>1, <2>1, OfficeStays DEF R!regVars
  <2>2. ASSUME NEW c \in Clients, WriteSection(c) PROVE [R!RegNext]_(R!regVars)
    <3>1. NoClient # c /\ (c \in registered <=> pc[c] \notin OffTheMap) /\ (c \in indexed <=> pc[c] \notin OffTheTree)
      BY <1>1, DeliveryAssumption DEF OfficeFits
    <3>2. R!Owns(c) <=> c \in registered
      BY <3>1 DEF R!Owns
    <3>3. CASE pc[c] = "regmap"
      <4>1. registered' = registered \cup {c} /\ UNCHANGED indexed
        BY <1>1, <2>2, <3>3, OfficeSection
      <4>2. R!Claim(c, c)
        BY <3>1, <3>2, <3>3, <4>1 DEF R!Claim, OffTheMap
      <4>. QED
        BY <4>2 DEF R!RegNext
    <3>4. CASE pc[c] = "regtree"
      <4>1. indexed' = indexed \cup {c} /\ UNCHANGED registered
        BY <1>1, <2>2, <3>4, OfficeSection
      <4>2. R!Put(c, "box")
        BY <3>1, <3>2, <3>4, <4>1 DEF R!Put, OffTheMap
      <4>. QED
        BY <4>2 DEF R!RegNext
    <3>5. CASE pc[c] = "move"
      BY <1>1, <2>2, <3>5, OfficeSection DEF R!regVars
    <3>6. CASE pc[c] = "reltree"
      <4>1. indexed' = indexed \ {c} /\ UNCHANGED registered
        BY <1>1, <2>2, <3>6, OfficeSection
      <4>2. R!TakeOff(c)
        BY <3>1, <3>2, <3>6, <4>1 DEF R!TakeOff, OffTheMap, OffTheTree
      <4>. QED
        BY <4>2 DEF R!RegNext
    <3>7. CASE pc[c] = "relmap"
      <4>1. registered' = registered \ {c} /\ UNCHANGED indexed
        BY <1>1, <2>2, <3>7, OfficeSection
      <4>2. R!Yield(c, c)
        BY <3>1, <3>2, <3>7, <4>1 DEF R!Yield, OffTheMap, OffTheTree
      <4>. QED
        BY <4>2 DEF R!RegNext
    <3>. QED
      BY <1>1, <2>2, <3>3, <3>4, <3>5, <3>6, <3>7, OfficeSection
  <2>. QED
    BY <2>1, <2>2
<1>. QED
  BY <1>1, InitHolds, StepKeeps, OfficeInit, OfficeNext, PTL DEF Spec
=============================================================================
