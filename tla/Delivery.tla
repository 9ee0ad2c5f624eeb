------------------------------ MODULE Delivery ------------------------------
(***************************************************************************)
(* How packets reach clients, and what blocks while they do: the bounded   *)
(* send channel and the sender worker of every client (fsd/client.go), the *)
(* two read-write locks of the post office that broadcasts hold while they *)
(* send (fsd/postoffice.go, fsd/util.go), the context that a kill, a kick  *)
(* or a delete packet cancels (fsd/handler.go, fsd/http_service.go), and   *)
(* the deferred calls that end a connection (fsd/conn.go).                 *)
(*                                                                         *)
(* Every client has a connection goroutine, at pc[c], and a sender worker, *)
(* at worker[c].  Which packets are queued does not matter here, only how  *)
(* many.  The locks are Go's: a writer that has called Lock keeps new      *)
(* readers out, and Unlock admits all readers that wait.                   *)
(***************************************************************************)
EXTENDS Naturals, FiniteSets

CONSTANTS
  Clients,    \* connections (*Client)
  Joining,    \* those that still have to log in; the others start online
  Stallable,  \* those whose peer may stop reading its socket
  Recovering, \* those of them that start reading again, sooner or later
  Leaving,    \* those whose peer may go away
  Kinds,      \* the packets that peers send
  Cap,        \* capacity of a send channel, 32 in the code
  Budget,     \* bound on what arrives from outside: packets, kicks, a shutdown
  NoClient    \* nobody

\* Packets a peer can send, by the phase in which their handler starts.
Packets == {"broadcast", "ranged", "move", "find", "kill", "delete", "reply",
            "reject"}

ASSUME DeliveryAssumption ==
  /\ Joining \subseteq Clients
  /\ Stallable \subseteq Clients
  /\ Recovering \subseteq Stallable
  /\ Leaving \subseteq Clients
  /\ Kinds \subseteq Packets
  /\ Cap \in Nat \ {0}
  /\ Budget \in Nat
  /\ NoClient \notin Clients

VARIABLES
  pc,          \* where the connection goroutine is
  worker,      \* where the sender worker is
  peer,        \* what the other end of the socket does
  queue,       \* packets in sendChan
  ctxDone,     \* the context is cancelled
  connOpen,    \* the server has not closed the socket
  registered,  \* clients in the callsign map
  indexed,     \* clients in the R-tree
  writer,      \* who has called Lock on a lock and not yet Unlock
  readers,     \* who holds a lock for reading
  waiting,     \* who has called RLock and waits for the writer
  todo,        \* recipients that the running callback has not reached
  target,      \* whose channel the connection goroutine is sending on
  budget       \* how much may still arrive from outside

sockets == <<peer, connOpen>>
office == <<registered, indexed>>
locks == <<writer, readers, waiting>>
sending == <<todo, target>>
vars == <<pc, worker, queue, ctxDone, sockets, office, locks, sending, budget>>

\* What each phase of the connection goroutine reads or writes under a lock.
ReadLock == [announce |-> "map", broadcast |-> "map", delete |-> "map", farewell |-> "map",
             find |-> "map", kill |-> "map", ranged |-> "tree"]
WriteLock == [regmap |-> "map", regtree |-> "tree", move |-> "tree",
              reltree |-> "tree", relmap |-> "map"]
LockNames == {"map", "tree"}
Phases == DOMAIN ReadLock \cup DOMAIN WriteLock \cup {"motd", "loop", "send", "reject", "done"}

Init ==
  /\ pc = [c \in Clients |-> IF c \in Joining THEN "regmap" ELSE "loop"]
  /\ worker = [c \in Clients |-> IF c \in Joining THEN "none" ELSE "idle"]
  /\ peer = [c \in Clients |-> "reading"]
  /\ queue = [c \in Clients |-> 0]
  /\ ctxDone = [c \in Clients |-> FALSE]
  /\ connOpen = [c \in Clients |-> TRUE]
  /\ registered = Clients \ Joining
  /\ indexed = Clients \ Joining
  /\ writer = [l \in LockNames |-> NoClient]
  /\ readers = [l \in LockNames |-> {}]
  /\ waiting = [l \in LockNames |-> {}]
  /\ todo = [c \in Clients |-> {}]
  /\ target = [c \in Clients |-> NoClient]
  /\ budget = Budget

Goto(c, p) == pc' = [pc EXCEPT ![c] = p]
Spend == budget > 0 /\ budget' = budget - 1
CancelCtx(c) == ctxDone' = [ctxDone EXCEPT ![c] = TRUE]
CloseConn(c) == connOpen' = [connOpen EXCEPT ![c] = FALSE]

-----------------------------------------------------------------------------
(* Reading under a lock: broadcasts, searches and look-ups.                *)

RLock(c) ==
  /\ pc[c] \in DOMAIN ReadLock
  /\ LET l == ReadLock[pc[c]] IN
       /\ c \notin readers[l] \cup waiting[l]
       /\ IF writer[l] = NoClient
            THEN readers' = [readers EXCEPT ![l] = @ \cup {c}] /\ UNCHANGED waiting
            ELSE waiting' = [waiting EXCEPT ![l] = @ \cup {c}] /\ UNCHANGED readers
  /\ UNCHANGED <<pc, worker, queue, ctxDone, sockets, office, writer, sending, budget>>

RUnlock(c) == readers' = [readers EXCEPT ![ReadLock[pc[c]]] = @ \ {c}]

\* What follows a broadcast.  The event loop starts the sender worker first;
\* handleDelete cancels the context of its own client and reads on.
Finish(c) ==
  /\ Goto(c, IF pc[c] = "farewell" THEN "reltree" ELSE "loop")
  /\ worker' = IF pc[c] = "announce" THEN [worker EXCEPT ![c] = "idle"] ELSE worker
  /\ IF pc[c] = "delete" THEN CancelCtx(c) ELSE UNCHANGED ctxDone

\* all or search has the lock.  Announcing and taking leave address everyone,
\* the other broadcasts those in range or of a kind.
StartBroadcast(c) ==
  /\ pc[c] \in {"announce", "broadcast", "delete", "farewell", "ranged"}
  /\ c \in readers[ReadLock[pc[c]]]
  /\ target[c] = NoClient
  /\ LET others == (IF pc[c] = "ranged" THEN indexed ELSE registered) \ {c} IN
     \E to \in (IF pc[c] \in {"broadcast", "ranged"} THEN SUBSET others ELSE {others}) :
       IF to = {}
         THEN RUnlock(c) /\ Finish(c) /\ UNCHANGED sending
         ELSE \E d \in to :
                /\ target' = [target EXCEPT ![c] = d]
                /\ todo' = [todo EXCEPT ![c] = to \ {d}]
                /\ UNCHANGED <<pc, worker, ctxDone, readers>>
  /\ UNCHANGED <<queue, sockets, office, writer, waiting, budget>>

\* find: an unknown callsign is answered with an error to the sender itself.
Find(c) ==
  /\ pc[c] = "find"
  /\ c \in readers["map"]
  /\ \E d \in registered \cup {c} : target' = [target EXCEPT ![c] = d]
  /\ RUnlock(c)
  /\ Goto(c, "send")
  /\ UNCHANGED <<worker, queue, ctxDone, sockets, office, writer, waiting, todo, budget>>

\* handleKillRequest: find, then cancel the context of the victim.
Kill(c) ==
  /\ pc[c] = "kill"
  /\ c \in readers["map"]
  /\ RUnlock(c)
  /\ \/ \E victim \in registered : CancelCtx(victim) /\ Goto(c, "loop") /\ UNCHANGED target
     \/ target' = [target EXCEPT ![c] = c] /\ Goto(c, "send") /\ UNCHANGED ctxDone
  /\ UNCHANGED <<worker, queue, sockets, office, writer, waiting, todo, budget>>

-----------------------------------------------------------------------------
(* Sending: Client.send puts the packet into the channel of the target, or *)
(* gives up when the context of the target is done.                        *)

\* Faulty: a full channel does not block.
SentUnbounded(c) == queue' = [queue EXCEPT ![target[c]] = @ + 1]

\* A packet for one other client: sendDirectOrErr looks at the error of send,
\* everybody else ignores it.
Direct(c) == pc[c] = "send" /\ target[c] \notin {c, NoClient}

Sent(c) ==
  \/ queue[target[c]] < Cap /\ queue' = [queue EXCEPT ![target[c]] = @ + 1]
  \/ ctxDone[target[c]] /\ ~Direct(c) /\ UNCHANGED queue

\* The context of the target is done: the sender is told so on its own channel.
Refused(c) ==
  /\ Direct(c)
  /\ ctxDone[target[c]]
  /\ target' = [target EXCEPT ![c] = c]
  /\ UNCHANGED <<pc, worker, queue, ctxDone, sockets, office, locks, todo, budget>>

\* What follows a send to one client.  handleATCPosition, having told a client
\* that its facility is not allowed, cancels its context.  A handler that sends
\* itself a second packet (send-fast, a beacon code) counts as two handlers that
\* reply.
AfterSend(c) ==
  /\ Goto(c, "loop")
  /\ IF pc[c] = "reject" THEN CancelCtx(c) ELSE UNCHANGED ctxDone

\* Faulty: a broadcast that has reached everyone keeps the read lock.
DeliverKeepsLock(c) ==
  /\ target[c] # NoClient
  /\ Sent(c)
  /\ IF todo[c] # {}
       THEN \E d \in todo[c] :
              /\ target' = [target EXCEPT ![c] = d]
              /\ todo' = [todo EXCEPT ![c] = @ \ {d}]
              /\ UNCHANGED <<pc, worker, ctxDone, readers>>
       ELSE /\ target' = [target EXCEPT ![c] = NoClient]
            /\ IF pc[c] \in {"send", "reject"}
                 THEN AfterSend(c) /\ UNCHANGED <<worker, readers>>
                 ELSE UNCHANGED readers /\ Finish(c)
            /\ UNCHANGED todo
  /\ UNCHANGED <<sockets, office, writer, waiting, budget>>

Deliver(c) ==
  /\ target[c] # NoClient
  /\ Sent(c)
  /\ IF todo[c] # {}
       THEN \E d \in todo[c] :
              /\ target' = [target EXCEPT ![c] = d]
              /\ todo' = [todo EXCEPT ![c] = @ \ {d}]
              /\ UNCHANGED <<pc, worker, ctxDone, readers>>
       ELSE /\ target' = [target EXCEPT ![c] = NoClient]
            /\ IF pc[c] \in {"send", "reject"}
                 THEN AfterSend(c) /\ UNCHANGED <<worker, readers>>
                 ELSE RUnlock(c) /\ Finish(c)
            /\ UNCHANGED todo
  /\ UNCHANGED <<sockets, office, writer, waiting, budget>>

-----------------------------------------------------------------------------
(* Writing under a lock: register, updatePosition, release.                *)

\* Lock is called; from here on new readers wait.
Lock(c) ==
  /\ pc[c] \in DOMAIN WriteLock
  /\ writer[WriteLock[pc[c]]] = NoClient
  /\ writer' = [writer EXCEPT ![WriteLock[pc[c]]] = c]
  /\ UNCHANGED <<pc, worker, queue, ctxDone, sockets, office, readers, waiting, sending, budget>>

\* Lock returns, the section runs, Unlock admits the waiting readers.  The
\* socket is closed when handleConn returns, after the map section of release.
WriteSection(c) ==
  /\ pc[c] \in DOMAIN WriteLock
  /\ LET l == WriteLock[pc[c]] IN
       /\ writer[l] = c
       /\ readers[l] = {}
       /\ writer' = [writer EXCEPT ![l] = NoClient]
       /\ readers' = [readers EXCEPT ![l] = waiting[l]]
       /\ waiting' = [waiting EXCEPT ![l] = {}]
  /\ registered' = CASE pc[c] = "regmap" -> registered \cup {c}
                     [] pc[c] = "relmap" -> registered \ {c}
                     [] OTHER -> registered
  /\ indexed' = CASE pc[c] = "regtree" -> indexed \cup {c}
                  [] pc[c] = "reltree" -> indexed \ {c}
                  [] OTHER -> indexed
  /\ Goto(c, [regmap |-> "regtree", regtree |-> "motd", move |-> "ranged",
              reltree |-> "relmap", relmap |-> "done"][pc[c]])
  /\ IF pc[c] = "relmap" THEN CloseConn(c) ELSE UNCHANGED connOpen
  /\ UNCHANGED <<worker, queue, ctxDone, peer, sending, budget>>

-----------------------------------------------------------------------------
(* The rest of the connection goroutine.                                   *)

\* Faulty: release is not deferred before the welcome message is sent.
MotdSkipsRelease(c) ==
  /\ pc[c] = "motd"
  /\ peer[c] # "stalled"
  /\ Goto(c, IF peer[c] = "reading" THEN "announce" ELSE "done")
  /\ UNCHANGED <<worker, queue, ctxDone, sockets, office, locks, sending, budget>>

\* sendMotd writes to the socket itself: it waits for a peer that does not
\* read, and a broken socket leads to release without cancelling the context.
Motd(c) ==
  /\ pc[c] = "motd"
  /\ peer[c] # "stalled"
  /\ Goto(c, IF peer[c] = "reading" THEN "announce" ELSE "reltree")
  /\ UNCHANGED <<worker, queue, ctxDone, sockets, office, locks, sending, budget>>

\* The scanner fails; eventLoop returns and its deferred cancelCtx runs.
ScanFails(c) ==
  /\ pc[c] = "loop"
  /\ peer[c] = "gone" \/ ~connOpen[c]
  /\ CancelCtx(c)
  /\ Goto(c, "farewell")
  /\ UNCHANGED <<worker, queue, sockets, office, locks, sending, budget>>

\* The scanner returns a packet.  Replies and errors go to the own channel.
Packet(c, kind) ==
  /\ pc[c] = "loop"
  /\ peer[c] # "gone" /\ connOpen[c]
  /\ Spend
  /\ Goto(c, IF kind = "reply" THEN "send" ELSE kind)
  /\ target' = IF kind \in {"reply", "reject"} THEN [target EXCEPT ![c] = c] ELSE target
  /\ UNCHANGED <<worker, queue, ctxDone, sockets, office, locks, todo>>

-----------------------------------------------------------------------------
(* The sender worker.  select takes either ready case.                     *)

TakePacket(c) ==
  /\ worker[c] = "idle"
  /\ queue[c] > 0
  /\ queue' = [queue EXCEPT ![c] = @ - 1]
  /\ worker' = [worker EXCEPT ![c] = "write"]
  /\ UNCHANGED <<pc, ctxDone, sockets, office, locks, sending, budget>>

\* Faulty: the worker ends without the deferred cancelCtx.
WorkerExitsSilently(c) ==
  /\ worker' = [worker EXCEPT ![c] = "exited"]
  /\ CloseConn(c)
  /\ UNCHANGED ctxDone

\* Faulty: the worker ends without the deferred conn.Close.
WorkerExitsOpen(c) ==
  /\ worker' = [worker EXCEPT ![c] = "exited"]
  /\ CancelCtx(c)
  /\ UNCHANGED connOpen

\* The deferred calls of the worker: cancelCtx, then conn.Close.
WorkerExits(c) ==
  /\ worker' = [worker EXCEPT ![c] = "exited"]
  /\ CancelCtx(c)
  /\ CloseConn(c)

WorkerCancelled(c) ==
  /\ worker[c] = "idle"
  /\ ctxDone[c]
  /\ WorkerExits(c)
  /\ UNCHANGED <<pc, queue, peer, office, locks, sending, budget>>

\* conn.Write: no deadline is ever set, so a peer that does not read blocks it.
Write(c) ==
  /\ worker[c] = "write"
  /\ IF peer[c] = "gone" \/ ~connOpen[c]
       THEN WorkerExits(c)
       ELSE /\ peer[c] = "reading"
            /\ worker' = [worker EXCEPT ![c] = "idle"]
            /\ UNCHANGED <<ctxDone, connOpen>>
  /\ UNCHANGED <<pc, queue, peer, office, locks, sending, budget>>

-----------------------------------------------------------------------------
(* The outside: peers, the HTTP service, the end of the server.            *)

Disconnect(c) ==
  /\ c \in Leaving
  /\ peer[c] # "gone"
  /\ peer' = [peer EXCEPT ![c] = "gone"]
  /\ UNCHANGED <<pc, worker, queue, ctxDone, connOpen, office, locks, sending, budget>>

Stall(c) ==
  /\ c \in Stallable
  /\ peer[c] = "reading"
  /\ peer' = [peer EXCEPT ![c] = "stalled"]
  /\ UNCHANGED <<pc, worker, queue, ctxDone, connOpen, office, locks, sending, budget>>

Resume(c) ==
  /\ peer[c] = "stalled"
  /\ peer' = [peer EXCEPT ![c] = "reading"]
  /\ UNCHANGED <<pc, worker, queue, ctxDone, connOpen, office, locks, sending, budget>>

\* handleKickUser: find needs the read lock, for a moment.
Kick(victim) ==
  /\ victim \in registered
  /\ writer["map"] = NoClient
  /\ ~ctxDone[victim]
  /\ Spend
  /\ CancelCtx(victim)
  /\ UNCHANGED <<pc, worker, queue, sockets, office, locks, sending>>

\* The context of the server is the parent of the context of every client.
Shutdown ==
  /\ \E c \in Clients : ~ctxDone[c]
  /\ Spend
  /\ ctxDone' = [c \in Clients |-> TRUE]
  /\ UNCHANGED <<pc, worker, queue, sockets, office, locks, sending>>

\* Every client has left, or waits for its peer to speak: nothing need happen.
Quiet ==
  /\ \A c \in Clients :
       \/ pc[c] = "done" /\ worker[c] \in {"none", "exited"}
       \/ pc[c] = "loop" /\ worker[c] = "idle" /\ queue[c] = 0
  /\ UNCHANGED vars

-----------------------------------------------------------------------------
\* What the connection goroutine does without waiting for the peer to speak.
ConnStep(c) ==
  \/ RLock(c)
  \/ StartBroadcast(c)
  \/ Find(c)
  \/ Kill(c)
  \/ Deliver(c)
  \/ Refused(c)
  \/ Lock(c)
  \/ WriteSection(c)
  \/ Motd(c)
  \/ ScanFails(c)

WorkerStep(c) == TakePacket(c) \/ Write(c)

Next ==
  \/ \E c \in Clients :
       \/ ConnStep(c)
       \/ WorkerStep(c)
       \/ WorkerCancelled(c)
       \/ \E kind \in Kinds : Packet(c, kind)
       \/ Disconnect(c)
       \/ Stall(c)
       \/ Resume(c)
       \/ Kick(c)
  \/ Shutdown
  \/ Quiet

\* Goroutines that can run do run.  Strong fairness, because what they wait
\* for comes and goes: a mutex and a full channel serve their queues in turn,
\* a select that finds two cases ready again and again takes each of them, and
\* a peer that starts reading again and again lets a write through.  Of the
\* peers, only the recovering ones are expected to do anything.
Fairness ==
  /\ \A c \in Clients :
       /\ SF_vars(ConnStep(c))
       /\ SF_vars(WorkerStep(c))
       /\ SF_vars(WorkerCancelled(c))
  /\ \A c \in Recovering : WF_vars(Resume(c))

Spec == Init /\ [][Next]_vars /\ Fairness

-----------------------------------------------------------------------------
(* Properties.                                                             *)

\* Type correctness; a channel never holds more than its capacity.
TypeOK ==
  /\ pc \in [Clients -> Phases]
  /\ worker \in [Clients -> {"none", "idle", "write", "exited"}]
  /\ peer \in [Clients -> {"reading", "stalled", "gone"}]
  /\ queue \in [Clients -> 0..Cap]
  /\ ctxDone \in [Clients -> BOOLEAN]
  /\ connOpen \in [Clients -> BOOLEAN]
  /\ registered \subseteq Clients
  /\ indexed \subseteq Clients
  /\ writer \in [LockNames -> Clients \cup {NoClient}]
  /\ readers \in [LockNames -> SUBSET Clients]
  /\ waiting \in [LockNames -> SUBSET Clients]
  /\ todo \in [Clients -> SUBSET Clients]
  /\ target \in [Clients -> Clients \cup {NoClient}]
  /\ budget \in 0..Budget

\* What the connection goroutine of a client can wait for: its peer, others to
\* leave a lock, room in a channel.
WaitsForPeer(c) ==
  \/ pc[c] = "loop" /\ peer[c] # "gone" /\ connOpen[c]
  \/ pc[c] = "motd" /\ peer[c] = "stalled"
WaitsForLock(c, l) ==
  \/ c \in waiting[l]
  \/ /\ pc[c] \in DOMAIN WriteLock /\ WriteLock[pc[c]] = l
     /\ IF writer[l] = c THEN readers[l] # {} ELSE writer[l] # NoClient
WaitsForChannel(c) == target[c] # NoClient /\ queue[target[c]] = Cap /\ ~ctxDone[target[c]]

\* It waits for nothing; its sender worker has something to do.
Runs(c) ==
  /\ pc[c] # "done" /\ ~WaitsForPeer(c) /\ ~WaitsForChannel(c)
  /\ \A l \in LockNames : ~WaitsForLock(c, l)
Writes(c) ==
  \/ worker[c] = "idle" /\ queue[c] > 0
  \/ worker[c] = "write" /\ (peer[c] # "stalled" \/ ~connOpen[c])

\* Its worker waits for the peer; the login has not started a worker.
PeerStalls(c) == worker[c] = "write" /\ peer[c] = "stalled" /\ connOpen[c]
LoginWindow(c) == c \in Joining /\ worker[c] = "none" /\ queue[c] = Cap

\* Goroutines do not wait for each other in a circle.  Who waits for a lock
\* waits for a writer that goes on, or for a reader that goes on or waits for a
\* channel, but never for a lock; and who waits for a channel waits for a worker
\* that goes on, for a peer that does not read, or for a login.
WaitsLead ==
  \A c \in Clients :
    /\ \A l \in LockNames : WaitsForLock(c, l) =>
         \/ writer[l] # NoClient /\ Runs(writer[l])
         \/ \E d \in readers[l] : Runs(d) \/ WaitsForChannel(d)
    /\ WaitsForChannel(c) => Writes(target[c]) \/ PeerStalls(target[c]) \/ LoginWindow(target[c])

\* Closing the context of a client eventually causes it to disconnect
\* (handler.go handleKillRequest, http_service.go handleKickUser).
KickDisconnects == \A c \in Clients : ctxDone[c] ~> pc[c] = "done"

\* A goroutine that has called Lock gets the lock and leaves it, however many
\* broadcasts hold the read lock while they wait for channels.
WritersGetThrough ==
  \A c \in Clients, l \in LockNames : writer[l] = c ~> writer[l] # c

\* A client whose peer is gone ends up in neither structure of the post office,
\* even when its goroutine is in the middle of a broadcast to others.
GoneIsReleased ==
  \A c \in Clients :
    peer[c] = "gone" /\ c \in registered ~> c \notin registered \cup indexed
=============================================================================
