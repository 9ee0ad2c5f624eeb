----------------------------- MODULE PostOffice -----------------------------
(***************************************************************************)
(* The post office (fsd/postoffice.go) as the connection goroutines drive  *)
(* it (fsd/conn.go handleConn, fsd/client.go eventLoop, the broadcasting   *)
(* handlers of fsd/handler.go).                                            *)
(*                                                                         *)
(* Every connection has one goroutine, whose program counter is pc[c].     *)
(* Two structures are shared, each under an RWMutex of its own: the        *)
(* callsign map and the R-tree of bounding boxes.  A critical section that *)
(* only touches the structure is one action; a section that calls back     *)
(* into other clients while it holds the read lock (search, all) is two    *)
(* actions, and the lock is held in between.  Sends themselves never block *)
(* here: Delivery.tla is about those that do.                              *)
(***************************************************************************)
EXTENDS Naturals, FiniteSets

CONSTANTS
  Clients,    \* connections (*Client)
  Callsigns,  \* valid client callsigns
  Positions,  \* what a position report carries: a centre and a visibility range
  Boxes,      \* bounding boxes
  BoxOf,      \* calculateBoundingBox: the box of a position
  Overlap,    \* pairs of boxes that intersect
  Origin,     \* the position newClient gives: (0,0), visibility range 0
  NoClient,   \* no entry in the callsign map
  NoBox       \* not in the R-tree

ASSUME PostOfficeAssumption ==
  /\ BoxOf \in [Positions -> Boxes]
  /\ Origin \in Positions
  /\ Overlap \subseteq Boxes \X Boxes
  /\ NoClient \notin Clients
  /\ NoBox \notin Boxes

VARIABLES
  pc,           \* where the goroutine of a connection is
  callsign,     \* loginData.callsign
  pos,          \* coords and visRange
  oldBox,       \* oldMin, oldMax of the running updatePosition
  clientMap,    \* postOffice.clientMap
  tree,         \* postOffice.tree: how often a client is stored under a box
  mapReaders,   \* goroutines that hold clientMapLock for reading
  treeReaders,  \* goroutines that hold treeLock for reading
  recipients    \* whom the running search or all calls back for

vars == <<pc, callsign, pos, oldBox, clientMap, tree, mapReaders, treeReaders, recipients>>
locks == <<mapReaders, treeReaders, recipients>>

Phases ==
  {"offline", "register", "insert", "motd", "announce", "loop", "move",
   "search", "broadcast", "farewell", "release", "unmap"}

\* The three places that call postOffice.all.
AllPhases == {"announce", "broadcast", "farewell"}

\* A goroutine in one of these has its client in the R-tree ...
Indexed == {"motd", "announce", "loop", "move", "search", "broadcast", "farewell", "release"}
\* ... and in one of these, in the callsign map.
Mapped == Indexed \cup {"insert", "unmap"}

Init ==
  /\ pc = [c \in Clients |-> "offline"]
  /\ callsign \in [Clients -> Callsigns]
  /\ pos = [c \in Clients |-> Origin]
  /\ oldBox = [c \in Clients |-> BoxOf[Origin]]
  /\ clientMap = [cs \in Callsigns |-> NoClient]
  /\ tree = [e \in Clients \X Boxes |-> 0]
  /\ mapReaders = {}
  /\ treeReaders = {}
  /\ recipients = [c \in Clients |-> {}]

Goto(c, p) == pc' = [pc EXCEPT ![c] = p]

Insert(t, c, b) == [t EXCEPT ![<<c, b>>] = @ + 1]
\* rtree.Delete removes one matching entry, and does nothing when there is none.
Delete(t, c, b) == [t EXCEPT ![<<c, b>>] = IF @ = 0 THEN 0 ELSE @ - 1]

-----------------------------------------------------------------------------
(* Logging in.  A connection is a fresh Client each time.                  *)

Connect(c, cs) ==
  /\ pc[c] = "offline"
  /\ callsign' = [callsign EXCEPT ![c] = cs]
  /\ pos' = [pos EXCEPT ![c] = Origin]
  /\ Goto(c, "register")
  /\ UNCHANGED <<oldBox, clientMap, tree, locks>>

\* Faulty: the callsign is taken without looking whether it is free.
RegisterMapUnchecked(c) ==
  /\ pc[c] = "register"
  /\ mapReaders = {}
  /\ clientMap' = [clientMap EXCEPT ![callsign[c]] = c]
  /\ Goto(c, "insert")
  /\ UNCHANGED <<callsign, pos, oldBox, tree, locks>>

\* register, under clientMapLock: ErrCallsignInUse closes the connection.
RegisterMap(c) ==
  /\ pc[c] = "register"
  /\ mapReaders = {}
  /\ IF clientMap[callsign[c]] # NoClient
       THEN Goto(c, "offline") /\ UNCHANGED clientMap
       ELSE /\ clientMap' = [clientMap EXCEPT ![callsign[c]] = c]
            /\ Goto(c, "insert")
  /\ UNCHANGED <<callsign, pos, oldBox, tree, locks>>

\* register, under treeLock.
RegisterTree(c) ==
  /\ pc[c] = "insert"
  /\ treeReaders = {}
  /\ tree' = Insert(tree, c, BoxOf[pos[c]])
  /\ Goto(c, "motd")
  /\ UNCHANGED <<callsign, pos, oldBox, clientMap, locks>>

\* Faulty: a failed write only gives the callsign back.
MotdForgetsTree(c, ok) ==
  /\ pc[c] = "motd"
  /\ Goto(c, IF ok THEN "announce" ELSE "unmap")
  /\ UNCHANGED <<callsign, pos, oldBox, clientMap, tree, locks>>

\* sendMotd writes to the socket; a failed write skips the announcement, and
\* of the two deferred calls only release has been registered.
Motd(c, ok) ==
  /\ pc[c] = "motd"
  /\ Goto(c, IF ok THEN "announce" ELSE "release")
  /\ UNCHANGED <<callsign, pos, oldBox, clientMap, tree, locks>>

-----------------------------------------------------------------------------
(* The event loop.                                                         *)

\* A packet whose handler only broadcasts: in range, or to the whole server.
HandleBroadcast(c, kind) ==
  /\ pc[c] = "loop"
  /\ Goto(c, kind)
  /\ UNCHANGED <<callsign, pos, oldBox, clientMap, tree, locks>>

\* updatePosition up to its early return: the coordinates are stored before
\* the tree is touched, and the tree is not touched when the box is the same.
MoveStart(c, p) ==
  /\ pc[c] = "loop"
  /\ pos' = [pos EXCEPT ![c] = p]
  /\ oldBox' = [oldBox EXCEPT ![c] = BoxOf[pos[c]]]
  /\ Goto(c, IF BoxOf[pos[c]] = BoxOf[p] THEN "search" ELSE "move")
  /\ UNCHANGED <<callsign, clientMap, tree, locks>>

\* Faulty: the old entry stays.
MoveTreeKeepsOld(c) ==
  /\ pc[c] = "move"
  /\ treeReaders = {}
  /\ tree' = Insert(tree, c, BoxOf[pos[c]])
  /\ Goto(c, "search")
  /\ UNCHANGED <<callsign, pos, oldBox, clientMap, locks>>

\* Faulty: the tree is changed without the write lock.
MoveTreeUnlocked(c) ==
  /\ pc[c] = "move"
  /\ tree' = Insert(Delete(tree, c, oldBox[c]), c, BoxOf[pos[c]])
  /\ Goto(c, "search")
  /\ UNCHANGED <<callsign, pos, oldBox, clientMap, locks>>

\* The rest of updatePosition: both tree operations under one write lock.
MoveTree(c) ==
  /\ pc[c] = "move"
  /\ treeReaders = {}
  /\ tree' = Insert(Delete(tree, c, oldBox[c]), c, BoxOf[pos[c]])
  /\ Goto(c, "search")
  /\ UNCHANGED <<callsign, pos, oldBox, clientMap, locks>>

\* search: every other entry whose box meets the box of the caller.
SearchBegin(c) ==
  /\ pc[c] = "search"
  /\ c \notin treeReaders
  /\ treeReaders' = treeReaders \cup {c}
  /\ recipients' = [recipients EXCEPT ![c] =
       {d \in Clients \ {c} :
          \E b \in Boxes : tree[<<d, b>>] > 0 /\ <<BoxOf[pos[c]], b>> \in Overlap}]
  /\ UNCHANGED <<pc, callsign, pos, oldBox, clientMap, tree, mapReaders>>

SearchEnd(c) ==
  /\ c \in treeReaders
  /\ treeReaders' = treeReaders \ {c}
  /\ recipients' = [recipients EXCEPT ![c] = {}]
  /\ Goto(c, "loop")
  /\ UNCHANGED <<callsign, pos, oldBox, clientMap, tree, mapReaders>>

\* all: every other client of the callsign map.
AllBegin(c) ==
  /\ pc[c] \in AllPhases
  /\ c \notin mapReaders
  /\ mapReaders' = mapReaders \cup {c}
  /\ recipients' = [recipients EXCEPT ![c] =
       {d \in Clients \ {c} : \E cs \in Callsigns : clientMap[cs] = d}]
  /\ UNCHANGED <<pc, callsign, pos, oldBox, clientMap, tree, treeReaders>>

AllEnd(c) ==
  /\ c \in mapReaders
  /\ mapReaders' = mapReaders \ {c}
  /\ recipients' = [recipients EXCEPT ![c] = {}]
  /\ Goto(c, IF pc[c] = "farewell" THEN "release" ELSE "loop")
  /\ UNCHANGED <<callsign, pos, oldBox, clientMap, tree, treeReaders>>

-----------------------------------------------------------------------------
(* Logging out: the scanner ends, and the deferred calls run in reverse.   *)

\* Faulty: the delete packet is not broadcast.
LeaveSilently(c) ==
  /\ pc[c] = "loop"
  /\ Goto(c, "release")
  /\ UNCHANGED <<callsign, pos, oldBox, clientMap, tree, locks>>

Leave(c) ==
  /\ pc[c] = "loop"
  /\ Goto(c, "farewell")
  /\ UNCHANGED <<callsign, pos, oldBox, clientMap, tree, locks>>

\* Faulty: the entry is looked up where the client was first inserted.
ReleaseTreeAtOrigin(c) ==
  /\ pc[c] = "release"
  /\ treeReaders = {}
  /\ tree' = Delete(tree, c, BoxOf[Origin])
  /\ Goto(c, "unmap")
  /\ UNCHANGED <<callsign, pos, oldBox, clientMap, locks>>

\* release, under treeLock.
ReleaseTree(c) ==
  /\ pc[c] = "release"
  /\ treeReaders = {}
  /\ tree' = Delete(tree, c, BoxOf[pos[c]])
  /\ Goto(c, "unmap")
  /\ UNCHANGED <<callsign, pos, oldBox, clientMap, locks>>

\* Faulty: the map is changed without the write lock.
ReleaseMapUnlocked(c) ==
  /\ pc[c] = "unmap"
  /\ clientMap' = [clientMap EXCEPT ![callsign[c]] = NoClient]
  /\ Goto(c, "offline")
  /\ UNCHANGED <<callsign, pos, oldBox, tree, locks>>

\* release, under clientMapLock: the entry goes whoever it points to.
ReleaseMap(c) ==
  /\ pc[c] = "unmap"
  /\ mapReaders = {}
  /\ clientMap' = [clientMap EXCEPT ![callsign[c]] = NoClient]
  /\ Goto(c, "offline")
  /\ UNCHANGED <<callsign, pos, oldBox, tree, locks>>

-----------------------------------------------------------------------------
Step(c) ==
  \/ \E cs \in Callsigns : Connect(c, cs)
  \/ RegisterMap(c)
  \/ RegisterTree(c)
  \/ \E ok \in BOOLEAN : Motd(c, ok)
  \/ \E kind \in {"search", "broadcast"} : HandleBroadcast(c, kind)
  \/ \E p \in Positions : MoveStart(c, p)
  \/ MoveTree(c)
  \/ SearchBegin(c)
  \/ SearchEnd(c)
  \/ AllBegin(c)
  \/ AllEnd(c)
  \/ Leave(c)
  \/ ReleaseTree(c)
  \/ ReleaseMap(c)

Next == \E c \in Clients : Step(c)

Spec == Init /\ [][Next]_vars

-----------------------------------------------------------------------------
(* Properties.                                                             *)

\* Type correctness; in particular no client is ever stored twice under one
\* box, so that the single rtree.Delete of release removes all there is.
TypeOK ==
  /\ pc \in [Clients -> Phases]
  /\ callsign \in [Clients -> Callsigns]
  /\ pos \in [Clients -> Positions]
  /\ oldBox \in [Clients -> Boxes]
  /\ clientMap \in [Callsigns -> Clients \cup {NoClient}]
  /\ tree \in [Clients \X Boxes -> {0, 1}]
  /\ mapReaders \subseteq Clients
  /\ treeReaders \subseteq Clients
  /\ recipients \in [Clients -> SUBSET Clients]

\* The callsign map is exactly the connections between register and release:
\* two connections never both believe they own a callsign, and release,
\* which deletes by callsign without looking, never deletes somebody else.
MapExact ==
  \A cs \in Callsigns, c \in Clients :
    clientMap[cs] = c <=> pc[c] \in Mapped /\ callsign[c] = cs

\* The box a client is stored under.  Between the two halves of
\* updatePosition it is not yet the box of its coordinates.
EntryBox(c) == IF pc[c] = "move" THEN oldBox[c] ELSE BoxOf[pos[c]]

\* The R-tree is exactly the indexed clients, each once, under the box from
\* which updatePosition or release will delete it: no entry survives its
\* client and no client is lost, whatever the moves before it left.
TreeExact ==
  \A c \in Clients, b \in Boxes :
    tree[<<c, b>>] = IF pc[c] \in Indexed /\ b = EntryBox(c) THEN 1 ELSE 0

\* For as long as a search calls back, its recipients are exactly the other
\* indexed clients whose stored box meets the box of the caller: nobody
\* leaves, arrives or moves under its feet.
SearchExact ==
  \A c \in treeReaders :
    recipients[c] = {d \in Clients \ {c} :
      pc[d] \in Indexed /\ <<BoxOf[pos[c]], EntryBox(d)>> \in Overlap}

\* For as long as a broadcast calls back, its recipients are exactly the
\* other registered connections.
BroadcastExact ==
  \A c \in mapReaders :
    recipients[c] = {d \in Clients \ {c} : pc[d] \in Mapped}

\* Read locks are held only by goroutines inside search or all.
ReadersInside ==
  /\ \A c \in treeReaders : pc[c] = "search"
  /\ \A c \in mapReaders : pc[c] \in AllPhases

\* The inductive invariant that PostOfficeProofs.tla proves.
IInv ==
  TypeOK /\ MapExact /\ TreeExact /\ SearchExact /\ BroadcastExact /\ ReadersInside

\* Where the post office shows a client: under the box that holds an entry.
Place(c) ==
  IF \E b \in Boxes : tree[<<c, b>>] > 0
    THEN CHOOSE b \in Boxes : tree[<<c, b>>] > 0
    ELSE NoBox

R == INSTANCE Registry
       WITH owner <- clientMap, place <- [c \in Clients |-> Place(c)]

\* With its locks, its early returns and its two structures that are never
\* changed together, the post office still implements the registry.
ImplementsRegistry == R!RegSpec
=============================================================================
