-------------------------- MODULE PostOfficeProofs --------------------------
(***************************************************************************)
(* What holds of the post office for any number of connections, callsigns  *)
(* and boxes.  IInv is inductive: the exactness of the map, of the tree    *)
(* and of the recipients of the running callbacks support each other, and  *)
(* the phases in which a read lock is held tie the three to the locks.     *)
(*                                                                         *)
(* Every step of Presence is one of the post office or leaves it alone, so *)
(* that IInv holds there, too; what the screens show rests on it.          *)
(***************************************************************************)
EXTENDS Presence, TLAPS

(* Steps that leave one of the two structures alone.                       *)

\* A step that changes neither the map nor who is in it, nor a callsign in use.
LEMMA MapSame ==
  ASSUME MapExact, clientMap' = clientMap,
         \A d \in Clients : /\ pc'[d] \in Mapped <=> pc[d] \in Mapped
                            /\ pc[d] \in Mapped => callsign'[d] = callsign[d]
  PROVE  MapExact'
  BY DEF MapExact

\* A step that changes neither the tree nor who is in it, nor where.
LEMMA TreeSame ==
  ASSUME TreeExact, tree' = tree,
         \A d \in Clients : /\ pc'[d] \in Indexed <=> pc[d] \in Indexed
                            /\ pc[d] \in Indexed => EntryBox(d)' = EntryBox(d)
  PROVE  TreeExact'
  BY DEF TreeExact

\* The inductive invariant holds of the server before the first connection.
LEMMA InvInit == Init => IInv
  BY PostOfficeAssumption DEF Init, IInv, TypeOK, MapExact, TreeExact, SearchExact, BroadcastExact,
     ReadersInside, EntryBox, Phases, Mapped, Indexed

\* Every step of every goroutine preserves it.
LEMMA InvNext == IInv /\ [Next]_vars => IInv'
<1> SUFFICES ASSUME IInv, [Next]_vars PROVE IInv'
  OBVIOUS
<1> USE PostOfficeAssumption DEF IInv, Phases, AllPhases, Indexed, Mapped
<1>a. tree \in [Clients \X Boxes -> Nat]
  BY DEF TypeOK
<1>b. \A d \in Clients : BoxOf[pos[d]] \in Boxes /\ oldBox[d] \in Boxes /\ EntryBox(d) \in Boxes
  BY DEF TypeOK, EntryBox
<1>1. ASSUME NEW c \in Clients, NEW cs \in Callsigns, Connect(c, cs)
       PROVE  IInv'
  <2>1. TypeOK'
    BY <1>1 DEF Connect, Goto, locks, TypeOK
  <2>2. MapExact'
    BY <1>1 DEF Connect, Goto, locks, MapExact, TypeOK
  <2>3. TreeExact'
    BY <1>1 DEF Connect, Goto, locks, TreeExact, TypeOK, EntryBox
  <2>4. SearchExact'
    BY <1>1 DEF Connect, Goto, locks, SearchExact, TypeOK, EntryBox, ReadersInside
  <2>5. BroadcastExact'
    BY <1>1 DEF Connect, Goto, locks, BroadcastExact, TypeOK, MapExact, ReadersInside
  <2>6. ReadersInside'
    BY <1>1 DEF Connect, Goto, locks, ReadersInside, TypeOK
  <2> QED BY <2>1, <2>2, <2>3, <2>4, <2>5, <2>6
<1>2. ASSUME NEW c \in Clients, RegisterMap(c)
       PROVE  IInv'
  <2>1. TypeOK'
    <3>1. CASE clientMap[callsign[c]] = NoClient
      BY <1>2, <3>1 DEF RegisterMap, Goto, locks, TypeOK
    <3>2. CASE clientMap[callsign[c]] # NoClient
      BY <1>2, <3>2 DEF RegisterMap, Goto, locks, TypeOK
    <3> QED BY <3>1, <3>2
  <2>2. MapExact'
    BY <1>2 DEF RegisterMap, Goto, locks, MapExact, TypeOK
  <2>3. TreeExact'
    <3>1. /\ tree' = tree
            /\ \A d \in Clients : /\ pc'[d] \in Indexed <=> pc[d] \in Indexed
                                  /\ pc[d] \in Indexed => EntryBox(d)' = EntryBox(d)
      BY <1>2 DEF RegisterMap, Goto, locks, TypeOK, EntryBox, ReadersInside
    <3> QED BY <3>1, TreeSame
  <2>4. SearchExact'
    BY <1>2 DEF RegisterMap, Goto, locks, SearchExact, TypeOK, EntryBox, ReadersInside
  <2>5. BroadcastExact'
    BY <1>2 DEF RegisterMap, Goto, locks, BroadcastExact, TypeOK, MapExact, ReadersInside
  <2>6. ReadersInside'
    BY <1>2 DEF RegisterMap, Goto, locks, ReadersInside, TypeOK
  <2> QED BY <2>1, <2>2, <2>3, <2>4, <2>5, <2>6
<1>3. ASSUME NEW c \in Clients, RegisterTree(c)
       PROVE  IInv'
  <2>a. tree' \in [Clients \X Boxes -> Nat]
    BY <1>3, <1>a, <1>b DEF RegisterTree, Insert
  <2>b. \A d \in Clients, e \in Boxes : tree'[<<d, e>>] =
         tree[<<d, e>>] + (IF d = c /\ e = BoxOf[pos[c]] THEN 1 ELSE 0)
    <3>1. tree' = Insert(tree, c, BoxOf[pos[c]])
      BY <1>3 DEF RegisterTree
    <3> QED BY <3>1, <1>a, <1>b DEF Insert
  <2>1. TreeExact'
    <3> SUFFICES ASSUME NEW d \in Clients, NEW e \in Boxes
                 PROVE  tree'[<<d, e>>] = IF pc'[d] \in Indexed /\ e = EntryBox(d)' THEN 1 ELSE 0
      BY DEF TreeExact
    <3>1. tree[<<d, e>>] = IF pc[d] \in Indexed /\ e = EntryBox(d) THEN 1 ELSE 0
      BY DEF TreeExact
    <3>2. CASE d = c
      BY <1>3, <1>b, <2>b, <3>1, <3>2 DEF RegisterTree, Goto, TypeOK, EntryBox
    <3>3. CASE d # c
      BY <1>3, <1>b, <2>b, <3>1, <3>3 DEF RegisterTree, Goto, TypeOK, EntryBox
    <3> QED BY <3>2, <3>3
  <2>2. TypeOK'
    <3>1. \A d \in Clients, e \in Boxes : tree'[<<d, e>>] \in {0, 1}
      BY <2>1 DEF TreeExact
    <3>2. tree' \in [Clients \X Boxes -> {0, 1}]
      BY <2>a, <3>1
    <3> QED BY <1>3, <3>2 DEF RegisterTree, Goto, locks, TypeOK
  <2>3. MapExact'
    BY <1>3 DEF RegisterTree, Goto, locks, MapExact, TypeOK
  <2>4. SearchExact'
    BY <1>3 DEF RegisterTree, Goto, locks, SearchExact, TypeOK, EntryBox, ReadersInside
  <2>5. BroadcastExact'
    BY <1>3 DEF RegisterTree, Goto, locks, BroadcastExact, TypeOK, MapExact, ReadersInside
  <2>6. ReadersInside'
    BY <1>3 DEF RegisterTree, Goto, locks, ReadersInside, TypeOK
  <2> QED BY <2>1, <2>2, <2>3, <2>4, <2>5, <2>6
<1>4. ASSUME NEW c \in Clients, NEW ok \in BOOLEAN, Motd(c, ok)
       PROVE  IInv'
  <2>1. TypeOK'
    BY <1>4 DEF Motd, Goto, locks, TypeOK
  <2>2. MapExact'
    BY <1>4 DEF Motd, Goto, locks, MapExact, TypeOK
  <2>3. TreeExact'
    BY <1>4 DEF Motd, Goto, locks, TreeExact, TypeOK, EntryBox
  <2>4. SearchExact'
    BY <1>4 DEF Motd, Goto, locks, SearchExact, TypeOK, EntryBox, ReadersInside
  <2>5. BroadcastExact'
    BY <1>4 DEF Motd, Goto, locks, BroadcastExact, TypeOK, MapExact, ReadersInside
  <2>6. ReadersInside'
    BY <1>4 DEF Motd, Goto, locks, ReadersInside, TypeOK
  <2> QED BY <2>1, <2>2, <2>3, <2>4, <2>5, <2>6
<1>5. ASSUME NEW c \in Clients, NEW kind \in {"search", "broadcast"}, HandleBroadcast(c, kind)
       PROVE  IInv'
  <2>1. TypeOK'
    BY <1>5 DEF HandleBroadcast, Goto, locks, TypeOK
  <2>2. MapExact'
    BY <1>5 DEF HandleBroadcast, Goto, locks, MapExact, TypeOK
  <2>3. TreeExact'
    BY <1>5 DEF HandleBroadcast, Goto, locks, TreeExact, TypeOK, EntryBox
  <2>4. SearchExact'
    BY <1>5 DEF HandleBroadcast, Goto, locks, SearchExact, TypeOK, EntryBox, ReadersInside
  <2>5. BroadcastExact'
    BY <1>5 DEF HandleBroadcast, Goto, locks, BroadcastExact, TypeOK, MapExact, ReadersInside
  <2>6. ReadersInside'
    BY <1>5 DEF HandleBroadcast, Goto, locks, ReadersInside, TypeOK
  <2> QED BY <2>1, <2>2, <2>3, <2>4, <2>5, <2>6
<1>6. ASSUME NEW c \in Clients, NEW p \in Positions, MoveStart(c, p)
       PROVE  IInv'
  <2>1. TypeOK'
    BY <1>6 DEF MoveStart, Goto, locks, TypeOK
  <2>2. MapExact'
    BY <1>6 DEF MoveStart, Goto, locks, MapExact, TypeOK
  <2>3. TreeExact'
    <3>1. /\ tree' = tree
            /\ \A d \in Clients : /\ pc'[d] \in Indexed <=> pc[d] \in Indexed
                                  /\ pc[d] \in Indexed => EntryBox(d)' = EntryBox(d)
      BY <1>6 DEF MoveStart, Goto, locks, TypeOK, EntryBox, ReadersInside
    <3> QED BY <3>1, TreeSame
  <2>4. SearchExact'
    BY <1>6 DEF MoveStart, Goto, locks, SearchExact, TypeOK, EntryBox, ReadersInside
  <2>5. BroadcastExact'
    BY <1>6 DEF MoveStart, Goto, locks, BroadcastExact, TypeOK, MapExact, ReadersInside
  <2>6. ReadersInside'
    BY <1>6 DEF MoveStart, Goto, locks, ReadersInside, TypeOK
  <2> QED BY <2>1, <2>2, <2>3, <2>4, <2>5, <2>6
<1>7. ASSUME NEW c \in Clients, MoveTree(c)
       PROVE  IInv'
  <2> DEFINE t == Delete(tree, c, oldBox[c])
  <2>c. t \in [Clients \X Boxes -> Nat]
    BY <1>a, <1>b DEF Delete
  <2>d. tree' = Insert(t, c, BoxOf[pos[c]])
    BY <1>7 DEF MoveTree
  <2>e. \A d \in Clients, e \in Boxes : t[<<d, e>>] =
          IF d = c /\ e = oldBox[c] /\ tree[<<d, e>>] # 0 THEN tree[<<d, e>>] - 1 ELSE tree[<<d, e>>]
    BY <1>a, <1>b DEF Delete
  <2> HIDE DEF t
  <2>a. tree' \in [Clients \X Boxes -> Nat]
    BY <2>c, <2>d, <1>b DEF Insert
  <2>f. \A d \in Clients, e \in Boxes : tree'[<<d, e>>] =
          t[<<d, e>>] + (IF d = c /\ e = BoxOf[pos[c]] THEN 1 ELSE 0)
    BY <2>c, <2>d, <1>b DEF Insert
  <2>1. TreeExact'
    <3> SUFFICES ASSUME NEW d \in Clients, NEW e \in Boxes
                 PROVE  tree'[<<d, e>>] = IF pc'[d] \in Indexed /\ e = EntryBox(d)' THEN 1 ELSE 0
      BY DEF TreeExact
    <3>1. tree[<<d, e>>] = IF pc[d] \in Indexed /\ e = EntryBox(d) THEN 1 ELSE 0
      BY DEF TreeExact
    <3>2. CASE d = c
      BY <1>7, <1>b, <2>e, <2>f, <3>1, <3>2 DEF MoveTree, Goto, TypeOK, EntryBox
    <3>3. CASE d # c
      BY <1>7, <1>b, <2>e, <2>f, <3>1, <3>3 DEF MoveTree, Goto, TypeOK, EntryBox
    <3> QED BY <3>2, <3>3
  <2>2. TypeOK'
    <3>1. \A d \in Clients, e \in Boxes : tree'[<<d, e>>] \in {0, 1}
      BY <2>1 DEF TreeExact
    <3>2. tree' \in [Clients \X Boxes -> {0, 1}]
      BY <2>a, <3>1
    <3> QED BY <1>7, <3>2 DEF MoveTree, Goto, locks, TypeOK
  <2>3. MapExact'
    BY <1>7 DEF MoveTree, Goto, locks, MapExact, TypeOK
  <2>4. SearchExact'
    BY <1>7 DEF MoveTree, Goto, locks, SearchExact, TypeOK, EntryBox, ReadersInside
  <2>5. BroadcastExact'
    BY <1>7 DEF MoveTree, Goto, locks, BroadcastExact, TypeOK, MapExact, ReadersInside
  <2>6. ReadersInside'
    BY <1>7 DEF MoveTree, Goto, locks, ReadersInside, TypeOK
  <2> QED BY <2>1, <2>2, <2>3, <2>4, <2>5, <2>6
<1>8. ASSUME NEW c \in Clients, SearchBegin(c)
       PROVE  IInv'
  <2>1. TypeOK'
    BY <1>8 DEF SearchBegin, Goto, locks, TypeOK
  <2>2. MapExact'
    BY <1>8 DEF SearchBegin, Goto, locks, MapExact, TypeOK
  <2>3. TreeExact'
    BY <1>8 DEF SearchBegin, Goto, locks, TreeExact, TypeOK, EntryBox
  <2>4. SearchExact'
    <3>1. \A d \in Clients : EntryBox(d) \in Boxes /\ EntryBox(d)' = EntryBox(d)
      BY <1>8 DEF SearchBegin, locks, TypeOK, EntryBox
    <3>2. \A d \in Clients : (\E b \in Boxes : tree[<<d, b>>] > 0 /\ <<BoxOf[pos[c]], b>> \in Overlap)
              <=> pc[d] \in Indexed /\ <<BoxOf[pos[c]], EntryBox(d)>> \in Overlap
      <4> SUFFICES ASSUME NEW d \in Clients
                   PROVE  (\E b \in Boxes : tree[<<d, b>>] > 0 /\ <<BoxOf[pos[c]], b>> \in Overlap)
                          <=> pc[d] \in Indexed /\ <<BoxOf[pos[c]], EntryBox(d)>> \in Overlap
        OBVIOUS
      <4>1. \A b \in Boxes : tree[<<d, b>>] > 0 <=> pc[d] \in Indexed /\ b = EntryBox(d)
        BY DEF TreeExact
      <4> QED BY <4>1, <1>b
    <3>3. recipients'[c] = {d \in Clients \ {c} :
              pc[d] \in Indexed /\ <<BoxOf[pos[c]], EntryBox(d)>> \in Overlap}
      BY <1>8, <3>2 DEF SearchBegin, TypeOK
    <3> SUFFICES ASSUME NEW r \in treeReaders'
                 PROVE  recipients'[r] = {d \in Clients \ {r} :
                   pc'[d] \in Indexed /\ <<BoxOf[pos'[r]], EntryBox(d)'>> \in Overlap}
      BY DEF SearchExact
    <3>4. CASE r = c
      BY <1>8, <3>1, <3>3, <3>4 DEF SearchBegin
    <3>5. CASE r # c
      BY <1>8, <3>1, <3>5 DEF SearchBegin, SearchExact, TypeOK
    <3> QED BY <3>4, <3>5
  <2>5. BroadcastExact'
    <3>1. c \notin mapReaders
      BY <1>8 DEF SearchBegin, ReadersInside
    <3> QED BY <1>8, <3>1 DEF SearchBegin, locks, BroadcastExact, TypeOK
  <2>6. ReadersInside'
    BY <1>8 DEF SearchBegin, Goto, locks, ReadersInside, TypeOK
  <2> QED BY <2>1, <2>2, <2>3, <2>4, <2>5, <2>6
<1>9. ASSUME NEW c \in Clients, SearchEnd(c)
       PROVE  IInv'
  <2>1. TypeOK'
    BY <1>9 DEF SearchEnd, Goto, locks, TypeOK
  <2>2. MapExact'
    <3>1. /\ clientMap' = clientMap
            /\ \A d \in Clients : /\ pc'[d] \in Mapped <=> pc[d] \in Mapped
                                  /\ pc[d] \in Mapped => callsign'[d] = callsign[d]
      BY <1>9 DEF SearchEnd, Goto, locks, TypeOK, ReadersInside
    <3> QED BY <3>1, MapSame
  <2>3. TreeExact'
    <3>1. /\ tree' = tree
            /\ \A d \in Clients : /\ pc'[d] \in Indexed <=> pc[d] \in Indexed
                                  /\ pc[d] \in Indexed => EntryBox(d)' = EntryBox(d)
      BY <1>9 DEF SearchEnd, Goto, locks, TypeOK, EntryBox, ReadersInside
    <3> QED BY <3>1, TreeSame
  <2>4. SearchExact'
    BY <1>9 DEF SearchEnd, Goto, locks, SearchExact, TypeOK, EntryBox, ReadersInside
  <2>5. BroadcastExact'
    BY <1>9 DEF SearchEnd, Goto, locks, BroadcastExact, TypeOK, MapExact, ReadersInside
  <2>6. ReadersInside'
    BY <1>9 DEF SearchEnd, Goto, locks, ReadersInside, TypeOK
  <2> QED BY <2>1, <2>2, <2>3, <2>4, <2>5, <2>6
<1>10. ASSUME NEW c \in Clients, AllBegin(c)
       PROVE  IInv'
  <2>1. TypeOK'
    BY <1>10 DEF AllBegin, Goto, locks, TypeOK
  <2>2. MapExact'
    BY <1>10 DEF AllBegin, Goto, locks, MapExact, TypeOK
  <2>3. TreeExact'
    BY <1>10 DEF AllBegin, Goto, locks, TreeExact, TypeOK, EntryBox
  <2>4. SearchExact'
    BY <1>10 DEF AllBegin, Goto, locks, SearchExact, TypeOK, EntryBox, ReadersInside
  <2>5. BroadcastExact'
    BY <1>10 DEF AllBegin, Goto, locks, BroadcastExact, TypeOK, MapExact, ReadersInside
  <2>6. ReadersInside'
    BY <1>10 DEF AllBegin, Goto, locks, ReadersInside, TypeOK
  <2> QED BY <2>1, <2>2, <2>3, <2>4, <2>5, <2>6
<1>11. ASSUME NEW c \in Clients, AllEnd(c)
       PROVE  IInv'
  <2>1. TypeOK'
    BY <1>11 DEF AllEnd, Goto, locks, TypeOK
  <2>2. MapExact'
    <3>1. /\ clientMap' = clientMap
            /\ \A d \in Clients : /\ pc'[d] \in Mapped <=> pc[d] \in Mapped
                                  /\ pc[d] \in Mapped => callsign'[d] = callsign[d]
      BY <1>11 DEF AllEnd, Goto, locks, TypeOK, ReadersInside
    <3> QED BY <3>1, MapSame
  <2>3. TreeExact'
    <3>1. /\ tree' = tree
            /\ \A d \in Clients : /\ pc'[d] \in Indexed <=> pc[d] \in Indexed
                                  /\ pc[d] \in Indexed => EntryBox(d)' = EntryBox(d)
      BY <1>11 DEF AllEnd, Goto, locks, TypeOK, EntryBox, ReadersInside
    <3> QED BY <3>1, TreeSame
  <2>4. SearchExact'
    BY <1>11 DEF AllEnd, Goto, locks, SearchExact, TypeOK, EntryBox, ReadersInside
  <2>5. BroadcastExact'
    BY <1>11 DEF AllEnd, Goto, locks, BroadcastExact, TypeOK, MapExact, ReadersInside
  <2>6. ReadersInside'
    BY <1>11 DEF AllEnd, Goto, locks, ReadersInside, TypeOK
  <2> QED BY <2>1, <2>2, <2>3, <2>4, <2>5, <2>6
<1>12. ASSUME NEW c \in Clients, Leave(c)
       PROVE  IInv'
  <2>1. TypeOK'
    BY <1>12 DEF Leave, Goto, locks, TypeOK
  <2>2. MapExact'
    BY <1>12 DEF Leave, Goto, locks, MapExact, TypeOK
  <2>3. TreeExact'
    BY <1>12 DEF Leave, Goto, locks, TreeExact, TypeOK, EntryBox
  <2>4. SearchExact'
    BY <1>12 DEF Leave, Goto, locks, SearchExact, TypeOK, EntryBox, ReadersInside
  <2>5. BroadcastExact'
    BY <1>12 DEF Leave, Goto, locks, BroadcastExact, TypeOK, MapExact, ReadersInside
  <2>6. ReadersInside'
    BY <1>12 DEF Leave, Goto, locks, ReadersInside, TypeOK
  <2> QED BY <2>1, <2>2, <2>3, <2>4, <2>5, <2>6
<1>13. ASSUME NEW c \in Clients, ReleaseTree(c)
       PROVE  IInv'
  <2>a. tree' \in [Clients \X Boxes -> Nat]
    BY <1>13, <1>a, <1>b DEF ReleaseTree, Delete
  <2>b. \A d \in Clients, e \in Boxes : tree'[<<d, e>>] =
         IF d = c /\ e = BoxOf[pos[c]] /\ tree[<<d, e>>] # 0
           THEN tree[<<d, e>>] - 1 ELSE tree[<<d, e>>]
    <3>1. tree' = Delete(tree, c, BoxOf[pos[c]])
      BY <1>13 DEF ReleaseTree
    <3> QED BY <3>1, <1>a, <1>b DEF Delete
  <2>1. TreeExact'
    <3> SUFFICES ASSUME NEW d \in Clients, NEW e \in Boxes
                 PROVE  tree'[<<d, e>>] = IF pc'[d] \in Indexed /\ e = EntryBox(d)' THEN 1 ELSE 0
      BY DEF TreeExact
    <3>1. tree[<<d, e>>] = IF pc[d] \in Indexed /\ e = EntryBox(d) THEN 1 ELSE 0
      BY DEF TreeExact
    <3>2. CASE d = c
      BY <1>13, <1>b, <2>b, <3>1, <3>2 DEF ReleaseTree, Goto, TypeOK, EntryBox
    <3>3. CASE d # c
      BY <1>13, <1>b, <2>b, <3>1, <3>3 DEF ReleaseTree, Goto, TypeOK, EntryBox
    <3> QED BY <3>2, <3>3
  <2>2. TypeOK'
    <3>1. \A d \in Clients, e \in Boxes : tree'[<<d, e>>] \in {0, 1}
      BY <2>1 DEF TreeExact
    <3>2. tree' \in [Clients \X Boxes -> {0, 1}]
      BY <2>a, <3>1
    <3> QED BY <1>13, <3>2 DEF ReleaseTree, Goto, locks, TypeOK
  <2>3. MapExact'
    BY <1>13 DEF ReleaseTree, Goto, locks, MapExact, TypeOK
  <2>4. SearchExact'
    BY <1>13 DEF ReleaseTree, Goto, locks, SearchExact, TypeOK, EntryBox, ReadersInside
  <2>5. BroadcastExact'
    BY <1>13 DEF ReleaseTree, Goto, locks, BroadcastExact, TypeOK, MapExact, ReadersInside
  <2>6. ReadersInside'
    BY <1>13 DEF ReleaseTree, Goto, locks, ReadersInside, TypeOK
  <2> QED BY <2>1, <2>2, <2>3, <2>4, <2>5, <2>6
<1>14. ASSUME NEW c \in Clients, ReleaseMap(c)
       PROVE  IInv'
  <2>1. TypeOK'
    BY <1>14 DEF ReleaseMap, Goto, locks, TypeOK
  <2>2. MapExact'
    BY <1>14 DEF ReleaseMap, Goto, locks, MapExact, TypeOK
  <2>3. TreeExact'
    BY <1>14 DEF ReleaseMap, Goto, locks, TreeExact, TypeOK, EntryBox
  <2>4. SearchExact'
    BY <1>14 DEF ReleaseMap, Goto, locks, SearchExact, TypeOK, EntryBox, ReadersInside
  <2>5. BroadcastExact'
    BY <1>14 DEF ReleaseMap, Goto, locks, BroadcastExact, TypeOK, MapExact, ReadersInside
  <2>6. ReadersInside'
    BY <1>14 DEF ReleaseMap, Goto, locks, ReadersInside, TypeOK
  <2> QED BY <2>1, <2>2, <2>3, <2>4, <2>5, <2>6
<1>15. CASE UNCHANGED vars
  BY <1>15 DEF vars, locks, TypeOK, MapExact, TreeExact, SearchExact, BroadcastExact, ReadersInside, EntryBox
<1> QED BY <1>1, <1>2, <1>3, <1>4, <1>5, <1>6, <1>7, <1>8, <1>9, <1>10, <1>11, <1>12, <1>13, <1>14, <1>15 DEF Next, Step

-----------------------------------------------------------------------------
(* The invariants, for every value of the constants.                       *)

\* The inductive invariant holds in every reachable state of the post office.
THEOREM Invariant == Spec => []IInv
<1>1. Init => IInv
  BY InvInit
<1>2. IInv /\ [Next]_vars => IInv'
  BY InvNext
<1> QED BY <1>1, <1>2, PTL DEF Spec

\* Type correctness: a client is never stored twice under one box (postoffice.go).
THEOREM TypeCorrect == Spec => []TypeOK
<1>1. IInv => TypeOK
  BY DEF IInv
<1> QED BY <1>1, Invariant, PTL

\* A callsign belongs to exactly the connection between its register and its
\* release (postoffice.go register, release).
THEOREM MapIsExact == Spec => []MapExact
<1>1. IInv => MapExact
  BY DEF IInv
<1> QED BY <1>1, Invariant, PTL

\* The R-tree holds every indexed client once, under the box from which
\* updatePosition or release will delete it.
THEOREM TreeIsExact == Spec => []TreeExact
<1>1. IInv => TreeExact
  BY DEF IInv
<1> QED BY <1>1, Invariant, PTL

\* The callbacks of a search run for exactly the clients in range.
THEOREM SearchIsExact == Spec => []SearchExact
<1>1. IInv => SearchExact
  BY DEF IInv
<1> QED BY <1>1, Invariant, PTL

\* The callbacks of all run for exactly the other registered connections.
THEOREM BroadcastIsExact == Spec => []BroadcastExact
<1>1. IInv => BroadcastExact
  BY DEF IInv
<1> QED BY <1>1, Invariant, PTL

-----------------------------------------------------------------------------
(* The post office implements the registry.                                *)

\* The box that Place finds: the entry of an indexed client, and none else.
LEMMA PlaceIs ==
  ASSUME PostOfficeAssumption, TypeOK, TreeExact
  PROVE  \A c \in Clients : Place(c) = IF pc[c] \in Indexed THEN EntryBox(c) ELSE NoBox
<1> SUFFICES ASSUME NEW c \in Clients
             PROVE  Place(c) = IF pc[c] \in Indexed THEN EntryBox(c) ELSE NoBox
  OBVIOUS
<1>1. EntryBox(c) \in Boxes
  BY DEF PostOfficeAssumption, TypeOK, EntryBox
<1>2. \A b \in Boxes : tree[<<c, b>>] > 0 <=> pc[c] \in Indexed /\ b = EntryBox(c)
  BY DEF TreeExact
<1> QED BY <1>1, <1>2 DEF Place

\* Before the first connection nobody owns a callsign or a place.
LEMMA RefinesInit == Init => R!RegInit
<1> SUFFICES ASSUME Init PROVE R!RegInit
  OBVIOUS
<1>1. \A c \in Clients : Place(c) = NoBox
  BY InvInit, PlaceIs, PostOfficeAssumption DEF IInv, Init, Indexed
<1> QED BY <1>1 DEF Init, R!RegInit

\* The same of the next state.
LEMMA PlaceIsNext ==
  ASSUME PostOfficeAssumption, TypeOK', TreeExact'
  PROVE  \A c \in Clients : Place(c)' = IF pc'[c] \in Indexed THEN EntryBox(c)' ELSE NoBox
<1> SUFFICES ASSUME NEW c \in Clients
             PROVE  Place(c)' = IF pc'[c] \in Indexed THEN EntryBox(c)' ELSE NoBox
  OBVIOUS
<1>1. EntryBox(c)' \in Boxes
  BY DEF PostOfficeAssumption, TypeOK, EntryBox
<1>2. \A b \in Boxes : tree'[<<c, b>>] > 0 <=> pc'[c] \in Indexed /\ b = EntryBox(c)'
  BY DEF TreeExact
<1> QED BY <1>1, <1>2 DEF Place

\* Every step of the post office is a step of the registry or leaves it alone.
LEMMA RefinesNext == IInv /\ IInv' /\ [Next]_vars => [R!RegNext]_(R!regVars)
<1> SUFFICES ASSUME IInv, IInv', [Next]_vars PROVE [R!RegNext]_(R!regVars)
  OBVIOUS
<1> DEFINE place == [d \in Clients |-> Place(d)]
<1>a. \A d \in Clients : /\ Place(d) = IF pc[d] \in Indexed THEN EntryBox(d) ELSE NoBox
                         /\ Place(d)' = IF pc'[d] \in Indexed THEN EntryBox(d)' ELSE NoBox
  BY PlaceIs, PlaceIsNext, PostOfficeAssumption DEF IInv
<1>b. \A d \in Clients : EntryBox(d) \in Boxes /\ EntryBox(d)' \in Boxes
  BY PostOfficeAssumption DEF IInv, TypeOK, EntryBox
<1>c. ASSUME clientMap' = clientMap,
             \A d \in Clients : /\ pc'[d] \in Indexed <=> pc[d] \in Indexed
                                /\ pc[d] \in Indexed => EntryBox(d)' = EntryBox(d)
      PROVE  UNCHANGED R!regVars
  <2>1. place' = place
    BY <1>a, <1>c
  <2> QED BY <1>c, <2>1 DEF R!regVars
<1>1. ASSUME NEW c \in Clients, NEW ok \in BOOLEAN, Motd(c, ok)
       PROVE  UNCHANGED R!regVars
  BY <1>1, <1>c DEF Motd, Goto, locks, IInv, TypeOK, Indexed, EntryBox
<1>2. ASSUME NEW c \in Clients, NEW kind \in {"search", "broadcast"}, HandleBroadcast(c, kind)
       PROVE  UNCHANGED R!regVars
  BY <1>2, <1>c DEF HandleBroadcast, Goto, locks, IInv, TypeOK, Indexed, EntryBox
<1>3. ASSUME NEW c \in Clients, NEW cs \in Callsigns, Connect(c, cs)
       PROVE  UNCHANGED R!regVars
  BY <1>3, <1>c DEF Connect, Goto, locks, IInv, TypeOK, Indexed, EntryBox
<1>4. ASSUME NEW c \in Clients, NEW p \in Positions, MoveStart(c, p)
       PROVE  UNCHANGED R!regVars
  BY <1>4, <1>c DEF MoveStart, Goto, locks, IInv, TypeOK, Indexed, EntryBox
<1>5. ASSUME NEW c \in Clients, SearchBegin(c)
       PROVE  UNCHANGED R!regVars
  BY <1>5, <1>c DEF SearchBegin, Goto, locks, IInv, TypeOK, Indexed, EntryBox
<1>6. ASSUME NEW c \in Clients, SearchEnd(c)
       PROVE  UNCHANGED R!regVars
  BY <1>6, <1>c DEF SearchEnd, Goto, locks, IInv, TypeOK, ReadersInside, AllPhases, Indexed, EntryBox
<1>7. ASSUME NEW c \in Clients, AllBegin(c)
       PROVE  UNCHANGED R!regVars
  BY <1>7, <1>c DEF AllBegin, Goto, locks, IInv, TypeOK, Indexed, EntryBox
<1>8. ASSUME NEW c \in Clients, AllEnd(c)
       PROVE  UNCHANGED R!regVars
  BY <1>8, <1>c DEF AllEnd, Goto, locks, IInv, TypeOK, ReadersInside, AllPhases, Indexed, EntryBox
<1>9. ASSUME NEW c \in Clients, Leave(c)
       PROVE  UNCHANGED R!regVars
  BY <1>9, <1>c DEF Leave, Goto, locks, IInv, TypeOK, Indexed, EntryBox
<1>10. ASSUME NEW c \in Clients, RegisterMap(c)
       PROVE  [R!RegNext]_(R!regVars)
  <2>1. CASE clientMap[callsign[c]] # NoClient
    BY <1>10, <2>1, <1>c DEF RegisterMap, Goto, locks, IInv, TypeOK, Indexed, EntryBox
  <2>2. CASE clientMap[callsign[c]] = NoClient
    <3>1. place' = place
      BY <1>10, <1>a DEF RegisterMap, Goto, locks, IInv, TypeOK, Indexed, EntryBox
    <3>2. ~R!Owns(c)
      BY <1>10 DEF RegisterMap, IInv, MapExact, Mapped, Indexed, R!Owns
    <3>3. R!Claim(c, callsign[c])
      BY <1>10, <2>2, <3>1, <3>2 DEF RegisterMap, R!Claim
    <3> QED BY <3>3 DEF R!RegNext, IInv, TypeOK
  <2> QED BY <2>1, <2>2
<1>11. ASSUME NEW c \in Clients, RegisterTree(c)
       PROVE  R!RegNext
  <2>1. R!Owns(c)
    BY <1>11 DEF RegisterTree, IInv, TypeOK, MapExact, Mapped, R!Owns
  <2>2. place' = [place EXCEPT ![c] = EntryBox(c)']
    BY <1>11, <1>a DEF RegisterTree, Goto, IInv, TypeOK, Indexed, EntryBox
  <2>3. R!Put(c, EntryBox(c)')
    BY <1>11, <2>1, <2>2 DEF RegisterTree, R!Put
  <2> QED BY <1>b, <2>3 DEF R!RegNext
<1>12. ASSUME NEW c \in Clients, MoveTree(c)
       PROVE  R!RegNext
  <2>1. R!Owns(c)
    BY <1>12 DEF MoveTree, IInv, TypeOK, MapExact, Mapped, Indexed, R!Owns
  <2>2. place' = [place EXCEPT ![c] = EntryBox(c)']
    BY <1>12, <1>a DEF MoveTree, Goto, IInv, TypeOK, Indexed, EntryBox
  <2>3. R!Put(c, EntryBox(c)')
    BY <1>12, <2>1, <2>2 DEF MoveTree, R!Put
  <2> QED BY <1>b, <2>3 DEF R!RegNext
<1>13. ASSUME NEW c \in Clients, ReleaseTree(c)
       PROVE  R!RegNext
  <2>1. R!Owns(c)
    BY <1>13 DEF ReleaseTree, IInv, TypeOK, MapExact, Mapped, Indexed, R!Owns
  <2>2. place[c] # NoBox
    BY <1>13, <1>a, <1>b, PostOfficeAssumption DEF ReleaseTree, Indexed
  <2>3. place' = [place EXCEPT ![c] = NoBox]
    BY <1>13, <1>a DEF ReleaseTree, Goto, IInv, TypeOK, Indexed, EntryBox
  <2>4. R!TakeOff(c)
    BY <1>13, <2>1, <2>2, <2>3 DEF ReleaseTree, R!TakeOff
  <2> QED BY <2>4 DEF R!RegNext
<1>14. ASSUME NEW c \in Clients, ReleaseMap(c)
       PROVE  R!RegNext
  <2>1. clientMap[callsign[c]] = c
    BY <1>14 DEF ReleaseMap, IInv, TypeOK, MapExact, Mapped
  <2>2. place[c] = NoBox
    BY <1>14, <1>a DEF ReleaseMap, Indexed
  <2>3. place' = place
    BY <1>14, <1>a DEF ReleaseMap, Goto, IInv, TypeOK, Indexed, EntryBox
  <2>4. R!Yield(c, callsign[c])
    BY <1>14, <2>1, <2>2, <2>3 DEF ReleaseMap, R!Yield
  <2> QED BY <2>4 DEF R!RegNext, IInv, TypeOK
<1>15. CASE UNCHANGED vars
  BY <1>15, <1>c DEF vars, locks, EntryBox
<1> HIDE DEF place
<1> QED BY <1>1, <1>2, <1>3, <1>4, <1>5, <1>6, <1>7, <1>8, <1>9, <1>10, <1>11, <1>12, <1>13, <1>14, <1>15 DEF Next, Step

\* The post office, with its two locks and its two structures that change one
\* after the other, implements the abstract registry.
THEOREM Implementation == Spec => ImplementsRegistry
<1>1. Init => R!RegInit
  BY RefinesInit
<1>2. IInv /\ IInv' /\ [Next]_vars => [R!RegNext]_(R!regVars)
  BY RefinesNext
<1> QED BY <1>1, <1>2, Invariant, PTL DEF Spec, ImplementsRegistry, R!RegSpec

-----------------------------------------------------------------------------
(* Presence: no ghosts and no foreign delete packets.                      *)

\* Only a running callback has reached anyone, and only its recipients.
SentInside ==
  \A c \in Clients :
    /\ sent[c] \subseteq recipients[c]
    /\ c \notin mapReaders \cup treeReaders => sent[c] = {}

\* handleDelete is a broadcast.
DeletingInside == \A c \in deleting : pc[c] = "broadcast"

\* A screen is empty when its connection registers, and never shows itself.
ScreensFit ==
  /\ \A r \in Clients : pc[r] = "register" => \A cs \in Callsigns : shown[r][cs] = NoClient
  /\ \A r \in Clients, cs \in Callsigns : shown[r][cs] # r

PInv == IInv /\ PTypeOK /\ SentInside /\ DeletingInside /\ ScreensFit /\ NoGhosts

\* A connection others may show.
Announced == {"announce", "loop", "move", "search", "broadcast", "farewell"}

\* A recipient is another client, and registered.
LEMMA RecipientsListen ==
  ASSUME IInv, NEW c \in mapReaders \cup treeReaders
  PROVE  \A r \in recipients[c] : r \in Clients \ {c} /\ pc[r] \in Mapped
<1>1. CASE c \in mapReaders
  BY <1>1 DEF IInv, BroadcastExact
<1>2. CASE c \in treeReaders
  BY <1>2 DEF IInv, SearchExact, Mapped
<1> QED BY <1>1, <1>2

\* A step of Presence is a step of the post office, or leaves it alone.
LEMMA IsPostOfficeStep == [PNext]_pvars => [Next]_vars
<1> SUFFICES ASSUME [PNext]_pvars PROVE [Next]_vars
  OBVIOUS
<1>1. ASSUME NEW c \in Clients, NEW cs \in Callsigns, PConnect(c, cs) PROVE Next
  BY <1>1 DEF PConnect, Next, Step
<1>2. ASSUME NEW c \in Clients, PBroadcast(c) PROVE Next
  BY <1>2 DEF PBroadcast, Next, Step
<1>3. ASSUME NEW c \in Clients, PLeave(c) PROVE Next
  BY <1>3 DEF PLeave, Next, Step
<1>4. ASSUME NEW c \in Clients, Silent(c) PROVE Next
  BY <1>4 DEF Silent, Next, Step
<1>5. ASSUME NEW c \in Clients, NEW r \in Clients, Deliver(c, r) PROVE UNCHANGED vars
  BY <1>5 DEF Deliver
<1>6. ASSUME NEW c \in Clients, PAllEnd(c) PROVE Next
  BY <1>6 DEF PAllEnd, Next, Step
<1>7. ASSUME NEW c \in Clients, PSearchEnd(c) PROVE Next
  BY <1>7 DEF PSearchEnd, Next, Step
<1>8. ASSUME NEW c \in Clients, Cancel(c) PROVE UNCHANGED vars
  BY <1>8 DEF Cancel
<1>9. CASE UNCHANGED pvars
  BY <1>9 DEF pvars
<1> QED BY <1>1, <1>2, <1>3, <1>4, <1>5, <1>6, <1>7, <1>8, <1>9 DEF PNext

\* Nobody is connected at first.
LEMMA PInvInit == PInit => PInv
<1> SUFFICES ASSUME PInit PROVE PInv
  OBVIOUS
<1>1. IInv
  BY InvInit DEF PInit
<1>2. ScreensFit
  BY PostOfficeAssumption DEF PInit, ScreensFit
<1> QED BY <1>1, <1>2 DEF PInv, PInit, Init, PTypeOK, SentInside, DeletingInside, NoGhosts

\* A step of c that queues nothing: nobody is shown anything else, nobody starts
\* to listen with an old screen, and if c is shown it stays or takes leave.
Quiet(c) ==
  /\ UNCHANGED <<sent, deleting, shown>>
  /\ cancelled \subseteq cancelled' /\ cancelled' \subseteq Clients
  /\ c \notin mapReaders \cup treeReaders
  /\ c \in deleting => pc'[c] = pc[c]
  /\ \A d \in Clients \ {c} :
       /\ pc'[d] = pc[d]
       /\ recipients'[d] = recipients[d]
       /\ (d \in mapReaders') <=> (d \in mapReaders)
       /\ (d \in treeReaders') <=> (d \in treeReaders)
  /\ \A cs \in Callsigns : clientMap[cs] \notin {NoClient, c} => clientMap'[cs] = clientMap[cs]
  /\ pc'[c] # "register"
  /\ pc'[c] \in Mapped => pc[c] \in Mapped \cup {"register"}
  /\ pc[c] \in Announced => pc'[c] \in Announced /\ clientMap' = clientMap
  /\ pc'[c] = "farewell" /\ c \in mapReaders' =>
       recipients'[c] = {d \in Clients \ {c} : pc[d] \in Mapped}

LEMMA QuietStep ==
  ASSUME PInv, IInv', NEW c \in Clients, Quiet(c)
  PROVE  PInv'
<1> USE DEF Quiet
<1>1. PTypeOK'
  BY DEF PInv, PTypeOK
<1>2. SentInside'
  BY DEF PInv, SentInside
<1>3. DeletingInside'
  BY DEF PInv, PTypeOK, DeletingInside
<1>4. ScreensFit'
  BY DEF PInv, ScreensFit
<1>5. NoGhosts'
  <2> SUFFICES ASSUME NEW r \in Clients, NEW cs \in Callsigns, Listening(r)', shown[r][cs] # NoClient
               PROVE  LET s == shown[r][cs] IN
                        /\ clientMap'[cs] = s
                        /\ pc'[s] \in Announced
                        /\ pc'[s] = "farewell" /\ s \in mapReaders' => r \in recipients'[s] \ sent[s]
    BY DEF NoGhosts, Announced
  <2>1. Listening(r) /\ r # shown[r][cs] /\ shown[r][cs] \in Clients
    BY DEF PInv, PTypeOK, ScreensFit, Listening
  <2>2. LET s == shown[r][cs] IN
          /\ clientMap[cs] = s
          /\ pc[s] \in Announced
          /\ pc[s] = "farewell" /\ s \in mapReaders => r \in recipients[s] \ sent[s]
    BY <2>1 DEF PInv, NoGhosts, Announced
  <2>3. CASE shown[r][cs] # c
    BY <2>1, <2>2, <2>3
  <2>4. CASE shown[r][cs] = c
    BY <2>1, <2>2, <2>4 DEF PInv, SentInside, Listening
  <2> QED BY <2>3, <2>4
<1> QED BY <1>1, <1>2, <1>3, <1>4, <1>5 DEF PInv

\* The steps of the post office that tell nobody anything.
LEMMA SilentKeeps ==
  ASSUME PInv, IInv', NEW c \in Clients, Silent(c)
  PROVE  PInv'
<1>0. /\ TypeOK /\ PTypeOK /\ MapExact /\ MapExact' /\ BroadcastExact' /\ TypeOK'
      /\ pc[c] \notin AllPhases => c \notin mapReaders
      /\ pc[c] # "search" => c \notin treeReaders
      /\ pc[c] # "broadcast" => c \notin deleting
  BY DEF PInv, IInv, ReadersInside, DeletingInside
<1> SUFFICES Quiet(c)
  BY QuietStep
<1> USE DEF Quiet, Goto, locks, TypeOK, PTypeOK, Announced, Mapped, Indexed, AllPhases
<1>1. CASE RegisterMap(c)
  BY <1>0, <1>1 DEF Silent, RegisterMap
<1>2. CASE RegisterTree(c)
  BY <1>0, <1>2 DEF Silent, RegisterTree
<1>3. ASSUME NEW ok \in BOOLEAN, Motd(c, ok) PROVE Quiet(c)
  BY <1>0, <1>3 DEF Silent, Motd
<1>4. CASE HandleBroadcast(c, "search")
  BY <1>0, <1>4 DEF Silent, HandleBroadcast
<1>5. ASSUME NEW p \in Positions, MoveStart(c, p) PROVE Quiet(c)
  BY <1>0, <1>5 DEF Silent, MoveStart
<1>6. CASE MoveTree(c)
  BY <1>0, <1>6 DEF Silent, MoveTree
<1>7. CASE SearchBegin(c)
  BY <1>0, <1>7 DEF Silent, SearchBegin
<1>8. CASE AllBegin(c)
  <2>1. c \in mapReaders' => recipients'[c] = {d \in Clients \ {c} : pc[d] \in Mapped}
    BY <1>0, <1>8 DEF AllBegin, BroadcastExact
  <2>2. \A d \in Clients \ {c} :
          /\ recipients'[d] = recipients[d]
          /\ (d \in mapReaders') <=> (d \in mapReaders)
    BY <1>0, <1>8 DEF AllBegin
  <2>3. pc' = pc /\ pc[c] \in AllPhases /\ UNCHANGED <<clientMap, treeReaders>>
    BY <1>8 DEF AllBegin
  <2>4. c \notin mapReaders \cup treeReaders
    BY <1>0, <1>8 DEF AllBegin
  <2>5. UNCHANGED <<sent, deleting, cancelled, shown>>
    BY DEF Silent
  <2>6. pc[c] \in Mapped /\ pc[c] \in Announced /\ pc[c] # "register"
    BY <2>3
  <2> HIDE DEF Mapped, Announced, AllPhases, Indexed, TypeOK, Goto
  <2>7. /\ UNCHANGED <<sent, deleting, shown>>
        /\ cancelled \subseteq cancelled' /\ cancelled' \subseteq Clients
    BY <1>0, <2>5
  <2>8. \A d \in Clients \ {c} :
          /\ pc'[d] = pc[d]
          /\ recipients'[d] = recipients[d]
          /\ (d \in mapReaders') <=> (d \in mapReaders)
          /\ (d \in treeReaders') <=> (d \in treeReaders)
    BY <2>2, <2>3
  <2> HIDE DEF PTypeOK
  <2> QED BY <2>1, <2>3, <2>4, <2>6, <2>7, <2>8
<1>9. CASE ReleaseTree(c)
  BY <1>0, <1>9 DEF Silent, ReleaseTree
<1>10. CASE ReleaseMap(c)
  BY <1>0, <1>10 DEF Silent, ReleaseMap, MapExact
<1> QED BY <1>1, <1>2, <1>3, <1>4, <1>5, <1>6, <1>7, <1>8, <1>9, <1>10 DEF Silent

-----------------------------------------------------------------------------
(* The steps that queue packets, and those that end a callback.            *)

\* What the steps below need of the invariant.
LEMMA Known ==
  ASSUME PInv
  PROVE  /\ TypeOK /\ PTypeOK /\ MapExact
         /\ \A c \in mapReaders : pc[c] \in AllPhases
         /\ \A c \in treeReaders : pc[c] = "search"
         /\ \A c \in deleting : pc[c] = "broadcast"
         /\ \A c \in Clients : sent[c] \subseteq recipients[c]
         /\ \A c \in Clients : c \notin mapReaders \cup treeReaders => sent[c] = {}
  BY DEF PInv, IInv, ReadersInside, DeletingInside, SentInside

\* A new connection shows nothing, and nobody shows it.
LEMMA ConnectKeeps ==
  ASSUME PInv, IInv', NEW c \in Clients, NEW cs \in Callsigns, PConnect(c, cs)
  PROVE  PInv'
<1> USE DEF Goto, locks, TypeOK, Mapped, Indexed, AllPhases
<1>0. UNCHANGED <<sent, deleting, clientMap, mapReaders, treeReaders, recipients>>
  BY DEF PConnect, Connect
<1>1. /\ pc[c] = "offline" /\ pc' = [pc EXCEPT ![c] = "register"]
      /\ shown' = [shown EXCEPT ![c] = [k \in Callsigns |-> NoClient]]
      /\ cancelled' = cancelled \ {c}
  BY DEF PConnect, Connect
<1>2. c \notin mapReaders \cup treeReaders /\ c \notin deleting
  BY <1>1, Known
<1>3. PTypeOK'
  BY <1>0, <1>1, Known DEF PTypeOK
<1>4. SentInside' /\ DeletingInside'
  BY <1>0, <1>1, <1>2, Known DEF SentInside, DeletingInside, PTypeOK
<1>5. ScreensFit'
  BY <1>1, Known, PostOfficeAssumption DEF ScreensFit, PInv, PTypeOK
<1>6. NoGhosts'
  BY <1>0, <1>1, <1>2, Known DEF NoGhosts, PInv, PTypeOK, Listening
<1> QED BY <1>3, <1>4, <1>5, <1>6 DEF PInv

\* A handler that starts to broadcast.
LEMMA BroadcastKeeps ==
  ASSUME PInv, IInv', NEW c \in Clients, PBroadcast(c)
  PROVE  PInv'
<1> USE DEF Goto, locks, TypeOK, Mapped, Indexed, AllPhases
<1>0. UNCHANGED <<sent, cancelled, shown, clientMap, mapReaders, treeReaders, recipients>>
  BY DEF PBroadcast, HandleBroadcast
<1>1. /\ pc[c] = "loop" /\ pc' = [pc EXCEPT ![c] = "broadcast"]
      /\ deleting' \in {deleting, deleting \cup {c}}
  BY DEF PBroadcast, HandleBroadcast
<1>2. PTypeOK' /\ SentInside' /\ DeletingInside'
  BY <1>0, <1>1, Known DEF PTypeOK, SentInside, DeletingInside
<1>3. ScreensFit'
  BY <1>0, <1>1, Known DEF ScreensFit, PInv, PTypeOK
<1>4. NoGhosts'
  BY <1>0, <1>1, Known DEF NoGhosts, PInv, PTypeOK, Listening
<1> QED BY <1>2, <1>3, <1>4 DEF PInv

\* A connection that takes leave has not begun its farewell.
LEMMA LeaveKeeps ==
  ASSUME PInv, IInv', NEW c \in Clients, PLeave(c)
  PROVE  PInv'
<1> USE DEF Goto, locks, TypeOK, Mapped, Indexed, AllPhases
<1>0. UNCHANGED <<sent, deleting, shown, clientMap, mapReaders, treeReaders, recipients>>
  BY DEF PLeave, Leave
<1>1. /\ pc[c] = "loop" /\ pc' = [pc EXCEPT ![c] = "farewell"]
      /\ cancelled' = cancelled \cup {c}
  BY DEF PLeave, Leave
<1>2. PTypeOK' /\ SentInside' /\ DeletingInside'
  BY <1>0, <1>1, Known DEF PTypeOK, SentInside, DeletingInside
<1>3. ScreensFit'
  BY <1>0, <1>1, Known DEF ScreensFit, PInv, PTypeOK
<1>4. NoGhosts'
  BY <1>0, <1>1, Known DEF NoGhosts, PInv, PTypeOK, Listening
<1> QED BY <1>2, <1>3, <1>4 DEF PInv

\* A packet reaches one more recipient.
LEMMA DeliverKeeps ==
  ASSUME PInv, IInv', NEW c \in Clients, NEW r \in Clients, Deliver(c, r)
  PROVE  PInv'
<1> USE DEF TypeOK, Mapped, Indexed, AllPhases
<1>0. UNCHANGED <<pc, callsign, clientMap, mapReaders, treeReaders, recipients, deleting, cancelled>>
  BY DEF Deliver, vars
<1>1. /\ c \in mapReaders \cup treeReaders /\ r \in recipients[c] \ sent[c]
      /\ sent' = [sent EXCEPT ![c] = @ \cup {r}]
  BY DEF Deliver
<1>2. r # c /\ pc[r] \in Mapped
  BY <1>1, RecipientsListen DEF PInv
<1>3. pc[c] \in AllPhases \cup {"search"} /\ clientMap[callsign[c]] = c
  BY <1>1, Known DEF MapExact
<1>4. \/ shown' = [shown EXCEPT ![r][callsign[c]] = Shows(c)]
      \/ shown' = shown /\ (pc[c] = "broadcast" \/ r \in cancelled)
  BY DEF Deliver
<1>5. Shows(c) \in {c, NoClient} /\ (pc[c] = "farewell" => Shows(c) = NoClient)
  BY DEF Shows
<1>6. /\ \A q \in Clients, cs \in Callsigns :
           shown'[q][cs] = shown[q][cs] \/ (q = r /\ cs = callsign[c] /\ shown'[q][cs] = Shows(c))
      /\ shown' \in [Clients -> [Callsigns -> Clients \cup {NoClient}]]
      /\ shown' = shown \/ shown'[r][callsign[c]] = Shows(c)
  <2>1. callsign[c] \in Callsigns /\ shown \in [Clients -> [Callsigns -> Clients \cup {NoClient}]]
    BY Known DEF PTypeOK
  <2>2. CASE shown' = [shown EXCEPT ![r][callsign[c]] = Shows(c)]
    BY <1>5, <2>1, <2>2
  <2>3. CASE shown' = shown
    BY <2>1, <2>3
  <2> QED BY <1>4, <2>2, <2>3
<1>7. /\ \A d \in Clients : sent'[d] = IF d = c THEN sent[c] \cup {r} ELSE sent[d]
      /\ sent' \in [Clients -> SUBSET Clients]
  BY <1>1, Known DEF PTypeOK
<1>8. PTypeOK' /\ SentInside' /\ DeletingInside'
  <2>1. PTypeOK'
    BY <1>0, <1>6, <1>7, Known DEF PTypeOK
  <2>2. SentInside'
    BY <1>0, <1>1, <1>7, Known DEF SentInside
  <2>3. DeletingInside'
    BY <1>0, Known DEF DeletingInside
  <2> QED BY <2>1, <2>2, <2>3
<1>9. ScreensFit'
  <2>1. ASSUME NEW q \in Clients, NEW cs \in Callsigns
        PROVE  shown'[q][cs] # q /\ (pc[q] = "register" => shown'[q][cs] = NoClient)
    <3>1. shown[q][cs] # q /\ (pc[q] = "register" => shown[q][cs] = NoClient)
      BY DEF PInv, ScreensFit
    <3>2. CASE shown'[q][cs] = shown[q][cs]
      BY <3>1, <3>2
    <3>3. CASE q = r /\ shown'[q][cs] = Shows(c)
      BY <1>2, <1>5, <3>3, PostOfficeAssumption
    <3> QED BY <1>6, <3>2, <3>3
  <2> QED BY <1>0, <2>1 DEF ScreensFit
<1>10. NoGhosts'
  <2> SUFFICES ASSUME NEW q \in Clients, NEW cs \in Callsigns, Listening(q), shown'[q][cs] # NoClient
               PROVE  LET s == shown'[q][cs] IN
                        /\ clientMap[cs] = s
                        /\ pc[s] \in Announced
                        /\ pc[s] = "farewell" /\ s \in mapReaders => q \in recipients[s] \ sent'[s]
    BY <1>0 DEF NoGhosts, Announced, Listening
  <2>1. CASE shown'[q][cs] # shown[q][cs]
    <3>1. q = r /\ cs = callsign[c] /\ shown'[q][cs] = c /\ pc[c] # "farewell"
      BY <1>5, <1>6, <2>1
    <3> QED BY <1>3, <3>1 DEF Announced
  <2>2. CASE shown'[q][cs] = shown[q][cs]
    <3> DEFINE s == shown[q][cs]
    <3>1. /\ s \in Clients /\ clientMap[cs] = s /\ pc[s] \in Announced
          /\ pc[s] = "farewell" /\ s \in mapReaders => q \in recipients[s] \ sent[s]
      BY <2>2, Known DEF PInv, NoGhosts, Announced, PTypeOK
    <3>2. CASE s = c /\ q = r /\ pc[s] = "farewell"
      <4>1. cs = callsign[c]
        BY <3>1, <3>2, Known DEF MapExact
      <4>2. shown' # shown
        BY <1>4, <2>2, <3>1, <3>2, <4>1, <1>5, PostOfficeAssumption, Known DEF Listening, PTypeOK
      <4> QED BY <1>5, <1>6, <2>2, <3>1, <3>2, <4>1, <4>2, PostOfficeAssumption
    <3>3. CASE ~(s = c /\ q = r /\ pc[s] = "farewell")
      BY <1>7, <2>2, <3>1, <3>3
    <3> QED BY <3>2, <3>3
  <2> QED BY <2>1, <2>2
<1> QED BY <1>8, <1>9, <1>10 DEF PInv

\* A broadcast ends: after a farewell nobody shows the connection any more.
LEMMA AllEndKeeps ==
  ASSUME PInv, IInv', NEW c \in Clients, PAllEnd(c)
  PROVE  PInv'
<1> USE DEF Goto, locks, TypeOK, Mapped, Indexed, AllPhases
<1>0. UNCHANGED <<shown, clientMap, treeReaders>>
  BY DEF PAllEnd, AllEnd
<1>1. /\ c \in mapReaders /\ mapReaders' = mapReaders \ {c} /\ sent[c] = recipients[c]
      /\ recipients' = [recipients EXCEPT ![c] = {}]
      /\ sent' = [sent EXCEPT ![c] = {}]
      /\ pc' = [pc EXCEPT ![c] = IF pc[c] = "farewell" THEN "release" ELSE "loop"]
      /\ deleting' = deleting \ {c}
      /\ cancelled \subseteq cancelled' /\ cancelled' \subseteq cancelled \cup {c}
  BY DEF PAllEnd, AllEnd
<1>2. pc[c] \in AllPhases
  BY <1>1, Known
<1>3. PTypeOK' /\ SentInside' /\ DeletingInside'
  BY <1>0, <1>1, Known DEF PTypeOK, SentInside, DeletingInside
<1>4. ScreensFit'
  BY <1>0, <1>1, Known DEF ScreensFit, PInv, PTypeOK
<1>5. NoGhosts'
  BY <1>0, <1>1, <1>2, Known DEF NoGhosts, PInv, PTypeOK, Listening
<1> QED BY <1>3, <1>4, <1>5 DEF PInv

\* A search ends.
LEMMA SearchEndKeeps ==
  ASSUME PInv, IInv', NEW c \in Clients, PSearchEnd(c)
  PROVE  PInv'
<1> USE DEF Goto, locks, TypeOK, Mapped, Indexed, AllPhases
<1>0. UNCHANGED <<shown, clientMap, mapReaders, deleting, cancelled>>
  BY DEF PSearchEnd, SearchEnd
<1>1. /\ c \in treeReaders /\ treeReaders' = treeReaders \ {c}
      /\ recipients' = [recipients EXCEPT ![c] = {}]
      /\ sent' = [sent EXCEPT ![c] = {}]
      /\ pc' = [pc EXCEPT ![c] = "loop"]
  BY DEF PSearchEnd, SearchEnd
<1>2. pc[c] = "search"
  BY <1>1, Known
<1>3. PTypeOK' /\ SentInside' /\ DeletingInside'
  BY <1>0, <1>1, <1>2, Known DEF PTypeOK, SentInside, DeletingInside
<1>4. ScreensFit'
  BY <1>0, <1>1, Known DEF ScreensFit, PInv, PTypeOK
<1>5. NoGhosts'
  BY <1>0, <1>1, <1>2, Known DEF NoGhosts, PInv, PTypeOK, Listening
<1> QED BY <1>3, <1>4, <1>5 DEF PInv

\* Every step preserves the invariant.
LEMMA PInvNext == PInv /\ [PNext]_pvars => PInv'
<1> SUFFICES ASSUME PInv, [PNext]_pvars PROVE PInv'
  OBVIOUS
<1>0. IInv'
  BY IsPostOfficeStep, InvNext DEF PInv
<1>1. ASSUME NEW c \in Clients, Cancel(c) PROVE PInv'
  BY <1>0, <1>1 DEF Cancel, vars, PInv, PTypeOK, SentInside, DeletingInside, ScreensFit, NoGhosts, Listening
<1>2. CASE UNCHANGED pvars
  BY <1>0, <1>2 DEF pvars, vars, PInv, PTypeOK, SentInside, DeletingInside, ScreensFit, NoGhosts, Listening
<1> QED BY <1>0, <1>1, <1>2, ConnectKeeps, BroadcastKeeps, LeaveKeeps, SilentKeeps, DeliverKeeps,
           AllEndKeeps, SearchEndKeeps DEF PNext

-----------------------------------------------------------------------------
(* What the screens show, for every value of the constants.                *)

\* No ghosts: whatever a client to which packets get through shows under a
\* callsign is the connection that owns it and has yet to say farewell to it.
THEOREM NoGhostsEver == PSpec => []NoGhosts
<1>1. PInit => PInv
  BY PInvInit
<1>2. PInv /\ [PNext]_pvars => PInv'
  BY PInvNext
<1>3. PInv => NoGhosts
  BY DEF PInv
<1> QED BY <1>1, <1>2, <1>3, PTL DEF PSpec

\* Only a connection's own farewell or delete packet takes it off a screen.
THEOREM DeletesAreOwn == PSpec => OnlyOwnDelete
<1> DEFINE OwnDelete ==
      \A r \in Clients, cs \in Callsigns :
        LET s == shown[r][cs] IN
        s # NoClient /\ shown'[r][cs] # s /\ Listening(r) =>
          pc[s] = "farewell" \/ s \in deleting
<1>1. PInit => PInv
  BY PInvInit
<1>2. PInv /\ [PNext]_pvars => PInv'
  BY PInvNext
<1>3. PInv /\ [PNext]_pvars => [OwnDelete]_pvars
  <2> SUFFICES ASSUME PInv, [PNext]_pvars PROVE [OwnDelete]_pvars
    OBVIOUS
  <2>1. ASSUME NEW c \in Clients, NEW cs \in Callsigns, PConnect(c, cs) PROVE OwnDelete
    BY <2>1, Known DEF PConnect, Connect, Listening, Mapped, Indexed, PTypeOK
  <2>2. ASSUME NEW c \in Clients, NEW r \in Clients, Deliver(c, r) PROVE OwnDelete
    <3> SUFFICES ASSUME NEW q \in Clients, NEW cs \in Callsigns,
                        shown[q][cs] # NoClient, shown'[q][cs] # shown[q][cs], Listening(q)
                 PROVE  pc[shown[q][cs]] = "farewell" \/ shown[q][cs] \in deleting
      OBVIOUS
    <3>1. q = r /\ cs = callsign[c] /\ shown'[q][cs] = Shows(c)
      BY <2>2, Known DEF Deliver, PTypeOK, TypeOK
    <3>2. clientMap[callsign[c]] = c
      BY <2>2, Known DEF Deliver, MapExact, TypeOK, Mapped, Indexed, AllPhases
    <3>3. shown[q][cs] = c
      BY <3>1, <3>2 DEF PInv, NoGhosts
    <3> QED BY <3>1, <3>3 DEF Shows
  <2>3. CASE shown' = shown
    BY <2>3
  <2> QED BY <2>1, <2>2, <2>3 DEF PNext, PBroadcast, PLeave, Silent, PAllEnd, PSearchEnd, Cancel, pvars
<1> QED BY <1>1, <1>2, <1>3, PTL DEF PSpec, OnlyOwnDelete
=============================================================================
