------------------------------ MODULE RbacProofs ------------------------------
(***************************************************************************)
(* What holds of roles and permissions for any number of threads, users,   *)
(* codes and operations.                                                   *)
(*                                                                         *)
(* A transaction writes what it has decided on an old snapshot.  RInv says *)
(* what of the snapshot is still true while others commit: an id that it   *)
(* has drawn is nobody else's, what it binds is there and what it deletes  *)
(* is bound nowhere, unless crossed knows of it, and a replacement that    *)
(* nobody has disturbed still sees the bindings of its user or role.       *)
(***************************************************************************)
EXTENDS Rbac, WellFoundedInduction, TLAPS

-----------------------------------------------------------------------------
(* Types.                                                                  *)

Idents == 1..MaxIds
Names == RoleCodes \cup PermCodes \cup {b[2] : b \in Builtin}
Rows == (Users \cup Idents) \X (Idents \cup Names)

Ops == [table : {"none"}]
         \cup [table : {"holds", "grants"}, of : Users \cup Idents, wanted : SUBSET Idents, codes : SUBSET Names]

Transactions == [op : Ops, adds : [Tables -> SUBSET Rows], drops : [Tables -> SUBSET Rows],
                 gone : BOOLEAN, alone : BOOLEAN]

JobsFit == job \in [Threads -> Transactions \cup {Idle}]
Open(t) == job[t] # Idle

\* What was named, is named: every row of a role or permission has an id that
\* has been drawn, and what the bootstrap created is there.
TablesFit ==
  /\ db \in [Tables -> SUBSET Rows]
  /\ \A x \in {"roles", "perms"} : db[x] \subseteq Idents \X Names /\ \A row \in db[x] : row[1] < nextId
  /\ {UserRole, AdminRole} \subseteq db["roles"] /\ {Profile, Manage} \subseteq db["perms"]
  /\ nextId \in 5..(MaxIds + 1)

-----------------------------------------------------------------------------
(* What a transaction j is about to write, and what of it can be relied on *)
(* although the snapshot is old.                                           *)

\* The tables fit; what binds deletes no role and no permission, what is built
\* in stays.
WritesFit(j) ==
  /\ j.adds["roles"] \cup j.adds["perms"] \subseteq Idents \X Names
  /\ j.adds["holds"] \subseteq Users \X Idents /\ j.adds["grants"] \subseteq Idents \X Idents
  /\ j.drops["roles"] \cup j.drops["perms"] \subseteq (Idents \X Names) \ Builtin
  /\ Bound(j) = {} \/ Deleted(j) = {}

\* One role or permission at most is new, and its id is nobody else's.
NewIsNew(j) ==
  /\ \A x, y \in {"roles", "perms"} : \A new \in j.adds[x], other \in j.adds[y] : x = y /\ new = other
  /\ \A new \in j.adds["roles"] \cup j.adds["perms"] :
       new[1] < nextId /\ new[1] \notin Ids(db["roles"] \cup db["perms"])

\* What it binds is there, or its deletion is known.
BoundIsThere(j) ==
  /\ \A h \in j.adds["holds"] : h[2] \in Ids(db["roles"]) \cup crossed
  /\ \A g \in j.adds["grants"] : g[1] \in Ids(db["roles"]) \cup crossed /\ g[2] \in Ids(db["perms"]) \cup crossed

\* What it deletes nobody has, or it deletes that, too, or the binding is known.
DeletedIsFree(j) ==
  /\ \A h \in db["holds"] : h[2] \in Ids(j.drops["roles"]) => h[2] \in crossed
  /\ \A g \in db["grants"] :
       /\ g[1] \in Ids(j.drops["roles"]) => g \in j.drops["grants"] \/ g[1] \in crossed
       /\ g[2] \in Ids(j.drops["perms"]) => g[2] \in crossed

\* A replacement that nobody has disturbed sees the bindings as they are.
Catalog(table) == IF table = "holds" THEN db["roles"] ELSE db["perms"]
StillExact(j) ==
  j.op.table # "none" =>
    /\ Deleted(j) = {} /\ \A x \in Tables \ {j.op.table} : j.adds[x] = {} /\ j.drops[x] = {}
    /\ j.alone =>
         /\ j.adds[j.op.table] = Missing(db[j.op.table], j.op.of, j.op.wanted)
         /\ j.drops[j.op.table] = Surplus(db[j.op.table], j.op.of, j.op.wanted)
         /\ j.op.wanted \subseteq Ids(Catalog(j.op.table))
         /\ CodesOf(Catalog(j.op.table), j.op.wanted) = j.op.codes

Sound(j) == WritesFit(j) /\ NewIsNew(j) /\ BoundIsThere(j) /\ DeletedIsFree(j) /\ StillExact(j)

\* Two open transactions draw different ids, and know of each other's deletions.
Apart(j, k) ==
  /\ \A new \in j.adds["roles"] \cup j.adds["perms"], other \in k.adds["roles"] \cup k.adds["perms"] :
       new[1] # other[1]
  /\ Deleted(j) \cap Bound(k) \subseteq crossed

\* What the tables hold refers to what is there, or its deletion is known.
Refers ==
  /\ \A h \in db["holds"] : h[2] \in Ids(db["roles"]) \cup crossed
  /\ \A g \in db["grants"] : g[1] \in Ids(db["roles"]) \cup crossed /\ g[2] \in Ids(db["perms"]) \cup crossed

JobsSound == \A t \in Threads : Open(t) => Sound(job[t])
JobsApart == \A s, t \in Threads : s # t /\ Open(s) /\ Open(t) => Apart(job[s], job[t])

RInv == JobsFit /\ TablesFit /\ TypeOK /\ Refers /\ JobsSound /\ JobsApart

-----------------------------------------------------------------------------
(* Rows, ids and codes.                                                    *)

\* The bootstrap finds a user to make super administrator.
LEMMA FirstIsUser == First \in Users
<1> DEFINE Below == {ss \in Nat \X Nat : ss[1] < ss[2]}
<1>1. IsWellFoundedOn(Below, Nat)
  BY NatLessThanWellFounded DEF OpToRel
<1>2. PICK u \in Users : \A v \in Users : <<v, u>> \notin Below
  <2> HIDE DEF Below
  <2> QED BY <1>1, WFMin, RbacAssumption
<1>3. \A v \in Users : u <= v
  <2> SUFFICES ASSUME NEW v \in Users PROVE u <= v
    OBVIOUS
  <2>1. u \in Nat /\ v \in Nat
    BY RbacAssumption
  <2>2. ~(v < u)
    BY <2>1, <1>2
  <2> QED BY <2>1, <2>2
<1> QED BY <1>3 DEF First

\* What is built in fits below the bound.
LEMMA BuiltinFits ==
  /\ 1..4 \subseteq Idents /\ Builtin \subseteq Idents \X Names
  /\ BuiltinGrants \subseteq Idents \X Idents
  BY RbacAssumption DEF Idents, Names, Builtin, BuiltinGrants, UserRole, AdminRole, Profile, Manage

\* Where ids and codes name the same rows, codes that are there are the codes of their ids ...
LEMMA CodesThereAndBack ==
  ASSUME NEW rows, \A x, y \in rows : x[1] = y[1] <=> x[2] = y[2],
         NEW codes, codes \subseteq CodesOf(rows, Ids(rows))
  PROVE  IdsOf(rows, codes) \subseteq Ids(rows) /\ CodesOf(rows, IdsOf(rows, codes)) = codes
  BY DEF CodesOf, IdsOf

\* ... and ids that are there the ids of their codes.
LEMMA IdsThereAndBack ==
  ASSUME NEW rows, \A x, y \in rows : x[1] = y[1] <=> x[2] = y[2],
         NEW ids, ids \subseteq Ids(rows)
  PROVE  IdsOf(rows, CodesOf(rows, ids)) = ids
  BY DEF CodesOf, IdsOf, Ids

\* A replacement leaves exactly what is wanted.
LEMMA ReplacementIsExact ==
  ASSUME NEW rows, NEW of, NEW wanted
  PROVE  {x[2] : x \in {y \in (rows \ Surplus(rows, of, wanted)) \cup Missing(rows, of, wanted) : y[1] = of}}
           = wanted
<1> DEFINE after == {y \in (rows \ Surplus(rows, of, wanted)) \cup Missing(rows, of, wanted) : y[1] = of}
<1>1. \A y \in after : y[2] \in wanted
  BY DEF Surplus, Missing
<1>2. \A w \in wanted : <<of, w>> \in after
  BY DEF Surplus, Missing
<1>3. \A x \in after : x[2] \in wanted
  BY <1>1
<1> HIDE DEF after
<1>4. {x[2] : x \in after} = wanted
  <2>1. \A w \in wanted : w = (<<of, w>>)[2]
    OBVIOUS
  <2> QED BY <1>2, <1>3, <2>1
<1> QED BY <1>4 DEF after

-----------------------------------------------------------------------------
(* The beginning of a transaction.                                         *)

\* The transaction that Begin opens.
Job(op, adds, drops) == [op |-> op, adds |-> adds, drops |-> drops, gone |-> FALSE, alone |-> TRUE]

\* At most one row is new, with the next id.
DrawsId(adds) ==
  \/ adds["roles"] = {} /\ adds["perms"] = {} /\ nextId' = nextId
  \/ /\ \E x \in {"roles", "perms"}, code \in Names : 
          /\ adds[x] = {<<nextId, code>>}
          /\ \A y \in {"roles", "perms"} \ {x} : adds[y] = {}
     /\ nextId \in Idents /\ nextId' = nextId + 1

LEMMA BeginKeeps ==
  ASSUME RInv, NEW t \in Threads,
         NEW op \in Ops, NEW adds \in [Tables -> SUBSET Rows], NEW drops \in [Tables -> SUBSET Rows],
         Begin(t, op, adds, drops), DrawsId(adds), WritesFit(Job(op, adds, drops)),
         BoundIsThere(Job(op, adds, drops)), DeletedIsFree(Job(op, adds, drops)),
         StillExact(Job(op, adds, drops))
  PROVE  RInv'
<1> DEFINE j == Job(op, adds, drops)
<1>1. /\ db' = db /\ begun < Budget /\ begun' = begun + 1
      /\ job' = [job EXCEPT ![t] = j]
  BY DEF Begin, Job
<1>0. crossed' = crossed \cup UNION {(Deleted(j) \cap Bound(k)) \cup (Deleted(k) \cap Bound(j)) :
                                        k \in {job[s] : s \in {x \in Threads : Open(x)}}}
  BY Zenon DEF Begin, Job, Open
<1>2. /\ crossed \subseteq crossed'
      /\ \A s \in Threads : Open(s) =>
           Deleted(j) \cap Bound(job[s]) \subseteq crossed' /\ Deleted(job[s]) \cap Bound(j) \subseteq crossed'
  BY <1>0
<1>3. j \in Transactions /\ j.op = op /\ j.adds = adds /\ j.drops = drops /\ j.gone = FALSE /\ j.alone = TRUE
  BY DEF Transactions, Job
<1>4. job'[t] = j /\ \A s \in Threads \ {t} : job'[s] = job[s] /\ (Open(s)' <=> Open(s))
  BY <1>1 DEF RInv, JobsFit, Open
<1>5. nextId <= nextId' /\ nextId' \in 5..(MaxIds + 1) /\ nextId \in Nat
  BY RbacAssumption DEF RInv, TablesFit, DrawsId, Idents
<1>6. WritesFit(j) /\ BoundIsThere(j) /\ DeletedIsFree(j) /\ StillExact(j)
  OBVIOUS
<1> HIDE DEF j
<1>j. JobsFit'
  BY <1>1, <1>3 DEF RInv, JobsFit
<1>t. TablesFit'
  <2>1. \A x \in {"roles", "perms"} : \A row \in db[x] : row[1] \in Nat /\ row[1] < nextId
    BY DEF RInv, TablesFit, Idents
  <2> QED BY <2>1, <1>1, <1>5 DEF RInv, TablesFit
<1>c. crossed' \subseteq Idents
  <2>1. \A s \in Threads : Open(s) => Deleted(job[s]) \subseteq Idents
    BY DEF RInv, JobsSound, Sound, WritesFit, Deleted, Ids
  <2>2. Deleted(j) \subseteq Idents
    BY <1>6 DEF WritesFit, Deleted, Ids
  <2>3. crossed \subseteq Idents
    BY DEF RInv, TypeOK, Idents
  <2> QED BY <1>0, <2>1, <2>2, <2>3
<1>y. TypeOK'
  <2>1. begun' \in 0..Budget
    BY <1>1, RbacAssumption DEF RInv, TypeOK
  <2>2. nextId' \in 1..(MaxIds + 1)
    BY <1>5, RbacAssumption
  <2> QED BY <2>1, <2>2, <1>1, <1>c DEF RInv, TypeOK, Idents
<1>r. Refers'
  BY <1>1, <1>2 DEF RInv, Refers
<1>s. JobsSound'
  <2> SUFFICES ASSUME NEW s \in Threads, Open(s)' PROVE Sound(job[s])'
    BY DEF JobsSound
  <2>1. CASE s = t
    <3>1. NewIsNew(j)'
      <4>1. \A x \in {"roles", "perms"} : \A row \in db[x] : row[1] < nextId
        BY DEF RInv, TablesFit
      <4> QED BY <4>1, <1>1, <1>3, <1>5 DEF NewIsNew, DrawsId, Ids
    <3>2. BoundIsThere(j)'
      BY <1>6, <1>1, <1>2 DEF BoundIsThere
    <3>3. DeletedIsFree(j)'
      BY <1>6, <1>1, <1>2 DEF DeletedIsFree
    <3>4. StillExact(j)'
      BY <1>6, <1>1 DEF StillExact, Catalog
    <3> QED BY <3>1, <3>2, <3>3, <3>4, <2>1, <1>4, <1>6 DEF Sound
  <2>2. CASE s # t
    <3> PICK k : k = job[s]
      OBVIOUS
    <3>0. job'[s] = k /\ Sound(k)
      BY <1>4, <2>2 DEF RInv, JobsSound
    <3>1. NewIsNew(k)'
      <4>1. \A new \in k.adds["roles"] \cup k.adds["perms"] : new[1] \in Nat
        BY <3>0 DEF Sound, WritesFit, Idents
      <4>2. \A new \in k.adds["roles"] \cup k.adds["perms"] :
              new[1] < nextId /\ new[1] \notin Ids(db["roles"] \cup db["perms"])
        BY <3>0 DEF Sound, NewIsNew
      <4>3. \A new \in k.adds["roles"] \cup k.adds["perms"] : new[1] < nextId'
        BY <4>1, <4>2, <1>5
      <4> QED BY <4>2, <4>3, <3>0, <1>1 DEF Sound, NewIsNew
    <3>2. BoundIsThere(k)'
      BY <3>0, <1>1, <1>2 DEF Sound, BoundIsThere
    <3>3. DeletedIsFree(k)'
      BY <3>0, <1>1, <1>2 DEF Sound, DeletedIsFree
    <3>4. StillExact(k)'
      BY <3>0, <1>1 DEF Sound, StillExact, Catalog
    <3> QED BY <3>1, <3>2, <3>3, <3>4, <3>0 DEF Sound
  <2> QED BY <2>1, <2>2
<1>a. JobsApart'
  <2>1. \A s \in Threads : Open(s) =>
          \A new \in j.adds["roles"] \cup j.adds["perms"],
             other \in job[s].adds["roles"] \cup job[s].adds["perms"] : new[1] # other[1]
    <3>1. \A new \in j.adds["roles"] \cup j.adds["perms"] : new[1] = nextId
      BY <1>3 DEF DrawsId
    <3> QED BY <3>1, <1>5 DEF RInv, JobsSound, Sound, NewIsNew
  <2>2. ASSUME NEW s \in Threads, NEW r \in Threads, s # r, Open(s)', Open(r)' PROVE Apart(job[s], job[r])'
    <3>1. CASE s = t
      BY <3>1, <2>1, <2>2, <1>2, <1>4 DEF Apart
    <3>2. CASE r = t
      BY <3>2, <2>1, <2>2, <1>2, <1>4 DEF Apart
    <3>3. CASE s # t /\ r # t
      BY <3>3, <2>2, <1>2, <1>4 DEF Apart, RInv, JobsApart
    <3> QED BY <3>1, <3>2, <3>3
  <2> QED BY <2>2 DEF JobsApart
<1> QED BY <1>j, <1>t, <1>y, <1>r, <1>s, <1>a DEF RInv

-----------------------------------------------------------------------------
(* The operations.                                                         *)

\* An assignment binds what is there, and is exact when it begins.
LEMMA ReplaceKeeps ==
  ASSUME RInv, NEW t \in Threads, NEW table \in {"holds", "grants"}, NEW of, NEW wanted, NEW codes,
         table = "holds" => of \in Users,
         table = "grants" => of \in Ids(db["roles"]),
         codes \subseteq CodesOf(Catalog(table), Ids(Catalog(table))),
         wanted = IdsOf(Catalog(table), codes),
         Replace(t, table, of, wanted, codes)
  PROVE  RInv'
<1> DEFINE op == [table |-> table, of |-> of, wanted |-> wanted, codes |-> codes]
           adds == [Nothing EXCEPT ![table] = Missing(db[table], of, wanted)]
           drops == [Nothing EXCEPT ![table] = Surplus(db[table], of, wanted)]
<1>1. wanted \subseteq Ids(Catalog(table)) /\ CodesOf(Catalog(table), wanted) = codes
  <2>1. \A x, y \in Catalog(table) : x[1] = y[1] <=> x[2] = y[2]
    BY DEF RInv, TypeOK, Catalog
  <2> QED BY <2>1, CodesThereAndBack
<1>2. Ids(db["roles"]) \subseteq Idents /\ Ids(db["perms"]) \subseteq Idents /\ Ids(Catalog(table)) \subseteq Idents
  BY DEF RInv, TablesFit, Ids, Catalog
<1>3. of \in Users \cup Idents /\ codes \subseteq Names /\ wanted \subseteq Idents
  <2>1. codes \subseteq Names
    BY DEF RInv, TablesFit, Catalog, CodesOf
  <2> QED BY <2>1, <1>1, <1>2
<1>4. op \in Ops
  BY <1>3 DEF Ops
<1>5. Missing(db[table], of, wanted) \in SUBSET Rows /\ Surplus(db[table], of, wanted) \in SUBSET Rows
  BY <1>3 DEF RInv, TablesFit, Tables, Missing, Surplus, Rows
<1>6. /\ adds \in [Tables -> SUBSET Rows] /\ drops \in [Tables -> SUBSET Rows]
      /\ adds["roles"] = {} /\ adds["perms"] = {} /\ drops["roles"] = {} /\ drops["perms"] = {}
      /\ adds[table] = Missing(db[table], of, wanted) /\ drops[table] = Surplus(db[table], of, wanted)
      /\ \A x \in Tables \ {table} : adds[x] = {} /\ drops[x] = {}
  BY <1>5 DEF Tables, Nothing
<1>7. Begin(t, op, adds, drops) /\ nextId' = nextId
  BY DEF Replace
<1> HIDE DEF op, adds, drops
<1>8. DrawsId(adds)
  BY <1>6, <1>7 DEF DrawsId
<1> DEFINE j == Job(op, adds, drops)
<1>9. j.op = op /\ j.adds = adds /\ j.drops = drops
  BY DEF Job
<1> HIDE DEF j
<1>10. Deleted(j) = {}
  BY <1>6, <1>9 DEF Deleted, Ids
<1>11. \A row \in Missing(db[table], of, wanted) : row[1] = of /\ row[2] \in wanted /\ row = <<of, row[2]>>
  BY DEF Missing
<1>12. WritesFit(j)
  <2>1. CASE table = "holds"
    BY <2>1, <1>3, <1>6, <1>9, <1>10, <1>11 DEF WritesFit, Tables
  <2>2. CASE table = "grants"
    BY <1>2, <1>3, <1>6, <1>9, <1>10, <1>11 DEF WritesFit, Tables
  <2> QED BY <2>1, <2>2
<1>13. BoundIsThere(j)
  <2>1. CASE table = "holds"
    BY <1>1, <1>6, <1>9, <1>11 DEF BoundIsThere, Tables, Catalog
  <2>2. CASE table = "grants"
    BY <1>1, <1>6, <1>9, <1>11 DEF BoundIsThere, Tables, Catalog
  <2> QED BY <2>1, <2>2
<1>14. DeletedIsFree(j)
  BY <1>6, <1>9 DEF DeletedIsFree, Ids
<1>15. StillExact(j)
  <2>1. op.table = table /\ op.of = of /\ op.wanted = wanted /\ op.codes = codes
    BY DEF op
  <2> QED BY <2>1, <1>1, <1>6, <1>9, <1>10 DEF StillExact
<1> QED BY <1>4, <1>6, <1>7, <1>8, <1>12, <1>13, <1>14, <1>15, BeginKeeps DEF j

\* What only deletes keeps the invariant if what it deletes is free.
LEMMA DeletionKeeps ==
  ASSUME RInv, NEW t \in Threads, NEW drops \in [Tables -> SUBSET Rows],
         drops["roles"] \cup drops["perms"] \subseteq (Idents \X Names) \ Builtin,
         DeletedIsFree(Job([table |-> "none"], Nothing, drops)),
         Begin(t, [table |-> "none"], Nothing, drops), nextId' = nextId
  PROVE  RInv'
<1> DEFINE op == [table |-> "none"]
           j == Job(op, Nothing, drops)
<1>1. j.op = op /\ j.adds = Nothing /\ j.drops = drops
  BY DEF Job
<1>2. op \in Ops /\ op.table = "none"
  BY DEF Ops
<1>3. /\ Nothing \in [Tables -> SUBSET Rows] /\ \A x \in Tables : Nothing[x] = {}
      /\ DrawsId(Nothing)
  BY DEF Nothing, DrawsId, Tables
<1> HIDE DEF j, op
<1>4. Bound(j) = {}
  BY <1>1, <1>3 DEF Bound, Tables
<1>5. WritesFit(j)
  BY <1>1, <1>3, <1>4 DEF WritesFit, Tables
<1>6. BoundIsThere(j)
  BY <1>1, <1>3 DEF BoundIsThere, Tables
<1>7. StillExact(j)
  BY <1>1, <1>2 DEF StillExact
<1> QED BY <1>2, <1>3, <1>5, <1>6, <1>7, BeginKeeps DEF j, op

LEMMA RevokeKeeps ==
  ASSUME RInv, NEW t \in Threads, NEW table \in {"holds", "grants"}, NEW row \in db[table], Revoke(t, table, row)
  PROVE  RInv'
<1> DEFINE drops == [Nothing EXCEPT ![table] = {row}]
<1>1. row \in Rows
  BY DEF RInv, TablesFit, Tables
<1>2. drops \in [Tables -> SUBSET Rows] /\ drops["roles"] = {} /\ drops["perms"] = {}
  BY <1>1 DEF Nothing, Tables
<1>3. Begin(t, [table |-> "none"], Nothing, drops) /\ nextId' = nextId
  BY DEF Revoke
<1> HIDE DEF drops
<1>4. DeletedIsFree(Job([table |-> "none"], Nothing, drops))
  BY <1>2 DEF DeletedIsFree, Job, Ids
<1> QED BY <1>2, <1>3, <1>4, DeletionKeeps

LEMMA DeleteRoleKeeps ==
  ASSUME RInv, NEW t \in Threads, NEW role, DeleteRole(t, role)
  PROVE  RInv'
<1> DEFINE drops == [Nothing EXCEPT !["roles"] = {role}, !["grants"] = {g \in db["grants"] : g[1] = role[1]}]
<1>1. role \in (Idents \X Names) \ Builtin /\ role \in Rows /\ db["grants"] \subseteq Rows
  BY DEF RInv, TablesFit, Tables, DeleteRole
<1>2. drops["roles"] = {role} /\ drops["perms"] = {} /\ drops["grants"] = {g \in db["grants"] : g[1] = role[1]}
  BY DEF Nothing, Tables
<1>3. drops \in [Tables -> SUBSET Rows]
  BY <1>1 DEF Nothing
<1>4. Begin(t, [table |-> "none"], Nothing, drops) /\ nextId' = nextId
  BY DEF DeleteRole
<1> HIDE DEF drops
<1>5. DeletedIsFree(Job([table |-> "none"], Nothing, drops))
  BY <1>2 DEF DeletedIsFree, Job, Ids, DeleteRole
<1> QED BY <1>1, <1>2, <1>3, <1>4, <1>5, DeletionKeeps

LEMMA DeletePermissionKeeps ==
  ASSUME RInv, NEW t \in Threads, NEW perm, DeletePermission(t, perm)
  PROVE  RInv'
<1> DEFINE drops == [Nothing EXCEPT !["perms"] = {perm}]
<1>1. perm \in (Idents \X Names) \ Builtin /\ perm \in Rows
  BY DEF RInv, TablesFit, Tables, DeletePermission
<1>2. drops["roles"] = {} /\ drops["perms"] = {perm}
  BY DEF Nothing, Tables
<1>3. drops \in [Tables -> SUBSET Rows]
  BY <1>1 DEF Nothing
<1>4. Begin(t, [table |-> "none"], Nothing, drops) /\ nextId' = nextId
  BY DEF DeletePermission
<1> HIDE DEF drops
<1>5. DeletedIsFree(Job([table |-> "none"], Nothing, drops))
  BY <1>2 DEF DeletedIsFree, Job, Ids, DeletePermission
<1> QED BY <1>1, <1>2, <1>3, <1>4, <1>5, DeletionKeeps

\* A new role or permission has an id of its own.
LEMMA CreateKeeps ==
  ASSUME RInv, NEW t \in Threads, NEW table \in {"roles", "perms"}, NEW code \in RoleCodes \cup PermCodes,
         Create(t, table, code)
  PROVE  RInv'
<1> DEFINE op == [table |-> "none"]
           adds == [Nothing EXCEPT ![table] = {<<nextId, code>>}]
           j == Job(op, adds, Nothing)
<1>1. nextId \in Idents /\ code \in Names /\ nextId' = nextId + 1 /\ Begin(t, op, adds, Nothing)
  BY DEF Create, RInv, TablesFit, Idents, Names
<1>2. j.op = op /\ j.adds = adds /\ j.drops = Nothing
  BY DEF Job
<1>3. op \in Ops /\ op.table = "none"
  BY DEF Ops
<1>4. Nothing \in [Tables -> SUBSET Rows] /\ \A x \in Tables : Nothing[x] = {}
  BY DEF Nothing
<1>5. {<<nextId, code>>} \in SUBSET Rows
  BY <1>1 DEF Rows
<1>6. /\ adds \in [Tables -> SUBSET Rows] /\ adds[table] = {<<nextId, code>>}
      /\ \A x \in Tables \ {table} : adds[x] = {}
  BY <1>4, <1>5 DEF Tables
<1> HIDE DEF j, op, adds
<1>7. DrawsId(adds)
  BY <1>1, <1>6 DEF DrawsId, Tables
<1>8. Bound(j) = {}
  BY <1>2, <1>6 DEF Bound, Tables
<1>9. WritesFit(j)
  BY <1>1, <1>2, <1>4, <1>6, <1>8 DEF WritesFit, Tables
<1>10. BoundIsThere(j)
  BY <1>2, <1>6 DEF BoundIsThere, Tables
<1>11. DeletedIsFree(j)
  BY <1>2, <1>4 DEF DeletedIsFree, Ids, Tables
<1>12. StillExact(j)
  BY <1>2, <1>3 DEF StillExact
<1> QED BY <1>1, <1>3, <1>4, <1>6, <1>7, <1>9, <1>10, <1>11, <1>12, BeginKeeps DEF j

\* The bootstrap binds only what is built in, which nobody deletes.
LEMMA BootstrapKeeps ==
  ASSUME RInv, NEW t \in Threads, Bootstrap(t)
  PROVE  RInv'
<1> DEFINE op == [table |-> "none"]
           members == ({<<u, 1>> : u \in Users} \ db["holds"])
                        \cup (IF \E h \in db["holds"] : h[2] = 2 THEN {} ELSE {<<First, 2>>})
           adds == [Nothing EXCEPT !["grants"] = BuiltinGrants \ db["grants"], !["holds"] = members]
           j == Job(op, adds, Nothing)
<1>1. Begin(t, op, adds, Nothing) /\ nextId' = nextId
  BY DEF Bootstrap
<1>2. j.op = op /\ j.adds = adds /\ j.drops = Nothing
  BY DEF Job
<1>3. op \in Ops /\ op.table = "none"
  BY DEF Ops
<1>4. Nothing \in [Tables -> SUBSET Rows] /\ \A x \in Tables : Nothing[x] = {}
  BY DEF Nothing
<1>5. members \subseteq Users \X {1, 2}
  BY FirstIsUser
<1>6. /\ adds["holds"] = members /\ adds["grants"] = BuiltinGrants \ db["grants"]
      /\ adds["roles"] = {} /\ adds["perms"] = {}
  BY <1>4 DEF Tables
<1> HIDE DEF members
<1>7. members \subseteq Rows /\ BuiltinGrants \subseteq Rows
  BY <1>5, BuiltinFits DEF Rows
<1>8. adds \in [Tables -> SUBSET Rows]
  BY <1>4, <1>7
<1> HIDE DEF j, op, adds
<1>9. DrawsId(adds)
  BY <1>1, <1>6 DEF DrawsId
<1>10. Deleted(j) = {}
  BY <1>2, <1>4 DEF Deleted, Ids, Tables
<1>11. WritesFit(j)
  BY <1>2, <1>4, <1>5, <1>6, <1>10, BuiltinFits DEF WritesFit, Tables
<1>12. BoundIsThere(j)
  <2>1. {1, 2} \subseteq Ids(db["roles"]) /\ {3, 4} \subseteq Ids(db["perms"])
    BY DEF RInv, TablesFit, Ids, UserRole, AdminRole, Profile, Manage
  <2>2. \A g \in BuiltinGrants : g[1] \in {1, 2} /\ g[2] \in {3, 4}
    BY DEF BuiltinGrants
  <2> QED BY <2>1, <2>2, <1>2, <1>5, <1>6 DEF BoundIsThere
<1>13. DeletedIsFree(j)
  BY <1>2, <1>4 DEF DeletedIsFree, Ids, Tables
<1>14. StillExact(j)
  BY <1>2, <1>3 DEF StillExact
<1> QED BY <1>1, <1>3, <1>4, <1>8, <1>9, <1>11, <1>12, <1>13, <1>14, BeginKeeps DEF j

-----------------------------------------------------------------------------
(* The end of a transaction.                                               *)

\* What a commit does to the tables and to the transactions that stay open.
LEMMA CommitStep ==
  ASSUME RInv, NEW t \in Threads, Commit(t)
  PROVE  /\ db' \in [Tables -> SUBSET Rows]
         /\ \A x \in Tables : db'[x] = (db[x] \ job[t].drops[x]) \cup job[t].adds[x]
         /\ job' \in [Threads -> Transactions \cup {Idle}]
         /\ \A s \in Threads : job'[s] # Idle =>
              /\ s # t /\ Open(s)
              /\ job'[s].op = job[s].op /\ job'[s].adds = job[s].adds /\ job'[s].drops = job[s].drops
              /\ job'[s].alone => job[s].alone /\ ~Disturbs(job[t], job[s])
<1> PICK k : k = job[t]
  OBVIOUS
<1>1. job \in [Threads -> Transactions \cup {Idle}] /\ db \in [Tables -> SUBSET Rows] /\ k \in Transactions
  BY DEF RInv, JobsFit, TablesFit, Commit
<1>2. db' = [x \in Tables |-> (db[x] \ k.drops[x]) \cup k.adds[x]]
  BY DEF Commit
<1> DEFINE Meets(j) == [j EXCEPT !.gone = j.gone \/ \E x \in Tables : j.drops[x] \cap k.drops[x] # {},
                                 !.alone = j.alone /\ ~Disturbs(k, j)]
<1>3. job' = [s \in Threads |-> IF s = t \/ job[s] = Idle THEN Idle ELSE Meets(job[s])]
  BY DEF Commit
<1>4. \A j \in Transactions : /\ Meets(j) \in Transactions
                              /\ Meets(j).op = j.op /\ Meets(j).adds = j.adds /\ Meets(j).drops = j.drops
                              /\ Meets(j).alone => j.alone /\ ~Disturbs(k, j)
  <2> SUFFICES ASSUME NEW j \in Transactions
               PROVE  /\ Meets(j) \in Transactions
                      /\ Meets(j).op = j.op /\ Meets(j).adds = j.adds /\ Meets(j).drops = j.drops
                      /\ Meets(j).alone => j.alone /\ ~Disturbs(k, j)
    OBVIOUS
  <2> DEFINE g == j.gone \/ \E x \in Tables : j.drops[x] \cap k.drops[x] # {}
             a == j.alone /\ ~Disturbs(k, j)
  <2>1. g \in BOOLEAN /\ a \in BOOLEAN /\ (a => j.alone /\ ~Disturbs(k, j))
    OBVIOUS
  <2>2. Meets(j) = [j EXCEPT !.gone = g, !.alone = a]
    OBVIOUS
  <2> HIDE DEF g, a, Meets
  <2> QED BY <2>1, <2>2 DEF Transactions
<1> HIDE DEF Meets
<1>5. \A x \in Tables : db'[x] = (db[x] \ k.drops[x]) \cup k.adds[x] /\ db'[x] \in SUBSET Rows
  BY <1>1, <1>2 DEF Transactions
<1>6. \A s \in Threads : job[s] # Idle => job[s] \in Transactions
  BY <1>1
<1>7. job' \in [Threads -> Transactions \cup {Idle}]
  BY <1>3, <1>4, <1>6
<1> QED BY <1>2, <1>3, <1>4, <1>5, <1>6, <1>7 DEF Open

LEMMA CommitKeeps ==
  ASSUME RInv, NEW t \in Threads, Commit(t)
  PROVE  RInv'
<1> PICK k : k = job[t]
  OBVIOUS
<1>1. /\ \A x \in Tables : db'[x] = (db[x] \ k.drops[x]) \cup k.adds[x]
      /\ nextId' = nextId /\ begun' = begun /\ crossed' = crossed
  BY DEF Commit
<1>2. Sound(k) /\ ~Duplicate(k) /\ Open(t)
  BY DEF Commit, Open, RInv, JobsSound
<1>3. \A s \in Threads : Open(s)' =>
        /\ s # t /\ Open(s) /\ Sound(job[s]) /\ Apart(job[s], k) /\ Apart(k, job[s])
        /\ job'[s].op = job[s].op /\ job'[s].adds = job[s].adds /\ job'[s].drops = job[s].drops
        /\ job'[s].alone => job[s].alone /\ ~Disturbs(k, job[s])
  BY <1>2, CommitStep DEF Open, RInv, JobsSound, JobsApart
<1>4. {"roles", "perms", "holds", "grants"} \subseteq Tables
  BY DEF Tables
<1>j. JobsFit'
  BY CommitStep DEF JobsFit
<1>t. TablesFit'
  <2>1. \A x \in {"roles", "perms"} : db'[x] \subseteq Idents \X Names /\ \A row \in db'[x] : row[1] < nextId
    BY <1>1, <1>2, <1>4 DEF RInv, TablesFit, Sound, WritesFit, NewIsNew
  <2>2. {UserRole, AdminRole} \subseteq db'["roles"] /\ {Profile, Manage} \subseteq db'["perms"]
    <3>1. {UserRole, AdminRole, Profile, Manage} \cap (k.drops["roles"] \cup k.drops["perms"]) = {}
      BY <1>2 DEF Sound, WritesFit, Builtin
    <3> QED BY <3>1, <1>1, <1>4 DEF RInv, TablesFit
  <2> QED BY <2>1, <2>2, <1>1, CommitStep DEF RInv, TablesFit
<1>y. TypeOK'
  <2>1. DOMAIN db' = Tables
    BY CommitStep
  <2>2. db'["roles"] \cup db'["perms"] \subseteq Idents \X Names /\ Builtin \subseteq db'["roles"] \cup db'["perms"]
    BY <1>t DEF TablesFit, Builtin
  <2>3. \A x \in {"roles", "perms"} : \A a, b \in db'[x] : a[1] = b[1] <=> a[2] = b[2]
    <3>1. \A x \in {"roles", "perms"} : \A a, b \in k.adds[x] : a = b
      BY <1>2 DEF Sound, NewIsNew
    <3>2. \A x \in {"roles", "perms"} : \A a \in k.adds[x], b \in db[x] : a[1] # b[1] /\ a[2] # b[2]
      BY <1>2 DEF Sound, NewIsNew, Duplicate, Ids
    <3>3. \A x \in {"roles", "perms"} : \A a, b \in db[x] : a[1] = b[1] <=> a[2] = b[2]
      BY DEF RInv, TypeOK
    <3> QED BY <3>1, <3>2, <3>3, <1>1, <1>4
  <2>4. db'["holds"] \subseteq Users \X Idents /\ db'["grants"] \subseteq Idents \X Idents
    BY <1>1, <1>2, <1>4 DEF RInv, TypeOK, Sound, WritesFit, Idents
  <2> QED BY <2>1, <2>2, <2>3, <2>4, <1>1 DEF RInv, TypeOK, Idents, Names
<1>r. Refers'
  <2>1. Deleted(k) = {} \/ (k.adds["holds"] = {} /\ k.adds["grants"] = {})
    BY <1>2 DEF Sound, WritesFit, Bound
  <2>2. CASE Deleted(k) = {}
    <3>1. k.drops["roles"] = {} /\ k.drops["perms"] = {}
      BY <2>2 DEF Deleted, Ids
    <3> QED BY <3>1, <1>1, <1>2, <1>4 DEF RInv, Refers, Sound, BoundIsThere, Ids
  <2>3. CASE k.adds["holds"] = {} /\ k.adds["grants"] = {}
    BY <2>3, <1>1, <1>2, <1>4 DEF RInv, Refers, Sound, DeletedIsFree, Ids
  <2> QED BY <2>1, <2>2, <2>3
<1>s. JobsSound'
  <2> SUFFICES ASSUME NEW s \in Threads, Open(s)' PROVE Sound(job[s])'
    BY DEF JobsSound
  <2> PICK j : j = job[s]
    OBVIOUS
  <2> PICK i : i = job'[s]
    OBVIOUS
  <2>1. /\ Sound(j) /\ Apart(j, k) /\ Apart(k, j) /\ i.op = j.op /\ i.adds = j.adds /\ i.drops = j.drops
        /\ i.alone => j.alone /\ ~Disturbs(k, j)
    BY <1>3
  <2>2. Deleted(i) = Deleted(j) /\ Bound(i) = Bound(j)
    BY <2>1 DEF Deleted, Bound
  <2>3. WritesFit(i)
    BY <2>1, <2>2 DEF Sound, WritesFit
  <2>4. NewIsNew(i)'
    BY <2>1, <1>1, <1>4 DEF Sound, NewIsNew, Apart, Ids
  <2>5. BoundIsThere(i)'
    <3>1. \A h \in j.adds["holds"] : h[2] \in Bound(j)
      BY DEF Bound
    <3>2. \A g \in j.adds["grants"] : g[1] \in Bound(j) /\ g[2] \in Bound(j)
      BY DEF Bound
    <3>3. \A x \in Bound(j) : x \in Deleted(k) => x \in crossed
      BY <2>1 DEF Apart
    <3>4. \A x : /\ x \in Ids(db["roles"]) => x \in Ids(db'["roles"]) \cup Deleted(k)
                 /\ x \in Ids(db["perms"]) => x \in Ids(db'["perms"]) \cup Deleted(k)
      BY <1>1, <1>4 DEF Ids, Deleted
    <3> QED BY <3>1, <3>2, <3>3, <3>4, <2>1, <1>1 DEF Sound, BoundIsThere
  <2>6. DeletedIsFree(i)'
    <3>1. \A h \in k.adds["holds"] : h[2] \in Ids(j.drops["roles"]) => h[2] \in crossed
      BY <2>1 DEF Apart, Bound, Deleted, Ids
    <3>2. \A g \in k.adds["grants"] : /\ g[1] \in Ids(j.drops["roles"]) => g[1] \in crossed
                                      /\ g[2] \in Ids(j.drops["perms"]) => g[2] \in crossed
      BY <2>1 DEF Apart, Bound, Deleted, Ids
    <3> QED BY <3>1, <3>2, <2>1, <1>1, <1>4 DEF Sound, DeletedIsFree
  <2>7. StillExact(i)'
    <3> SUFFICES ASSUME j.op.table # "none" PROVE StillExact(i)'
      BY <2>1 DEF StillExact
    <3> PICK table : table = j.op.table
      OBVIOUS
    <3> PICK of : of = j.op.of
      OBVIOUS
    <3> PICK wanted : wanted = j.op.wanted
      OBVIOUS
    <3>1. Deleted(i) = {} /\ \A x \in Tables \ {table} : i.adds[x] = {} /\ i.drops[x] = {}
      BY <2>1, <2>2 DEF Sound, StillExact
    <3>2. ASSUME i.alone
          PROVE  /\ i.adds[table] = Missing(db[table], of, wanted)'
                 /\ i.drops[table] = Surplus(db[table], of, wanted)'
                 /\ wanted \subseteq Ids(Catalog(table))'
                 /\ CodesOf(Catalog(table), wanted)' = j.op.codes
      <4>1. /\ j.adds[table] = Missing(db[table], of, wanted) /\ j.drops[table] = Surplus(db[table], of, wanted)
            /\ wanted \subseteq Ids(Catalog(table)) /\ CodesOf(Catalog(table), wanted) = j.op.codes
        BY <3>2, <2>1 DEF Sound, StillExact
      <4>2. /\ \A row \in k.adds[table] \cup k.drops[table] : row[1] # of
            /\ Deleted(k) \cap wanted = {}
        BY <3>2, <2>1 DEF Disturbs
      <4>3. table \in {"holds", "grants"}
        <5>1. j \in Transactions
          BY <1>3 DEF RInv, JobsFit, Open
        <5> QED BY <5>1 DEF Transactions, Ops
      <4>4. \A row : row[1] = of => (row \in db'[table] <=> row \in db[table])
        BY <4>2, <4>3, <1>1, <1>4
      <4>5. Missing(db'[table], of, wanted) = Missing(db[table], of, wanted)
        BY <4>4 DEF Missing
      <4>6. Surplus(db'[table], of, wanted) = Surplus(db[table], of, wanted)
        BY <4>4 DEF Surplus
      <4>7. \A row : row[1] \in wanted => (row \in Catalog(table)' <=> row \in Catalog(table))
        <5>1. \A row \in k.drops["roles"] \cup k.drops["perms"] : row[1] \notin wanted
          BY <4>2 DEF Deleted, Ids
        <5>2. \A row \in k.adds["roles"] \cup k.adds["perms"] : row[1] \notin wanted
          <6>1. wanted \subseteq Ids(db["roles"] \cup db["perms"])
            BY <4>1 DEF Catalog, Ids
          <6> QED BY <6>1, <1>2 DEF Sound, NewIsNew
        <5> QED BY <5>1, <5>2, <4>3, <1>1, <1>4 DEF Catalog
      <4>8. wanted \subseteq Ids(Catalog(table)')
        BY <4>1, <4>7 DEF Ids
      <4>9. CodesOf(Catalog(table)', wanted) = CodesOf(Catalog(table), wanted)
        BY <4>7 DEF CodesOf
      <4> QED BY <4>1, <4>5, <4>6, <4>8, <4>9, <2>1
    <3> QED BY <3>1, <3>2, <2>1 DEF StillExact
  <2> QED BY <2>3, <2>4, <2>5, <2>6, <2>7 DEF Sound
<1>a. JobsApart'
  <2> SUFFICES ASSUME NEW s \in Threads, NEW r \in Threads, s # r, Open(s)', Open(r)'
               PROVE  Apart(job[s], job[r])'
    BY DEF JobsApart
  <2>1. Apart(job[s], job[r]) /\ job'[s].adds = job[s].adds /\ job'[s].drops = job[s].drops
        /\ job'[r].adds = job[r].adds /\ job'[r].drops = job[r].drops
    BY <1>3 DEF RInv, JobsApart
  <2>2. UNCHANGED crossed
    BY <1>1
  <2> QED BY <2>1, <2>2 DEF Apart, Deleted, Bound
<1> QED BY <1>j, <1>t, <1>y, <1>r, <1>s, <1>a DEF RInv

\* What does not touch the tables leaves a transaction as sound as it was.
LEMMA SoundSame ==
  ASSUME NEW j, Sound(j), db' = db, nextId' = nextId, crossed' = crossed
  PROVE  Sound(j)'
<1>1. WritesFit(j)' /\ NewIsNew(j)'
  BY DEF Sound, NewIsNew
<1>2. BoundIsThere(j)' /\ DeletedIsFree(j)'
  BY DEF Sound, BoundIsThere, DeletedIsFree
<1>3. StillExact(j)'
  BY DEF Sound, StillExact, Catalog
<1> QED BY <1>1, <1>2, <1>3 DEF Sound

\* A transaction that is rolled back leaves nothing.
LEMMA RollBackKeeps ==
  ASSUME RInv, NEW t \in Threads, RollBack(t)
  PROVE  RInv'
<1>1. /\ db' = db /\ nextId' = nextId /\ begun' = begun /\ crossed' = crossed
      /\ job' = [job EXCEPT ![t] = Idle] /\ job \in [Threads -> Transactions \cup {Idle}]
  BY DEF RollBack, RInv, JobsFit
<1>2. \A s \in Threads : Open(s)' => s # t /\ Open(s) /\ job'[s] = job[s]
  BY <1>1 DEF Open
<1>j. JobsFit'
  BY <1>1 DEF JobsFit
<1>t. TablesFit' /\ TypeOK' /\ Refers'
  BY <1>1 DEF RInv, TablesFit, TypeOK, Refers
<1>s. JobsSound'
  <2> SUFFICES ASSUME NEW s \in Threads, Open(s)' PROVE Sound(job[s])'
    BY DEF JobsSound
  <2> PICK j : j = job[s]
    OBVIOUS
  <2>1. job'[s] = j /\ Sound(j)
    BY <1>2 DEF RInv, JobsSound
  <2> QED BY <2>1, <1>1, SoundSame
<1>a. JobsApart'
  BY <1>1, <1>2 DEF RInv, JobsApart, Apart
<1> QED BY <1>j, <1>t, <1>s, <1>a DEF RInv

-----------------------------------------------------------------------------
(* Theorems.                                                               *)

LEMMA RInvInit == Init => RInv
<1> SUFFICES ASSUME Init PROVE RInv
  OBVIOUS
<1>1. /\ db["roles"] = {UserRole, AdminRole} /\ db["perms"] = {Profile, Manage}
      /\ db["holds"] = {<<u, 1>> : u \in Users} \cup {<<First, 2>>} /\ db["grants"] = BuiltinGrants
      /\ DOMAIN db = Tables /\ db = [x \in Tables |-> db[x]]
  BY DEF Init, Tables
<1>2. nextId = 5 /\ begun = 0 /\ crossed = {} /\ job = [t \in Threads |-> Idle]
  BY DEF Init
<1>3. db["holds"] \subseteq Users \X {1, 2}
  BY <1>1, FirstIsUser
<1>4. {UserRole, AdminRole, Profile, Manage} \subseteq Idents \X Names
  BY BuiltinFits DEF Builtin
<1>j. JobsFit /\ JobsSound /\ JobsApart
  BY <1>2 DEF JobsFit, JobsSound, JobsApart, Open
<1>t. TablesFit
  <2>1. db["holds"] \subseteq Rows /\ db["grants"] \subseteq Rows /\ db["roles"] \subseteq Rows /\ db["perms"] \subseteq Rows
    BY <1>1, <1>3, <1>4, BuiltinFits DEF Rows
  <2>2. db \in [Tables -> SUBSET Rows]
    BY <2>1, <1>1 DEF Tables
  <2>3. \A x \in {"roles", "perms"} : \A row \in db[x] : row[1] < 5
    BY <1>1 DEF UserRole, AdminRole, Profile, Manage
  <2>4. nextId = 5 /\ nextId \in 5..(MaxIds + 1)
    BY <1>2, RbacAssumption
  <2>5. /\ db["roles"] \subseteq Idents \X Names /\ db["perms"] \subseteq Idents \X Names
        /\ {UserRole, AdminRole} \subseteq db["roles"] /\ {Profile, Manage} \subseteq db["perms"]
    BY <1>1, <1>4
  <2> QED BY <2>2, <2>3, <2>4, <2>5 DEF TablesFit
<1>y. TypeOK
  <2>1. \A t \in {"roles", "perms"} : \A x \in db[t], y \in db[t] : x[1] = y[1] <=> x[2] = y[2]
    BY <1>1 DEF UserRole, AdminRole, Profile, Manage
  <2>2. db["roles"] \cup db["perms"] \subseteq Idents \X Names /\ Builtin \subseteq db["roles"] \cup db["perms"]
    BY <1>1, <1>4 DEF Builtin
  <2>3. db["holds"] \subseteq Users \X Idents /\ db["grants"] \subseteq Idents \X Idents
    BY <1>1, <1>3, BuiltinFits
  <2>4. nextId \in 1..(MaxIds + 1) /\ begun \in 0..Budget
    BY <1>2, RbacAssumption
  <2> QED BY <2>1, <2>2, <2>3, <2>4, <1>1, <1>2 DEF TypeOK, Idents, Names
<1>r. Refers
  BY <1>1 DEF Refers, Ids, BuiltinGrants, UserRole, AdminRole, Profile, Manage
<1> QED BY <1>j, <1>t, <1>y, <1>r DEF RInv

LEMMA RInvNext == RInv /\ [Next]_vars => RInv'
<1> SUFFICES ASSUME RInv, [Next]_vars PROVE RInv'
  OBVIOUS
<1>1. ASSUME NEW t \in Threads, NEW u \in Users, NEW codes, AssignRolesToUser(t, u, codes) PROVE RInv'
  <2>1. "holds" \in {"holds", "grants"} /\ Catalog("holds") = db["roles"]
    BY DEF Catalog
  <2> QED BY <1>1, <2>1, ReplaceKeeps DEF AssignRolesToUser
<1>2. ASSUME NEW t \in Threads, NEW role \in db["roles"], NEW codes, AssignPermissionsToRole(t, role, codes)
      PROVE  RInv'
  <2>1. "grants" \in {"holds", "grants"} /\ Catalog("grants") = db["perms"] /\ role[1] \in Ids(db["roles"])
    BY DEF Catalog, Ids
  <2> QED BY <1>2, <2>1, ReplaceKeeps DEF AssignPermissionsToRole
<1>3. ASSUME NEW t \in Threads, Operation(t) PROVE RInv'
  BY <1>1, <1>2, <1>3, RevokeKeeps, CreateKeeps, DeleteRoleKeeps, DeletePermissionKeeps, BootstrapKeeps DEF Operation
<1>4. ASSUME UNCHANGED vars PROVE RInv'
  <2>1. db' = db /\ job' = job /\ nextId' = nextId /\ begun' = begun /\ crossed' = crossed
    BY <1>4 DEF vars
  <2>2. JobsFit' /\ TablesFit' /\ TypeOK' /\ Refers'
    BY <2>1 DEF RInv, JobsFit, TablesFit, TypeOK, Refers
  <2>3. JobsSound'
    <3> SUFFICES ASSUME NEW s \in Threads, Open(s) PROVE Sound(job[s])'
      BY <2>1 DEF JobsSound, Open
    <3> PICK j : j = job[s]
      OBVIOUS
    <3> QED BY <2>1, SoundSame DEF RInv, JobsSound
  <2>4. JobsApart'
    BY <2>1 DEF RInv, JobsApart, Apart, Open
  <2> QED BY <2>2, <2>3, <2>4 DEF RInv
<1> QED BY <1>3, <1>4, CommitKeeps, RollBackKeeps DEF Next

\* RInv is an invariant of every execution.
THEOREM RbacInvariant == Spec => []RInv
  BY RInvInit, RInvNext, PTL DEF Spec

\* Whatever is created, deleted and bound at the same time, an id and a code name one role or permission at
\* most, and what is built in stays.
THEOREM RbacTypes == Spec => []TypeOK
<1>1. RInv => TypeOK
  BY DEF RInv
<1> QED BY <1>1, RbacInvariant, PTL

\* What is bound is there, or was deleted while it was being bound, and what a user may do follows from the
\* roles the user is shown.
THEOREM BindingsAlwaysRefer == Spec => []BindingsRefer
<1>1. RInv => BindingsRefer
  <2> SUFFICES ASSUME RInv PROVE BindingsRefer
    OBVIOUS
  <2>1. Refers
    BY DEF RInv
  <2>2. ASSUME NEW u \in Users, \A h \in db["holds"] : h[1] = u => h[2] \notin crossed
        PROVE  Permissions(u) = UNION {PermissionsOf(r) : r \in IdsOf(db["roles"], RolesOf(u))}
    <3> DEFINE held == {h[2] : h \in {x \in db["holds"] : x[1] = u}}
    <3>1. held \subseteq Ids(db["roles"])
      BY <2>1, <2>2 DEF Refers
    <3>2. \A x, y \in db["roles"] : x[1] = y[1] <=> x[2] = y[2]
      BY DEF RInv, TypeOK
    <3>3. IdsOf(db["roles"], CodesOf(db["roles"], held)) = held
      <4> HIDE DEF held
      <4> QED BY <3>1, <3>2, IdsThereAndBack
    <3>4. Permissions(u) = UNION {PermissionsOf(r) : r \in held}
      BY DEF Permissions
    <3> QED BY <3>3, <3>4 DEF RolesOf
  <2> QED BY <2>1, <2>2 DEF Refers, BindingsRefer
<1> QED BY <1>1, RbacInvariant, PTL

\* A replacement that nobody disturbs leaves exactly what was asked for.
LEMMA CommitIsExact ==
  ASSUME RInv, NEW t \in Threads, NEW j, j = job[t], Commit(t), j.op.table # "none", j.alone
  PROVE  j.op.codes = IF j.op.table = "holds" THEN RolesOf(j.op.of)' ELSE PermissionsOf(j.op.of)'
<1> PICK table : table = j.op.table
  OBVIOUS
<1> PICK of : of = j.op.of
  OBVIOUS
<1> PICK wanted : wanted = j.op.wanted
  OBVIOUS
<1>1. table \in {"holds", "grants"}
  <2>1. j \in Transactions
    BY DEF RInv, JobsFit, Commit
  <2> QED BY <2>1 DEF Transactions, Ops
<1>2. StillExact(j)
  BY DEF RInv, JobsSound, Sound, Commit, Open
<1>3. \A x \in Tables : db'[x] = (db[x] \ j.drops[x]) \cup j.adds[x]
  BY CommitStep
<1>0. /\ Deleted(j) = {} /\ \A x \in Tables \ {table} : j.adds[x] = {} /\ j.drops[x] = {}
      /\ j.adds[table] = Missing(db[table], of, wanted) /\ j.drops[table] = Surplus(db[table], of, wanted)
  BY <1>2 DEF StillExact
<1>4. db'[table] = (db[table] \ Surplus(db[table], of, wanted)) \cup Missing(db[table], of, wanted)
  <2>1. db'[table] = (db[table] \ j.drops[table]) \cup j.adds[table]
    BY <1>1, <1>3 DEF Tables
  <2> QED BY <1>0, <2>1
<1>5. {x[2] : x \in {y \in db'[table] : y[1] = of}} = wanted
  BY <1>4, ReplacementIsExact
<1>6. db'["roles"] = db["roles"] /\ db'["perms"] = db["perms"]
  <2>1. \A x \in {"roles", "perms"} : j.adds[x] = {} /\ j.drops[x] = {}
    BY <1>0, <1>1 DEF Tables
  <2> QED BY <1>3, <2>1 DEF Tables
<1>7. CodesOf(Catalog(table), wanted) = j.op.codes
  BY <1>2 DEF StillExact
<1>8. CASE table = "holds"
  BY <1>5, <1>6, <1>7, <1>8 DEF RolesOf, Catalog
<1>9. CASE table = "grants"
  BY <1>5, <1>6, <1>7, <1>9 DEF PermissionsOf, Catalog
<1> QED BY <1>1, <1>8, <1>9

\* Unless somebody changed the same user or role and committed in between, the user has the roles, or the role
\* the permissions, that were asked for, and no others.
THEOREM AssignmentsAreExact == Spec => AssignmentsExact
<1>1. RInv /\ [Next]_vars =>
        [\A t \in Threads : \A j \in {job[t]} :
           Commit(t) /\ j.op.table # "none" /\ j.alone =>
             j.op.codes = IF j.op.table = "holds" THEN RolesOf(j.op.of)' ELSE PermissionsOf(j.op.of)']_vars
  BY CommitIsExact
<1> QED BY <1>1, RbacInvariant, PTL DEF Spec, AssignmentsExact
=============================================================================
