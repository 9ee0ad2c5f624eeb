--------------------------------- MODULE Rbac ---------------------------------
(***************************************************************************)
(* Roles and permissions of the platform (RbacServiceImpl): four tables of *)
(* a MySQL database, changed by transactions of several threads.           *)
(*                                                                         *)
(* Every operation is one transaction.  It looks at the snapshot taken by  *)
(* its first query and decides what to insert and what to delete; rows     *)
(* are deleted by their own ids.  When it commits, a unique key that       *)
(* somebody else has used in the meantime, or a row that somebody else has *)
(* deleted, rolls it back.  There are no foreign keys.                     *)
(*                                                                         *)
(* An operation that is refused changes nothing and is left out, and so    *)
(* are names and descriptions, and the permission of the caller, which the *)
(* controller has checked before.                                          *)
(***************************************************************************)
EXTENDS Integers, FiniteSets

CONSTANTS
  Threads,
  Users,        \* accounts, a set of integers
  RoleCodes,    \* codes of roles that can be created ...
  PermCodes,    \* ... and of permissions
  MaxIds,       \* bound: rows drawn for roles and permissions
  Budget        \* bound: operations

\* What the bootstrap creates; its permissions are one for everybody and one
\* for the super administrator.
UserRole == <<1, "user">>
AdminRole == <<2, "super-admin">>
Profile == <<3, "system:profile:read">>
Manage == <<4, "system:rbac:role:create">>
Builtin == {UserRole, AdminRole, Profile, Manage}
BuiltinGrants == {<<1, 3>>, <<2, 3>>, <<2, 4>>}

ASSUME RbacAssumption ==
  /\ Users \subseteq Nat /\ IsFiniteSet(Users) /\ Users # {}
  /\ MaxIds \in Nat /\ MaxIds >= 4 /\ Budget \in Nat
  /\ {b[2] : b \in Builtin} \cap (RoleCodes \cup PermCodes) = {}

VARIABLES
  db,       \* the tables: roles and perms hold <<id, code>>, holds (rbac_user_role)
            \* <<user, role>> and grants (rbac_role_permission) <<role, permission>>
  job,      \* what each thread's transaction is about to write
  nextId,   \* the next id (one counter for both tables)
  begun,    \* operations so far
  crossed   \* roles and permissions whose deletion met a binding of them (history)

vars == <<db, job, nextId, begun, crossed>>

Tables == {"roles", "perms", "holds", "grants"}
Idle == [op |-> [table |-> "idle"]]
Nothing == [t \in Tables |-> {}]
Ids(rows) == {row[1] : row \in rows}
IdsOf(rows, codes) == {row[1] : row \in {x \in rows : x[2] \in codes}}
CodesOf(rows, ids) == {row[2] : row \in {x \in rows : x[1] \in ids}}
First == CHOOSE u \in Users : \A v \in Users : u <= v

\* Roles and permissions that a transaction deletes, and those that it binds.
Deleted(j) == Ids(j.drops["roles"] \cup j.drops["perms"])
Bound(j) == {row[2] : row \in j.adds["holds"]} \cup UNION {{row[1], row[2]} : row \in j.adds["grants"]}

Init ==
  /\ db = [roles |-> {UserRole, AdminRole}, perms |-> {Profile, Manage},
           holds |-> {<<u, 1>> : u \in Users} \cup {<<First, 2>>}, grants |-> BuiltinGrants]
  /\ job = [t \in Threads |-> Idle]
  /\ nextId = 5 /\ begun = 0 /\ crossed = {}

-----------------------------------------------------------------------------
(* Operations: what they decide on the snapshot.                           *)

Begin(t, op, adds, drops) ==
  /\ job[t] = Idle /\ begun < Budget
  /\ begun' = begun + 1
  /\ LET j == [op |-> op, adds |-> adds, drops |-> drops, gone |-> FALSE, alone |-> TRUE]
         others == {job[s] : s \in {x \in Threads : job[x] # Idle}}
     IN /\ job' = [job EXCEPT ![t] = j]
        /\ crossed' = crossed \cup UNION {(Deleted(j) \cap Bound(k)) \cup (Deleted(k) \cap Bound(j)) : k \in others}
  /\ UNCHANGED db

\* Faulty: adds what is missing and keeps what is not wanted any more.
SurplusNone(rows, of, wanted) == {}

\* relationsToRemove.
Surplus(rows, of, wanted) == {row \in rows : row[1] = of /\ row[2] \notin wanted}

Missing(rows, of, wanted) == ({of} \X wanted) \ rows

\* Replaces the bindings of a user or of a role.
Replace(t, table, of, wanted, codes) ==
  /\ Begin(t, [table |-> table, of |-> of, wanted |-> wanted, codes |-> codes],
           [Nothing EXCEPT ![table] = Missing(db[table], of, wanted)],
           [Nothing EXCEPT ![table] = Surplus(db[table], of, wanted)])
  /\ UNCHANGED nextId

AssignRolesToUser(t, u, codes) ==
  /\ codes # {} /\ codes \subseteq CodesOf(db["roles"], Ids(db["roles"]))
  /\ Replace(t, "holds", u, IdsOf(db["roles"], codes), codes)

AssignPermissionsToRole(t, role, codes) ==
  /\ codes # {} /\ codes \subseteq CodesOf(db["perms"], Ids(db["perms"]))
  /\ Replace(t, "grants", role[1], IdsOf(db["perms"], codes), codes)

\* revokeRoleFromUser and revokePermissionFromRole.
Revoke(t, table, row) ==
  /\ row \in db[table]
  /\ row[2] \in Ids(db[IF table = "holds" THEN "roles" ELSE "perms"])
  /\ table = "grants" => row[1] \in Ids(db["roles"])
  /\ Begin(t, [table |-> "none"], Nothing, [Nothing EXCEPT ![table] = {row}])
  /\ UNCHANGED nextId

\* createRole and createPermission.
Create(t, table, code) ==
  /\ code \notin CodesOf(db[table], Ids(db[table]))
  /\ nextId <= MaxIds
  /\ Begin(t, [table |-> "none"], [Nothing EXCEPT ![table] = {<<nextId, code>>}], Nothing)
  /\ nextId' = nextId + 1

\* Faulty: does not ask who holds the role.
DeleteRoleOfHolders(t, role) ==
  /\ role \in db["roles"] \ Builtin
  /\ Begin(t, [table |-> "none"], Nothing,
           [Nothing EXCEPT !["roles"] = {role}, !["grants"] = {g \in db["grants"] : g[1] = role[1]}])
  /\ UNCHANGED nextId

\* A custom role that nobody holds, with its permissions.
DeleteRole(t, role) ==
  /\ role \in db["roles"] \ Builtin
  /\ \A h \in db["holds"] : h[2] # role[1]
  /\ Begin(t, [table |-> "none"], Nothing,
           [Nothing EXCEPT !["roles"] = {role}, !["grants"] = {g \in db["grants"] : g[1] = role[1]}])
  /\ UNCHANGED nextId

DeletePermission(t, perm) ==
  /\ perm \in db["perms"] \ Builtin
  /\ \A g \in db["grants"] : g[2] # perm[1]
  /\ Begin(t, [table |-> "none"], Nothing, [Nothing EXCEPT !["perms"] = {perm}])
  /\ UNCHANGED nextId

\* RbacBootstrapRunner of an instance that starts: what is missing of the
\* built-in grants, of the default role, and a super administrator.
Bootstrap(t) ==
  /\ Begin(t, [table |-> "none"],
           [Nothing EXCEPT
              !["grants"] = BuiltinGrants \ db["grants"],
              !["holds"] = ({<<u, 1>> : u \in Users} \ db["holds"])
                 \cup (IF \E h \in db["holds"] : h[2] = 2 THEN {} ELSE {<<First, 2>>})],
           Nothing)
  /\ UNCHANGED nextId

-----------------------------------------------------------------------------
(* The end of a transaction.                                               *)

\* Faulty: codes are not unique.
DuplicateRow(j) == \E t \in Tables : j.adds[t] \cap db[t] # {}

\* A unique key is taken: a code, or the pair of a binding.
Duplicate(j) ==
  \/ \E t \in {"roles", "perms"} : \E new \in j.adds[t], old \in db[t] : new[2] = old[2]
  \/ \E t \in {"holds", "grants"} : j.adds[t] \cap db[t] # {}

\* k changes what j, a replacement, is about.
Disturbs(k, j) ==
  j.op.table # "none" =>
    \/ \E row \in k.adds[j.op.table] \cup k.drops[j.op.table] : row[1] = j.op.of
    \/ Deleted(k) \cap (j.op.wanted \cup {j.op.of}) # {}

Commit(t) ==
  /\ job[t] # Idle /\ ~job[t].gone /\ ~Duplicate(job[t])
  /\ LET k == job[t]
         Meets(j) == [j EXCEPT !.gone = @ \/ \E x \in Tables : j.drops[x] \cap k.drops[x] # {},
                               !.alone = @ /\ ~Disturbs(k, j)]
     IN /\ db' = [x \in Tables |-> (db[x] \ k.drops[x]) \cup k.adds[x]]
        /\ job' = [s \in Threads |-> IF s = t \/ job[s] = Idle THEN Idle ELSE Meets(job[s])]
  /\ UNCHANGED <<nextId, begun, crossed>>

\* A conflict, a deadlock of the database, a lost connection.
RollBack(t) ==
  /\ job[t] # Idle
  /\ job' = [job EXCEPT ![t] = Idle]
  /\ UNCHANGED <<db, nextId, begun, crossed>>

Operation(t) ==
  \/ \E u \in Users, codes \in SUBSET CodesOf(db["roles"], Ids(db["roles"])) : AssignRolesToUser(t, u, codes)
  \/ \E role \in db["roles"], codes \in SUBSET CodesOf(db["perms"], Ids(db["perms"])) :
       AssignPermissionsToRole(t, role, codes)
  \/ \E table \in {"holds", "grants"} : \E row \in db[table] : Revoke(t, table, row)
  \/ \E code \in RoleCodes : Create(t, "roles", code)
  \/ \E code \in PermCodes : Create(t, "perms", code)
  \/ \E role \in db["roles"] : DeleteRole(t, role)
  \/ \E perm \in db["perms"] : DeletePermission(t, perm)
  \/ Bootstrap(t)

Next == \E t \in Threads : Operation(t) \/ Commit(t) \/ RollBack(t)

Spec == Init /\ [][Next]_vars

-----------------------------------------------------------------------------
(* What the service answers.                                               *)

\* getRoleCodesByUserId, which leaves out roles that are not there.
RolesOf(u) == CodesOf(db["roles"], {h[2] : h \in {x \in db["holds"] : x[1] = u}})

\* getRolePermissionCodesByRoleId.
PermissionsOf(role) == CodesOf(db["perms"], {g[2] : g \in {x \in db["grants"] : x[1] = role}})

\* getPermissionCodesByUserId, which does not look whether the role is there.
Permissions(u) == UNION {PermissionsOf(h[2]) : h \in {x \in db["holds"] : x[1] = u}}

-----------------------------------------------------------------------------
(* Properties.                                                             *)

\* Type correctness; ids and codes name one role or permission at most, however
\* many threads create them at the same time.
TypeOK ==
  /\ DOMAIN db = Tables
  /\ db["roles"] \cup db["perms"] \subseteq (1..MaxIds) \X (RoleCodes \cup PermCodes \cup {b[2] : b \in Builtin})
  /\ \A t \in {"roles", "perms"} : \A x \in db[t], y \in db[t] : x[1] = y[1] <=> x[2] = y[2]
  /\ Builtin \subseteq db["roles"] \cup db["perms"]
  /\ db["holds"] \subseteq Users \X (1..MaxIds) /\ db["grants"] \subseteq (1..MaxIds) \X (1..MaxIds)
  /\ nextId \in 1..(MaxIds + 1) /\ begun \in 0..Budget /\ crossed \subseteq 1..MaxIds

\* Bindings refer to roles and permissions that are there, so that what a user
\* may do follows from the roles the user is shown, and a role that is created
\* again under its old code starts with nothing.  The exception is a deletion
\* that was under way together with a binding of what it deletes.
BindingsRefer ==
  /\ \A h \in db["holds"] : h[2] \in Ids(db["roles"]) \cup crossed
  /\ \A g \in db["grants"] : /\ g[1] \in Ids(db["roles"]) \cup crossed
                             /\ g[2] \in Ids(db["perms"]) \cup crossed
  /\ \A u \in Users :
       (\A h \in db["holds"] : h[1] = u => h[2] \notin crossed) =>
         Permissions(u) = UNION {PermissionsOf(r) : r \in IdsOf(db["roles"], RolesOf(u))}

\* A replacement is exact: unless another transaction changed the same user or
\* role and committed in between, the user has the roles, or the role the
\* permissions, that were asked for, and no others.
AssignmentsExact ==
  [][\A t \in Threads : \A j \in {job[t]} :
       Commit(t) /\ j.op.table # "none" /\ j.alone =>
         j.op.codes = IF j.op.table = "holds" THEN RolesOf(j.op.of)' ELSE PermissionsOf(j.op.of)']_vars
=============================================================================
