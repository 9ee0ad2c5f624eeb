-------------------------- MODULE RegistrationProofs --------------------------
(***************************************************************************)
(* One automatic super administrator, complete accounts, codes that stay   *)
(* valid and ratings that agree, for any number of instances, threads,     *)
(* addresses and codes.  What a thread or a runner took from the database  *)
(* may be old when it is used; the invariant says what of it still holds   *)
(* then: accounts, members and the built-in roles are never taken away, so *)
(* that whoever saw them may rely on them.  Bindings are taken away:       *)
(* RatingsInv says what a change of a rating leaves behind when it meets   *)
(* another one.                                                            *)
(***************************************************************************)
EXTENDS Registration, FiniteSetTheorems, TLAPS

-----------------------------------------------------------------------------
(* Types, for every phase of a thread and of an instance.                  *)

Views == [ready : BOOLEAN, first : BOOLEAN]

Jobs ==
  [phase : {"idle"}]
    \cup [phase : {"mail"}, on : Instances, email : Emails, code : Nat, overtaken : BOOLEAN]
    \cup [phase : {"lookup", "consume", "create"}, on : Instances, email : Emails, code : Nat,
          overtaken : BOOLEAN, view : Views]
    \cup [phase : {"insert", "roles", "commit"}, on : Instances, email : Emails, code : Nat,
          view : Views, cid : Cids]
    \cup [phase : {"save", "update", "store"}, on : Instances, cid : Cids, rating : Ratings,
          bound : BOOLEAN, gone : BOOLEAN, alone : BOOLEAN]
    \cup [phase : {"bind"}, on : Instances, cid : Cids, admin : BOOLEAN]

Boots ==
  [phase : {"down", "between", "up"}]
    \cup [phase : {"system"}, missing : BOOLEAN]
    \cup [phase : {"rbac"}, view : [users : SUBSET Cids, ready : BOOLEAN, members : SUBSET Cids,
                                    admins : SUBSET Cids, bound : SUBSET Cids]]

JobsFit == job \in [Requests -> Jobs]
BootsFit == boot \in [Instances -> Boots]

TablesFit ==
  /\ remote \in [Cids -> Ratings \cup {None}]
  /\ users \in [Cids -> Emails \cup {AdminEmail, None}]
  /\ \A c \in Cids \ {DefaultUser} : users[c] # AdminEmail
  /\ ready \in BOOLEAN /\ members \subseteq Cids /\ admins \subseteq Cids
  /\ binding \in [Cids -> Ratings \cup {None}]
  /\ late \subseteq Cids \X Ratings /\ drift \subseteq Cids
  /\ proof \in [Cids -> Nat \cup {None}]

\* Codes are numbered, and stored under the address they were drawn for.
CodesFit ==
  /\ code \in [Emails -> Nat \cup {None}]
  /\ \E n \in Nat : issuedFor \in [1..n -> Emails]
  /\ \A e \in Emails : code[e] # None => code[e] \in Codes /\ issuedFor[code[e]] = e

-----------------------------------------------------------------------------
(* What may still be relied on.                                            *)

\* Nobody sees both the built-in roles and no accounts.
RolesAfterUsers ==
  /\ ready => users[DefaultUser] # None
  /\ \A i \in Instances :
       /\ boot[i].phase = "system" /\ ~boot[i].missing => users[DefaultUser] # None
       /\ boot[i].phase \in {"between", "rbac", "up"} => users[DefaultUser] # None
       /\ boot[i].phase = "rbac" => DefaultUser \in boot[i].view.users
  /\ \A r \in Requests :
       /\ job[r].phase \in {"lookup", "consume", "create", "insert", "roles"} =>
            ~(job[r].view.ready /\ job[r].view.first)
       /\ job[r].phase = "commit" => ~job[r].view.first

\* Accounts and members that were seen are still there.
SeenStays ==
  /\ members \subseteq Accounts /\ admins \subseteq members
  /\ \A c \in Cids : binding[c] # None => c \in Accounts
  /\ \A i \in Instances : boot[i].phase = "rbac" =>
       boot[i].view.users \subseteq Accounts /\ boot[i].view.members \subseteq members
  /\ \A r \in Requests : job[r].phase \in {"save", "update", "store", "bind"} => job[r].cid \in Accounts

\* The code a thread carries was drawn, and once looked up, for its address.
CodesPresented ==
  \A r \in Requests :
    /\ job[r].phase \in {"mail", "lookup", "consume", "create", "insert", "roles", "commit"} =>
         job[r].code \in Codes
    /\ job[r].phase \in {"consume", "create", "insert", "roles", "commit"} =>
         issuedFor[job[r].code] = job[r].email

\* A transaction that has inserted an account is the only one with its address.
AddressesHeld ==
  \A r \in Requests : job[r].phase \in {"roles", "commit"} =>
    /\ job[r].email \notin Taken
    /\ \A s \in Requests \ {r} : ~Holds(s, job[r].email)

\* Accounts of the FSD server are there before those of the platform.
RemoteFirst ==
  /\ remote[DefaultUser] # None
  /\ \A r \in Requests : job[r].phase \in {"insert", "roles", "commit"} => remote[job[r].cid] # None

Fits == JobsFit /\ BootsFit /\ TablesFit /\ CodesFit

RInv ==
  /\ Fits /\ RolesAfterUsers /\ SeenStays /\ CodesPresented /\ AddressesHeld /\ RemoteFirst
  /\ OneAutomaticAdmin /\ AccountsComplete
-----------------------------------------------------------------------------
(* Threads: what a step leaves of what they carry.                         *)

\* A thread that goes on carries on what it had.
LEMMA GoesOn ==
  ASSUME JobsFit, NEW r \in Requests, NEW p, Goto(r, p)
  PROVE  /\ \A s \in Requests \ {r} : job'[s] = job[s]
         /\ job'[r].phase = p
         /\ job[r].phase \in {"lookup", "consume", "create", "insert", "roles", "commit"} =>
              /\ job'[r].email = job[r].email /\ job'[r].code = job[r].code /\ job'[r].view = job[r].view
              /\ job[r].phase \in {"insert", "roles", "commit"} => job'[r].cid = job[r].cid
              /\ "email" \in DOMAIN job[r] /\ DOMAIN job'[r] = DOMAIN job[r]
         /\ job[r].phase \in {"save", "update", "store"} =>
              job'[r].cid = job[r].cid /\ job'[r].rating = job[r].rating
<1> USE DEF Goto, JobsFit
<1>1. \A s \in Requests \ {r} : job'[s] = job[s]
  OBVIOUS
<1>2. job'[r] = [job[r] EXCEPT !.phase = p] /\ job[r] \in Jobs
  OBVIOUS
<1>3. job'[r].phase = p
  OBVIOUS
<1>4. CASE job[r].phase \in {"lookup", "consume", "create"}
  <2>1. job[r] \in [phase : {"lookup", "consume", "create"}, on : Instances, email : Emails, code : Nat,
                    overtaken : BOOLEAN, view : Views]
    BY <1>4 DEF Jobs
  <2> QED BY <1>1, <1>2, <1>3, <1>4, <2>1
<1>5. CASE job[r].phase \in {"insert", "roles", "commit"}
  <2>1. job[r] \in [phase : {"insert", "roles", "commit"}, on : Instances, email : Emails, code : Nat,
                    view : Views, cid : Cids]
    BY <1>5 DEF Jobs
  <2> QED BY <1>1, <1>2, <1>3, <1>5, <2>1
<1>6. CASE job[r].phase \in {"save", "update", "store"}
  <2>1. job[r] \in [phase : {"save", "update", "store"}, on : Instances, cid : Cids, rating : Ratings,
                    bound : BOOLEAN, gone : BOOLEAN, alone : BOOLEAN]
    BY <1>6 DEF Jobs
  <2> QED BY <1>1, <1>2, <1>3, <1>6, <2>1
<1> QED BY <1>1, <1>3, <1>4, <1>5, <1>6

\* A thread that returns carries nothing.
LEMMA GivesBack ==
  ASSUME JobsFit, NEW r \in Requests, Return(r)
  PROVE  /\ \A s \in Requests \ {r} : job'[s] = job[s]
         /\ job'[r].phase = "idle" /\ job'[r] = Idle
  BY DEF Return, JobsFit, Idle

\* An instance that gives up takes its threads with it.
LEMMA GaveUp ==
  ASSUME JobsFit, BootsFit, TablesFit, NEW i \in Instances, GivesUp(i)
  PROVE  /\ \A s \in Requests : job'[s] = job[s] \/ (job'[s] = Idle /\ job'[s].phase = "idle")
         /\ \A k \in Instances \ {i} : boot'[k] = boot[k]
         /\ boot'[i].phase = "down"
         /\ drift' \subseteq Cids
<1>1. \A s \in Requests : job[s].phase = "store" => job[s].cid \in Cids
  BY DEF JobsFit, Jobs
<1>2. drift' \subseteq Cids
  BY <1>1 DEF GivesUp, TablesFit, At
<1> QED BY <1>2 DEF GivesUp, BootsFit, Idle, Down

\* Whoever is told that another changes the same account is still the same thread.
LEMMA MarkedFits ==
  ASSUME JobsFit, NEW s \in Requests, job[s].phase \in {"save", "update", "store"}
  PROVE  [job[s] EXCEPT !.alone = FALSE] \in Jobs /\ [job[s] EXCEPT !.gone = TRUE] \in Jobs
<1>1. job[s] \in [phase : {"save", "update", "store"}, on : Instances, cid : Cids, rating : Ratings,
                  bound : BOOLEAN, gone : BOOLEAN, alone : BOOLEAN]
  BY DEF JobsFit, Jobs
<1>2. /\ [job[s] EXCEPT !.alone = FALSE] \in [phase : {"save", "update", "store"}, on : Instances, cid : Cids,
                  rating : Ratings, bound : BOOLEAN, gone : BOOLEAN, alone : BOOLEAN]
      /\ [job[s] EXCEPT !.gone = TRUE] \in [phase : {"save", "update", "store"}, on : Instances, cid : Cids,
                  rating : Ratings, bound : BOOLEAN, gone : BOOLEAN, alone : BOOLEAN]
  BY <1>1
<1> QED BY <1>2 DEF Jobs

\* The same of a thread that deletes codes.
LEMMA OvertakenFits ==
  ASSUME JobsFit, NEW s \in Requests, job[s].phase \in {"mail", "consume"}
  PROVE  [job[s] EXCEPT !.overtaken = TRUE] \in Jobs
<1>1. CASE job[s].phase = "mail"
  <2>1. job[s] \in [phase : {"mail"}, on : Instances, email : Emails, code : Nat, overtaken : BOOLEAN]
    BY <1>1 DEF JobsFit, Jobs
  <2>2. [job[s] EXCEPT !.overtaken = TRUE] \in
          [phase : {"mail"}, on : Instances, email : Emails, code : Nat, overtaken : BOOLEAN]
    BY <2>1
  <2> QED BY <2>2 DEF Jobs
<1>2. CASE job[s].phase = "consume"
  <2>1. job[s] \in [phase : {"lookup", "consume", "create"}, on : Instances, email : Emails, code : Nat,
                    overtaken : BOOLEAN, view : Views]
    BY <1>2 DEF JobsFit, Jobs
  <2>2. [job[s] EXCEPT !.overtaken = TRUE] \in
          [phase : {"lookup", "consume", "create"}, on : Instances, email : Emails, code : Nat,
           overtaken : BOOLEAN, view : Views]
    BY <2>1
  <2> QED BY <2>2 DEF Jobs
<1> QED BY <1>1, <1>2

\* The first of the accounts is the default user.
LEMMA FirstIsDefault ==
  ASSUME NEW S \in SUBSET Cids, DefaultUser \in S
  PROVE  (CHOOSE c \in S : \A d \in S : c <= d) = DefaultUser
<1>1. \A d \in S : DefaultUser <= d /\ d \in Int
  BY DEF Cids, DefaultUser
<1>2. \A c \in S : (\A d \in S : c <= d) => c = DefaultUser
  BY <1>1
<1> QED BY <1>1, <1>2

\* The next code is a new one.
LEMMA NextCode ==
  ASSUME CodesFit
  PROVE  \E n \in Nat : /\ issuedFor \in [1..n -> Emails] /\ Codes = 1..n
                       /\ Cardinality(Codes) + 1 = n + 1
<1>1. PICK n \in Nat : issuedFor \in [1..n -> Emails]
  BY DEF CodesFit
<1>2. Codes = 1..n
  BY <1>1 DEF Codes
<1>3. Cardinality(1..n) = n
  BY FS_Interval
<1> QED BY <1>1, <1>2, <1>3

-----------------------------------------------------------------------------
(* Every step preserves it.                                                *)

\* An instance starts.
LEMMA StartKeeps ==
  ASSUME RInv, NEW i \in Instances, Start(i)
  PROVE  RInv'
<1> USE RegistrationAssumption DEF RInv, Fits, JobsFit, BootsFit, dbVars, At, Goto, Return, Idle, Down, Accounts, Cids, DefaultUser
<1>1. JobsFit'
  BY DEF Start
<1>2. BootsFit'
  BY DEF Start, Boots
<1>3. TablesFit'
  BY DEF Start, TablesFit
<1>4. CodesFit'
  BY DEF Start, CodesFit, Codes
<1>5. RolesAfterUsers'
  BY DEF Start, RolesAfterUsers
<1>6. SeenStays'
  BY DEF Start, SeenStays
<1>7. CodesPresented'
  BY DEF Start, CodesPresented, Codes
<1>8. AddressesHeld'
  BY DEF Start, AddressesHeld, Taken, Holds, Same
<1>9. RemoteFirst'
  BY DEF Start, RemoteFirst
<1>10. OneAutomaticAdmin'
  BY DEF Start, OneAutomaticAdmin
<1>11. AccountsComplete'
  BY DEF Start, AccountsComplete, Codes
<1> QED BY <1>1, <1>2, <1>3, <1>4, <1>5, <1>6, <1>7, <1>8, <1>9, <1>10, <1>11

\* The default user is inserted, or the instance gives up.
LEMMA SystemBootstrapKeeps ==
  ASSUME RInv, NEW i \in Instances, SystemBootstrap(i)
  PROVE  RInv'
<1> USE RegistrationAssumption DEF RInv, Fits, JobsFit, BootsFit, dbVars, At, Goto, Return, Idle, Down, Accounts, Cids, DefaultUser
<1>a. /\ boot[i].phase = "system"
      /\ UNCHANGED <<code, issuedFor, remote, ready, members, admins, binding, late, proof>>
      /\ \/ GivesUp(i) /\ UNCHANGED users
         \/ /\ boot' = [boot EXCEPT ![i] = [phase |-> "between"]]
            /\ UNCHANGED <<job, drift>>
            /\ \/ ~boot[i].missing /\ UNCHANGED users
               \/ users[DefaultUser] = None /\ users' = [users EXCEPT ![DefaultUser] = AdminEmail]
  BY DEF SystemBootstrap
<1>b. /\ \A s \in Requests : job'[s] = job[s] \/ job'[s].phase = "idle"
      /\ \A k \in Instances \ {i} : boot'[k] = boot[k]
      /\ boot'[i].phase \in {"down", "between"}
      /\ drift' \subseteq Cids
  <2>1. CASE GivesUp(i)
    BY <2>1, GaveUp
  <2>2. CASE boot' = [boot EXCEPT ![i] = [phase |-> "between"]] /\ UNCHANGED <<job, drift>>
    BY <2>2 DEF TablesFit
  <2> QED BY <1>a, <2>1, <2>2
<1>c. \/ users' = users
      \/ users[DefaultUser] = None /\ users' = [users EXCEPT ![DefaultUser] = AdminEmail]
  BY <1>a
<1>d. boot'[i].phase = "between" => users'[DefaultUser] # None
  <2>1. CASE GivesUp(i)
    BY <2>1, GaveUp
  <2>2. CASE ~boot[i].missing /\ UNCHANGED users
    BY <1>a, <2>2 DEF RolesAfterUsers
  <2>3. CASE users' = [users EXCEPT ![DefaultUser] = AdminEmail]
    BY <2>3 DEF TablesFit
  <2> QED BY <1>a, <2>1, <2>2, <2>3
<1>e. /\ users' \in [Cids -> Emails \cup {AdminEmail, None}]
      /\ \A c \in Cids : users'[c] = users[c] \/ (c = DefaultUser /\ users[c] = None /\ users'[c] = AdminEmail)
  BY <1>c DEF TablesFit
<1>1. JobsFit'
  BY DEF SystemBootstrap, GivesUp, Jobs
<1>2. BootsFit'
  <2>1. \/ boot' = [boot EXCEPT ![i] = Down]
        \/ boot' = [boot EXCEPT ![i] = [phase |-> "between"]]
    BY <1>a DEF GivesUp
  <2> QED BY <2>1 DEF Boots
<1>3. TablesFit'
  BY <1>a, <1>b DEF TablesFit
<1>4. CodesFit'
  BY DEF SystemBootstrap, CodesFit, Codes
<1>5. RolesAfterUsers'
  BY <1>a, <1>b, <1>d DEF RolesAfterUsers
<1>6. SeenStays'
  BY <1>a, <1>b, <1>e DEF SeenStays
<1>7. CodesPresented'
  BY DEF SystemBootstrap, GivesUp, CodesPresented, Codes
<1>8. AddressesHeld'
  <2>1. \A e \in Emails : e \in Taken' => e \in Taken
    BY <1>e DEF Taken
  <2>2. \A s \in Requests : job[s].phase \in {"roles", "commit"} => job[s].email \in Emails
    BY DEF Jobs
  <2> QED BY <1>b, <2>1, <2>2 DEF AddressesHeld, Holds, Same
<1>9. RemoteFirst'
  BY <1>a, <1>b DEF RemoteFirst
<1>10. OneAutomaticAdmin'
  BY DEF SystemBootstrap, OneAutomaticAdmin
<1>11. AccountsComplete'
  <2>1. \A c \in Cids \ {DefaultUser} : users[c] # AdminEmail
    BY DEF TablesFit
  <2> QED BY <1>a, <1>e, <2>1 DEF AccountsComplete, RemoteFirst, Codes
<1> QED BY <1>1, <1>2, <1>3, <1>4, <1>5, <1>6, <1>7, <1>8, <1>9, <1>10, <1>11

\* A runner takes its snapshot.
LEMMA RbacBeginsKeeps ==
  ASSUME RInv, NEW i \in Instances, RbacBegins(i)
  PROVE  RInv'
<1> USE RegistrationAssumption DEF RInv, Fits, JobsFit, BootsFit, dbVars, At, Goto, Return, Idle, Down, Accounts, Cids, DefaultUser
<1>1. JobsFit'
  BY DEF RbacBegins
<1>2. BootsFit'
  BY DEF RbacBegins, Boots, TablesFit
<1>3. TablesFit'
  BY DEF RbacBegins, TablesFit
<1>4. CodesFit'
  BY DEF RbacBegins, CodesFit, Codes
<1>5. RolesAfterUsers'
  BY DEF RbacBegins, RolesAfterUsers
<1>6. SeenStays'
  BY DEF RbacBegins, SeenStays
<1>7. CodesPresented'
  BY DEF RbacBegins, CodesPresented, Codes
<1>8. AddressesHeld'
  BY DEF RbacBegins, AddressesHeld, Taken, Holds, Same
<1>9. RemoteFirst'
  BY DEF RbacBegins, RemoteFirst
<1>10. OneAutomaticAdmin'
  BY DEF RbacBegins, OneAutomaticAdmin
<1>11. AccountsComplete'
  BY DEF RbacBegins, AccountsComplete, Codes
<1> QED BY <1>1, <1>2, <1>3, <1>4, <1>5, <1>6, <1>7, <1>8, <1>9, <1>10, <1>11

\* The snapshot may be old, but what it saw is still there.
LEMMA RbacBootstrapKeeps ==
  ASSUME RInv, NEW i \in Instances, RbacBootstrap(i)
  PROVE  RInv'
<1> USE RegistrationAssumption DEF RInv, Fits, JobsFit, BootsFit, dbVars, At, Goto, Return, Idle, Down, Accounts, Cids, DefaultUser
<1> DEFINE v == boot[i].view
<1>a. /\ boot[i].phase = "rbac"
      /\ UNCHANGED <<code, issuedFor, remote, users, late, proof>>
      /\ \/ GivesUp(i) /\ UNCHANGED <<ready, members, admins, binding>>
         \/ /\ boot' = [boot EXCEPT ![i] = [phase |-> "up"]] /\ UNCHANGED <<job, drift>>
            /\ ready' = TRUE
            /\ members' = members \cup (v.users \ v.members)
            /\ admins' \in {admins, admins \cup {CHOOSE c \in v.users : \A d \in v.users : c <= d}}
            /\ \E S \in SUBSET v.users : \E w \in [Cids -> Ratings] :
                 binding' = [c \in Cids |-> IF c \notin S THEN binding[c] ELSE w[c]]
  <2>1. CASE GivesUp(i) /\ UNCHANGED <<ready, members, admins, binding>>
    BY <2>1 DEF RbacBootstrap
  <2>2. CASE ~(GivesUp(i) /\ UNCHANGED <<ready, members, admins, binding>>)
    <3> DEFINE newAdmins == IF v.admins = {} /\ v.users # {}
                              THEN {CHOOSE c \in v.users : \A d \in v.users : c <= d} ELSE {}
               S == v.users \ v.bound
               w == [c \in Cids |-> IF c \in v.admins \cup newAdmins THEN Administrator ELSE Observer]
    <3>1. /\ boot' = [boot EXCEPT ![i] = [phase |-> "up"]] /\ UNCHANGED <<job, drift>>
          /\ ready' = TRUE /\ members' = members \cup (v.users \ v.members)
          /\ admins' = admins \cup newAdmins
          /\ binding' = [c \in Cids |-> IF c \notin S THEN binding[c]
                          ELSE IF c \in v.admins \cup newAdmins THEN Administrator ELSE Observer]
      BY <2>2 DEF RbacBootstrap, NewMembers
    <3>2. w \in [Cids -> Ratings] /\ S \in SUBSET v.users
      OBVIOUS
    <3>3. binding' = [c \in Cids |-> IF c \notin S THEN binding[c] ELSE w[c]]
      BY <3>1
    <3>4. admins' \in {admins, admins \cup {CHOOSE c \in v.users : \A d \in v.users : c <= d}}
      BY <3>1
    <3>5. boot[i].phase = "rbac" /\ UNCHANGED <<code, issuedFor, remote, users, late, proof>>
      BY DEF RbacBootstrap
    <3> HIDE DEF w, S, newAdmins
    <3>6. \E T \in SUBSET v.users : \E u \in [Cids -> Ratings] :
            binding' = [c \in Cids |-> IF c \notin T THEN binding[c] ELSE u[c]]
      BY <3>2, <3>3 DEF Cids
    <3> QED BY <3>1, <3>4, <3>5, <3>6
  <2> QED BY <2>1, <2>2
<1>b. /\ v.users \subseteq Accounts /\ v.members \subseteq members /\ DefaultUser \in v.users
      /\ users[DefaultUser] # None
  BY <1>a DEF SeenStays, RolesAfterUsers
<1>c. /\ \A s \in Requests : job'[s] = job[s] \/ job'[s].phase = "idle"
      /\ \A k \in Instances \ {i} : boot'[k] = boot[k]
      /\ boot'[i].phase \in {"down", "up"}
      /\ drift' \subseteq Cids
  <2>1. CASE GivesUp(i)
    BY <2>1, GaveUp
  <2>2. CASE boot' = [boot EXCEPT ![i] = [phase |-> "up"]] /\ UNCHANGED <<job, drift>>
    BY <2>2 DEF TablesFit
  <2> QED BY <1>a, <2>1, <2>2
<1>d. /\ members \subseteq members' /\ members' \subseteq members \cup v.users
      /\ admins' = admins \/ (admins' = admins \cup {DefaultUser} /\ DefaultUser \in members')
      /\ ready' \in BOOLEAN
  <2>1. CASE UNCHANGED <<ready, members, admins>>
    BY <2>1 DEF TablesFit
  <2>2. CASE /\ ready' = TRUE /\ members' = members \cup (v.users \ v.members)
             /\ admins' \in {admins, admins \cup {CHOOSE c \in v.users : \A d \in v.users : c <= d}}
    <3>1. v.users \subseteq Cids
      BY <1>b
    <3>2. (CHOOSE c \in v.users : \A d \in v.users : c <= d) = DefaultUser
      BY <1>b, <3>1, FirstIsDefault
    <3>3. DefaultUser \in members'
      BY <1>b, <2>2
    <3> QED BY <2>2, <3>2, <3>3
  <2> QED BY <1>a, <2>1, <2>2
<1>e. /\ binding' \in [Cids -> Ratings \cup {None}]
      /\ \A c \in Cids : binding'[c] # None => binding[c] # None \/ c \in v.users
  BY <1>a DEF TablesFit
<1>1. JobsFit'
  <2>1. UNCHANGED job \/ GivesUp(i)
    BY <1>a
  <2> QED BY <2>1 DEF GivesUp, Jobs
<1>2. BootsFit'
  <2>1. \/ boot' = [boot EXCEPT ![i] = Down]
        \/ boot' = [boot EXCEPT ![i] = [phase |-> "up"]]
    BY <1>a DEF GivesUp
  <2> QED BY <2>1 DEF Boots
<1>3. TablesFit'
  <2>1. UNCHANGED <<remote, users, late, proof>>
    BY <1>a
  <2>2. members' \subseteq Cids /\ admins' \subseteq Cids
    BY <1>b, <1>d DEF TablesFit
  <2> QED BY <1>c, <1>d, <1>e, <2>1, <2>2 DEF TablesFit
<1>4. CodesFit'
  BY DEF RbacBootstrap, CodesFit, Codes
<1>5. RolesAfterUsers'
  BY <1>a, <1>c DEF RolesAfterUsers
<1>6. SeenStays'
  BY <1>a, <1>b, <1>c DEF SeenStays
<1>7. CodesPresented'
  <2>1. UNCHANGED issuedFor
    BY <1>a
  <2> QED BY <1>c, <2>1 DEF CodesPresented, Codes
<1>8. AddressesHeld'
  BY <1>a, <1>c DEF AddressesHeld, Taken, Holds, Same
<1>9. RemoteFirst'
  BY <1>a, <1>c DEF RemoteFirst
<1>10. OneAutomaticAdmin'
  BY <1>d DEF OneAutomaticAdmin
<1>11. AccountsComplete'
  BY DEF RbacBootstrap, AccountsComplete, Codes
<1> QED BY <1>1, <1>2, <1>3, <1>4, <1>5, <1>6, <1>7, <1>8, <1>9, <1>10, <1>11

\* An instance stops.
LEMMA CrashKeeps ==
  ASSUME RInv, NEW i \in Instances, Crash(i)
  PROVE  RInv'
<1> USE RegistrationAssumption DEF RInv, Fits, JobsFit, BootsFit, dbVars, At, Goto, Return, Idle, Down, Accounts, Cids, DefaultUser
<1>1. JobsFit'
  BY DEF Crash, GivesUp, Jobs
<1>2. BootsFit'
  BY DEF Crash, GivesUp, Boots
<1>3. TablesFit'
  BY GaveUp DEF Crash, TablesFit
<1>4. CodesFit'
  BY DEF Crash, CodesFit, Codes
<1>5. RolesAfterUsers'
  BY DEF Crash, GivesUp, RolesAfterUsers
<1>6. SeenStays'
  BY DEF Crash, GivesUp, SeenStays
<1>7. CodesPresented'
  BY DEF Crash, GivesUp, CodesPresented, Codes
<1>8. AddressesHeld'
  BY DEF Crash, GivesUp, Same, AddressesHeld, Taken, Holds, Same
<1>9. RemoteFirst'
  BY DEF Crash, GivesUp, RemoteFirst
<1>10. OneAutomaticAdmin'
  BY DEF Crash, OneAutomaticAdmin
<1>11. AccountsComplete'
  BY DEF Crash, AccountsComplete, Codes
<1> QED BY <1>1, <1>2, <1>3, <1>4, <1>5, <1>6, <1>7, <1>8, <1>9, <1>10, <1>11

\* A new code is drawn.
LEMMA SendEmailCodeKeeps ==
  ASSUME RInv, NEW r \in Requests, NEW i \in Instances, NEW e \in Emails, SendEmailCode(r, i, e)
  PROVE  RInv'
<1> USE RegistrationAssumption DEF RInv, Fits, JobsFit, BootsFit, dbVars, At, Goto, Return, Idle, Down, Accounts, Cids, DefaultUser
<1>a. PICK n \in Nat : /\ issuedFor \in [1..n -> Emails] /\ Codes = 1..n
                     /\ Cardinality(Codes) + 1 = n + 1
  BY NextCode
<1>b. /\ code' = [code EXCEPT ![e] = n + 1]
      /\ issuedFor' = [d \in 1..n \cup {n + 1} |-> IF d = n + 1 THEN e ELSE issuedFor[d]]
      /\ job[r].phase = "idle"
      /\ job'[r] = [phase |-> "mail", on |-> i, email |-> e, code |-> n + 1, overtaken |-> FALSE]
      /\ \A t \in Requests \ {r} :
           \/ job'[t] = job[t]
           \/ job[t].phase \in {"mail", "consume"} /\ job'[t] = [job[t] EXCEPT !.overtaken = TRUE]
      /\ job' \in [Requests -> {job'[t] : t \in Requests}]
      /\ UNCHANGED <<remote, users, members, proof>>
  BY <1>a DEF SendEmailCode, Arrives
<1>c. issuedFor' \in [1..(n + 1) -> Emails] /\ Codes' = 1..(n + 1) /\ issuedFor'[n + 1] = e
  <2>1. 1..n \cup {n + 1} = 1..(n + 1)
    OBVIOUS
  <2> QED BY <1>a, <1>b, <2>1 DEF Codes
<1>d. \A d \in Codes : d \in Codes' /\ issuedFor'[d] = issuedFor[d] /\ d # n + 1
  BY <1>a, <1>b, <1>c
<1>e. \A t \in Requests \ {r} :
        /\ job'[t] \in Jobs /\ job'[t].phase = job[t].phase
        /\ job[t].phase \in {"mail", "lookup", "consume", "create", "insert", "roles", "commit"} =>
             job'[t].code = job[t].code /\ job'[t].email = job[t].email
  <2> SUFFICES ASSUME NEW t \in Requests \ {r}
               PROVE  /\ job'[t] \in Jobs /\ job'[t].phase = job[t].phase
                      /\ job[t].phase \in {"mail", "lookup", "consume", "create", "insert", "roles", "commit"} =>
                           job'[t].code = job[t].code /\ job'[t].email = job[t].email
    OBVIOUS
  <2>1. CASE job'[t] = job[t]
    BY <2>1
  <2>2. CASE job[t].phase = "mail" /\ job'[t] = [job[t] EXCEPT !.overtaken = TRUE]
    <3>1. job[t] \in [phase : {"mail"}, on : Instances, email : Emails, code : Nat, overtaken : BOOLEAN]
      BY <2>2 DEF Jobs
    <3>2. job'[t] \in Jobs
      BY <2>2, OvertakenFits
    <3> QED BY <2>2, <3>1, <3>2
  <2>3. CASE job[t].phase = "consume" /\ job'[t] = [job[t] EXCEPT !.overtaken = TRUE]
    <3>1. job[t] \in [phase : {"lookup", "consume", "create"}, on : Instances, email : Emails, code : Nat,
                      overtaken : BOOLEAN, view : Views]
      BY <2>3 DEF Jobs
    <3>2. job'[t] \in Jobs
      BY <2>3, OvertakenFits
    <3> QED BY <2>3, <3>1, <3>2
  <2> QED BY <1>b, <2>1, <2>2, <2>3
<1>1. JobsFit'
  <2>1. job'[r] \in Jobs
    BY <1>b DEF Jobs
  <2> QED BY <1>b, <1>e, <2>1
<1>2. BootsFit'
  BY DEF SendEmailCode
<1>3. TablesFit'
  BY DEF SendEmailCode, TablesFit
<1>4. CodesFit'
  <2>1. code' \in [Emails -> Nat \cup {None}]
    BY <1>b DEF CodesFit
  <2>2. \A f \in Emails : code'[f] # None => code'[f] \in Codes' /\ issuedFor'[code'[f]] = f
    BY <1>b, <1>c, <1>d DEF CodesFit
  <2> QED BY <1>c, <2>1, <2>2 DEF CodesFit
<1>5. RolesAfterUsers'
  BY DEF SendEmailCode, Arrives, RolesAfterUsers
<1>6. SeenStays'
  BY DEF SendEmailCode, Arrives, SeenStays
<1>7. CodesPresented'
  <2>1. job'[r].phase = "mail" /\ job'[r].code = n + 1
    BY <1>b
  <2> QED BY <1>c, <1>d, <1>e, <2>1 DEF CodesPresented
<1>8. AddressesHeld'
  BY DEF SendEmailCode, Arrives, Same, AddressesHeld, Taken, Holds, Same
<1>9. RemoteFirst'
  BY DEF SendEmailCode, Arrives, RemoteFirst
<1>10. OneAutomaticAdmin'
  BY DEF SendEmailCode, OneAutomaticAdmin
<1>11. AccountsComplete'
  BY <1>b, <1>d DEF AccountsComplete
<1> QED BY <1>1, <1>2, <1>3, <1>4, <1>5, <1>6, <1>7, <1>8, <1>9, <1>10, <1>11

\* A mail is sent.
LEMMA MailSentKeeps ==
  ASSUME RInv, NEW r \in Requests, MailSent(r)
  PROVE  RInv'
<1> USE RegistrationAssumption DEF RInv, Fits, JobsFit, BootsFit, dbVars, At, Goto, Return, Idle, Down, Accounts, Cids, DefaultUser
<1>1. JobsFit'
  BY DEF MailSent, Jobs
<1>2. BootsFit'
  BY DEF MailSent
<1>3. TablesFit'
  BY DEF MailSent, TablesFit
<1>4. CodesFit'
  BY DEF MailSent, CodesFit, Codes
<1>5. RolesAfterUsers'
  BY DEF MailSent, RolesAfterUsers
<1>6. SeenStays'
  BY DEF MailSent, SeenStays
<1>7. CodesPresented'
  BY DEF MailSent, CodesPresented, Codes
<1>8. AddressesHeld'
  BY DEF MailSent, AddressesHeld, Taken, Holds, Same
<1>9. RemoteFirst'
  BY DEF MailSent, RemoteFirst
<1>10. OneAutomaticAdmin'
  BY DEF MailSent, OneAutomaticAdmin
<1>11. AccountsComplete'
  BY DEF MailSent, AccountsComplete, Codes
<1> QED BY <1>1, <1>2, <1>3, <1>4, <1>5, <1>6, <1>7, <1>8, <1>9, <1>10, <1>11

\* A mail fails.
LEMMA MailFailsKeeps ==
  ASSUME RInv, NEW r \in Requests, MailFails(r)
  PROVE  RInv'
<1> USE RegistrationAssumption DEF RInv, Fits, JobsFit, BootsFit, dbVars, At, Goto, Return, Idle, Down, Accounts, Cids, DefaultUser
<1>1. JobsFit'
  BY DEF MailFails, Jobs
<1>2. BootsFit'
  BY DEF MailFails
<1>3. TablesFit'
  BY DEF MailFails, TablesFit
<1>4. CodesFit'
  BY DEF MailFails, CodesFit, Codes
<1>5. RolesAfterUsers'
  BY DEF MailFails, RolesAfterUsers
<1>6. SeenStays'
  BY DEF MailFails, SeenStays
<1>7. CodesPresented'
  BY DEF MailFails, CodesPresented, Codes
<1>8. AddressesHeld'
  BY DEF MailFails, AddressesHeld, Taken, Holds, Same
<1>9. RemoteFirst'
  BY DEF MailFails, RemoteFirst
<1>10. OneAutomaticAdmin'
  BY DEF MailFails, OneAutomaticAdmin
<1>11. AccountsComplete'
  BY DEF MailFails, AccountsComplete, Codes
<1> QED BY <1>1, <1>2, <1>3, <1>4, <1>5, <1>6, <1>7, <1>8, <1>9, <1>10, <1>11

\* A code expires.
LEMMA ExpireKeeps ==
  ASSUME RInv, NEW e \in Emails, Expire(e)
  PROVE  RInv'
<1> USE RegistrationAssumption DEF RInv, Fits, JobsFit, BootsFit, dbVars, At, Goto, Return, Idle, Down, Accounts, Cids, DefaultUser
<1>1. JobsFit'
  BY DEF Expire
<1>2. BootsFit'
  BY DEF Expire
<1>3. TablesFit'
  BY DEF Expire, TablesFit
<1>4. CodesFit'
  BY DEF Expire, CodesFit, Codes
<1>5. RolesAfterUsers'
  BY DEF Expire, RolesAfterUsers
<1>6. SeenStays'
  BY DEF Expire, SeenStays
<1>7. CodesPresented'
  BY DEF Expire, CodesPresented, Codes
<1>8. AddressesHeld'
  BY DEF Expire, AddressesHeld, Taken, Holds, Same
<1>9. RemoteFirst'
  BY DEF Expire, RemoteFirst
<1>10. OneAutomaticAdmin'
  BY DEF Expire, OneAutomaticAdmin
<1>11. AccountsComplete'
  BY DEF Expire, AccountsComplete, Codes
<1> QED BY <1>1, <1>2, <1>3, <1>4, <1>5, <1>6, <1>7, <1>8, <1>9, <1>10, <1>11

\* A registration whose address is free begins.
LEMMA RegisterKeeps ==
  ASSUME RInv, NEW r \in Requests, NEW i \in Instances, NEW e \in Emails, NEW c \in Codes, Register(r, i, e, c)
  PROVE  RInv'
<1> USE RegistrationAssumption DEF RInv, Fits, JobsFit, BootsFit, dbVars, At, Goto, Return, Idle, Down, Accounts, Cids, DefaultUser
<1> DEFINE nobody == Accounts = {} /\ admins = {}
<1>a. /\ job[r].phase = "idle" /\ c \in Nat
      /\ \A t \in Requests \ {r} : job'[t] = job[t]
      /\ job' \in [Requests -> {job'[t] : t \in Requests}]
      /\ job'[r] = [phase |-> "lookup", on |-> i, email |-> e, code |-> c, overtaken |-> FALSE,
                    view |-> [ready |-> ready, first |-> nobody]]
      /\ UNCHANGED <<users, ready, admins, boot>>
  <2>1. c \in Nat
    BY NextCode
  <2> QED BY <2>1 DEF Register, Arrives, Unmarked
<1>b. nobody \in BOOLEAN /\ ~(ready /\ nobody)
  BY DEF RolesAfterUsers
<1> HIDE DEF nobody
<1>1. JobsFit'
  <2>2. [ready |-> ready, first |-> nobody] \in Views
    BY <1>b DEF Views, TablesFit
  <2>3. job'[r] \in Jobs
    BY <1>a, <2>2 DEF Jobs
  <2> QED BY <1>a, <2>3
<1>2. BootsFit'
  BY DEF Register
<1>3. TablesFit'
  BY DEF Register, TablesFit
<1>4. CodesFit'
  BY DEF Register, CodesFit, Codes
<1>5. RolesAfterUsers'
  <2>1. job'[r].phase = "lookup" /\ job'[r].view.ready = ready /\ job'[r].view.first = nobody
    BY <1>a
  <2>2. ~(job'[r].view.ready /\ job'[r].view.first)
    BY <1>b, <2>1, Zenon
  <2> QED BY <1>a, <2>1, <2>2 DEF RolesAfterUsers
<1>6. SeenStays'
  BY DEF Register, Arrives, Unmarked, SeenStays
<1>7. CodesPresented'
  BY DEF Register, Arrives, Unmarked, CodesPresented, Codes
<1>8. AddressesHeld'
  BY DEF Register, Arrives, Unmarked, AddressesHeld, Taken, Holds, Same
<1>9. RemoteFirst'
  BY DEF Register, Arrives, Unmarked, RemoteFirst
<1>10. OneAutomaticAdmin'
  BY DEF Register, OneAutomaticAdmin
<1>11. AccountsComplete'
  BY DEF Register, AccountsComplete, Codes
<1> QED BY <1>1, <1>2, <1>3, <1>4, <1>5, <1>6, <1>7, <1>8, <1>9, <1>10, <1>11

\* The code is compared.
LEMMA LookUpKeeps ==
  ASSUME RInv, NEW r \in Requests, LookUp(r)
  PROVE  RInv'
<1> USE RegistrationAssumption DEF RInv, Fits, JobsFit, BootsFit, dbVars, At, Goto, Return, Idle, Down, Accounts, Cids, DefaultUser
<1>a. /\ job[r].phase = "lookup" /\ UNCHANGED <<remote, users, ready, members, admins, binding, boot, issuedFor>>
      /\ Goto(r, "consume") \/ Return(r)
  BY DEF LookUp
<1>b. /\ \A s \in Requests \ {r} : job'[s] = job[s]
      /\ \/ job'[r].phase = "idle"
         \/ /\ job'[r].phase = "consume"
            /\ job'[r].view = job[r].view
  BY <1>a, GoesOn, GivesBack
<1>1. JobsFit'
  BY DEF LookUp, Jobs
<1>2. BootsFit'
  BY DEF LookUp
<1>3. TablesFit'
  BY DEF LookUp, TablesFit
<1>4. CodesFit'
  BY DEF LookUp, CodesFit, Codes
<1>5. RolesAfterUsers'
  BY <1>a, <1>b DEF RolesAfterUsers
<1>6. SeenStays'
  BY <1>a, <1>b DEF SeenStays
<1>7. CodesPresented'
  BY DEF LookUp, CodesPresented, Codes, CodesFit, Jobs
<1>8. AddressesHeld'
  BY <1>a, <1>b DEF AddressesHeld, Taken, Holds, Same
<1>9. RemoteFirst'
  BY <1>a, <1>b DEF RemoteFirst
<1>10. OneAutomaticAdmin'
  BY DEF LookUp, OneAutomaticAdmin
<1>11. AccountsComplete'
  BY DEF LookUp, AccountsComplete, Codes
<1> QED BY <1>1, <1>2, <1>3, <1>4, <1>5, <1>6, <1>7, <1>8, <1>9, <1>10, <1>11

\* The code is deleted.
LEMMA ConsumeKeeps ==
  ASSUME RInv, NEW r \in Requests, Consume(r)
  PROVE  RInv'
<1> USE RegistrationAssumption DEF RInv, Fits, JobsFit, BootsFit, dbVars, At, Goto, Return, Idle, Down, Accounts, Cids, DefaultUser
<1>1. JobsFit'
  BY DEF Consume, Jobs
<1>2. BootsFit'
  BY DEF Consume
<1>3. TablesFit'
  BY DEF Consume, TablesFit
<1>4. CodesFit'
  BY DEF Consume, CodesFit, Codes
<1>5. RolesAfterUsers'
  BY DEF Consume, RolesAfterUsers
<1>6. SeenStays'
  BY DEF Consume, SeenStays
<1>7. CodesPresented'
  BY DEF Consume, CodesPresented, Codes
<1>8. AddressesHeld'
  BY DEF Consume, AddressesHeld, Taken, Holds, Same
<1>9. RemoteFirst'
  BY DEF Consume, RemoteFirst
<1>10. OneAutomaticAdmin'
  BY DEF Consume, OneAutomaticAdmin
<1>11. AccountsComplete'
  BY DEF Consume, AccountsComplete, Codes
<1> QED BY <1>1, <1>2, <1>3, <1>4, <1>5, <1>6, <1>7, <1>8, <1>9, <1>10, <1>11

\* Where the thread goes to when the FSD server creates an account.
LEMMA CreateUserGoes ==
  ASSUME JobsFit, NEW r \in Requests, CreateUser(r)
  PROVE  \E c \in Cids :
           /\ CreatesAccount(c)
           /\ job'[r].phase = "idle" \/ (job'[r].phase = "insert" /\ job'[r].cid = c)
           /\ \A s \in Requests \ {r} : job'[s] = job[s]
<1> USE DEF JobsFit
<1>1. PICK c \in Cids :
        /\ CreatesAccount(c)
        /\ IF c \in Accounts
             THEN Return(r)
             ELSE job' = [job EXCEPT ![r] = [phase |-> "insert", on |-> @.on, email |-> @.email, code |-> @.code,
                                            view |-> @.view, cid |-> c]]
  BY DEF CreateUser
<1>2. CASE c \in Accounts
  BY <1>1, <1>2 DEF Return, Idle
<1>3. CASE c \notin Accounts
  BY <1>1, <1>3
<1> QED BY <1>2, <1>3

\* The FSD server creates an account.
LEMMA CreateUserKeeps ==
  ASSUME RInv, NEW r \in Requests, CreateUser(r)
  PROVE  RInv'
<1> USE RegistrationAssumption DEF RInv, Fits, JobsFit, BootsFit, dbVars, At, Goto, Return, Idle, Down, Accounts, Cids, DefaultUser
<1>1. JobsFit'
  BY DEF CreateUser, Jobs
<1>2. BootsFit'
  BY DEF CreateUser
<1>3. TablesFit'
  BY DEF CreateUser, CreatesAccount, TablesFit
<1>4. CodesFit'
  BY DEF CreateUser, CodesFit, Codes
<1>5. RolesAfterUsers'
  BY DEF CreateUser, RolesAfterUsers
<1>6. SeenStays'
  BY DEF CreateUser, SeenStays
<1>7. CodesPresented'
  BY DEF CreateUser, CodesPresented, Codes
<1>8. AddressesHeld'
  BY DEF CreateUser, AddressesHeld, Taken, Holds, Same
<1>9. RemoteFirst'
  <2>1. PICK c \in Cids :
          /\ CreatesAccount(c)
          /\ job'[r].phase = "idle" \/ (job'[r].phase = "insert" /\ job'[r].cid = c)
          /\ \A s \in Requests \ {r} : job'[s] = job[s]
    BY CreateUserGoes
  <2>2. remote' = [remote EXCEPT ![c] = Observer] /\ remote \in [Cids -> Ratings \cup {None}]
    BY <2>1 DEF CreatesAccount, TablesFit
  <2>3. \A s \in Requests : job'[s].phase \in {"insert", "roles", "commit"} => remote'[job'[s].cid] # None
    <3> HIDE DEF JobsFit, Cids
    <3> QED BY <2>1, <2>2 DEF RemoteFirst
  <2>4. remote'[DefaultUser] # None
    BY <2>2 DEF RemoteFirst
  <2> QED BY <2>3, <2>4 DEF RemoteFirst
<1>10. OneAutomaticAdmin'
  BY DEF CreateUser, OneAutomaticAdmin
<1>11. AccountsComplete'
  BY DEF CreateUser, CreatesAccount, AccountsComplete, Codes
<1> QED BY <1>1, <1>2, <1>3, <1>4, <1>5, <1>6, <1>7, <1>8, <1>9, <1>10, <1>11

\* Its answer is lost.
LEMMA CreateUserLostKeeps ==
  ASSUME RInv, NEW r \in Requests, CreateUserLost(r)
  PROVE  RInv'
<1> USE RegistrationAssumption DEF RInv, Fits, JobsFit, BootsFit, dbVars, At, Goto, Return, Idle, Down, Accounts, Cids, DefaultUser
<1>1. JobsFit'
  BY DEF CreateUserLost, Jobs
<1>2. BootsFit'
  BY DEF CreateUserLost
<1>3. TablesFit'
  BY DEF CreateUserLost, CreatesAccount, TablesFit
<1>4. CodesFit'
  BY DEF CreateUserLost, CodesFit, Codes
<1>5. RolesAfterUsers'
  BY DEF CreateUserLost, RolesAfterUsers
<1>6. SeenStays'
  BY DEF CreateUserLost, SeenStays
<1>7. CodesPresented'
  BY DEF CreateUserLost, CodesPresented, Codes
<1>8. AddressesHeld'
  BY DEF CreateUserLost, AddressesHeld, Taken, Holds, Same
<1>9. RemoteFirst'
  BY DEF CreateUserLost, CreatesAccount, RemoteFirst
<1>10. OneAutomaticAdmin'
  BY DEF CreateUserLost, OneAutomaticAdmin
<1>11. AccountsComplete'
  BY DEF CreateUserLost, CreatesAccount, AccountsComplete, Codes, TablesFit
<1> QED BY <1>1, <1>2, <1>3, <1>4, <1>5, <1>6, <1>7, <1>8, <1>9, <1>10, <1>11

\* An insertion goes on to the roles or gives up, and only with its own thread.
LEMMA InsertMoves ==
  ASSUME JobsFit, NEW r \in Requests, Insert(r)
  PROVE  /\ \A s \in Requests \ {r} : job'[s] = job[s]
         /\ \/ job'[r].phase = "idle"
            \/ /\ job'[r].phase = "roles"
               /\ job'[r].view = job[r].view /\ job'[r].email = job[r].email /\ job'[r].cid = job[r].cid
<1>1. job[r].phase = "insert" /\ (Goto(r, "roles") \/ Return(r))
  BY DEF Insert, At
<1>2. CASE Goto(r, "roles")
  BY <1>1, <1>2, GoesOn
<1>3. CASE Return(r)
  BY <1>3, GivesBack
<1> QED BY <1>1, <1>2, <1>3

\* The address is held by one transaction from here.
LEMMA InsertKeeps ==
  ASSUME RInv, NEW r \in Requests, Insert(r)
  PROVE  RInv'
<1> USE RegistrationAssumption DEF RInv, Fits, JobsFit, BootsFit, dbVars, At, Goto, Return, Idle, Down, Accounts, Cids, DefaultUser
<1>a. /\ job[r].phase = "insert" /\ UNCHANGED <<remote, users, ready, members, admins, binding, boot, issuedFor>>
      /\ Goto(r, "roles") \/ Return(r)
  BY DEF Insert
<1>b. /\ \A s \in Requests \ {r} : job'[s] = job[s]
      /\ \/ job'[r].phase = "idle"
         \/ /\ job'[r].phase = "roles"
            /\ job'[r].view = job[r].view /\ job'[r].email = job[r].email /\ job'[r].cid = job[r].cid
  BY InsertMoves
<1>1. JobsFit'
  BY DEF Insert, Jobs
<1>2. BootsFit'
  BY DEF Insert
<1>3. TablesFit'
  BY DEF Insert, TablesFit
<1>4. CodesFit'
  BY DEF Insert, CodesFit, Codes
<1>5. RolesAfterUsers'
  BY <1>a, <1>b DEF RolesAfterUsers
<1>6. SeenStays'
  BY <1>a, <1>b DEF SeenStays
<1>7. CodesPresented'
  BY DEF Insert, CodesPresented, Codes, Jobs
<1>8. AddressesHeld'
  <2>1. /\ \A s \in Requests : ~Holds(s, job[r].email)
        /\ job[r].email \in Taken => Return(r)
    BY DEF Insert
  <2>2. ASSUME job[r].email \in Taken PROVE job'[r].phase = "idle"
    <3>1. Return(r)
      BY <2>1, <2>2
    <3> QED BY <3>1
  <2>3. \A t \in Requests : job[t].phase \in {"roles", "commit"} => job[t].email # job[r].email
    <3>1. \A t \in Requests : job[t].phase \in {"roles", "commit"} => "email" \in DOMAIN job[t]
      BY DEF Jobs
    <3> QED BY <2>1, <3>1 DEF Holds, Same
  <2>4. UNCHANGED Taken
    BY <1>a DEF Taken
  <2> SUFFICES ASSUME NEW t \in Requests, job'[t].phase \in {"roles", "commit"}
               PROVE  job'[t].email \notin Taken /\ \A u \in Requests \ {t} : ~Holds(u, job[t].email)'
    BY <2>4 DEF AddressesHeld
  <2>5. CASE t = r
    <3>1. job'[t].email = job[r].email /\ job[r].email \notin Taken
      BY <1>b, <2>2, <2>5
    <3> QED BY <1>b, <2>1, <2>5, <3>1 DEF Holds, Same
  <2>6. CASE t # r
    <3>1. job'[t] = job[t] /\ job[t].email # job[r].email
      BY <1>b, <2>3, <2>6
    <3>2. job[t].email \notin Taken /\ \A u \in Requests \ {t} : ~Holds(u, job[t].email)
      BY <3>1 DEF AddressesHeld
    <3>3. ~Holds(r, job[t].email)'
      BY <1>b, <3>1 DEF Holds, Same
    <3> QED BY <1>b, <3>1, <3>2, <3>3 DEF Holds, Same
  <2> QED BY <2>5, <2>6
<1>9. RemoteFirst'
  BY <1>a, <1>b DEF RemoteFirst
<1>10. OneAutomaticAdmin'
  BY DEF Insert, OneAutomaticAdmin
<1>11. AccountsComplete'
  BY DEF Insert, AccountsComplete, Codes
<1> QED BY <1>1, <1>2, <1>3, <1>4, <1>5, <1>6, <1>7, <1>8, <1>9, <1>10, <1>11

\* The built-in roles are looked for in the snapshot.
LEMMA EnsureRolesKeeps ==
  ASSUME RInv, NEW r \in Requests, EnsureRoles(r)
  PROVE  RInv'
<1> USE RegistrationAssumption DEF RInv, Fits, JobsFit, BootsFit, dbVars, At, Goto, Return, Idle, Down, Accounts, Cids, DefaultUser
<1>a. /\ job[r].phase = "roles" /\ UNCHANGED <<remote, users, ready, members, admins, binding, boot, issuedFor>>
      /\ Goto(r, "commit") \/ Return(r)
  BY DEF EnsureRoles
<1>b. /\ \A s \in Requests \ {r} : job'[s] = job[s]
      /\ \/ job'[r].phase = "idle"
         \/ /\ job'[r].phase = "commit"
            /\ job'[r].view = job[r].view /\ job'[r].email = job[r].email /\ job'[r].cid = job[r].cid
  BY <1>a, GoesOn, GivesBack
<1>1. JobsFit'
  BY DEF EnsureRoles, Jobs
<1>2. BootsFit'
  BY DEF EnsureRoles
<1>3. TablesFit'
  BY DEF EnsureRoles, TablesFit
<1>4. CodesFit'
  BY DEF EnsureRoles, CodesFit, Codes
<1>5. RolesAfterUsers'
  <2>1. ~job[r].view.ready => Return(r)
    BY DEF EnsureRoles
  <2>2. ASSUME ~job[r].view.ready PROVE job'[r].phase = "idle"
    <3>1. Return(r)
      BY <2>1, <2>2
    <3> QED BY <3>1, GivesBack
  <2> QED BY <1>a, <1>b, <2>2 DEF RolesAfterUsers
<1>6. SeenStays'
  BY <1>a, <1>b DEF SeenStays
<1>7. CodesPresented'
  BY DEF EnsureRoles, CodesPresented, Codes, Jobs
<1>8. AddressesHeld'
  BY <1>a, <1>b DEF AddressesHeld, Taken, Holds, Same
<1>9. RemoteFirst'
  BY <1>a, <1>b DEF RemoteFirst
<1>10. OneAutomaticAdmin'
  BY DEF EnsureRoles, OneAutomaticAdmin
<1>11. AccountsComplete'
  BY DEF EnsureRoles, AccountsComplete, Codes
<1> QED BY <1>1, <1>2, <1>3, <1>4, <1>5, <1>6, <1>7, <1>8, <1>9, <1>10, <1>11

\* The account is there, with all that belongs to it.
LEMMA CommitKeeps ==
  ASSUME RInv, NEW r \in Requests, Commit(r)
  PROVE  RInv'
<1> USE RegistrationAssumption DEF RInv, Fits, JobsFit, BootsFit, dbVars, At, Goto, Return, Idle, Down, Accounts, Cids, DefaultUser
<1> DEFINE c == job[r].cid
<1>a. /\ job[r].phase = "commit" /\ c \in Cids /\ job[r].email \in Emails /\ job[r].code \in Nat
      /\ ~job[r].view.first /\ job[r].email \notin Taken /\ remote[c] # None
      /\ job[r].code \in Codes /\ issuedFor[job[r].code] = job[r].email
      /\ \A t \in Requests \ {r} : ~Holds(t, job[r].email)
  <2>1. job[r].phase = "commit"
    BY DEF Commit
  <2>2. job[r] \in [phase : {"insert", "roles", "commit"}, on : Instances, email : Emails, code : Nat,
                    view : Views, cid : Cids]
    BY <2>1 DEF Jobs
  <2> QED BY <2>1, <2>2 DEF RolesAfterUsers, AddressesHeld, RemoteFirst, CodesPresented
<1>b. /\ users' = [users EXCEPT ![c] = job[r].email] /\ members' = members \cup {c}
      /\ binding' = [binding EXCEPT ![c] = Observer] /\ proof' = [proof EXCEPT ![c] = job[r].code]
      /\ UNCHANGED <<admins, remote, code, issuedFor, ready, boot, late, drift>>
      /\ Return(r)
  BY <1>a DEF Commit
<1>c. /\ \A t \in Requests \ {r} : job'[t] = job[t]
      /\ job'[r].phase = "idle"
  BY <1>b, GivesBack
<1>d. /\ \A d \in Cids : users'[d] = (IF d = c THEN job[r].email ELSE users[d])
      /\ \A d \in Cids : proof'[d] = (IF d = c THEN job[r].code ELSE proof[d])
      /\ job[r].email \notin {None, AdminEmail}
  BY <1>a, <1>b DEF TablesFit
<1> HIDE DEF c
<1>1. JobsFit'
  BY DEF Commit, Jobs
<1>2. BootsFit'
  BY DEF Commit
<1>3. TablesFit'
  <2>1. users' \in [Cids -> Emails \cup {AdminEmail, None}] /\ \A d \in Cids \ {DefaultUser} : users'[d] # AdminEmail
    BY <1>a, <1>b, <1>d DEF TablesFit
  <2>2. binding' \in [Cids -> Ratings \cup {None}] /\ proof' \in [Cids -> Nat \cup {None}]
    BY <1>a, <1>b DEF TablesFit
  <2>3. members' \subseteq Cids /\ UNCHANGED <<remote, ready, admins, late, drift>>
    BY <1>a, <1>b DEF TablesFit
  <2> QED BY <2>1, <2>2, <2>3 DEF TablesFit
<1>4. CodesFit'
  BY DEF Commit, CodesFit, Codes
<1>5. RolesAfterUsers'
  BY <1>b, <1>d DEF RolesAfterUsers
<1>6. SeenStays'
  BY <1>a, <1>b, <1>c, <1>d DEF SeenStays, TablesFit
<1>7. CodesPresented'
  BY DEF Commit, CodesPresented, Codes
<1>8. AddressesHeld'
  <2>1. Taken' \subseteq Taken \cup {job[r].email}
    BY <1>d DEF Taken
  <2>2. \A t \in Requests \ {r} : job[t].phase \in {"roles", "commit"} => job[t].email # job[r].email
    <3>1. \A t \in Requests : job[t].phase \in {"roles", "commit"} => "email" \in DOMAIN job[t]
      BY DEF Jobs
    <3> QED BY <1>a, <3>1 DEF Holds, Same
  <2> QED BY <1>c, <2>1, <2>2 DEF AddressesHeld, Holds, Same
<1>9. RemoteFirst'
  BY DEF Commit, RemoteFirst
<1>10. OneAutomaticAdmin'
  BY DEF Commit, OneAutomaticAdmin, RolesAfterUsers
<1>11. AccountsComplete'
  <2> SUFFICES ASSUME NEW d \in Accounts'
               PROVE  /\ remote[d] # None
                      /\ d # DefaultUser => d \in members' /\ proof'[d] \in Codes /\ issuedFor[proof'[d]] = users'[d]
                      /\ \A f \in Accounts' \ {d} : users'[f] # users'[d]
    BY <1>b DEF AccountsComplete, Codes
  <2>1. \A f \in Accounts' : f \in Cids /\ (f # c => f \in Accounts /\ users'[f] = users[f] /\ users[f] # job[r].email)
    BY <1>a, <1>d DEF Taken
  <2>2. CASE d = c
    BY <1>a, <1>b, <1>d, <2>1, <2>2
  <2>3. CASE d # c
    BY <1>a, <1>b, <1>d, <2>1 DEF AccountsComplete
  <2> QED BY <2>2, <2>3
<1> QED BY <1>1, <1>2, <1>3, <1>4, <1>5, <1>6, <1>7, <1>8, <1>9, <1>10, <1>11

\* A thread fails.
LEMMA FailKeeps ==
  ASSUME RInv, NEW r \in Requests, Fail(r)
  PROVE  RInv'
<1> USE RegistrationAssumption DEF RInv, Fits, JobsFit, BootsFit, dbVars, At, Goto, Return, Idle, Down, Accounts, Cids, DefaultUser
<1>1. JobsFit'
  BY DEF Fail, Jobs
<1>2. BootsFit'
  BY DEF Fail
<1>3. TablesFit'
  BY DEF Fail, TablesFit, Jobs
<1>4. CodesFit'
  BY DEF Fail, CodesFit, Codes
<1>5. RolesAfterUsers'
  BY DEF Fail, RolesAfterUsers
<1>6. SeenStays'
  BY DEF Fail, SeenStays
<1>7. CodesPresented'
  BY DEF Fail, CodesPresented, Codes
<1>8. AddressesHeld'
  BY DEF Fail, AddressesHeld, Taken, Holds, Same
<1>9. RemoteFirst'
  BY DEF Fail, RemoteFirst
<1>10. OneAutomaticAdmin'
  BY DEF Fail, OneAutomaticAdmin
<1>11. AccountsComplete'
  BY DEF Fail, AccountsComplete, Codes
<1> QED BY <1>1, <1>2, <1>3, <1>4, <1>5, <1>6, <1>7, <1>8, <1>9, <1>10, <1>11

\* A change of a rating begins.
LEMMA UpsertBindingKeeps ==
  ASSUME RInv, NEW r \in Requests, NEW i \in Instances, NEW c \in Cids, NEW n \in Ratings, UpsertBinding(r, i, c, n)
  PROVE  RInv'
<1> USE RegistrationAssumption DEF RInv, Fits, JobsFit, BootsFit, dbVars, At, Goto, Return, Idle, Down, Accounts, Cids, DefaultUser
<1>1. JobsFit'
  <2>1. /\ job'[r] \in Jobs
        /\ \A t \in Requests \ {r} : job'[t] = Met(t, c)
    BY DEF UpsertBinding, Arrives, Jobs
  <2>2. job' \in [Requests -> {job'[t] : t \in Requests}]
    BY DEF UpsertBinding, Arrives
  <2>3. \A t \in Requests : Met(t, c) \in Jobs
    BY MarkedFits DEF Met, Changes
  <2> QED BY <2>1, <2>2, <2>3
<1>2. BootsFit'
  BY DEF UpsertBinding
<1>3. TablesFit'
  BY DEF UpsertBinding, TablesFit
<1>4. CodesFit'
  BY DEF UpsertBinding, CodesFit, Codes
<1>5. RolesAfterUsers'
  BY DEF UpsertBinding, Arrives, Met, RolesAfterUsers
<1>6. SeenStays'
  BY DEF UpsertBinding, Arrives, Met, SeenStays
<1>7. CodesPresented'
  BY DEF UpsertBinding, Arrives, Met, CodesPresented, Codes
<1>8. AddressesHeld'
  BY DEF UpsertBinding, Arrives, Met, Same, AddressesHeld, Taken, Holds, Same
<1>9. RemoteFirst'
  BY DEF UpsertBinding, Arrives, Met, RemoteFirst
<1>10. OneAutomaticAdmin'
  BY DEF UpsertBinding, OneAutomaticAdmin
<1>11. AccountsComplete'
  BY DEF UpsertBinding, AccountsComplete, Codes
<1> QED BY <1>1, <1>2, <1>3, <1>4, <1>5, <1>6, <1>7, <1>8, <1>9, <1>10, <1>11

\* A binding is inserted first.
LEMMA SaveKeeps ==
  ASSUME RInv, NEW r \in Requests, Save(r)
  PROVE  RInv'
<1> USE RegistrationAssumption DEF RInv, Fits, JobsFit, BootsFit, dbVars, At, Goto, Return, Idle, Down, Accounts, Cids, DefaultUser
<1>a. /\ job[r].phase = "save" /\ UNCHANGED <<remote, users, ready, members, admins, binding, boot, issuedFor>>
      /\ Goto(r, "update") \/ Return(r)
  BY DEF Save
<1>b. /\ \A s \in Requests \ {r} : job'[s] = job[s]
      /\ \/ job'[r].phase = "idle"
         \/ /\ job'[r].phase = "update"
            /\ job'[r].cid = job[r].cid
  BY <1>a, GoesOn, GivesBack
<1>1. JobsFit'
  BY DEF Save, Jobs
<1>2. BootsFit'
  BY DEF Save
<1>3. TablesFit'
  BY DEF Save, TablesFit
<1>4. CodesFit'
  BY DEF Save, CodesFit, Codes
<1>5. RolesAfterUsers'
  BY <1>a, <1>b DEF RolesAfterUsers
<1>6. SeenStays'
  BY <1>a, <1>b DEF SeenStays
<1>7. CodesPresented'
  BY <1>a, <1>b DEF CodesPresented, Codes
<1>8. AddressesHeld'
  BY <1>a, <1>b DEF AddressesHeld, Taken, Holds, Same
<1>9. RemoteFirst'
  BY <1>a, <1>b DEF RemoteFirst
<1>10. OneAutomaticAdmin'
  BY DEF Save, OneAutomaticAdmin
<1>11. AccountsComplete'
  BY DEF Save, AccountsComplete, Codes
<1> QED BY <1>1, <1>2, <1>3, <1>4, <1>5, <1>6, <1>7, <1>8, <1>9, <1>10, <1>11

\* The FSD server changes the rating.
LEMMA UpdateUserKeeps ==
  ASSUME RInv, NEW r \in Requests, UpdateUser(r)
  PROVE  RInv'
<1> USE RegistrationAssumption DEF RInv, Fits, JobsFit, BootsFit, dbVars, At, Goto, Return, Idle, Down, Accounts, Cids, DefaultUser
<1>1. JobsFit'
  BY DEF UpdateUser, Jobs
<1>2. BootsFit'
  BY DEF UpdateUser
<1>3. TablesFit'
  BY DEF UpdateUser, TablesFit, Jobs
<1>4. CodesFit'
  BY DEF UpdateUser, CodesFit, Codes
<1>5. RolesAfterUsers'
  BY DEF UpdateUser, RolesAfterUsers
<1>6. SeenStays'
  BY DEF UpdateUser, SeenStays
<1>7. CodesPresented'
  BY DEF UpdateUser, CodesPresented, Codes
<1>8. AddressesHeld'
  BY DEF UpdateUser, AddressesHeld, Taken, Holds, Same
<1>9. RemoteFirst'
  <2>1. /\ job[r].phase = "update" /\ job[r].rating \in Ratings
        /\ Goto(r, "store")
    BY DEF UpdateUser, Jobs
  <2>2. \A c \in Cids : remote[c] # None => remote'[c] # None
    BY <2>1 DEF UpdateUser
  <2>3. job'[r].phase = "store" /\ \A t \in Requests \ {r} : job'[t] = job[t]
    BY <2>1, GoesOn
  <2>4. \A t \in Requests : job[t].phase \in {"insert", "roles", "commit"} => job[t].cid \in Cids
    BY DEF Jobs
  <2> QED BY <2>2, <2>3, <2>4 DEF RemoteFirst
<1>10. OneAutomaticAdmin'
  BY DEF UpdateUser, OneAutomaticAdmin
<1>11. AccountsComplete'
  <2>1. job[r].rating \in Ratings
    BY DEF UpdateUser, Jobs
  <2>2. /\ \A c \in Cids : remote[c] # None => remote'[c] # None
        /\ UNCHANGED <<users, members, proof, issuedFor>>
    BY <2>1 DEF UpdateUser
  <2> QED BY <2>2 DEF AccountsComplete, Codes
<1> QED BY <1>1, <1>2, <1>3, <1>4, <1>5, <1>6, <1>7, <1>8, <1>9, <1>10, <1>11

\* Its answer is lost.
LEMMA UpdateUserLostKeeps ==
  ASSUME RInv, NEW r \in Requests, UpdateUserLost(r)
  PROVE  RInv'
<1> USE RegistrationAssumption DEF RInv, Fits, JobsFit, BootsFit, dbVars, At, Goto, Return, Idle, Down, Accounts, Cids, DefaultUser
<1>1. JobsFit'
  BY DEF UpdateUserLost, Jobs
<1>2. BootsFit'
  BY DEF UpdateUserLost
<1>3. TablesFit'
  <2>1. job[r].rating \in Ratings /\ job[r].cid \in Cids
    BY DEF UpdateUserLost, Jobs
  <2> QED BY <2>1 DEF UpdateUserLost, TablesFit
<1>4. CodesFit'
  BY DEF UpdateUserLost, CodesFit, Codes
<1>5. RolesAfterUsers'
  BY DEF UpdateUserLost, RolesAfterUsers
<1>6. SeenStays'
  BY DEF UpdateUserLost, SeenStays
<1>7. CodesPresented'
  BY DEF UpdateUserLost, CodesPresented, Codes
<1>8. AddressesHeld'
  BY DEF UpdateUserLost, AddressesHeld, Taken, Holds, Same
<1>9. RemoteFirst'
  BY DEF UpdateUserLost, RemoteFirst
<1>10. OneAutomaticAdmin'
  BY DEF UpdateUserLost, OneAutomaticAdmin
<1>11. AccountsComplete'
  BY DEF UpdateUserLost, AccountsComplete, Codes
<1> QED BY <1>1, <1>2, <1>3, <1>4, <1>5, <1>6, <1>7, <1>8, <1>9, <1>10, <1>11

\* It changes the rating later.
LEMMA LateUpdateKeeps ==
  ASSUME RInv, NEW l \in late, LateUpdate(l)
  PROVE  RInv'
<1> USE RegistrationAssumption DEF RInv, Fits, JobsFit, BootsFit, dbVars, At, Goto, Return, Idle, Down, Accounts, Cids, DefaultUser
<1>1. JobsFit'
  <2>1. \A t \in Requests : job'[t] = Met(t, l[1])
    BY DEF LateUpdate
  <2>2. job' \in [Requests -> {job'[t] : t \in Requests}]
    BY DEF LateUpdate
  <2>3. \A t \in Requests : Met(t, l[1]) \in Jobs
    BY MarkedFits DEF Met, Changes
  <2> QED BY <2>1, <2>2, <2>3
<1>2. BootsFit'
  BY DEF LateUpdate
<1>3. TablesFit'
  BY DEF LateUpdate, TablesFit
<1>4. CodesFit'
  BY DEF LateUpdate, CodesFit, Codes
<1>5. RolesAfterUsers'
  BY DEF LateUpdate, Met, RolesAfterUsers
<1>6. SeenStays'
  BY DEF LateUpdate, Met, SeenStays
<1>7. CodesPresented'
  BY DEF LateUpdate, Met, CodesPresented, Codes
<1>8. AddressesHeld'
  BY DEF LateUpdate, Met, Same, AddressesHeld, Taken, Holds, Same
<1>9. RemoteFirst'
  BY DEF LateUpdate, Met, RemoteFirst, TablesFit
<1>10. OneAutomaticAdmin'
  BY DEF LateUpdate, OneAutomaticAdmin
<1>11. AccountsComplete'
  BY DEF LateUpdate, AccountsComplete, Codes, TablesFit
<1> QED BY <1>1, <1>2, <1>3, <1>4, <1>5, <1>6, <1>7, <1>8, <1>9, <1>10, <1>11

\* The change commits.
LEMMA StoreKeeps ==
  ASSUME RInv, NEW r \in Requests, Store(r)
  PROVE  RInv'
<1> USE RegistrationAssumption DEF RInv, Fits, JobsFit, BootsFit, dbVars, At, Goto, Return, Idle, Down, Accounts, Cids, DefaultUser
<1>1. JobsFit'
  BY DEF Store, Jobs
<1>2. BootsFit'
  BY DEF Store
<1>3. TablesFit'
  <2>1. job[r].phase = "store"
    BY DEF Store
  <2>2. job[r].cid \in Cids /\ job[r].rating \in Ratings
    BY <2>1 DEF Jobs
  <2>3. binding' \in [Cids -> Ratings \cup {None}] /\ drift' \subseteq Cids
    BY <2>2 DEF Store, TablesFit
  <2> QED BY <2>3 DEF Store, TablesFit
<1>4. CodesFit'
  BY DEF Store, CodesFit, Codes
<1>5. RolesAfterUsers'
  BY DEF Store, RolesAfterUsers
<1>6. SeenStays'
  BY DEF Store, SeenStays
<1>7. CodesPresented'
  BY DEF Store, CodesPresented, Codes
<1>8. AddressesHeld'
  BY DEF Store, AddressesHeld, Taken, Holds, Same
<1>9. RemoteFirst'
  BY DEF Store, RemoteFirst
<1>10. OneAutomaticAdmin'
  BY DEF Store, OneAutomaticAdmin
<1>11. AccountsComplete'
  BY DEF Store, AccountsComplete, Codes
<1> QED BY <1>1, <1>2, <1>3, <1>4, <1>5, <1>6, <1>7, <1>8, <1>9, <1>10, <1>11

\* A binding is deleted.
LEMMA DeleteBindingKeeps ==
  ASSUME RInv, NEW c \in Cids, DeleteBinding(c)
  PROVE  RInv'
<1> USE RegistrationAssumption DEF RInv, Fits, JobsFit, BootsFit, dbVars, At, Goto, Return, Idle, Down, Accounts, Cids, DefaultUser
<1>1. JobsFit'
  <2>1. job' = [t \in Requests |-> IF Changes(t, c) /\ job[t].bound THEN [job[t] EXCEPT !.gone = TRUE]
                                                              ELSE job[t]]
    BY DEF DeleteBinding
  <2>2. \A t \in Requests : Changes(t, c) => job[t].phase \in {"save", "update", "store"}
    BY DEF Changes
  <2>3. \A t \in Requests : Changes(t, c) => [job[t] EXCEPT !.gone = TRUE] \in Jobs
    BY <2>2, MarkedFits
  <2> QED BY <2>1, <2>3
<1>2. BootsFit'
  BY DEF DeleteBinding
<1>3. TablesFit'
  BY DEF DeleteBinding, TablesFit
<1>4. CodesFit'
  BY DEF DeleteBinding, CodesFit, Codes
<1>5. RolesAfterUsers'
  BY DEF DeleteBinding, RolesAfterUsers
<1>6. SeenStays'
  BY DEF DeleteBinding, SeenStays
<1>7. CodesPresented'
  BY DEF DeleteBinding, CodesPresented, Codes
<1>8. AddressesHeld'
  BY DEF DeleteBinding, Same, AddressesHeld, Taken, Holds, Same
<1>9. RemoteFirst'
  BY DEF DeleteBinding, RemoteFirst
<1>10. OneAutomaticAdmin'
  BY DEF DeleteBinding, OneAutomaticAdmin
<1>11. AccountsComplete'
  BY DEF DeleteBinding, AccountsComplete, Codes
<1> QED BY <1>1, <1>2, <1>3, <1>4, <1>5, <1>6, <1>7, <1>8, <1>9, <1>10, <1>11

\* A login finds no binding.
LEMMA LoginKeeps ==
  ASSUME RInv, NEW r \in Requests, NEW i \in Instances, NEW c \in Cids, Login(r, i, c)
  PROVE  RInv'
<1> USE RegistrationAssumption DEF RInv, Fits, JobsFit, BootsFit, dbVars, At, Goto, Return, Idle, Down, Accounts, Cids, DefaultUser
<1>1. JobsFit'
  BY DEF Login, Arrives, Unmarked, Jobs
<1>2. BootsFit'
  BY DEF Login
<1>3. TablesFit'
  BY DEF Login, TablesFit
<1>4. CodesFit'
  BY DEF Login, CodesFit, Codes
<1>5. RolesAfterUsers'
  BY DEF Login, Arrives, Unmarked, RolesAfterUsers
<1>6. SeenStays'
  BY DEF Login, Arrives, Unmarked, SeenStays
<1>7. CodesPresented'
  BY DEF Login, Arrives, Unmarked, CodesPresented, Codes
<1>8. AddressesHeld'
  BY DEF Login, Arrives, Unmarked, AddressesHeld, Taken, Holds, Same
<1>9. RemoteFirst'
  BY DEF Login, Arrives, Unmarked, RemoteFirst
<1>10. OneAutomaticAdmin'
  BY DEF Login, OneAutomaticAdmin
<1>11. AccountsComplete'
  BY DEF Login, AccountsComplete, Codes
<1> QED BY <1>1, <1>2, <1>3, <1>4, <1>5, <1>6, <1>7, <1>8, <1>9, <1>10, <1>11

\* It stores one.
LEMMA BindKeeps ==
  ASSUME RInv, NEW r \in Requests, Bind(r)
  PROVE  RInv'
<1> USE RegistrationAssumption DEF RInv, Fits, JobsFit, BootsFit, dbVars, At, Goto, Return, Idle, Down, Accounts, Cids, DefaultUser
<1>1. JobsFit'
  BY DEF Bind, Jobs
<1>2. BootsFit'
  BY DEF Bind
<1>3. TablesFit'
  <2>1. job[r].cid \in Cids
    BY DEF Bind, Jobs
  <2>2. binding' \in [Cids -> Ratings \cup {None}] /\ drift' \subseteq Cids
    <3>1. Observer \in Ratings /\ Administrator \in Ratings
      BY RegistrationAssumption
    <3>2. CASE UNCHANGED <<binding, drift>>
      BY <3>2 DEF TablesFit
    <3>3. CASE /\ binding' = [binding EXCEPT ![job[r].cid] = IF job[r].admin THEN Administrator ELSE Observer]
               /\ drift' = drift \cup {job[r].cid}
      BY <2>1, <3>1, <3>3 DEF TablesFit
    <3> QED BY <3>2, <3>3 DEF Bind
  <2> QED BY <2>2 DEF Bind, TablesFit
<1>4. CodesFit'
  BY DEF Bind, CodesFit, Codes
<1>5. RolesAfterUsers'
  BY DEF Bind, RolesAfterUsers
<1>6. SeenStays'
  BY DEF Bind, SeenStays, TablesFit
<1>7. CodesPresented'
  BY DEF Bind, CodesPresented, Codes
<1>8. AddressesHeld'
  BY DEF Bind, AddressesHeld, Taken, Holds, Same
<1>9. RemoteFirst'
  BY DEF Bind, RemoteFirst
<1>10. OneAutomaticAdmin'
  BY DEF Bind, OneAutomaticAdmin
<1>11. AccountsComplete'
  BY DEF Bind, AccountsComplete, Codes
<1> QED BY <1>1, <1>2, <1>3, <1>4, <1>5, <1>6, <1>7, <1>8, <1>9, <1>10, <1>11

\* Before the first start there is the administrator of the FSD server.
LEMMA RInvInit == Init => RInv
<1> SUFFICES ASSUME Init PROVE RInv
  OBVIOUS
<1> USE RegistrationAssumption DEF Init, Idle, Down, Accounts, Cids, DefaultUser
<1>1. JobsFit /\ BootsFit
  BY DEF JobsFit, BootsFit, Jobs, Boots
<1>2. TablesFit
  BY DEF TablesFit
<1>3. CodesFit
  <2>1. issuedFor \in [1..0 -> Emails]
    OBVIOUS
  <2> QED BY <2>1 DEF CodesFit
<1>4. RolesAfterUsers /\ SeenStays /\ CodesPresented /\ AddressesHeld /\ RemoteFirst
  BY DEF RolesAfterUsers, SeenStays, CodesPresented, AddressesHeld, RemoteFirst
<1>5. OneAutomaticAdmin /\ AccountsComplete
  BY DEF OneAutomaticAdmin, AccountsComplete
<1> QED BY <1>1, <1>2, <1>3, <1>4, <1>5 DEF RInv, Fits

\* Every step preserves the invariant.
LEMMA RInvNext == RInv /\ [Next]_vars => RInv'
<1> SUFFICES ASSUME RInv, [Next]_vars PROVE RInv'
  OBVIOUS
<1>1. CASE UNCHANGED vars
  <2> USE <1>1 DEF vars, dbVars, RInv, Fits
  <2>1. JobsFit' /\ BootsFit' /\ TablesFit' /\ CodesFit'
    BY DEF JobsFit, BootsFit, TablesFit, CodesFit, Codes
  <2>2. RolesAfterUsers' /\ SeenStays' /\ RemoteFirst' /\ OneAutomaticAdmin'
    BY DEF RolesAfterUsers, SeenStays, RemoteFirst, OneAutomaticAdmin, Accounts
  <2>3. CodesPresented' /\ AddressesHeld' /\ AccountsComplete'
    BY DEF CodesPresented, Codes, AddressesHeld, Holds, Same, Taken, Accounts, AccountsComplete
  <2> QED BY <2>1, <2>2, <2>3
<1>2. ASSUME NEW r \in Requests, Step(r) \/ Mishap(r) PROVE RInv'
  BY <1>2, MailSentKeeps, LookUpKeeps, ConsumeKeeps, CreateUserKeeps, InsertKeeps, EnsureRolesKeeps, CommitKeeps,
     SaveKeeps, UpdateUserKeeps, StoreKeeps, BindKeeps, MailFailsKeeps, CreateUserLostKeeps, UpdateUserLostKeeps,
     FailKeeps DEF Step, Mishap
<1>3. ASSUME NEW r \in Requests, NEW i \in Instances, Begin(r, i) PROVE RInv'
  BY <1>3, SendEmailCodeKeeps, RegisterKeeps, UpsertBindingKeeps, LoginKeeps DEF Begin
<1>4. ASSUME NEW i \in Instances,
             Start(i) \/ SystemBootstrap(i) \/ RbacBegins(i) \/ RbacBootstrap(i) \/ Crash(i)
      PROVE  RInv'
  BY <1>4, StartKeeps, SystemBootstrapKeeps, RbacBeginsKeeps, RbacBootstrapKeeps, CrashKeeps
<1> QED BY <1>1, <1>2, <1>3, <1>4, ExpireKeeps, LateUpdateKeeps, DeleteBindingKeeps DEF Next

-----------------------------------------------------------------------------
(* The properties, for every value of the constants.                       *)

\* The inductive invariant holds in every reachable state.
THEOREM RegistrationInvariant == Spec => []RInv
<1>1. Init => RInv
  BY RInvInit
<1>2. RInv /\ [Next]_vars => RInv'
  BY RInvNext
<1> QED BY <1>1, <1>2, PTL DEF Spec

\* Type correctness.
THEOREM RegistrationTypes == Spec => []TypeOK
<1>1. RInv => TypeOK
  <2> SUFFICES ASSUME RInv PROVE TypeOK
    OBVIOUS
  <2>1. code \in [Emails -> Codes \cup {None}] /\ \A c \in Codes : issuedFor[c] \in Emails
    BY DEF RInv, Fits, CodesFit, Codes
  <2> QED BY <2>1 DEF RInv, Fits, TablesFit, SeenStays, TypeOK
<1> QED BY <1>1, RegistrationInvariant, PTL

\* However many instances start and people register meanwhile, nobody but the
\* default user becomes super administrator automatically
\* (RbacServiceImpl ensureDefaultRolesForNewUser, RbacBootstrapRunner).
THEOREM OneAdminEver == Spec => []OneAutomaticAdmin
<1>1. RInv => OneAutomaticAdmin
  BY DEF RInv
<1> QED BY <1>1, RegistrationInvariant, PTL

\* There are no half accounts, whatever fails or is rolled back in between
\* (AuthServiceImpl registerByEmail).
THEOREM AccountsAlwaysComplete == Spec => []AccountsComplete
<1>1. RInv => AccountsComplete
  BY DEF RInv
<1> QED BY <1>1, RegistrationInvariant, PTL

-----------------------------------------------------------------------------
(* Codes in hand.                                                          *)

\* What a thread is about to delete is its own code, or it has been overtaken.
CodesInHand ==
  \A r \in Requests : job[r].phase \in {"mail", "consume"} =>
    job[r].overtaken \/ code[job[r].email] \in {None, job[r].code}

\* A step that touches no code, and brings no thread to where it deletes one.
LEMMA HandsKept ==
  ASSUME CodesInHand, UNCHANGED code,
         \A s \in Requests : job'[s] = job[s] \/ job'[s].phase \notin {"mail", "consume"}
  PROVE  CodesInHand'
  BY DEF CodesInHand

\* What a thread that goes on, returns or arrives leaves to the others.
LEMMA OthersStay ==
  ASSUME JobsFit, NEW r \in Requests, NEW p, Goto(r, p) \/ Return(r)
  PROVE  \A s \in Requests : job'[s] = job[s] \/ job'[s].phase \in {p, "idle"}
  BY GoesOn, GivesBack

\* A thread that changes ratings is marked, and remains what it is.
LEMMA MarkStays ==
  ASSUME JobsFit, NEW s \in Requests, NEW c
  PROVE  /\ Met(s, c).phase = job[s].phase
         /\ Met(s, c) = job[s] \/ job[s].phase \in {"save", "update", "store"}
         /\ [job[s] EXCEPT !.gone = TRUE].phase = job[s].phase
<1>1. job[s] \in Jobs
  BY DEF JobsFit
<1> QED BY <1>1 DEF Met, Changes, Jobs

\* Every step preserves it.
LEMMA HandsNext == RInv /\ CodesInHand /\ [Next]_vars => CodesInHand'
<1> SUFFICES ASSUME RInv, CodesInHand, [Next]_vars PROVE CodesInHand'
  OBVIOUS
<1>f. JobsFit /\ BootsFit /\ TablesFit /\ CodesFit
  BY DEF RInv, Fits
<1>1. CASE UNCHANGED vars
  BY <1>1 DEF vars, CodesInHand
<1>2. ASSUME NEW r \in Requests, Step(r) \/ Mishap(r), ~LookUp(r), ~Consume(r), ~MailFails(r)
      PROVE  CodesInHand'
  <2>1. UNCHANGED code
    BY <1>2 DEF Step, Mishap, MailSent, CreateUser, Insert, EnsureRoles, Commit, Save, UpdateUser, Store, Bind,
       CreateUserLost, UpdateUserLost, Fail
  <2>2. \/ \E p \in {"roles", "commit", "update", "store"} : Goto(r, p)
        \/ Return(r)
        \/ CreateUser(r)
    BY <1>2 DEF Step, Mishap, MailSent, Insert, EnsureRoles, Commit, Save, UpdateUser, Store, Bind,
       CreateUserLost, UpdateUserLost, Fail
  <2>3. CASE CreateUser(r)
    <3>1. \A s \in Requests : job'[s] = job[s] \/ job'[s].phase \in {"insert", "idle"}
      BY <1>f, <2>3, CreateUserGoes
    <3> QED BY <2>1, <3>1, HandsKept
  <2>4. CASE Return(r) \/ \E p \in {"roles", "commit", "update", "store"} : Goto(r, p)
    <3>1. PICK p \in {"roles", "commit", "update", "store"} : Goto(r, p) \/ Return(r)
      BY <2>4
    <3>2. \A s \in Requests : job'[s] = job[s] \/ job'[s].phase \in {p, "idle"}
      BY <1>f, <3>1, OthersStay
    <3> QED BY <2>1, <3>2, HandsKept
  <2> QED BY <2>2, <2>3, <2>4
<1>3. ASSUME NEW r \in Requests, LookUp(r) PROVE CodesInHand'
  <2>1. CASE code[job[r].email] = job[r].code
    <3>1. At(r, "lookup") /\ Goto(r, "consume") /\ UNCHANGED code
      BY <1>3, <2>1 DEF LookUp
    <3>2. job'[r].email = job[r].email /\ job'[r].code = job[r].code
      BY <1>f, <3>1, GoesOn DEF At
    <3>3. \A s \in Requests \ {r} : job'[s] = job[s]
      BY <1>f, <3>1, GoesOn
    <3> QED BY <2>1, <3>1, <3>2, <3>3 DEF CodesInHand
  <2>2. CASE code[job[r].email] # job[r].code
    <3>1. UNCHANGED code /\ Return(r)
      BY <1>3, <2>2 DEF LookUp
    <3> QED BY <1>f, <3>1, GivesBack, HandsKept
  <2> QED BY <2>1, <2>2
<1>4. ASSUME NEW r \in Requests, Consume(r) \/ MailFails(r) PROVE CodesInHand'
  <2>1. PICK p \in {"create"} : Goto(r, p) \/ Return(r)
    BY <1>4 DEF Consume, MailFails
  <2>2. \A s \in Requests : job'[s] = job[s] \/ job'[s].phase \in {p, "idle"}
    BY <1>f, <2>1, OthersStay
  <2>3. code' = [code EXCEPT ![job[r].email] = None]
    BY <1>4 DEF Consume, MailFails
  <2>4. \A s \in Requests : job[s].phase \in {"mail", "consume"} => job[s].email \in Emails
    BY <1>f DEF JobsFit, Jobs
  <2> QED BY <1>f, <2>2, <2>3, <2>4 DEF CodesInHand, CodesFit
<1>5. ASSUME NEW r \in Requests, NEW i \in Instances, NEW e \in Emails, SendEmailCode(r, i, e)
      PROVE  CodesInHand'
  <2>1. PICK n \in Nat : code' = [code EXCEPT ![e] = n] /\ job'[r].email = e /\ job'[r].code = n
    <3>1. PICK n \in Nat : Cardinality(Codes) + 1 = n + 1
      BY <1>f, NextCode
    <3>2. /\ code' = [code EXCEPT ![e] = Cardinality(Codes) + 1]
          /\ job'[r] = [phase |-> "mail", on |-> i, email |-> e, code |-> Cardinality(Codes) + 1, overtaken |-> FALSE]
      BY <1>5 DEF SendEmailCode, Arrives
    <3>3. job'[r].email = e /\ job'[r].code = n + 1
      BY <3>1, <3>2
    <3>4. code' = [code EXCEPT ![e] = n + 1]
      BY <3>1, <3>2, Zenon
    <3>5. n + 1 \in Nat
      OBVIOUS
    <3> QED BY <3>3, <3>4, <3>5, Zenon
  <2>2. ASSUME NEW s \in Requests \ {r}, job'[s].phase \in {"mail", "consume"}
        PROVE  job'[s].overtaken \/ code'[job'[s].email] \in {None, job'[s].code}
    <3>1. job'[s] = IF Same(s, "email", e) /\ job[s].phase \in {"mail", "consume"}
                      THEN [job[s] EXCEPT !.overtaken = TRUE] ELSE job[s]
      BY <1>5 DEF SendEmailCode, Arrives
    <3>2. job[s] \in Jobs
      BY <1>f DEF JobsFit
    <3>3. CASE Same(s, "email", e) /\ job[s].phase \in {"mail", "consume"}
      <4>1. "overtaken" \in DOMAIN job[s]
        BY <3>2, <3>3 DEF Jobs
      <4> QED BY <3>1, <3>3, <4>1
    <3>4. CASE ~(Same(s, "email", e) /\ job[s].phase \in {"mail", "consume"})
      <4>1. job'[s] = job[s] /\ "email" \in DOMAIN job[s] /\ job[s].email \in Emails
        BY <2>2, <3>1, <3>2, <3>4 DEF Jobs
      <4>2. code'[job[s].email] = code[job[s].email]
        BY <2>1, <2>2, <3>4, <4>1 DEF Same
      <4> QED BY <2>2, <4>1, <4>2 DEF CodesInHand
    <3>5. n + 1 \in Nat
      OBVIOUS
    <3> QED BY <3>3, <3>4, <3>5, Zenon
  <2> QED BY <1>f, <2>1, <2>2 DEF CodesInHand, CodesFit
<1>6. ASSUME NEW r \in Requests, NEW i \in Instances, Begin(r, i),
             ~\E e \in Emails : SendEmailCode(r, i, e)
      PROVE  CodesInHand'
  <2>1. CASE \E c \in Cids, n \in Ratings : UpsertBinding(r, i, c, n)
    <3>1. PICK c \in Cids, n \in Ratings : UpsertBinding(r, i, c, n)
      BY <2>1
    <3>2. UNCHANGED code /\ job'[r].phase \in {"update", "save"}
      BY <3>1 DEF UpsertBinding, Arrives
    <3>3. \A s \in Requests \ {r} : job'[s] = Met(s, c)
      BY <3>1 DEF UpsertBinding, Arrives
    <3>4. \A s \in Requests \ {r} : job'[s] = job[s] \/ job'[s].phase \notin {"mail", "consume"}
      BY <1>f, <3>3, MarkStays
    <3> QED BY <3>2, <3>4, HandsKept
  <2>2. CASE \/ \E e \in Emails, c \in Codes : Register(r, i, e, c)
             \/ \E c \in Cids : Login(r, i, c)
    <3>1. UNCHANGED code /\ job'[r].phase \in {"lookup", "bind"}
      BY <2>2 DEF Register, Login, Arrives
    <3>2. \A s \in Requests \ {r} : job'[s] = job[s]
      BY <2>2 DEF Register, Login, Arrives, Unmarked
    <3> QED BY <3>1, <3>2, HandsKept
  <2> QED BY <1>6, <2>1, <2>2 DEF Begin
<1>7. ASSUME NEW i \in Instances,
             Start(i) \/ SystemBootstrap(i) \/ RbacBegins(i) \/ RbacBootstrap(i) \/ Crash(i)
      PROVE  CodesInHand'
  <2>1. UNCHANGED code /\ (UNCHANGED job \/ GivesUp(i))
    BY <1>7 DEF Start, SystemBootstrap, RbacBegins, RbacBootstrap, Crash
  <2>2. \A s \in Requests : job'[s] = job[s] \/ job'[s].phase = "idle"
    BY <1>f, <2>1, GaveUp
  <2> QED BY <2>1, <2>2, HandsKept
<1>8. ASSUME NEW e \in Emails, Expire(e) PROVE CodesInHand'
  <2>1. \A s \in Requests : job[s].phase \in {"mail", "consume"} => job[s].email \in Emails
    BY <1>f DEF JobsFit, Jobs
  <2> QED BY <1>f, <1>8, <2>1 DEF Expire, CodesInHand, CodesFit
<1>9. ASSUME NEW l \in late, LateUpdate(l) PROVE CodesInHand'
  <2>1. UNCHANGED code /\ \A s \in Requests : job'[s] = Met(s, l[1])
    BY <1>9 DEF LateUpdate
  <2>2. \A s \in Requests : job'[s] = job[s] \/ job'[s].phase \notin {"mail", "consume"}
    BY <1>f, <2>1, MarkStays
  <2> QED BY <2>1, <2>2, HandsKept
<1>10. ASSUME NEW c \in Cids, DeleteBinding(c) PROVE CodesInHand'
  <2>1. /\ UNCHANGED code
        /\ \A s \in Requests : \/ job'[s] = job[s]
                               \/ /\ job[s].phase \in {"save", "update", "store"}
                                  /\ job'[s] = [job[s] EXCEPT !.gone = TRUE]
    BY <1>10 DEF DeleteBinding, Changes
  <2>2. \A s \in Requests : job'[s] = job[s] \/ job'[s].phase \notin {"mail", "consume"}
    BY <1>f, <2>1, MarkStays
  <2> QED BY <2>1, <2>2, HandsKept
<1> QED BY <1>1, <1>2, <1>3, <1>4, <1>5, <1>6, <1>7, <1>8, <1>9, <1>10 DEF Next

\* A code in the mail stays valid (AuthServiceImpl sendEmailCode, validateEmailCode).
THEOREM CodesAreKept == Spec => CodesKept
<1> DEFINE Kept ==
      \A e \in Emails :
        code[e] # None /\ code'[e] = None =>
          \/ \E r \in Requests : /\ Same(r, "email", e) /\ job[r].phase \in {"mail", "consume"}
                                 /\ job'[r].phase # job[r].phase
                                 /\ (job[r].code = code[e] \/ job[r].overtaken)
          \/ Expire(e)
<1>1. Init => CodesInHand
  BY DEF Init, Idle, CodesInHand
<1>2. RInv /\ CodesInHand /\ [Next]_vars => CodesInHand'
  BY HandsNext
<1>3. RInv /\ CodesInHand /\ [Next]_vars => [Kept]_vars
  <2> SUFFICES ASSUME RInv, CodesInHand, Next, NEW e \in Emails, code[e] # None, code'[e] = None, ~Expire(e)
               PROVE  \E r \in Requests : /\ Same(r, "email", e) /\ job[r].phase \in {"mail", "consume"}
                                          /\ job'[r].phase # job[r].phase
                                          /\ (job[r].code = code[e] \/ job[r].overtaken)
    OBVIOUS
  <2>f. JobsFit /\ CodesFit
    BY DEF RInv, Fits
  <2>1. PICK r \in Requests : Consume(r) \/ MailFails(r)
    <3>1. ASSUME NEW r \in Requests, NEW i \in Instances, NEW f \in Emails, SendEmailCode(r, i, f) PROVE FALSE
      <4>1. PICK n \in Nat : Cardinality(Codes) + 1 = n + 1
        BY <2>f, NextCode
      <4>2. code' = [code EXCEPT ![f] = n + 1]
        BY <3>1, <4>1 DEF SendEmailCode
      <4> QED BY <2>f, <4>2, RegistrationAssumption DEF CodesFit
    <3>2. ASSUME NEW f \in Emails, Expire(f) PROVE FALSE
      BY <2>f, <3>2 DEF Expire, CodesFit
    <3>3. code' # code
      OBVIOUS
    <3>4. ASSUME NEW i \in Instances,
                 Start(i) \/ SystemBootstrap(i) \/ RbacBegins(i) \/ RbacBootstrap(i) \/ Crash(i)
          PROVE  FALSE
      BY <3>3, <3>4 DEF Start, SystemBootstrap, RbacBegins, RbacBootstrap, Crash
    <3>5. ASSUME NEW r \in Requests, Step(r) \/ Mishap(r) PROVE Consume(r) \/ MailFails(r)
      BY <3>3, <3>5 DEF Step, Mishap, MailSent, LookUp, CreateUser, CreateUserLost, Insert, EnsureRoles, Commit,
                        Fail, Save, UpdateUser, UpdateUserLost, Store, Bind
    <3>6. ASSUME NEW r \in Requests, NEW i \in Instances, Begin(r, i) PROVE FALSE
      BY <3>1, <3>3, <3>6 DEF Begin, Register, UpsertBinding, Login
    <3>7. /\ \A l \in late : ~LateUpdate(l)
          /\ \A c \in Cids : ~DeleteBinding(c)
      BY <3>3 DEF LateUpdate, DeleteBinding
    <3> QED BY <3>2, <3>4, <3>5, <3>6, <3>7 DEF Next
  <2>2. job[r].phase \in {"mail", "consume"} /\ code' = [code EXCEPT ![job[r].email] = None]
    BY <2>1 DEF Consume, MailFails, At
  <2>3. job[r].email = e /\ "email" \in DOMAIN job[r]
    BY <2>f, <2>2 DEF JobsFit, Jobs
  <2>4. job'[r].phase # job[r].phase
    BY <2>f, <2>1, <2>2, GoesOn, GivesBack DEF Consume, MailFails
  <2>5. job[r].code = code[e] \/ job[r].overtaken
    BY <2>2 DEF CodesInHand
  <2> QED BY <2>2, <2>3, <2>4, <2>5 DEF Same
<1>4. Spec => [][Kept]_vars
  BY <1>1, <1>2, <1>3, RegistrationInvariant, PTL DEF Spec
<1> QED BY <1>4 DEF CodesKept

-----------------------------------------------------------------------------
(* Ratings.                                                                *)

Changing == {"save", "update", "store"}
Registering == {"insert", "roles", "commit"}

\* A change that met no other has the FSD server to itself, and one that lost
\* its binding has left its mark.
LoneChanges ==
  \A r \in Requests : job[r].phase \in Changing =>
    /\ job[r].alone => \A s \in Requests \ {r} : ~(job[s].phase \in Changing /\ job[s].cid = job[r].cid)
    /\ job[r].alone /\ job[r].phase = "store" => remote[job[r].cid] = job[r].rating
    /\ job[r].gone => job[r].cid \in drift
    /\ job[r].bound /\ binding[job[r].cid] = None => job[r].gone

\* Nobody else has the account that a thread has made on the FSD server.
NewAccounts ==
  \A r \in Requests : job[r].phase \in Registering =>
    /\ job[r].cid \notin Accounts \cup {DefaultUser} /\ remote[job[r].cid] = Observer
    /\ \A s \in Requests \ {r} : job[s].phase \in Registering => job[s].cid # job[r].cid

\* Only a thread in "store" may have changed one rating and not yet the other.
RatingsFollow ==
  \A c \in Cids \ drift : (\A s \in Requests : ~(job[s].phase = "store" /\ job[s].cid = c)) =>
    /\ binding[c] # None => binding[c] = remote[c]
    /\ binding[c] = None /\ c \in Accounts \cup {DefaultUser} => c = DefaultUser /\ remote[c] = Administrator

\* Late updates are about accounts, and administrators that were seen are
\* the default user.
LateKnown == \A l \in late : l[1] \in Accounts
AdminsSeen == \A i \in Instances : boot[i].phase = "rbac" => boot[i].view.admins \subseteq {DefaultUser}

RatingsInv == LoneChanges /\ NewAccounts /\ RatingsFollow /\ LateKnown /\ AdminsSeen

\* How a thread may go on without touching a rating.
Onward(s) ==
  \/ job'[s] = job[s]
  \/ /\ job'[s].phase \notin Changing \cup Registering
     /\ job[s].phase = "store" => job[s].cid \in drift'
  \/ /\ job[s].phase \in Registering /\ job'[s].phase \in Registering
     /\ job'[s].cid = job[s].cid
  \/ /\ job[s].phase = "save" /\ job'[s] = [job[s] EXCEPT !.phase = "update"]

\* What a thread that goes on with a change carries on.
LEMMA SavedFits ==
  ASSUME JobsFit, NEW s \in Requests, job[s].phase = "save",
         job'[s] = [job[s] EXCEPT !.phase = "update"]
  PROVE  /\ job'[s].phase = "update" /\ job'[s].cid = job[s].cid
         /\ job'[s].alone = job[s].alone /\ job'[s].gone = job[s].gone /\ job'[s].bound = job[s].bound
<1>1. job[s] \in [phase : {"save", "update", "store"}, on : Instances, cid : Cids, rating : Ratings,
                  bound : BOOLEAN, gone : BOOLEAN, alone : BOOLEAN]
  BY DEF JobsFit, Jobs
<1> QED BY <1>1

\* A step that touches no rating and no account.
LEMMA Undisturbed ==
  ASSUME JobsFit, RatingsInv, UNCHANGED <<remote, users, binding>>, drift \subseteq drift',
         \A s \in Requests : Onward(s)
  PROVE  LoneChanges' /\ NewAccounts' /\ RatingsFollow'
<1>1. ASSUME NEW s \in Requests, job'[s].phase \in Changing
      PROVE  /\ job[s].phase \in Changing /\ job'[s].cid = job[s].cid
             /\ job'[s].alone = job[s].alone /\ job'[s].gone = job[s].gone /\ job'[s].bound = job[s].bound
             /\ job'[s].phase = "store" => job'[s] = job[s]
  <2>1. CASE job'[s] = job[s]
    BY <1>1, <2>1
  <2>2. CASE job[s].phase = "save" /\ job'[s] = [job[s] EXCEPT !.phase = "update"]
    BY <2>2 DEF Changing
  <2> QED BY <1>1, <2>1, <2>2 DEF Onward, Changing, Registering
<1>2. ASSUME NEW s \in Requests, job'[s].phase \in Registering
      PROVE  job[s].phase \in Registering /\ job'[s].cid = job[s].cid
  <2>1. CASE job[s].phase = "save" /\ job'[s] = [job[s] EXCEPT !.phase = "update"]
    BY <1>2, <2>1 DEF Registering
  <2> QED BY <1>2, <2>1 DEF Onward
<1>3. ASSUME NEW s \in Requests, job[s].phase = "store"
      PROVE  job'[s] = job[s] \/ job[s].cid \in drift'
  BY <1>3 DEF Onward, Registering
<1>4. LoneChanges'
  BY <1>1 DEF RatingsInv, LoneChanges
<1>5. NewAccounts'
  BY <1>2 DEF RatingsInv, NewAccounts, Accounts
<1>6. RatingsFollow'
  BY <1>3 DEF RatingsInv, RatingsFollow, Accounts
<1> QED BY <1>4, <1>5, <1>6

\* A thread goes on, returns, or arrives, and touches nothing else.
LEMMA QuietSteps ==
  ASSUME RInv, RatingsInv, NEW r \in Requests,
         \/ MailSent(r) \/ LookUp(r) \/ Consume(r) \/ Insert(r) \/ EnsureRoles(r) \/ Save(r)
         \/ MailFails(r) \/ Fail(r)
  PROVE  RatingsInv'
<1>f. JobsFit
  BY DEF RInv, Fits
<1>1. /\ UNCHANGED <<remote, users, binding, late, admins, boot>> /\ drift \subseteq drift'
      /\ job[r].phase = "store" => job[r].cid \in drift'
  BY DEF MailSent, LookUp, Consume, Insert, EnsureRoles, Save, MailFails, Fail, At, dbVars
<1>2. \A s \in Requests : Onward(s)
  <2>1. CASE Return(r)
    BY <1>f, <1>1, <2>1, GivesBack DEF Onward, Changing, Registering
  <2>2. CASE \/ At(r, "insert") /\ Goto(r, "roles")
             \/ At(r, "roles") /\ Goto(r, "commit")
    BY <1>f, <2>2, GoesOn DEF Onward, Registering, At
  <2>3. CASE \/ At(r, "lookup") /\ Goto(r, "consume")
             \/ At(r, "consume") /\ Goto(r, "create")
    BY <1>f, <2>3, GoesOn DEF Onward, Changing, Registering, At
  <2>4. CASE At(r, "save") /\ Goto(r, "update")
    BY <2>4 DEF Onward, At, Goto
  <2> QED BY <2>1, <2>2, <2>3, <2>4 DEF MailSent, LookUp, Consume, Insert, EnsureRoles, Save, MailFails, Fail
<1>3. LateKnown' /\ AdminsSeen'
  BY <1>1 DEF RatingsInv, LateKnown, AdminsSeen, Accounts
<1> QED BY <1>f, <1>1, <1>2, <1>3, Undisturbed DEF RatingsInv

\* A request arrives that touches no rating.
LEMMA QuietArrivals ==
  ASSUME RInv, RatingsInv, NEW r \in Requests, NEW i \in Instances,
         \/ \E e \in Emails : SendEmailCode(r, i, e)
         \/ \E e \in Emails, c \in Codes : Register(r, i, e, c)
         \/ \E c \in Cids : Login(r, i, c)
  PROVE  RatingsInv'
<1>f. JobsFit
  BY DEF RInv, Fits
<1>1. /\ UNCHANGED <<remote, users, binding, late, admins, boot, drift>>
      /\ job[r].phase = "idle" /\ job'[r].phase \in {"mail", "lookup", "bind"}
  BY DEF SendEmailCode, Register, Login, Arrives, At, dbVars
<1>2. ASSUME NEW s \in Requests \ {r}
      PROVE  job'[s] = job[s] \/ (job'[s].phase = job[s].phase /\ job[s].phase \in {"mail", "consume"})
  <2>1. \/ job'[s] = job[s]
        \/ job'[s] = [job[s] EXCEPT !.overtaken = TRUE] /\ job[s].phase \in {"mail", "consume"}
    BY DEF SendEmailCode, Register, Login, Arrives, Unmarked
  <2>2. job[s] \in Jobs
    BY <1>f DEF JobsFit
  <2> QED BY <2>1, <2>2 DEF Jobs
<1>3. \A s \in Requests : Onward(s)
  BY <1>1, <1>2 DEF Onward, Changing, Registering
<1>4. LateKnown' /\ AdminsSeen'
  BY <1>1 DEF RatingsInv, LateKnown, AdminsSeen, Accounts
<1> QED BY <1>f, <1>1, <1>3, <1>4, Undisturbed DEF RatingsInv

\* An instance starts, stops, or gives up.
LEMMA QuietInstances ==
  ASSUME RInv, RatingsInv, NEW i \in Instances,
         \/ Start(i) \/ RbacBegins(i) \/ Crash(i)
         \/ GivesUp(i) /\ UNCHANGED <<remote, users, binding, late>>
  PROVE  RatingsInv'
<1>f. JobsFit /\ BootsFit /\ TablesFit /\ admins \subseteq {DefaultUser}
  BY DEF RInv, Fits, OneAutomaticAdmin
<1>1. /\ UNCHANGED <<remote, users, binding, late>>
      /\ GivesUp(i) \/ UNCHANGED <<job, drift>>
  BY DEF Start, RbacBegins, Crash, dbVars
<1>2. drift \subseteq drift' /\ \A s \in Requests : Onward(s)
  <2>1. CASE UNCHANGED <<job, drift>>
    BY <2>1 DEF Onward
  <2>2. CASE GivesUp(i)
    <3>1. ASSUME NEW s \in Requests PROVE Onward(s)
      <4>1. CASE Same(s, "on", i)
        BY <2>2 DEF GivesUp, Onward, Changing, Registering, Idle, At
      <4>2. CASE ~Same(s, "on", i)
        BY <2>2, <4>2 DEF GivesUp, Onward
      <4> QED BY <4>1, <4>2
    <3> QED BY <2>2, <3>1 DEF GivesUp
  <2> QED BY <1>1, <2>1, <2>2
<1>3. AdminsSeen'
  <2>1. ASSUME NEW k \in Instances
        PROVE  \/ boot'[k] = boot[k] \/ boot'[k].phase # "rbac"
               \/ boot'[k].view.admins = admins
    BY <1>f DEF Start, RbacBegins, Crash, GivesUp, Down, BootsFit
  <2> QED BY <1>f, <2>1 DEF RatingsInv, AdminsSeen
<1>4. LateKnown'
  BY <1>1 DEF RatingsInv, LateKnown, Accounts
<1> QED BY <1>f, <1>1, <1>2, <1>3, <1>4, Undisturbed DEF RatingsInv

\* SystemBootstrapRunner adds the default user, whom nobody has changed yet.
LEMMA SystemBootstrapRates ==
  ASSUME RInv, RatingsInv, NEW i \in Instances, SystemBootstrap(i)
  PROVE  RatingsInv'
<1>f. TablesFit /\ BootsFit
  BY DEF RInv, Fits
<1>1. CASE GivesUp(i) /\ UNCHANGED users
  BY <1>1, QuietInstances DEF SystemBootstrap
<1>2. CASE /\ boot' = [boot EXCEPT ![i] = [phase |-> "between"]]
           /\ UNCHANGED <<job, drift>>
           /\ users' \in {users, [users EXCEPT ![DefaultUser] = AdminEmail]}
  <2>1. UNCHANGED <<remote, binding, late, admins>>
    BY DEF SystemBootstrap
  <2>2. Accounts \subseteq Accounts' /\ Accounts' \subseteq Accounts \cup {DefaultUser}
    BY <1>f, <1>2, RegistrationAssumption DEF Accounts, TablesFit
  <2>3. LoneChanges'
    BY <1>2, <2>1 DEF RatingsInv, LoneChanges
  <2>4. NewAccounts'
    BY <1>2, <2>1, <2>2 DEF RatingsInv, NewAccounts
  <2>5. RatingsFollow'
    BY <1>2, <2>1, <2>2 DEF RatingsInv, RatingsFollow
  <2>6. LateKnown' /\ AdminsSeen'
    BY <1>2, <2>1, <2>2 DEF RatingsInv, LateKnown, AdminsSeen
  <2> QED BY <2>3, <2>4, <2>5, <2>6 DEF RatingsInv
<1> QED BY <1>1, <1>2 DEF SystemBootstrap

\* RbacBootstrapRunner adds bindings: of the default user, who is
\* administrator on the FSD server, and of those whose bindings were deleted.
LEMMA RbacBootstrapRates ==
  ASSUME RInv, RatingsInv, NEW i \in Instances, RbacBootstrap(i)
  PROVE  RatingsInv'
<1>f. TablesFit /\ BootsFit /\ JobsFit /\ boot[i].phase = "rbac"
  BY DEF RInv, Fits, RbacBootstrap
<1>a. admins \subseteq {DefaultUser} /\ DefaultUser \in boot[i].view.users /\ boot[i].view.users \subseteq Accounts
      /\ boot[i].view.admins \subseteq {DefaultUser}
  BY <1>f DEF RInv, OneAutomaticAdmin, RolesAfterUsers, SeenStays, RatingsInv, AdminsSeen
<1> DEFINE v == boot[i].view
           unbound == v.users \ v.bound
           first == CHOOSE c \in v.users : \A d \in v.users : c <= d
           newAdmins == IF v.admins = {} /\ v.users # {} THEN {first} ELSE {}
<1>b. first = DefaultUser
  <2>1. v.users \in SUBSET Cids /\ DefaultUser \in v.users
    BY <1>a DEF Accounts
  <2> QED BY <2>1, FirstIsDefault
<1>c. v.admins \cup newAdmins = {DefaultUser}
  BY <1>a, <1>b
<1>1. CASE GivesUp(i) /\ UNCHANGED <<ready, members, admins, binding>>
  BY <1>1, QuietInstances DEF RbacBootstrap
<1>2. CASE ~(GivesUp(i) /\ UNCHANGED <<ready, members, admins, binding>>)
  <2>1. /\ UNCHANGED <<job, drift, remote, users, late>>
        /\ boot' = [boot EXCEPT ![i] = [phase |-> "up"]]
        /\ \A c \in unbound : binding[c] = None
        /\ \A c \in unbound, s \in Requests : ~Inserted(s, c)
        /\ binding' = [c \in Cids |->
             IF c \notin unbound THEN binding[c]
             ELSE IF c \in v.admins \cup newAdmins THEN Administrator ELSE Observer]
    BY <1>2 DEF RbacBootstrap
  <2>2. \A c \in Cids : \/ binding'[c] = binding[c]
                        \/ /\ c \in unbound /\ binding[c] = None
                           /\ binding'[c] = IF c = DefaultUser THEN Administrator ELSE Observer
    BY <1>c, <2>1
  <2>3. \A c \in Cids : binding[c] # None => binding'[c] = binding[c]
    BY <2>1
  <2>4. LoneChanges'
    <3>1. \A s \in Requests : job[s].phase \in Changing => job[s].cid \in Cids
      BY <1>f DEF JobsFit, Jobs, Changing
    <3> QED BY <2>1, <2>3, <3>1 DEF RatingsInv, LoneChanges
  <2>5. NewAccounts'
    BY <2>1 DEF RatingsInv, NewAccounts, Accounts
  <2>6. RatingsFollow'
    <3> SUFFICES ASSUME NEW c \in Cids \ drift, \A s \in Requests : ~(job[s].phase = "store" /\ job[s].cid = c)
                 PROVE  /\ binding'[c] # None => binding'[c] = remote[c]
                        /\ binding'[c] = None /\ c \in Accounts \cup {DefaultUser} =>
                             c = DefaultUser /\ remote[c] = Administrator
      BY <2>1 DEF RatingsFollow, Accounts
    <3>1. CASE binding'[c] = binding[c]
      BY <3>1 DEF RatingsInv, RatingsFollow
    <3>2. CASE c \in unbound /\ binding[c] = None
      <4>1. c = DefaultUser /\ remote[c] = Administrator
        BY <1>a, <3>2 DEF RatingsInv, RatingsFollow
      <4>2. binding'[c] = Administrator \/ binding'[c] = binding[c]
        BY <2>2, <4>1
      <4> QED BY <3>1, <4>1, <4>2, RegistrationAssumption
    <3> QED BY <2>2, <3>1, <3>2
  <2>7. LateKnown' /\ AdminsSeen'
    BY <2>1 DEF RatingsInv, LateKnown, AdminsSeen, Accounts
  <2> QED BY <2>4, <2>5, <2>6, <2>7 DEF RatingsInv
<1> QED BY <1>1, <1>2

\* The FSD server makes an account, and the thread learns of it or not.
LEMMA CreateUserRates ==
  ASSUME RInv, RatingsInv, NEW r \in Requests, CreateUser(r) \/ CreateUserLost(r)
  PROVE  RatingsInv'
<1>f. TablesFit /\ JobsFit /\ AccountsComplete /\ remote[DefaultUser] # None
  BY DEF RInv, Fits, RemoteFirst
<1>1. PICK c \in Cids :
        /\ CreatesAccount(c)
        /\ \/ job'[r].phase = "insert" /\ job'[r].cid = c
           \/ job'[r].phase = "idle"
  BY <1>f, GivesBack DEF CreateUser, CreateUserLost, JobsFit
<1>2. /\ UNCHANGED <<users, binding, late, drift, boot, admins>>
      /\ \A s \in Requests \ {r} : job'[s] = job[s]
      /\ job[r].phase = "create"
  BY <1>f, GivesBack DEF CreateUser, CreateUserLost, JobsFit, dbVars, At
<1>3. /\ remote[c] = None /\ remote'[c] = Observer /\ \A d \in Cids \ {c} : remote'[d] = remote[d]
      /\ c \notin Accounts \cup {DefaultUser}
  BY <1>f, <1>1 DEF CreatesAccount, TablesFit, AccountsComplete
<1>4. \A s \in Requests : job[s].phase \in Changing => job[s].cid \in Accounts
  BY DEF RInv, SeenStays, Changing
<1>5. LoneChanges'
  BY <1>1, <1>2, <1>3, <1>4 DEF RatingsInv, LoneChanges, Changing, Accounts
<1>6. NewAccounts'
  <2>1. \A s \in Requests : job[s].phase \in Registering => job[s].cid \in Cids /\ remote[job[s].cid] # None
    BY <1>f DEF RInv, RemoteFirst, JobsFit, Jobs, Registering
  <2> QED BY <1>1, <1>2, <1>3, <2>1 DEF RatingsInv, NewAccounts, Registering, Accounts
<1>7. RatingsFollow'
  <2>1. binding[c] = None
    BY <1>3 DEF RInv, SeenStays
  <2>2. Accounts' = Accounts
    BY <1>2 DEF Accounts
  <2> QED BY <1>1, <1>2, <1>3, <2>1, <2>2 DEF RatingsInv, RatingsFollow
<1>8. LateKnown' /\ AdminsSeen'
  BY <1>2 DEF RatingsInv, LateKnown, AdminsSeen, Accounts
<1> QED BY <1>5, <1>6, <1>7, <1>8 DEF RatingsInv

\* An account is stored as an observer, as the FSD server has it.
LEMMA CommitRates ==
  ASSUME RInv, RatingsInv, NEW r \in Requests, Commit(r)
  PROVE  RatingsInv'
<1>f. TablesFit /\ JobsFit /\ job[r].phase = "commit" /\ ~job[r].view.first /\ job[r].cid \in Cids
      /\ job[r].email \in Emails
  BY DEF RInv, Fits, Commit, At, RolesAfterUsers, JobsFit, Jobs
<1> DEFINE c == job[r].cid
<1>1. /\ users' = [users EXCEPT ![c] = job[r].email] /\ binding' = [binding EXCEPT ![c] = Observer]
      /\ UNCHANGED <<remote, late, drift, boot, admins>> /\ Return(r)
  BY <1>f DEF Commit
<1>2. job'[r].phase = "idle" /\ \A s \in Requests \ {r} : job'[s] = job[s]
  BY <1>f, <1>1, GivesBack
<1>3. Accounts' = Accounts \cup {c} /\ c \notin Accounts \cup {DefaultUser} /\ remote[c] = Observer
  BY <1>f, <1>1, RegistrationAssumption DEF RatingsInv, NewAccounts, Registering, Accounts, TablesFit
<1>4. \A s \in Requests : job[s].phase \in Changing => job[s].cid \in Accounts
  BY DEF RInv, SeenStays, Changing
<1>5. binding'[c] = Observer /\ \A d \in Cids \ {c} : binding'[d] = binding[d]
  BY <1>f, <1>1 DEF TablesFit
<1>6. LoneChanges'
  BY <1>1, <1>2, <1>3, <1>4 DEF RatingsInv, LoneChanges, Changing
<1>7. NewAccounts'
  BY <1>f, <1>1, <1>2, <1>3 DEF RatingsInv, NewAccounts, Registering
<1>8. RatingsFollow'
  BY <1>1, <1>2, <1>3, <1>5, RegistrationAssumption DEF RatingsInv, RatingsFollow
<1>9. LateKnown' /\ AdminsSeen'
  BY <1>1, <1>3 DEF RatingsInv, LateKnown, AdminsSeen
<1> QED BY <1>6, <1>7, <1>8, <1>9 DEF RatingsInv

\* Threads that change an account are told of another change, and are otherwise
\* what they were.
LEMMA MetFields ==
  ASSUME JobsFit, NEW s \in Requests, NEW c
  PROVE  /\ Met(s, c).phase = job[s].phase
         /\ job[s].phase \notin Changing => Met(s, c) = job[s]
         /\ job[s].phase \in Changing =>
              /\ Met(s, c).cid = job[s].cid /\ Met(s, c).rating = job[s].rating
              /\ Met(s, c).bound = job[s].bound /\ Met(s, c).gone = job[s].gone
              /\ Met(s, c).alone => (job[s].alone /\ job[s].cid # c)
<1>1. CASE job[s].phase \notin Changing
  BY <1>1 DEF Met, Changes, Changing
<1>2. CASE job[s].phase \in Changing
  <2>1. job[s] \in [phase : {"save", "update", "store"}, on : Instances, cid : Cids, rating : Ratings,
                    bound : BOOLEAN, gone : BOOLEAN, alone : BOOLEAN]
    BY <1>2 DEF JobsFit, Jobs, Changing
  <2>2. Changes(s, c) <=> job[s].cid = c
    BY <2>1 DEF Changes, Same
  <2> QED BY <1>2, <2>1, <2>2 DEF Met
<1> QED BY <1>1, <1>2

\* A change begins.
LEMMA UpsertBindingRates ==
  ASSUME RInv, RatingsInv, NEW r \in Requests, NEW i \in Instances, NEW c \in Cids, NEW n \in Ratings,
         UpsertBinding(r, i, c, n)
  PROVE  RatingsInv'
<1>f. JobsFit
  BY DEF RInv, Fits
<1>1. /\ UNCHANGED <<users, binding, remote, late, drift, boot, admins>>
      /\ job[r].phase = "idle"
      /\ \A s \in Requests \ {r} : job'[s] = Met(s, c)
      /\ job'[r] = [phase |-> IF binding[c] # None THEN "update" ELSE "save", on |-> i, cid |-> c, rating |-> n,
                    bound |-> binding[c] # None, gone |-> FALSE,
                    alone |-> \A s \in Requests : ~Changes(s, c)]
  BY DEF UpsertBinding, Arrives, At, dbVars
<1>2. /\ job'[r].phase \in {"save", "update"} /\ job'[r].cid = c /\ job'[r].gone = FALSE
      /\ job'[r].bound => binding[c] # None
      /\ job'[r].alone => \A s \in Requests : ~Changes(s, c)
  <2> DEFINE lone == \A s \in Requests : ~Changes(s, c)
             bound == binding[c] # None
             phase == IF bound THEN "update" ELSE "save"
  <2>1. job'[r] = [phase |-> phase, on |-> i, cid |-> c, rating |-> n, bound |-> bound, gone |-> FALSE,
                   alone |-> lone]
    BY <1>1
  <2>2. phase \in {"save", "update"}
    OBVIOUS
  <2>3. /\ job'[r].phase = phase /\ job'[r].cid = c /\ job'[r].gone = FALSE
        /\ job'[r].bound = bound /\ job'[r].alone = lone
    <3> HIDE DEF lone, bound, phase
    <3> QED BY <2>1
  <2> QED BY <2>2, <2>3
<1>3. \A s \in Requests : job[s].phase \in Changing => "cid" \in DOMAIN job[s]
  BY <1>f DEF JobsFit, Jobs, Changing
<1>4. job'[r].alone => \A s \in Requests : ~(job[s].phase \in Changing /\ job[s].cid = c)
  BY <1>2, <1>3 DEF Changes, Same, Changing
<1>5. LoneChanges'
  <2> SUFFICES ASSUME NEW s \in Requests, job'[s].phase \in Changing
               PROVE  /\ job'[s].alone => \A t \in Requests \ {s} : ~(job'[t].phase \in Changing /\ job'[t].cid = job'[s].cid)
                      /\ job'[s].alone /\ job'[s].phase = "store" => remote[job'[s].cid] = job'[s].rating
                      /\ job'[s].gone => job'[s].cid \in drift
                      /\ job'[s].bound /\ binding[job'[s].cid] = None => job'[s].gone
    BY <1>1 DEF LoneChanges
  <2>1. CASE s = r
    BY <1>f, <1>1, <1>2, <1>4, <2>1, MetFields
  <2>2. CASE s # r
    <3>1. /\ job[s].phase \in Changing /\ job'[s].phase = job[s].phase /\ job'[s].cid = job[s].cid
          /\ job'[s].rating = job[s].rating /\ job'[s].bound = job[s].bound /\ job'[s].gone = job[s].gone
          /\ job'[s].alone => (job[s].alone /\ job[s].cid # c)
      BY <1>f, <1>1, <2>2, MetFields
    <3>2. \A t \in Requests \ {r} : job'[t].phase \in Changing => job[t].phase \in Changing /\ job'[t].cid = job[t].cid
      BY <1>f, <1>1, MetFields
    <3> QED BY <1>1, <1>2, <2>2, <3>1, <3>2 DEF RatingsInv, LoneChanges
  <2> QED BY <2>1, <2>2
<1>6. NewAccounts'
  <2>1. \A s \in Requests : job'[s].phase \in Registering => job'[s] = job[s]
    BY <1>f, <1>1, MetFields DEF Registering, Changing
  <2> QED BY <1>1, <2>1 DEF RatingsInv, NewAccounts, Accounts
<1>7. RatingsFollow'
  <2>1. \A s \in Requests : job[s].phase = "store" => job'[s].phase = "store" /\ job'[s].cid = job[s].cid
    BY <1>f, <1>1, MetFields
  <2> QED BY <1>1, <2>1 DEF RatingsInv, RatingsFollow, Accounts
<1>8. LateKnown' /\ AdminsSeen'
  BY <1>1 DEF RatingsInv, LateKnown, AdminsSeen, Accounts
<1> QED BY <1>5, <1>6, <1>7, <1>8 DEF RatingsInv

\* The FSD server has made the change: the thread has yet to store it.
LEMMA UpdateUserRates ==
  ASSUME RInv, RatingsInv, NEW r \in Requests, UpdateUser(r)
  PROVE  RatingsInv'
<1>f. TablesFit /\ JobsFit
  BY DEF RInv, Fits
<1> DEFINE c == job[r].cid
<1>1. /\ UNCHANGED <<users, binding, late, drift, boot, admins>>
      /\ job[r].phase = "update" /\ c \in Accounts
      /\ remote' = [remote EXCEPT ![c] = job[r].rating]
      /\ job' = [job EXCEPT ![r].phase = "store"]
  BY DEF UpdateUser, At, Goto, dbVars, RInv, SeenStays
<1>2. remote'[c] = job[r].rating /\ \A d \in Cids \ {c} : remote'[d] = remote[d]
  BY <1>f, <1>1 DEF TablesFit, Accounts
<1>4. /\ job'[r].phase = "store" /\ job'[r].cid = c /\ job'[r].rating = job[r].rating
      /\ job'[r].alone = job[r].alone /\ job'[r].gone = job[r].gone /\ job'[r].bound = job[r].bound
  <2>1. job[r] \in [phase : {"save", "update", "store"}, on : Instances, cid : Cids, rating : Ratings,
                    bound : BOOLEAN, gone : BOOLEAN, alone : BOOLEAN]
    BY <1>f, <1>1 DEF JobsFit, Jobs
  <2> QED BY <1>f, <1>1, <2>1 DEF JobsFit
<1>6. LoneChanges'
  <2> SUFFICES ASSUME NEW s \in Requests, job'[s].phase \in Changing
               PROVE  /\ job'[s].alone => \A t \in Requests \ {s} : ~(job'[t].phase \in Changing /\ job'[t].cid = job'[s].cid)
                      /\ job'[s].alone /\ job'[s].phase = "store" => remote'[job'[s].cid] = job'[s].rating
                      /\ job'[s].gone => job'[s].cid \in drift
                      /\ job'[s].bound /\ binding[job'[s].cid] = None => job'[s].gone
    BY <1>1 DEF LoneChanges
  <2>1. CASE s = r
    BY <1>1, <1>2 DEF RatingsInv, LoneChanges, Changing
  <2>2. CASE s # r
    BY <1>1, <1>2 DEF RatingsInv, LoneChanges, Changing
  <2> QED BY <2>1, <2>2
<1>7. NewAccounts'
  BY <1>1 DEF RatingsInv, NewAccounts, Registering, Accounts
<1>8. RatingsFollow'
  BY <1>1, <1>4 DEF RatingsInv, RatingsFollow, Accounts
<1>9. LateKnown' /\ AdminsSeen'
  BY <1>1 DEF RatingsInv, LateKnown, AdminsSeen, Accounts
<1> QED BY <1>6, <1>7, <1>8, <1>9 DEF RatingsInv

\* Nobody waits for the FSD server any more.
LEMMA UpdateUserLostRates ==
  ASSUME RInv, RatingsInv, NEW r \in Requests, UpdateUserLost(r)
  PROVE  RatingsInv'
<1>f. JobsFit
  BY DEF RInv, Fits
<1>1. /\ UNCHANGED <<remote, users, binding, drift, boot, admins>>
      /\ job[r].phase = "update" /\ job[r].cid \in Accounts
      /\ late' = late \cup {<<job[r].cid, job[r].rating>>} /\ Return(r)
  BY DEF UpdateUserLost, At, dbVars, RInv, SeenStays
<1>2. \A s \in Requests : Onward(s)
  BY <1>f, <1>1, GivesBack DEF Onward, Changing, Registering
<1>3. LateKnown' /\ AdminsSeen'
  BY <1>1 DEF RatingsInv, LateKnown, AdminsSeen, Accounts
<1> QED BY <1>f, <1>1, <1>2, <1>3, Undisturbed DEF RatingsInv

\* It makes the change all the same: the account has drifted.
LEMMA LateUpdateRates ==
  ASSUME RInv, RatingsInv, NEW l \in late, LateUpdate(l)
  PROVE  RatingsInv'
<1>f. TablesFit /\ JobsFit /\ l[1] \in Accounts
  BY DEF RInv, Fits, RatingsInv, LateKnown
<1>1. /\ UNCHANGED <<users, binding, boot, admins>> /\ late' \subseteq late /\ drift' = drift \cup {l[1]}
      /\ remote' = [remote EXCEPT ![l[1]] = l[2]]
      /\ \A s \in Requests : job'[s] = Met(s, l[1])
  BY DEF LateUpdate, dbVars
<1>2. \A d \in Cids \ {l[1]} : remote'[d] = remote[d]
  BY <1>1
<1>3. \A s \in Requests : job[s].phase \in Changing \cup Registering => job[s].cid \in Cids
  BY <1>f DEF JobsFit, Jobs, Changing, Registering
<1>4. LoneChanges'
  <2> SUFFICES ASSUME NEW s \in Requests, job'[s].phase \in Changing
               PROVE  /\ job'[s].alone => \A t \in Requests \ {s} : ~(job'[t].phase \in Changing /\ job'[t].cid = job'[s].cid)
                      /\ job'[s].alone /\ job'[s].phase = "store" => remote'[job'[s].cid] = job'[s].rating
                      /\ job'[s].gone => job'[s].cid \in drift'
                      /\ job'[s].bound /\ binding[job'[s].cid] = None => job'[s].gone
    BY <1>1 DEF LoneChanges
  <2>1. /\ job[s].phase \in Changing /\ job'[s].phase = job[s].phase /\ job'[s].cid = job[s].cid
        /\ job'[s].rating = job[s].rating /\ job'[s].bound = job[s].bound /\ job'[s].gone = job[s].gone
        /\ job'[s].alone => (job[s].alone /\ job[s].cid # l[1])
    BY <1>f, <1>1, MetFields
  <2>2. \A t \in Requests : job'[t].phase \in Changing => job[t].phase \in Changing /\ job'[t].cid = job[t].cid
    BY <1>f, <1>1, MetFields
  <2> QED BY <1>1, <1>2, <1>3, <2>1, <2>2 DEF RatingsInv, LoneChanges
<1>5. NewAccounts'
  <2>1. \A s \in Requests : job'[s].phase \in Registering => job'[s] = job[s]
    BY <1>f, <1>1, MetFields DEF Registering, Changing
  <2> QED BY <1>f, <1>1, <1>2, <1>3, <2>1 DEF RatingsInv, NewAccounts, Accounts
<1>6. RatingsFollow'
  <2>1. \A s \in Requests : job[s].phase = "store" => job'[s].phase = "store" /\ job'[s].cid = job[s].cid
    BY <1>f, <1>1, MetFields
  <2> QED BY <1>1, <1>2, <2>1 DEF RatingsInv, RatingsFollow, Accounts
<1>7. LateKnown' /\ AdminsSeen'
  BY <1>1 DEF RatingsInv, LateKnown, AdminsSeen, Accounts
<1> QED BY <1>4, <1>5, <1>6, <1>7 DEF RatingsInv

\* A change is stored: undisturbed, both ratings are the one asked for.
LEMMA StoreRates ==
  ASSUME RInv, RatingsInv, NEW r \in Requests, Store(r)
  PROVE  RatingsInv'
<1>f. TablesFit /\ JobsFit /\ job[r].cid \in Cids
  BY DEF RInv, Fits, Store, At, JobsFit, Jobs
<1> DEFINE c == job[r].cid
<1>1. /\ UNCHANGED <<users, remote, late, boot, admins>>
      /\ job[r].phase = "store" /\ Return(r)
      /\ binding' = IF job[r].gone THEN binding ELSE [binding EXCEPT ![c] = job[r].rating]
      /\ drift' = IF job[r].alone /\ ~job[r].gone THEN drift \ {c} ELSE drift \cup {c}
  BY DEF Store, At
<1>2. job'[r].phase = "idle" /\ \A s \in Requests \ {r} : job'[s] = job[s]
  BY <1>f, <1>1, GivesBack
<1>3. job[r].rating # None
  BY <1>f, <1>1, RegistrationAssumption DEF JobsFit, Jobs
<1>4. \A d \in Cids : binding'[d] = IF d = c /\ ~job[r].gone THEN job[r].rating ELSE binding[d]
  BY <1>f, <1>1 DEF TablesFit
<1>5. \A s \in Requests : job[s].phase \in Changing => job[s].cid \in Cids
  BY <1>f DEF JobsFit, Jobs, Changing
<1>6. LoneChanges'
  <2> SUFFICES ASSUME NEW s \in Requests \ {r}, job[s].phase \in Changing
               PROVE  /\ job[s].alone => \A t \in Requests \ {s} : ~(job'[t].phase \in Changing /\ job'[t].cid = job[s].cid)
                      /\ job[s].alone /\ job[s].phase = "store" => remote[job[s].cid] = job[s].rating
                      /\ job[s].gone => job[s].cid \in drift'
                      /\ job[s].bound /\ binding'[job[s].cid] = None => job[s].gone
    BY <1>1, <1>2 DEF LoneChanges, Changing
  <2>1. job[s].alone => \A t \in Requests \ {s} : ~(job'[t].phase \in Changing /\ job'[t].cid = job[s].cid)
    BY <1>2 DEF RatingsInv, LoneChanges, Changing
  <2>2. job[s].alone /\ job[s].phase = "store" => remote[job[s].cid] = job[s].rating
    BY DEF RatingsInv, LoneChanges
  <2>3. job[s].gone => job[s].cid \in drift'
    BY <1>1 DEF RatingsInv, LoneChanges, Changing
  <2>4. job[s].bound /\ binding'[job[s].cid] = None => job[s].gone
    BY <1>3, <1>4, <1>5 DEF RatingsInv, LoneChanges
  <2> QED BY <2>1, <2>2, <2>3, <2>4
<1>7. NewAccounts'
  BY <1>1, <1>2 DEF RatingsInv, NewAccounts, Registering, Accounts
<1>8. RatingsFollow'
  <2> SUFFICES ASSUME NEW d \in Cids \ drift', \A s \in Requests : ~(job'[s].phase = "store" /\ job'[s].cid = d)
               PROVE  /\ binding'[d] # None => binding'[d] = remote[d]
                      /\ binding'[d] = None /\ d \in Accounts \cup {DefaultUser} =>
                           d = DefaultUser /\ remote[d] = Administrator
    BY <1>1 DEF RatingsFollow, Accounts
  <2>1. CASE d = c
    <3>2. binding'[d] = job[r].rating /\ remote[d] = job[r].rating
      BY <1>1, <1>4, <2>1 DEF RatingsInv, LoneChanges, Changing
    <3> QED BY <1>3, <3>2
  <2>2. CASE d # c
    BY <1>1, <1>2, <2>2 DEF RatingsInv, RatingsFollow
  <2> QED BY <2>1, <2>2
<1>9. LateKnown' /\ AdminsSeen'
  BY <1>1 DEF RatingsInv, LateKnown, AdminsSeen, Accounts
<1> QED BY <1>6, <1>7, <1>8, <1>9 DEF RatingsInv

\* A binding is deleted: the account has drifted, and whoever read the binding
\* is told.
LEMMA DeleteBindingRates ==
  ASSUME RInv, RatingsInv, NEW c \in Cids, DeleteBinding(c)
  PROVE  RatingsInv'
<1>f. TablesFit /\ JobsFit
  BY DEF RInv, Fits
<1>1. /\ UNCHANGED <<users, remote, late, boot, admins>>
      /\ binding' = [binding EXCEPT ![c] = None] /\ drift' = drift \cup {c}
      /\ job' = [s \in Requests |-> IF Changes(s, c) /\ job[s].bound THEN [job[s] EXCEPT !.gone = TRUE]
                                                                ELSE job[s]]
  BY DEF DeleteBinding
<1>2. \A d \in Cids \ {c} : binding'[d] = binding[d]
  BY <1>1
<1>3. ASSUME NEW s \in Requests, job[s].phase \in Changing
      PROVE  /\ job'[s].phase = job[s].phase /\ job'[s].cid = job[s].cid /\ job'[s].rating = job[s].rating
             /\ job'[s].alone = job[s].alone /\ job'[s].bound = job[s].bound
             /\ job'[s].gone => (job[s].gone \/ job[s].cid = c)
             /\ job[s].gone \/ (job[s].bound /\ job[s].cid = c) => job'[s].gone
             /\ job[s].cid \in Cids
  <2>1. job[s] \in [phase : {"save", "update", "store"}, on : Instances, cid : Cids, rating : Ratings,
                    bound : BOOLEAN, gone : BOOLEAN, alone : BOOLEAN]
    BY <1>f, <1>3 DEF JobsFit, Jobs, Changing
  <2>2. Changes(s, c) <=> job[s].cid = c
    BY <2>1 DEF Changes, Same
  <2>3. CASE job[s].cid = c /\ job[s].bound
    <3>1. job'[s] = [job[s] EXCEPT !.gone = TRUE]
      BY <1>1, <2>2, <2>3
    <3> QED BY <2>1, <2>3, <3>1
  <2>4. CASE ~(job[s].cid = c /\ job[s].bound)
    <3>1. job'[s] = job[s]
      BY <1>1, <2>2, <2>4
    <3> QED BY <2>1, <2>4, <3>1
  <2> QED BY <2>3, <2>4
<1>4. \A s \in Requests : job[s].phase \notin Changing => job'[s] = job[s]
  BY <1>1 DEF Changes, Changing
<1>5. LoneChanges'
  <2> SUFFICES ASSUME NEW s \in Requests, job'[s].phase \in Changing
               PROVE  /\ job'[s].alone => \A t \in Requests \ {s} : ~(job'[t].phase \in Changing /\ job'[t].cid = job'[s].cid)
                      /\ job'[s].alone /\ job'[s].phase = "store" => remote[job'[s].cid] = job'[s].rating
                      /\ job'[s].gone => job'[s].cid \in drift'
                      /\ job'[s].bound /\ binding'[job'[s].cid] = None => job'[s].gone
    BY <1>1 DEF LoneChanges
  <2>1. job[s].phase \in Changing
    BY <1>4
  <2>2. \A t \in Requests : job'[t].phase \in Changing => job[t].phase \in Changing /\ job'[t].cid = job[t].cid
    BY <1>3, <1>4
  <2> QED BY <1>1, <1>2, <1>3, <2>1, <2>2 DEF RatingsInv, LoneChanges
<1>6. NewAccounts'
  <2>1. \A s \in Requests : job'[s].phase \in Registering => job'[s] = job[s]
    BY <1>3, <1>4 DEF Registering, Changing
  <2> QED BY <1>1, <2>1 DEF RatingsInv, NewAccounts, Accounts
<1>7. RatingsFollow'
  <2>1. \A s \in Requests : job[s].phase = "store" => job'[s].phase = "store" /\ job'[s].cid = job[s].cid
    BY <1>3 DEF Changing
  <2> QED BY <1>1, <1>2, <2>1 DEF RatingsInv, RatingsFollow, Accounts
<1>8. LateKnown' /\ AdminsSeen'
  BY <1>1 DEF RatingsInv, LateKnown, AdminsSeen, Accounts
<1> QED BY <1>5, <1>6, <1>7, <1>8 DEF RatingsInv

\* A login stores a binding, whatever the FSD server says: the account has drifted.
LEMMA BindRates ==
  ASSUME RInv, RatingsInv, NEW r \in Requests, Bind(r)
  PROVE  RatingsInv'
<1>f. TablesFit /\ JobsFit /\ job[r].cid \in Cids
  BY DEF RInv, Fits, Bind, At, JobsFit, Jobs
<1> DEFINE c == job[r].cid
<1>1. /\ UNCHANGED <<users, remote, late, boot, admins>>
      /\ job[r].phase = "bind" /\ Return(r)
  BY DEF Bind, At
<1>2. job'[r].phase = "idle" /\ \A s \in Requests \ {r} : job'[s] = job[s]
  BY <1>f, <1>1, GivesBack
<1>3. CASE binding[c] # None
  <2>1. UNCHANGED <<binding, drift>>
    BY <1>3 DEF Bind
  <2>2. \A s \in Requests : Onward(s)
    BY <1>1, <1>2 DEF Onward, Changing, Registering
  <2>3. LateKnown' /\ AdminsSeen'
    BY <1>1 DEF RatingsInv, LateKnown, AdminsSeen, Accounts
  <2> QED BY <1>f, <1>1, <2>1, <2>2, <2>3, Undisturbed DEF RatingsInv
<1>4. CASE binding[c] = None
  <2>1. /\ binding' = [binding EXCEPT ![c] = IF job[r].admin THEN Administrator ELSE Observer]
        /\ drift' = drift \cup {c}
    BY <1>4 DEF Bind
  <2>2. /\ \A d \in Cids : binding[d] # None => binding'[d] = binding[d]
        /\ \A d \in Cids \ {c} : binding'[d] = binding[d]
    BY <1>4, <2>1
  <2>3. \A s \in Requests : job[s].phase \in Changing => job[s].cid \in Cids
    BY <1>f DEF JobsFit, Jobs, Changing
  <2>4. LoneChanges'
    BY <1>1, <1>2, <2>1, <2>2, <2>3 DEF RatingsInv, LoneChanges, Changing
  <2>5. NewAccounts'
    BY <1>1, <1>2 DEF RatingsInv, NewAccounts, Registering, Accounts
  <2>6. RatingsFollow'
    BY <1>1, <1>2, <2>1 DEF RatingsInv, RatingsFollow, Accounts
  <2>7. LateKnown' /\ AdminsSeen'
    BY <1>1 DEF RatingsInv, LateKnown, AdminsSeen, Accounts
  <2> QED BY <2>4, <2>5, <2>6, <2>7 DEF RatingsInv
<1> QED BY <1>3, <1>4

\* Every step preserves it.
LEMMA RatingsNext == RInv /\ RatingsInv /\ [Next]_vars => RatingsInv'
<1> SUFFICES ASSUME RInv, RatingsInv, [Next]_vars PROVE RatingsInv'
  OBVIOUS
<1>1. CASE UNCHANGED vars
  <2>1. RatingsInv'
    BY <1>1 DEF vars, dbVars, RatingsInv, LoneChanges, NewAccounts, RatingsFollow, LateKnown, AdminsSeen, Accounts
  <2> QED BY <2>1
<1>2. ASSUME NEW r \in Requests, Step(r) \/ Mishap(r) PROVE RatingsInv'
  BY <1>2, QuietSteps, CreateUserRates, CommitRates, UpdateUserRates, UpdateUserLostRates, StoreRates, BindRates
  DEF Step, Mishap
<1>3. ASSUME NEW r \in Requests, NEW i \in Instances, Begin(r, i) PROVE RatingsInv'
  BY <1>3, QuietArrivals, UpsertBindingRates DEF Begin
<1>4. ASSUME NEW i \in Instances,
             Start(i) \/ SystemBootstrap(i) \/ RbacBegins(i) \/ RbacBootstrap(i) \/ Crash(i)
      PROVE  RatingsInv'
  BY <1>4, QuietInstances, SystemBootstrapRates, RbacBootstrapRates
<1>5. ASSUME NEW e \in Emails, Expire(e) PROVE RatingsInv'
  <2>1. /\ UNCHANGED <<remote, users, binding, late, drift, job, boot>>
    BY <1>5 DEF Expire, dbVars
  <2> QED BY <2>1 DEF RatingsInv, LoneChanges, NewAccounts, RatingsFollow, LateKnown, AdminsSeen, Accounts
<1> QED BY <1>1, <1>2, <1>3, <1>4, <1>5, LateUpdateRates, DeleteBindingRates DEF Next

\* At first only the FSD server knows the default user.
LEMMA RatingsInit == Init => RatingsInv
<1> SUFFICES ASSUME Init PROVE RatingsInv
  OBVIOUS
<1> USE RegistrationAssumption DEF Init, Idle, Down, Accounts, Cids, DefaultUser
<1>1. LoneChanges /\ NewAccounts
  BY DEF LoneChanges, NewAccounts, Changing, Registering
<1>2. RatingsFollow
  BY DEF RatingsFollow
<1>3. LateKnown /\ AdminsSeen
  BY DEF LateKnown, AdminsSeen
<1> QED BY <1>1, <1>2, <1>3 DEF RatingsInv

\* Undisturbed, the ratings of the platform and of the FSD server agree
\* (AtcServiceImpl upsertBinding and deleteBinding, AuthServiceImpl loginEmail and
\* registerByEmail, RbacBootstrapRunner).
THEOREM RatingsAlwaysAgree == Spec => []RatingsAgree
<1>1. RInv /\ RatingsInv => RatingsAgree
  <2> SUFFICES ASSUME RInv, RatingsInv, NEW c \in Accounts \ drift, binding[c] # None,
                      \A s \in Requests : ~Changes(s, c)
               PROVE  binding[c] = remote[c]
    BY DEF RatingsAgree
  <2>1. \A s \in Requests : job[s].phase = "store" => "cid" \in DOMAIN job[s]
    BY DEF RInv, Fits, JobsFit, Jobs
  <2> QED BY <2>1 DEF RatingsInv, RatingsFollow, Accounts, Changes, Same
<1> QED BY <1>1, RatingsInit, RatingsNext, RegistrationInvariant, PTL DEF Spec
-----------------------------------------------------------------------------
(* Who waits for whom.  CanGoOn(r) collects the guards of Step(r).          *)

NextAccount(c) == remote[c] = None /\ \A d \in 1..(c - 1) : remote[d] # None

CanGoOn(r) ==
  \/ job[r].phase \in {"mail", "lookup", "consume", "roles", "commit", "update", "store"}
  \/ At(r, "create") /\ \E c \in Cids : NextAccount(c)
  \/ At(r, "insert") /\ \A s \in Requests : ~Holds(s, job[r].email)
  \/ job[r].phase \in {"save", "bind"} /\ \A s \in Requests : ~Inserted(s, job[r].cid)

\* Whose transaction a thread waits for, and whose the runner of an instance.
HeldBy(r) ==
  {s \in Requests : \/ At(r, "insert") /\ Holds(s, job[r].email)
                    \/ job[r].phase \in {"save", "bind"} /\ Inserted(s, job[r].cid)}
RunnerHeldBy(i) ==
  {s \in Requests : boot[i].phase = "rbac"
                      /\ \E c \in boot[i].view.users \ boot[i].view.bound : Inserted(s, c)}

\* A thread at work goes on, or waits for one that does: nobody waits for a
\* waiter, a runner does not, either, and nobody waits for a runner.  Only the
\* bound on the accounts of the FSD server stops a thread, and that one is
\* waited for by nobody.
NobodyWaitsForAWaiter ==
  /\ \A r \in Requests : job[r] # Idle =>
       \/ CanGoOn(r)
       \/ HeldBy(r) # {}
       \/ At(r, "create") /\ \A c \in Cids : ~NextAccount(c)
  /\ \A r \in Requests : \A s \in HeldBy(r) : CanGoOn(s)
  /\ \A i \in Instances : \A s \in RunnerHeldBy(i) : CanGoOn(s)

\* Who holds a key has inserted a row and waits for nothing any more.
THEOREM WaitsEnd == Spec => []NobodyWaitsForAWaiter
<1>1. ASSUME RInv PROVE NobodyWaitsForAWaiter
  <2>1. ASSUME NEW r \in Requests, job[r] # Idle
        PROVE  \/ CanGoOn(r)
               \/ HeldBy(r) # {}
               \/ At(r, "create") /\ \A c \in Cids : ~NextAccount(c)
    <3>1. job[r] \in Jobs
      BY <1>1 DEF RInv, Fits, JobsFit
    <3>2. job[r].phase \in {"mail", "lookup", "consume", "create", "insert", "roles", "commit",
                            "save", "update", "store", "bind"}
      BY <2>1, <3>1 DEF Jobs, Idle
    <3>3. CASE At(r, "insert")
      BY <3>3 DEF CanGoOn, HeldBy
    <3>4. CASE job[r].phase \in {"save", "bind"}
      BY <3>4 DEF CanGoOn, HeldBy
    <3>5. CASE At(r, "create")
      BY <3>5 DEF CanGoOn
    <3> QED BY <3>2, <3>3, <3>4, <3>5 DEF CanGoOn, At
  <2>2. \A r \in Requests : \A s \in HeldBy(r) : CanGoOn(s)
    BY DEF HeldBy, Holds, Inserted, CanGoOn
  <2>3. \A i \in Instances : \A s \in RunnerHeldBy(i) : CanGoOn(s)
    BY DEF RunnerHeldBy, Inserted, CanGoOn
  <2> QED BY <2>1, <2>2, <2>3 DEF NobodyWaitsForAWaiter
<1> QED BY <1>1, RegistrationInvariant, PTL
=============================================================================
