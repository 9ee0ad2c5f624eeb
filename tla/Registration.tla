----------------------------- MODULE Registration -----------------------------
(***************************************************************************)
(* Registration, bootstrap and controller ratings of the platform          *)
(* (openaimp-backend): one or more instances of the backend share a MySQL  *)
(* database and a Redis server, and call the web API of the FSD server,    *)
(* which has a user table of its own.                                      *)
(*                                                                         *)
(* A transaction reads from the snapshot taken by its first query (the     *)
(* isolation level is InnoDB's default, repeatable read), and what it has  *)
(* written shows when it commits.  Unique keys are compared with what is   *)
(* committed, after a wait for transactions that hold the same key.        *)
(* Neither Redis nor the FSD server takes part in a roll-back.             *)
(*                                                                         *)
(* Captchas, passwords, names, profiles and time stamps are left out.      *)
(***************************************************************************)
EXTENDS Integers, FiniteSets

CONSTANTS
  Requests,    \* threads that serve requests
  Instances,   \* instances of the backend
  Emails,      \* addresses people register with
  AdminEmail,  \* default-user-email, none of Emails
  Ratings,     \* network ratings
  Observer,
  Administrator,
  None,
  MaxCid,      \* bound: accounts of the FSD server
  MaxCodes,    \* bound: e-mail codes
  Budget,      \* bound: requests
  MaxStarts    \* bound: starts of an instance

DefaultUser == 1  \* default-user-cid, the first account of both servers
Cids == 1..MaxCid

ASSUME RegistrationAssumption ==
  /\ MaxCid \in Nat \ {0} /\ MaxCodes \in Nat /\ Budget \in Nat /\ MaxStarts \in Nat
  /\ {Observer, Administrator} \subseteq Ratings /\ Observer # Administrator
  /\ None \notin Ratings \cup Emails \cup {AdminEmail} \cup Nat /\ AdminEmail \notin Emails

VARIABLES
  code,      \* Redis: the e-mail code of an address
  issuedFor, \* the address each code was drawn for (history)
  remote,    \* FSD server: the rating of each account, None if there is none
  users,     \* auth: the address of each account
  ready,     \* rbac_role: the built-in roles are there
  members,   \* rbac_user_role: who has the default role
  admins,    \* rbac_user_role: who is super administrator
  binding,   \* atc: the rating of each account
  boot,      \* how far each instance has started
  job,       \* what each thread does
  begun,     \* requests so far
  starts,    \* starts so far
  late,      \* rating updates of the FSD server that nobody waits for any more
  drift,     \* accounts whose ratings may differ (history)
  proof      \* the code with which an account was registered (history)

dbVars == <<users, ready, members, admins, binding>>
vars == <<code, issuedFor, remote, dbVars, boot, job, begun, starts, late, drift, proof>>

Idle == [phase |-> "idle"]
Down == [phase |-> "down"]
Codes == DOMAIN issuedFor
Accounts == {c \in Cids : users[c] # None}
Taken == {users[c] : c \in Accounts}

Init ==
  /\ code = [e \in Emails |-> None] /\ issuedFor = [c \in {} |-> None]
  /\ remote = [c \in Cids |-> IF c = DefaultUser THEN Administrator ELSE None]
  /\ users = [c \in Cids |-> None]
  /\ ready = FALSE /\ members = {} /\ admins = {}
  /\ binding = [c \in Cids |-> None]
  /\ boot = [i \in Instances |-> Down]
  /\ job = [r \in Requests |-> Idle]
  /\ begun = 0 /\ starts = 0
  /\ late = {} /\ drift = {}
  /\ proof = [c \in Cids |-> None]

At(r, phase) == job[r].phase = phase
\* Two threads work on the same field of their requests.
Same(r, field, x) == field \in DOMAIN job[r] /\ job[r][field] = x
Goto(r, phase) == job' = [job EXCEPT ![r].phase = phase]
Return(r) == job' = [job EXCEPT ![r] = Idle]
\* A transaction holds the key of a binding that it has inserted.
Inserted(s, c) == Same(s, "cid", c) /\ job[s].phase \in {"update", "store"} /\ ~job[s].bound
Serves(i) == boot[i].phase # "down"

\* A request arrives; Mark(s) is what it makes of the other threads s.
Arrives(r, j, Mark(_)) ==
  /\ At(r, "idle") /\ begun < Budget /\ Serves(j.on)
  /\ begun' = begun + 1
  /\ job' = [s \in Requests |-> IF s = r THEN j ELSE Mark(s)]
Unmarked(s) == job[s]

-----------------------------------------------------------------------------
(* Bootstrap.  The web server serves requests before the runners have run. *)

Start(i) ==
  /\ boot[i].phase = "down" /\ starts < MaxStarts
  /\ starts' = starts + 1
  /\ boot' = [boot EXCEPT ![i] = [phase |-> "system", missing |-> DefaultUser \notin Accounts]]
  /\ UNCHANGED <<code, issuedFor, remote, dbVars, job, begun, late, drift, proof>>

\* A runner fails on a duplicate key, and the instance with it.
GivesUp(i) ==
  /\ boot' = [boot EXCEPT ![i] = Down]
  /\ job' = [r \in Requests |-> IF Same(r, "on", i) THEN Idle ELSE job[r]]
  /\ drift' = drift \cup {job[r].cid : r \in {s \in Requests : Same(s, "on", i) /\ At(s, "store")}}

\* SystemBootstrapRunner: the default user.
SystemBootstrap(i) ==
  /\ boot[i].phase = "system"
  /\ LET missing == boot[i].missing IN
     IF missing /\ users[DefaultUser] # None
       THEN GivesUp(i) /\ UNCHANGED users
       ELSE /\ users' = IF missing THEN [users EXCEPT ![DefaultUser] = AdminEmail] ELSE users
            /\ boot' = [boot EXCEPT ![i] = [phase |-> "between"]]
            /\ UNCHANGED <<job, drift>>
  /\ UNCHANGED <<code, issuedFor, remote, ready, members, admins, binding, begun, starts, late, proof>>

\* RbacBootstrapRunner begins its transaction.
RbacBegins(i) ==
  /\ boot[i].phase = "between"
  /\ boot' = [boot EXCEPT ![i] =
       [phase |-> "rbac", view |-> [users |-> Accounts, ready |-> ready, members |-> members,
                                    admins |-> admins, bound |-> {c \in Cids : binding[c] # None}]]]
  /\ UNCHANGED <<code, issuedFor, remote, dbVars, job, begun, starts, late, drift, proof>>

\* Faulty: the super administrator gets no other role.
NewMembersButAdmin(v) == IF v.admins = {} THEN v.users \ (v.members \cup {DefaultUser})
                                          ELSE v.users \ v.members

\* Who gets the default role.
NewMembers(v) == v.users \ v.members

\* What it inserts: roles, the default role for all, a super administrator
\* when there is none, and bindings, for which it waits like everybody else.
RbacBootstrap(i) ==
  /\ boot[i].phase = "rbac"
  /\ LET v == boot[i].view
         first == CHOOSE c \in v.users : \A d \in v.users : c <= d
         newMembers == NewMembers(v)
         newAdmins == IF v.admins = {} /\ v.users # {} THEN {first} ELSE {}
         unbound == v.users \ v.bound
         duplicate == \/ ~v.ready /\ ready
                      \/ newMembers \cap members # {}
                      \/ newAdmins \cap admins # {}
                      \/ \E c \in unbound : binding[c] # None
     IN IF duplicate
          THEN GivesUp(i) /\ UNCHANGED <<ready, members, admins, binding>>
          ELSE /\ \A c \in unbound, s \in Requests : ~Inserted(s, c)
               /\ ready' = TRUE
               /\ members' = members \cup newMembers
               /\ admins' = admins \cup newAdmins
               /\ binding' = [c \in Cids |->
                    IF c \notin unbound THEN binding[c]
                    ELSE IF c \in v.admins \cup newAdmins THEN Administrator ELSE Observer]
               /\ boot' = [boot EXCEPT ![i] = [phase |-> "up"]]
               /\ UNCHANGED <<job, drift>>
  /\ UNCHANGED <<code, issuedFor, remote, users, begun, starts, late, proof>>

\* An instance stops, whatever it is doing.  Open transactions are rolled back.
Crash(i) ==
  /\ Serves(i)
  /\ GivesUp(i)
  /\ UNCHANGED <<code, issuedFor, remote, dbVars, begun, starts, late, proof>>

-----------------------------------------------------------------------------
(* E-mail codes.                                                           *)

\* sendEmailCode: a new code replaces that of the address.  Threads that are
\* about to delete the code of this address will delete the new one.
SendEmailCode(r, i, e) ==
  /\ Cardinality(Codes) < MaxCodes
  /\ LET c == Cardinality(Codes) + 1
         Overtake(s) == IF Same(s, "email", e) /\ job[s].phase \in {"mail", "consume"}
                          THEN [job[s] EXCEPT !.overtaken = TRUE] ELSE job[s]
     IN /\ Arrives(r, [phase |-> "mail", on |-> i, email |-> e, code |-> c, overtaken |-> FALSE], Overtake)
        /\ code' = [code EXCEPT ![e] = c]
        /\ issuedFor' = [d \in Codes \cup {c} |-> IF d = c THEN e ELSE issuedFor[d]]
  /\ UNCHANGED <<remote, dbVars, boot, starts, late, drift, proof>>

MailSent(r) ==
  /\ At(r, "mail")
  /\ Return(r)
  /\ UNCHANGED <<code, issuedFor, remote, dbVars, boot, begun, starts, late, drift, proof>>

\* The code of the address is deleted, whichever it is.
MailFails(r) ==
  /\ At(r, "mail")
  /\ code' = [code EXCEPT ![job[r].email] = None]
  /\ Return(r)
  /\ UNCHANGED <<issuedFor, remote, dbVars, boot, begun, starts, late, drift, proof>>

Expire(e) ==
  /\ code[e] # None
  /\ code' = [code EXCEPT ![e] = None]
  /\ UNCHANGED <<issuedFor, remote, dbVars, boot, job, begun, starts, late, drift, proof>>

-----------------------------------------------------------------------------
(* registerByEmail.                                                        *)

\* The address is looked for, with the first query of the transaction.
Register(r, i, e, c) ==
  /\ e \notin Taken
  /\ Arrives(r, [phase |-> "lookup", on |-> i, email |-> e, code |-> c, overtaken |-> FALSE,
                 view |-> [ready |-> ready, first |-> Accounts = {} /\ admins = {}]], Unmarked)
  /\ UNCHANGED <<code, issuedFor, remote, dbVars, boot, starts, late, drift, proof>>

\* Faulty: takes the code out first and compares it afterwards.
LookUpDeletes(r) ==
  /\ At(r, "lookup")
  /\ code' = [code EXCEPT ![job[r].email] = None]
  /\ IF code[job[r].email] = job[r].code THEN Goto(r, "consume") ELSE Return(r)
  /\ UNCHANGED <<issuedFor, remote, dbVars, boot, begun, starts, late, drift, proof>>

\* Faulty: any code that was drawn for somebody will do.
LookUpAny(r) ==
  /\ At(r, "lookup")
  /\ Goto(r, "consume")
  /\ UNCHANGED <<code, issuedFor, remote, dbVars, boot, begun, starts, late, drift, proof>>

\* validateEmailCode: get and compare ...
LookUp(r) ==
  /\ At(r, "lookup")
  /\ IF code[job[r].email] = job[r].code THEN Goto(r, "consume") ELSE Return(r)
  /\ UNCHANGED <<code, issuedFor, remote, dbVars, boot, begun, starts, late, drift, proof>>

\* ... and delete.
Consume(r) ==
  /\ At(r, "consume")
  /\ code' = [code EXCEPT ![job[r].email] = None]
  /\ Goto(r, "create")
  /\ UNCHANGED <<issuedFor, remote, dbVars, boot, begun, starts, late, drift, proof>>

\* The next account of the FSD server.
CreatesAccount(c) ==
  /\ remote[c] = None /\ \A d \in 1..(c - 1) : remote[d] # None
  /\ remote' = [remote EXCEPT ![c] = Observer]

\* A number that the platform has already ends the registration (existsById);
\* nobody has one that the FSD server draws only now.
CreateUser(r) ==
  /\ At(r, "create")
  /\ \E c \in Cids :
       /\ CreatesAccount(c)
       /\ IF c \in Accounts
            THEN Return(r)
            ELSE job' = [job EXCEPT ![r] = [phase |-> "insert", on |-> @.on, email |-> @.email, code |-> @.code,
                                           view |-> @.view, cid |-> c]]
  /\ UNCHANGED <<code, issuedFor, dbVars, boot, begun, starts, late, drift, proof>>

\* The account is created, but the answer comes too late.
CreateUserLost(r) ==
  /\ At(r, "create")
  /\ \E c \in Cids : CreatesAccount(c)
  /\ Return(r)
  /\ UNCHANGED <<code, issuedFor, dbVars, boot, begun, starts, late, drift, proof>>

Holds(s, e) == Same(s, "email", e) /\ job[s].phase \in {"roles", "commit"}

\* insertWithCid: waits for a transaction that holds the address, and fails if
\* that one committed.
Insert(r) ==
  /\ At(r, "insert")
  /\ \A s \in Requests : ~Holds(s, job[r].email)
  /\ IF job[r].email \in Taken THEN Return(r) ELSE Goto(r, "roles")
  /\ UNCHANGED <<code, issuedFor, remote, dbVars, boot, begun, starts, late, drift, proof>>

\* Faulty: waits for the roles.
EnsureRolesWaits(r) ==
  /\ At(r, "roles") /\ ready
  /\ Goto(r, "commit")
  /\ UNCHANGED <<code, issuedFor, remote, dbVars, boot, begun, starts, late, drift, proof>>

\* Faulty: registers without a role while there is none.
EnsureRolesLater(r) ==
  /\ At(r, "roles")
  /\ Goto(r, "commit")
  /\ UNCHANGED <<code, issuedFor, remote, dbVars, boot, begun, starts, late, drift, proof>>

\* ensureDefaultRolesForNewUser: without the built-in roles, an exception.
EnsureRoles(r) ==
  /\ At(r, "roles")
  /\ IF job[r].view.ready THEN Goto(r, "commit") ELSE Return(r)
  /\ UNCHANGED <<code, issuedFor, remote, dbVars, boot, begun, starts, late, drift, proof>>

\* Account, default role, binding: the transaction commits.  The first account
\* of all becomes super administrator, on the FSD server, too.  The code tells the
\* FSD server before it commits; here both are one step, because nobody gets here
\* as the first: a snapshot without the default user has no roles, and
\* EnsureRoles fails.
Commit(r) ==
  /\ At(r, "commit")
  /\ LET c == job[r].cid
         promoted == job[r].view.first
     IN /\ users' = [users EXCEPT ![c] = job[r].email]
        /\ members' = members \cup {c}
        /\ admins' = IF promoted THEN admins \cup {c} ELSE admins
        /\ binding' = [binding EXCEPT ![c] = IF promoted THEN Administrator ELSE Observer]
        /\ remote' = IF promoted THEN [remote EXCEPT ![c] = Administrator] ELSE remote
        /\ proof' = [proof EXCEPT ![c] = job[r].code]
  /\ Return(r)
  /\ UNCHANGED <<code, issuedFor, ready, boot, begun, starts, late, drift>>

\* A query, a request or the commit fails: an exception and a roll-back.
Fail(r) ==
  /\ job[r].phase \in {"lookup", "consume", "create", "insert", "roles", "commit",
                      "save", "update", "store", "bind"}
  /\ drift' = IF At(r, "store") THEN drift \cup {job[r].cid} ELSE drift
  /\ Return(r)
  /\ UNCHANGED <<code, issuedFor, remote, dbVars, boot, begun, starts, late, proof>>

-----------------------------------------------------------------------------
(* Bindings of controllers: AtcServiceImpl, and loginEmail.                *)

Changes(s, c) == Same(s, "cid", c) /\ job[s].phase \in {"save", "update", "store"}

\* What another change of the account makes of a thread that is changing it.
Met(s, c) == IF Changes(s, c) THEN [job[s] EXCEPT !.alone = FALSE] ELSE job[s]

\* upsertBinding reads the account and its binding.
UpsertBinding(r, i, c, n) ==
  /\ c \in Accounts
  /\ LET bound == binding[c] # None
         NotAlone(s) == Met(s, c)
     IN Arrives(r, [phase |-> IF bound THEN "update" ELSE "save", on |-> i, cid |-> c, rating |-> n,
                    bound |-> bound, gone |-> FALSE, alone |-> \A s \in Requests : ~Changes(s, c)], NotAlone)
  /\ UNCHANGED <<code, issuedFor, remote, dbVars, boot, starts, late, drift, proof>>

\* A binding that was not there is inserted before the request.
Save(r) ==
  /\ At(r, "save")
  /\ \A s \in Requests : ~Inserted(s, job[r].cid)
  /\ IF binding[job[r].cid] # None THEN Return(r) ELSE Goto(r, "update")
  /\ UNCHANGED <<code, issuedFor, remote, dbVars, boot, begun, starts, late, drift, proof>>

\* Faulty: goes on when the FSD server does not answer.
UpdateUserIgnored(r) ==
  /\ At(r, "update")
  /\ remote' \in {remote, [remote EXCEPT ![job[r].cid] = job[r].rating]}
  /\ Goto(r, "store")
  /\ UNCHANGED <<code, issuedFor, dbVars, boot, begun, starts, late, drift, proof>>

\* fsdService.updateUser.
UpdateUser(r) ==
  /\ At(r, "update")
  /\ remote' = [remote EXCEPT ![job[r].cid] = job[r].rating]
  /\ Goto(r, "store")
  /\ UNCHANGED <<code, issuedFor, dbVars, boot, begun, starts, late, drift, proof>>

\* No answer in time: the transaction is rolled back, the FSD server may or may
\* not make the change, and when is open.
UpdateUserLost(r) ==
  /\ At(r, "update")
  /\ late' = late \cup {<<job[r].cid, job[r].rating>>}
  /\ Return(r)
  /\ UNCHANGED <<code, issuedFor, remote, dbVars, boot, begun, starts, drift, proof>>

LateUpdate(l) ==
  /\ remote' = [remote EXCEPT ![l[1]] = l[2]]
  /\ late' = late \ {l}
  /\ drift' = drift \cup {l[1]}
  /\ job' = [s \in Requests |-> Met(s, l[1])]
  /\ UNCHANGED <<code, issuedFor, dbVars, boot, begun, starts, proof>>

\* The transaction commits.  A binding that was there is updated only now, and
\* by its own id: if it has been deleted in between, an exception.
Store(r) ==
  /\ At(r, "store")
  /\ LET c == job[r].cid
         gone == job[r].gone
     IN /\ binding' = IF gone THEN binding ELSE [binding EXCEPT ![c] = job[r].rating]
        /\ drift' = IF job[r].alone /\ ~gone THEN drift \ {c} ELSE drift \cup {c}
  /\ Return(r)
  /\ UNCHANGED <<code, issuedFor, remote, users, ready, members, admins, boot, begun, starts, late, proof>>

\* deleteBinding, without a word to the FSD server.
DeleteBinding(c) ==
  /\ binding[c] # None /\ \E i \in Instances : Serves(i)
  /\ binding' = [binding EXCEPT ![c] = None]
  /\ job' = [s \in Requests |-> IF Changes(s, c) /\ job[s].bound THEN [job[s] EXCEPT !.gone = TRUE]
                                                              ELSE job[s]]
  /\ drift' = drift \cup {c}
  /\ begun < Budget /\ begun' = begun + 1
  /\ UNCHANGED <<code, issuedFor, remote, users, ready, members, admins, boot, starts, late, proof>>

\* loginEmail, outside of any transaction, finds no binding ...
Login(r, i, c) ==
  /\ c \in Accounts /\ binding[c] = None
  /\ Arrives(r, [phase |-> "bind", on |-> i, cid |-> c, admin |-> c \in admins], Unmarked)
  /\ UNCHANGED <<code, issuedFor, remote, dbVars, boot, starts, late, drift, proof>>

\* ... and stores one with the default rating, which need not be the one of the
\* FSD server: roles may not be there yet, or a binding has been deleted.
Bind(r) ==
  /\ At(r, "bind")
  /\ \A s \in Requests : ~Inserted(s, job[r].cid)
  /\ LET c == job[r].cid IN
     IF binding[c] # None
       THEN UNCHANGED <<binding, drift>>
       ELSE /\ binding' = [binding EXCEPT ![c] = IF job[r].admin THEN Administrator ELSE Observer]
            /\ drift' = drift \cup {c}
  /\ Return(r)
  /\ UNCHANGED <<code, issuedFor, remote, users, ready, members, admins, boot, begun, starts, late, proof>>

-----------------------------------------------------------------------------
Step(r) ==
  \/ MailSent(r)
  \/ LookUp(r)
  \/ Consume(r)
  \/ CreateUser(r)
  \/ Insert(r)
  \/ EnsureRoles(r)
  \/ Commit(r)
  \/ Save(r)
  \/ UpdateUser(r)
  \/ Store(r)
  \/ Bind(r)

Begin(r, i) ==
  \/ \E e \in Emails : SendEmailCode(r, i, e)
  \/ \E e \in Emails, c \in Codes : Register(r, i, e, c)
  \/ \E c \in Cids, n \in Ratings : UpsertBinding(r, i, c, n)
  \/ \E c \in Cids : Login(r, i, c)

Mishap(r) ==
  \/ MailFails(r)
  \/ CreateUserLost(r)
  \/ UpdateUserLost(r)
  \/ Fail(r)

Next ==
  \/ \E i \in Instances : Start(i) \/ SystemBootstrap(i) \/ RbacBegins(i) \/ RbacBootstrap(i) \/ Crash(i)
  \/ \E r \in Requests : Step(r) \/ Mishap(r) \/ \E i \in Instances : Begin(r, i)
  \/ \E e \in Emails : Expire(e)
  \/ \E l \in late : LateUpdate(l)
  \/ \E c \in Cids : DeleteBinding(c)

Spec == Init /\ [][Next]_vars

-----------------------------------------------------------------------------
(* Properties.                                                             *)

\* Type correctness.
TypeOK ==
  /\ code \in [Emails -> Codes \cup {None}] /\ \A c \in Codes : issuedFor[c] \in Emails
  /\ remote \in [Cids -> Ratings \cup {None}]
  /\ users \in [Cids -> Emails \cup {AdminEmail, None}]
  /\ ready \in BOOLEAN /\ members \subseteq Accounts /\ admins \subseteq members
  /\ binding \in [Cids -> Ratings \cup {None}]
  /\ \A c \in Cids : binding[c] # None => c \in Accounts
  /\ late \subseteq Cids \X Ratings /\ drift \subseteq Cids

\* However many instances start and people register meanwhile, nobody but the
\* default user ever becomes super administrator automatically.
OneAutomaticAdmin == admins \subseteq {DefaultUser}

\* There are no half accounts: whoever can log in to the platform has an account
\* on the FSD server and, when registered, the default role; nobody shares the
\* address with another account; and the code presented was drawn for it.
AccountsComplete ==
  \A c \in Accounts :
    /\ remote[c] # None
    /\ c # DefaultUser => c \in members /\ proof[c] \in Codes /\ issuedFor[proof[c]] = users[c]
    /\ \A d \in Accounts \ {c} : users[d] # users[c]

\* A code that is in the mail stays valid: it is only taken by whoever presents
\* it, by its own failed mail, by time, or by a thread that was overtaken by a
\* request for a new code.
CodesKept ==
  [][\A e \in Emails :
       code[e] # None /\ code'[e] = None =>
         \/ \E r \in Requests : /\ Same(r, "email", e) /\ job[r].phase \in {"mail", "consume"}
                                /\ job'[r].phase # job[r].phase
                                /\ job[r].code = code[e] \/ job[r].overtaken
         \/ Expire(e)]_vars

\* Undisturbed, the ratings of the platform and of the FSD server agree: they
\* may differ only after changes of one account that overlapped, an answer that
\* was lost, or a binding that was deleted or stored by a login, and then until
\* the next change that meets no such thing.
RatingsAgree ==
  \A c \in Accounts \ drift :
    binding[c] # None /\ (\A s \in Requests : ~Changes(s, c)) => binding[c] = remote[c]

\* Threads do not wait for each other in a circle: while requests are under way,
\* one of them can go on.
SomebodyGoesOn ==
  (\E r \in Requests : job[r] # Idle) => \E r \in Requests : ENABLED Step(r)
=============================================================================
