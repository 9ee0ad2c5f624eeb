------------------------------ MODULE Accounts ------------------------------
(***************************************************************************)
(* Accounts and tokens: the user and configuration tables (db/), the web   *)
(* API that reads and writes them (web/auth.go, user.go, config.go,        *)
(* api_tokens.go), and the FSD server, which lets users in by password or  *)
(* by token (fsd/conn.go attemptAuthentication).                           *)
(*                                                                         *)
(* Every request has a handler of its own.  A query or an update of the    *)
(* database is one step; between the steps of a handler others run, so     *)
(* what it has read may be out of date when it is used.  A token carries   *)
(* the rating its user had when it was issued and is signed with the       *)
(* secret key of that moment; the keys are numbered, and key says how many *)
(* resets there have been.  Expiry is left out: it only takes tokens out   *)
(* of circulation, and whoever holds one need not use it.                  *)
(***************************************************************************)
EXTENDS Naturals, FiniteSets

CONSTANTS
  Cids,           \* account numbers
  FirstAdmin,     \* the account that NewDefaultServer creates
  Handlers,       \* requests under way at the same time
  Passwords,      \* what users type
  FirstPassword,  \* the password of the first account
  Absent,         \* in an update: no password field
  Empty,          \* in an update: the empty password
  MaxKey,         \* bound on the resets of the secret key
  Budget          \* bound on the requests

\* The ratings that the code tells apart; Suspended is inactive accounts, too.
Suspended == 0
Observer == 1
Supervisor == 2
Admin == 3
Ratings == Suspended..Admin

ASSUME AccountsAssumption ==
  /\ FirstAdmin \in Cids
  /\ FirstPassword \in Passwords
  /\ Absent \notin Passwords /\ Empty \notin Passwords
  /\ MaxKey \in Nat
  /\ Budget \in Nat

VARIABLES
  users,    \* the user table: accounts with their password hash and rating
  key,      \* JWT_SECRET_KEY in the configuration table
  tokens,   \* tokens that have been issued
  pc,       \* where a handler is
  job,      \* its local variables
  online,   \* users of the FSD server: account, and the rating it claims
  held,     \* held[cid]: ratings the account has ever had
  budget

vars == <<users, key, tokens, pc, job, online, held, budget>>

\* bcrypt: a hash matches what it was made of, be that a password or a hash.
Hash(x) == <<"hash", x>>
Matches(password, hash) == hash = Hash(password)

Token(type, cid, rating, k) == [type |-> type, cid |-> cid, rating |-> rating, key |-> k]

\* ParseJwtToken with the key of the moment, and the check of the token type.
Valid(t, type) == t.key = key /\ t.type = type

NoJob == [cid |-> FirstAdmin]

\* Between which queries a handler can be.
Phases == {"idle", "sign", "reload", "reset", "config", "create", "load", "update"}

Init ==
  /\ users = [c \in {FirstAdmin} |-> [password |-> Hash(FirstPassword), rating |-> Admin]]
  /\ key = 0
  /\ tokens = {}
  /\ pc = [h \in Handlers |-> "idle"]
  /\ job = [h \in Handlers |-> NoJob]
  /\ online = {}
  /\ held = [c \in Cids |-> IF c = FirstAdmin THEN {Admin} ELSE {}]
  /\ budget = Budget

\* A request comes in, passes its checks, and goes on at p; one that does not
\* pass is answered and changes nothing.
Receive(h, p, j) ==
  /\ pc[h] = "idle"
  /\ budget > 0 /\ budget' = budget - 1
  /\ pc' = [pc EXCEPT ![h] = p]
  /\ job' = [job EXCEPT ![h] = j]

Return(h) ==
  /\ pc' = [pc EXCEPT ![h] = "idle"]
  /\ job' = [job EXCEPT ![h] = NoJob]

Store(c, user) ==
  /\ users' = [d \in DOMAIN users \cup {c} |-> IF d = c THEN user ELSE users[d]]
  /\ held' = [held EXCEPT ![c] = @ \cup {user.rating}]

-----------------------------------------------------------------------------
(* Requests that end in tokens: the user is read first, the key later.     *)

\* getAccessRefreshTokens
Login(h, c, password) ==
  /\ c \in DOMAIN users
  /\ Matches(password, users[c].password)
  /\ Receive(h, "sign", [cid |-> c, rating |-> users[c].rating, types |-> {"access", "refresh"}])
  /\ UNCHANGED <<users, key, tokens, online, held>>

\* getFsdJwt
FsdJwt(h, c) ==
  /\ c \in DOMAIN users
  /\ users[c].rating > Suspended
  /\ Receive(h, "sign", [cid |-> c, rating |-> users[c].rating, types |-> {"fsd"}])
  /\ UNCHANGED <<users, key, tokens, online, held>>

\* handleCreateNewAPIToken
CreateApiToken(h, t) ==
  /\ Valid(t, "access")
  /\ t.rating >= Admin
  /\ Receive(h, "sign", [cid |-> t.cid, rating |-> Admin, types |-> {"access"}])
  /\ UNCHANGED <<users, key, tokens, online, held>>

Sign(h) ==
  /\ pc[h] = "sign"
  /\ tokens' = tokens \cup {Token(type, job[h].cid, job[h].rating, key) : type \in job[h].types}
  /\ Return(h)
  /\ UNCHANGED <<users, key, online, held, budget>>

\* refreshAccessToken: the key is read before the user, and used to sign.
Refresh(h, t) ==
  /\ Valid(t, "refresh")
  /\ Receive(h, "reload", [cid |-> t.cid, key |-> key])
  /\ UNCHANGED <<users, key, tokens, online, held>>

Reissue(h) ==
  /\ pc[h] = "reload"
  /\ LET c == job[h].cid IN
       tokens' = tokens \cup {Token("access", c, users[c].rating, job[h].key)}
  /\ Return(h)
  /\ UNCHANGED <<users, key, online, held, budget>>

-----------------------------------------------------------------------------
(* Requests that write.                                                    *)

\* handleResetSecretKey
ResetKey(h, t) ==
  /\ Valid(t, "access")
  /\ t.rating >= Admin
  /\ Receive(h, "reset", NoJob)
  /\ UNCHANGED <<users, key, tokens, online, held>>

ResetWrite(h) ==
  /\ pc[h] = "reset"
  /\ key < MaxKey
  /\ key' = key + 1
  /\ Return(h)
  /\ UNCHANGED <<users, tokens, online, held, budget>>

\* handleUpdateConfig: an administrator may give the key any value, also one that
\* it had before.  The other settings play no part here.
UpdateConfig(h, t) ==
  /\ Valid(t, "access")
  /\ t.rating >= Admin
  /\ Receive(h, "config", NoJob)
  /\ UNCHANGED <<users, key, tokens, online, held>>

ConfigWrite(h) ==
  /\ pc[h] = "config"
  /\ key' \in 0..MaxKey
  /\ Return(h)
  /\ UNCHANGED <<users, tokens, online, held, budget>>

\* createUser: nobody creates an account above his own rating.
CreateUser(h, t, password, rating) ==
  /\ Valid(t, "access")
  /\ t.rating >= Supervisor
  /\ rating <= t.rating
  /\ Receive(h, "create", [password |-> password, rating |-> rating])
  /\ UNCHANGED <<users, key, tokens, online, held>>

CreateWrite(h) ==
  /\ pc[h] = "create"
  /\ \E c \in Cids \ DOMAIN users :
       Store(c, [password |-> Hash(job[h].password), rating |-> job[h].rating])
  /\ Return(h)
  /\ UNCHANGED <<key, tokens, online, budget>>

\* updateUser up to GetUserByCID.  A request without a rating fails to bind.
UpdateUser(h, t, c, password, rating) ==
  /\ Valid(t, "access")
  /\ t.rating >= Supervisor
  /\ Receive(h, "load", [claims |-> t.rating, cid |-> c, password |-> password,
                         rating |-> rating, stored |-> Absent])
  /\ UNCHANGED <<users, key, tokens, online, held>>

\* The user is read and compared with the claims.
UpdateLoad(h) ==
  /\ pc[h] = "load"
  /\ LET c == job[h].cid IN
       IF c \in DOMAIN users /\ users[c].rating <= job[h].claims
         THEN /\ pc' = [pc EXCEPT ![h] = "update"]
              /\ job' = [job EXCEPT ![h].stored = users[c].password]
         ELSE Return(h)
  /\ UNCHANGED <<users, key, tokens, online, held, budget>>

\* A request without a password leaves the field of the user as it was read,
\* which is the stored hash; UserRepo.UpdateUser hashes and stores whatever is in
\* the field, except the empty password.
UpdateWrite(h) ==
  /\ pc[h] = "update"
  /\ LET j == job[h]
         password == IF j.password = Absent THEN j.stored ELSE j.password
     IN  Store(j.cid, [rating |-> j.rating,
                       password |-> IF password = Empty THEN users[j.cid].password
                                                        ELSE Hash(password)])
  /\ Return(h)
  /\ UNCHANGED <<key, tokens, online, budget>>

-----------------------------------------------------------------------------
(* The FSD server: attemptAuthentication.                                  *)

LogOn(c, rating) ==
  /\ budget > 0 /\ budget' = budget - 1
  /\ online' = online \cup {[cid |-> c, rating |-> rating]}

\* Faulty: suspended accounts get in.
LogOnSuspended(c, password, rating) ==
  /\ c \in DOMAIN users
  /\ Matches(password, users[c].password)
  /\ rating <= users[c].rating
  /\ LogOn(c, rating)
  /\ UNCHANGED <<users, key, tokens, pc, job, held>>

LogOnByPassword(c, password, rating) ==
  /\ c \in DOMAIN users
  /\ Matches(password, users[c].password)
  /\ rating <= users[c].rating /\ rating >= Observer
  /\ LogOn(c, rating)
  /\ UNCHANGED <<users, key, tokens, pc, job, held>>

\* Faulty: the claimed rating is not compared with that of the token.
LogOnByTokenUnchecked(t, rating) ==
  /\ Valid(t, "fsd")
  /\ rating >= Observer
  /\ LogOn(t.cid, rating)
  /\ UNCHANGED <<users, key, tokens, pc, job, held>>

LogOnByToken(t, rating) ==
  /\ Valid(t, "fsd")
  /\ rating <= t.rating /\ rating >= Observer
  /\ LogOn(t.cid, rating)
  /\ UNCHANGED <<users, key, tokens, pc, job, held>>

LogOff(o) ==
  /\ online' = online \ {o}
  /\ UNCHANGED <<users, key, tokens, pc, job, held, budget>>

-----------------------------------------------------------------------------
Next ==
  \/ \E h \in Handlers :
       \/ \E c \in Cids, p \in Passwords : Login(h, c, p)
       \/ \E c \in Cids : FsdJwt(h, c)
       \/ \E t \in tokens :
            \/ CreateApiToken(h, t)
            \/ Refresh(h, t)
            \/ ResetKey(h, t)
            \/ UpdateConfig(h, t)
            \/ \E p \in Passwords, r \in Ratings : CreateUser(h, t, p, r)
            \/ \E c \in Cids, p \in Passwords \cup {Absent, Empty}, r \in Ratings :
                 UpdateUser(h, t, c, p, r)
       \/ Sign(h)
       \/ Reissue(h)
       \/ ResetWrite(h)
       \/ ConfigWrite(h)
       \/ CreateWrite(h)
       \/ UpdateLoad(h)
       \/ UpdateWrite(h)
  \/ \E c \in Cids, p \in Passwords, r \in Ratings : LogOnByPassword(c, p, r)
  \/ \E t \in tokens, r \in Ratings : LogOnByToken(t, r)
  \/ \E o \in online : LogOff(o)

Spec == Init /\ [][Next]_vars

-----------------------------------------------------------------------------
(* Properties.                                                             *)

\* Users of the table have a hash, never a password, and a rating; nobody is
\* online with less than the rating of an observer (fsd/conn.go).
TypeOK ==
  /\ DOMAIN users \subseteq Cids
  /\ \A c \in DOMAIN users : users[c].rating \in Ratings /\ users[c].password[1] = "hash"
  /\ key \in 0..MaxKey
  /\ tokens \subseteq [type : {"access", "refresh", "fsd"}, cid : Cids,
                       rating : Ratings, key : 0..MaxKey]
  /\ pc \in [Handlers -> Phases]
  /\ online \subseteq [cid : Cids, rating : Observer..Admin]
  /\ held \in [Cids -> SUBSET Ratings]
  /\ budget \in 0..Budget

\* Ratings are granted: whatever rating a token carries was once the rating of
\* its account, and nobody is online with more than his account ever had,
\* whatever happened to the account between the steps of the handlers.
RatingsGranted ==
  /\ \A t \in tokens : t.rating \in held[t.cid]
  /\ \A o \in online : \E r \in held[o.cid] : o.rating <= r

\* What a handler at p may carry from one query to the next: a rating that is to
\* be signed is one the account had, and an account that was found is still there.
Fits(p, j) ==
  /\ p = "sign" =>
       /\ j.cid \in DOMAIN users
       /\ j.rating \in held[j.cid]
       /\ j.types \subseteq {"access", "refresh", "fsd"}
  /\ p = "reload" => j.cid \in DOMAIN users /\ j.key \in 0..MaxKey
  /\ p = "create" => j.rating \in Ratings
  /\ p \in {"load", "update"} =>
       /\ {"cid", "rating"} \subseteq DOMAIN j
       /\ j.cid \in Cids /\ j.rating \in Ratings
  /\ p = "update" => j.cid \in DOMAIN users

JobsFit == DOMAIN job = Handlers /\ \A h \in Handlers : Fits(pc[h], job[h])

\* Tokens are for accounts, and nobody has a rating without a trace.
AccountsRecorded ==
  /\ \A t \in tokens : t.cid \in DOMAIN users
  /\ \A c \in DOMAIN users : users[c].rating \in held[c]

\* The inductive invariant that AccountsProofs.tla proves.
IInv == TypeOK /\ JobsFit /\ AccountsRecorded /\ RatingsGranted

\* Fields of a user are updated depending on what was provided in the request
\* (web/user.go updateUser): without a new password the old one remains. The
\* code hashes the hash it has read instead (README.md, section 6).
PasswordKept ==
  [][\A h \in Handlers :
       pc[h] = "update" /\ pc'[h] = "idle" /\ job[h].password \in {Absent, Empty}
         => users'[job[h].cid].password = users[job[h].cid].password]_vars

\* A user with a higher rating than that of the token cannot be updated
\* (web/README.md).
HigherUntouched ==
  [][\A h \in Handlers :
       pc[h] = "update" /\ pc'[h] = "idle" => users[job[h].cid].rating <= job[h].claims]_vars
=============================================================================
