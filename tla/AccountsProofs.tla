--------------------------- MODULE AccountsProofs ---------------------------
(***************************************************************************)
(* What holds of accounts and tokens for any number of accounts, handlers, *)
(* requests and resets.  The argument: held only grows, an account never   *)
(* disappears, and so what a handler has read stays a rating that the      *)
(* account once had, however stale it is when the token is signed.         *)
(***************************************************************************)
EXTENDS Accounts, TLAPS

\* The inductive invariant holds of a fresh database.
LEMMA InvInit == Init => IInv
<1> SUFFICES ASSUME Init PROVE IInv
  OBVIOUS
<1> USE AccountsAssumption DEF Init
<1>1. DOMAIN users = {FirstAdmin} /\ users[FirstAdmin].rating = Admin
      /\ users[FirstAdmin].password = Hash(FirstPassword) /\ held[FirstAdmin] = {Admin}
  OBVIOUS
<1>2. TypeOK
  <2>1. Hash(FirstPassword)[1] = "hash"
    BY DEF Hash
  <2> QED BY <1>1, <2>1 DEF TypeOK, Phases, Ratings, Suspended, Admin
<1>3. JobsFit
  BY DEF JobsFit, Fits
<1>4. AccountsRecorded
  BY DEF AccountsRecorded
<1>5. RatingsGranted
  BY DEF RatingsGranted
<1> QED BY <1>2, <1>3, <1>4, <1>5 DEF IInv

\* A request that comes in changes nothing but what its handler carries.
LEMMA ReceiveKeeps ==
  ASSUME IInv, NEW h \in Handlers, NEW p \in Phases, NEW j, Fits(p, j), Receive(h, p, j),
         UNCHANGED <<users, key, tokens, online, held>>
  PROVE  IInv'
<1> USE AccountsAssumption DEF IInv, Receive
<1>1. TypeOK'
  BY DEF TypeOK
<1>2. JobsFit'
  BY DEF JobsFit, Fits
<1>3. AccountsRecorded' /\ RatingsGranted'
  BY DEF AccountsRecorded, RatingsGranted
<1> QED BY <1>1, <1>2, <1>3

\* A handler that returns leaves the others as they were, and the table of
\* accounts can only have grown meanwhile.
LEMMA ReturnKeeps ==
  ASSUME TypeOK, JobsFit, NEW h \in Handlers, Return(h),
         DOMAIN users \subseteq DOMAIN users', \A c \in Cids : held[c] \subseteq held'[c]
  PROVE  JobsFit' /\ pc' \in [Handlers -> Phases]
<1>1. pc' \in [Handlers -> Phases] /\ DOMAIN job' = Handlers
  BY DEF Return, TypeOK, JobsFit, Phases
<1>2. ASSUME NEW g \in Handlers PROVE Fits(pc[g], job[g])'
  <2>1. CASE g = h
    <3>1. pc'[g] = "idle"
      BY <2>1 DEF Return, TypeOK
    <3> QED BY <3>1 DEF Fits
  <2>2. CASE g # h
    <3>1. pc'[g] = pc[g] /\ job'[g] = job[g]
      BY <2>2 DEF Return
    <3>2. Fits(pc[g], job[g])
      BY DEF JobsFit
    <3> QED BY <3>1, <3>2 DEF Fits, TypeOK
  <2> QED BY <2>1, <2>2
<1> QED BY <1>1, <1>2 DEF JobsFit

\* A new or changed account is on record, and so is all that was.
LEMMA StoreRecords ==
  ASSUME TypeOK, AccountsRecorded, NEW c \in Cids, NEW user,
         user.rating \in Ratings, user.password[1] = "hash", Store(c, user)
  PROVE  /\ DOMAIN users' = DOMAIN users \cup {c}
         /\ DOMAIN users' \subseteq Cids
         /\ \A d \in DOMAIN users' : /\ users'[d].rating \in Ratings
                                     /\ users'[d].password[1] = "hash"
                                     /\ users'[d].rating \in held'[d]
         /\ held' \in [Cids -> SUBSET Ratings]
         /\ \A d \in Cids : held[d] \subseteq held'[d]
<1>1. DOMAIN users' = DOMAIN users \cup {c}
  BY DEF Store
<1>2. \A d \in DOMAIN users' : users'[d] = IF d = c THEN user ELSE users[d]
  BY DEF Store
<1>3. \A d \in Cids : held'[d] = IF d = c THEN held[d] \cup {user.rating} ELSE held[d]
  BY DEF Store, TypeOK
<1>4. held' \in [Cids -> SUBSET Ratings]
  BY DEF Store, TypeOK
<1> QED BY <1>1, <1>2, <1>3, <1>4 DEF TypeOK, AccountsRecorded

\* An issued token is of an account that is there and has a rating it once had.
LEMMA TokensKeep ==
  ASSUME TypeOK, JobsFit, AccountsRecorded, RatingsGranted, NEW h \in Handlers, Return(h),
         NEW new \in SUBSET [type : {"access", "refresh", "fsd"}, cid : DOMAIN users,
                             rating : Ratings, key : 0..MaxKey],
         \A t \in new : t.rating \in held[t.cid],
         tokens' = tokens \cup new, UNCHANGED <<users, key, online, held, budget>>
  PROVE  IInv'
<1>1. JobsFit' /\ pc' \in [Handlers -> Phases]
  BY ReturnKeeps
<1>3. TypeOK'
  BY <1>1 DEF TypeOK
<1>4. AccountsRecorded' /\ RatingsGranted'
  BY DEF AccountsRecorded, RatingsGranted
<1> QED BY <1>1, <1>3, <1>4 DEF IInv

\* A stored account leaves what is at large covered by the record.
LEMMA StoreKeeps ==
  ASSUME IInv, NEW h \in Handlers, Return(h), NEW c \in Cids, NEW user,
         user.rating \in Ratings, user.password[1] = "hash", Store(c, user),
         UNCHANGED <<key, tokens, online, budget>>
  PROVE  IInv'
<1> USE DEF IInv
<1>1. /\ DOMAIN users \subseteq DOMAIN users' /\ DOMAIN users' \subseteq Cids
      /\ \A d \in DOMAIN users' : /\ users'[d].rating \in Ratings
                                  /\ users'[d].password[1] = "hash"
                                  /\ users'[d].rating \in held'[d]
      /\ held' \in [Cids -> SUBSET Ratings]
      /\ \A d \in Cids : held[d] \subseteq held'[d]
  BY StoreRecords
<1>2. JobsFit' /\ pc' \in [Handlers -> Phases]
  BY <1>1, ReturnKeeps
<1>3. TypeOK'
  BY <1>1, <1>2 DEF TypeOK
<1>4. AccountsRecorded'
  BY <1>1 DEF AccountsRecorded
<1>5. RatingsGranted'
  <2>1. \A t \in tokens : t.cid \in Cids /\ t.rating \in held[t.cid]
    BY DEF TypeOK, RatingsGranted
  <2>2. \A o \in online : o.cid \in Cids /\ \E r \in held[o.cid] : o.rating <= r
    BY DEF TypeOK, RatingsGranted
  <2> QED BY <1>1, <2>1, <2>2 DEF RatingsGranted
<1> QED BY <1>2, <1>3, <1>4, <1>5

\* A user who logs on claims no more than a rating the account has had.
LEMMA LogOnKeeps ==
  ASSUME IInv, NEW c \in Cids, NEW r \in held[c], NEW rating \in Observer..Admin, rating <= r,
         LogOn(c, rating), UNCHANGED <<users, key, tokens, pc, job, held>>
  PROVE  IInv'
<1> USE DEF IInv, LogOn
<1>1. TypeOK'
  BY AccountsAssumption DEF TypeOK
<1>2. JobsFit'
  BY DEF JobsFit, Fits
<1>3. AccountsRecorded' /\ RatingsGranted'
  BY DEF AccountsRecorded, RatingsGranted
<1> QED BY <1>1, <1>2, <1>3

\* Every request, every query and every login preserves the invariant.
LEMMA InvNext == IInv /\ [Next]_vars => IInv'
<1> SUFFICES ASSUME IInv, [Next]_vars PROVE IInv'
  OBVIOUS
<1>t. \A t \in tokens : /\ t.cid \in DOMAIN users /\ t.cid \in Cids /\ t.rating \in Ratings
                       /\ t.rating \in held[t.cid] /\ t.key \in 0..MaxKey
  BY DEF IInv, TypeOK, AccountsRecorded, RatingsGranted
<1>u. \A c \in DOMAIN users : c \in Cids /\ users[c].rating \in Ratings
                             /\ users[c].rating \in held[c] /\ users[c].password[1] = "hash"
  BY DEF IInv, TypeOK, AccountsRecorded
<1>r. Admin \in Ratings /\ Ratings \subseteq Nat /\ \A r \in Ratings : r >= Admin => r = Admin
  BY DEF Ratings, Suspended, Admin
<1>h. \A x : Hash(x)[1] = "hash"
  BY DEF Hash
<1>1. ASSUME NEW h \in Handlers, NEW c \in Cids, NEW p \in Passwords, Login(h, c, p)
      PROVE  IInv'
  <2> DEFINE j == [cid |-> c, rating |-> users[c].rating, types |-> {"access", "refresh"}]
  <2>1. Fits("sign", j)
    BY <1>1, <1>u DEF Login, Fits
  <2>2. Receive(h, "sign", j) /\ UNCHANGED <<users, key, tokens, online, held>>
    BY <1>1 DEF Login
  <2> HIDE DEF j
  <2> QED BY <2>1, <2>2, ReceiveKeeps DEF Phases
<1>2. ASSUME NEW h \in Handlers, NEW c \in Cids, FsdJwt(h, c)
      PROVE  IInv'
  <2> DEFINE j == [cid |-> c, rating |-> users[c].rating, types |-> {"fsd"}]
  <2>1. Fits("sign", j)
    BY <1>2, <1>u DEF FsdJwt, Fits
  <2>2. Receive(h, "sign", j) /\ UNCHANGED <<users, key, tokens, online, held>>
    BY <1>2 DEF FsdJwt
  <2> HIDE DEF j
  <2> QED BY <2>1, <2>2, ReceiveKeeps DEF Phases
<1>3. ASSUME NEW h \in Handlers, NEW t \in tokens, CreateApiToken(h, t)
      PROVE  IInv'
  <2> DEFINE j == [cid |-> t.cid, rating |-> Admin, types |-> {"access"}]
  <2>1. t.rating = Admin
    BY <1>3, <1>t, <1>r DEF CreateApiToken
  <2>2. Fits("sign", j)
    BY <2>1, <1>t DEF Fits
  <2>3. Receive(h, "sign", j) /\ UNCHANGED <<users, key, tokens, online, held>>
    BY <1>3 DEF CreateApiToken
  <2> HIDE DEF j
  <2> QED BY <2>2, <2>3, ReceiveKeeps DEF Phases
<1>4. ASSUME NEW h \in Handlers, NEW t \in tokens, Refresh(h, t)
      PROVE  IInv'
  <2> DEFINE j == [cid |-> t.cid, key |-> key]
  <2>1. Fits("reload", j)
    BY <1>t DEF IInv, TypeOK, Fits
  <2>2. Receive(h, "reload", j) /\ UNCHANGED <<users, key, tokens, online, held>>
    BY <1>4 DEF Refresh
  <2> HIDE DEF j
  <2> QED BY <2>1, <2>2, ReceiveKeeps DEF Phases
<1>5. ASSUME NEW h \in Handlers, NEW t \in tokens, ResetKey(h, t)
      PROVE  IInv'
  <2>1. Fits("reset", NoJob)
    BY DEF Fits
  <2> QED BY <1>5, <2>1, ReceiveKeeps DEF ResetKey, Phases
<1>6. ASSUME NEW h \in Handlers, NEW t \in tokens, UpdateConfig(h, t)
      PROVE  IInv'
  <2>1. Fits("config", NoJob)
    BY DEF Fits
  <2> QED BY <1>6, <2>1, ReceiveKeeps DEF UpdateConfig, Phases
<1>7. ASSUME NEW h \in Handlers, NEW t \in tokens, NEW p \in Passwords, NEW r \in Ratings,
             CreateUser(h, t, p, r)
      PROVE  IInv'
  <2> DEFINE j == [password |-> p, rating |-> r]
  <2>1. Fits("create", j)
    BY DEF Fits
  <2>2. Receive(h, "create", j) /\ UNCHANGED <<users, key, tokens, online, held>>
    BY <1>7 DEF CreateUser
  <2> HIDE DEF j
  <2> QED BY <2>1, <2>2, ReceiveKeeps DEF Phases
<1>8. ASSUME NEW h \in Handlers, NEW t \in tokens, NEW c \in Cids,
             NEW p \in Passwords \cup {Absent, Empty}, NEW r \in Ratings, UpdateUser(h, t, c, p, r)
      PROVE  IInv'
  <2> DEFINE j == [claims |-> t.rating, cid |-> c, password |-> p, rating |-> r, stored |-> Absent]
  <2>1. Fits("load", j)
    BY DEF Fits
  <2>2. Receive(h, "load", j) /\ UNCHANGED <<users, key, tokens, online, held>>
    BY <1>8 DEF UpdateUser
  <2> HIDE DEF j
  <2> QED BY <2>1, <2>2, ReceiveKeeps DEF Phases
<1>9. ASSUME NEW h \in Handlers, Sign(h)
      PROVE  IInv'
  <2> DEFINE new == {Token(type, job[h].cid, job[h].rating, key) : type \in job[h].types}
  <2>1. /\ job[h].cid \in DOMAIN users /\ job[h].rating \in held[job[h].cid]
        /\ job[h].types \subseteq {"access", "refresh", "fsd"}
    BY <1>9 DEF Sign, IInv, JobsFit, Fits
  <2>3. \A t \in new : /\ t \in [type : {"access", "refresh", "fsd"}, cid : DOMAIN users,
                                 rating : Ratings, key : 0..MaxKey]
                      /\ t.rating \in held[t.cid]
    BY <2>1 DEF Token, IInv, TypeOK
  <2>4. Return(h) /\ tokens' = tokens \cup new /\ UNCHANGED <<users, key, online, held, budget>>
    BY <1>9 DEF Sign
  <2> HIDE DEF new
  <2> QED BY <2>3, <2>4, TokensKeep DEF IInv
<1>10. ASSUME NEW h \in Handlers, Reissue(h)
       PROVE  IInv'
  <2> DEFINE new == {Token("access", job[h].cid, users[job[h].cid].rating, job[h].key)}
  <2>1. job[h].cid \in DOMAIN users /\ job[h].key \in 0..MaxKey
    BY <1>10 DEF Reissue, IInv, JobsFit, Fits
  <2>2. \A t \in new : /\ t \in [type : {"access", "refresh", "fsd"}, cid : DOMAIN users,
                                 rating : Ratings, key : 0..MaxKey]
                      /\ t.rating \in held[t.cid]
    BY <2>1, <1>u DEF Token
  <2>3. Return(h) /\ tokens' = tokens \cup new /\ UNCHANGED <<users, key, online, held, budget>>
    BY <1>10 DEF Reissue
  <2> HIDE DEF new
  <2> QED BY <2>2, <2>3, TokensKeep DEF IInv
<1>11. ASSUME NEW h \in Handlers, ResetWrite(h) \/ ConfigWrite(h)
       PROVE  IInv'
  <2>1. key' \in 0..MaxKey
    BY <1>11, AccountsAssumption DEF ResetWrite, ConfigWrite, IInv, TypeOK
  <2>2. Return(h) /\ UNCHANGED <<users, tokens, online, held, budget>>
    BY <1>11 DEF ResetWrite, ConfigWrite
  <2>3. JobsFit' /\ pc' \in [Handlers -> Phases]
    BY <2>2, ReturnKeeps DEF IInv
  <2>4. TypeOK' /\ AccountsRecorded' /\ RatingsGranted'
    BY <2>1, <2>2, <2>3 DEF IInv, TypeOK, AccountsRecorded, RatingsGranted
  <2> QED BY <2>3, <2>4 DEF IInv
<1>12. ASSUME NEW h \in Handlers, CreateWrite(h)
       PROVE  IInv'
  <2>1. PICK c \in Cids \ DOMAIN users :
          Store(c, [password |-> Hash(job[h].password), rating |-> job[h].rating])
    BY <1>12 DEF CreateWrite
  <2> DEFINE user == [password |-> Hash(job[h].password), rating |-> job[h].rating]
  <2>2. user.rating \in Ratings /\ user.password[1] = "hash"
    BY <1>12, <1>h DEF CreateWrite, IInv, JobsFit, Fits
  <2>3. Store(c, user) /\ Return(h) /\ UNCHANGED <<key, tokens, online, budget>>
    BY <1>12, <2>1 DEF CreateWrite
  <2> HIDE DEF user
  <2> QED BY <2>2, <2>3, StoreKeeps
<1>13. ASSUME NEW h \in Handlers, UpdateLoad(h)
       PROVE  IInv'
  <2>1. {"cid", "rating"} \subseteq DOMAIN job[h] /\ job[h].cid \in Cids /\ job[h].rating \in Ratings
    BY <1>13 DEF UpdateLoad, IInv, JobsFit, Fits
  <2>2. CASE Return(h)
    <3>1. UNCHANGED <<users, key, tokens, online, held, budget>>
      BY <1>13 DEF UpdateLoad
    <3>2. JobsFit' /\ pc' \in [Handlers -> Phases]
      BY <2>2, <3>1, ReturnKeeps DEF IInv
    <3>3. TypeOK' /\ AccountsRecorded' /\ RatingsGranted'
      BY <3>1, <3>2 DEF IInv, TypeOK, AccountsRecorded, RatingsGranted
    <3> QED BY <3>2, <3>3 DEF IInv
  <2>3. CASE /\ job[h].cid \in DOMAIN users
             /\ pc' = [pc EXCEPT ![h] = "update"]
             /\ job' = [job EXCEPT ![h].stored = users[job[h].cid].password]
    <3>1. UNCHANGED <<users, key, tokens, online, held, budget>>
      BY <1>13 DEF UpdateLoad
    <3>2. TypeOK' /\ AccountsRecorded' /\ RatingsGranted'
      BY <2>3, <3>1 DEF IInv, TypeOK, AccountsRecorded, RatingsGranted, Phases
    <3>3. DOMAIN job' = Handlers
      BY <2>3 DEF IInv, JobsFit
    <3>4. Fits(pc[h], job[h])'
      <4>1. pc'[h] = "update" /\ job'[h] = [job[h] EXCEPT !.stored = users[job[h].cid].password]
        BY <2>3 DEF IInv, JobsFit, TypeOK
      <4>2. /\ {"cid", "rating"} \subseteq DOMAIN job'[h]
            /\ job'[h].cid = job[h].cid /\ job'[h].rating = job[h].rating
        BY <4>1, <2>1
      <4> QED BY <4>1, <4>2, <2>1, <2>3, <3>1 DEF Fits
    <3>5. ASSUME NEW g \in Handlers, g # h PROVE Fits(pc[g], job[g])'
      <4>1. pc'[g] = pc[g] /\ job'[g] = job[g]
        BY <2>3, <3>5
      <4>2. Fits(pc[g], job[g])
        BY DEF IInv, JobsFit
      <4> QED BY <4>1, <4>2, <3>1 DEF Fits
    <3> QED BY <3>2, <3>3, <3>4, <3>5 DEF IInv, JobsFit
  <2> QED BY <1>13, <2>2, <2>3 DEF UpdateLoad
<1>14. ASSUME NEW h \in Handlers, UpdateWrite(h)
       PROVE  IInv'
  <2> DEFINE password == IF job[h].password = Absent THEN job[h].stored ELSE job[h].password
             user == [rating |-> job[h].rating,
                      password |-> IF password = Empty THEN users[job[h].cid].password
                                                       ELSE Hash(password)]
  <2>1. job[h].cid \in DOMAIN users /\ job[h].cid \in Cids /\ job[h].rating \in Ratings
    BY <1>14 DEF UpdateWrite, IInv, JobsFit, Fits
  <2>2. user.rating \in Ratings /\ user.password[1] = "hash"
    BY <2>1, <1>u, <1>h
  <2>3. Store(job[h].cid, user) /\ Return(h) /\ UNCHANGED <<key, tokens, online, budget>>
    BY <1>14 DEF UpdateWrite
  <2> HIDE DEF user
  <2> QED BY <2>1, <2>2, <2>3, StoreKeeps
<1>15. ASSUME NEW c \in Cids, NEW p \in Passwords, NEW r \in Ratings, LogOnByPassword(c, p, r)
       PROVE  IInv'
  <2>1. c \in DOMAIN users /\ r <= users[c].rating /\ r \in Observer..Admin
    BY <1>15 DEF LogOnByPassword, Ratings
  <2> QED BY <1>15, <2>1, <1>u, LogOnKeeps DEF LogOnByPassword
<1>16. ASSUME NEW t \in tokens, NEW r \in Ratings, LogOnByToken(t, r)
       PROVE  IInv'
  <2>1. r <= t.rating /\ r \in Observer..Admin
    BY <1>16 DEF LogOnByToken, Ratings
  <2> QED BY <1>16, <2>1, <1>t, LogOnKeeps DEF LogOnByToken
<1>17. ASSUME NEW o \in online, LogOff(o)
       PROVE  IInv'
  BY <1>17 DEF LogOff, IInv, TypeOK, JobsFit, Fits, AccountsRecorded, RatingsGranted
<1>18. ASSUME UNCHANGED vars
       PROVE  IInv'
  BY <1>18 DEF vars, IInv, TypeOK, JobsFit, Fits, AccountsRecorded, RatingsGranted
<1> QED
  BY <1>1, <1>2, <1>3, <1>4, <1>5, <1>6, <1>7, <1>8, <1>9, <1>10, <1>11, <1>12, <1>13, <1>14,
     <1>15, <1>16, <1>17, <1>18 DEF Next

-----------------------------------------------------------------------------
\* The inductive invariant holds in every reachable state.
THEOREM Invariant == Spec => []IInv
  BY InvInit, InvNext, PTL DEF Spec

\* Type correctness; the user table holds hashes only.
THEOREM TypeCorrect == Spec => []TypeOK
<1>1. IInv => TypeOK
  BY DEF IInv
<1> QED BY <1>1, Invariant, PTL

\* No token and no user of the FSD server has a rating the account never had,
\* however the reads and writes of web requests and logins interleave.
THEOREM RatingsAreGranted == Spec => []RatingsGranted
<1>1. IInv => RatingsGranted
  BY DEF IInv
<1> QED BY <1>1, Invariant, PTL

-----------------------------------------------------------------------------
(* Why a user with a higher rating can be updated all the same.  The check *)
(* of updateUser is right, and what it was made of is out of date when the *)
(* user is written: with one request at a time it would hold.              *)

\* The handler that has checked a user still has what it compared.
Compared ==
  \A h \in Handlers :
    /\ pc[h] = "load" => "claims" \in DOMAIN job[h]
    /\ pc[h] = "update" => users[job[h].cid].rating <= job[h].claims

\* A request that comes in has not been compared with anything yet, and one that
\* has been answered never will be.
LEMMA ComparesLater ==
  ASSUME IInv, \A g, h \in Handlers : g = h, NEW h \in Handlers,
         \/ Return(h)
         \/ \E p \in Phases \ {"load", "update"} : \E j : Receive(h, p, j)
         \/ \E j : Receive(h, "load", j) /\ "claims" \in DOMAIN j
  PROVE  Compared'
<1>1. DOMAIN job = Handlers /\ pc \in [Handlers -> Phases]
  BY DEF IInv, JobsFit, TypeOK
<1>2. /\ pc'[h] # "update"
      /\ pc'[h] = "load" => "claims" \in DOMAIN job'[h]
  BY <1>1 DEF Return, Receive
<1>. QED
  BY <1>2 DEF Compared

LEMMA ComparedNext ==
  ASSUME \A g, h \in Handlers : g = h, IInv, Compared, [Next]_vars
  PROVE  Compared'
<1>1. ASSUME NEW h \in Handlers, NEW c \in Cids, (\E p \in Passwords : Login(h, c, p)) \/ FsdJwt(h, c)
      PROVE  Compared'
  <2>1. PICK j : Receive(h, "sign", j)
    BY <1>1 DEF Login, FsdJwt
  <2>. QED
    BY <2>1, ComparesLater DEF Phases
<1>2. ASSUME NEW h \in Handlers, NEW t \in tokens,
             \/ CreateApiToken(h, t) \/ Refresh(h, t) \/ ResetKey(h, t) \/ UpdateConfig(h, t)
             \/ \E p \in Passwords, r \in Ratings : CreateUser(h, t, p, r)
      PROVE  Compared'
  <2>1. PICK p \in {"sign", "reload", "reset", "config", "create"} : \E j : Receive(h, p, j)
    BY <1>2 DEF CreateApiToken, Refresh, ResetKey, UpdateConfig, CreateUser
  <2>. QED
    BY <2>1, ComparesLater DEF Phases
<1>3. ASSUME NEW h \in Handlers, NEW t \in tokens, NEW c \in Cids,
             NEW p \in Passwords \cup {Absent, Empty}, NEW r \in Ratings, UpdateUser(h, t, c, p, r)
      PROVE  Compared'
  <2>. DEFINE j == [claims |-> t.rating, cid |-> c, password |-> p, rating |-> r, stored |-> Absent]
  <2>1. Receive(h, "load", j) /\ "claims" \in DOMAIN j
    BY <1>3 DEF UpdateUser
  <2>. HIDE DEF j
  <2>. QED
    BY <2>1, ComparesLater
<1>4. ASSUME NEW h \in Handlers,
             Sign(h) \/ Reissue(h) \/ ResetWrite(h) \/ ConfigWrite(h) \/ CreateWrite(h) \/ UpdateWrite(h)
      PROVE  Compared'
  <2>1. Return(h)
    BY <1>4 DEF Sign, Reissue, ResetWrite, ConfigWrite, CreateWrite, UpdateWrite
  <2>. QED
    BY <2>1, ComparesLater
<1>5. ASSUME NEW h \in Handlers, UpdateLoad(h) PROVE Compared'
  <2>1. CASE Return(h)
    BY <2>1, ComparesLater
  <2>2. CASE /\ users[job[h].cid].rating <= job[h].claims
             /\ pc' = [pc EXCEPT ![h] = "update"]
             /\ job' = [job EXCEPT ![h].stored = users[job[h].cid].password]
    <3>1. DOMAIN job = Handlers /\ pc \in [Handlers -> Phases] /\ UNCHANGED users
      BY <1>5 DEF UpdateLoad, IInv, JobsFit, TypeOK
    <3>2. "cid" \in DOMAIN job[h] /\ "claims" \in DOMAIN job[h]
      BY <1>5 DEF UpdateLoad, IInv, JobsFit, Fits, Compared
    <3>3. pc'[h] = "update" /\ job'[h] = [job[h] EXCEPT !.stored = users[job[h].cid].password]
      BY <2>2, <3>1
    <3>4. job'[h].cid = job[h].cid /\ job'[h].claims = job[h].claims
      BY <3>2, <3>3
    <3>. QED
      BY <2>2, <3>1, <3>3, <3>4 DEF Compared
  <2>. QED
    BY <1>5, <2>1, <2>2 DEF UpdateLoad
<1>6. ASSUME UNCHANGED <<users, pc, job>> PROVE Compared'
  BY <1>6 DEF Compared
<1>7. \/ \E c \in Cids, p \in Passwords, r \in Ratings : LogOnByPassword(c, p, r)
      \/ \E t \in tokens, r \in Ratings : LogOnByToken(t, r)
      \/ \E o \in online : LogOff(o)
      \/ UNCHANGED vars
      => UNCHANGED <<users, pc, job>>
  BY DEF LogOnByPassword, LogOnByToken, LogOff, vars
<1>. QED
  BY <1>1, <1>2, <1>3, <1>4, <1>5, <1>6, <1>7 DEF Next

\* Only another request between the check and the write lets a user through whose
\* rating is higher than that of the token: a server that serves one request after
\* the other, however many and whatever they ask for, never updates one.
THEOREM OneAfterTheOther ==
  ASSUME \A g, h \in Handlers : g = h
  PROVE  Spec => HigherUntouched
<1>1. Init => Compared
  BY DEF Init, Compared
<1>2. IInv /\ Compared /\ [Next]_vars => Compared'
  BY ComparedNext
<1>3. Compared => \A h \in Handlers :
        pc[h] = "update" /\ pc'[h] = "idle" => users[job[h].cid].rating <= job[h].claims
  BY DEF Compared
<1>. QED
  BY <1>1, <1>2, <1>3, InvInit, InvNext, PTL DEF Spec, HigherUntouched
=============================================================================
