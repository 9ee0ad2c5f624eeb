# A TLA+ development for Open-Aerion-Integrated-Management-Platform

This directory holds TLA+ specifications of the platform, TLC configurations
that model-check them on small instances, and TLAPS proofs of what matters most
for every instance. Everything is written from the source code; paths below are
relative to `src/`.

Contents: 1 the system, 2 the modules, 3 runs and bounds, 4 fairness, 5 proofs,
6 where the code departs from its documents, 7 what is not modelled, 8 plan.

## 1. The system

The repository has four programs.

* `openaimp-fsd` (Go): the FSD server. Pilots and controllers hold a TCP
  connection each; the server relays positions, text, flight plans and weather.
  It has an internal HTTP service (`fsd/http_service.go`) and a web API of its own
  (`web/`), which share the database (`db/`).
* `openaimp-backend` (Java, Spring Boot): registration, captchas, roles and
  permissions, flight and control records. It calls the web API of the FSD server.
* `openaimp-frontend` (Vue): the browser client of the backend.
* `openfsd-patch-for-es-main` (C++): redirects EuroScope to the server.

### Components of the FSD server

| Component | State | Operations | What is hard | What makes it correct |
|---|---|---|---|---|
| Post office (`fsd/postoffice.go`) | callsign map and R-tree, one RWMutex each | register, release, updatePosition, search, send, find, all | two structures that change one after the other; callbacks while a read lock is held | one owner per callsign; one tree entry per client, where it will be deleted; recipients do not change under a callback |
| Connection (`fsd/conn.go`, `client.go`) | socket, context, send channel of 32, sender worker | log in, welcome message, event loop, deferred clean-up | full channels, readers blocked with locks held, cancellation, peers that stop reading, the window between register and the first worker | whoever waits has somebody to wait for; a cancelled client goes; a client that is gone is released |
| Broadcasts and screens (`fsd/util.go`, `handler.go`) | what every client shows | add, position and delete packets | callsigns are reused; order of the deferred calls | no ghosts; no packet of an earlier user takes effect on a later one |
| Flight plans (`fsd/handler.go`) | `Client.flightPlan` | file, amend, query | find, then use without a lock; store, then broadcast; recipients that are cancelled | a plan never strays to a later user of a callsign; screens agree with the server |
| METAR (`fsd/metar.go`) | queue of 128, a few workers | ask, fetch, answer | shared workers that wait for single clients | no request lost or answered twice; cancelled clients leave |
| Accounts (`web/`, `db/`, `fsd/jwt.go`) | user table, secret key, tokens at large | log in, refresh, create, update, reset, log on | read-check-write in separate queries; claims older than the table | ratings come from the account; an update changes what it names |
| Send-fast (`fsd/handler.go`, `util.go`) | a flag and a distance per pilot | position packets | a hysteresis fed by stale distances | flag and packets agree |
| Login packets (`fsd/conn.go`, `vatsimauth.go`) | login data, challenge state | identification, challenge | none beyond parsing | – |
| Start (`fsd/server.go`) | listeners, an error channel | Run, listen | errors collected after all listeners end | a failed listener is reported |
| Datafeed (`web/data.go`) | one cached document | refresh every 15 s, serve | a feed that cannot be refreshed stays | the feed is one the server once had |

### Components of the backend and the patch

| Component | State | Operations | What is hard | What makes it correct |
|---|---|---|---|---|
| Registration and login (`AuthServiceImpl`, `CaptchaServiceImpl`) | codes in Redis, account rows, the FSD account | send code, register, log in | two databases and a remote call in one transaction; get, compare and delete of a code in separate calls | no half account, no shared address, codes stay valid until used |
| Bootstrap (`SystemBootstrapRunner`, `RbacBootstrapRunner`) | default user, roles, super administrator, bindings | run at every start of every instance | instances start at once, crash half-way, and serve requests before they have finished | one automatic super administrator |
| Ratings (`AtcServiceImpl`, `FsdServiceImpl`) | a rating on both sides | change, delete, store at login | a request in the middle of a transaction; lost and late answers | undisturbed, both sides agree |
| Roles (`RbacServiceImpl`) | roles, permissions, two relations without foreign keys | assign, revoke, create, delete, bootstrap | check-then-act in concurrent transactions | codes are unique, bindings refer to what is there, replacements are exact |
| Records (`FlightRecordServiceImpl`, `ControlRecordServiceImpl`, `UserProfileStatsServiceImpl`) | records, counts in the profile | create, update, delete, refresh | counts written from an older read | counts are those of the records |
| EuroScope patch (`VATSIMAuthPatch.cpp`) | the read-only data of another program | search for an address, overwrite it | the search's fall-back; changes of protection that are refused; loading twice | the address is whole, the old or the new one; nothing changes but what is written over an address |

### How they interact

A connection goroutine calls the post office; the post office calls back into
other clients (`Client.send`) while it holds a read lock. Sender workers couple
channels to sockets. Kill requests, the HTTP service and shutdown reach a client
only through its context. METAR workers put answers into the same channels. The
web API and the FSD server share the database and the secret key: what the web
API signs, the FSD server accepts. The backend knows the FSD server only through
that web API: it registers a user there in the middle of its own transaction, and
sends ratings before it commits its own. Instances of the backend share MySQL and
Redis. The patch meets nobody: it changes where EuroScope asks for a token.

## 2. The modules

| Module | Models | Builds on |
|---|---|---|
| `Registry` | what the post office promises: the abstract specification | |
| `PostOffice` | the map, the tree, their locks and the goroutine of every connection | implements `Registry` |
| `Presence` | what every client shows | extends `PostOffice`, every step of which is part of one of its own |
| `Delivery` | channels, sender workers, lock queues, contexts, sockets | the same goroutines, seen from their blocking side; keeps `Registry`, too |
| `FlightPlan` | plans, amendments, queries and screens of controllers | implements `Registry`: rests on no more than what it promises |
| `Metar` | the METAR service | clients as in `Delivery` |
| `Accounts` | accounts, tokens and the key of the FSD server | |
| `Registration` | codes, accounts on both servers, bootstrap, ratings | the user table of `Accounts`, seen through its web API |
| `Rbac` | roles, permissions and their relations | what the bootstrap of `Registration` leaves |
| `Kmp` | the string search of the patch, one turn of a loop at a time | |
| `Redirect` | what the patch does to the program, in one step: the abstract specification | |
| `AuthPatch` | the constructor that uses the search, loading, unloading, restarts | extends `Kmp`, implements `Redirect` |
| `PostOfficeProofs`, `DeliveryProofs`, `FlightPlanProofs`, `MetarProofs`, `AccountsProofs`, `RegistrationProofs`, `RbacProofs`, `PatchProofs` | theorems (section 5) | each extends its module; `PostOfficeProofs` extends `Presence` |

The `MC*` modules give each of them a small instance. An operator whose comment
begins with "Faulty:" is no part of a specification: it is the wrong variant of
the action after it, used to see that a property notices.

**PostOffice.** `pc[c]` is the place of a connection goroutine in `handleConn`,
`register`, `updatePosition`, `search`, `all` and `release`. A critical section
without callbacks is one action; `search` and `all` are two, with the lock held
in between. `tree` counts entries, so a double insertion or a missed deletion
would show. `pos` is stored before the tree is touched, as in `updatePosition`,
and `oldBox` is what that call deletes. Boxes, and which of them meet, are
constants: the arithmetic of `calculateBoundingBox` is not modelled.

**Presence.** `shown[r][cs]` is what the client `r` will show for a callsign when
its channel is empty. This is decided when a packet is queued, since channels are
first in, first out. `Deliver` is one call of the callback; it may do nothing when
the recipient is cancelled.

**Delivery.** `worker[c]` is the sender worker: started by `eventLoop`, it takes a
packet, writes it, and stops when a write fails or the context is done. Locks are
those of Go: `writer[l]` is whoever has called `Lock`, which keeps new readers out
(`waiting`) while old ones (`readers`) finish; `Unlock` admits all that wait.
Handlers are grouped by the calls they make (`Packet`). A packet for one other client
whose context is done is answered with an error on the sender's own channel (`Refused`),
as `sendDirectOrErr` does; a handler that sends itself two packets is two handlers that
send one. `peer[c]` is reading, stalled or gone.

**FlightPlan.** A session is a `*Client`, so one that was found stays an object
after it has left. `cancelled` are the sessions whose context is done: they stay
registered until their goroutine has ended, but `Client.send` (`Send`) may drop what is
sent to them. A login can fail after it has been registered (`LoginFails`), and is then
released without a farewell. `disturbed`, `contested` and `meant` are history variables:
operations on one callsign that overlap, callsigns where that happened (or a login
failed) since the last undisturbed plan, and the plans a session has filed or that were
addressed to its callsign while it had it.

**Metar.** `requests` is the queue, `serving` and `stage` are the workers, `open`
counts the requests of a client that nobody has answered (history).

**Accounts.** Every web request is a handler with a program counter; each query
of the database is a step. A hash is a pair, so a hash of a hash is a different
value. `held` is history: the ratings an account has had. The password field of the
request for an FSD token is not compared with anything in the code, so `FsdJwt`
has none. Passwords of the wrong form, names and expiry are left out.

**Registration.** A thread is a record: the phase of its request and what the
request has read so far. `registerByEmail` is one transaction, but each of its calls
is a step, since Redis and the FSD server do not take part in a roll-back: `LookUp`,
`Consume`, `CreateUser`, `Insert`, `EnsureRoles`, `Commit`. What it reads of MySQL
comes from the snapshot of its first query (`view`), the unique key of the address
and that of a binding from what is committed, after a wait. `boot[i]` is how far an instance has started;
it serves requests from its first moment, because Spring opens the port before the
runners have run. `late` are requests to the FSD server whose sender has given up.
`issuedFor`, `proof` and `drift` are history: for whom a code was drawn, with which
one an account was registered, and which accounts have met an interference after
which their ratings may differ. Two branches of `registerByEmail` are never taken
from `Init`: a number that the platform has already (in `CreateUser`), and the promotion
of a first user, whose call of the FSD server is therefore one step with the commit
(`Commit`).

**Rbac.** Every operation is one transaction that decides on a snapshot and writes
rows; `Commit` fails when a unique key is taken or a row it deletes is gone. Ids are
drawn from one counter. `crossed` is history: roles and permissions whose deletion
was under way together with a transaction that binds them.

**Kmp and AuthPatch.** A string is a sequence of characters; an image is a sequence of
sections, of which the first of the right name is searched. The copy of the section
that the code makes is `text`. `VirtualProtect` may be refused, and then leaves
`oldProtect` with any value, as the uninitialised variable of the code does. `Strcpy`
writes as many bytes as `Target` has, and the terminator, whatever stands there; where the
section ends earlier, the rest of the string meets memory that the model does not have,
and the program may end (`Overruns`).

## 3. Runs and bounds

Each run finishes in about two minutes or less on two workers.

| Run | Distinct states | Instance | Shows |
|---|---|---|---|
| `presence` | 1 458 952 | 3 connections, 2 callsigns, 2 positions | both structures of the post office exact at every step, `Registry` implemented, no ghosts, no foreign delete packet |
| `delivery_online` | 32 616 | 2 clients online, channels of 1, 2 packets or kicks from outside, one peer that stalls and recovers, one that may leave | every chain of waits ends at somebody who goes on; kicked clients go; gone clients are released |
| `delivery_login` | 22 686 | one client logs in and may leave, channels of 4 | a client that goes away in the middle of its login is released, as long as channels do not fill |
| `flight_plan` | 2 080 331 | 2 controllers, 2 sessions that share a callsign, 2 packets, any cancellations and failed logins | no plan strays, screens agree, `Registry` implemented |
| `metar` | 25 388 | 2 clients, 2 workers, queue of 1, channels of 1, 5 requests or kicks | requests are conserved and answered, cancelled clients leave |
| `accounts` | 516 676 | 2 accounts, 2 handlers, 5 requests, 1 reset | ratings were granted |
| `auth_patch` | 165 554 | an address of 4 characters in all texts of 6 over 3 characters and in texts of up to 10 that have it twice, a replacement of 5 | the search is exact and ends, the address is whole, nothing changes that strcpy does not write over an address, protection is given back, `Redirect` implemented |
| `registration` | 1 104 880 | 2 threads, 2 instances that start twice in all, 2 addresses, 2 codes, 4 requests | complete accounts, one automatic administrator, codes stay valid, ratings agree, no circular wait |
| `rbac` | 1 263 156 | 2 threads, 2 users, 1 custom role, 1 custom permission, 5 operations | unique codes, bindings that refer, exact replacements |
| `login_window`, `accounts_race`, `auth_patch_shipped` | | | the departures of section 6 |

Why the bounds are enough. Three connections are a mover, a searcher and one that
comes or goes, or an owner, its successor and a witness. The two boxes of `presence`
do not meet, which is what makes a recipient wrong when a box is; boxes that meet are
covered by the proofs, which hold for any overlap. With channels of one place every
second packet finds the channel full; a longer channel only delays that. Four places
with two packets never fill, which is what `delivery_login` needs to separate the
login window from the rest. A queue of one and two workers reach both limits of the
METAR service, and five requests exceed queue, workers and channel together. In
`accounts`, five requests are enough for an administrator to create a supervisor, for
both to log in, and for two updates to overlap. The address of `auth_patch` has a
border, so that falling back one entry wrong is noticed. Its replacement is one
character longer, as the one of `config.h` is: it overwrites the terminator and the
byte behind it, runs over the end of a section, and in the texts that have the address
twice, overlapping, adjacent or apart, destroys the second one or stops short of it. In
`flight_plan`, two packets are two operations that overlap, or an amendment under way
and a plan of the next user of the callsign; logins, cancellations and farewells
cost nothing. In `registration`, four requests are two codes and two
registrations, or a registration and two changes of its rating, and two starts are
two instances at once or one that crashes and comes back. In `rbac`, five operations
create a role and a permission, bind them, and delete them while somebody else binds
them again.

`PostOffice`, `Presence` and `AuthPatch` have no bound besides their constants. Bounds
in guards: `Budget` (packets, kicks, requests or operations) in `Delivery`,
`FlightPlan`, `Metar`, `Accounts`, `Registration` and `Rbac`; `MaxKey` (resets) in
`Accounts`; `MaxCid` (accounts of the FSD server), `MaxCodes` and `MaxStarts` in
`Registration`; `MaxIds` (rows drawn) in `Rbac`. The theorems hold for any value of
them.

Deadlock is checked wherever the system is meant to go on; `Delivery` and `Metar`
have a step `Quiet` for a system in which nobody waits, so a deadlock there is a
circular wait. It is not checked in `flight_plan`, where every session ends for good,
nor in `accounts`, `registration` and `rbac`, where a server that has used up its
requests does nothing; `SomebodyGoesOn` says instead that threads of `registration` do
not wait for each other in a circle. Symmetry is used only with safety properties.

Every property of a passing run was seen to fail for a mutant of the code: an
unconditional registration, a tree change without its lock, a worker that ends
without cancelling, a send that ignores the context or does not wait, a target looked up
twice, a login that does not compare ratings, a fall-back by one entry too far, a code that is
deleted before it is compared, a bootstrap that forgets the default role, a role that
is deleted although somebody has it, and so on. They are listed in `PROJECT.json`.

## 4. Fairness

`Delivery` and `Metar` assume strong fairness of every goroutine. Go runs every
goroutine that can run; a waiter of a mutex gets it after at most a millisecond
of starvation; senders and receivers of a channel are queued first come, first
served; `select` takes one of the ready cases at random, so a case that is ready
again and again is taken. Weak fairness would be too little: a full channel that
empties and fills again disables its waiters in between.

Of the world outside, only peers in `Recovering` are assumed to read again; what
becomes of clients whose peers stall for good is in section 6. In `Metar`, one of
them would keep a worker, and with it the answers of others, until it is kicked.
`Metar` also assumes that a fetch returns, although `http.Client` has no timeout.
Nothing is assumed about peers sending packets, leaving, or being kicked.

`AuthPatch` assumes weak fairness of the constructor, which is sequential code and
waits for nobody. `Registration` and `Rbac` state safety only.

## 5. Proofs

All theorems hold for every value of the constants that satisfies the named
assumption of the module, and for nothing else. Proof modules follow one pattern: an
inductive invariant, a lemma for every action or group of actions, one for `Init`, one
for `Next`, and the temporal theorems.

**Post office** (`PostOfficeProofs`, `PostOfficeAssumption`: boxes of positions are
boxes; the markers for "nobody" and "nowhere" are no connection and no box).
`Invariant` is `Spec => []IInv`; `TypeCorrect`, `MapIsExact`, `TreeIsExact`,
`SearchIsExact` and `BroadcastIsExact` are its conjuncts, and `presence` checks all but
`MapExact`, which shows there in `OnlyOwnDelete` and in the refinement;
`Implementation` is `Spec => R!RegSpec`, with `owner` mapped to the callsign map
and `place` to the box under which the tree holds a client. `MapExact` needs nothing
but types: a callsign is taken only when free, and a connection that is registered does
not change its callsign. `TreeExact` is about `EntryBox`, the box under which the next
deletion will look: between the two halves of `updatePosition` that is the old box,
otherwise the box of the coordinates. `SearchExact` and `BroadcastExact` are not
inductive without `ReadersInside`: the recipients of a goroutine outside `search` or
`all` would be arbitrary. They hold because every action that would change the
right-hand side needs the write lock. `RegisterTree` and `ReleaseMap` are the steps in
which a client is in one structure only; the refinement maps them to the abstract `Put`
and `Yield`. A move is atomic in the abstract specification: `MoveStart` changes nothing
there because `place` comes from the tree.

**Presence** (`PostOfficeProofs`, too). Every step of `PSpec` is one of the post office or a
stutter, so `IInv` is an invariant of it, too. `NoGhostsEver` needs three more facts:
only a running callback has reached anyone, and only its recipients (`SentInside`);
`handleDelete` is a broadcast (`DeletingInside`); and a screen is empty until its client
has registered (`ScreensFit`). The heart of the argument is the farewell: it
reaches all that are registered while it holds the read lock, and whoever registers
later starts with an empty screen. `DeletesAreOwn` follows from `MapExact`: as long as
a delete packet is under way its sender still has the callsign.

**Delivery** (`DeliveryProofs`, `DeliveryAssumption`). `SendersHaveHope` is proved when
nobody is logging in (`OnlineSendersHaveHope`). Without that restriction
`OnlyLoginsAreHopeless` says exactly who may wait in vain: a sender whose target has no
worker and whose context is not done waits for a client whose login has not reached
its event loop, or has failed; a broadcast waits for one that is still in the structure
it was found in, because its removal needs the lock that the broadcast holds. So the
login window of section 6 is the only place of its kind.

`NobodyWaitsInACircle` is freedom from deadlock, `Spec => []WaitsLead`, for any number of
clients and logins. Whoever waits for a lock waits for its writer, who runs, or for a
reader who runs or is sending; whoever sends to a full channel waits for a worker that
writes, for a peer that stalls, or for a client in the login window. A chain of waits
thus has at most four links: a lock, its writer, a reader, a channel. `Runs(c)` and
`Writes(c)` are the guards of the steps of a connection and of its worker, and TLC
agrees that they are `ENABLED` of them. `LInv` adds two facts to `DInv`. `LocksFit` says
who may hold or want which lock in which phase; that a goroutine which holds one lock
for writing never wants the other follows from it, and is why there is no circle of
locks. `SendersAim` says that whoever is to send a packet has somebody to send it to.

Two action properties are the rest of what fairness has to work on. `SectionsEnd`: every
step of a reader gives the lock back, finds out whom to address, or addresses one client
of those that are left, and no reader overtakes a writer that waits. `TheWayOutEnds`:
from the moment a goroutine leaves its event loop, each of its steps lowers `StepsOut` or
the number of clients its farewell has still to reach, and no step of anybody raises
either. With `WaitsLead`, and as long as channels are emptied, these are the reasons
behind `WritersGetThrough`, `KickDisconnects` and `GoneIsReleased`; TLC checks the
conclusions under fairness, on small instances.

`OfficeFits` ties the two structures of the post office to the place of the connection
goroutine: exactly the goroutines between `register` and `release` are in the map, and
those between their inner halves in the tree. So whoever is done is in neither, which is
the end that `GoneIsReleased` promises. `KeepsTheRegistry` says that every step of
`Delivery` is one of `Registry` or leaves it alone; as clients that are online from the
start have their callsigns already, it is about steps only, not about `RegInit`.

**Flight plans** (`FlightPlanProofs`). `ScreensAgree` speaks of quiet callsigns and of
controllers whose context is not done (`Live`): a cancelled one may miss a plan while it is
still registered, and nothing repairs that. It is far from inductive. `FInv` follows the one operation that is under way about a
callsign through its phases (`Progress`): what it found still owns the callsign, what
it has read is on file, whom it has reached agrees. Two operations on a callsign know
of each other (`OverlapsNoticed`), so whoever is not marked as disturbed is alone.
A session that connects shows nothing, which is why it needs no packet. A login that
fails leaves without a farewell, so `LoginFails` counts as an overlap with whoever is at
work on its callsign.

`PlansNeverStray` compares what a session has on file with what was ever meant for it.
The two are far apart in time: an amendment is addressed when it looks its target up, and
stored later, when the target may have left and its callsign may belong to somebody
else. The proof carries the address through the phases in between (`TextsAddressed`),
and `meant` only grows.

`Implementation` closes the gap between this module and the post office. `FlightPlan` has
no locks and no map of its own; it takes a callsign in one step and gives it back in one.
The theorem says that these steps are `Claim` and `Yield` of `Registry`, the ones that
`PostOffice` implements with its locks (with `Boxes` empty: no plan depends on a place).
So flight plans assume nothing of the post office that is not proved of it.

**METAR** (`MetarProofs`, `MetarAssumption`: the workers are finitely many). A request is
counted where it is; the lemmas say how the number of places in a queue changes when
something is appended or taken, and the number of workers that serve a client. The
theorem is a sum in which one place loses what the next one gains. `TypeOK` depends on
it: that nobody is owed a negative number of answers follows from the sum.

`OnlyPeersStopTheWeather` is what answers every request has, short of fairness:
while a client is owed an answer, it can still enqueue its request, or some worker
can go on, or the peer of the client itself holds its sender worker, or each of the
METAR workers is held by a peer that does not read. So it takes as many such peers as
there are workers to stop the service, and nothing else does; `StopsFit` says that a
worker that cannot go on sends to somebody whose channel is full. `GoesOn` and
`HeldUp` are the guards of the steps, and TLC agrees on the instance of `metar`.
`WorkIsUsedUp` adds that going on leads somewhere: a queued request costs the workers
three steps, `Work` counts those that are left, every step of a worker takes one away,
and only a client that queues a request adds to them. Somebody can go on, and nobody can
go on for ever without new requests: what `RequestsAnswered` adds is fairness.

**Accounts** (`AccountsProofs`, `AccountsAssumption`). `RatingsGranted` says that the
rating in a token or a session is one its account once had. It is not inductive alone,
because a handler signs with a rating it read several statements earlier. `JobsFit` says
of each phase what its handler carries, and `AccountsRecorded` that the present rating
of every account is in `held`. The argument is monotony: `held` only grows and accounts
are never deleted, so what a handler has read stays true while the others act.

`HigherUntouched` is what `accounts_race` refutes with two handlers. `OneAfterTheOther`
proves it for one handler, any number of accounts, requests and resets: the comparison
in `updateUser` is the right one, and only another request between it and the write
(`Compared` is what that request invalidates) lets a higher rating be overwritten.

**Registration** (`RegistrationProofs`, `RegistrationAssumption`: the bounds are numbers,
the marker `None` is no rating, address or code). `OneAutomaticAdmin` and
`AccountsComplete` again rest on monotony: accounts, members and the built-in roles are
never taken away, so an old snapshot that has them is right (`SeenStays`,
`RolesAfterUsers`). A thread that saw no account cannot commit, since roles come only
after the default user, and a snapshot with neither has no roles to hand out. A
transaction that has inserted an address is the only one with it (`AddressesHeld`).

`CodesKept` needs `CodesInHand`: a thread about to delete the code of an address has that
code in hand, or the address has none, or the thread was overtaken. `RatingsAgree` needs
`RatingsInv`. A change that met no other one has the account to itself, and once the FSD
server has answered, its rating is there (`LoneChanges`); outside "store" the two ratings
agree, and a binding is missing only from the default user, whom the FSD server calls
administrator (`RatingsFollow`); the account a registration has made is nobody else's
(`NewAccounts`). The runner may fill in bindings because it waits for threads that have
inserted one: without that wait it could store a default between the request to the FSD
server and the commit.

`WaitsEnd` is the part of `SomebodyGoesOn` that needs no ENABLED: a thread or a runner
that cannot take its next step is held by another one, and that one can take its own.
`CanGoOn` spells out the guards of `Step`, and TLC agrees on the instance of
`registration` that it is ENABLED of it. The insertion into a unique key waits for a
transaction that has inserted the same key, and the runner for threads that have
inserted what it reads; neither of them waits for anybody in turn.

**Roles** (`RbacProofs`, `RbacAssumption`: user numbers, finitely many and at least one,
room for the four rows of the bootstrap, and no code to be created that is a built-in one). A transaction decides on a snapshot and
writes later; `RInv` says what of the snapshot is still true then. An id that it has
drawn is nobody else's (`NewIsNew`, `Apart`), because the counter only grows; so is a
code, because the unique key is looked at again when it commits. What it binds is there
(`BoundIsThere`) and what it deletes nobody has (`DeletedIsFree`), unless `crossed` knows
of it: of two open transactions, one that deletes what the other one binds is noticed
(`Apart`), whichever of them began or commits first. `BindingsAlwaysRefer` follows. For
`AssignmentsAreExact`, `StillExact` says that a replacement nobody has disturbed carries
the difference to the bindings as they are now, and not only as they were. That the
first user exists (`FirstIsUser`) takes a well-founded order.

**Patch** (`PatchProofs`, `AuthPatchAssumption`). `IInv` says what holds at every turn of
either loop: the table so far holds longest borders, the position reached is the
longest match, and no occurrence has been passed. The lemmas about borders
(`BorderOfSuffix`, `ShorterIsBorder`, `SuffixGrows`) are why falling back is complete.
`TableIsExact` and `SearchIsExact` hold for any text and pattern, without the recursion
that a definition of the table would need. `UrlIsWhole`, `OthersAreUntouched` and
`IsRedirected` hold for a replacement of any length, longer ones included, with one
assumption, `NoSplice`: no address begins or ends in what is written, or else it could be
completed by what stands before or behind. The constants of the code fulfil it
(`https` against `http:`, and neither goes on where the other one ends). `OthersUntouched`
is thus not the promise of the patch's README, that only the address changes: that one is
`OnlyTheAddress`, which is false for the constant that is shipped (section 6). What is
proved is how far the damage reaches: as far as strcpy writes over an address of the
image on the disk, also when the plug-in is loaded again.

That both loops end is proved, too, but for the fairness of the processor.
`SearchIsLinear` is the bound the algorithm is known for: a search takes at most
`2 * (Len(Url) + Len(section))` turns, because every turn decreases `TurnsLeft`, which
weighs falling back against the distance to the end. `EveryStepCounts` puts it in a
lexicographic order with the phases of the constructor that are left, and says that no
step leaves this measure as it was. What `LoadingEnds` adds is that steps are taken.

`Implementation` is `Spec => M!RedirectSpec`: as far as the program can see, the patch
overwrites the first address of the first section of the name in one step, and does
nothing else until the program is started again. All loops, early returns and refusals
are stutters. `Redirect` writes its strings with `SubSeq` and `\o`, so the lemmas
`OccursAsComes` and `StrcpyOverwrites` also say that the zero-based operators of `Kmp`
and `Strcpy` mean what they should. `Implementation` asks nothing of the two addresses;
`Redirect`, too, cuts what is written off at the end of the section.

Only model-checked: all liveness, and `SomebodyGoesOn`, which is about ENABLED. The
prover handles neither. Their safety cores are theorems: `WaitsLead`, `SectionShrinks`,
`OutComesNearer` and `OfficeFits` for the liveness of delivery, `WeatherFlows` and
`WorkIsPaid` for that of the METAR service, `LoadingApproachesItsEnd` for `LoadingEnds` and `NobodyWaitsForAWaiter` for `SomebodyGoesOn`. Every other property of a
passing run is a theorem.

## 6. Where the code departs from its documents

Three have a run whose counterexample shows them.

* `login_window`: a client is registered and announced before its sender worker
  starts. Broadcasts that fill its channel in between hold the read lock; a
  writer that waits keeps the announcement out. A kill or a kick could free the
  sender, but cannot find the client without the same lock; only a shutdown of the
  server ends this.
* `accounts_race`: the rating of the user is compared in one query and the user
  is written in another.
* `auth_patch_shipped`: `openfsd-patch-for-es-main/README.md:6` asks for an address
  shorter than the original one of 35 characters, and `config.h:5` ships one of 36: it
  overwrites the terminator and the byte after it. In the run, as there, the replacement
  is one character longer than the address.

Three more show in variants of a configuration.

* `AccountsRace.cfg` with `PROPERTY PasswordKept`: an update without a password
  (`web/user.go:97-110`) hashes the stored hash. The backend sends exactly such updates
  (`FsdServiceImpl.updateUser`), so every change of a rating makes the FSD password
  useless.
* `DeliveryOnline.cfg` with `Recovering = {}`: `KickDisconnects` fails. `conn.Write`
  (`fsd/client.go:65`) has no deadline, so a kicked client whose peer does not read stays.
* `DeliveryLogin.cfg` with `Cap = 1`: a deadlock. A login that fails in the welcome
  message (`fsd/conn.go:78`) is released without cancelling its context, and a broadcast
  that finds its channel full holds the lock that the release needs.

The others need no run, one look at the action shows them.

* A kill request is not forwarded to its target (`docs/protocol.md`, Kill Request; `Kill`
  in `Delivery`), and an amendment goes to every controller, in range or not
  (`docs/protocol.md`, Flight Plan Amendment; `BroadcastBegin` in `FlightPlan`).
* A registration that is rolled back after `createUser` leaves an account of the FSD
  server that nobody owns (`AuthServiceImpl.java:65`; `Insert`, `Fail` and
  `CreateUserLost` in `Registration`). The next registration gets another number.
* A user who logs in between the two bootstrap runners gets a binding of an observer,
  also the default user, whom the FSD server calls administrator; and after
  `deleteBinding` a login stores the default rating again without telling the FSD server
  (`Bind` and `DeleteBinding` in `Registration`). `RatingsAgree` leaves both out by
  `drift`.
* `deleteRole` refuses a role that somebody has (`RbacServiceImpl.java:161`), but looks
  before it deletes: an overlapping assignment leaves users bound to a role that is gone.
  `getPermissionCodesByUserId` does not look whether the role is there and grants its
  permissions, if their rows are left (`crossed` in `Rbac`).
* A session that is registered can be amended before its welcome message is out. If the
  message then fails (`fsd/conn.go:78`), the session leaves without a delete packet, and
  controllers keep its plan on their screens (`LoginFails` in `FlightPlan`). A controller
  whose context is done may miss a plan while it is still registered (`Send`); it shows
  what it shows until its socket is closed. `ScreensAgree` leaves both out.

## 7. What is not modelled

* Parsing and formatting of packets, and the arithmetic of positions. A latitude
  near a pole, or one that is not a number, gives boxes that are not intervals;
  the model's boxes and their overlaps are arbitrary, but an entry can always be
  found again under its own box.
* `EuroScopePlugIn.h`, by far the largest C++ file: the vendor's header. It declares
  classes of EuroScope and has no code of this repository; the patch uses only its base
  class, whose construction and destruction are `Load` and `Unload`.
* Send-fast (`handler.go:166`): the decision is floating-point geometry, and the flag only
  changes how often a peer reports.
* The start of the server (`server.go`): it runs once, before there are clients. Its
  errors are collected after all listeners have ended, which is a hazard in
  `PROJECT.json`.
* The datafeed (`web/data.go`): one writer replaces one pointer. Only its age could be
  wrong, and no model here has a clock.
* Records and statistics of the backend: single statements on rows of their own. Stored
  counts can be stale after concurrent refreshes (a hazard in `PROJECT.json`); nothing
  else depends on them.
* The tokens with which the backend calls the FSD server, and the requests it only
  passes on: `FsdServiceImpl` keeps nothing between two requests.
* The challenge arithmetic of `vatsimauth.go`, migrations, templates, static pages,
  profiles, avatars, captcha images and the Vue frontend: no shared state of interest.
* Expiry of tokens: it only takes tokens out of circulation.
* The data race on `Client.facilityType`: it decides single replies.

## 8. What could come next

1. `Records`: statistics against the records they count, as a refinement of "the counts
   are those of some moment".
2. `Registration` composed with `Accounts`: the backend's change of a rating as the update of
   a user, with the password it destroys.
