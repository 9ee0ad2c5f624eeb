------------------------------- MODULE Metar -------------------------------
(***************************************************************************)
(* The METAR service (fsd/metar.go): clients ask for weather reports, a    *)
(* few workers take the requests from one bounded queue, fetch the report  *)
(* from outside and put the answer into the send channel of whoever asked. *)
(* The workers are shared: while one waits for a full channel it serves    *)
(* nobody, and once the queue is full the event loops of all who ask wait. *)
(*                                                                         *)
(* Every client has an event loop, at pc[c], and a sender worker that      *)
(* empties its channel for as long as its peer reads (fsd/client.go; how   *)
(* the sender ends is the matter of Delivery.tla).                         *)
(***************************************************************************)
EXTENDS Naturals, Sequences, FiniteSets

CONSTANTS
  Clients,     \* connections (*Client)
  Stallable,   \* those whose peer may stop reading
  Recovering,  \* those of them that read again, sooner or later
  Workers,     \* NUM_METAR_WORKERS goroutines
  QueueCap,    \* capacity of metarRequests, 128 in the code
  Cap,         \* capacity of a send channel, 32 in the code
  Budget,      \* bound on the requests and kicks
  NoClient     \* a worker that waits for a request

ASSUME MetarAssumption ==
  /\ Stallable \subseteq Clients
  /\ Recovering \subseteq Stallable
  /\ IsFiniteSet(Workers)
  /\ QueueCap \in Nat \ {0}
  /\ Cap \in Nat \ {0}
  /\ Budget \in Nat
  /\ NoClient \notin Clients

VARIABLES
  pc,        \* "loop", "ask" (in the select of fetchAndSendMetar) or "done"
  cancelled, \* clients whose context is done
  stalled,   \* clients whose peer does not read
  requests,  \* metarRequests: who asked
  serving,   \* whose request a worker has
  stage,     \* "idle", "fetch" or "send", for every worker
  channel,   \* packets in sendChan
  open,      \* requests that a client has made and not been answered
  stopped,   \* the context of the server is done
  budget

vars == <<pc, cancelled, stalled, requests, serving, stage, channel, open, stopped, budget>>

Init ==
  /\ pc = [c \in Clients |-> "loop"]
  /\ cancelled = {}
  /\ stalled = {}
  /\ requests = <<>>
  /\ serving = [w \in Workers |-> NoClient]
  /\ stage = [w \in Workers |-> "idle"]
  /\ channel = [c \in Clients |-> 0]
  /\ open = [c \in Clients |-> 0]
  /\ stopped = FALSE
  /\ budget = Budget

Spend == budget > 0 /\ budget' = budget - 1
Goto(c, p) == pc' = [pc EXCEPT ![c] = p]
Answered(c) == open' = [open EXCEPT ![c] = @ - 1]

-----------------------------------------------------------------------------
(* The client.                                                             *)

\* handleMetarRequest: the event loop enters fetchAndSendMetar.
Ask(c) ==
  /\ pc[c] = "loop"
  /\ Spend
  /\ Goto(c, "ask")
  /\ open' = [open EXCEPT ![c] = @ + 1]
  /\ UNCHANGED <<cancelled, stalled, requests, serving, stage, channel, stopped>>

\* Faulty: a client queues no matter how long the queue is.
EnqueueUnbounded(c) ==
  /\ pc[c] = "ask"
  /\ requests' = Append(requests, c)
  /\ Goto(c, "loop")
  /\ UNCHANGED <<cancelled, stalled, serving, stage, channel, open, stopped, budget>>

Enqueue(c) ==
  /\ pc[c] = "ask"
  /\ Len(requests) < QueueCap
  /\ requests' = Append(requests, c)
  /\ Goto(c, "loop")
  /\ UNCHANGED <<cancelled, stalled, serving, stage, channel, open, stopped, budget>>

\* Faulty: a full queue is waited for whatever becomes of the client.
GiveUpNever(c) ==
  /\ pc[c] = "ask"
  /\ c \in cancelled
  /\ Len(requests) < QueueCap
  /\ Goto(c, "loop")
  /\ Answered(c)
  /\ UNCHANGED <<cancelled, stalled, requests, serving, stage, channel, stopped, budget>>

\* The other case of the select: the context of the client is done.
GiveUp(c) ==
  /\ pc[c] = "ask"
  /\ c \in cancelled
  /\ Goto(c, "loop")
  /\ Answered(c)
  /\ UNCHANGED <<cancelled, stalled, requests, serving, stage, channel, stopped, budget>>

\* The sender worker writes a packet to the socket; it stops when the context
\* is done.
Write(c) ==
  /\ c \notin cancelled \cup stalled
  /\ channel[c] > 0
  /\ channel' = [channel EXCEPT ![c] = @ - 1]
  /\ UNCHANGED <<pc, cancelled, stalled, requests, serving, stage, open, stopped, budget>>

\* The sender worker closes the socket of a cancelled client, unless it is in
\* the middle of a write to a peer that does not read, and the event loop ends.
End(c) ==
  /\ pc[c] = "loop"
  /\ c \in cancelled \ stalled
  /\ Goto(c, "done")
  /\ UNCHANGED <<cancelled, stalled, requests, serving, stage, channel, open, stopped, budget>>

Cancel(c) ==
  /\ c \notin cancelled
  /\ Spend
  /\ cancelled' = cancelled \cup {c}
  /\ UNCHANGED <<pc, stalled, requests, serving, stage, channel, open, stopped>>

Stall(c) ==
  /\ c \in Stallable \ stalled
  /\ stalled' = stalled \cup {c}
  /\ UNCHANGED <<pc, cancelled, requests, serving, stage, channel, open, stopped, budget>>

Resume(c) ==
  /\ c \in stalled
  /\ stalled' = stalled \ {c}
  /\ UNCHANGED <<pc, cancelled, requests, serving, stage, channel, open, stopped, budget>>

-----------------------------------------------------------------------------
(* The workers.                                                            *)

Take(w) ==
  /\ stage[w] = "idle"
  /\ requests # <<>>
  /\ requests' = Tail(requests)
  /\ serving' = [serving EXCEPT ![w] = Head(requests)]
  /\ stage' = [stage EXCEPT ![w] = "fetch"]
  /\ UNCHANGED <<pc, cancelled, stalled, channel, open, stopped, budget>>

\* Faulty: a request that could not be fetched is dropped without a word.
FetchDrops(w) ==
  /\ stage[w] = "fetch"
  /\ \E ok \in BOOLEAN :
       /\ stage' = [stage EXCEPT ![w] = IF ok THEN "send" ELSE "idle"]
       /\ serving' = [serving EXCEPT ![w] = IF ok THEN @ ELSE NoClient]
  /\ UNCHANGED <<pc, cancelled, stalled, requests, channel, open, stopped, budget>>

\* The report is fetched, or something fails; both are answered with a packet.
Fetch(w) ==
  /\ stage[w] = "fetch"
  /\ stage' = [stage EXCEPT ![w] = "send"]
  /\ UNCHANGED <<pc, cancelled, stalled, requests, serving, channel, open, stopped, budget>>

\* Faulty: the answer never gives up on a cancelled client.
SendStubborn(w) ==
  /\ stage[w] = "send"
  /\ LET c == serving[w] IN
       /\ channel[c] < Cap
       /\ channel' = [channel EXCEPT ![c] = @ + 1]
       /\ Answered(c)
  /\ stage' = [stage EXCEPT ![w] = "idle"]
  /\ serving' = [serving EXCEPT ![w] = NoClient]
  /\ UNCHANGED <<pc, cancelled, stalled, requests, stopped, budget>>

\* Client.send: the packet is queued, or the context of the client is done.
Send(w) ==
  /\ stage[w] = "send"
  /\ LET c == serving[w] IN
       /\ \/ channel[c] < Cap /\ channel' = [channel EXCEPT ![c] = @ + 1]
          \/ c \in cancelled /\ UNCHANGED channel
       /\ Answered(c)
  /\ stage' = [stage EXCEPT ![w] = "idle"]
  /\ serving' = [serving EXCEPT ![w] = NoClient]
  /\ UNCHANGED <<pc, cancelled, stalled, requests, stopped, budget>>

\* The server stops: all contexts are done.  A worker sees it when it is idle.
Shutdown ==
  /\ ~stopped
  /\ Spend
  /\ stopped' = TRUE
  /\ cancelled' = Clients
  /\ UNCHANGED <<pc, stalled, requests, serving, stage, channel, open>>

WorkerEnds(w) ==
  /\ stopped
  /\ stage[w] = "idle"
  /\ stage' = [stage EXCEPT ![w] = "ended"]
  /\ UNCHANGED <<pc, cancelled, stalled, requests, serving, channel, open, stopped, budget>>

-----------------------------------------------------------------------------
ClientStep(c) == Enqueue(c) \/ GiveUp(c) \/ End(c)
WorkerStep(w) == Take(w) \/ Fetch(w) \/ Send(w) \/ WorkerEnds(w)

\* Nobody asks any more.
Quiet ==
  /\ requests = <<>>
  /\ \A c \in Clients : pc[c] # "ask" /\ (c \notin cancelled => pc[c] = "loop" /\ channel[c] = 0)
  /\ \A w \in Workers : stage[w] \in {"idle", "ended"}
  /\ UNCHANGED vars

Next ==
  \/ \E c \in Clients :
       \/ Ask(c)
       \/ ClientStep(c)
       \/ Write(c)
       \/ Cancel(c)
       \/ Stall(c)
       \/ Resume(c)
  \/ \E w \in Workers : WorkerStep(w)
  \/ Shutdown
  \/ Quiet

\* Goroutines run, a fetch returns, and a channel serves who waits for it in
\* turn.  Of the peers, only the recovering ones are expected to do anything.
Fairness ==
  /\ \A c \in Clients : SF_vars(ClientStep(c)) /\ SF_vars(Write(c))
  /\ \A w \in Workers : SF_vars(WorkerStep(w))
  /\ \A c \in Recovering : WF_vars(Resume(c))

Spec == Init /\ [][Next]_vars /\ Fairness

-----------------------------------------------------------------------------
(* Properties.                                                             *)

\* Type correctness; neither the queue nor a channel exceeds its capacity.
TypeOK ==
  /\ pc \in [Clients -> {"loop", "ask", "done"}]
  /\ cancelled \subseteq Clients
  /\ stalled \subseteq Clients
  /\ requests \in Seq(Clients) /\ Len(requests) <= QueueCap
  /\ serving \in [Workers -> Clients \cup {NoClient}]
  /\ stage \in [Workers -> {"idle", "fetch", "send", "ended"}]
  /\ channel \in [Clients -> 0..Cap]
  /\ open \in [Clients -> Nat]
  /\ stopped \in BOOLEAN
  /\ budget \in 0..Budget

\* Where the open requests of a client are.
Asking(c) == IF pc[c] = "ask" THEN 1 ELSE 0
Queued(c) == Cardinality({i \in DOMAIN requests : requests[i] = c})
Served(c) == Cardinality({w \in Workers : serving[w] = c})

\* Every request is in exactly one place until it is answered, so none is lost
\* and none is answered twice, whatever fails while it is fetched.
RequestsConserved == \A c \in Clients : open[c] = Asking(c) + Queued(c) + Served(c)

\* Every request is answered, unless the client who made it is cancelled.
RequestsAnswered == \A c \in Clients : open[c] > 0 ~> open[c] = 0 \/ c \in cancelled

\* A client that is cancelled while it waits for the queue leaves.
CancelledLeaves == \A c \in Clients : c \in cancelled ~> pc[c] = "done"
=============================================================================
