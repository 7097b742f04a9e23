------------------------------ MODULE Service -------------------------------
(***************************************************************************)
(* The service protocol (service.go).  A service owns a registry queue; a  *)
(* client makes a channel of its own, then knocks at the registry.  The    *)
(* service adopts the clients it finds in the directory when it starts,    *)
(* and later those that knock.  Services follow one another under the same *)
(* name; each may close or die at any step, and so may a client.           *)
(*                                                                         *)
(* A channel is two message sequences and the field that says who reads    *)
(* the client's direction.  Its two names are "half" made or "ready".      *)
(***************************************************************************)
EXTENDS Naturals, Sequences, FiniteSets

CONSTANTS
  Clients,
  MaxServes, \* bound: services, one after the other
  MaxCalls,  \* bound: calls of a client
  MaxDeaths  \* bound: processes that die

VARIABLES
  held,       \* the service that holds the registry's name, or 0
  published,  \* the service whose registry the name names, or 0
  spc, todo, who, \* each service: its thread, the clients it found, the one at hand
  knocks,     \* each service: what its registry holds
  kpc,        \* each service: its Close
  chan,       \* each client: the names of its channel
  consumer,   \* each client: the service that opened the channel, or 0
  sess,       \* each client: its session
  open,       \* each client: whether the service's end of the channel is open
  woken,      \* each client: whether the open of its channel has signalled it
  told,       \* each client: whether the handler's Gone was called
  cpc, seq,   \* each client: its thread, its last call
  toService, toClient,
  answer,     \* each client: the request that the last reply it returned answers
  deaths

Services == 1..MaxServes
svcVars == <<held, published, spc, todo, who, knocks, kpc>>
sessVars == <<consumer, sess, open, woken, told>>
cliVars == <<cpc, seq, answer>>
msgVars == <<toService, toClient>>
vars == <<svcVars, chan, sessVars, cliVars, msgVars, deaths>>

Hello == 0
SvcPc == {"none", "scan", "next", "open", "take", "signal", "hello", "run", "ended", "dead"}
ClosePc == {"starting", "no", "cancelled", "wait", "sessions", "unlink", "done"}
Connecting == {"hello", "parked", "watching"}
CliPc == Connecting \cup
  {"idle", "half", "knock", "ready", "calling", "unlink", "closed", "dead", "corrupt"}
SessPc == {"none", "new", "recv", "handle", "reply", "gone", "tell", "done"}

TypeOK ==
  /\ held \in 0..MaxServes /\ published \in 0..MaxServes
  /\ spc \in [Services -> SvcPc] /\ todo \in [Services -> SUBSET Clients]
  /\ who \in [Services -> SUBSET Clients] /\ knocks \in [Services -> SUBSET Clients]
  /\ kpc \in [Services -> ClosePc]
  /\ chan \in [Clients -> {"none", "half", "ready", "removed"}]
  /\ consumer \in [Clients -> 0..MaxServes] /\ sess \in [Clients -> SessPc]
  /\ open \in [Clients -> BOOLEAN] /\ woken \in [Clients -> BOOLEAN] /\ told \in [Clients -> BOOLEAN]
  /\ cpc \in [Clients -> CliPc] /\ seq \in [Clients -> 0..MaxCalls]
  /\ toService \in [Clients -> Seq(1..MaxCalls)] /\ toClient \in [Clients -> Seq(Hello..MaxCalls)]
  /\ answer \in [Clients -> 0..MaxCalls] /\ deaths \in 0..MaxDeaths

Init ==
  /\ held = 0 /\ published = 0
  /\ spc = [k \in Services |-> "none"] /\ todo = [k \in Services |-> {}]
  /\ who = [k \in Services |-> {}] /\ knocks = [k \in Services |-> {}]
  /\ kpc = [k \in Services |-> "starting"]
  /\ chan = [c \in Clients |-> "none"] /\ consumer = [c \in Clients |-> 0]
  /\ sess = [c \in Clients |-> "none"] /\ open = [c \in Clients |-> FALSE]
  /\ woken = [c \in Clients |-> FALSE] /\ told = [c \in Clients |-> FALSE]
  /\ cpc = [c \in Clients |-> "idle"] /\ seq = [c \in Clients |-> 0]
  /\ toService = [c \in Clients |-> <<>>] /\ toClient = [c \in Clients |-> <<>>]
  /\ answer = [c \in Clients |-> 0] /\ deaths = 0

ClientGone(c) == cpc[c] \in {"unlink", "closed", "dead"}
ServiceGone(c) == consumer[c] # 0 /\ ~open[c]
Cancelled(k) == kpc[k] \notin {"starting", "no"}
RegistryClosed(k) == spc[k] = "dead" \/ kpc[k] \in {"wait", "sessions", "unlink", "done"}
Step(k, l) == spc' = [spc EXCEPT ![k] = l]
Session(c, l) == sess' = [sess EXCEPT ![c] = l]
-----------------------------------------------------------------------------
(* Serve and run *)

\* CreateQueue publishes the registry before Serve looks at the directory.
CreateRegistry(k) ==
  /\ held = 0 /\ spc[k] = "none" /\ \A j \in 1..(k - 1) : spc[j] # "none"
  /\ held' = k /\ published' = k
  /\ Step(k, "scan")
  /\ UNCHANGED <<todo, who, knocks, kpc, chan, sessVars, cliVars, msgVars, deaths>>

Scan(k) ==
  /\ spc[k] = "scan"
  /\ todo' = [todo EXCEPT ![k] = {c \in Clients : chan[c] \in {"half", "ready"}}]
  /\ Step(k, "next")
  /\ UNCHANGED <<held, published, who, knocks, kpc, chan, sessVars, cliVars, msgVars, deaths>>

\* The next client that the scan found, or the end of Serve.
NextFound(k) ==
  /\ spc[k] = "next"
  /\ \/ /\ todo[k] = {}
        /\ Step(k, "run")
        /\ kpc' = [kpc EXCEPT ![k] = IF @ = "starting" THEN "no" ELSE @]
        /\ UNCHANGED <<todo, who>>
     \/ \E c \in todo[k] :
          /\ todo' = [todo EXCEPT ![k] = @ \ {c}] /\ who' = [who EXCEPT ![k] = {c}]
          /\ Step(k, "open")
          /\ UNCHANGED kpc
  /\ UNCHANGED <<held, published, knocks, chan, sessVars, cliVars, msgVars, deaths>>

RecvKnock(k) ==
  /\ spc[k] = "run" /\ ~RegistryClosed(k)
  /\ \E c \in knocks[k] :
       /\ knocks' = [knocks EXCEPT ![k] = @ \ {c}]
       /\ who' = [who EXCEPT ![k] = {c}]
  /\ Step(k, "open")
  /\ UNCHANGED <<held, published, todo, kpc, chan, sessVars, cliVars, msgVars, deaths>>

\* RecvInto ends with the context or with the queue: stop.
RunEnds(k) ==
  /\ spc[k] = "run" /\ Cancelled(k)
  /\ Step(k, "ended")
  /\ UNCHANGED <<held, published, todo, who, knocks, kpc, chan, sessVars, cliVars, msgVars, deaths>>

\* adopt: OpenChannel attaches, which fails over a channel that is not complete or
\* whose creator has gone,
AdoptOpen(k) ==
  /\ spc[k] = "open"
  /\ \E c \in who[k] : Step(k, IF chan[c] = "ready" /\ ~ClientGone(c) THEN "take" ELSE "next")
  /\ UNCHANGED <<held, published, todo, who, knocks, kpc, chan, sessVars, cliVars, msgVars, deaths>>

\* and then swaps the reader of the client's direction from pending to itself.
AdoptTake(k) ==
  /\ spc[k] = "take"
  /\ \E c \in who[k] :
       IF consumer[c] = 0
         THEN /\ consumer' = [consumer EXCEPT ![c] = k]
              /\ open' = [open EXCEPT ![c] = TRUE]
              /\ Session(c, "new")
              /\ Step(k, "signal")
         ELSE Step(k, "next") /\ UNCHANGED <<consumer, open, sess>>
  /\ UNCHANGED <<held, published, todo, who, knocks, kpc, chan, woken, told, cliVars, msgVars, deaths>>

\* The client may already be parked.  It wakes to find its peer, and to watch it.
AdoptSignal(k) ==
  /\ spc[k] = "signal"
  /\ woken' = [c \in Clients |-> woken[c] \/ c \in who[k]]
  /\ Step(k, "hello")
  /\ UNCHANGED <<held, published, todo, who, knocks, kpc, chan, consumer, sess, open, told, cliVars, msgVars, deaths>>

\* forget: the session goes, and its channel closes.
Forget(c) == Session(c, "done") /\ open' = [open EXCEPT ![c] = FALSE]

\* A send fails with its context, with the peer, or on a closed channel.  It sees a
\* close at once, and a death only when its watch has run.
MayFail(c) == ClientGone(c) \/ ~open[c] \/ Cancelled(consumer[c])
MaySucceed(c) == cpc[c] \notin {"unlink", "closed"} /\ open[c]

AdoptHello(k) ==
  /\ spc[k] = "hello"
  /\ \E c \in who[k] :
       \/ /\ MaySucceed(c)
          /\ toClient' = [toClient EXCEPT ![c] = Append(@, Hello)]
          /\ Session(c, "recv")
          /\ UNCHANGED open
       \/ /\ MayFail(c)
          /\ Forget(c)
          /\ UNCHANGED toClient
  /\ Step(k, "next")
  /\ UNCHANGED <<held, published, todo, who, knocks, kpc, chan, consumer, woken, told, cliVars, toService, deaths>>
-----------------------------------------------------------------------------
(* serve: one goroutine for each session *)

\* A request is taken before the end of the client is looked at.
ServeRecv(c) ==
  /\ sess[c] = "recv"
  /\ \/ /\ open[c] /\ toService[c] # <<>>
        /\ Session(c, "handle")
        /\ UNCHANGED open
     \/ /\ open[c] /\ toService[c] = <<>> /\ ClientGone(c)
        /\ Session(c, "gone") /\ open' = [open EXCEPT ![c] = FALSE]
     \/ /\ ~open[c] \/ Cancelled(consumer[c])
        /\ Forget(c)
  /\ UNCHANGED <<svcVars, chan, consumer, woken, told, cliVars, msgVars, deaths>>

\* Mutant: a handler that fails sends nothing.
MutHandle(c) ==
  /\ sess[c] = "handle"
  /\ toService' = [toService EXCEPT ![c] = Tail(@)]
  /\ Session(c, "recv")
  /\ UNCHANGED <<svcVars, chan, consumer, open, woken, told, cliVars, toClient, deaths>>

Handle(c) ==
  /\ sess[c] = "handle"
  /\ Session(c, "reply")
  /\ UNCHANGED <<svcVars, chan, consumer, open, woken, told, cliVars, msgVars, deaths>>

\* The reply carries the sequence number of its request.
Reply(c) ==
  /\ sess[c] = "reply"
  /\ toService' = [toService EXCEPT ![c] = Tail(@)]
  /\ \/ /\ MaySucceed(c)
        /\ toClient' = [toClient EXCEPT ![c] = Append(@, Head(toService[c]))]
        /\ Session(c, "recv")
        /\ UNCHANGED open
     \/ /\ MayFail(c)
        /\ Forget(c)
        /\ UNCHANGED toClient
  /\ UNCHANGED <<svcVars, chan, consumer, woken, told, cliVars, deaths>>

ServeUnlink(c) ==
  /\ sess[c] = "gone"
  /\ chan' = [chan EXCEPT ![c] = "removed"]
  /\ Session(c, "tell")
  /\ UNCHANGED <<svcVars, consumer, open, woken, told, cliVars, msgVars, deaths>>

ServeGone(c) ==
  /\ sess[c] = "tell"
  /\ told' = [told EXCEPT ![c] = TRUE]
  /\ Session(c, "done")
  /\ UNCHANGED <<svcVars, chan, consumer, open, woken, cliVars, msgVars, deaths>>
-----------------------------------------------------------------------------
(* Close of a service, and its death *)

CloseAt(k, l, next) == kpc[k] = l /\ spc[k] # "dead" /\ kpc' = [kpc EXCEPT ![k] = next]

CloseCancel(k) ==
  /\ CloseAt(k, "no", "cancelled")
  /\ UNCHANGED <<held, published, spc, todo, who, knocks, chan, sessVars, cliVars, msgVars, deaths>>

\* The registry closes, and its name is free.
CloseRegistry(k) ==
  /\ CloseAt(k, "cancelled", "wait")
  /\ held' = IF held = k THEN 0 ELSE held
  /\ UNCHANGED <<published, spc, todo, who, knocks, chan, sessVars, cliVars, msgVars, deaths>>

\* Mutant: does not wait for the goroutine that adopts.
MutCloseWait(k) ==
  /\ CloseAt(k, "wait", "sessions")
  /\ UNCHANGED <<held, published, spc, todo, who, knocks, chan, sessVars, cliVars, msgVars, deaths>>

CloseWait(k) ==
  /\ spc[k] = "ended"
  /\ CloseAt(k, "wait", "sessions")
  /\ UNCHANGED <<held, published, spc, todo, who, knocks, chan, sessVars, cliVars, msgVars, deaths>>

Mine(k) == {c \in Clients : consumer[c] = k /\ sess[c] \notin {"none", "done"}}

\* Each channel of a session that is left closes in turn.
CloseSession(k) ==
  /\ kpc[k] = "sessions" /\ spc[k] # "dead"
  /\ \/ \E c \in Mine(k) :
          /\ open[c]
          /\ open' = [open EXCEPT ![c] = FALSE]
          /\ UNCHANGED kpc
     \/ /\ \A c \in Mine(k) : ~open[c]
        /\ kpc' = [kpc EXCEPT ![k] = "unlink"]
        /\ UNCHANGED open
  /\ UNCHANGED <<held, published, spc, todo, who, knocks, chan, consumer, sess, woken, told, cliVars, msgVars, deaths>>

\* The name goes only if it still names this registry.
CloseUnlink(k) ==
  /\ CloseAt(k, "unlink", "done")
  /\ published' = IF published = k THEN 0 ELSE published
  /\ UNCHANGED <<held, spc, todo, who, knocks, chan, sessVars, cliVars, msgVars, deaths>>

Die == deaths < MaxDeaths /\ deaths' = deaths + 1

ServiceDies(k) ==
  /\ Die
  /\ spc[k] \notin {"none", "dead"}
  /\ Step(k, "dead")
  /\ held' = IF held = k THEN 0 ELSE held
  /\ open' = [c \in Clients |-> open[c] /\ consumer[c] # k]
  /\ sess' = [c \in Clients |-> IF consumer[c] = k THEN "done" ELSE sess[c]]
  /\ UNCHANGED <<published, todo, who, knocks, kpc, chan, consumer, woken, told, cliVars, msgVars>>
-----------------------------------------------------------------------------
(* Connect, Call and Close of a client *)

Client(c, l, next) == cpc[c] = l /\ cpc' = [cpc EXCEPT ![c] = next]

\* CreateChannel: the file that the scan looks for is there before the channel is
\* complete.
CreateHalf(c) ==
  /\ Client(c, "idle", "half")
  /\ chan' = [chan EXCEPT ![c] = "half"]
  /\ UNCHANGED <<svcVars, sessVars, seq, answer, msgVars, deaths>>

CreateRest(c) ==
  /\ Client(c, "half", "knock")
  /\ chan' = [chan EXCEPT ![c] = "ready"]
  /\ UNCHANGED <<svcVars, sessVars, seq, answer, msgVars, deaths>>

\* Mutant: gives up on a registry that holds another knock.
MutKnock(c) ==
  /\ Client(c, "knock", "hello")
  /\ knocks' = [k \in Services |-> IF k = published /\ ~RegistryClosed(k) /\ knocks[k] = {}
                                     THEN {c} ELSE knocks[k]]
  /\ UNCHANGED <<held, published, spc, todo, who, kpc, chan, sessVars, seq, answer, msgVars, deaths>>

\* A knock that reaches nobody is not an error.
Knock(c) ==
  /\ Client(c, "knock", "hello")
  /\ knocks' = [k \in Services |-> IF k = published /\ ~RegistryClosed(k)
                                     THEN knocks[k] \cup {c} ELSE knocks[k]]
  /\ UNCHANGED <<held, published, spc, todo, who, kpc, chan, sessVars, seq, answer, msgVars, deaths>>

\* Recv: an attempt, then a look at the peer.  A peer that is there gets a watch; a
\* channel that nobody has opened yet has nobody to watch.
RecvHello(c) ==
  /\ cpc[c] = "hello"
  /\ \/ /\ toClient[c] # <<>>
        /\ Client(c, "hello", IF Head(toClient[c]) = Hello THEN "ready" ELSE "corrupt")
        /\ toClient' = [toClient EXCEPT ![c] = Tail(@)]
     \/ /\ toClient[c] = <<>>
        /\ Client(c, "hello", IF consumer[c] = 0 THEN "parked"
                              ELSE IF ServiceGone(c) THEN "unlink" ELSE "watching")
        /\ UNCHANGED toClient
  /\ UNCHANGED <<svcVars, chan, sessVars, seq, answer, toService, deaths>>

\* A message, the signal of OpenChannel, or the watch ends the wait.
Wake(c) ==
  /\ \/ Client(c, "parked", "hello") /\ (toClient[c] # <<>> \/ woken[c])
     \/ Client(c, "watching", "hello") /\ (toClient[c] # <<>> \/ ServiceGone(c))
  /\ UNCHANGED <<svcVars, chan, sessVars, seq, answer, msgVars, deaths>>

Call(c) ==
  /\ cpc[c] = "ready" /\ seq[c] < MaxCalls
  /\ seq' = [seq EXCEPT ![c] = @ + 1]
  /\ \/ /\ ServiceGone(c)
        /\ UNCHANGED <<cpc, toService>>
     \/ /\ open[c] \/ spc[consumer[c]] = "dead"
        /\ Client(c, "ready", "calling")
        /\ toService' = [toService EXCEPT ![c] = Append(@, seq'[c])]
  /\ UNCHANGED <<svcVars, chan, sessVars, answer, toClient, deaths>>

\* Mutant: takes the first reply that comes.
MutRecvReply(c) ==
  /\ cpc[c] = "calling"
  /\ \/ /\ toClient[c] # <<>>
        /\ toClient' = [toClient EXCEPT ![c] = Tail(@)]
        /\ answer' = [answer EXCEPT ![c] = Head(toClient[c])]
        /\ Client(c, "calling", "ready")
     \/ /\ toClient[c] = <<>> /\ ServiceGone(c)
        /\ Client(c, "calling", "ready")
        /\ UNCHANGED <<answer, toClient>>
  /\ UNCHANGED <<svcVars, chan, sessVars, seq, toService, deaths>>

\* A reply below the sequence answers a call that this client gave up on.
RecvReply(c) ==
  /\ cpc[c] = "calling"
  /\ \/ /\ toClient[c] # <<>>
        /\ toClient' = [toClient EXCEPT ![c] = Tail(@)]
        /\ LET m == Head(toClient[c]) IN
           \/ m < seq[c] /\ UNCHANGED <<cpc, answer>>
           \/ m > seq[c] /\ Client(c, "calling", "corrupt") /\ UNCHANGED answer
           \/ m = seq[c] /\ Client(c, "calling", "ready") /\ answer' = [answer EXCEPT ![c] = m]
     \/ /\ toClient[c] = <<>> /\ ServiceGone(c)
        /\ Client(c, "calling", "ready")
        /\ UNCHANGED <<answer, toClient>>
  /\ UNCHANGED <<svcVars, chan, sessVars, seq, toService, deaths>>

\* The context of a call ends.
GiveUp(c) ==
  /\ Client(c, "calling", "ready")
  /\ UNCHANGED <<svcVars, chan, sessVars, seq, answer, msgVars, deaths>>

\* Close, and a Connect whose context ends: the channel closes and is unlinked.
CloseClient(c) ==
  /\ \E l \in Connecting \cup {"ready"} : Client(c, l, "unlink")
  /\ UNCHANGED <<svcVars, chan, sessVars, seq, answer, msgVars, deaths>>

UnlinkClient(c) ==
  /\ Client(c, "unlink", "closed")
  /\ chan' = [chan EXCEPT ![c] = "removed"]
  /\ UNCHANGED <<svcVars, sessVars, seq, answer, msgVars, deaths>>

ClientDies(c) ==
  /\ Die
  /\ cpc[c] \notin {"idle", "closed", "dead"}
  /\ cpc' = [cpc EXCEPT ![c] = "dead"]
  /\ UNCHANGED <<svcVars, chan, sessVars, seq, answer, msgVars>>
-----------------------------------------------------------------------------
MainStep(k) ==
  Scan(k) \/ NextFound(k) \/ RecvKnock(k) \/ RunEnds(k) \/ AdoptOpen(k) \/ AdoptTake(k)
  \/ AdoptSignal(k) \/ AdoptHello(k)
CloseStep(k) == CloseRegistry(k) \/ CloseWait(k) \/ CloseSession(k) \/ CloseUnlink(k)
ServeStep(c) == ServeRecv(c) \/ Handle(c) \/ Reply(c) \/ ServeUnlink(c) \/ ServeGone(c)
ClientStep(c) == CreateRest(c) \/ Knock(c) \/ RecvHello(c) \/ Wake(c) \/ RecvReply(c) \/ UnlinkClient(c)

Next ==
  \/ \E k \in Services :
       MainStep(k) \/ CloseStep(k) \/ CreateRegistry(k) \/ CloseCancel(k) \/ ServiceDies(k)
  \/ \E c \in Clients :
       ServeStep(c) \/ ClientStep(c) \/ CreateHalf(c) \/ Call(c) \/ GiveUp(c) \/ CloseClient(c) \/ ClientDies(c)

Spec == Init /\ [][Next]_vars

\* Threads inside the library run, and handlers return.
Fairness ==
  /\ \A k \in Services : WF_vars(MainStep(k)) /\ WF_vars(CloseStep(k))
  /\ \A c \in Clients : WF_vars(ServeStep(c)) /\ WF_vars(ClientStep(c))

FairSpec == Spec /\ Fairness
-----------------------------------------------------------------------------
\* A call returns the reply to its own request, also after calls that the client
\* gave up on, and never meets a reply from the future.
ReplyIsMine ==
  [][\A c \in Clients : /\ cpc'[c] # "corrupt"
                        /\ answer'[c] # answer[c] => answer'[c] = seq[c]]_vars

\* Once Close has returned, no channel of a client that the service adopted is
\* open: a client that was adopted while Close ran is not left behind.
ClosedAll == \A k \in Services : kpc[k] \in {"unlink", "done"} =>
  \A c \in Clients : consumer[c] = k => ~open[c]

Up(k) == spc[k] \notin {"none", "dead"} /\ ~Cancelled(k)

\* The service died after it took the client's channel and before the signal.
Orphaned(c) == consumer[c] # 0 /\ spc[consumer[c]] = "dead" /\ ~woken[c]

\* A client is found, by the scan or by its knock, however its Connect falls
\* together with the start of a service and the end of the one before: while some
\* service stays up, every Connect returns, unless the client is orphaned.
ConnectReturns ==
  []<>((\E k \in Services : Up(k)) =>
       \A c \in Clients : cpc[c] \notin Connecting \cup {"knock"} \/ Orphaned(c))

\* Every client parked in a call gets its reply or finds the service gone.
CallReturns == []<>(\A c \in Clients : cpc[c] # "calling")

\* README.md: "A client that exits is reported to the handler": while the service is
\* up, the session of a client that has called and has gone does not end without Gone.
ClientReported ==
  \A c \in Clients :
    seq[c] > 0 /\ ClientGone(c) /\ sess[c] = "done" /\ Up(consumer[c]) => told[c]
=============================================================================
