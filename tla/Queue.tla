------------------------------- MODULE Queue --------------------------------
(***************************************************************************)
(* The blocking queue (queue.go, queue_peer.go): how a sender and the      *)
(* receiver park, who wakes them, and what they learn of each other's      *)
(* exit.  The ring is abstracted to what Ring promises: a log of records,  *)
(* each open, done or void, of which the reader has passed the first       *)
(* `head'.  The events are FIFOs: counts of tokens shared by every process *)
(* that holds the event open.                                              *)
(*                                                                         *)
(* Every sender is a process with one goroutine and one handle, which it   *)
(* has opened: OpenQueue started its watch on the receiver.                *)
(***************************************************************************)
EXTENDS Integers, Sequences, FiniteSets, Folds

CONSTANTS
  Senders,
  Capacity,    \* of the ring
  Sizes,       \* of the claims, padding included
  Kinds,       \* of the calls: "send", "claim"
  Backlog,     \* the messages of size 1 in the ring at the start
  PipeBuf,     \* the most tokens one signal writes
  PipeCap,     \* the tokens a FIFO holds
  MaxSends,    \* bound: sends and claims that begin
  MaxCrashes,  \* bound: processes that die
  Mortal,      \* the processes that may die; "receiver" is one
  Closable,    \* the processes that may close their handle
  Unlinks,     \* whether the receiver may remove the name
  Cancels      \* whether contexts may end

ASSUME ConstantsOK ==
  /\ Capacity \in Nat \ {0} /\ Sizes \subseteq 1..Capacity
  /\ Backlog \in 0..Capacity
  /\ Kinds \subseteq {"send", "claim"}
  /\ PipeBuf \in Nat \ {0} /\ PipeCap \in Nat \ {0} /\ PipeBuf <= PipeCap
  /\ MaxSends \in Nat /\ MaxCrashes \in Nat
  /\ Mortal \subseteq Senders \cup {"receiver"} /\ Closable \subseteq Senders \cup {"receiver"}
  /\ Unlinks \in BOOLEAN /\ Cancels \in BOOLEAN /\ "receiver" \notin Senders
  /\ IsFiniteSet(Senders)

VARIABLES
  log, head,              \* the ring: its records, and how many the reader freed
  recvWaiters, sendWaiters, consumer,
  notEmpty, notFull,      \* tokens in the FIFOs
  unlinked,               \* whether the name is gone
  spc, call,              \* each sender: its step, and the call it makes
  watch, gone, wsig,      \* each sender: the watch on the receiver
  closed, shut,           \* the handles whose Close began, whose Close closed the events
  rpc, second, got,       \* the receiver: step, which attempt, whether it read a message
  cur, sig,               \* its cursor, the tokens it will post
  watched,                \* the producers the receiver watches
  cpc, csig,              \* the receiver's Close
  dead,                   \* the processes that have exited
  begun, sent             \* history: calls, and the records whose send returned

ringVars == <<log, head>>
waiterVars == <<recvWaiters, sendWaiters>>
eventVars == <<notEmpty, notFull>>
senderVars == <<spc, call, begun, sent>>
watchVars == <<watch, gone, wsig>>
receiverVars == <<rpc, second, got, cur, sig, watched>>
closeVars == <<closed, shut, cpc, csig, consumer, unlinked>>
vars == <<ringVars, waiterVars, eventVars, senderVars, watchVars, receiverVars, closeVars, dead>>

Up(x) == x \notin dead
NoCall == [kind |-> "none", size |-> 0, rec |-> 0]
Goto(s, l) == spc' = [spc EXCEPT ![s] = l]
Return(s) == Goto(s, "idle") /\ call' = [call EXCEPT ![s] = NoCall]
Used == MapThenFoldSet(LAMBDA m, n : m + n, 0, LAMBDA i : log[i].size,
                       LAMBDA S : CHOOSE i \in S : TRUE, (head + 1)..Len(log))

\* A signal of x writes all of its tokens or, if the pipe has no room for them,
\* none.  A handle whose events are closed writes none: ErrClosed, which every
\* caller ignores.
Posted(x, tokens, n) ==
  LET k == IF n > PipeBuf THEN PipeBuf ELSE n IN
  IF tokens + k <= PipeCap /\ x \notin shut THEN tokens + k ELSE tokens

\* n messages of the given size are in the ring.
InitWith(n, size) ==
  /\ log = [i \in 1..n |-> [by |-> "receiver", size |-> size, is |-> "done"]] /\ head = 0
  /\ recvWaiters = 0 /\ sendWaiters = 0 /\ consumer = "receiver"
  /\ notEmpty = 0 /\ notFull = 0 /\ unlinked = FALSE
  /\ spc = [s \in Senders |-> "idle"] /\ call = [s \in Senders |-> NoCall]
  /\ watch = [s \in Senders |-> "on"] /\ gone = [s \in Senders |-> FALSE]
  /\ wsig = [s \in Senders |-> 0] /\ closed = {} /\ shut = {}
  /\ rpc = "idle" /\ second = FALSE /\ got = FALSE /\ cur = 0 /\ sig = 0 /\ watched = {}
  /\ cpc = "open" /\ csig = 0 /\ dead = {} /\ begun = 0 /\ sent = 1..n

Init == InitWith(Backlog, 1)
-----------------------------------------------------------------------------
(* SendTyped and Claim: park around write or claim *)

Begin(s, k, n) ==
  /\ Up(s) /\ spc[s] = "idle" /\ s \notin closed /\ begun < MaxSends
  /\ begun' = begun + 1
  /\ call' = [call EXCEPT ![s] = [kind |-> k, size |-> n, rec |-> 0]]
  /\ Goto(s, "check1")
  /\ UNCHANGED <<ringVars, waiterVars, eventVars, sent, watchVars, receiverVars, closeVars, dead>>

\* Whether this is the second attempt of park, after the count went up.
Second(s) == spc[s] \in {"check2", "claim2"}

\* The call ends with ErrPeerGone, and sawPeerGone remembers it.
PeerGone(s) ==
  /\ IF Second(s) THEN Goto(s, "fail") /\ UNCHANGED call ELSE Return(s)
  /\ gone' = [gone EXCEPT ![s] = TRUE]

\* checkPeer: the consumer field, then what the watch has seen.
CheckPeer(s) ==
  /\ Up(s) /\ spc[s] \in {"check1", "check2"}
  /\ IF consumer = "none" \/ gone[s]
       THEN PeerGone(s)
       ELSE Goto(s, IF Second(s) THEN "claim2" ELSE "claim1") /\ UNCHANGED <<call, gone>>
  /\ UNCHANGED <<ringVars, waiterVars, eventVars, begun, sent, watch, wsig,
                 receiverVars, closeVars, dead>>

\* Mutant: takes every full ring for one without a receiver.
MutAttempt(s) ==
  /\ Up(s) /\ spc[s] \in {"claim1", "claim2"}
  /\ Used + call[s].size > Capacity
  /\ PeerGone(s)
  /\ UNCHANGED <<log, head, waiterVars, eventVars, begun, sent, watch, wsig, receiverVars,
                 closeVars, dead>>

\* The attempt itself.  A full ring with no name behind it has no receiver.
Attempt(s) ==
  /\ Up(s) /\ spc[s] \in {"claim1", "claim2"}
  /\ \/ /\ Used + call[s].size <= Capacity
        /\ log' = Append(log, [by |-> s, size |-> call[s].size, is |-> "open"])
        /\ call' = [call EXCEPT ![s].rec = Len(log')]
        /\ Goto(s, IF ~Second(s) THEN "open" ELSE IF call[s].kind = "claim" THEN "subopen" ELSE "open2")
        /\ UNCHANGED gone
     \/ /\ Used + call[s].size > Capacity /\ unlinked
        /\ PeerGone(s)
        /\ UNCHANGED log
     \/ /\ Used + call[s].size > Capacity /\ ~unlinked
        /\ Goto(s, IF Second(s) THEN "wait" ELSE "add")
        /\ UNCHANGED <<log, call, gone>>
  /\ UNCHANGED <<head, waiterVars, eventVars, begun, sent, watch, wsig,
                 receiverVars, closeVars, dead>>

\* waiters.Add(1), between the two attempts.
AddWaiter(s) ==
  /\ Up(s) /\ spc[s] = "add"
  /\ sendWaiters' = sendWaiters + 1
  /\ Goto(s, "check2")
  /\ UNCHANGED <<ringVars, recvWaiters, eventVars, call, begun, sent, watchVars,
                 receiverVars, closeVars, dead>>

\* Wait returns: a token, the context's error, or the close of this handle.
WaitToken(s) ==
  /\ Up(s) /\ spc[s] = "wait" /\ notFull > 0 /\ s \notin shut
  /\ notFull' = notFull - 1
  /\ Goto(s, "again")
  /\ UNCHANGED <<ringVars, waiterVars, notEmpty, call, begun, sent, watchVars,
                 receiverVars, closeVars, dead>>

\* Mutant: leaves the count as it is.
MutWaitFails(s) ==
  /\ Up(s) /\ spc[s] = "wait"
  /\ Return(s)
  /\ UNCHANGED <<ringVars, waiterVars, eventVars, begun, sent, watchVars, receiverVars, closeVars,
                 dead>>

WaitFails(s) ==
  /\ Up(s) /\ spc[s] = "wait"
  /\ Goto(s, "fail")
  /\ UNCHANGED <<ringVars, waiterVars, eventVars, call, begun, sent, watchVars,
                 receiverVars, closeVars, dead>>

WaitCancelled(s) == Cancels /\ WaitFails(s)
WaitClosed(s) == s \in shut /\ WaitFails(s)

\* waiters.Add(-1), on each of the ways out of the parked state.
AfterSub == [again |-> "check1", fail |-> "idle", subopen |-> "open", subwake |-> "wake"]
SubWaiter(s) ==
  /\ Up(s) /\ spc[s] \in DOMAIN AfterSub
  /\ sendWaiters' = sendWaiters - 1
  /\ IF spc[s] = "fail" THEN Return(s) ELSE Goto(s, AfterSub[spc[s]]) /\ UNCHANGED call
  /\ UNCHANGED <<ringVars, recvWaiters, eventVars, begun, sent, watchVars,
                 receiverVars, closeVars, dead>>

\* Commit or Abort of the record, which the reader may see from here on.
Settle(s, outcome) ==
  /\ Up(s) /\ spc[s] \in {"open", "open2"}
  /\ outcome = "void" => call[s].kind = "claim"
  /\ log' = [log EXCEPT ![call[s].rec].is = outcome]
  /\ Goto(s, IF spc[s] = "open2" THEN "subwake" ELSE "wake")
  /\ UNCHANGED <<head, waiterVars, eventVars, call, begun, sent, watchVars,
                 receiverVars, closeVars, dead>>

\* wakeReceiver: the load of the count, then the signal.
WakeReceiver(s) ==
  /\ Up(s) /\ spc[s] = "wake"
  /\ IF recvWaiters > 0
       THEN Goto(s, "signal") /\ UNCHANGED <<call, sent>>
       ELSE Return(s) /\ sent' = sent \cup {call[s].rec}
  /\ UNCHANGED <<ringVars, waiterVars, eventVars, begun, watchVars, receiverVars, closeVars, dead>>

SignalReceiver(s) ==
  /\ Up(s) /\ spc[s] = "signal"
  /\ notEmpty' = Posted(s, notEmpty, 1)
  /\ Return(s)
  /\ sent' = sent \cup {call[s].rec}
  /\ UNCHANGED <<ringVars, waiterVars, notFull, begun, watchVars, receiverVars, closeVars, dead>>

\* peerExited: the watch marks the receiver gone, then wakes the senders.
PeerExited(s) ==
  /\ Up(s) /\ watch[s] = "on" /\ ~Up("receiver") /\ s \notin closed
  /\ watch' = [watch EXCEPT ![s] = "wake"]
  /\ gone' = [gone EXCEPT ![s] = TRUE]
  /\ UNCHANGED <<ringVars, waiterVars, eventVars, senderVars, wsig, receiverVars, closeVars, dead>>

PeerWake(s) ==
  /\ Up(s) /\ watch[s] = "wake"
  /\ watch' = [watch EXCEPT ![s] = IF sendWaiters > 0 THEN "signal" ELSE "dead"]
  /\ wsig' = [wsig EXCEPT ![s] = sendWaiters]
  /\ UNCHANGED <<ringVars, waiterVars, eventVars, senderVars, gone, receiverVars, closeVars, dead>>

PeerSignal(s) ==
  /\ Up(s) /\ watch[s] = "signal"
  /\ notFull' = Posted(s, notFull, wsig[s])
  /\ watch' = [watch EXCEPT ![s] = "dead"]
  /\ wsig' = [wsig EXCEPT ![s] = 0]
  /\ UNCHANGED <<ringVars, waiterVars, notEmpty, senderVars, gone, receiverVars, closeVars, dead>>
-----------------------------------------------------------------------------
(* RecvInto: park around receive *)

Recv ==
  /\ Up("receiver") /\ rpc = "idle" /\ "receiver" \notin closed
  /\ rpc' = "read"
  /\ second' = FALSE
  /\ UNCHANGED <<ringVars, waiterVars, eventVars, senderVars, watchVars, got, cur, sig, watched,
                 closeVars, dead>>

\* Read: padding is stepped over, and a message ends it.
Read ==
  LET next == IF cur < Len(log) THEN log[cur + 1].is ELSE "open" IN
  /\ Up("receiver") /\ rpc = "read"
  /\ rpc' = IF next = "void" THEN "read" ELSE "publish"
  /\ cur' = IF next = "open" THEN cur ELSE cur + 1
  /\ got' = (next = "done")
  /\ UNCHANGED <<ringVars, waiterVars, eventVars, senderVars, watchVars, second, sig, watched,
                 closeVars, dead>>

\* What follows Read, once the senders are woken: the message, or the stall.
AfterRead == IF ~got THEN "unstall" ELSE IF second THEN "ret" ELSE "idle"

\* Mutant: announces the space only of a read that delivers.
MutPublishHead ==
  /\ Up("receiver") /\ rpc = "publish"
  /\ head' = cur
  /\ rpc' = IF got THEN "wake" ELSE AfterRead
  /\ UNCHANGED <<log, waiterVars, eventVars, senderVars, watchVars, second, got, cur, sig, watched,
                 closeVars, dead>>

\* Space is announced even when only padding was stepped over.
PublishHead ==
  /\ Up("receiver") /\ rpc = "publish"
  /\ head' = cur
  /\ rpc' = IF cur # head THEN "wake" ELSE AfterRead
  /\ UNCHANGED <<log, waiterVars, eventVars, senderVars, watchVars, second, got, cur, sig, watched,
                 closeVars, dead>>

\* wakeSenders: the load of the count, then a signal of as many tokens.
WakeSenders ==
  /\ Up("receiver") /\ rpc = "wake"
  /\ sig' = sendWaiters
  /\ rpc' = IF sendWaiters > 0 THEN "signal" ELSE AfterRead
  /\ UNCHANGED <<ringVars, waiterVars, eventVars, senderVars, watchVars, second, got, cur, watched,
                 closeVars, dead>>

SignalSenders ==
  /\ Up("receiver") /\ rpc = "signal"
  /\ notFull' = Posted("receiver", notFull, sig)
  /\ sig' = 0
  /\ rpc' = AfterRead
  /\ UNCHANGED <<ringVars, waiterVars, notEmpty, senderVars, watchVars, second, got, cur, watched,
                 closeVars, dead>>

\* Mutant: reclaims, but watches nobody.
MutUnstall ==
  LET stalled == head < Len(log) /\ log[head + 1].is = "open"
      s == log[head + 1].by
  IN
  /\ Up("receiver") /\ rpc = "unstall"
  /\ IF stalled /\ s \in dead
       THEN log' = [log EXCEPT ![head + 1].is = "void"] /\ rpc' = "read"
       ELSE rpc' = (IF second THEN "wait" ELSE "add") /\ UNCHANGED log
  /\ UNCHANGED <<head, waiterVars, eventVars, senderVars, watchVars, second, got, cur, sig, watched,
                 closeVars, dead>>

\* unstall: the claim of a dead producer becomes padding and the read runs
\* again; a live producer gets a watch.
Unstall ==
  LET stalled == head < Len(log) /\ log[head + 1].is = "open"
      s == log[head + 1].by
  IN
  /\ Up("receiver") /\ rpc = "unstall"
  /\ IF stalled /\ s \in dead
       THEN /\ log' = [log EXCEPT ![head + 1].is = "void"]
            /\ rpc' = "read"
            /\ UNCHANGED watched
       ELSE /\ rpc' = IF second THEN "wait" ELSE "add"
            /\ watched' = IF stalled /\ "receiver" \notin closed
                             THEN watched \cup {s} ELSE watched
            /\ UNCHANGED log
  /\ UNCHANGED <<head, waiterVars, eventVars, senderVars, watchVars, second, got, cur, sig,
                 closeVars, dead>>

\* Mutant: parks after the first attempt.
MutRecvAdd ==
  /\ Up("receiver") /\ rpc = "add"
  /\ recvWaiters' = recvWaiters + 1
  /\ second' = TRUE
  /\ rpc' = "wait"
  /\ UNCHANGED <<ringVars, sendWaiters, eventVars, senderVars, watchVars, got, cur, sig, watched,
                 closeVars, dead>>

RecvAdd ==
  /\ Up("receiver") /\ rpc = "add"
  /\ recvWaiters' = recvWaiters + 1
  /\ second' = TRUE
  /\ rpc' = "read"
  /\ UNCHANGED <<ringVars, sendWaiters, eventVars, senderVars, watchVars, got, cur, sig, watched,
                 closeVars, dead>>

RecvToken ==
  /\ Up("receiver") /\ rpc = "wait" /\ notEmpty > 0 /\ "receiver" \notin shut
  /\ notEmpty' = notEmpty - 1
  /\ rpc' = "again"
  /\ UNCHANGED <<ringVars, waiterVars, notFull, senderVars, watchVars, second, got, cur, sig,
                 watched, closeVars, dead>>

RecvFails ==
  /\ Up("receiver") /\ rpc = "wait"
  /\ rpc' = "ret"
  /\ UNCHANGED <<ringVars, waiterVars, eventVars, senderVars, watchVars, second, got, cur, sig,
                 watched, closeVars, dead>>

RecvCancelled == Cancels /\ RecvFails
RecvClosed == "receiver" \in shut /\ RecvFails

RecvSub ==
  /\ Up("receiver") /\ rpc \in {"again", "ret"}
  /\ recvWaiters' = recvWaiters - 1
  /\ second' = FALSE
  /\ rpc' = IF rpc = "again" THEN "read" ELSE "idle"
  /\ UNCHANGED <<ringVars, sendWaiters, eventVars, senderVars, watchVars, got, cur, sig, watched,
                 closeVars, dead>>

\* producerExited: the exit of a watched producer wakes the receiver.
ProducerExited(s) ==
  /\ Up("receiver") /\ s \in watched \cap dead /\ "receiver" \notin closed
  /\ watched' = watched \ {s}
  /\ notEmpty' = Posted("receiver", notEmpty, 1)
  /\ UNCHANGED <<ringVars, waiterVars, notFull, senderVars, watchVars, rpc, second, got, cur, sig,
                 closeVars, dead>>
-----------------------------------------------------------------------------
(* Close, Unlink, and the death of a process *)

\* A sender's Close: the flag, after which no call starts and no watch fires.
\* The caller settles its claims first, which the code cannot check.
CloseSender(s) ==
  /\ Up(s) /\ s \in Closable \ closed /\ call[s].kind # "claim"
  /\ closed' = closed \cup {s}
  /\ UNCHANGED <<ringVars, waiterVars, eventVars, senderVars, watchVars, receiverVars, shut, cpc,
                 csig, consumer, unlinked, dead>>

\* Then the events, which ends the wait of a call in flight.
ShutSender(s) ==
  /\ Up(s) /\ s \in closed \ shut
  /\ shut' = shut \cup {s}
  /\ UNCHANGED <<ringVars, waiterVars, eventVars, senderVars, watchVars, receiverVars, closed, cpc,
                 csig, consumer, unlinked, dead>>

\* The receiver's Close: the flag, the consumer field, the parked senders, its
\* watches, and last the events.
CloseBegin ==
  /\ Up("receiver") /\ "receiver" \in Closable \ closed
  /\ closed' = closed \cup {"receiver"}
  /\ cpc' = "consumer"
  /\ UNCHANGED <<ringVars, waiterVars, eventVars, senderVars, watchVars, receiverVars, shut,
                 csig, consumer, unlinked, dead>>

CloseConsumer ==
  /\ Up("receiver") /\ cpc = "consumer"
  /\ consumer' = "none"
  /\ cpc' = "wake"
  /\ UNCHANGED <<ringVars, waiterVars, eventVars, senderVars, watchVars, receiverVars, csig, closed,
                 shut, unlinked, dead>>

\* Mutant: wakes nobody.
MutCloseWake ==
  /\ Up("receiver") /\ cpc = "wake"
  /\ cpc' = "stop"
  /\ UNCHANGED <<ringVars, waiterVars, eventVars, senderVars, watchVars, receiverVars, closed, shut,
                 csig, consumer, unlinked, dead>>

CloseWake ==
  /\ Up("receiver") /\ cpc = "wake"
  /\ csig' = sendWaiters
  /\ cpc' = IF sendWaiters > 0 THEN "signal" ELSE "stop"
  /\ UNCHANGED <<ringVars, waiterVars, eventVars, senderVars, watchVars, receiverVars, closed, shut,
                 consumer, unlinked, dead>>

CloseSignal ==
  /\ Up("receiver") /\ cpc = "signal"
  /\ notFull' = Posted("receiver", notFull, csig)
  /\ csig' = 0
  /\ cpc' = "stop"
  /\ UNCHANGED <<ringVars, waiterVars, notEmpty, senderVars, watchVars, receiverVars, closed, shut,
                 consumer, unlinked, dead>>

CloseStop ==
  /\ Up("receiver") /\ cpc = "stop"
  /\ watched' = {}
  /\ shut' = shut \cup {"receiver"}
  /\ cpc' = "done"
  /\ UNCHANGED <<ringVars, waiterVars, eventVars, senderVars, watchVars, rpc, second, got, cur, sig,
                 csig, closed, consumer, unlinked, dead>>

Unlink ==
  /\ Unlinks /\ Up("receiver") /\ ~unlinked
  /\ unlinked' = TRUE
  /\ UNCHANGED <<ringVars, waiterVars, eventVars, senderVars, watchVars, receiverVars, cpc, csig,
                 closed, shut, consumer, dead>>

Crash(x) ==
  /\ Up(x) /\ x \in Mortal /\ Cardinality(dead) < MaxCrashes
  /\ dead' = dead \cup {x}
  /\ UNCHANGED <<ringVars, waiterVars, eventVars, senderVars, watchVars, receiverVars, closeVars>>
-----------------------------------------------------------------------------
SenderStep(s) ==
  \/ CheckPeer(s) \/ Attempt(s) \/ AddWaiter(s) \/ WaitToken(s) \/ SubWaiter(s)
  \/ Settle(s, "done") \/ WakeReceiver(s) \/ SignalReceiver(s)
  \/ WaitClosed(s) \/ ShutSender(s)
WatchStep(s) == PeerExited(s) \/ PeerWake(s) \/ PeerSignal(s)
ReceiverStep ==
  \/ Read \/ PublishHead \/ WakeSenders \/ SignalSenders \/ Unstall \/ RecvAdd \/ RecvToken
  \/ RecvSub \/ RecvClosed
CloseStep == CloseConsumer \/ CloseWake \/ CloseSignal \/ CloseStop

Next ==
  \/ \E s \in Senders :
       \/ SenderStep(s) \/ WatchStep(s) \/ ProducerExited(s)
       \/ CloseSender(s) \/ Settle(s, "void") \/ WaitCancelled(s)
       \/ \E k \in Kinds, n \in Sizes : Begin(s, k, n)
  \/ ReceiverStep \/ Recv \/ RecvCancelled \/ CloseStep \/ CloseBegin \/ Unlink
  \/ \E x \in Mortal : Crash(x)

Spec == Init /\ [][Next]_vars

\* A process that is alive runs: it finishes the calls it began, settles its
\* claims, and its watches fire.  The receiver keeps receiving.  Nobody has to
\* send, close, cancel or die.
Fairness ==
  /\ \A s \in Senders :
       /\ WF_vars(SenderStep(s)) /\ WF_vars(WatchStep(s)) /\ WF_vars(ProducerExited(s))
  /\ WF_vars(ReceiverStep) /\ WF_vars(Recv) /\ WF_vars(CloseStep)

FairSpec == Spec /\ Fairness
-----------------------------------------------------------------------------
Counted == {"check2", "claim2", "open2", "wait"} \cup DOMAIN AfterSub
SenderPc == Counted \cup {"idle", "check1", "claim1", "add", "open", "wake", "signal"}
Record == [by : Senders \cup {"receiver"}, size : Sizes \cup {1}, is : {"open", "done", "void"}]

\* Every variable keeps its type; the counts of waiters and tokens never go
\* below zero and no FIFO holds more than it can.
TypeOK ==
  /\ log \in Seq(Record) /\ head \in 0..Len(log)
  /\ recvWaiters \in 0..1 /\ sendWaiters \in Nat
  /\ consumer \in {"receiver", "none"} /\ unlinked \in BOOLEAN
  /\ notEmpty \in 0..PipeCap /\ notFull \in 0..PipeCap
  /\ spc \in [Senders -> SenderPc]
  /\ call \in [Senders -> [kind : {"none", "send", "claim"}, size : Sizes \cup {0}, rec : 0..Len(log)]]
  /\ watch \in [Senders -> {"on", "wake", "signal", "dead"}]
  /\ gone \in [Senders -> BOOLEAN] /\ wsig \in [Senders -> Nat]
  /\ closed \subseteq Senders \cup {"receiver"} /\ shut \subseteq closed /\ dead \subseteq Senders \cup {"receiver"}
  /\ rpc \in {"idle", "read", "publish", "wake", "signal", "unstall", "add", "wait", "again", "ret"}
  /\ second \in BOOLEAN /\ got \in BOOLEAN /\ cur \in 0..Len(log) /\ sig \in Nat
  /\ watched \subseteq Senders
  /\ cpc \in {"open", "consumer", "wake", "signal", "stop", "done"} /\ csig \in Nat
  /\ begun \in 0..MaxSends /\ sent \subseteq 1..Len(log)

ReceiverGone == ~Up("receiver") \/ "receiver" \in closed

\* The counts are exact: sendWaiters is the number of senders that are between
\* their add and their sub, the dead ones included (design.md: "A sender that
\* dies while it is parked leaves `sendWaiters` one too high").
WaitersCounted ==
  /\ sendWaiters = Cardinality({s \in Senders : spc[s] \in Counted})
  /\ recvWaiters = IF second THEN 1 ELSE 0

\* design.md: "No wakeup falls between them": while the receiver sleeps over a
\* finished record, somebody is on the way to signal it.
NoWakeupBetween ==
  (rpc = "wait" /\ notEmpty = 0 /\ head < Len(log) /\ log[head + 1].is # "open") =>
    \E s \in Senders : spc[s] \in {"subwake", "wake", "signal"}

\* So it is while no sender closes its events under a send of its own.
RecvWakeupComing == shut = {} => NoWakeupBetween

\* A sender is told that its peer is gone only once it is, or once its name is.
GoneIsGone == \A s \in Senders : gone[s] => ReceiverGone \/ unlinked

Received(i) == i <= head \/ ReceiverGone

\* A message whose send returned reaches a receiver that keeps receiving,
\* although other producers may abort, die in the middle of a claim and leave
\* it in the way.  A death between a commit and its signal is set aside.
SentIsReceived ==
  LET silent == \E s \in dead : spc[s] \in {"subwake", "wake", "signal"} IN
  []<>(silent \/ \A i \in sent : log[i].is = "done" => Received(i))

\* A parked sender never stays parked: it gets room, or learns that the
\* receiver closed or died.  The death of another sender is set aside.
SenderUnparks ==
  []<>(dead \cap Senders # {} \/ \A s \in Senders : spc[s] # "wait")

\* design.md: "When the process exits, the watch marks the peer gone and wakes
\* every sender this process parked on the queue."  queue.go, on Close: "a sender
\* parked on a full queue wakes and finds nobody left to drain it."  A sender
\* that still sleeps after its watch ran has a token waiting or another watch to
\* post one, unless a sender that closed took the token along; and once the
\* signal of Close is out, every sender that still sleeps has a token of its own.
SendersWoken ==
  /\ \A s \in Senders :
       (Up(s) /\ spc[s] = "wait" /\ watch[s] = "dead" /\ closed = {} /\ notFull = 0) =>
         \E t \in Senders : Up(t) /\ watch[t] # "dead"
  /\ cpc \in {"stop", "done"} => Cardinality({s \in Senders : spc[s] = "wait"}) <= notFull

\* ipc.go: "A process that dies holding a claim does not wedge the queue."  As
\* long as only holders of open claims have died, a parked sender moves on.
DeadClaimNoWedge ==
  LET onlyHolders == \A s \in dead : spc[s] \in {"open", "open2", "subopen"} IN
  \A s \in Senders :
    (spc[s] = "wait" /\ onlyHolders) ~> (spc[s] # "wait" \/ ~Up(s) \/ ~onlyHolders)
=============================================================================
