---------------------------- MODULE QueueProofs -----------------------------
(***************************************************************************)
(* Parking in the queue, for any finite set of senders and any ring.  The  *)
(* waiter counts are exact and nobody is told of the end of a receiver     *)
(* that is still there; and no finished record is overlooked by a receiver *)
(* that goes to sleep.  The second rests on the exact counts: who looks at *)
(* a count decides by it whether to signal.                                *)
(***************************************************************************)
EXTENDS Queue, FiniteSetTheorems, TLAPS

\* The SMT solver proves all but a few of the leaves.
USE SMTT(20), Z3T(20)

Parked == {s \in Senders : spc[s] \in Counted}

\* The receiver is counted from its add to its sub.
RecvCount ==
  /\ second \in BOOLEAN
  /\ rpc \in {"idle", "add"} => second = FALSE
  /\ rpc \in {"wait", "again", "ret"} => second = TRUE
  /\ recvWaiters = IF second THEN 1 ELSE 0

SendCount == spc \in [Senders -> SenderPc] /\ sendWaiters = Cardinality(Parked)

Told ==
  /\ gone \in [Senders -> BOOLEAN]
  /\ consumer = "none" => "receiver" \in closed
  /\ cpc # "open" => "receiver" \in closed
  /\ GoneIsGone

IInv == RecvCount /\ SendCount /\ Told

\* What a sender does, settling and cancelling included.
SenderActs(s) ==
  \/ SenderStep(s) \/ Settle(s, "void") \/ WaitCancelled(s)
  \/ \E k \in Kinds, n \in Sizes : Begin(s, k, n)

\* The labels, spelled out.
LEMMA Labels ==
  /\ Counted = {"check2", "claim2", "open2", "wait", "again", "fail", "subopen", "subwake"}
  /\ SenderPc = Counted \cup {"idle", "check1", "claim1", "add", "open", "wake", "signal"}
  /\ DOMAIN AfterSub = {"again", "fail", "subopen", "subwake"}
<1>1. DOMAIN AfterSub = {"again", "fail", "subopen", "subwake"}
  BY DEF AfterSub
<1> QED
  BY <1>1 DEF Counted, SenderPc

\* A sender that is on the same side of the counted steps before and after changes
\* nothing; one that comes in adds one, and one that goes out takes one away.
LEMMA CountStep ==
  ASSUME NEW s \in Senders, NEW l \in SenderPc, spc \in [Senders -> SenderPc], Goto(s, l)
  PROVE  /\ spc' \in [Senders -> SenderPc]
         /\ (spc[s] \in Counted <=> l \in Counted) => Parked' = Parked
         /\ (spc[s] \notin Counted /\ l \in Counted) =>
            Cardinality(Parked') = Cardinality(Parked) + 1
         /\ (spc[s] \in Counted /\ l \notin Counted) =>
            Cardinality(Parked') = Cardinality(Parked) - 1
<1>1. spc' = [spc EXCEPT ![s] = l]
  BY DEF Goto
<1>2. IsFiniteSet(Parked)
  BY ConstantsOK, FS_Subset DEF Parked
<1>3. (spc[s] \in Counted <=> l \in Counted) => Parked' = Parked
  BY <1>1 DEF Parked
<1>4. (spc[s] \notin Counted /\ l \in Counted) => s \notin Parked /\ Parked' = Parked \cup {s}
  BY <1>1 DEF Parked
<1>5. (spc[s] \in Counted /\ l \notin Counted) => s \in Parked /\ Parked' = Parked \ {s}
  BY <1>1 DEF Parked
<1>6. spc' \in [Senders -> SenderPc]
  BY <1>1
<1> QED
  BY <1>2, <1>3, <1>4, <1>5, <1>6, FS_AddElement, FS_RemoveElement

\* Nobody waits at the start, and the receiver is there.
LEMMA InitInv == Init => IInv
<1> SUFFICES ASSUME Init PROVE IInv
  OBVIOUS
<1> USE DEF Init, InitWith
<1>1. SendCount
  <2>1. spc \in [Senders -> SenderPc] /\ Parked = {}
    BY Labels DEF Parked
  <2> QED
    BY <2>1, FS_EmptySet DEF SendCount
<1>2. RecvCount
  BY Zenon DEF RecvCount
<1>3. Told
  BY DEF Told, GoneIsGone
<1> QED
  BY <1>1, <1>2, <1>3 DEF IInv

\* What a sender changes, and in which of its steps.
LEMMA SenderEffect ==
  ASSUME NEW s \in Senders, SenderActs(s)
  PROVE  /\ UNCHANGED <<head, recvWaiters, rpc, second, got, cur, sig, watch, wsig>>
         /\ UNCHANGED <<closed, cpc, csig, consumer, unlinked, dead>>
         /\ gone' = gone \/ CheckPeer(s) \/ Attempt(s)
         /\ log' = log \/ Attempt(s) \/ Settle(s, "done") \/ Settle(s, "void")
         /\ shut' = shut \/ ShutSender(s)
         /\ notEmpty' = notEmpty \/ SignalReceiver(s)
         /\ notFull' = notFull \/ WaitToken(s)
         /\ \/ call' = call \/ call' = [call EXCEPT ![s] = NoCall] \/ Attempt(s)
            \/ \E k \in Kinds, n \in Sizes : Begin(s, k, n)
<1> USE DEF ringVars, waiterVars, eventVars, senderVars, watchVars, receiverVars, closeVars
<1>1. CASE CheckPeer(s)
  BY <1>1 DEF CheckPeer, PeerGone, Return
<1>2. CASE Attempt(s)
  BY <1>2 DEF Attempt
<1>3. CASE AddWaiter(s) \/ WaitToken(s) \/ WaitFails(s)
  BY <1>3 DEF AddWaiter, WaitToken, WaitFails
<1>4. CASE SubWaiter(s) \/ ShutSender(s)
  BY <1>4 DEF SubWaiter, Return, ShutSender
<1>5. CASE Settle(s, "done") \/ Settle(s, "void")
  BY <1>5 DEF Settle
<1>6. CASE WakeReceiver(s) \/ SignalReceiver(s)
  BY <1>6 DEF WakeReceiver, SignalReceiver, Return
<1>7. CASE \E k \in Kinds, n \in Sizes : Begin(s, k, n)
  <2>1. /\ UNCHANGED <<head, recvWaiters, rpc, second, got, cur, sig, watch, wsig>>
        /\ UNCHANGED <<closed, cpc, csig, consumer, unlinked, dead>>
        /\ UNCHANGED <<gone, log, shut, notEmpty, notFull>>
    BY <1>7 DEF Begin
  <2> QED
    BY <1>7, <2>1
<1> QED
  BY <1>1, <1>2, <1>3, <1>4, <1>5, <1>6, <1>7 DEF SenderActs, SenderStep, WaitCancelled, WaitClosed

\* What the receiver changes.
LEMMA ReceiverEffect ==
  ASSUME ReceiverStep \/ Recv \/ RecvCancelled
  PROVE  /\ UNCHANGED <<spc, call, sendWaiters, gone, watch, wsig>>
         /\ UNCHANGED <<closed, shut, cpc, csig, consumer, unlinked, dead>>
         /\ notFull' = notFull \/ SignalSenders
         /\ sig' = sig \/ WakeSenders \/ SignalSenders
<1> USE DEF ringVars, waiterVars, eventVars, senderVars, watchVars, closeVars
<1>1. CASE Read \/ PublishHead
  BY <1>1 DEF Read, PublishHead
<1>2. CASE WakeSenders \/ SignalSenders
  BY <1>2 DEF WakeSenders, SignalSenders
<1>3. CASE Unstall \/ Recv
  BY <1>3 DEF Unstall, Recv
<1>4. CASE RecvAdd \/ RecvToken
  BY <1>4 DEF RecvAdd, RecvToken
<1>5. CASE RecvSub \/ RecvFails
  BY <1>5 DEF RecvSub, RecvFails
<1> QED
  BY <1>1, <1>2, <1>3, <1>4, <1>5 DEF ReceiverStep, RecvClosed, RecvCancelled

\* What the watches, and the first step of a sender's Close, change.
LEMMA WatchEffect ==
  ASSUME NEW s \in Senders, WatchStep(s) \/ ProducerExited(s) \/ CloseSender(s)
  PROVE  /\ UNCHANGED <<log, head, cur, rpc, second, got, spc, call, sendWaiters, recvWaiters>>
         /\ UNCHANGED <<sig, shut, cpc, csig, consumer, unlinked, dead>>
         /\ closed \subseteq closed' /\ (closed' = closed \/ CloseSender(s))
         /\ UNCHANGED <<gone, watch, wsig, notFull>> \/ WatchStep(s)
         /\ gone' = gone \/ PeerExited(s)
         /\ notEmpty' = notEmpty \/ notEmpty' = Posted("receiver", notEmpty, 1)
<1> USE DEF ringVars, waiterVars, eventVars, senderVars, watchVars, receiverVars, closeVars
<1>1. CASE PeerExited(s) \/ PeerWake(s)
  BY <1>1 DEF WatchStep, PeerExited, PeerWake
<1>2. CASE PeerSignal(s)
  BY <1>2 DEF WatchStep, PeerSignal
<1>3. CASE ProducerExited(s)
  BY <1>3 DEF ProducerExited
<1>4. CASE CloseSender(s)
  BY <1>4 DEF CloseSender
<1> QED
  BY <1>1, <1>2, <1>3, <1>4 DEF WatchStep

\* What the receiver's Close, Unlink and a death change.
LEMMA EndEffect ==
  ASSUME CloseStep \/ CloseBegin \/ Unlink \/ \E x \in Mortal : Crash(x)
  PROVE  /\ UNCHANGED <<log, head, cur, rpc, second, got, spc, call, sendWaiters, recvWaiters>>
         /\ UNCHANGED <<gone, watch, wsig, sig, notEmpty>>
         /\ closed \subseteq closed' /\ dead \subseteq dead' /\ shut \subseteq shut'
         /\ unlinked => unlinked'
         /\ consumer' = consumer \/ (consumer' = "none" /\ cpc # "open")
         /\ cpc' = cpc \/ cpc # "open" \/ "receiver" \in closed'
         /\ UNCHANGED <<notFull, cpc, csig, consumer, shut>> \/ CloseStep \/ CloseBegin
         /\ dead' = dead \/ \E x \in Mortal : dead' = dead \cup {x}
<1> USE DEF ringVars, waiterVars, eventVars, senderVars, watchVars, receiverVars, closeVars
<1>1. CASE CloseBegin \/ CloseConsumer
  BY <1>1 DEF CloseStep, CloseBegin, CloseConsumer
<1>2. CASE CloseWake \/ CloseSignal
  BY <1>2 DEF CloseStep, CloseWake, CloseSignal
<1>3. CASE CloseStop
  BY <1>3 DEF CloseStep, CloseStop
<1>4. CASE Unlink
  BY <1>4 DEF Unlink
<1>5. CASE \E x \in Mortal : Crash(x)
  BY <1>5 DEF Crash
<1> QED
  BY <1>1, <1>2, <1>3, <1>4, <1>5 DEF CloseStep

\* What a sender does keeps its count.
LEMMA SenderCounts ==
  ASSUME SendCount, NEW s \in Senders,
         SenderActs(s)
  PROVE  SendCount'
<1> USE Labels DEF SendCount, waiterVars, senderVars
<1>1. ASSUME \/ CheckPeer(s) \/ Attempt(s) \/ WaitToken(s) \/ WaitFails(s) \/ WakeReceiver(s)
             \/ SignalReceiver(s) \/ Settle(s, "done") \/ Settle(s, "void")
             \/ \E k \in Kinds, n \in Sizes : Begin(s, k, n)
      PROVE  SendCount'
  <2>1. PICK l \in SenderPc : Goto(s, l) /\ (spc[s] \in Counted <=> l \in Counted)
    BY <1>1 DEF CheckPeer, Attempt, WaitToken, WaitFails, WakeReceiver, SignalReceiver, Settle,
                Begin, PeerGone, Return, Second
  <2>2. UNCHANGED sendWaiters
    BY <1>1 DEF CheckPeer, Attempt, WaitToken, WaitFails, WakeReceiver, SignalReceiver, Settle,
                Begin
  <2> QED
    BY <2>1, <2>2, CountStep
<1>2. ASSUME AddWaiter(s) PROVE SendCount'
  BY <1>2, CountStep DEF AddWaiter
<1>3. ASSUME SubWaiter(s) PROVE SendCount'
  <2>1. PICK l \in SenderPc : Goto(s, l) /\ spc[s] \in Counted /\ l \notin Counted
    BY <1>3 DEF SubWaiter, Return, AfterSub
  <2> QED
    BY <1>3, <2>1, CountStep DEF SubWaiter
<1>4. ASSUME ShutSender(s) PROVE SendCount'
  BY <1>4 DEF ShutSender, Parked
<1> QED
  BY <1>1, <1>2, <1>3, <1>4 DEF SenderActs, SenderStep, WaitCancelled, WaitClosed

\* Nobody else touches the count of the senders.
LEMMA OthersCount ==
  ASSUME SendCount, UNCHANGED <<spc, sendWaiters>>
  PROVE  SendCount'
  BY DEF SendCount, Parked

\* The receiver adds itself before its second attempt and takes itself out once.
LEMMA ReceiverCounts ==
  ASSUME RecvCount, ReceiverStep \/ Recv \/ RecvCancelled
  PROVE  RecvCount'
<1> USE DEF RecvCount, waiterVars
<1>1. CASE Read \/ PublishHead
  BY <1>1 DEF Read, PublishHead, AfterRead
<1>2. CASE WakeSenders \/ SignalSenders
  BY <1>2 DEF WakeSenders, SignalSenders, AfterRead
<1>3. CASE RecvToken \/ RecvFails \/ Recv
  BY <1>3, Zenon DEF RecvToken, RecvFails, Recv
<1>4. CASE RecvAdd
  BY <1>4 DEF RecvAdd
<1>5. CASE RecvSub
  <2>1. second = TRUE /\ recvWaiters = 1
    BY <1>5 DEF RecvSub
  <2>2. second' = FALSE /\ recvWaiters' = 0 /\ rpc' \in {"read", "idle"}
    BY <1>5, <2>1 DEF RecvSub
  <2> QED
    BY <2>2, Zenon
<1>6. CASE Unstall
  BY <1>6 DEF Unstall
<1> QED
  BY <1>1, <1>2, <1>3, <1>4, <1>5, <1>6, Zenon DEF ReceiverStep, RecvClosed, RecvCancelled

\* Only these steps touch the receiver's count, its label or its attempt.
LEMMA OthersRecvCount ==
  ASSUME RecvCount, UNCHANGED <<recvWaiters, rpc, second>>
  PROVE  RecvCount'
  BY DEF RecvCount

\* What makes an ErrPeerGone true stays: the dead stay dead, Close and Unlink are final.
LEMMA ToldKept ==
  ASSUME Told, gone' = gone, closed \subseteq closed', dead \subseteq dead', unlinked => unlinked',
         consumer' = consumer \/ (consumer' = "none" /\ cpc # "open"),
         cpc' = cpc \/ "receiver" \in closed'
  PROVE  Told'
  BY DEF Told, GoneIsGone, ReceiverGone, Up

\* A sender that is told saw the field cleared, the queue unlinked, or its watch fire.
LEMMA ToldNew ==
  ASSUME Told, NEW s \in Senders, gone' = [gone EXCEPT ![s] = TRUE],
         UNCHANGED <<closed, cpc, consumer, unlinked, dead>>,
         consumer = "none" \/ gone[s] \/ unlinked \/ "receiver" \in dead
  PROVE  Told'
<1>1. gone' \in [Senders -> BOOLEAN]
  BY DEF Told
<1>2. ReceiverGone \/ unlinked
  BY DEF Told, GoneIsGone, ReceiverGone, Up
<1>3. GoneIsGone'
  BY <1>2 DEF Told, GoneIsGone, ReceiverGone, Up
<1> QED
  BY <1>1, <1>3 DEF Told

\* Every step keeps the invariant.
LEMMA StepInv == IInv /\ [Next]_vars => IInv'
<1> SUFFICES ASSUME IInv, [Next]_vars PROVE IInv'
  OBVIOUS
<1> USE DEF IInv
<1>1. ASSUME NEW s \in Senders, SenderActs(s) PROVE IInv'
  <2>1. SendCount' /\ RecvCount'
    BY <1>1, SenderCounts, SenderEffect, OthersRecvCount
  <2>2. Told'
    <3>0. UNCHANGED <<closed, cpc, consumer, unlinked, dead>>
      BY <1>1, SenderEffect
    <3>1. CASE CheckPeer(s)
      <4>1. gone' = gone \/ (gone' = [gone EXCEPT ![s] = TRUE] /\ (consumer = "none" \/ gone[s]))
        BY <3>1 DEF CheckPeer, PeerGone
      <4> QED
        BY <3>0, <4>1, ToldKept, ToldNew
    <3>2. CASE Attempt(s)
      <4>1. gone' = gone \/ (unlinked /\ gone' = [gone EXCEPT ![s] = TRUE])
        BY <3>2 DEF Attempt, PeerGone
      <4> QED
        BY <3>0, <4>1, ToldKept, ToldNew
    <3> QED
      BY <1>1, <3>0, <3>1, <3>2, SenderEffect, ToldKept
  <2> QED
    BY <2>1, <2>2
<1>2. ASSUME NEW s \in Senders, WatchStep(s) \/ ProducerExited(s) \/ CloseSender(s) PROVE IInv'
  <2>1. /\ UNCHANGED <<spc, sendWaiters, recvWaiters, rpc, second, cpc, consumer, unlinked, dead>>
        /\ closed \subseteq closed' /\ (gone' = gone \/ PeerExited(s))
    BY <1>2, WatchEffect
  <2>2. Told'
    <3>1. CASE PeerExited(s)
      <4>1. gone' = [gone EXCEPT ![s] = TRUE] /\ "receiver" \in dead /\ closed' = closed
        BY <3>1 DEF PeerExited, Up, closeVars
      <4> QED
        BY <2>1, <4>1, ToldNew, Zenon
    <3>2. CASE gone' = gone
      BY <2>1, <3>2, ToldKept
    <3> QED
      BY <2>1, <3>1, <3>2
  <2> QED
    BY <2>1, <2>2, OthersCount, OthersRecvCount
<1>3. CASE ReceiverStep \/ Recv \/ RecvCancelled
  BY <1>3, ReceiverEffect, ReceiverCounts, OthersCount, ToldKept
<1>4. CASE CloseStep \/ CloseBegin \/ Unlink \/ \E x \in Mortal : Crash(x)
  <2>1. SendCount' /\ RecvCount'
    BY <1>4, EndEffect, OthersCount, OthersRecvCount
  <2>2. Told'
    BY <1>4, EndEffect, ToldKept DEF Told
  <2> QED
    BY <2>1, <2>2
<1>5. CASE UNCHANGED vars
  <2>1. UNCHANGED <<spc, sendWaiters, recvWaiters, rpc, second, gone, closed, cpc, consumer, unlinked, dead>>
    BY <1>5 DEF vars, waiterVars, senderVars, watchVars, receiverVars, closeVars
  <2> QED
    BY <2>1, OthersCount, OthersRecvCount, ToldKept
<1> QED
  BY <1>1, <1>2, <1>3, <1>4, <1>5 DEF Next, SenderActs

\* The counts that decide whether a wakeup is sent are exact at every step, for any
\* finite set of senders: nobody who parks is missing from them, and nobody who
\* left, whatever way out of park it took, is still in them (queue.go, park).
THEOREM CountsExact == Spec => []WaitersCounted
<1>1. IInv => WaitersCounted
  BY DEF IInv, RecvCount, SendCount, Parked, WaitersCounted
<1> QED
  BY <1>1, InitInv, StepInv, PTL DEF Spec

\* ErrPeerGone is true whenever a sender returns it: the receiver has closed or
\* died, or the queue was unlinked (checkPeer, peerExited and the retry).
THEOREM GoneIsTrue == Spec => []GoneIsGone
<1>1. IInv => GoneIsGone
  BY DEF IInv, Told
<1> QED
  BY <1>1, InitInv, StepInv, PTL DEF Spec
-----------------------------------------------------------------------------
(* The receiver sleeps over nothing: WakeInv *)

Request == [kind : {"none", "send", "claim"}, size : Nat, rec : Nat]
Entry == [by : Senders \cup {"receiver"}, size : Nat, is : {"open", "done", "void"}]

\* A sender that has settled a record and has not yet looked for the receiver, or is
\* about to signal it.
OnTheWay(s) == spc[s] \in {"subwake", "wake", "signal"}

\* The receiver has counted itself, found nothing behind its cursor, and has no token;
\* the next record is finished now.
Overlooked ==
  /\ second /\ (rpc \in {"unstall", "wait"} \/ (rpc \in {"publish", "wake", "signal"} /\ ~got))
  /\ notEmpty = 0 /\ cur < Len(log) /\ log[cur + 1].is # "open"

\* The part of the types that the argument needs.
LogType ==
  /\ log \in Seq(Entry) /\ cur \in 0..Len(log) /\ got \in BOOLEAN /\ notEmpty \in Nat
  /\ call \in [Senders -> Request]

\* A record that the receiver overlooked has a sender on the way to signal it.
WakeInv ==
  /\ rpc \in {"wake", "signal", "unstall", "add", "wait"} => head = cur
  /\ shut = {} /\ Overlooked => \E s \in Senders : OnTheWay(s)

\* A record that is settled leaves the others, and the number of them, as they are.
LEMMA LogSettled ==
  ASSUME log \in Seq(Entry), NEW i, NEW o \in {"open", "done", "void"},
         log' = [log EXCEPT ![i].is = o]
  PROVE  log' \in Seq(Entry) /\ Len(log') = Len(log)
<1>1. CASE i \in 1..Len(log)
  <2>1. log[i] \in Entry
    BY <1>1
  <2>2. [log[i] EXCEPT !.is = o] \in Entry
    BY <2>1, Zenon DEF Entry
  <2> QED
    BY <2>2, <1>1
<1>2. CASE i \notin 1..Len(log)
  <2>1. log = [j \in 1..Len(log) |-> log[j]] /\ i \notin DOMAIN log
    BY <1>2
  <2>2. log' = log
    BY <2>1
  <2> QED
    BY <2>2, Zenon
<1> QED
  BY <1>1, <1>2

\* A claim puts an open record behind the others.
LEMMA LogAppended ==
  ASSUME log \in Seq(Entry), NEW r \in Entry, log' = Append(log, r)
  PROVE  /\ log' \in Seq(Entry) /\ Len(log') = Len(log) + 1
         /\ log'[Len(log) + 1] = r /\ \A j \in 1..Len(log) : log'[j] = log[j]
  OBVIOUS

\* Nothing is overlooked by a step that leaves the log and the receiver alone.
LEMMA WakeKept ==
  ASSUME WakeInv, LogType, UNCHANGED <<log, head, cur, rpc, second, got>>, notEmpty' \in Nat,
         shut \subseteq shut', notEmpty' # notEmpty => notEmpty' > 0,
         notEmpty' > 0 \/ \A s \in Senders : OnTheWay(s) => OnTheWay(s)' \/ recvWaiters = 0,
         RecvCount
  PROVE  WakeInv'
  BY DEF WakeInv, LogType, Overlooked, RecvCount

\* A sender that settles a record is on the way, and stays so until it has signalled: the
\* receiver whose second attempt missed the record is counted, so the sender sees it.
LEMMA SenderWakes ==
  ASSUME WakeInv, LogType, IInv, NEW s \in Senders, 
         SenderActs(s)
  PROVE  WakeInv' /\ LogType'
<1>0. spc \in [Senders -> SenderPc] /\ RecvCount
  BY DEF IInv, SendCount
<1>1. CASE log' = log /\ ~Attempt(s)
  <2>0. UNCHANGED <<log, head, cur, rpc, second, got>> /\ shut \subseteq shut'
    <3>1. ShutSender(s) => shut \subseteq shut'
      BY DEF ShutSender
    <3> QED
      BY <1>1, <3>1, SenderEffect
  <2>1. notEmpty' \in Nat /\ (notEmpty' # notEmpty => notEmpty' > 0)
    <3>1. SignalReceiver(s) => notEmpty' \in Nat /\ (notEmpty' # notEmpty => notEmpty' > 0)
      BY ConstantsOK DEF SignalReceiver, Posted, LogType
    <3> QED
      BY <3>1, SenderEffect DEF LogType
  <2>2. call' \in [Senders -> Request]
    <3>1. /\ NoCall \in Request
          /\ \A k \in Kinds, n \in Sizes : [kind |-> k, size |-> n, rec |-> 0] \in Request
      BY ConstantsOK DEF NoCall, Request
    <3>2. CASE \E k \in Kinds, n \in Sizes : Begin(s, k, n)
      BY <3>1, <3>2 DEF Begin, LogType
    <3>3. CASE call' = call \/ call' = [call EXCEPT ![s] = NoCall]
      BY <3>1, <3>3 DEF LogType
    <3> QED
      BY <1>1, <3>2, <3>3, SenderEffect
  <2>3. CASE SignalReceiver(s)
    <3>1. (shut = {} => notEmpty' > 0) /\ shut' = shut
      BY <2>3, ConstantsOK DEF SignalReceiver, Posted, LogType, closeVars
    <3> QED
      BY <2>0, <2>1, <2>2, <3>1 DEF WakeInv, LogType, Overlooked
  <2>4. CASE ~SignalReceiver(s)
    <3>1. \A t \in Senders : OnTheWay(t) => OnTheWay(t)' \/ recvWaiters = 0
      <4> USE DEF Goto
      <4>1. CASE SubWaiter(s)
        <5>1. CASE spc[s] = "subwake"
          BY <1>0, <4>1, <5>1 DEF OnTheWay, SubWaiter, AfterSub
        <5>2. CASE spc[s] # "subwake"
          <6>1. ~OnTheWay(s) /\ \E l : spc' = [spc EXCEPT ![s] = l]
            BY <4>1, <5>2, Labels DEF OnTheWay, SubWaiter, Return
          <6> QED
            BY <1>0, <6>1 DEF OnTheWay
        <5> QED
          BY <5>1, <5>2
      <4>2. CASE WakeReceiver(s)
        BY <1>0, <4>2 DEF OnTheWay, RecvCount, WakeReceiver, Return
      <4>3. ASSUME spc' = spc \/ (~OnTheWay(s) /\ \E l : spc' = [spc EXCEPT ![s] = l])
            PROVE  \A t \in Senders : OnTheWay(t) => OnTheWay(t)' \/ recvWaiters = 0
        BY <1>0, <4>3 DEF OnTheWay
      <4>4. CASE ShutSender(s)
        BY <4>3, <4>4 DEF ShutSender, senderVars
      <4>5. CASE CheckPeer(s) \/ AddWaiter(s) \/ WaitToken(s) \/ WaitFails(s)
        <5>1. ~OnTheWay(s) /\ \E l : spc' = [spc EXCEPT ![s] = l]
          BY <4>5 DEF OnTheWay, CheckPeer, PeerGone, Return, AddWaiter, WaitToken, WaitFails
        <5> QED
          BY <4>3, <5>1, Zenon
      <4>6. CASE (\E k \in Kinds, n \in Sizes : Begin(s, k, n))
                 \/ \E o \in {"done", "void"} : Settle(s, o)
        <5>1. ~OnTheWay(s) /\ \E l : spc' = [spc EXCEPT ![s] = l]
          BY <4>6 DEF OnTheWay, Begin, Settle
        <5> QED
          BY <4>3, <5>1, Zenon
      <4> QED
        BY <1>1, <2>4, <4>1, <4>2, <4>4, <4>5, <4>6
           DEF SenderActs, SenderStep, WaitClosed, WaitCancelled
    <3> QED
      BY <1>0, <2>0, <2>1, <2>2, <3>1, WakeKept DEF LogType
  <2> QED
    BY <2>3, <2>4
<1>2. ASSUME NEW o \in {"void", "done"}, Settle(s, o) PROVE WakeInv' /\ LogType'
  <2>0. UNCHANGED <<head, cur, rpc, second, got, shut, notEmpty, call>>
    BY <1>2 DEF Settle, eventVars, receiverVars, closeVars
  <2>1. log' \in Seq(Entry) /\ Len(log') = Len(log)
    BY <1>2, LogSettled, Zenon DEF LogType, Settle
  <2>2. OnTheWay(s)'
    BY <1>0, <1>2 DEF OnTheWay, Settle, Goto
  <2> QED
    BY <2>0, <2>1, <2>2 DEF WakeInv, LogType
<1>3. CASE Attempt(s)
  <2>0. UNCHANGED <<head, cur, rpc, second, got, shut, notEmpty>>
    BY <1>3 DEF Attempt, eventVars, receiverVars, closeVars
  <2>1. \A t \in Senders : OnTheWay(t) => OnTheWay(t)'
    BY <1>0, <1>3 DEF Attempt, OnTheWay, PeerGone, Return, Goto
  <2>2. Len(log') \in Nat => call' \in [Senders -> Request]
    <3>1. /\ NoCall \in Request
          /\ Len(log') \in Nat => [call[s] EXCEPT !.rec = Len(log')] \in Request
      <4>1. call[s] \in Request
        BY DEF LogType
      <4>2. ASSUME NEW n \in Nat PROVE [call[s] EXCEPT !.rec = n] \in Request
        BY <4>1 DEF Request
      <4> QED
        BY <4>2 DEF NoCall, Request
    <3>2. \/ call' = call \/ call' = [call EXCEPT ![s] = NoCall]
          \/ call' = [call EXCEPT ![s] = [call[s] EXCEPT !.rec = Len(log')]]
      BY <1>3 DEF Attempt, PeerGone, Return
    <3> QED
      BY <3>1, <3>2 DEF LogType
  <2>3. CASE UNCHANGED log
    BY <1>0, <2>0, <2>1, <2>2, <2>3, WakeKept DEF LogType
  <2>4. CASE log' # log
    <3> DEFINE r == [by |-> s, size |-> call[s].size, is |-> "open"]
    <3>1. r \in Entry /\ log' = Append(log, r)
      BY <1>3, <2>4 DEF Attempt, Entry, LogType, Request
    <3>2. /\ log' \in Seq(Entry) /\ Len(log') = Len(log) + 1
          /\ log'[Len(log) + 1].is = "open" /\ \A j \in 1..Len(log) : log'[j] = log[j]
      BY <3>1, LogAppended DEF LogType
    <3>3. LogType'
      BY <2>0, <2>2, <3>2 DEF LogType
    <3>4. cur < Len(log') /\ log'[cur + 1].is # "open" => cur < Len(log) /\ log[cur + 1].is # "open"
      BY <3>2 DEF LogType
    <3> QED
      BY <2>0, <2>1, <3>3, <3>4 DEF WakeInv, Overlooked
  <2> QED
    BY <2>3, <2>4
<1> QED
  BY <1>1, <1>2, <1>3, SenderEffect

\* The receiver reads behind its cursor after it is counted, and sleeps only if it finds
\* the next record open.
LEMMA ReceiverWakes ==
  ASSUME WakeInv, LogType, RecvCount, ReceiverStep \/ Recv \/ RecvCancelled
  PROVE  WakeInv' /\ LogType'
<1>0. UNCHANGED <<spc, call, shut>>
  BY ReceiverEffect
<1>1. ASSUME UNCHANGED <<log, cur, got>>, notEmpty' \in Nat, Overlooked' => Overlooked,
             rpc' \in {"wake", "signal", "unstall", "add", "wait"} => head' = cur
      PROVE  WakeInv' /\ LogType'
  BY <1>0, <1>1 DEF WakeInv, LogType, OnTheWay
<1>2. CASE Read
  <2> DEFINE next == IF cur < Len(log) THEN log[cur + 1].is ELSE "open"
  <2>1. /\ rpc' = IF next = "void" THEN "read" ELSE "publish"
        /\ cur' = IF next = "open" THEN cur ELSE cur + 1
        /\ got' = (next = "done") /\ UNCHANGED <<log, notEmpty>>
    BY <1>2 DEF Read, ringVars, eventVars
  <2>2. next = "open" => cur >= Len(log) \/ log[cur + 1].is = "open"
    BY DEF LogType
  <2>3. next \in {"open", "void", "done"}
    <3>1. cur < Len(log) => log[cur + 1] \in Entry
      BY DEF LogType
    <3> QED
      BY <3>1 DEF Entry
  <2>4. cur' \in 0..Len(log)
    BY <2>1 DEF LogType
  <2>5. got' \in BOOLEAN /\ (next # "done" <=> ~got')
    BY <2>1, Zenon
  <2>6. ~Overlooked'
    <3> HIDE DEF next
    <3>1. ASSUME rpc' = "publish", ~got' PROVE next = "open"
      BY <2>1, <2>3, <2>5, <3>1
    <3>2. next = "open" => cur' >= Len(log') \/ log'[cur' + 1].is = "open"
      BY <2>1, <2>2
    <3> QED
      BY <2>1, <2>4, <3>1, <3>2 DEF Overlooked, LogType
  <2>7. rpc' \in {"read", "publish"}
    BY <2>1
  <2> QED
    BY <1>0, <2>1, <2>4, <2>5, <2>6, <2>7 DEF WakeInv, LogType
<1>3. CASE PublishHead
  <2>1. /\ UNCHANGED <<log, cur, got, notEmpty, second>> /\ head' = cur
        /\ rpc = "publish" /\ rpc' \in {"wake", AfterRead}
    BY <1>3 DEF PublishHead, eventVars
  <2>2. Overlooked' => Overlooked
    BY <2>1 DEF Overlooked, AfterRead
  <2> QED
    BY <1>1, <2>1, <2>2 DEF LogType
<1>4. CASE WakeSenders \/ SignalSenders
  <2>1. /\ UNCHANGED <<log, head, cur, got, notEmpty, second>>
        /\ rpc \in {"wake", "signal"} /\ rpc' \in {"signal", AfterRead}
    BY <1>4 DEF WakeSenders, SignalSenders, ringVars, eventVars
  <2>2. Overlooked' => Overlooked
    BY <2>1 DEF Overlooked, AfterRead
  <2> QED
    BY <1>1, <2>1, <2>2 DEF LogType, WakeInv
<1>5. CASE Unstall
  <2>1. /\ UNCHANGED <<head, cur, got, notEmpty, second>> /\ rpc = "unstall"
        /\ rpc' \in {"read", "wait", "add"} /\ (rpc' = "read" \/ log' = log)
    BY <1>5 DEF Unstall, eventVars
  <2>2. log' \in Seq(Entry) /\ Len(log') = Len(log)
    BY <1>5, LogSettled DEF Unstall, LogType
  <2>3. Overlooked' => Overlooked
    BY <2>1 DEF Overlooked
  <2> QED
    BY <1>0, <2>1, <2>2, <2>3 DEF WakeInv, LogType, OnTheWay
<1>6. CASE RecvAdd
  <2>1. UNCHANGED <<log, cur, got, notEmpty>> /\ rpc' = "read"
    BY <1>6 DEF RecvAdd, ringVars, eventVars
  <2> QED
    BY <1>1, <2>1 DEF LogType, Overlooked
<1>7. CASE RecvToken
  <2>1. UNCHANGED <<log, cur, got>> /\ rpc' = "again" /\ notEmpty' \in Nat
    BY <1>7 DEF RecvToken, ringVars, LogType
  <2> QED
    BY <1>1, <2>1 DEF Overlooked
<1>8. CASE RecvSub \/ RecvFails \/ Recv
  <2>1. UNCHANGED <<log, cur, got, notEmpty>> /\ rpc' \in {"read", "idle", "ret"}
    BY <1>8 DEF RecvSub, RecvFails, Recv, ringVars, eventVars
  <2> QED
    BY <1>1, <2>1 DEF LogType, Overlooked
<1> QED
  BY <1>2, <1>3, <1>4, <1>5, <1>6, <1>7, <1>8 DEF ReceiverStep, RecvClosed, RecvCancelled

\* Every step keeps it: the watches, Close and the deaths touch neither the log nor the way.
LEMMA WakeStep ==
  ASSUME WakeInv, LogType, IInv, [Next]_vars
  PROVE  WakeInv' /\ LogType'
<1>0. RecvCount
  BY DEF IInv
<1>1. ASSUME UNCHANGED <<log, head, cur, rpc, second, got, spc, call>>, shut \subseteq shut',
             notEmpty' \in Nat, notEmpty' # notEmpty => notEmpty' > 0
      PROVE WakeInv' /\ LogType'
  BY <1>0, <1>1, WakeKept DEF LogType, OnTheWay
<1>2. ASSUME NEW s \in Senders, WatchStep(s) \/ ProducerExited(s) \/ CloseSender(s)
      PROVE  WakeInv' /\ LogType'
  <2>1. LET n == Posted("receiver", notEmpty, 1) IN n \in Nat /\ (n # notEmpty => n > 0)
    BY ConstantsOK DEF Posted, LogType
  <2> QED
    BY <1>1, <1>2, <2>1, WatchEffect DEF LogType
<1>3. CASE CloseStep \/ CloseBegin \/ Unlink \/ \E x \in Mortal : Crash(x)
  BY <1>1, <1>3, EndEffect DEF LogType
<1>4. CASE UNCHANGED vars
  BY <1>1, <1>4 DEF vars, LogType, ringVars, eventVars, senderVars, receiverVars, closeVars
<1> QED
  BY <1>0, <1>2, <1>3, <1>4, SenderWakes, ReceiverWakes DEF Next, SenderActs

\* design.md, "No wakeup falls between them": a receiver that sleeps with no token over a
\* finished record has a sender on the way to signal it, for any senders, ring and pipe,
\* whoever dies, as long as no handle has closed its events (park, wakeReceiver).
THEOREM WakeupComes == Spec => []RecvWakeupComing
<1>1. Init => WakeInv /\ LogType
  <2> SUFFICES ASSUME Init PROVE WakeInv /\ LogType
    OBVIOUS
  <2>1. log \in Seq(Entry) /\ Len(log) \in Nat
    BY ConstantsOK DEF Init, InitWith, Entry
  <2>2. call \in [Senders -> Request]
    BY DEF Init, InitWith, NoCall, Request
  <2>3. cur = 0 /\ got \in BOOLEAN /\ second = FALSE /\ notEmpty = 0 /\ rpc = "idle"
    BY Zenon DEF Init, InitWith
  <2> QED
    BY <2>1, <2>2, <2>3 DEF WakeInv, LogType, Overlooked
<1>2. WakeInv /\ LogType /\ RecvCount => RecvWakeupComing
  BY DEF WakeInv, LogType, Overlooked, RecvCount, RecvWakeupComing, NoWakeupBetween, OnTheWay
<1>3. IInv => RecvCount
  BY DEF IInv
<1> QED
  BY <1>1, <1>2, <1>3, InitInv, StepInv, WakeStep, PTL DEF Spec
=============================================================================
