-------------------------- MODULE QueueParkProofs ---------------------------
(***************************************************************************)
(* The end of the receiver wakes the senders, for any finite set of them   *)
(* that the pipe has room for: neither its Close nor its death leaves a    *)
(* sender asleep without a token, on top of the exact counts of            *)
(* QueueProofs.                                                            *)
(***************************************************************************)
EXTENDS QueueProofs

\* The SMT solver proves all but a few of the leaves.
USE SMTT(20), Z3T(20)

\* The senders that sleep, or that will unless they find room.
Asleep == {s \in Senders : spc[s] \in {"claim2", "wait"}}
Sleepers == Cardinality(Asleep)

\* No signal is cut short: one write has room for a token of every sender, and a pipe
\* that is full holds one for each.
Roomy == Cardinality(Senders) <= PipeBuf /\ 2 * Cardinality(Senders) <= PipeCap

\* From its load of the count on, Close owes every sleeper a token; once it has signalled,
\* every sleeper has one.  Nobody goes to sleep any more: the consumer field is cleared.
CloseInv ==
  /\ csig \in Nat /\ csig <= Cardinality(Senders) /\ shut \subseteq closed
  /\ cpc \in {"wake", "signal", "stop", "done"} => consumer = "none"
  /\ "receiver" \in shut => cpc = "done"
  /\ cpc = "signal" => Sleepers <= csig
  /\ cpc \in {"stop", "done"} => Sleepers <= notFull

\* Once every watch has marked the receiver gone, nobody goes to sleep any more, and there
\* is a token for each sleeper or a watch that still owes as many.
WatchInv ==
  /\ notFull \in Nat
  /\ watch \in [Senders -> {"on", "wake", "signal", "dead"}]
  /\ wsig \in [Senders -> 0..Cardinality(Senders)]
  /\ \A s \in Senders : watch[s] # "on" => gone[s]
  /\ (dead \cap Senders = {} /\ closed = {} /\ \A t \in Senders : watch[t] \notin {"on", "wake"}) =>
        Sleepers <= notFull \/ \E t \in Senders : watch[t] = "signal" /\ Sleepers <= wsig[t]

ParkInv == CloseInv /\ WatchInv /\ sig \in Nat

\* A signal takes no token away, and leaves as many as it was to post: a pipe without room
\* for them holds more already.
LEMMA PostedEnough ==
  ASSUME Roomy, Cardinality(Senders) \in Nat,
         NEW x, NEW t \in Nat, NEW n \in 0..Cardinality(Senders)
  PROVE  /\ Posted(x, t, n) \in Nat /\ Posted(x, t, n) >= t
         /\ x \notin shut => Posted(x, t, n) >= n
  BY ConstantsOK DEF Posted, Roomy

\* The count covers the sleepers.
LEMMA SleepersCounted ==
  ASSUME SendCount
  PROVE  /\ Sleepers \in Nat /\ sendWaiters \in Nat /\ Cardinality(Senders) \in Nat
         /\ Sleepers <= sendWaiters /\ sendWaiters <= Cardinality(Senders)
<1>1. IsFiniteSet(Senders) /\ Parked \subseteq Senders /\ Asleep \subseteq Parked
  BY ConstantsOK, Labels DEF Parked, Asleep
<1> QED
  BY <1>1, FS_Subset, FS_CardinalityType DEF SendCount, Sleepers

\* Only a second check that passes makes a sleeper; a token takes one away.
LEMMA SleepStep ==
  ASSUME SendCount, NEW s \in Senders, NEW l \in SenderPc, Goto(s, l)
  PROVE  /\ l \notin {"claim2", "wait"} \/ spc[s] = "claim2" =>
              Sleepers' \in Nat /\ Sleepers' <= Sleepers
         /\ l = "again" /\ spc[s] = "wait" => Sleepers' \in Nat /\ Sleepers' = Sleepers - 1
<1>1. spc' = [spc EXCEPT ![s] = l] /\ spc \in [Senders -> SenderPc]
  BY DEF Goto, SendCount
<1>2. IsFiniteSet(Asleep)
  BY ConstantsOK, FS_Subset DEF Asleep
<1>3. (l \notin {"claim2", "wait"} \/ spc[s] = "claim2") => Asleep' \subseteq Asleep
  BY <1>1 DEF Asleep
<1>4. (l = "again" /\ spc[s] = "wait") => Asleep' = Asleep \ {s} /\ s \in Asleep
  BY <1>1 DEF Asleep
<1> QED
  BY <1>2, <1>3, <1>4, FS_Subset, FS_CardinalityType, FS_RemoveElement DEF Sleepers

\* Fewer sleepers and more tokens do no harm.
LEMMA ParkKept ==
  ASSUME ParkInv, SendCount, Sleepers' \in Nat, Sleepers' <= Sleepers,
         notFull' \in Nat, notFull' >= notFull,
         UNCHANGED <<watch, wsig, cpc, csig, consumer, shut>>, sig' \in Nat,
         closed \subseteq closed', dead \subseteq dead', \A s \in Senders : gone[s] => gone'[s]
  PROVE  ParkInv'
<1>1. Sleepers \in Nat
  BY SleepersCounted
<1>2. CloseInv'
  BY <1>1 DEF ParkInv, CloseInv, WatchInv
<1>3. WatchInv'
  BY <1>1 DEF ParkInv, WatchInv
<1> QED
  BY <1>2, <1>3 DEF ParkInv

\* A sender whose second check passes saw the receiver there; one that takes a token is
\* awake.
LEMMA SenderParks ==
  ASSUME ParkInv, IInv, NEW s \in Senders,
         SenderActs(s)
  PROVE  ParkInv'
<1>a. UNCHANGED <<watch, wsig, cpc, csig, consumer, closed, dead, sig>>
  BY SenderEffect
<1>0. /\ SendCount /\ Sleepers \in Nat
      /\ notFull \in Nat /\ sig \in Nat /\ gone \in [Senders -> BOOLEAN]
  BY SleepersCounted DEF IInv, ParkInv, WatchInv, Told
<1>1. CASE CheckPeer(s) \/ Attempt(s)
  <2>1. UNCHANGED <<watch, wsig, cpc, csig, consumer, shut, closed, dead, notFull, sig>>
    BY <1>1, <1>a DEF CheckPeer, Attempt, eventVars, closeVars
  <2>2. \A t \in Senders : gone[t] => gone'[t]
    BY <1>0, <1>1 DEF CheckPeer, Attempt, PeerGone
  <2>3. CASE Attempt(s) \/ consumer = "none" \/ gone[s] \/ spc[s] = "check1"
    <3>1. PICK l \in SenderPc : Goto(s, l) /\ (l \notin {"claim2", "wait"} \/ spc[s] = "claim2")
      BY <1>1, <2>3, Labels DEF CheckPeer, Attempt, PeerGone, Return, Second
    <3> QED
      BY <1>0, <2>1, <2>2, <3>1, SleepStep, ParkKept
  <2>4. CASE CheckPeer(s) /\ consumer # "none" /\ ~gone[s]
    <3>1. Sleepers' \in Nat
      <4>1. Asleep' \subseteq Senders
        BY DEF Asleep
      <4> QED
        BY <4>1, ConstantsOK, FS_Subset, FS_CardinalityType DEF Sleepers
    <3>2. gone' = gone
      BY <2>4 DEF CheckPeer
    <3>3. CloseInv'
      BY <2>1, <2>4, <3>1 DEF ParkInv, CloseInv
    <3>4. WatchInv'
      BY <2>1, <2>4, <3>1, <3>2 DEF ParkInv, WatchInv
    <3> QED
      BY <2>1, <3>3, <3>4 DEF ParkInv
  <2> QED
    BY <1>1, <2>3, <2>4, Zenon DEF CheckPeer
<1>2. CASE WaitToken(s)
  <2>1. Sleepers' \in Nat /\ Sleepers' = Sleepers - 1
    BY <1>0, <1>2, SleepStep, Labels DEF WaitToken
  <2>2. notFull' = notFull - 1 /\ notFull > 0 /\ UNCHANGED <<gone, shut>>
    BY <1>2 DEF WaitToken, watchVars, closeVars
  <2> QED
    BY <1>0, <1>a, <2>1, <2>2 DEF ParkInv, CloseInv, WatchInv
<1>3. CASE ShutSender(s)
  <2>1. /\ UNCHANGED <<spc, watch, wsig, gone, cpc, csig, consumer, closed, dead, notFull, sig>>
        /\ shut' = shut \cup {s} /\ s \in closed
    BY <1>3, <1>a DEF ShutSender, eventVars, senderVars, watchVars
  <2>2. Sleepers' = Sleepers
    BY <2>1 DEF Sleepers, Asleep
  <2> QED
    BY <1>0, <2>1, <2>2, ConstantsOK DEF ParkInv, CloseInv, WatchInv
<1>4. CASE ~CheckPeer(s) /\ ~Attempt(s) /\ ~WaitToken(s) /\ ~ShutSender(s)
  <2>1. UNCHANGED <<watch, wsig, gone, cpc, csig, consumer, shut, closed, dead, notFull, sig>>
    BY <1>4, SenderEffect
  <2>2. PICK l \in SenderPc : Goto(s, l) /\ l \notin {"claim2", "wait"}
    <3>1. CASE AddWaiter(s) \/ SubWaiter(s) \/ WaitFails(s)
      BY <3>1, Labels DEF AddWaiter, SubWaiter, AfterSub, WaitFails, Return
    <3>2. CASE WakeReceiver(s) \/ SignalReceiver(s)
      BY <3>2, Labels DEF WakeReceiver, SignalReceiver, Return
    <3>3. CASE (\E k \in Kinds, n \in Sizes : Begin(s, k, n))
               \/ \E o \in {"done", "void"} : Settle(s, o)
      BY <3>3, Labels DEF Begin, Settle
    <3> QED
      BY <1>4, <3>1, <3>2, <3>3 DEF SenderActs, SenderStep, WaitClosed, WaitCancelled
  <2> QED
    BY <1>0, <2>1, <2>2, SleepStep, ParkKept
<1> QED
  BY <1>1, <1>2, <1>3, <1>4

\* A watch counts after it has marked the receiver gone, so the last one counts everybody.
LEMMA WatchParks ==
  ASSUME ParkInv, IInv, Roomy, NEW s \in Senders, WatchStep(s)
  PROVE  ParkInv'
<1>0. /\ SendCount /\ Sleepers \in Nat /\ Sleepers <= sendWaiters
      /\ sendWaiters \in 0..Cardinality(Senders) /\ Cardinality(Senders) \in Nat
      /\ notFull \in Nat /\ sig \in Nat /\ gone \in [Senders -> BOOLEAN]
  BY SleepersCounted DEF IInv, ParkInv, WatchInv, Told
<1>1. UNCHANGED <<spc, cpc, csig, consumer, shut, closed, dead, sig>>
  BY WatchEffect DEF WatchStep, PeerExited, PeerWake, PeerSignal, closeVars
<1>2. Sleepers' = Sleepers
  BY <1>1 DEF Sleepers, Asleep
<1>3. CASE PeerExited(s)
  BY <1>0, <1>1, <1>2, <1>3 DEF ParkInv, CloseInv, WatchInv, PeerExited, eventVars
<1>4. CASE PeerWake(s)
  BY <1>0, <1>1, <1>2, <1>4 DEF ParkInv, CloseInv, WatchInv, PeerWake, eventVars
<1>5. CASE PeerSignal(s)
  <2>1. notFull' \in Nat /\ notFull' >= notFull /\ (s \notin shut => notFull' >= wsig[s])
    <3>1. wsig[s] \in 0..Cardinality(Senders)
      BY DEF ParkInv, WatchInv
    <3>2. notFull' = Posted(s, notFull, wsig[s])
      BY <1>5 DEF PeerSignal
    <3> QED
      BY <1>0, <3>1, <3>2, PostedEnough
  <2> QED
    BY <1>0, <1>1, <1>2, <1>5, <2>1 DEF ParkInv, CloseInv, WatchInv, PeerSignal
<1> QED
  BY <1>3, <1>4, <1>5 DEF WatchStep

\* Close counts after it has cleared the consumer field.
LEMMA CloseParks ==
  ASSUME ParkInv, IInv, Roomy, CloseStep \/ CloseBegin
  PROVE  ParkInv'
<1> USE DEF ParkInv, CloseInv, WatchInv
<1>0. /\ Sleepers \in Nat /\ Sleepers <= sendWaiters
      /\ sendWaiters \in 0..Cardinality(Senders) /\ Cardinality(Senders) \in Nat
      /\ cpc # "open" => "receiver" \in closed
  BY SleepersCounted DEF IInv, Told
<1>1. UNCHANGED <<spc, watch, wsig, gone, sig>> /\ dead \subseteq dead'
  BY EndEffect
<1>2. Sleepers' = Sleepers
  BY <1>1 DEF Sleepers, Asleep
<1>3. CASE CloseBegin \/ CloseConsumer
  BY <1>0, <1>1, <1>2, <1>3 DEF CloseBegin, CloseConsumer, eventVars
<1>4. CASE CloseWake
  BY <1>0, <1>1, <1>2, <1>4 DEF CloseWake, eventVars
<1>5. CASE CloseSignal
  <2>1. notFull' \in Nat /\ notFull' >= notFull /\ notFull' >= csig
    BY <1>0, <1>5, PostedEnough DEF CloseSignal
  <2> QED
    BY <1>0, <1>1, <1>2, <1>5, <2>1 DEF CloseSignal
<1>6. CASE CloseStop
  BY <1>0, <1>1, <1>2, <1>6 DEF CloseStop, eventVars
<1> QED
  BY <1>3, <1>4, <1>5, <1>6 DEF CloseStep

\* Every step keeps the invariant.
LEMMA ParkStep ==
  ASSUME ParkInv, IInv, Roomy, [Next]_vars
  PROVE  ParkInv'
<1>0. SendCount /\ Sleepers \in Nat /\ sendWaiters \in Nat /\ notFull \in Nat /\ sig \in Nat
  BY SleepersCounted DEF IInv, ParkInv, WatchInv
<1>1. ASSUME UNCHANGED <<spc, watch, wsig, gone, cpc, csig, consumer, shut>>,
             notFull' \in Nat, notFull' >= notFull, sig' \in Nat, closed \subseteq closed',
             dead \subseteq dead'
      PROVE  ParkInv'
  <2>1. Sleepers' = Sleepers
    BY <1>1 DEF Sleepers, Asleep
  <2> QED
    BY <1>0, <1>1, <2>1, ParkKept
<1>2. ASSUME NEW s \in Senders, ProducerExited(s) \/ CloseSender(s), ~WatchStep(s) PROVE ParkInv'
  BY <1>0, <1>1, <1>2, WatchEffect
<1>3. CASE ReceiverStep \/ Recv \/ RecvCancelled
  <2>1. CASE SignalSenders
    <3>1. notFull' \in Nat /\ notFull' >= notFull /\ sig' \in Nat
      BY <1>0, <2>1, ConstantsOK DEF SignalSenders, Posted
    <3> QED
      BY <1>1, <1>3, <3>1, ReceiverEffect
  <2>2. CASE ~SignalSenders
    <3>1. WakeSenders => sig' = sendWaiters
      BY DEF WakeSenders
    <3> QED
      BY <1>0, <1>1, <1>3, <2>2, <3>1, ReceiverEffect
  <2> QED
    BY <2>1, <2>2
<1>4. CASE (Unlink \/ \E x \in Mortal : Crash(x)) /\ ~CloseStep /\ ~CloseBegin
  BY <1>0, <1>1, <1>4, EndEffect
<1>5. CASE UNCHANGED vars
  BY <1>0, <1>1, <1>5 DEF vars, eventVars, senderVars, watchVars, receiverVars, closeVars
<1> QED
  BY <1>2, <1>3, <1>4, <1>5, SenderParks, WatchParks, CloseParks DEF Next, SenderActs

\* At the start nobody sleeps and no token is out.
LEMMA ParkInit == Init => ParkInv
<1> SUFFICES ASSUME Init PROVE ParkInv
  OBVIOUS
<1>1. SendCount
  BY InitInv DEF IInv
<1>2. Asleep = {}
  BY DEF Init, InitWith, Asleep
<1>3. Sleepers = 0
  BY <1>2, FS_EmptySet DEF Sleepers
<1> QED
  BY <1>1, <1>3, SleepersCounted DEF Init, InitWith, ParkInv, CloseInv, WatchInv

\* Who is parked sleeps.
LEMMA WaitersSleep ==
  ASSUME SendCount
  PROVE  /\ Cardinality({s \in Senders : spc[s] = "wait"}) \in Nat
         /\ Cardinality({s \in Senders : spc[s] = "wait"}) <= Sleepers
         /\ \A s \in Senders : spc[s] = "wait" => Sleepers # 0
<1>1. IsFiniteSet(Asleep) /\ {s \in Senders : spc[s] = "wait"} \subseteq Asleep
  BY ConstantsOK, FS_Subset DEF Asleep
<1> QED
  BY <1>1, FS_Subset, FS_CardinalityType, FS_EmptySet DEF Sleepers

Woken == cpc \in {"stop", "done"} => Cardinality({s \in Senders : spc[s] = "wait"}) <= notFull

\* queue.go, on Close, "a sender parked on a full queue wakes and finds nobody left to
\* drain it": once the signal of Close is out there is a token for every sender that
\* still sleeps, whoever has died, as long as the pipe has room for them.
THEOREM CloseWakes ==
  ASSUME Roomy
  PROVE  Spec => []Woken
<1>1. ParkInv /\ IInv => Woken
  BY WaitersSleep, SleepersCounted DEF ParkInv, CloseInv, WatchInv, IInv, Woken
<1>2. ParkInv /\ IInv /\ [Next]_vars => ParkInv'
  BY ParkStep
<1> QED
  BY <1>1, <1>2, ParkInit, InitInv, StepInv, PTL DEF Spec

\* design.md, "the watch marks the peer gone and wakes every sender": a sender that still
\* sleeps after its watch ran has a token waiting or another watch to post one, and
\* Close leaves every sleeper a token.  The pipe has room for the senders, and no sender
\* dies: one that takes a token and dies takes it along.
THEOREM SleepersWoken ==
  ASSUME Roomy, Mortal \cap Senders = {}
  PROVE  Spec => []SendersWoken
<1>1. Init => dead \cap Senders = {}
  BY DEF Init, InitWith
<1>2. dead \cap Senders = {} /\ [Next]_vars => (dead \cap Senders = {})'
  <2>1. [Next]_vars => dead' = dead \/ \E x \in Mortal : dead' = dead \cup {x}
    <3>1. ASSUME NEW s \in Senders, SenderActs(s) PROVE dead' = dead
      BY <3>1, SenderEffect
    <3>2. ASSUME NEW s \in Senders, WatchStep(s) \/ ProducerExited(s) \/ CloseSender(s)
          PROVE  dead' = dead
      BY <3>2, WatchEffect
    <3>3. ReceiverStep \/ Recv \/ RecvCancelled => dead' = dead
      BY ReceiverEffect
    <3>4. CloseStep \/ CloseBegin \/ Unlink \/ (\E x \in Mortal : Crash(x)) =>
             dead' = dead \/ \E x \in Mortal : dead' = dead \cup {x}
      BY EndEffect
    <3> QED
      BY <3>1, <3>2, <3>3, <3>4 DEF Next, SenderActs, vars
  <2> QED
    BY <2>1
<1>3. ParkInv /\ IInv /\ dead \cap Senders = {} => SendersWoken
  <2> SUFFICES ASSUME ParkInv, IInv, dead \cap Senders = {} PROVE SendersWoken
    OBVIOUS
  <2>1. SendCount /\ Sleepers \in Nat /\ notFull \in Nat
    BY SleepersCounted DEF IInv, ParkInv, WatchInv
  <2>2. cpc \in {"stop", "done"} => Cardinality({s \in Senders : spc[s] = "wait"}) <= notFull
    BY <2>1, WaitersSleep DEF ParkInv, CloseInv
  <2>3. ASSUME NEW s \in Senders, spc[s] = "wait", watch[s] = "dead", closed = {}, notFull = 0
        PROVE  \E t \in Senders : Up(t) /\ watch[t] # "dead"
    BY <2>1, <2>3, WaitersSleep DEF ParkInv, WatchInv, Up
  <2> QED
    BY <2>2, <2>3 DEF SendersWoken
<1>4. ParkInv /\ IInv /\ [Next]_vars => ParkInv'
  BY ParkStep
<1> QED
  BY <1>1, <1>2, <1>3, <1>4, ParkInit, InitInv, StepInv, PTL DEF Spec
=============================================================================
