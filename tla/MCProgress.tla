----------------------------- MODULE MCProgress -----------------------------
(***************************************************************************)
(* What the receive path owes its senders in the end, at both levels: the  *)
(* ring, one access to memory at a time, and the queue over it.  A         *)
(* behaviour picks a scenario at the start and keeps it.                   *)
(*   stuck  the ring: two processes, one claim each, the death of one      *)
(*          anywhere (the other's is the same with the names changed);     *)
(*   room   the queue, one call for each sender: claims of two sizes       *)
(*          behind a full ring, settled either way;                        *)
(*   death  the queue, one call for each sender: a producer dies at any    *)
(*          step, in front of another.                                     *)
(***************************************************************************)
EXTENDS Ring, TLC

CONSTANTS p1, p2, Senders, s1, s2, Room, Sizes, Kinds, PipeBuf, PipeCap

VARIABLES
  scenario,
  qlog, qhead, recvWaiters, sendWaiters, consumer, notEmpty, notFull, unlinked,
  spc, call, watch, gone, wsig, closed, shut, qpc, second, got, cur, sig, watched,
  cpc, csig, qdead, begun, sent

queueVars ==
  <<qlog, qhead, recvWaiters, sendWaiters, consumer, notEmpty, notFull, unlinked,
    spc, call, watch, gone, wsig, closed, shut, qpc, second, got, cur, sig, watched,
    cpc, csig, qdead, begun, sent>>

Q == INSTANCE Queue WITH
  Capacity <- Room, Backlog <- 1, MaxSends <- 2, Mortal <- {s1}, Closable <- {},
  Unlinks <- FALSE, Cancels <- FALSE,
  log <- qlog, head <- qhead, rpc <- qpc, dead <- qdead

Call(k, n) == [kind |-> k, size |-> n]
Scenarios == [
  stuck |-> [full |-> FALSE, calls |-> [s \in Senders |-> {}]],
  room  |-> [full |-> TRUE,
             calls |-> s1 :> {Call("claim", 1)} @@ s2 :> {Call("claim", 2)}],
  death |-> [full |-> FALSE,
             calls |-> s1 :> {Call("claim", 1), Call("claim", 2)} @@ s2 :> {Call("send", 1)}]]

S == Scenarios[scenario]
OnRing == scenario = "stuck"

MCInit ==
  /\ scenario \in DOMAIN Scenarios
  /\ Init
  /\ Q!InitWith(IF S.full THEN 1 ELSE 0, 2)

RingNext ==
  /\ \/ \E p \in {p1, p2} : ProducerStep(p)
     \/ \E p \in {p1, p2} : Begun < 2 /\ Begin(p, 0)
     \/ Crash(p1)
     \/ ReaderStep
     \/ Receive(1)
  /\ UNCHANGED queueVars

QueueNext ==
  /\ \/ \E s \in Senders :
          \/ Q!SenderStep(s) \/ Q!WatchStep(s) \/ Q!ProducerExited(s) \/ Q!Settle(s, "void")
          \/ \E c \in S.calls[s] :
               /\ \A i \in DOMAIN qlog : qlog[i].by # s
               /\ Q!Begin(s, c.kind, c.size)
     \/ Q!ReceiverStep \/ Q!Recv
     \/ scenario = "death" /\ Q!Crash(s1)
  /\ UNCHANGED vars

MCNext == (IF OnRing THEN RingNext ELSE QueueNext) /\ UNCHANGED scenario

\* A live producer finishes what it began, and the receiver keeps receiving.  On
\* the queue it is Queue's fairness.  Each binds where its steps are taken.
MCFairness ==
  /\ \A p \in {p1, p2} : WF_vars(OnRing /\ ProducerStep(p))
  /\ WF_vars(OnRing /\ ReaderStep) /\ WF_vars(OnRing /\ Receive(1))
  /\ \A s \in Senders :
       /\ WF_queueVars(~OnRing /\ Q!SenderStep(s)) /\ WF_queueVars(~OnRing /\ Q!WatchStep(s))
       /\ WF_queueVars(~OnRing /\ Q!ProducerExited(s))
  /\ WF_queueVars(~OnRing /\ Q!ReceiverStep) /\ WF_queueVars(~OnRing /\ Q!Recv)

MCSpec == MCInit /\ [][MCNext]_<<vars, queueVars, scenario>> /\ MCFairness

\* Queue: a sender that is parked never stays parked.
SenderUnparks == Q!SenderUnparks

\* Queue: a message whose send returned is received.
SentIsReceived == Q!SentIsReceived
=============================================================================
