------------------------------ MODULE MCQueue -------------------------------
(***************************************************************************)
(* The queue in scenarios, one of which a behaviour picks at the start and *)
(* keeps.  The ring has two units of room; a call of size 2 fills it.      *)
(*   churn  contexts end, senders close and die, and the name goes away;   *)
(*   stop   contexts end, and the receiver closes over a full ring;        *)
(*   exit   the receiver dies over a full ring.                            *)
(***************************************************************************)
EXTENDS Queue, TLC

CONSTANTS s1, s2

VARIABLE scenario

Call(k, n) == [kind |-> k, size |-> n]
Whole == {Call("send", 2)}
Both(cs) == [s \in Senders |-> cs]
Scope(calls, full, mortal, closable) ==
  [calls |-> calls, full |-> full, mortal |-> mortal, closable |-> closable,
   cancels |-> FALSE, unlinks |-> FALSE]

Scenarios == [
  churn |-> [Scope(Both(Whole), FALSE, Senders, Senders)
               EXCEPT !.cancels = TRUE, !.unlinks = TRUE],
  stop  |-> [Scope(Both({Call("claim", 2)}), TRUE, {}, {"receiver"})
               EXCEPT !.cancels = TRUE],
  exit  |-> Scope(Both(Whole), TRUE, {"receiver"}, {})]

S == Scenarios[scenario]

MCInit ==
  /\ scenario \in DOMAIN Scenarios
  /\ InitWith(IF S.full THEN 1 ELSE 0, 2)

MCNext ==
  /\ \/ \E s \in Senders :
          \/ SenderStep(s) \/ WatchStep(s) \/ ProducerExited(s) \/ Settle(s, "void")
          \/ S.cancels /\ WaitCancelled(s)
          \/ s \in S.closable /\ CloseSender(s)
          \/ \E c \in S.calls[s] : Begin(s, c.kind, c.size)
     \/ ReceiverStep \/ Recv \/ CloseStep
     \/ S.cancels /\ RecvCancelled
     \/ "receiver" \in S.closable /\ CloseBegin
     \/ S.unlinks /\ Unlink
     \/ \E x \in S.mortal : Crash(x)
  /\ UNCHANGED scenario

MCSpec == MCInit /\ [][MCNext]_<<vars, scenario>>

Symmetry == Permutations(Senders)
=============================================================================
