------------------------------ MODULE EventSock ------------------------------
(***************************************************************************)
(* The event for hosts without FIFOs (event_sock.go): the creator serves   *)
(* tokens over sockets.  A handle has one connection, on which it sends W  *)
(* for each wait, C for each wait that is given up, and S n for a signal;  *)
(* the creator sends T for a token.  A handle gives each T to its oldest   *)
(* wait, and sends back one that no wait is left for.                      *)
(*                                                                         *)
(* A connection is two sequences.  A message and the critical section that *)
(* handles it are one step.  The creator has a handle like any other.  The *)
(* X that answers some Cs is left out: a handle skips it.                  *)
(***************************************************************************)
EXTENDS Naturals, Sequences, SequencesExt

CONSTANTS
  Conns, Creator,
  Waiters,    \* goroutines that wait: <<handle, number>>
  Bursts,     \* sizes of a signal
  MaxWaits,   \* bound: waits
  MaxSignals, \* bound: signals
  Closable    \* the handles that may close

On(c) == {w \in Waiters : w[1] = c}

VARIABLES
  tokens, waiting, clients, served, \* the creator: tokens, queued Ws, connections, ~shutdown
  toServer, toClient,
  closed, lost, reader,             \* each handle: its Close, lostErr, its read loop
  queue,                            \* each handle: the waits in order
  pc, got,                          \* each waiter: its step, the result in its channel
  posted, taken, waits, signals, overtook \* history, and what the bounds count

serverVars == <<tokens, waiting, clients, served>>
handleVars == <<closed, lost, reader>>
waitVars == <<queue, pc, got>>
countVars == <<posted, taken, waits, signals, overtook>>
vars == <<serverVars, toServer, toClient, handleVars, waitVars, countVars>>

W == [op |-> "W", n |-> 0]
C == [op |-> "C", n |-> 0]
S(n) == [op |-> "S", n |-> n]

Init ==
  /\ tokens = 0 /\ waiting = <<>> /\ clients = Conns /\ served = TRUE
  /\ toServer = [c \in Conns |-> <<>>] /\ toClient = [c \in Conns |-> <<>>]
  /\ closed = [c \in Conns |-> FALSE] /\ lost = [c \in Conns |-> "no"]
  /\ reader = [c \in Conns |-> "read"]
  /\ queue = [c \in Conns |-> <<>>]
  /\ pc = [w \in Waiters |-> "idle"] /\ got = [w \in Waiters |-> "none"]
  /\ posted = 0 /\ taken = 0 /\ waits = 0 /\ signals = 0 /\ overtook = FALSE

\* Neither end of the connection has hung up.
Whole(c) == ~closed[c] /\ served

\* A write on a broken connection goes nowhere.
Send(c, m) == toServer' = [toServer EXCEPT ![c] = IF Whole(c) THEN Append(@, m) ELSE @]
-----------------------------------------------------------------------------
(* The server: one goroutine for each connection *)

\* The creator writes to the oldest W until tokens or Ws run out; a W whose
\* connection is closed costs no token.
Dispatch(t, ws) ==
  LET live(i) == Len(SelectSeq(SubSeq(ws, 1, i), LAMBDA c : ~closed[c]))
      cut == CHOOSE i \in 0..Len(ws) :
               /\ live(i) <= t
               /\ i = Len(ws) \/ (live(i) = t /\ \A j \in 0..(i - 1) : live(j) < t)
  IN /\ tokens' = t - live(cut)
     /\ waiting' = SubSeq(ws, cut + 1, Len(ws))
     /\ toClient' = [c \in Conns |->
          toClient[c] \o (IF closed[c] THEN <<>>
                          ELSE [i \in 1..Len(SelectSeq(SubSeq(ws, 1, cut), LAMBDA d : d = c)) |-> "T"])]

\* Mutant: takes out every W of the connection.
Mutremove(c) == SelectSeq(waiting, LAMBDA d : d # c)

\* remove takes out the first W of the connection.
remove(c) ==
  LET at == SelectInSeq(waiting, LAMBDA d : d = c)
  IN IF at = 0 THEN waiting ELSE RemoveAt(waiting, at)

Serve(c) ==
  /\ served /\ c \in clients /\ toServer[c] # <<>>
  /\ toServer' = [toServer EXCEPT ![c] = Tail(@)]
  /\ LET m == Head(toServer[c]) IN
     \/ m.op = "W" /\ Dispatch(tokens, Append(waiting, c))
     \/ m.op = "C" /\ Dispatch(tokens, remove(c))
     \/ m.op = "S" /\ Dispatch(tokens + m.n, waiting)
  /\ UNCHANGED <<clients, served, handleVars, waitVars, countVars>>

\* The connection ends: drop.
Drop(c) ==
  /\ served /\ c \in clients /\ closed[c] /\ toServer[c] = <<>>
  /\ clients' = clients \ {c}
  /\ waiting' = remove(c)
  /\ UNCHANGED <<tokens, served, toServer, toClient, handleVars, waitVars, countVars>>
-----------------------------------------------------------------------------
(* A handle: signal, read, lose, close *)

Signal(c, n) ==
  /\ ~closed[c] /\ lost[c] = "no" /\ signals < MaxSignals
  /\ signals' = signals + 1
  /\ posted' = posted + n
  /\ Send(c, S(n))
  /\ UNCHANGED <<serverVars, toClient, handleVars, waitVars, taken, waits, overtook>>

Read(c) ==
  /\ reader[c] = "read" /\ ~closed[c] /\ toClient[c] # <<>>
  /\ toClient' = [toClient EXCEPT ![c] = Tail(@)]
  /\ IF queue[c] # <<>>
       THEN /\ got' = [got EXCEPT ![Head(queue[c])] = "token"]
            /\ queue' = [queue EXCEPT ![c] = Tail(@)]
            /\ UNCHANGED reader
       ELSE /\ reader' = [reader EXCEPT ![c] = "bounce"]
            /\ UNCHANGED <<got, queue>>
  /\ UNCHANGED <<serverVars, toServer, closed, lost, pc, countVars>>

Bounce(c) ==
  /\ reader[c] = "bounce"
  /\ reader' = [reader EXCEPT ![c] = "read"]
  /\ Send(c, S(1))
  /\ UNCHANGED <<serverVars, toClient, closed, lost, waitVars, countVars>>

\* read fails at once on a connection that this side closed, and at its end on
\* one that the creator closed.
Lose(c) ==
  /\ reader[c] = "read" /\ (closed[c] \/ (~served /\ toClient[c] = <<>>))
  /\ reader' = [reader EXCEPT ![c] = "done"]
  /\ LET err == IF closed[c] THEN "closed" ELSE "gone" IN
       /\ lost' = [lost EXCEPT ![c] = err]
       /\ got' = [w \in Waiters |-> IF w \in Range(queue[c]) THEN err ELSE got[w]]
  /\ queue' = [queue EXCEPT ![c] = <<>>]
  /\ UNCHANGED <<serverVars, toServer, toClient, closed, pc, countVars>>

\* The creator's close also hangs up every client.
Close(c) ==
  /\ ~closed[c] /\ c \in Closable
  /\ closed' = [closed EXCEPT ![c] = TRUE]
  /\ UNCHANGED <<serverVars, toServer, toClient, lost, reader, waitVars, countVars>>

Shutdown ==
  /\ closed[Creator] /\ served
  /\ served' = FALSE /\ waiting' = <<>> /\ clients' = {}
  /\ UNCHANGED <<tokens, toServer, toClient, handleVars, waitVars, countVars>>
-----------------------------------------------------------------------------
(* A wait *)

At(w, l) == pc[w] = l
Goto(w, l) == pc' = [pc EXCEPT ![w] = l]

Wait(w) ==
  /\ At(w, "idle") /\ ~closed[w[1]] /\ lost[w[1]] = "no" /\ waits < MaxWaits
  /\ waits' = waits + 1
  /\ queue' = [queue EXCEPT ![w[1]] = Append(@, w)]
  /\ Goto(w, "send")
  /\ UNCHANGED <<serverVars, toServer, toClient, handleVars, got, posted, taken, signals, overtook>>

\* A W may pass the C of a wait that was given up before.
SendW(w) ==
  /\ At(w, "send")
  /\ Send(w[1], W)
  /\ Goto(w, IF Whole(w[1]) THEN "select" ELSE "recv")
  /\ overtook' = (overtook \/ \E v \in On(w[1]) : At(v, "cancel"))
  /\ UNCHANGED <<serverVars, toClient, handleVars, queue, got, posted, taken, waits, signals>>

Result(w) ==
  /\ At(w, "select") \/ At(w, "recv")
  /\ got[w] # "none"
  /\ taken' = IF got[w] = "token" THEN taken + 1 ELSE taken
  /\ got' = [got EXCEPT ![w] = "none"]
  /\ Goto(w, "idle")
  /\ UNCHANGED <<serverVars, toServer, toClient, handleVars, queue, posted, waits, signals, overtook>>

\* The context ends.  A wait that is not in the list any more has a result.
ContextEnds(w) ==
  /\ At(w, "select")
  /\ queue' = [queue EXCEPT ![w[1]] = SelectSeq(@, LAMBDA v : v # w)]
  /\ Goto(w, IF w \in Range(queue[w[1]]) THEN "cancel" ELSE "recv")
  /\ UNCHANGED <<serverVars, toServer, toClient, handleVars, got, countVars>>

SendC(w) ==
  /\ At(w, "cancel")
  /\ Send(w[1], C)
  /\ Goto(w, "idle")
  /\ UNCHANGED <<serverVars, toClient, handleVars, queue, got, countVars>>
-----------------------------------------------------------------------------
ServerStep == Shutdown \/ \E c \in Conns : Serve(c) \/ Drop(c)
HandleStep(c) == Read(c) \/ Bounce(c) \/ Lose(c)
WaitStep(w) == SendW(w) \/ Result(w) \/ SendC(w)

Next ==
  \/ ServerStep
  \/ \E c \in Conns : HandleStep(c) \/ Close(c) \/ \E n \in Bursts : Signal(c, n)
  \/ \E w \in Waiters : WaitStep(w) \/ Wait(w) \/ ContextEnds(w)

Spec == Init /\ [][Next]_vars

\* Goroutines that can run do.
Fairness ==
  /\ WF_vars(Shutdown)
  /\ \A c \in Conns : WF_vars(Serve(c)) /\ WF_vars(HandleStep(c))
  /\ \A w \in Waiters : WF_vars(WaitStep(w))

FairSpec == Spec /\ Fairness
-----------------------------------------------------------------------------
Count(seq, x) == Len(SelectSeq(seq, LAMBDA y : y = x))
SumConns(f(_)) == FoldSet(LAMBDA c, n : n + f(c), 0, Conns)

\* A token with no waiter left goes back to the creator, so no other waiter loses
\* it: while no handle closes, every posted token is with the creator, on a
\* connection, in a hand, or was taken by a wait, however waits are given up.
TokensKept ==
  (\A c \in Conns : ~closed[c]) =>
    posted = tokens + taken + Cardinality({w \in Waiters : got[w] = "token"})
             + SumConns(LAMBDA c : Count(toClient[c], "T") + (IF reader[c] = "bounce" THEN 1 ELSE 0)
                 + FoldSeq(LAMBDA m, n : m.n + n, 0, toServer[c]))

\* No wait is forgotten.  While the connection is whole it has a W or a T under way
\* for each wait of its handle, whatever is given up, unless a W passed the C of an
\* earlier wait.  When the handle has lost it, by a close on either side, every wait
\* has its result.
WaitsKnown ==
  \A c \in Conns :
    /\ ~overtook /\ Whole(c) =>
         Len(queue[c]) <= Cardinality({w \in On(c) : pc[w] = "send"}) + Count(toServer[c], W)
                          + Count(waiting, c) + Count(toClient[c], "T")
    /\ lost[c] # "no" => \A w \in On(c) : pc[w] \notin {"idle", "cancel"} => got[w] # "none"

\* event.go: "Waiters in this process return ErrClosed."  So do those of a handle
\* whose creator closed, with ErrPeerGone.
Released ==
  \A w \in Waiters : (closed[w[1]] \/ ~served) => pc[w] = "idle"
=============================================================================
