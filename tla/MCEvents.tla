------------------------------ MODULE MCEvents ------------------------------
(***************************************************************************)
(* The events: a behaviour is one of a handle on a FIFO (EventFifo), of a  *)
(* handle on Windows (EventWin), or of the handles of an event over        *)
(* sockets (EventSock).  The variables of the other kinds stand still.     *)
(*   fifo, sock            three waits, some of them given up;             *)
(*   fifoClose, sockClose  two waits and a Close, over sockets also the    *)
(*                         creator's;                                      *)
(*   windows               two waits and a Close.                          *)
(***************************************************************************)
EXTENDS EventFifo

CONSTANTS c1, c2

VARIABLES
  kind, stokens, waiting, clients, served, toServer, toClient, sclosed, lost,
  reader, queue, spc, got, sposted, staken, swaits, ssignals, overtook

sockVars == <<stokens, waiting, clients, served, toServer, toClient, sclosed, lost,
              reader, queue, spc, got, sposted, staken, swaits, ssignals, overtook>>

Sock == INSTANCE EventSock WITH
  Conns <- {c1, c2}, Creator <- c1, Waiters <- {<<c1, 1>>, <<c2, 1>>, <<c2, 2>>},
  Bursts <- {1}, MaxWaits <- 3, MaxSignals <- 1, Closable <- {c1, c2},
  tokens <- stokens, closed <- sclosed, pc <- spc, posted <- sposted, taken <- staken,
  waits <- swaits, signals <- ssignals

VARIABLES
  wtokens, wclosing, wclosed, wfreed, wcount, wdrained, wkpc, wsig, wpc, wctx, wcb, wown, wres,
  wset, wlate, wposted, wtaken, wwaits, wsignals, wstraddled, wstray

winVars == <<wtokens, wclosing, wclosed, wfreed, wcount, wdrained, wkpc, wsig, wpc, wctx, wcb,
             wown, wres, wset, wlate, wposted, wtaken, wwaits, wsignals, wstraddled, wstray>>

Win == INSTANCE EventWin WITH
  Handles <- Readers, Bursts <- {1, 2}, MaxCount <- 1, MaxWaits <- 2, MaxSignals <- 1, Fails <- TRUE,
  tokens <- wtokens, closing <- wclosing, closed <- wclosed, freed <- wfreed, count <- wcount,
  drained <- wdrained, kpc <- wkpc, sig <- wsig, pc <- wpc, ctx <- wctx, cb <- wcb, own <- wown,
  res <- wres, set <- wset, late <- wlate, posted <- wposted, taken <- wtaken, waits <- wwaits,
  signals <- wsignals, straddled <- wstraddled, stray <- wstray

MCInit == kind \in {"fifo", "fifoClose", "windows", "sock", "sockClose"} /\ Init /\ Sock!Init /\ Win!Init

MCNext ==
  \/ kind = "fifo" /\ Next /\ closed' = closed /\ UNCHANGED <<kind, sockVars, winVars>>
  \/ kind = "fifoClose" /\ Next /\ waits' <= 2 /\ UNCHANGED <<kind, sockVars, winVars>>
  \/ kind = "windows" /\ Win!Next /\ UNCHANGED <<kind, vars, sockVars>>
  \/ kind = "sock" /\ Sock!Next /\ sclosed' = sclosed /\ UNCHANGED <<kind, vars, winVars>>
  \/ kind = "sockClose" /\ Sock!Next /\ swaits' <= 2 /\ UNCHANGED <<kind, vars, winVars>>

MCSpec ==
  /\ MCInit /\ [][MCNext]_<<kind, vars, sockVars, winVars>>
  /\ Fairness /\ Sock!Fairness /\ Win!Fairness

\* No token is lost, however waits are given up: a token leaves a FIFO or a semaphore
\* only with a wait that returns it, and an event over sockets takes one back that
\* came too late.
TokensKept == NoSwallowedWakeup /\ Sock!TokensKept /\ Win!TokensKept

\* No wait on an event over sockets is forgotten, whatever is given up and whoever
\* closes, unless a W passed the C of an earlier wait.
WaitsKnown == Sock!WaitsKnown

\* The pool of a FIFO gives a descriptor to one wait at a time and leaks none.  On
\* Windows the handles outlive the waits, unless close began while a wait stood between
\* its count and its look at the flag; and no wait reports a close that did not happen,
\* unless the late callback of an ended context met its handle.
HandlesKept == DescriptorsKept /\ Win!HandlesKept

\* event.go, on Close: "Waiters in this process return ErrClosed."  Once a handle
\* has closed, or the creator has gone, every wait there is on it ends.
CloseReleases == []<>(Released /\ Sock!Released /\ Win!Released)

\* No wait sleeps for ever over a token: on a FIFO whatever deadline an earlier wait
\* left on the descriptor, on Windows whatever else the wait is for.
WaitsMet == TokenTaken /\ []<>Win!TokenMet
=============================================================================
