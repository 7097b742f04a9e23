------------------------------- MODULE MCGates ------------------------------
(***************************************************************************)
(* The three implementations of the gate side by side.  A process links    *)
(* one of them, which `impl' names.  The C gate shares the variables of    *)
(* the C++ one, the Go gate has its own (g...); what the linked gate does  *)
(* not use stands still.                                                   *)
(***************************************************************************)
EXTENDS GateCpp

VARIABLES impl, mu, gclosing, gactive, gdrained, gopc, gcpc
goVars == <<gclosing, gactive, gdrained, gopc, gcpc>>
mcVars == <<vars, impl, mu, goVars>>

C == INSTANCE GateC
Go == INSTANCE GateGo WITH closing <- gclosing, active <- gactive,
                           drained <- gdrained, opc <- gopc, cpc <- gcpc

MCInit ==
  /\ impl \in {"cpp", "c", "go"}
  /\ Init /\ C!Init /\ Go!Init

CppOnly == impl = "cpp" /\ UNCHANGED <<impl, mu, goVars>>
COnly == impl = "c" /\ UNCHANGED <<impl, seen, goVars>>
GoOnly == impl = "go" /\ UNCHANGED <<impl, mu, vars>>

MCNext == (CppOnly /\ Next) \/ (COnly /\ C!Next) \/ (GoOnly /\ Go!Next)

\* Threads inside a library keep running, and the mutex of the C gate is handed
\* on: a thread that finds it free infinitely often gets it.  Nobody has to
\* start an operation or a close.
Fairness ==
  /\ \A o \in Ops :
       /\ WF_mcVars(CppOnly /\ (LeaveSub(o) \/ LeaveWake(o)))
       /\ WF_mcVars(COnly /\ (C!EnterCheck(o) \/ C!LeaveSub(o) \/ C!LeaveRecheck(o)))
       /\ SF_mcVars(COnly /\ C!LeaveLock(o)) /\ WF_mcVars(COnly /\ C!LeaveBroadcast(o))
       /\ WF_mcVars(GoOnly /\ (Go!EnterCheck(o) \/ Go!LeaveSub(o) \/ Go!LeaveRecheck(o) \/ Go!LeavePost(o)))
  /\ \A c \in Closers :
       /\ WF_mcVars(CppOnly /\ (DrainLoad(c) \/ FutexWait(c)))
       /\ SF_mcVars(COnly /\ C!DrainLock(c)) /\ WF_mcVars(COnly /\ C!DrainTest(c))
       /\ WF_mcVars(GoOnly /\ (Go!CloseLoad(c) \/ Go!CloseRecv(c)))

FairSpec == MCInit /\ [][MCNext]_mcVars /\ Fairness
-----------------------------------------------------------------------------
\* Go: nothing enters once the flag is set.  The set of operations inside only
\* shrinks after a close began, even though the count may still rise.
NoEntryAfterClose == [][gclosing => Go!Inside' \subseteq Go!Inside]_mcVars

\* The wakeup that a closer waits for always comes: once late operations stop
\* bouncing off the gate, a close that began returns.
CloseReturns ==
  <>[](\A o \in Ops : {opc[o], gopc[o]} \cap {"check", "backout"} = {})
    => \A c \in Closers :
         /\ cpc[c] \in {"load", "lock"} ~> cpc[c] = "done"
         /\ gcpc[c] = "load" ~> gcpc[c] = "done"
=============================================================================
