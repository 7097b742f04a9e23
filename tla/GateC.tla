------------------------------- MODULE GateC --------------------------------
(***************************************************************************)
(* The gate of the C library (c/src/util.c): a closing flag, a count, and  *)
(* a mutex with a condition variable that the closer waits on.  Unlike the *)
(* C++ gate, the count and the flag are separate atomics.                  *)
(***************************************************************************)
EXTENDS GateThreads

VARIABLES closing, active, mu, opc, cpc

vars == <<closing, active, mu, opc, cpc>>

OpPc == {"out", "check", "in", "backout", "recheck", "lock", "broadcast"}
CloserPc == {"idle", "lock", "test", "asleep", "done", "lost"}

TypeOK ==
  /\ closing \in BOOLEAN
  /\ active \in Nat
  /\ mu \in Ops \cup Closers \cup {NoOne}
  /\ opc \in [Ops -> OpPc]
  /\ cpc \in [Closers -> CloserPc]

Init ==
  /\ closing = FALSE
  /\ active = 0
  /\ mu = NoOne
  /\ opc = [o \in Ops |-> "out"]
  /\ cpc = [c \in Closers |-> "idle"]

\* goipc__gate_enter: the count goes up before the flag is read.
EnterAdd(o) ==
  /\ opc[o] = "out"
  /\ active' = active + 1
  /\ opc' = [opc EXCEPT ![o] = "check"]
  /\ UNCHANGED <<closing, mu, cpc>>

\* Lets an operation in without a look at the flag.
MutEnterCheck(o) ==
  /\ opc[o] = "check"
  /\ opc' = [opc EXCEPT ![o] = "in"]
  /\ UNCHANGED <<closing, active, mu, cpc>>

EnterCheck(o) ==
  /\ opc[o] = "check"
  /\ opc' = [opc EXCEPT ![o] = IF closing THEN "backout" ELSE "in"]
  /\ UNCHANGED <<closing, active, mu, cpc>>

\* Compares the count from before the decrement with 0.
MutLeaveSub(o) ==
  /\ opc[o] \in {"in", "backout"}
  /\ active' = active - 1
  /\ opc' = [opc EXCEPT ![o] = IF active = 0 THEN "recheck" ELSE "out"]
  /\ UNCHANGED <<closing, mu, cpc>>

\* goipc__gate_leave: the decrement, and the read of the flag if it was last.
LeaveSub(o) ==
  /\ opc[o] \in {"in", "backout"}
  /\ active' = active - 1
  /\ opc' = [opc EXCEPT ![o] = IF active = 1 THEN "recheck" ELSE "out"]
  /\ UNCHANGED <<closing, mu, cpc>>

LeaveRecheck(o) ==
  /\ opc[o] = "recheck"
  /\ opc' = [opc EXCEPT ![o] = IF closing THEN "lock" ELSE "out"]
  /\ UNCHANGED <<closing, active, mu, cpc>>

LeaveLock(o) ==
  /\ opc[o] = "lock"
  /\ mu = NoOne
  /\ mu' = o
  /\ opc' = [opc EXCEPT ![o] = "broadcast"]
  /\ UNCHANGED <<closing, active, cpc>>

\* The broadcast sends every waiter back to take the mutex; then the unlock.
LeaveBroadcast(o) ==
  /\ opc[o] = "broadcast"
  /\ cpc' = [c \in Closers |-> IF cpc[c] = "asleep" THEN "lock" ELSE cpc[c]]
  /\ mu' = NoOne
  /\ opc' = [opc EXCEPT ![o] = "out"]
  /\ UNCHANGED <<closing, active>>

\* goipc__gate_close: one compare-and-swap picks the closer.
Close(c) ==
  /\ cpc[c] = "idle"
  /\ closing' = TRUE
  /\ cpc' = [cpc EXCEPT ![c] = IF closing THEN "lost" ELSE "lock"]
  /\ UNCHANGED <<active, mu, opc>>

\* goipc__gate_drain: lock; while active > 0, wait; unlock.
DrainLock(c) ==
  /\ cpc[c] = "lock"
  /\ mu = NoOne
  /\ mu' = c
  /\ cpc' = [cpc EXCEPT ![c] = "test"]
  /\ UNCHANGED <<closing, active, opc>>

\* Returns with one operation still inside.
MutDrainTest(c) ==
  /\ cpc[c] = "test"
  /\ mu' = NoOne
  /\ cpc' = [cpc EXCEPT ![c] = IF active > 1 THEN "asleep" ELSE "done"]
  /\ UNCHANGED <<closing, active, opc>>

DrainTest(c) ==
  /\ cpc[c] = "test"
  /\ mu' = NoOne
  /\ cpc' = [cpc EXCEPT ![c] = IF active > 0 THEN "asleep" ELSE "done"]
  /\ UNCHANGED <<closing, active, opc>>

\* A condition wait may end without a broadcast.
SpuriousWake(c) ==
  /\ cpc[c] = "asleep"
  /\ cpc' = [cpc EXCEPT ![c] = "lock"]
  /\ UNCHANGED <<closing, active, mu, opc>>

OpNext(o) ==
  \/ EnterAdd(o) \/ EnterCheck(o) \/ LeaveSub(o)
  \/ LeaveRecheck(o) \/ LeaveLock(o) \/ LeaveBroadcast(o)
Next ==
  \/ \E o \in Ops : OpNext(o)
  \/ \E c \in Closers : Close(c) \/ DrainLock(c) \/ DrainTest(c) \/ SpuriousWake(c)

Spec == Init /\ [][Next]_vars
-----------------------------------------------------------------------------
Inside == {o \in Ops : opc[o] = "in"}
Phase ==
  IF \E c \in Closers : cpc[c] = "done" THEN "unmapped"
  ELSE IF closing THEN "closing" ELSE "open"

\* No closer returns from drain while an operation that enter let in is still
\* inside, so nothing is unmapped under an operation.
NoUseAfterUnmap == (\E c \in Closers : cpc[c] = "done") => Inside = {}

Abstract == INSTANCE GateSpec WITH inside <- Inside, phase <- Phase
=============================================================================
