------------------------------ MODULE GateCpp -------------------------------
(***************************************************************************)
(* The gate of the C++ library (cpp/include/goipc/detail.hpp).  One 32-bit *)
(* word holds the closing bit and the count of operations; it is modelled  *)
(* as the pair closing, active, always read and written in one step.  A    *)
(* closer sleeps on a futex.  Ops are threads that enter and leave any     *)
(* number of times; Closers are threads that close the same endpoint.      *)
(***************************************************************************)
EXTENDS GateThreads

VARIABLES
  closing, active, \* word_
  opc,             \* where each operation is
  cpc,             \* where each closer is
  seen             \* the word each closer last loaded in drain

vars == <<closing, active, opc, cpc, seen>>

Word == [closing : BOOLEAN, active : Nat]
word == [closing |-> closing, active |-> active]

OpPc == {"out", "in", "backout", "wake"}
CloserPc == {"idle", "load", "wait", "asleep", "done", "lost"}

TypeOK ==
  /\ closing \in BOOLEAN
  /\ active \in Nat
  /\ opc \in [Ops -> OpPc]
  /\ cpc \in [Closers -> CloserPc]
  /\ seen \in [Closers -> Word]

Init ==
  /\ closing = FALSE
  /\ active = 0
  /\ opc = [o \in Ops |-> "out"]
  /\ cpc = [c \in Closers |-> "idle"]
  /\ seen = [c \in Closers |-> [closing |-> FALSE, active |-> 0]]

\* Lets an operation in without a look at the closing bit.
MutEnterOpen(o) ==
  /\ opc[o] = "out"
  /\ active' = active + 1
  /\ opc' = [opc EXCEPT ![o] = "in"]
  /\ UNCHANGED <<closing, cpc, seen>>

\* enter: fetch_add, which backs out when the old value holds closing_bit.
EnterAdd(o) ==
  /\ opc[o] = "out"
  /\ active' = active + 1
  /\ opc' = [opc EXCEPT ![o] = IF closing THEN "backout" ELSE "in"]
  /\ UNCHANGED <<closing, cpc, seen>>

\* Tests the count as the new value, where fetch_sub returns the old one.
MutLeaveSub(o) ==
  /\ opc[o] \in {"in", "backout"}
  /\ active' = active - 1
  /\ opc' = [opc EXCEPT ![o] = IF closing /\ active = 0 THEN "wake" ELSE "out"]
  /\ UNCHANGED <<closing, cpc, seen>>

\* leave: one fetch_sub reads the mark and the count together.
LeaveSub(o) ==
  /\ opc[o] \in {"in", "backout"}
  /\ active' = active - 1
  /\ opc' = [opc EXCEPT ![o] = IF closing /\ active = 1 THEN "wake" ELSE "out"]
  /\ UNCHANGED <<closing, cpc, seen>>

\* futex_wake_all: every sleeper goes back to the load of drain's loop.
LeaveWake(o) ==
  /\ opc[o] = "wake"
  /\ opc' = [opc EXCEPT ![o] = "out"]
  /\ cpc' = [c \in Closers |-> IF cpc[c] = "asleep" THEN "load" ELSE cpc[c]]
  /\ UNCHANGED <<closing, active, seen>>

\* close: fetch_or, won by the one closer that finds the bit clear.
Close(c) ==
  /\ cpc[c] = "idle"
  /\ closing' = TRUE
  /\ cpc' = [cpc EXCEPT ![c] = IF closing THEN "lost" ELSE "load"]
  /\ UNCHANGED <<active, opc, seen>>

\* Compares the count alone with an off-by-one.
MutDrainLoad(c) ==
  /\ cpc[c] = "load"
  /\ seen' = [seen EXCEPT ![c] = word]
  /\ cpc' = [cpc EXCEPT ![c] = IF closing /\ active <= 1 THEN "done" ELSE "wait"]
  /\ UNCHANGED <<closing, active, opc>>

\* drain's load: the closer may unmap once the word is closing_bit alone.
DrainLoad(c) ==
  /\ cpc[c] = "load"
  /\ seen' = [seen EXCEPT ![c] = word]
  /\ cpc' = [cpc EXCEPT ![c] = IF closing /\ active = 0 THEN "done" ELSE "wait"]
  /\ UNCHANGED <<closing, active, opc>>

\* futex_wait sleeps only while the word still has the value it was given.
FutexWait(c) ==
  /\ cpc[c] = "wait"
  /\ cpc' = [cpc EXCEPT ![c] = IF word = seen[c] THEN "asleep" ELSE "load"]
  /\ UNCHANGED <<closing, active, opc, seen>>

\* A futex wait may also end early, on a signal.
SpuriousWake(c) ==
  /\ cpc[c] = "asleep"
  /\ cpc' = [cpc EXCEPT ![c] = "load"]
  /\ UNCHANGED <<closing, active, opc, seen>>

OpNext(o) == EnterAdd(o) \/ LeaveSub(o) \/ LeaveWake(o)
CloserStep(c) == Close(c) \/ DrainLoad(c) \/ FutexWait(c)
Next ==
  \/ \E o \in Ops : OpNext(o)
  \/ \E c \in Closers : CloserStep(c) \/ SpuriousWake(c)

Spec == Init /\ [][Next]_vars
-----------------------------------------------------------------------------
Inside == {o \in Ops : opc[o] = "in"}
Phase ==
  IF \E c \in Closers : cpc[c] = "done" THEN "unmapped"
  ELSE IF closing THEN "closing" ELSE "open"

\* No closer passes drain while an operation that enter let in is still inside,
\* so no operation touches a mapping that close has released.
NoUseAfterUnmap == (\E c \in Closers : cpc[c] = "done") => Inside = {}

Abstract == INSTANCE GateSpec WITH inside <- Inside, phase <- Phase

\* The gate is the abstract one: operations enter only while it is open, and
\* the close unmaps once, when nobody is inside.
RefinesGate == Abstract!Spec
=============================================================================
