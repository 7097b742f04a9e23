------------------------------- MODULE GateGo -------------------------------
(***************************************************************************)
(* The gate of the Go queue (queue.go: enter, leave, Close).  The count    *)
(* and the flag are separate atomics, and the last operation out posts a   *)
(* token to the buffered channel drained, which Close takes at most once.  *)
(***************************************************************************)
EXTENDS GateThreads

VARIABLES
  closing, active,
  drained, \* the number of tokens in the channel, whose capacity is 1
  opc, cpc

vars == <<closing, active, drained, opc, cpc>>

OpPc == {"out", "check", "in", "backout", "recheck", "post"}
CloserPc == {"idle", "load", "recv", "done", "lost"}

TypeOK ==
  /\ closing \in BOOLEAN
  /\ active \in Nat
  /\ drained \in 0..1
  /\ opc \in [Ops -> OpPc]
  /\ cpc \in [Closers -> CloserPc]

Init ==
  /\ closing = FALSE
  /\ active = 0
  /\ drained = 0
  /\ opc = [o \in Ops |-> "out"]
  /\ cpc = [c \in Closers |-> "idle"]

\* enter: active.Add(1), then closing.Load().
EnterAdd(o) ==
  /\ opc[o] = "out"
  /\ active' = active + 1
  /\ opc' = [opc EXCEPT ![o] = "check"]
  /\ UNCHANGED <<closing, drained, cpc>>

MutEnterCheck(o) ==
  /\ opc[o] = "check"
  /\ opc' = [opc EXCEPT ![o] = "in"]
  /\ UNCHANGED <<closing, active, drained, cpc>>

EnterCheck(o) ==
  /\ opc[o] = "check"
  /\ opc' = [opc EXCEPT ![o] = IF closing THEN "backout" ELSE "in"]
  /\ UNCHANGED <<closing, active, drained, cpc>>

\* leave: active.Add(-1) == 0 && closing.Load(), then a send that gives up
\* when the channel already holds a token.
MutLeaveSub(o) ==
  /\ opc[o] \in {"in", "backout"}
  /\ active' = active - 1
  /\ opc' = [opc EXCEPT ![o] = IF active = 0 THEN "recheck" ELSE "out"]
  /\ UNCHANGED <<closing, drained, cpc>>

LeaveSub(o) ==
  /\ opc[o] \in {"in", "backout"}
  /\ active' = active - 1
  /\ opc' = [opc EXCEPT ![o] = IF active = 1 THEN "recheck" ELSE "out"]
  /\ UNCHANGED <<closing, drained, cpc>>

LeaveRecheck(o) ==
  /\ opc[o] = "recheck"
  /\ opc' = [opc EXCEPT ![o] = IF closing THEN "post" ELSE "out"]
  /\ UNCHANGED <<closing, active, drained, cpc>>

\* Posts without regard to the capacity of the channel.
MutLeavePost(o) ==
  /\ opc[o] = "post"
  /\ drained' = drained + 1
  /\ opc' = [opc EXCEPT ![o] = "out"]
  /\ UNCHANGED <<closing, active, cpc>>

LeavePost(o) ==
  /\ opc[o] = "post"
  /\ drained' = 1
  /\ opc' = [opc EXCEPT ![o] = "out"]
  /\ UNCHANGED <<closing, active, cpc>>

\* Close: the compare-and-swap; the loser returns ErrClosed.
Close(c) ==
  /\ cpc[c] = "idle"
  /\ closing' = TRUE
  /\ cpc' = [cpc EXCEPT ![c] = IF closing THEN "lost" ELSE "load"]
  /\ UNCHANGED <<active, drained, opc>>

\* Close: if active.Load() > 0, receive one token.
CloseLoad(c) ==
  /\ cpc[c] = "load"
  /\ cpc' = [cpc EXCEPT ![c] = IF active > 0 THEN "recv" ELSE "done"]
  /\ UNCHANGED <<closing, active, drained, opc>>

CloseRecv(c) ==
  /\ cpc[c] = "recv"
  /\ drained > 0
  /\ drained' = drained - 1
  /\ cpc' = [cpc EXCEPT ![c] = "done"]
  /\ UNCHANGED <<closing, active, opc>>

OpNext(o) ==
  \/ EnterAdd(o) \/ EnterCheck(o) \/ LeaveSub(o)
  \/ LeaveRecheck(o) \/ LeavePost(o)
Next ==
  \/ \E o \in Ops : OpNext(o)
  \/ \E c \in Closers : Close(c) \/ CloseLoad(c) \/ CloseRecv(c)

Spec == Init /\ [][Next]_vars
-----------------------------------------------------------------------------
Inside == {o \in Ops : opc[o] = "in"}

\* docs/design.md: "An operation therefore either backs out or gets waited
\* for", so Close never unmaps with an operation inside.
NoUseAfterUnmap == (\E c \in Closers : cpc[c] = "done") => Inside = {}
=============================================================================
