------------------------------ MODULE EventWin ------------------------------
(***************************************************************************)
(* One handle on an event on Windows (event_windows.go): a semaphore of    *)
(* tokens, an event `closing' that Close sets, and for each wait with a    *)
(* context an event of its own that the end of the context sets.  A gate   *)
(* like the one of the queue keeps the handles until the last wait leaves. *)
(*                                                                         *)
(* The kernel is external.  A wait on several objects takes the first of   *)
(* them that is set; the number of a closed handle may be given out again. *)
(* SetEvent and CloseHandle of a handle that is open do not fail.          *)
(***************************************************************************)
EXTENDS Naturals

CONSTANTS
  Waiters,    \* goroutines that wait
  Handles,    \* numbers that the kernel gives to the events of contexts
  Bursts,     \* sizes of a signal
  MaxCount,   \* maxSemaphoreCount
  MaxWaits,   \* bound: waits
  MaxSignals, \* bound: signals
  Fails       \* whether CreateEvent may fail

VARIABLES
  tokens, closing,       \* the semaphore, and whether the event closing is set
  closed, freed,         \* the flags closed and gone; whether the handles are closed
  count, drained,        \* waiters; the tokens in the channel drained
  kpc, sig,              \* the step of close, and of a signal: its size or 0
  pc, ctx, cb, own, res, \* each waiter: step, context, its AfterFunc, its event, result
  set, late,             \* the events that are set; AfterFuncs that outlive their wait
  posted, taken, waits, signals, straddled, stray \* history, and what the bounds count

gateVars == <<closed, freed, count, drained, kpc>>
waitVars == <<pc, ctx, cb, own, res>>
histVars == <<posted, taken, waits, signals, straddled, stray>>
vars == <<tokens, closing, gateVars, sig, waitVars, set, late, histVars>>

Init ==
  /\ tokens = 0 /\ closing = FALSE /\ closed = FALSE /\ freed = FALSE
  /\ count = 0 /\ drained = 0 /\ kpc = "open" /\ sig = 0
  /\ pc = [w \in Waiters |-> "idle"] /\ ctx = [w \in Waiters |-> "none"]
  /\ cb = [w \in Waiters |-> "none"] /\ own = [w \in Waiters |-> "none"]
  /\ res = [w \in Waiters |-> "none"]
  /\ set = {} /\ late = [h \in Handles |-> 0]
  /\ posted = 0 /\ taken = 0 /\ waits = 0 /\ signals = 0 /\ straddled = FALSE /\ stray = {}

Goto(w, l) == pc' = [pc EXCEPT ![w] = l]
Result(w, r) == res' = [res EXCEPT ![w] = r]
Free == {h \in Handles : \A w \in Waiters : own[w] # h}
-----------------------------------------------------------------------------
(* wait *)

\* Wait with a context that has not ended, or cannot; then waiters.Add(1).
Wait(w, c) ==
  /\ pc[w] = "idle" /\ waits < MaxWaits
  /\ count' = count + 1
  /\ waits' = waits + 1
  /\ ctx' = [ctx EXCEPT ![w] = c]
  /\ Goto(w, "check")
  /\ UNCHANGED <<tokens, closing, closed, freed, drained, kpc, sig, cb, own, res, set, late,
                 posted, taken, signals, straddled, stray>>

\* enter looks at the flag under the mutex.
EnterCheck(w) ==
  /\ pc[w] = "check"
  /\ IF closed THEN Result(w, "ErrClosed") /\ Goto(w, "leave")
     ELSE Goto(w, IF ctx[w] = "none" THEN "wait" ELSE "create") /\ UNCHANGED res
  /\ UNCHANGED <<tokens, closing, gateVars, sig, ctx, cb, own, set, late, histVars>>

\* The event of the context, and AfterFunc, which starts at once if the context ended.
Create(w, h) ==
  /\ pc[w] = "create" /\ h \in Free
  /\ own' = [own EXCEPT ![w] = h]
  /\ cb' = [cb EXCEPT ![w] = IF ctx[w] = "ended" THEN "started" ELSE "armed"]
  /\ set' = set \ {h}
  /\ Goto(w, "wait")
  /\ UNCHANGED <<tokens, closing, gateVars, sig, ctx, res, late, histVars>>

CreateFails(w) ==
  /\ Fails /\ pc[w] = "create"
  /\ Result(w, "failed") /\ Goto(w, "leave")
  /\ UNCHANGED <<tokens, closing, gateVars, sig, ctx, cb, own, set, late, histVars>>

\* The context ends, which starts an armed AfterFunc on a goroutine of its own.
Cancel(w) ==
  /\ pc[w] \in {"check", "create", "wait"} /\ ctx[w] = "live"
  /\ ctx' = [ctx EXCEPT ![w] = "ended"]
  /\ cb' = [cb EXCEPT ![w] = IF @ = "armed" THEN "started" ELSE @]
  /\ UNCHANGED <<tokens, closing, gateVars, sig, pc, own, res, set, late, histVars>>

\* The AfterFunc sets the event of its wait,
RunCallback(w) ==
  /\ cb[w] = "started"
  /\ cb' = [cb EXCEPT ![w] = "ran"]
  /\ set' = set \cup {own[w]}
  /\ UNCHANGED <<tokens, closing, gateVars, sig, pc, ctx, own, res, late, histVars>>

\* or, when its wait is over, whatever now has the number of its handle.
RunLate(h) ==
  /\ late[h] > 0
  /\ late' = [late EXCEPT ![h] = @ - 1]
  /\ set' = IF h \in Free THEN set ELSE set \cup {h}
  /\ stray' = stray \cup {w \in Waiters : own[w] = h}
  /\ UNCHANGED <<tokens, closing, gateVars, sig, waitVars, posted, taken, waits, signals, straddled>>

\* Mutant: looks at the context first.
MutWaitToken(w) ==
  /\ pc[w] = "wait" /\ tokens > 0
  /\ tokens' = tokens - 1
  /\ taken' = IF ctx[w] = "ended" THEN taken ELSE taken + 1
  /\ Result(w, IF ctx[w] = "ended" THEN "ctx" ELSE "token") /\ Goto(w, "stop")
  /\ UNCHANGED <<closing, gateVars, sig, ctx, cb, own, set, late, posted, waits, signals,
                 straddled, stray>>

\* WaitForMultipleObjects: the semaphore comes first,
WaitToken(w) ==
  /\ pc[w] = "wait" /\ tokens > 0
  /\ tokens' = tokens - 1
  /\ taken' = taken + 1
  /\ Result(w, "token") /\ Goto(w, "stop")
  /\ UNCHANGED <<closing, gateVars, sig, ctx, cb, own, set, late, posted, waits, signals,
                 straddled, stray>>

\* then closing and the event of the context, which the code tells apart by ctx.Err.
WaitEnds(w) ==
  /\ pc[w] = "wait" /\ tokens = 0
  /\ closing \/ own[w] \in set
  /\ Result(w, IF ctx[w] = "ended" THEN "ctx" ELSE "ErrClosed") /\ Goto(w, "stop")
  /\ UNCHANGED <<tokens, closing, gateVars, sig, ctx, cb, own, set, late, histVars>>

\* A wait that starts on closed handles fails.
WaitFails(w) ==
  /\ pc[w] = "wait" /\ freed
  /\ Result(w, "failed") /\ Goto(w, "stop")
  /\ UNCHANGED <<tokens, closing, gateVars, sig, ctx, cb, own, set, late, histVars>>

\* stop, which does not wait for an AfterFunc that has started, and CloseHandle.
Stop(w) ==
  /\ pc[w] = "stop"
  /\ late' = IF cb[w] = "started" THEN [late EXCEPT ![own[w]] = @ + 1] ELSE late
  /\ cb' = [cb EXCEPT ![w] = "none"]
  /\ own' = [own EXCEPT ![w] = "none"]
  /\ Goto(w, "leave")
  /\ UNCHANGED <<tokens, closing, gateVars, sig, ctx, res, set, histVars>>
-----------------------------------------------------------------------------
(* leave, signal and close *)

\* The result is the caller's from here on.
Leave(w) ==
  /\ pc[w] = "leave"
  /\ count' = count - 1
  /\ Goto(w, IF count = 1 THEN "recheck" ELSE "idle")
  /\ Result(w, "none") /\ ctx' = [ctx EXCEPT ![w] = "none"] /\ stray' = stray \ {w}
  /\ UNCHANGED <<tokens, closing, closed, freed, drained, kpc, sig, cb, own, set, late,
                 posted, taken, waits, signals, straddled>>

LeaveRecheck(w) ==
  /\ pc[w] = "recheck"
  /\ Goto(w, IF closed THEN "post" ELSE "idle")
  /\ UNCHANGED <<tokens, closing, gateVars, sig, ctx, cb, own, res, set, late, histVars>>

LeavePost(w) ==
  /\ pc[w] = "post"
  /\ drained' = 1
  /\ Goto(w, "idle")
  /\ UNCHANGED <<tokens, closing, closed, freed, count, kpc, sig, ctx, cb, own, res, set, late,
                 histVars>>

\* signal: the flag gone, and the release, which fails on a full semaphore and on a
\* handle that close has closed in between.
Signal(n) ==
  /\ sig = 0 /\ signals < MaxSignals /\ ~closed
  /\ sig' = n
  /\ signals' = signals + 1
  /\ UNCHANGED <<tokens, closing, gateVars, waitVars, set, late, posted, taken, waits, straddled, stray>>

Release ==
  LET n == IF freed \/ tokens + sig > MaxCount THEN 0 ELSE sig IN
  /\ sig > 0
  /\ tokens' = tokens + n
  /\ posted' = posted + n
  /\ sig' = 0
  /\ UNCHANGED <<closing, gateVars, waitVars, set, late, taken, waits, signals, straddled, stray>>

Close ==
  /\ kpc = "open"
  /\ closed' = TRUE
  /\ kpc' = "set"
  /\ straddled' = (\E w \in Waiters : pc[w] = "recheck")
  /\ UNCHANGED <<tokens, closing, freed, count, drained, sig, waitVars, set, late,
                 posted, taken, waits, signals, stray>>

CloseSet ==
  /\ kpc = "set"
  /\ closing' = TRUE
  /\ kpc' = "load"
  /\ UNCHANGED <<tokens, closed, freed, count, drained, sig, waitVars, set, late, histVars>>

\* Mutant: does not wait for the waits to leave.
MutCloseLoad ==
  /\ kpc = "load"
  /\ kpc' = "free"
  /\ UNCHANGED <<tokens, closing, closed, freed, count, drained, sig, waitVars, set, late, histVars>>

CloseLoad ==
  /\ kpc = "load"
  /\ kpc' = IF count > 0 THEN "recv" ELSE "free"
  /\ UNCHANGED <<tokens, closing, closed, freed, count, drained, sig, waitVars, set, late, histVars>>

CloseRecv ==
  /\ kpc = "recv" /\ drained > 0
  /\ drained' = 0
  /\ kpc' = "free"
  /\ UNCHANGED <<tokens, closing, closed, freed, count, sig, waitVars, set, late, histVars>>

CloseHandles ==
  /\ kpc = "free"
  /\ freed' = TRUE
  /\ kpc' = "done"
  /\ UNCHANGED <<tokens, closing, closed, count, drained, sig, waitVars, set, late, histVars>>
-----------------------------------------------------------------------------
WaiterStep(w) ==
  \/ EnterCheck(w) \/ (\E h \in Handles : Create(w, h)) \/ WaitToken(w) \/ WaitEnds(w) \/ WaitFails(w)
  \/ Stop(w) \/ Leave(w) \/ LeaveRecheck(w) \/ LeavePost(w) \/ RunCallback(w)
CloseStep == CloseSet \/ CloseLoad \/ CloseRecv \/ CloseHandles

Next ==
  \/ \E w \in Waiters :
       WaiterStep(w) \/ Cancel(w) \/ CreateFails(w) \/ \E c \in {"none", "live"} : Wait(w, c)
  \/ \E h \in Handles : RunLate(h)
  \/ (\E n \in Bursts : Signal(n)) \/ Release \/ Close \/ CloseStep

Spec == Init /\ [][Next]_vars

\* Goroutines that can run do.  Nobody has to wait, signal, cancel or close.
Fairness == (\A w \in Waiters : WF_vars(WaiterStep(w))) /\ WF_vars(CloseStep)
-----------------------------------------------------------------------------
\* A token leaves the semaphore only with a wait that reports it, even if its context
\* ends at the same moment: wait looks at the semaphore before it looks at ctx.Err.
TokensKept == posted = tokens + taken

\* close: "Closing a handle that a thread still waits on is not safe, so the free comes
\* last."  No wait is inside when the handles go, unless close began while a wait stood
\* between its count and its look at the flag.  And a wait fails with ErrClosed only
\* after a close, unless a late AfterFunc met its handle.
HandlesKept ==
  /\ freed /\ ~straddled => \A w \in Waiters : pc[w] \notin {"create", "wait", "stop"}
  /\ \A w \in Waiters : res[w] = "ErrClosed" => closed \/ w \in stray

\* Once close began, it returns, and the waits there are end.
Released == closed => kpc = "done" /\ \A w \in Waiters : pc[w] = "idle"

\* The semaphore holds no token while a wait is inside the kernel.
TokenMet == tokens = 0 \/ \A w \in Waiters : pc[w] # "wait"
=============================================================================
