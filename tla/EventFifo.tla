----------------------------- MODULE EventFifo ------------------------------
(***************************************************************************)
(* One handle on an event that is a FIFO (event.go, event_unix.go): the    *)
(* pool of readers, waits whose contexts end, signals, and Close.          *)
(*                                                                         *)
(* A wait reads through a descriptor of its own.  The callback of its      *)
(* context sets a read deadline in the past on that descriptor; a callback *)
(* that has started may run after the wait has returned, and so hit the    *)
(* next wait on the same descriptor.                                       *)
(***************************************************************************)
EXTENDS Integers, Sequences, FiniteSets, SequencesExt, FiniteSetsExt

CONSTANTS
  Waiters,     \* goroutines, each of which waits again and again
  Readers,     \* descriptors
  PipeBuf,     \* the most tokens one signal writes
  PipeCap,     \* the tokens the FIFO holds
  Bursts,      \* the n of SignalN
  MaxWaits,    \* bound: waits that begin
  MaxSignals,  \* bound: signals
  Closes       \* whether the handle may be closed

ASSUME ConstantsOK ==
  /\ Cardinality(Readers) >= Cardinality(Waiters) /\ "none" \notin Readers
  /\ PipeBuf \in Nat \ {0} /\ PipeCap \in Nat /\ PipeBuf <= PipeCap
  /\ Bursts \subseteq Nat /\ MaxWaits \in Nat /\ MaxSignals \in Nat /\ Closes \in BOOLEAN

VARIABLES
  tokens,            \* in the pipe
  closed, idle, open, \* under the mutex; gone is stored with closed
  fd,                \* each descriptor: "none", "open", "closed"
  past,              \* the descriptors whose read deadline is in the past
  late,              \* each descriptor: the callbacks that started and have not run
  pc, rd,            \* each waiter: its step, and the reader it holds
  ctx, armed,        \* each waiter: whether its context has ended, its callback waits
  result,            \* each waiter: what its wait is about to return, or failed with at once
  cpc, doomed, write, \* Close: its step, the readers it closes; the write handle
  waits, posted, taken, signals \* history

poolVars == <<closed, idle, open>>
fdVars == <<fd, past, late>>
waitVars == <<pc, rd, ctx, armed, result, waits>>
closeVars == <<cpc, doomed, write>>
tokenVars == <<tokens, posted, taken, signals>>
vars == <<poolVars, fdVars, waitVars, closeVars, tokenVars>>

None == "none"
Goto(w, l) == pc' = [pc EXCEPT ![w] = l]

Init ==
  /\ tokens = 0 /\ posted = 0 /\ taken = 0 /\ signals = 0
  /\ closed = FALSE /\ idle = <<>> /\ open = {}
  /\ fd = [r \in Readers |-> None] /\ past = {} /\ late = [r \in Readers |-> 0]
  /\ pc = [w \in Waiters |-> "idle"] /\ rd = [w \in Waiters |-> None]
  /\ ctx = [w \in Waiters |-> FALSE] /\ armed = [w \in Waiters |-> FALSE]
  /\ result = [w \in Waiters |-> None] /\ waits = 0
  /\ cpc = "open" /\ doomed = {} /\ write = "open"
-----------------------------------------------------------------------------
(* Signal and SignalN *)

Signal(n) ==
  LET k == IF n > PipeBuf THEN PipeBuf ELSE n IN
  /\ signals < MaxSignals /\ n > 0
  /\ signals' = signals + 1
  /\ IF closed \/ tokens + k > PipeCap
       THEN UNCHANGED <<tokens, posted>>
       ELSE tokens' = tokens + k /\ posted' = posted + k
  /\ UNCHANGED <<taken, poolVars, fdVars, waitVars, closeVars>>
-----------------------------------------------------------------------------
(* wait *)

Wait(w) ==
  /\ pc[w] = "idle" /\ waits < MaxWaits
  /\ waits' = waits + 1
  /\ ctx' = [ctx EXCEPT ![w] = FALSE]
  /\ result' = [result EXCEPT ![w] = None]
  /\ Goto(w, "acquire")
  /\ UNCHANGED <<poolVars, fdVars, rd, armed, closeVars, tokenVars>>

ContextEnds(w) ==
  /\ pc[w] # "idle" /\ ~ctx[w]
  /\ ctx' = [ctx EXCEPT ![w] = TRUE]
  /\ UNCHANGED <<poolVars, fdVars, pc, rd, armed, result, waits, closeVars, tokenVars>>

\* The wait is over before it has a reader.
Fail(w, err) == Goto(w, "idle") /\ result' = [result EXCEPT ![w] = err]

Acquire(w) ==
  /\ pc[w] = "acquire"
  /\ \/ closed /\ Fail(w, "ErrClosed") /\ UNCHANGED <<idle, rd>>
     \/ /\ ~closed /\ idle # <<>>
        /\ rd' = [rd EXCEPT ![w] = Last(idle)]
        /\ idle' = Front(idle)
        /\ Goto(w, "arm") /\ UNCHANGED result
     \/ ~closed /\ idle = <<>> /\ Goto(w, "dup") /\ UNCHANGED <<idle, rd, result>>
  /\ UNCHANGED <<closed, open, fdVars, ctx, armed, waits, closeVars, tokenVars>>

\* dupFIFO: the duplicate of a write handle that is closed fails.
Dup(w) ==
  /\ pc[w] = "dup"
  /\ IF write = "closed"
       THEN UNCHANGED <<fd, rd>>
       ELSE \E r \in Readers :
              /\ fd[r] = None
              /\ fd' = [fd EXCEPT ![r] = "open"]
              /\ rd' = [rd EXCEPT ![w] = r]
  /\ Goto(w, "register")
  /\ UNCHANGED <<poolVars, past, late, ctx, armed, result, waits, closeVars, tokenVars>>

\* Mutant: reports the close and forgets the duplicate.
MutRegister(w) ==
  /\ pc[w] = "register" /\ closed
  /\ Fail(w, "ErrClosed")
  /\ rd' = [rd EXCEPT ![w] = None]
  /\ UNCHANGED <<poolVars, fdVars, ctx, armed, waits, closeVars, tokenVars>>

\* openReader, after the duplicate: the event may have closed meanwhile.
Register(w) ==
  LET r == rd[w] IN
  /\ pc[w] = "register"
  /\ \/ /\ closed
        /\ fd' = IF r = None THEN fd ELSE [fd EXCEPT ![r] = "closed"]
        /\ Fail(w, "ErrClosed") /\ rd' = [rd EXCEPT ![w] = None]
        /\ UNCHANGED open
     \/ ~closed /\ r = None /\ Fail(w, "dup") /\ UNCHANGED <<fd, rd, open>>
     \/ ~closed /\ r # None /\ open' = open \cup {r} /\ Goto(w, "arm") /\ UNCHANGED <<fd, rd, result>>
  /\ UNCHANGED <<closed, idle, past, late, ctx, armed, waits, closeVars, tokenVars>>

\* context.AfterFunc(ctx, r.cancel).
Arm(w) ==
  /\ pc[w] = "arm"
  /\ armed' = [armed EXCEPT ![w] = TRUE]
  /\ Goto(w, "read")
  /\ UNCHANGED <<poolVars, fdVars, rd, ctx, result, waits, closeVars, tokenVars>>

\* The context starts the callback of an armed wait, on a goroutine of its own.
StartCallback(w) ==
  /\ armed[w] /\ ctx[w]
  /\ armed' = [armed EXCEPT ![w] = FALSE]
  /\ late' = [late EXCEPT ![rd[w]] = @ + 1]
  /\ UNCHANGED <<poolVars, fd, past, pc, rd, ctx, result, waits, closeVars, tokenVars>>

\* r.cancel: the deadline of the descriptor, whoever holds it now.
RunCallback(r) ==
  /\ late[r] > 0
  /\ late' = [late EXCEPT ![r] = @ - 1]
  /\ past' = IF fd[r] = "open" THEN past \cup {r} ELSE past
  /\ UNCHANGED <<poolVars, fd, waitVars, closeVars, tokenVars>>

Finish(w, res) == Goto(w, "stop") /\ result' = [result EXCEPT ![w] = res]

\* Mutant: takes the token and reports the context.
MutRead(w) ==
  /\ pc[w] = "read" /\ tokens > 0
  /\ tokens' = tokens - 1
  /\ IF ctx[w] THEN Finish(w, "ctx") /\ UNCHANGED taken ELSE Finish(w, "token") /\ taken' = taken + 1
  /\ UNCHANGED <<posted, signals, poolVars, fdVars, rd, ctx, armed, waits, closeVars>>

\* A read fails on a closed descriptor and on a deadline in the past before it
\* looks at the pipe; otherwise it blocks until there is a token.
Read(w) ==
  LET r == rd[w] IN
  /\ pc[w] = "read"
  /\ \/ fd[r] = "closed" /\ Finish(w, "ErrClosed") /\ UNCHANGED <<tokens, taken>>
     \/ fd[r] = "open" /\ r \in past /\ Goto(w, "expired") /\ UNCHANGED <<result, tokens, taken>>
     \/ /\ fd[r] = "open" /\ r \notin past /\ tokens > 0
        /\ tokens' = tokens - 1 /\ taken' = taken + 1
        /\ Finish(w, "token")
  /\ UNCHANGED <<posted, signals, poolVars, fdVars, rd, ctx, armed, waits, closeVars>>

\* Mutant: takes every deadline for its own.
MutExpired(w) ==
  /\ pc[w] = "expired"
  /\ Finish(w, "ctx")
  /\ UNCHANGED <<poolVars, fdVars, rd, ctx, armed, waits, closeVars, tokenVars>>

\* A deadline counts only if this wait's context has ended.
Expired(w) ==
  /\ pc[w] = "expired"
  /\ IF ctx[w] THEN Finish(w, "ctx") ELSE Goto(w, "reset") /\ UNCHANGED result
  /\ UNCHANGED <<poolVars, fdVars, rd, ctx, armed, waits, closeVars, tokenVars>>

\* Mutant: reads again with the deadline still in the past.
MutReset(w) ==
  /\ pc[w] = "reset"
  /\ Goto(w, "read")
  /\ UNCHANGED <<poolVars, fdVars, rd, ctx, armed, result, waits, closeVars, tokenVars>>

\* One that an earlier wait left behind is cleared, and the read runs again.
Reset(w) ==
  /\ pc[w] = "reset"
  /\ past' = past \ {rd[w]}
  /\ Goto(w, "read")
  /\ UNCHANGED <<poolVars, fd, late, rd, ctx, armed, result, waits, closeVars, tokenVars>>

\* The deferred calls: stop, then releaseReader.
Stop(w) ==
  /\ pc[w] = "stop"
  /\ armed' = [armed EXCEPT ![w] = FALSE]
  /\ Goto(w, "undo")
  /\ UNCHANGED <<poolVars, fdVars, rd, ctx, result, waits, closeVars, tokenVars>>

ReleaseDeadline(w) ==
  /\ pc[w] = "undo"
  /\ past' = past \ {rd[w]}
  /\ Goto(w, "release")
  /\ UNCHANGED <<poolVars, fd, late, rd, ctx, armed, result, waits, closeVars, tokenVars>>

ReleaseReader(w) ==
  /\ pc[w] = "release"
  /\ idle' = IF closed THEN idle ELSE Append(idle, rd[w])
  /\ rd' = [rd EXCEPT ![w] = None]
  /\ ctx' = [ctx EXCEPT ![w] = FALSE] /\ result' = [result EXCEPT ![w] = None]
  /\ Goto(w, "idle")
  /\ UNCHANGED <<closed, open, fdVars, armed, waits, closeVars, tokenVars>>
-----------------------------------------------------------------------------
(* Close *)

\* Mutant: closes the readers in the pool only.
MutClose ==
  /\ Closes /\ cpc = "open"
  /\ closed' = TRUE /\ doomed' = ToSet(idle) /\ open' = {} /\ idle' = <<>>
  /\ cpc' = "readers"
  /\ UNCHANGED <<fdVars, waitVars, write, tokenVars>>

Close ==
  /\ Closes /\ cpc = "open"
  /\ closed' = TRUE /\ doomed' = open /\ open' = {} /\ idle' = <<>>
  /\ cpc' = "readers"
  /\ UNCHANGED <<fdVars, waitVars, write, tokenVars>>

CloseReader(r) ==
  /\ cpc = "readers" /\ r \in doomed
  /\ fd' = [fd EXCEPT ![r] = "closed"]
  /\ doomed' = doomed \ {r}
  /\ UNCHANGED <<poolVars, past, late, waitVars, cpc, write, tokenVars>>

CloseWrite ==
  /\ cpc = "readers" /\ doomed = {}
  /\ write' = "closed"
  /\ cpc' = "done"
  /\ UNCHANGED <<poolVars, fdVars, waitVars, doomed, tokenVars>>
-----------------------------------------------------------------------------
WaiterStep(w) ==
  \/ Acquire(w) \/ Dup(w) \/ Register(w) \/ Arm(w) \/ Read(w) \/ Expired(w) \/ Reset(w)
  \/ Stop(w) \/ ReleaseDeadline(w) \/ ReleaseReader(w)
CloseStep == (\E r \in Readers : CloseReader(r)) \/ CloseWrite

Next ==
  \/ \E w \in Waiters : Wait(w) \/ WaiterStep(w) \/ ContextEnds(w) \/ StartCallback(w)
  \/ \E r \in Readers : RunCallback(r)
  \/ \E n \in Bursts : Signal(n)
  \/ Close \/ CloseStep

Spec == Init /\ [][Next]_vars

\* Goroutines that can run do, the callbacks of contexts included.  A Close
\* that began ends.  Nobody has to wait, signal, cancel or close.
Fairness ==
  /\ \A w \in Waiters : WF_vars(WaiterStep(w)) /\ WF_vars(StartCallback(w))
  /\ \A r \in Readers : WF_vars(RunCallback(r))
  /\ WF_vars(CloseStep)

FairSpec == Spec /\ Fairness
-----------------------------------------------------------------------------
Results == {None, "token", "ctx", "ErrClosed", "dup"}

\* Every variable keeps its type, and the FIFO never holds more than it can.
TypeOK ==
  /\ tokens \in 0..PipeCap /\ posted \in Nat /\ taken \in Nat /\ signals \in 0..MaxSignals
  /\ closed \in BOOLEAN /\ idle \in Seq(Readers) /\ open \subseteq Readers
  /\ fd \in [Readers -> {None, "open", "closed"}] /\ past \subseteq Readers
  /\ late \in [Readers -> Nat]
  /\ pc \in [Waiters -> {"idle", "acquire", "dup", "register", "arm", "read", "expired", "reset",
                         "stop", "undo", "release"}]
  /\ rd \in [Waiters -> Readers \cup {None}]
  /\ ctx \in [Waiters -> BOOLEAN] /\ armed \in [Waiters -> BOOLEAN]
  /\ result \in [Waiters -> Results] /\ waits \in 0..MaxWaits
  /\ cpc \in {"open", "readers", "done"} /\ doomed \subseteq Readers /\ write \in {"open", "closed"}

\* event_unix.go: "A token is consumed only by a read that returns it, so a
\* cancelled wait never swallows a wakeup."
NoSwallowedWakeup == posted = tokens + taken

\* A wait fails only for a reason of its own: its context ended, or the event
\* closed.  Neither the deadline of an earlier wait on the same descriptor nor
\* the failure of a duplicate in the middle of Close comes out.
NoFalseFailure ==
  \A w \in Waiters :
    /\ result[w] = "ctx" => ctx[w]
    /\ result[w] = "ErrClosed" => closed
    /\ result[w] # "dup"

\* The free list gives each descriptor to one wait at a time, which is what makes
\* a deadline on it private; and Close leaves no descriptor behind, whichever wait
\* was in the middle of opening or returning one.
DescriptorsKept ==
  /\ \A v, w \in Waiters : v # w /\ rd[v] = rd[w] => rd[v] = None
  /\ \A w \in Waiters : pc[w] # "idle" => rd[w] \notin ToSet(idle)
  /\ IsInjective(idle)
  /\ (cpc = "done" /\ \A w \in Waiters : pc[w] = "idle") => \A r \in Readers : fd[r] # "open"

\* event.go: "Waiters in this process return ErrClosed."
Released == closed => \A w \in Waiters : pc[w] = "idle"

\* A token in the pipe does not lie there while a wait is parked, whatever
\* deadline an earlier wait left on the descriptor: it is taken, or every wait
\* has ended.
Parked(w) == pc[w] \in {"read", "expired", "reset"}
TokenTaken == []<>(tokens = 0 \/ \A w \in Waiters : ~Parked(w))
=============================================================================
