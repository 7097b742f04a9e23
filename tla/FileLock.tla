------------------------------ MODULE FileLock ------------------------------
(***************************************************************************)
(* The lock on a file (filelock/filelock.go).  Every call of Lock opens    *)
(* the file for itself and leaves the wait in the kernel to a goroutine,   *)
(* which hands the lock over, or drops it if the caller has given up.      *)
(* The kernel is external: it gives the lock to one open file at a time,   *)
(* and takes it back when that file is released, closed, or its process    *)
(* exits.                                                                  *)
(***************************************************************************)
EXTENDS Naturals

CONSTANTS
  Opens,   \* the open files, one for each call
  LockProcs, NoOpen

VARIABLES
  lock,    \* the open file that has the lock, or NoOpen
  proc,    \* whose call it is
  caller,  \* each call: new, waits, told, over
  taker,   \* its goroutine: new, kernel, granted, failed, done
  ended    \* the processes that have exited

lockVars == <<lock, proc, caller, taker, ended>>

Init ==
  /\ lock = NoOpen
  /\ proc \in [Opens -> LockProcs]
  /\ caller = [f \in Opens |-> "new"]
  /\ taker = [f \in Opens |-> "new"]
  /\ ended = {}

Runs(f) == proc[f] \notin ended
Drop(f) == lock' = IF lock = f THEN NoOpen ELSE lock
Caller(f, s) == caller' = [caller EXCEPT ![f] = s]
Taker(f, s) == taker' = [taker EXCEPT ![f] = s]

Lock(f) ==
  /\ Runs(f) /\ caller[f] = "new"
  /\ Caller(f, "waits") /\ Taker(f, "kernel")
  /\ UNCHANGED <<lock, proc, ended>>

\* Take(f, true), which starts over when a signal interrupts it.
Take(f) ==
  /\ Runs(f) /\ taker[f] = "kernel"
  /\ \/ lock = NoOpen /\ lock' = f /\ Taker(f, "granted")
     \/ lock' = lock /\ Taker(f, "failed")
  /\ UNCHANGED <<proc, caller, ended>>

\* Both meet at the channel granted; an error closes the file.
Granted(f) ==
  /\ Runs(f) /\ caller[f] = "waits" /\ taker[f] \in {"granted", "failed"}
  /\ Caller(f, IF taker[f] = "granted" THEN "told" ELSE "over")
  /\ Taker(f, "done")
  /\ UNCHANGED <<lock, proc, ended>>

\* The context ends, and the caller returns, even if the grant is there as well.
CtxDone(f) ==
  /\ Runs(f) /\ caller[f] = "waits"
  /\ Caller(f, "over")
  /\ UNCHANGED <<lock, proc, taker, ended>>

\* Mutant: forgets what the kernel gave to a wait that was given up.
MutAbandoned(f) ==
  /\ Runs(f) /\ caller[f] = "over" /\ taker[f] \in {"granted", "failed"}
  /\ Taker(f, "done")
  /\ UNCHANGED <<lock, proc, caller, ended>>

\* Release, and Close of the file.
Abandoned(f) ==
  /\ Runs(f) /\ caller[f] = "over" /\ taker[f] \in {"granted", "failed"}
  /\ Drop(f)
  /\ Taker(f, "done")
  /\ UNCHANGED <<proc, caller, ended>>

\* Take(f, false): a lock that another has fails at once.
TryLock(f) ==
  /\ Runs(f) /\ caller[f] = "new"
  /\ \/ lock = NoOpen /\ lock' = f /\ Caller(f, "told")
     \/ lock' = lock /\ Caller(f, "over")
  /\ Taker(f, "done")
  /\ UNCHANGED <<proc, ended>>

\* The function that Lock returned: Release, and Close of the file.
Unlock(f) ==
  /\ Runs(f) /\ caller[f] = "told"
  /\ Drop(f)
  /\ Caller(f, "over")
  /\ UNCHANGED <<proc, taker, ended>>

Exit(p) ==
  /\ p \notin ended
  /\ ended' = ended \cup {p}
  /\ lock' = IF \E f \in Opens : lock = f /\ proc[f] = p THEN NoOpen ELSE lock
  /\ UNCHANGED <<proc, caller, taker>>

Next ==
  \/ \E f \in Opens :
       Lock(f) \/ Take(f) \/ Granted(f) \/ CtxDone(f) \/ Abandoned(f) \/ TryLock(f) \/ Unlock(f)
  \/ \E p \in LockProcs : Exit(p)

Spec == Init /\ [][Next]_lockVars
-----------------------------------------------------------------------------
\* "The kernel wait it leaves behind drops the lock as soon as it is granted": who has
\* the lock was told so, or is being told, or is about to drop it; and whoever was told,
\* in a process that runs, has it, so that nobody else was.
LockAnswered ==
  /\ \A f \in Opens : Runs(f) /\ caller[f] = "told" => lock = f
  /\ \A f \in Opens : lock = f => Runs(f) /\ (caller[f] = "told" \/ taker[f] = "granted")
=============================================================================
