------------------------------- MODULE MCLife -------------------------------
(***************************************************************************)
(* What processes leave in the file system, and how others find out that   *)
(* they died: a behaviour is one of a queue name (Names), one of a life    *)
(* socket (Identity), or one of a locked file (FileLock).  The variables   *)
(* of the others stand still.                                              *)
(***************************************************************************)
EXTENDS Names

CONSTANTS Callers, MaxWatches, MaxFaults

ASSUME CallersOK == NoFile \notin Callers /\ MaxWatches \in Nat /\ MaxFaults \in Nat

VARIABLES about, alive, sock, released, path, spc, byID, watches, calling, exited, cpc, calls, faults
idVars == <<alive, sock, released, path, spc, byID, watches, calling, exited, cpc, calls, faults>>

VARIABLES lock, lockProc, caller, taker, ended
fileLockVars == <<lock, lockProc, caller, taker, ended>>

Id == INSTANCE Identity
File == INSTANCE FileLock WITH
  Opens <- Callers, LockProcs <- Procs, NoOpen <- NoFile, proc <- lockProc

MCInit ==
  /\ about \in {"name", "process", "file"}
  /\ Init /\ Id!Init
  /\ IF about = "file" THEN File!Init
     ELSE lock = NoFile /\ lockProc = <<>> /\ caller = <<>> /\ taker = <<>> /\ ended = Procs

MCNext ==
  \/ about = "name" /\ Next /\ UNCHANGED <<about, idVars, fileLockVars>>
  \/ about = "process" /\ Id!Next /\ UNCHANGED <<about, vars, fileLockVars>>
  \/ about = "file" /\ File!Next /\ UNCHANGED <<about, vars, idVars>>

MCSpec == MCInit /\ [][MCNext]_<<about, vars, idVars, fileLockVars>>

MCSymmetry == Symmetry \cup Permutations(Callers)

\* What is locked has one holder, who knows.  Of all processes that took a name and still
\* use it there is one; and of all calls of Lock and TryLock on a file one was told that
\* it has the lock, which is never left with a wait that was given up.
LockedOnce == OneHolder /\ (about = "file" => File!LockAnswered)

\* The sweep never takes the life socket of a process that lives, so that isDead
\* gives an answer that recovery may act on.
LifeKept == Id!LifeKept

\* No call of fn, and no entry of exited, tells of an exit that did not happen, and
\* onExit calls fn at most once.
ExitIsReal == Id!ExitIsReal

\* A caller that waits is in a list that somebody is on the way to call.
CallComes == Id!CallComes
=============================================================================
