---------------------------- MODULE NamesProofs -----------------------------
(***************************************************************************)
(* Proofs about Names for any number of processes, instances, inodes and   *)
(* crashes, where every Unlink comes before its Close (~LateUnlink).       *)
(*                                                                         *)
(* The properties speak of what is held.  The invariant follows a process  *)
(* from the moment lockName finds the file it locked under the name until  *)
(* it gives the name up: it is then a master, and has the flock (Locks) of *)
(* the file that is the name file (Named), so there is one master.  As     *)
(* only a master touches the instances and the .inc file, it finds at each *)
(* of its steps what the steps before it left (Advanced).                  *)
(*                                                                         *)
(* The last part is about a locked file (FileLock), which has state of its *)
(* own: its invariant adds what the goroutine of a call may be at.         *)
(***************************************************************************)
EXTENDS Names, TLAPS

\* A locked file (FileLock): its opens, and its state.
CONSTANT Opens
VARIABLES lock, proc, caller, taker, ended
File == INSTANCE FileLock WITH LockProcs <- Procs, NoOpen <- NoFile

Unwinding == {"unwindseg", "unwindevents"}
Removing == {"unlinkseg", "unlinkevents", "check", "unlinkinc", "unlinkname"}
Working == Building \cup Unwinding \cup Removing
             \cup {"previous", "segment", "events", "inc", "name", "newevents"}

Master(p) == Live(p) /\ (pc[p] \in Working \/ (pc[p] = "held" /\ inc[p] \notin condemned))

\* A flock is held through the open file of a live process, and by those who took it.
Locks ==
  \A p \in Procs :
    /\ \A i \in Inodes : holder[i] = p => Live(p) /\ fd[p] = i
    /\ Live(p) /\ pc[p] \in Working \cup {"stat", "release", "held"}
         => fd[p] \in Inodes /\ holder[fd[p]] = p
    /\ Live(p) /\ pc[p] = "take" => fd[p] \in Inodes /\ holder[fd[p]] # p
    /\ Live(p) /\ pc[p] \in {"idle", "open", "closed"} => fd[p] = NoFile

Named == \A p \in Procs : Master(p) => nameFile = fd[p]

Numbered ==
  /\ incFile \in Incs => incFile <= incs
  /\ \A i \in segs \cup events \cup condemned : i <= incs
  /\ \A p \in Procs : inc[p] <= incs /\ old[p] <= incs

Gone(i) == i \notin segs \cup events
IncGone == incFile \in Incs => Gone(incFile)

\* What p has done by the step it stands at.
Progress(p) ==
  \* The previous instance, of which the .inc file tells until it is gone.
  /\ pc[p] \in {"segment", "events"} => old[p] \in Incs /\ incFile = old[p]
  /\ pc[p] = "events" => old[p] \in condemned \ segs
  /\ pc[p] \in {"inc", "newevents", "unlinkinc"} \cup Building => IncGone
  \* Its own instance, which nobody knows of before the last step.
  /\ pc[p] \in Building \cup Unwinding \cup Removing \cup {"held"} => inc[p] \in Incs
  /\ pc[p] \in Building => inc[p] \in events \ condemned /\ incFile # inc[p]
  /\ pc[p] \in {"ring", "publish", "write"} => inc[p] \in segs
  /\ pc[p] \in {"publish", "write"} => inc[p] \in ready
  /\ pc[p] = "held" /\ inc[p] \notin condemned
       => incFile = inc[p] /\ inc[p] \in segs \cap events \cap ready
  \* Its own instance, on the way out.
  /\ pc[p] \in {"unlinkseg", "unlinkevents", "check"} => incFile = inc[p]
  /\ pc[p] \in {"unwindevents", "unlinkevents"} => inc[p] \in condemned \ segs
  /\ pc[p] \in {"check", "unlinkinc", "unlinkname"} => inc[p] \in condemned /\ Gone(inc[p])

Advanced == \A p \in Procs : Live(p) => Progress(p)

\* What the .inc file names, and what an opener read there, is complete or going.
Complete(i) == i \in (ready \cap events) \cup condemned
Published ==
  /\ incFile \in Incs => Complete(incFile)
  /\ opc \in {"segment", "ring", "events"} => oinc \in Incs /\ Complete(oinc)

\* NoOrphan without the processes that live: who has built an instance and not yet
\* published it is the only one who knows of it.
Traced ==
  \A i \in segs \cup events :
    incFile = i \/ \E p \in Procs : inc[p] = i /\ pc[p] \in Building \cup Unwinding

IInv ==
  TypeOK /\ Locks /\ Named /\ Numbered /\ Advanced /\ Published /\ Traced

\* A step of p, of any kind.
StepOf(p) ==
  \/ ProcStep(p) \/ Create(p) \/ RemovalFails(p) \/ BuildFails(p)
  \/ Close(p) \/ Forget(p) \/ Unlink(p) \/ Crash(p)

\* Of the masters of a name there is one: the flock of the name file has one holder.
LEMMA OneMaster ==
  ASSUME TypeOK, Locks, Named, NEW p \in Procs, NEW q \in Procs, Master(p), Master(q)
  PROVE  p = q
  BY DEF TypeOK, Locks, Named, Master

\* Nothing exists at the start.
LEMMA InitInv == Init => IInv
<1> SUFFICES ASSUME Init PROVE IInv
  OBVIOUS
<1> USE NamesOK DEF Init, Live, Incs, None, Absent, Empty
<1>1. TypeOK /\ Numbered
  BY DEF TypeOK, Pc, Numbered
<1>2. Locks /\ Named
  BY DEF Locks, Named, Master, Working, Building, Unwinding, Removing
<1>3. Advanced
  BY DEF Advanced, Progress, Building, Unwinding, Removing
<1>4. Published /\ Traced
  BY DEF Published, Traced
<1> QED
  BY <1>1, <1>2, <1>3, <1>4 DEF IInv

\* An instance that gets a segment or loses it is one that was made.
LEMMA TypeStep ==
  ASSUME IInv, NEW p \in Procs,
         RemoveSegment(p) \/ NewSegment(p) \/ InitRing(p) \/ UnwindSegment(p) \/ UnlinkSegment(p)
  PROVE  TypeOK'
<1> USE DEF IInv, TypeOK, Pc, Progress, Advanced, Building, Unwinding, Removing, Incs,
       None, Absent, Empty, At, Goto, Sweeping, Live, fileVars, instVars, lockVars,
       ownVars, openVars, histVars
<1>1. CASE RemoveSegment(p)
  BY <1>1, NamesOK DEF RemoveSegment, RemoveSegOf
<1>2. CASE NewSegment(p)
  BY <1>2, NamesOK DEF NewSegment
<1>3. CASE InitRing(p)
  BY <1>3, NamesOK DEF InitRing
<1>4. CASE UnwindSegment(p)
  BY <1>4, NamesOK DEF UnwindSegment, RemoveSegOf
<1>5. CASE UnlinkSegment(p)
  BY <1>5, NamesOK DEF UnlinkSegment, RemoveSegOf
<1> QED
  BY <1>1, <1>2, <1>3, <1>4, <1>5

\* A step of a process keeps the invariant.
LEMMA ProcStepInv ==
  ASSUME IInv, ~LateUnlink, NEW p \in Procs, StepOf(p)
  PROVE  IInv'
<1> USE DEF IInv, TypeOK, Pc, Locks, Named, Master, Working, Numbered, Progress, Advanced,
       Gone, IncGone, Published, Complete, Traced, Building, Unwinding, Removing, Incs,
       None, Absent, Empty, At, Goto, Sweeping, Live, fileVars, instVars, lockVars,
       ownVars, openVars, histVars
<1>1. CASE Create(p)
  BY <1>1, NamesOK DEF Create
<1>2. CASE LockOpen(p)
  BY <1>2, NamesOK DEF LockOpen
<1>3. CASE LockTake(p)
  BY <1>3, NamesOK DEF LockTake, NextEntry
<1>4. CASE LockStat(p)
  BY <1>4, NamesOK DEF LockStat, Unlocked
<1>5. CASE Previous(p)
  BY <1>5, NamesOK DEF Previous
<1>6. CASE RemovalFails(p)
  BY <1>6, NamesOK DEF RemovalFails
<1>7. CASE RemoveSegment(p)
  <2>1. TypeOK'
    BY <1>7, TypeStep
  <2>2. Numbered'
    BY <1>7, NamesOK DEF RemoveSegment, RemoveSegOf
  <2>3. Locks' /\ Named'
    BY <1>7, NamesOK DEF RemoveSegment, RemoveSegOf
  <2>4. Advanced'
    BY <1>7, NamesOK DEF RemoveSegment, RemoveSegOf
  <2>5. Published' /\ Traced'
    BY <1>7, NamesOK DEF RemoveSegment, RemoveSegOf
  <2> QED
    BY <2>1, <2>2, <2>3, <2>4, <2>5
<1>8. CASE RemoveEvents(p)
  <2>1. TypeOK' /\ Numbered'
    BY <1>8, NamesOK DEF RemoveEvents, RemoveEventsOf
  <2>2. Locks' /\ Named'
    BY <1>8, NamesOK DEF RemoveEvents, RemoveEventsOf
  <2>3. Advanced'
    BY <1>8, NamesOK DEF RemoveEvents, RemoveEventsOf
  <2>4. Published' /\ Traced'
    BY <1>8, NamesOK DEF RemoveEvents, RemoveEventsOf
  <2> QED
    BY <2>1, <2>2, <2>3, <2>4
<1>9. CASE SweepInc(p)
  BY <1>9, NamesOK DEF SweepInc, RemoveInc
<1>10. CASE SweepNameFile(p)
  BY <1>10, NamesOK DEF SweepNameFile, RemoveNameFile
<1>11. CASE Release(p)
  BY <1>11, NamesOK DEF Release, NextEntry, Unlocked
<1>12. CASE NewEvents(p)
  BY <1>12, NamesOK DEF NewEvents
<1>13. CASE NewSegment(p)
  <2>1. TypeOK'
    BY <1>13, TypeStep
  <2>2. Numbered'
    BY <1>13, NamesOK DEF NewSegment
  <2>3. Locks' /\ Named'
    BY <1>13, NamesOK DEF NewSegment
  <2>4. Advanced'
    BY <1>13, NamesOK DEF NewSegment
  <2>5. Published' /\ Traced'
    BY <1>13, NamesOK DEF NewSegment
  <2> QED
    BY <2>1, <2>2, <2>3, <2>4, <2>5
<1>14. CASE InitRing(p)
  <2>1. TypeOK'
    BY <1>14, TypeStep
  <2>2. Numbered'
    BY <1>14, NamesOK DEF InitRing
  <2>3. Locks' /\ Named'
    BY <1>14, NamesOK DEF InitRing
  <2>4. Advanced'
    BY <1>14, NamesOK DEF InitRing
  <2>5. Published' /\ Traced'
    BY <1>14, NamesOK DEF InitRing
  <2> QED
    BY <2>1, <2>2, <2>3, <2>4, <2>5
<1>15. CASE PublishOpen(p)
  BY <1>15, NamesOK DEF PublishOpen
<1>16. CASE PublishWrite(p)
  BY <1>16, NamesOK DEF PublishWrite
<1>17. CASE BuildFails(p)
  BY <1>17, NamesOK DEF BuildFails
<1>18. CASE UnwindSegment(p)
  <2>1. TypeOK'
    BY <1>18, TypeStep
  <2>2. Numbered'
    BY <1>18, NamesOK DEF UnwindSegment, RemoveSegOf
  <2>3. Locks' /\ Named'
    BY <1>18, NamesOK DEF UnwindSegment, RemoveSegOf
  <2>4. Advanced'
    BY <1>18, NamesOK DEF UnwindSegment, RemoveSegOf
  <2>5. Published' /\ Traced'
    BY <1>18, NamesOK DEF UnwindSegment, RemoveSegOf
  <2> QED
    BY <2>1, <2>2, <2>3, <2>4, <2>5
<1>19. CASE UnwindEvents(p)
  <2>1. TypeOK' /\ Numbered'
    BY <1>19, NamesOK DEF UnwindEvents, RemoveEventsOf
  <2>2. Locks' /\ Named'
    BY <1>19, NamesOK DEF UnwindEvents, RemoveEventsOf
  <2>3. Advanced'
    BY <1>19, NamesOK DEF UnwindEvents, RemoveEventsOf
  <2>4. Published' /\ Traced'
    BY <1>19, NamesOK DEF UnwindEvents, RemoveEventsOf
  <2> QED
    BY <2>1, <2>2, <2>3, <2>4
<1>20. CASE Close(p)
  BY <1>20, NamesOK DEF Close, Unlocked
<1>21. CASE Forget(p)
  BY <1>21, NamesOK DEF Forget
<1>22. CASE Unlink(p)
  BY <1>22, NamesOK DEF Unlink
<1>23. CASE Crash(p)
  BY <1>23, NamesOK DEF Crash, Unlocked
<1>24. CASE UnlinkSegment(p)
  <2>1. TypeOK'
    BY <1>24, TypeStep
  <2>2. Numbered'
    BY <1>24, NamesOK DEF UnlinkSegment, RemoveSegOf
  <2>3. Locks' /\ Named'
    BY <1>24, NamesOK DEF UnlinkSegment, RemoveSegOf
  <2>4. Advanced'
    BY <1>24, NamesOK DEF UnlinkSegment, RemoveSegOf
  <2>5. Published' /\ Traced'
    BY <1>24, NamesOK DEF UnlinkSegment, RemoveSegOf
  <2> QED
    BY <2>1, <2>2, <2>3, <2>4, <2>5
<1>25. CASE UnlinkEvents(p)
  <2>1. TypeOK' /\ Numbered'
    BY <1>25, NamesOK DEF UnlinkEvents, RemoveEventsOf
  <2>2. Locks' /\ Named'
    BY <1>25, NamesOK DEF UnlinkEvents, RemoveEventsOf
  <2>3. Advanced'
    BY <1>25, NamesOK DEF UnlinkEvents, RemoveEventsOf
  <2>4. Published' /\ Traced'
    BY <1>25, NamesOK DEF UnlinkEvents, RemoveEventsOf
  <2> QED
    BY <2>1, <2>2, <2>3, <2>4
<1>26. CASE UnlinkCheck(p)
  <2>1. TypeOK' /\ Numbered'
    BY <1>26, NamesOK DEF UnlinkCheck, Returned
  <2>2. Locks' /\ Named'
    BY <1>26, NamesOK DEF UnlinkCheck, Returned
  <2>3. Advanced'
    BY <1>26, NamesOK DEF UnlinkCheck, Returned
  <2>4. Published' /\ Traced'
    BY <1>26, NamesOK DEF UnlinkCheck, Returned
  <2> QED
    BY <2>1, <2>2, <2>3, <2>4
<1>27. CASE UnlinkInc(p)
  BY <1>27, NamesOK DEF UnlinkInc, RemoveInc
<1>28. CASE UnlinkNameFile(p)
  <2>1. TypeOK' /\ Numbered'
    BY <1>28, NamesOK DEF UnlinkNameFile, RemoveNameFile, Returned
  <2>2. Locks' /\ Named'
    BY <1>28, NamesOK DEF UnlinkNameFile, RemoveNameFile, Returned
  <2>3. Advanced'
    BY <1>28, NamesOK DEF UnlinkNameFile, RemoveNameFile, Returned
  <2>4. Published' /\ Traced'
    BY <1>28, NamesOK DEF UnlinkNameFile, RemoveNameFile, Returned
  <2> QED
    BY <2>1, <2>2, <2>3, <2>4
<1> HIDE DEF IInv
<1> QED
  BY <1>1, <1>2, <1>3, <1>4, <1>5, <1>6, <1>7, <1>8, <1>9, <1>10, <1>11, <1>12, <1>13,
     <1>14, <1>15, <1>16, <1>17, <1>18, <1>19, <1>20, <1>21, <1>22, <1>23, <1>24, <1>25,
     <1>26, <1>27, <1>28 DEF StepOf, ProcStep

procVars == <<nameFile, holder, incFile, events, segs, ready, pc, fd, old, inc, dead, incs, condemned>>

\* Most of the invariant does not speak of the opener.
LEMMA ProcsStill ==
  ASSUME IInv, UNCHANGED procVars
  PROVE  Locks' /\ Named' /\ Numbered' /\ Advanced' /\ Traced'
<1> USE DEF IInv, procVars
<1>1. Locks'
  BY DEF Locks, Live
<1>2. Named'
  BY DEF Named, Master, Live
<1>3. Numbered' /\ Traced'
  BY DEF Numbered, Traced
<1>4. ASSUME NEW p \in Procs, Live(p)' PROVE Progress(p)'
  <2>1. Progress(p)
    BY <1>4 DEF Advanced, Live
  <2> QED
    BY <2>1 DEF Progress, Gone, IncGone
<1> QED
  BY <1>1, <1>2, <1>3, <1>4 DEF Advanced

\* The opener changes nothing but itself, and follows the .inc file.
LEMMA OpenerStepInv ==
  ASSUME IInv, OpenerStep
  PROVE  IInv'
<1> USE DEF IInv
<1>1. UNCHANGED procVars
  BY DEF OpenerStep, OpenStat, OpenInc, OpenSegment, OpenRing, OpenEvents, Opener,
     procVars, fileVars, instVars, lockVars, ownVars, histVars
<1>2. TypeOK' /\ Published'
  BY NamesOK DEF OpenerStep, OpenStat, OpenInc, OpenSegment, OpenRing, OpenEvents, Opener,
     fileVars, instVars, lockVars, ownVars, histVars, TypeOK, Published, Complete, Incs,
     None, Absent, Empty
<1> QED
  BY <1>1, <1>2, ProcsStill

\* Every step keeps the invariant.
LEMMA StepInv == ~LateUnlink /\ IInv /\ [Next]_vars => IInv'
<1> SUFFICES ASSUME ~LateUnlink, IInv, [Next]_vars PROVE IInv'
  OBVIOUS
<1>1. ASSUME NEW p \in Procs, StepOf(p) PROVE IInv'
  BY <1>1, ProcStepInv
<1>2. CASE UNCHANGED vars
  <2>1. UNCHANGED procVars
    BY <1>2 DEF vars, procVars, fileVars, instVars, lockVars, ownVars, histVars
  <2>2. TypeOK' /\ Published'
    BY <1>2 DEF vars, fileVars, instVars, lockVars, ownVars, openVars, histVars, IInv,
       TypeOK, Published, Complete
  <2> QED
    BY <2>1, <2>2, ProcsStill DEF IInv
<1> QED
  BY <1>1, <1>2, OpenerStepInv DEF Next, StepOf

\* The invariant says what the properties say.
LEMMA InvImplies == IInv => OneHolder /\ NameKept /\ OpenerSeesComplete /\ NoOrphan
<1> SUFFICES ASSUME IInv PROVE OneHolder /\ NameKept /\ OpenerSeesComplete /\ NoOrphan
  OBVIOUS
<1>1. \A p \in Procs : Owns(p) => Master(p)
  BY DEF Owns, Master, Working, Building
<1>2. OneHolder
  BY <1>1, OneMaster DEF OneHolder, IInv
<1>3. NameKept
  BY DEF NameKept, IInv, Named, Master, Locks, Advanced, Progress
<1>4. OpenerSeesComplete
  BY DEF OpenerSeesComplete, IInv, Published, Complete
<1>5. NoOrphan
  BY DEF NoOrphan, IInv, Traced, Unwinding
<1> QED
  BY <1>2, <1>3, <1>4, <1>5

\* The invariant holds in every state.
THEOREM Invariance ==
  ASSUME ~LateUnlink
  PROVE  Spec => []IInv
<1>1. IInv /\ [Next]_vars => IInv'
  BY StepInv
<1> QED
  BY InitInv, <1>1, PTL DEF Spec

\* NameKept always holds.  queue.go has the creator hold the lock on the name until
\* Close, so that nobody else takes or removes what a live creator has published,
\* however sweeps, creates, unlinks and crashes interleave.
THEOREM NameSafety ==
  ASSUME ~LateUnlink
  PROVE  Spec => []NameKept
  BY Invariance, InvImplies, PTL

\* OpenerSeesComplete always holds: publish comes after the events, the segment and
\* the ring, and whoever removes an instance condemns it with the first step.
THEOREM OpenerSafety ==
  ASSUME ~LateUnlink
  PROVE  Spec => []OpenerSeesComplete
  BY Invariance, InvImplies, PTL

\* NoOrphan always holds: an instance outlives every crash under a name by which the
\* next create or sweep finds it, save the one whose creator died building it.
THEOREM OrphanSafety ==
  ASSUME ~LateUnlink
  PROVE  Spec => []NoOrphan
  BY Invariance, InvImplies, PTL

\* OneHolder always holds: of all processes that took the name and still use it there is
\* one, since the lock is taken before the first file of the name is touched and is
\* checked against the path.
THEOREM HolderSafety ==
  ASSUME ~LateUnlink
  PROVE  Spec => []OneHolder
  BY Invariance, InvImplies, PTL
-----------------------------------------------------------------------------
(* A locked file *)

\* A lock is held by the call that was told so, or by a wait that the kernel granted
\* and that has not been read yet; and by no other.
FileInv ==
  /\ lock \in Opens \cup {NoFile} /\ ended \subseteq Procs
  /\ caller \in [Opens -> {"new", "waits", "told", "over"}]
  /\ taker \in [Opens -> {"new", "kernel", "granted", "failed", "done"}]
  /\ \A f \in Opens :
       /\ File!Runs(f) /\ (caller[f] = "told" \/ taker[f] = "granted") => lock = f
       /\ lock = f => File!Runs(f) /\ (caller[f] = "told" \/ taker[f] = "granted")
       /\ caller[f] = "told" => taker[f] = "done"
       /\ caller[f] = "new" => taker[f] = "new"

\* A file that nobody opened yet satisfies the invariant.
LEMMA FileInit ==
  ASSUME NoFile \notin Opens
  PROVE  File!Init => FileInv
  BY DEF File!Init, FileInv, File!Runs

\* Every step of a locked file keeps its invariant.
LEMMA FileStep ==
  ASSUME NoFile \notin Opens, FileInv, [File!Next]_File!lockVars
  PROVE  FileInv'
<1>1. ASSUME NEW f \in Opens, File!Lock(f) PROVE FileInv'
  BY <1>1 DEF FileInv, File!Runs, File!Caller, File!Taker, File!Lock
<1>2. ASSUME NEW f \in Opens, File!Take(f) PROVE FileInv'
  BY <1>2 DEF FileInv, File!Runs, File!Caller, File!Taker, File!Take
<1>3. ASSUME NEW f \in Opens, File!Granted(f) PROVE FileInv'
  BY <1>3 DEF FileInv, File!Runs, File!Caller, File!Taker, File!Granted
<1>4. ASSUME NEW f \in Opens, File!CtxDone(f) PROVE FileInv'
  BY <1>4 DEF FileInv, File!Runs, File!Caller, File!Taker, File!CtxDone, File!Drop
<1>5. ASSUME NEW f \in Opens, File!Abandoned(f) PROVE FileInv'
  BY <1>5 DEF FileInv, File!Runs, File!Caller, File!Taker, File!Abandoned, File!Drop
<1>6. ASSUME NEW f \in Opens, File!TryLock(f) PROVE FileInv'
  BY <1>6 DEF FileInv, File!Runs, File!Caller, File!Taker, File!TryLock, File!Drop
<1>7. ASSUME NEW f \in Opens, File!Unlock(f) PROVE FileInv'
  BY <1>7 DEF FileInv, File!Runs, File!Caller, File!Taker, File!Unlock, File!Drop
<1>8. ASSUME NEW p \in Procs, File!Exit(p) PROVE FileInv'
  BY <1>8 DEF FileInv, File!Runs, File!Exit
<1>9. CASE UNCHANGED File!lockVars
  BY <1>9 DEF FileInv, File!Runs, File!lockVars
<1> QED
  BY <1>1, <1>2, <1>3, <1>4, <1>5, <1>6, <1>7, <1>8, <1>9 DEF File!Next

\* The invariant says that the one who has the lock was told.
LEMMA FileImplies == FileInv => File!LockAnswered
  BY DEF FileInv, File!LockAnswered

\* LockAnswered always holds of a locked file.  A call that gives up drops the lock that
\* its goroutine is granted late, so that the holder in the kernel is the call that was
\* told, or is about to be, for any number of calls and processes.
THEOREM FileSafety ==
  ASSUME NoFile \notin Opens
  PROVE  File!Spec => []File!LockAnswered
<1>1. FileInv /\ [File!Next]_File!lockVars => FileInv'
  BY FileStep
<1> QED
  BY FileInit, <1>1, FileImplies, PTL DEF File!Spec
=============================================================================
