------------------------------- MODULE Names --------------------------------
(***************************************************************************)
(* One queue name in the file system (name.go, name_unix.go, and the parts *)
(* of queue.go that create, open, close and unlink).  Three things stand   *)
(* for a name: the name file, whose flock the creator holds for as long as *)
(* it lives; the .inc file, which holds the incarnation; and the instance  *)
(* itself, a segment and a pair of events.  Every access to one of them is *)
(* a step, and a process may die between any two.                          *)
(*                                                                         *)
(* Every process may create the queue; its first create sweeps first.  One *)
(* more process opens it as a sender.                                      *)
(***************************************************************************)
EXTENDS Naturals, FiniteSets, TLC

CONSTANTS
  Procs,
  Inodes,      \* of the name file; one that nobody refers to is reused
  NoProc, NoFile,
  MaxIncs,     \* bound: instances that are made
  MaxCrashes,  \* bound: processes that die
  LateUnlink   \* whether a process may unlink what it has closed

ASSUME NamesOK ==
  /\ Cardinality(Inodes) > Cardinality(Procs) /\ NoProc \notin Procs /\ NoFile \notin Inodes
  /\ MaxIncs \in Nat /\ MaxCrashes \in Nat /\ LateUnlink \in BOOLEAN

VARIABLES
  nameFile,             \* the inode at namePath, or NoFile
  holder,               \* each inode: who holds its flock
  incFile,              \* the incarnation in the .inc file, Empty, or Absent
  events, segs, ready,  \* the instances that have events, a segment, a ring in it
  pc, fd, old, inc,     \* each process: step, open name file, instance to remove, own one
  swept, sweeps,        \* each process: sweepOnce, the directory entries still to sweep
  dead,
  opc, oinc,            \* the opener
  incs, condemned       \* history: instances made, and those somebody set out to remove

fileVars == <<nameFile, holder, incFile>>
instVars == <<events, segs, ready>>
lockVars == <<fd, swept, sweeps>>
ownVars == <<old, inc>>
openVars == <<opc, oinc>>
histVars == <<incs, condemned>>
vars == <<fileVars, instVars, pc, lockVars, ownVars, dead, openVars, histVars>>

None == 0
Absent == MaxIncs + 1
Empty == MaxIncs + 2
Incs == 1..MaxIncs

Pc == {"idle", "open", "take", "stat", "previous", "segment", "events", "inc", "name",
       "release", "newevents", "newseg", "ring", "publish", "write", "held", "closed",
       "unwindseg", "unwindevents", "unlinkseg", "unlinkevents", "check", "unlinkinc",
       "unlinkname"}

TypeOK ==
  /\ nameFile \in Inodes \cup {NoFile} /\ holder \in [Inodes -> Procs \cup {NoProc}]
  /\ incFile \in Incs \cup {Absent, Empty}
  /\ events \subseteq Incs /\ segs \subseteq Incs /\ ready \subseteq segs
  /\ pc \in [Procs -> Pc] /\ fd \in [Procs -> Inodes \cup {NoFile}]
  /\ old \in [Procs -> Incs \cup {None}] /\ inc \in [Procs -> Incs \cup {None}]
  /\ swept \in [Procs -> BOOLEAN] /\ sweeps \in [Procs -> 0..2]
  /\ dead \subseteq Procs
  /\ opc \in {"idle", "inc", "segment", "ring", "events"} /\ oinc \in Incs \cup {None}
  /\ incs \in 0..MaxIncs /\ condemned \subseteq Incs

Init ==
  /\ nameFile = NoFile /\ holder = [i \in Inodes |-> NoProc] /\ incFile = Absent
  /\ events = {} /\ segs = {} /\ ready = {}
  /\ pc = [p \in Procs |-> "idle"] /\ fd = [p \in Procs |-> NoFile]
  /\ old = [p \in Procs |-> None] /\ inc = [p \in Procs |-> None]
  /\ swept = [p \in Procs |-> FALSE] /\ sweeps = [p \in Procs |-> 0]
  /\ dead = {} /\ opc = "idle" /\ oinc = None
  /\ incs = 0 /\ condemned = {}

At(p, l) == p \notin dead /\ pc[p] = l
Goto(p, l) == pc' = [pc EXCEPT ![p] = l]
Sweeping(p) == sweeps[p] > 0

\* Closing the descriptor drops the flock it holds, if any.
Unlocked(p) == [i \in Inodes |-> IF holder[i] = p /\ fd[p] = i THEN NoProc ELSE holder[i]]
-----------------------------------------------------------------------------
(* createQueue: sweepStale, then lockName *)

\* The directory is read once in the life of a process.  It may list the name
\* file and the .inc file, and each entry is swept.
Create(p) ==
  /\ At(p, "idle")
  /\ Goto(p, "open")
  /\ swept' = [swept EXCEPT ![p] = TRUE]
  /\ sweeps' = [sweeps EXCEPT ![p] =
       IF swept[p] THEN 0
       ELSE (IF nameFile # NoFile THEN 1 ELSE 0) + (IF incFile # Absent THEN 1 ELSE 0)]
  /\ UNCHANGED <<fileVars, instVars, fd, ownVars, dead, openVars, histVars>>

\* OpenFile with O_CREATE.
LockOpen(p) ==
  /\ At(p, "open")
  /\ \E i \in Inodes :
       /\ IF nameFile # NoFile THEN i = nameFile
          ELSE i \notin {fd[q] : q \in Procs \ dead}
       /\ nameFile' = i
       /\ fd' = [fd EXCEPT ![p] = i]
  /\ Goto(p, "take")
  /\ UNCHANGED <<holder, incFile, instVars, swept, sweeps, ownVars, dead, openVars, histVars>>

\* The sweep goes on to its next entry, and the create to its own lock.
NextEntry(p) ==
  /\ sweeps' = [sweeps EXCEPT ![p] = @ - 1]
  /\ Goto(p, "open")

\* A try to lock.  ErrInUse ends a create; a sweep passes over the name.
LockTake(p) ==
  /\ At(p, "take")
  /\ IF holder[fd[p]] = NoProc
       THEN /\ holder' = [holder EXCEPT ![fd[p]] = p]
            /\ Goto(p, "stat")
            /\ UNCHANGED <<fd, sweeps>>
       ELSE /\ fd' = [fd EXCEPT ![p] = NoFile]
            /\ IF Sweeping(p) THEN NextEntry(p) ELSE Goto(p, "idle") /\ UNCHANGED sweeps
            /\ UNCHANGED holder
  /\ UNCHANGED <<nameFile, incFile, instVars, swept, ownVars, dead, openVars, histVars>>

\* Mutant: takes the lock of whatever file it opened.
MutLockStat(p) ==
  /\ At(p, "stat")
  /\ Goto(p, "previous")
  /\ UNCHANGED <<fileVars, instVars, lockVars, ownVars, dead, openVars, histVars>>

\* The file may have been removed or replaced between the open and the flock.
LockStat(p) ==
  /\ At(p, "stat")
  /\ IF nameFile = fd[p]
       THEN Goto(p, "previous") /\ UNCHANGED <<holder, fd>>
       ELSE /\ holder' = Unlocked(p)
            /\ fd' = [fd EXCEPT ![p] = NoFile]
            /\ Goto(p, "open")
  /\ UNCHANGED <<nameFile, incFile, instVars, swept, sweeps, ownVars, dead, openVars, histVars>>
-----------------------------------------------------------------------------
(* What the name named before goes first: removeInstance *)

\* Mutant: a sweep leaves the instance.
MutPrevious(p) ==
  /\ At(p, "previous")
  /\ old' = [old EXCEPT ![p] = IF incFile \in Incs THEN incFile ELSE None]
  /\ Goto(p, IF Sweeping(p) THEN "inc" ELSE IF incFile \in Incs THEN "segment" ELSE "newevents")
  /\ UNCHANGED <<fileVars, instVars, lockVars, inc, dead, openVars, histVars>>

Previous(p) ==
  /\ At(p, "previous")
  /\ old' = [old EXCEPT ![p] = IF incFile \in Incs THEN incFile ELSE None]
  /\ Goto(p, IF incFile \in Incs THEN "segment"
             ELSE IF Sweeping(p) THEN "inc" ELSE "newevents")
  /\ UNCHANGED <<fileVars, instVars, lockVars, inc, dead, openVars, histVars>>

RemoveSegOf(p, i, l, next) ==
  /\ At(p, l)
  /\ segs' = segs \ {i} /\ ready' = ready \ {i}
  /\ condemned' = condemned \cup {i}
  /\ Goto(p, next)
  /\ UNCHANGED <<fileVars, events, lockVars, ownVars, dead, openVars, incs>>

RemoveEventsOf(p, i, l, next) ==
  /\ At(p, l)
  /\ events' = events \ {i}
  /\ Goto(p, next)
  /\ UNCHANGED <<fileVars, segs, ready, lockVars, ownVars, dead, openVars, histVars>>

RemoveSegment(p) == RemoveSegOf(p, old[p], "segment", "events")
RemoveEvents(p) ==
  RemoveEventsOf(p, old[p], "events", IF Sweeping(p) THEN "inc" ELSE "newevents")

\* A file that cannot be removed ends the sweep of the entry, or the create.
RemovalFails(p) ==
  /\ At(p, "segment") \/ At(p, "events")
  /\ Goto(p, "release")
  /\ UNCHANGED <<fileVars, instVars, lockVars, ownVars, dead, openVars, histVars>>

\* sweepName: removeName, then release.
RemoveInc(p, l, next) ==
  /\ At(p, l)
  /\ incFile' = Absent
  /\ Goto(p, next)
  /\ UNCHANGED <<nameFile, holder, instVars, lockVars, ownVars, dead, openVars, histVars>>

RemoveNameFile(p, l, next) ==
  /\ At(p, l)
  /\ nameFile' = NoFile
  /\ Goto(p, next)
  /\ UNCHANGED <<holder, incFile, instVars, lockVars, ownVars, dead, openVars, histVars>>

SweepInc(p) == RemoveInc(p, "inc", "name")
SweepNameFile(p) == RemoveNameFile(p, "name", "release")

\* release: the end of a sweep of one entry, or of a create that failed.
Release(p) ==
  /\ At(p, "release")
  /\ holder' = Unlocked(p)
  /\ fd' = [fd EXCEPT ![p] = NoFile]
  /\ old' = [old EXCEPT ![p] = None] /\ inc' = [inc EXCEPT ![p] = None]
  /\ IF Sweeping(p) THEN NextEntry(p) ELSE Goto(p, "idle") /\ UNCHANGED sweeps
  /\ UNCHANGED <<nameFile, incFile, instVars, swept, dead, openVars, histVars>>
-----------------------------------------------------------------------------
(* build: events, segment, ring, and only then the .inc file *)

NewEvents(p) ==
  /\ At(p, "newevents")
  /\ incs < MaxIncs
  /\ incs' = incs + 1
  /\ inc' = [inc EXCEPT ![p] = incs'] /\ old' = [old EXCEPT ![p] = None]
  /\ events' = events \cup {incs'}
  /\ Goto(p, "newseg")
  /\ UNCHANGED <<fileVars, segs, ready, lockVars, dead, openVars, condemned>>

\* Mutant: publishes the instance before its ring is made.
MutNewSegment(p) ==
  /\ At(p, "newseg")
  /\ segs' = segs \cup {inc[p]}
  /\ incFile' = inc[p]
  /\ Goto(p, "ring")
  /\ UNCHANGED <<nameFile, holder, events, ready, lockVars, ownVars, dead, openVars, histVars>>

NewSegment(p) ==
  /\ At(p, "newseg")
  /\ segs' = segs \cup {inc[p]}
  /\ Goto(p, "ring")
  /\ UNCHANGED <<fileVars, events, ready, lockVars, ownVars, dead, openVars, histVars>>

InitRing(p) ==
  /\ At(p, "ring")
  /\ ready' = ready \cup {inc[p]}
  /\ Goto(p, "publish")
  /\ UNCHANGED <<fileVars, events, segs, lockVars, ownVars, dead, openVars, histVars>>

\* publish creates the .inc file, or opens the old one, and then writes.
PublishOpen(p) ==
  /\ At(p, "publish")
  /\ incFile' = IF incFile = Absent THEN Empty ELSE incFile
  /\ Goto(p, "write")
  /\ UNCHANGED <<nameFile, holder, instVars, lockVars, ownVars, dead, openVars, histVars>>

\* Mutant: writes only a file that it made, and keeps an older content.
MutPublishWrite(p) ==
  /\ At(p, "write")
  /\ incFile' = IF incFile = Empty THEN inc[p] ELSE incFile
  /\ Goto(p, "held")
  /\ UNCHANGED <<nameFile, holder, instVars, lockVars, ownVars, dead, openVars, histVars>>

PublishWrite(p) ==
  /\ At(p, "write")
  /\ incFile' = inc[p]
  /\ Goto(p, "held")
  /\ UNCHANGED <<nameFile, holder, instVars, lockVars, ownVars, dead, openVars, histVars>>

Building == {"newseg", "ring", "publish", "write"}

\* Any step of build may fail: unwind.
BuildFails(p) ==
  /\ \E l \in Building : At(p, l)
  /\ Goto(p, "unwindseg")
  /\ UNCHANGED <<fileVars, instVars, lockVars, ownVars, dead, openVars, histVars>>

UnwindSegment(p) == RemoveSegOf(p, inc[p], "unwindseg", "unwindevents")
UnwindEvents(p) == RemoveEventsOf(p, inc[p], "unwindevents", "release")
-----------------------------------------------------------------------------
(* Close and Unlink of the creator *)

Close(p) ==
  /\ At(p, "held")
  /\ holder' = Unlocked(p)
  /\ fd' = [fd EXCEPT ![p] = NoFile]
  /\ Goto(p, "closed")
  /\ UNCHANGED <<nameFile, incFile, instVars, swept, sweeps, ownVars, dead, openVars, histVars>>

\* A process that is done with a queue may create it again.
Forget(p) ==
  /\ At(p, "closed")
  /\ inc' = [inc EXCEPT ![p] = None]
  /\ Goto(p, "idle")
  /\ UNCHANGED <<fileVars, instVars, lockVars, old, dead, openVars, histVars>>

Unlink(p) ==
  /\ At(p, "held") \/ (LateUnlink /\ At(p, "closed"))
  /\ inc[p] \notin condemned
  /\ Goto(p, "unlinkseg")
  /\ UNCHANGED <<fileVars, instVars, lockVars, ownVars, dead, openVars, histVars>>

Returned(p) == IF fd[p] = NoFile THEN "closed" ELSE "held"

UnlinkSegment(p) == RemoveSegOf(p, inc[p], "unlinkseg", "unlinkevents")
UnlinkEvents(p) == RemoveEventsOf(p, inc[p], "unlinkevents", "check")

\* unlinkName reads the .inc file, and removes it with the name file by path.
UnlinkCheck(p) ==
  /\ At(p, "check")
  /\ Goto(p, IF incFile = inc[p] THEN "unlinkinc" ELSE Returned(p))
  /\ UNCHANGED <<fileVars, instVars, lockVars, ownVars, dead, openVars, histVars>>

UnlinkInc(p) == RemoveInc(p, "unlinkinc", "unlinkname")
UnlinkNameFile(p) == RemoveNameFile(p, "unlinkname", Returned(p))

\* The kernel drops the lock of a process that dies, and nothing else.
Crash(p) ==
  /\ p \notin dead /\ pc[p] # "idle"
  /\ Cardinality(dead) < MaxCrashes
  /\ dead' = dead \cup {p}
  /\ holder' = Unlocked(p)
  /\ fd' = [fd EXCEPT ![p] = NoFile]
  /\ UNCHANGED <<nameFile, incFile, instVars, pc, swept, sweeps, ownVars, openVars, histVars>>
-----------------------------------------------------------------------------
(* openQueue: readName, then attach *)

Opener(l, next, i) ==
  /\ opc = l
  /\ opc' = next
  /\ oinc' = IF next = "idle" THEN None ELSE i
  /\ UNCHANGED <<fileVars, instVars, pc, lockVars, ownVars, dead, histVars>>

OpenStat == nameFile # NoFile /\ Opener("idle", "inc", None)
\* A name that names no instance yet is errNotReady.
OpenInc == Opener("inc", IF incFile \in Incs THEN "segment" ELSE "idle", incFile)
OpenSegment == Opener("segment", IF oinc \in segs THEN "ring" ELSE "idle", oinc)
\* Attached memory stays mapped after an unlink.
OpenRing == Opener("ring", IF oinc \in ready \cup condemned THEN "events" ELSE "idle", oinc)
OpenEvents == Opener("events", "idle", oinc)
-----------------------------------------------------------------------------
Symmetry == Permutations(Procs) \cup Permutations(Inodes)

ProcStep(p) ==
  \/ LockOpen(p) \/ LockTake(p) \/ LockStat(p) \/ Previous(p)
  \/ RemoveSegment(p) \/ RemoveEvents(p) \/ SweepInc(p) \/ SweepNameFile(p) \/ Release(p)
  \/ NewEvents(p) \/ NewSegment(p) \/ InitRing(p) \/ PublishOpen(p) \/ PublishWrite(p)
  \/ UnwindSegment(p) \/ UnwindEvents(p)
  \/ UnlinkSegment(p) \/ UnlinkEvents(p) \/ UnlinkCheck(p) \/ UnlinkInc(p) \/ UnlinkNameFile(p)

OpenerStep == OpenStat \/ OpenInc \/ OpenSegment \/ OpenRing \/ OpenEvents

Next ==
  \/ \E p \in Procs :
       ProcStep(p) \/ Create(p) \/ RemovalFails(p) \/ BuildFails(p)
       \/ Close(p) \/ Forget(p) \/ Unlink(p) \/ Crash(p)
  \/ OpenerStep

Spec == Init /\ [][Next]_vars
-----------------------------------------------------------------------------
Live(p) == p \notin dead

\* lockName returned, the name is neither given up nor being removed.
Owns(p) == Live(p) /\ (pc[p] \in Building \cup {"previous", "segment", "events", "newevents"}
                       \/ (pc[p] = "held" /\ inc[p] \notin condemned))

\* Of all processes that took the name and still use it, there is one: the
\* others get ErrInUse, whatever files were removed and made again in between.
OneHolder == \A p, q \in Procs : Owns(p) /\ Owns(q) => p = q

\* A newer instance under the same name keeps its files: what a live creator has
\* published is complete, and is what the name names, until that creator unlinks
\* it.  No sweep, no other creator and no Unlink of an older instance takes it away.
NameKept ==
  \A p \in Procs :
    Live(p) /\ pc[p] = "held" /\ inc[p] \notin condemned
      => /\ incFile = inc[p] /\ inc[p] \in segs \cap events \cap ready
         /\ nameFile = fd[p] /\ holder[fd[p]] = p

\* The .inc file names an instance only after the instance is complete: an opener
\* that followed it finds a ring and events, unless somebody removes them.
OpenerSeesComplete ==
  opc \in {"ring", "events"} => oinc \in (ready \cap events) \cup condemned

\* Whatever dies where it likes, an instance that exists is named by the .inc file,
\* so that a later creator or sweep removes it, or belongs to somebody alive who
\* will; except the one that a creator was building when it died.
NoOrphan ==
  \A i \in segs \cup events :
    \/ incFile = i
    \/ \E p \in Procs : i \in {old[p], inc[p]} /\ (Live(p) \/ pc[p] \in Building \cup {"unwindseg", "unwindevents"})
=============================================================================
