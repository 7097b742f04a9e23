-------------------------- MODULE EventFifoProofs ---------------------------
(***************************************************************************)
(* No wait on a FIFO event fails for a reason that is not its own, no      *)
(* descriptor has two holders or outlives Close, and no token is lost, for *)
(* any number of waits, descriptors and signals.  The strengthenings are   *)
(* about Close: the write handle is closed only after the flag is up, so a *)
(* wait whose duplicate failed finds the flag; and a descriptor that is    *)
(* open is known to the pool or to the wait that is about to register it.  *)
(***************************************************************************)
EXTENDS EventFifo, TLAPS

USE SMTT(20), Z3T(20)

WaitPc == {"idle", "acquire", "dup", "register", "arm", "read", "expired", "reset",
           "stop", "undo", "release"}

Types ==
  /\ pc \in [Waiters -> WaitPc] /\ result \in [Waiters -> Results]
  /\ rd \in [Waiters -> Readers \cup {None}] /\ ctx \in [Waiters -> BOOLEAN]
  /\ fd \in [Readers -> {None, "open", "closed"}]
  /\ doomed \subseteq Readers /\ open \subseteq Readers /\ idle \in Seq(Readers)

\* A wait that reads has a descriptor, and one that has yet to get one has none.
Held ==
  \A w \in Waiters :
    /\ pc[w] \in {"arm", "read", "expired", "reset", "stop", "undo", "release"} => rd[w] \in Readers
    /\ pc[w] \in {"idle", "acquire", "dup"} => rd[w] = None

\* Only a Close that has raised the flag closes a handle, and so a wait that comes to
\* its registration without a descriptor finds the flag.
Flagged ==
  /\ cpc # "open" => closed
  /\ write = "closed" => closed
  /\ \A w \in Waiters : pc[w] = "register" /\ rd[w] = None => closed
  /\ \A r \in Readers : fd[r] = "closed" => closed

IInv == Types /\ Held /\ Flagged /\ NoFalseFailure

\* The free list gives out a descriptor, and stays a list of descriptors.
LEMMA ListFacts ==
  ASSUME NEW s \in Seq(Readers), s # <<>>
  PROVE  Last(s) \in Readers /\ Front(s) \in Seq(Readers)
<1>1. Len(s) \in Nat /\ Len(s) >= 1
  OBVIOUS
<1>2. Last(s) \in Readers
  BY <1>1 DEF Last
<1>3. SubSeq(s, 1, Len(s) - 1) \in Seq(Readers)
  BY <1>1
<1> QED
  BY <1>2, <1>3 DEF Front

\* Nothing is open or failed at the start.
LEMMA InitInv == Init => IInv
  BY DEF Init, IInv, Types, Held, Flagged, NoFalseFailure, Results, WaitPc, None

\* Every step of a wait, a callback, a signal or a Close keeps the strengthened
\* invariant.
LEMMA StepInv == IInv /\ [Next]_vars => IInv'
<1> SUFFICES ASSUME IInv, [Next]_vars PROVE IInv'
  OBVIOUS
<1>0. None \notin Readers
  BY ConstantsOK DEF None
<1> USE DEF IInv, poolVars, fdVars, waitVars, closeVars, tokenVars
<1>1. ASSUME NEW w \in Waiters, Wait(w) PROVE IInv'
  <2>1. Types'
    BY <1>1 DEF Wait, Goto, Types, WaitPc, Results
  <2>2. Held'
    BY <1>1 DEF Wait, Goto, Types, Held, None
  <2>3. Flagged'
    BY <1>1 DEF Wait, Goto, Types, Held, Flagged, None
  <2>4. NoFalseFailure'
    BY <1>1 DEF Wait, Goto, Types, Held, Flagged, NoFalseFailure, None
  <2> QED
    BY <2>1, <2>2, <2>3, <2>4
<1>2. ASSUME NEW w \in Waiters, Acquire(w) PROVE IInv'
  <2>0. idle # <<>> => Last(idle) \in Readers /\ Front(idle) \in Seq(Readers)
    BY ListFacts DEF Types
  <2>1. Types'
    BY <1>2, <2>0 DEF Acquire, Fail, Goto, Types, WaitPc, Results
  <2>2. Held'
    BY <1>0, <1>2, <2>0 DEF Acquire, Fail, Goto, Types, Held, None
  <2>3. Flagged'
    BY <1>0, <1>2, <2>0 DEF Acquire, Fail, Goto, Types, Held, Flagged, None
  <2>4. NoFalseFailure'
    BY <1>2 DEF Acquire, Fail, Goto, Types, Held, Flagged, NoFalseFailure, None
  <2> QED
    BY <2>1, <2>2, <2>3, <2>4
<1>3. ASSUME NEW w \in Waiters, Dup(w) PROVE IInv'
  <2>1. Types'
    BY <1>3 DEF Dup, Goto, Types, WaitPc, Results
  <2>2. Held'
    BY <1>0, <1>3 DEF Dup, Goto, Types, Held, None
  <2>3. Flagged'
    BY <1>0, <1>3 DEF Dup, Goto, Types, Held, Flagged, None
  <2>4. NoFalseFailure'
    BY <1>3 DEF Dup, Goto, Types, Held, Flagged, NoFalseFailure, None
  <2> QED
    BY <2>1, <2>2, <2>3, <2>4
<1>4. ASSUME NEW w \in Waiters, Register(w) PROVE IInv'
  <2>1. Types'
    BY <1>4 DEF Register, Fail, Goto, Types, WaitPc, Results
  <2>2. Held'
    BY <1>0, <1>4 DEF Register, Fail, Goto, Types, Held, None
  <2>3. Flagged'
    BY <1>0, <1>4 DEF Register, Fail, Goto, Types, Held, Flagged, None
  <2>4. NoFalseFailure'
    BY <1>4 DEF Register, Fail, Goto, Types, Held, Flagged, NoFalseFailure, None
  <2> QED
    BY <2>1, <2>2, <2>3, <2>4
<1>5. ASSUME NEW w \in Waiters, Arm(w) PROVE IInv'
  <2>1. Types'
    BY <1>5 DEF Arm, Goto, Types, WaitPc, Results
  <2>2. Held'
    BY <1>5 DEF Arm, Goto, Types, Held, None
  <2>3. Flagged'
    BY <1>5 DEF Arm, Goto, Types, Held, Flagged, None
  <2>4. NoFalseFailure'
    BY <1>5 DEF Arm, Goto, Types, Held, Flagged, NoFalseFailure, None
  <2> QED
    BY <2>1, <2>2, <2>3, <2>4
<1>6. ASSUME NEW w \in Waiters, Read(w) PROVE IInv'
  <2>1. Types'
    BY <1>6 DEF Read, Finish, Goto, Types, WaitPc, Results
  <2>2. Held'
    BY <1>6 DEF Read, Finish, Goto, Types, Held, None
  <2>3. Flagged'
    BY <1>6 DEF Read, Finish, Goto, Types, Held, Flagged, None
  <2>4. NoFalseFailure'
    BY <1>6 DEF Read, Finish, Goto, Types, Held, Flagged, NoFalseFailure, None
  <2> QED
    BY <2>1, <2>2, <2>3, <2>4
<1>7. ASSUME NEW w \in Waiters, Expired(w) PROVE IInv'
  <2>1. Types'
    BY <1>7 DEF Expired, Finish, Goto, Types, WaitPc, Results
  <2>2. Held'
    BY <1>7 DEF Expired, Finish, Goto, Types, Held, None
  <2>3. Flagged'
    BY <1>7 DEF Expired, Finish, Goto, Types, Held, Flagged, None
  <2>4. NoFalseFailure'
    BY <1>7 DEF Expired, Finish, Goto, Types, Held, Flagged, NoFalseFailure, None
  <2> QED
    BY <2>1, <2>2, <2>3, <2>4
<1>8. ASSUME NEW w \in Waiters, Reset(w) PROVE IInv'
  <2>1. Types'
    BY <1>8 DEF Reset, Goto, Types, WaitPc, Results
  <2>2. Held'
    BY <1>8 DEF Reset, Goto, Types, Held, None
  <2>3. Flagged'
    BY <1>8 DEF Reset, Goto, Types, Held, Flagged, None
  <2>4. NoFalseFailure'
    BY <1>8 DEF Reset, Goto, Types, Held, Flagged, NoFalseFailure, None
  <2> QED
    BY <2>1, <2>2, <2>3, <2>4
<1>9. ASSUME NEW w \in Waiters, Stop(w) PROVE IInv'
  <2>1. Types'
    BY <1>9 DEF Stop, Goto, Types, WaitPc, Results
  <2>2. Held'
    BY <1>9 DEF Stop, Goto, Types, Held, None
  <2>3. Flagged'
    BY <1>9 DEF Stop, Goto, Types, Held, Flagged, None
  <2>4. NoFalseFailure'
    BY <1>9 DEF Stop, Goto, Types, Held, Flagged, NoFalseFailure, None
  <2> QED
    BY <2>1, <2>2, <2>3, <2>4
<1>10. ASSUME NEW w \in Waiters, ReleaseDeadline(w) PROVE IInv'
  <2>1. Types'
    BY <1>10 DEF ReleaseDeadline, Goto, Types, WaitPc, Results
  <2>2. Held'
    BY <1>10 DEF ReleaseDeadline, Goto, Types, Held, None
  <2>3. Flagged'
    BY <1>10 DEF ReleaseDeadline, Goto, Types, Held, Flagged, None
  <2>4. NoFalseFailure'
    BY <1>10 DEF ReleaseDeadline, Goto, Types, Held, Flagged, NoFalseFailure, None
  <2> QED
    BY <2>1, <2>2, <2>3, <2>4
<1>11. ASSUME NEW w \in Waiters, ReleaseReader(w) PROVE IInv'
  <2>1. Types'
    <3>1. rd[w] \in Readers
      BY <1>11 DEF ReleaseReader, Held
    <3>2. Append(idle, rd[w]) \in Seq(Readers)
      BY <3>1 DEF Types
    <3> QED
      BY <1>11, <3>2 DEF ReleaseReader, Goto, Types, WaitPc, Results
  <2>2. Held'
    BY <1>11 DEF ReleaseReader, Goto, Types, Held, None
  <2>3. Flagged'
    BY <1>11 DEF ReleaseReader, Goto, Types, Held, Flagged, None
  <2>4. NoFalseFailure'
    BY <1>11 DEF ReleaseReader, Goto, Types, Held, Flagged, NoFalseFailure, None
  <2> QED
    BY <2>1, <2>2, <2>3, <2>4
<1>12. ASSUME NEW w \in Waiters, ContextEnds(w) PROVE IInv'
  <2>1. Types'
    BY <1>12 DEF ContextEnds, Types, WaitPc, Results
  <2>2. Held'
    BY <1>12 DEF ContextEnds, Types, Held, None
  <2>3. Flagged'
    BY <1>12 DEF ContextEnds, Types, Held, Flagged, None
  <2>4. NoFalseFailure'
    BY <1>12 DEF ContextEnds, Types, Held, Flagged, NoFalseFailure, None
  <2> QED
    BY <2>1, <2>2, <2>3, <2>4
<1>13. ASSUME NEW w \in Waiters, StartCallback(w) PROVE IInv'
  <2>1. Types'
    BY <1>13 DEF StartCallback, Types, WaitPc, Results
  <2>2. Held'
    BY <1>13 DEF StartCallback, Types, Held, None
  <2>3. Flagged'
    BY <1>13 DEF StartCallback, Types, Held, Flagged, None
  <2>4. NoFalseFailure'
    BY <1>13 DEF StartCallback, Types, Held, Flagged, NoFalseFailure, None
  <2> QED
    BY <2>1, <2>2, <2>3, <2>4
<1>14. ASSUME NEW r \in Readers, RunCallback(r) PROVE IInv'
  <2>1. Types'
    BY <1>14 DEF RunCallback, Types, WaitPc, Results
  <2>2. Held'
    BY <1>14 DEF RunCallback, Types, Held, None
  <2>3. Flagged'
    BY <1>14 DEF RunCallback, Types, Held, Flagged, None
  <2>4. NoFalseFailure'
    BY <1>14 DEF RunCallback, Types, Held, Flagged, NoFalseFailure, None
  <2> QED
    BY <2>1, <2>2, <2>3, <2>4
<1>15. ASSUME NEW n \in Bursts, Signal(n) PROVE IInv'
  <2>1. Types'
    BY <1>15 DEF Signal, Types, WaitPc, Results
  <2>2. Held'
    BY <1>15 DEF Signal, Types, Held, None
  <2>3. Flagged'
    BY <1>15 DEF Signal, Types, Held, Flagged, None
  <2>4. NoFalseFailure'
    BY <1>15 DEF Signal, Types, Held, Flagged, NoFalseFailure, None
  <2> QED
    BY <2>1, <2>2, <2>3, <2>4
<1>16. ASSUME Close PROVE IInv'
  <2>1. Types'
    BY <1>16 DEF Close, Types, WaitPc, Results
  <2>2. Held'
    BY <1>16 DEF Close, Types, Held, None
  <2>3. Flagged'
    BY <1>16 DEF Close, Types, Held, Flagged, None
  <2>4. NoFalseFailure'
    BY <1>16 DEF Close, Types, Held, Flagged, NoFalseFailure, None
  <2> QED
    BY <2>1, <2>2, <2>3, <2>4
<1>17. ASSUME NEW r \in Readers, CloseReader(r) PROVE IInv'
  <2>1. Types'
    BY <1>17 DEF CloseReader, Types, WaitPc, Results
  <2>2. Held'
    BY <1>17 DEF CloseReader, Types, Held, None
  <2>3. Flagged'
    BY <1>17 DEF CloseReader, Types, Held, Flagged, None
  <2>4. NoFalseFailure'
    BY <1>17 DEF CloseReader, Types, Held, Flagged, NoFalseFailure, None
  <2> QED
    BY <2>1, <2>2, <2>3, <2>4
<1>18. ASSUME CloseWrite PROVE IInv'
  <2>1. Types'
    BY <1>18 DEF CloseWrite, Types, WaitPc, Results
  <2>2. Held'
    BY <1>18 DEF CloseWrite, Types, Held, None
  <2>3. Flagged'
    BY <1>18 DEF CloseWrite, Types, Held, Flagged, None
  <2>4. NoFalseFailure'
    BY <1>18 DEF CloseWrite, Types, Held, Flagged, NoFalseFailure, None
  <2> QED
    BY <2>1, <2>2, <2>3, <2>4
<1>19. CASE UNCHANGED vars
  BY <1>19 DEF vars, Types, Held, Flagged, NoFalseFailure
<1> QED
  BY <1>1, <1>2, <1>3, <1>4, <1>5, <1>6, <1>7, <1>8, <1>9, <1>10, <1>11, <1>12, <1>13, <1>14, <1>15,
     <1>16, <1>17, <1>18, <1>19 DEF Next, WaiterStep, CloseStep

\* NoFalseFailure always holds.  event_unix.go: a wait reports its own context or the
\* close of the event, and never the deadline of an earlier wait on its descriptor, nor
\* the error of the duplicate that Close took the handle from.
THEOREM FailuresReal == Spec => []NoFalseFailure
<1>1. Init => IInv
  BY InitInv
<1>2. IInv /\ [Next]_vars => IInv'
  BY StepInv
<1>3. IInv => NoFalseFailure
  BY DEF IInv
<1> QED
  BY <1>1, <1>2, <1>3, PTL DEF Spec
-----------------------------------------------------------------------------
(* The pool: PoolInv *)

\* A descriptor is new, in the hands of one wait, or on the free list once; one that is
\* open is in the set of the readers, about to be closed, or of a wait that has yet to
\* register it.
PoolInv ==
  /\ \A r \in Readers, w \in Waiters : fd[r] = None => rd[w] # r
  /\ \A i \in 1..Len(idle) : fd[idle[i]] # None
  /\ \A v, w \in Waiters : v # w /\ rd[v] = rd[w] => rd[v] = None
  /\ \A i \in 1..Len(idle), w \in Waiters : rd[w] # idle[i]
  /\ \A i, j \in 1..Len(idle) : idle[i] = idle[j] => i = j
  /\ closed => open = {} /\ idle = <<>>
  /\ cpc = "open" => doomed = {}
  /\ cpc = "done" => closed /\ doomed = {}
  /\ \A r \in Readers : fd[r] = "open" =>
       r \in open \cup doomed \/ \E w \in Waiters : pc[w] = "register" /\ rd[w] = r

\* The last of the free list, and the rest of it.
LEMMA ListParts ==
  ASSUME NEW s \in Seq(Readers), s # <<>>
  PROVE  /\ Len(s) \in 1..Len(s) /\ Last(s) = s[Len(s)]
         /\ Len(Front(s)) = Len(s) - 1 /\ \A i \in 1..(Len(s) - 1) : Front(s)[i] = s[i]
<1>1. Len(s) \in Nat /\ Len(s) >= 1
  OBVIOUS
<1>2. Len(s) \in 1..Len(s) /\ Last(s) = s[Len(s)]
  BY <1>1 DEF Last
<1>3. PICK n \in Nat : n = Len(s) - 1
  BY <1>1
<1>4. Len(SubSeq(s, 1, n)) = n
  BY <1>3
<1>5. \A i \in 1..n : SubSeq(s, 1, n)[i] = s[i]
  BY <1>3
<1> QED
  BY <1>2, <1>3, <1>4, <1>5 DEF Front

\* A step that leaves the descriptors, the pool and the waits' hold on them alone.
LEMMA PoolKept ==
  ASSUME PoolInv, UNCHANGED <<closed, idle, open, fd, rd, cpc, doomed>>,
         \A w \in Waiters : pc[w] = "register" => pc'[w] = "register"
  PROVE  PoolInv'
  BY DEF PoolInv

\* A wait takes a descriptor from the pool, or makes one, and gives it back.
LEMMA WaiterPool ==
  ASSUME IInv, PoolInv, NEW w \in Waiters, Wait(w) \/ WaiterStep(w)
  PROVE  PoolInv'
<1>0. Types /\ Held /\ None \notin Readers
  BY ConstantsOK DEF IInv, None
<1>a. pc \in [Waiters -> WaitPc] /\ rd \in [Waiters -> Readers \cup {None}]
      /\ fd \in [Readers -> {None, "open", "closed"}] /\ idle \in Seq(Readers) /\ Len(idle) \in Nat
  BY <1>0 DEF Types
<1>1. CASE Acquire(w)
  <2>1. /\ UNCHANGED <<closed, open, fd, cpc, doomed>> /\ pc[w] = "acquire"
        /\ \E l : pc' = [pc EXCEPT ![w] = l]
        /\ UNCHANGED <<idle, rd>>
           \/ (idle # <<>> /\ rd' = [rd EXCEPT ![w] = Last(idle)] /\ idle' = Front(idle))
    BY <1>1 DEF Acquire, Fail, Goto, fdVars, closeVars
  <2>2. \A v \in Waiters : pc[v] = "register" => pc'[v] = "register"
    BY <1>a, <2>1
  <2>3. CASE UNCHANGED <<idle, rd>>
    BY <2>1, <2>2, <2>3, PoolKept
  <2>4. CASE idle # <<>> /\ rd' = [rd EXCEPT ![w] = Last(idle)] /\ idle' = Front(idle)
    <3>1. /\ Len(idle) \in 1..Len(idle) /\ Last(idle) = idle[Len(idle)] /\ Last(idle) \in Readers
          /\ Len(idle') = Len(idle) - 1 /\ \A i \in 1..Len(idle') : idle'[i] = idle[i]
             /\ i \in 1..Len(idle)
      <4>1. /\ Len(idle) \in 1..Len(idle) /\ Last(idle) = idle[Len(idle)] /\ Last(idle) \in Readers
            /\ Len(idle') = Len(idle) - 1 /\ \A i \in 1..(Len(idle) - 1) : idle'[i] = idle[i]
        BY <1>a, <2>4, ListParts, ListFacts
      <4>2. \A i \in 1..(Len(idle) - 1) : i \in 1..Len(idle)
        BY <1>a
      <4> QED
        BY <4>1, <4>2
    <3>2. rd'[w] = idle[Len(idle)] /\ \A v \in Waiters : v # w => rd'[v] = rd[v]
      BY <1>a, <2>4, <3>1
    <3>3. ~closed
      BY <2>4 DEF PoolInv
    <3>4. \A v \in Waiters : pc'[v] = "register" <=> pc[v] = "register"
          \/ (v = w /\ pc'[w] = "register")
      BY <1>a, <2>1
    <3>5. /\ \A r \in Readers, v \in Waiters : fd[r] = None => rd'[v] # r
          /\ \A i \in 1..Len(idle') : fd[idle'[i]] # None
      BY <3>1, <3>2 DEF PoolInv
    <3>6. /\ \A u, v \in Waiters : u # v /\ rd'[u] = rd'[v] => rd'[u] = None
          /\ \A i \in 1..Len(idle'), v \in Waiters : rd'[v] # idle'[i]
      BY <3>1, <3>2 DEF PoolInv
    <3>7. \A i, j \in 1..Len(idle') : idle'[i] = idle'[j] => i = j
      BY <3>1 DEF PoolInv
    <3>8. \A r \in Readers : fd[r] = "open" =>
            r \in open \cup doomed \/ \E v \in Waiters : pc'[v] = "register" /\ rd'[v] = r
      BY <2>1, <2>2, <3>2 DEF PoolInv
    <3> QED
      BY <2>1, <3>3, <3>5, <3>6, <3>7, <3>8 DEF PoolInv
  <2> QED
    BY <2>1, <2>3, <2>4
<1>2. CASE Dup(w)
  <2>1. /\ UNCHANGED <<closed, open, idle, cpc, doomed>> /\ pc[w] = "dup" /\ rd[w] = None
        /\ pc' = [pc EXCEPT ![w] = "register"]
    BY <1>0, <1>2 DEF Dup, Goto, poolVars, closeVars, Held
  <2>2. \A v \in Waiters : pc[v] = "register" => pc'[v] = "register"
    BY <1>a, <2>1
  <2>3. CASE UNCHANGED <<fd, rd>>
    BY <2>1, <2>2, <2>3, PoolKept
  <2>4. ASSUME NEW r \in Readers, fd[r] = None, fd' = [fd EXCEPT ![r] = "open"],
               rd' = [rd EXCEPT ![w] = r]
        PROVE  PoolInv'
    <3>1. rd'[w] = r /\ pc'[w] = "register" /\ \A v \in Waiters : v # w => rd'[v] = rd[v]
      BY <1>a, <2>1, <2>4
    <3>2. fd'[r] = "open" /\ \A s \in Readers : s # r => fd'[s] = fd[s]
      BY <1>a, <2>4
    <3>3. \A i \in 1..Len(idle) : idle[i] \in Readers /\ idle[i] # r
      BY <1>a, <2>4 DEF PoolInv
    <3>4. \A v \in Waiters : rd[v] # r
      BY <2>4 DEF PoolInv
    <3>5. /\ \A s \in Readers, v \in Waiters : fd'[s] = None => rd'[v] # s
          /\ \A i \in 1..Len(idle) : fd'[idle[i]] # None
      BY <1>0, <3>1, <3>2, <3>3 DEF PoolInv, None
    <3>6. /\ \A u, v \in Waiters : u # v /\ rd'[u] = rd'[v] => rd'[u] = None
          /\ \A i \in 1..Len(idle), v \in Waiters : rd'[v] # idle[i]
      BY <3>1, <3>3, <3>4 DEF PoolInv
    <3>7. \A s \in Readers : fd'[s] = "open" =>
            s \in open \cup doomed \/ \E v \in Waiters : pc'[v] = "register" /\ rd'[v] = s
      BY <2>1, <2>2, <3>1, <3>2 DEF PoolInv
    <3> QED
      BY <2>1, <3>5, <3>6, <3>7 DEF PoolInv
  <2> QED
    BY <1>2, <2>3, <2>4 DEF Dup
<1>3. CASE Register(w)
  <2>1. UNCHANGED <<closed, idle, cpc, doomed>> /\ pc[w] = "register"
        /\ \E l : pc' = [pc EXCEPT ![w] = l]
    BY <1>3 DEF Register, Fail, Goto, closeVars
  <2>2. \A v \in Waiters : v # w => pc'[v] = pc[v]
    BY <1>a, <2>1
  <2>3. CASE closed /\ fd' = (IF rd[w] = None THEN fd ELSE [fd EXCEPT ![rd[w]] = "closed"])
             /\ rd' = [rd EXCEPT ![w] = None] /\ UNCHANGED open
    <3>1. rd'[w] = None /\ \A v \in Waiters : v # w => rd'[v] = rd[v]
      BY <1>a, <2>3
    <3>2. \A s \in Readers : (s # rd[w] => fd'[s] = fd[s]) /\ (s = rd[w] => fd'[s] = "closed")
      BY <1>a, <1>0, <2>3
    <3>3. idle = <<>> /\ open = {} /\ Len(idle) = 0
      BY <2>3 DEF PoolInv
    <3>4. \A s \in Readers, v \in Waiters : fd'[s] = None => rd'[v] # s
      BY <1>0, <3>1, <3>2 DEF PoolInv, None
    <3>5. \A u, v \in Waiters : u # v /\ rd'[u] = rd'[v] => rd'[u] = None
      BY <3>1 DEF PoolInv
    <3>6. \A s \in Readers : fd'[s] = "open" =>
            s \in open \cup doomed \/ \E v \in Waiters : pc'[v] = "register" /\ rd'[v] = s
      BY <2>2, <3>1, <3>2 DEF PoolInv
    <3> QED
      BY <2>1, <2>3, <3>3, <3>4, <3>5, <3>6 DEF PoolInv
  <2>4. CASE ~closed /\ rd[w] = None /\ UNCHANGED <<fd, rd, open>>
    <3>1. \A s \in Readers : fd[s] = "open" =>
            s \in open \cup doomed \/ \E v \in Waiters : pc'[v] = "register" /\ rd[v] = s
      BY <1>0, <2>2, <2>4 DEF PoolInv
    <3> QED
      BY <2>1, <2>4, <3>1 DEF PoolInv
  <2>5. CASE ~closed /\ rd[w] # None /\ open' = open \cup {rd[w]} /\ UNCHANGED <<fd, rd>>
    <3>1. \A s \in Readers : fd[s] = "open" =>
            s \in open' \cup doomed \/ \E v \in Waiters : pc'[v] = "register" /\ rd[v] = s
      BY <2>2, <2>5 DEF PoolInv
    <3> QED
      BY <2>1, <2>5, <3>1 DEF PoolInv
  <2> QED
    BY <1>3, <2>3, <2>4, <2>5 DEF Register
<1>4. CASE ReleaseReader(w)
  <2>1. /\ UNCHANGED <<closed, open, fd, cpc, doomed>> /\ pc[w] = "release" /\ rd[w] \in Readers
        /\ rd' = [rd EXCEPT ![w] = None] /\ pc' = [pc EXCEPT ![w] = "idle"]
        /\ idle' = IF closed THEN idle ELSE Append(idle, rd[w])
    BY <1>0, <1>4 DEF ReleaseReader, Goto, fdVars, closeVars, Held
  <2>2. rd'[w] = None /\ \A v \in Waiters : v # w => rd'[v] = rd[v]
    BY <1>a, <2>1
  <2>3. \A s \in Readers : fd[s] = "open" =>
          s \in open \cup doomed \/ \E v \in Waiters : pc'[v] = "register" /\ rd'[v] = s
    BY <1>a, <2>1, <2>2 DEF PoolInv
  <2>4. /\ \A s \in Readers, v \in Waiters : fd[s] = None => rd'[v] # s
        /\ \A u, v \in Waiters : u # v /\ rd'[u] = rd'[v] => rd'[u] = None
    BY <1>0, <2>2 DEF PoolInv
  <2>5. CASE closed
    BY <2>1, <2>2, <2>3, <2>4, <2>5 DEF PoolInv
  <2>6. CASE ~closed
    <3>1. /\ Len(idle') = Len(idle) + 1 /\ idle'[Len(idle) + 1] = rd[w]
          /\ \A i \in 1..Len(idle) : idle'[i] = idle[i] /\ idle[i] \in Readers
      BY <1>a, <2>1, <2>6
    <3>2. \A i \in 1..Len(idle') : i \in 1..Len(idle) \/ i = Len(idle) + 1
      BY <1>a, <3>1
    <3>3. \A i \in 1..Len(idle') : fd[idle'[i]] # None
      BY <2>1, <3>1, <3>2 DEF PoolInv
    <3>4. \A i \in 1..Len(idle'), v \in Waiters : rd'[v] # idle'[i]
      BY <1>0, <2>1, <2>2, <3>1, <3>2 DEF PoolInv
    <3>5. \A i, j \in 1..Len(idle') : idle'[i] = idle'[j] => i = j
      BY <3>1, <3>2 DEF PoolInv
    <3> QED
      BY <2>1, <2>3, <2>4, <2>6, <3>3, <3>4, <3>5 DEF PoolInv
  <2> QED
    BY <2>5, <2>6
<1>5. CASE Wait(w)
  <2>1. UNCHANGED <<closed, idle, open, fd, rd, cpc, doomed>> /\ pc[w] = "idle"
    BY <1>5 DEF Wait, poolVars, fdVars, closeVars
  <2>2. pc' = [pc EXCEPT ![w] = "acquire"]
    BY <1>5 DEF Wait, Goto
  <2> QED
    BY <1>a, <2>1, <2>2, PoolKept
<1>6. CASE Arm(w)
  <2>1. UNCHANGED <<closed, idle, open, fd, rd, cpc, doomed>> /\ pc[w] = "arm"
    BY <1>6 DEF Arm, poolVars, fdVars, closeVars
  <2>2. pc' = [pc EXCEPT ![w] = "read"]
    BY <1>6 DEF Arm, Goto
  <2> QED
    BY <1>a, <2>1, <2>2, PoolKept
<1>7. CASE Expired(w)
  <2>1. UNCHANGED <<closed, idle, open, fd, rd, cpc, doomed>> /\ pc[w] = "expired"
    BY <1>7 DEF Expired, poolVars, fdVars, closeVars
  <2>2. pc' = [pc EXCEPT ![w] = "stop"] \/ pc' = [pc EXCEPT ![w] = "reset"]
    BY <1>7 DEF Expired, Goto, Finish
  <2> QED
    BY <1>a, <2>1, <2>2, PoolKept
<1>8. CASE Stop(w)
  <2>1. UNCHANGED <<closed, idle, open, fd, rd, cpc, doomed>> /\ pc[w] = "stop"
    BY <1>8 DEF Stop, poolVars, fdVars, closeVars
  <2>2. pc' = [pc EXCEPT ![w] = "undo"]
    BY <1>8 DEF Stop, Goto
  <2> QED
    BY <1>a, <2>1, <2>2, PoolKept
<1>9. CASE ReleaseDeadline(w)
  <2>1. UNCHANGED <<closed, idle, open, fd, rd, cpc, doomed>> /\ pc[w] = "undo"
    BY <1>9 DEF ReleaseDeadline, poolVars, fdVars, closeVars
  <2>2. pc' = [pc EXCEPT ![w] = "release"]
    BY <1>9 DEF ReleaseDeadline, Goto
  <2> QED
    BY <1>a, <2>1, <2>2, PoolKept
<1>10. CASE Read(w)
  <2>1. UNCHANGED <<closed, idle, open, fd, rd, cpc, doomed>> /\ pc[w] = "read"
    BY <1>10 DEF Read, poolVars, fdVars, closeVars
  <2>2. pc' = [pc EXCEPT ![w] = "stop"] \/ pc' = [pc EXCEPT ![w] = "expired"]
    BY <1>10 DEF Read, Goto, Finish
  <2> QED
    BY <1>a, <2>1, <2>2, PoolKept
<1>11. CASE Reset(w)
  <2>1. UNCHANGED <<closed, idle, open, fd, rd, cpc, doomed>> /\ pc[w] = "reset"
    BY <1>11 DEF Reset, poolVars, fdVars, closeVars
  <2>2. pc' = [pc EXCEPT ![w] = "read"]
    BY <1>11 DEF Reset, Goto
  <2> QED
    BY <1>a, <2>1, <2>2, PoolKept
<1> QED
  BY <1>1, <1>2, <1>3, <1>4, <1>5, <1>6, <1>7, <1>8, <1>9, <1>10, <1>11 DEF WaiterStep

\* Close empties the pool into what it closes, and closes all of that before it is done.
LEMMA ClosePool ==
  ASSUME IInv, PoolInv, Close \/ CloseStep
  PROVE  PoolInv'
<1>0. Flagged /\ fd \in [Readers -> {None, "open", "closed"}] /\ idle \in Seq(Readers)
  BY DEF IInv, Types
<1>1. CASE Close
  <2>1. /\ UNCHANGED <<fd, rd, pc>> /\ closed' = TRUE /\ doomed' = open /\ open' = {}
           /\ idle' = <<>>
        /\ cpc' = "readers" /\ cpc = "open"
    BY <1>1 DEF Close, fdVars, waitVars
  <2> QED
    BY <2>1 DEF PoolInv
<1>2. ASSUME NEW r \in Readers, CloseReader(r) PROVE PoolInv'
  <2>1. /\ UNCHANGED <<closed, idle, open, rd, pc, cpc>> /\ cpc = "readers"
        /\ fd' = [fd EXCEPT ![r] = "closed"] /\ doomed' = doomed \ {r}
    BY <1>2 DEF CloseReader, poolVars, waitVars
  <2>2. fd'[r] = "closed" /\ \A s \in Readers : s # r => fd'[s] = fd[s]
    BY <1>0, <2>1
  <2>3. idle = <<>> /\ Len(idle) = 0
    BY <1>0, <2>1 DEF Flagged, PoolInv
  <2>4. /\ closed => open = {} /\ idle = <<>>
        /\ \A u, v \in Waiters : u # v /\ rd[u] = rd[v] => rd[u] = None
    BY DEF PoolInv
  <2>5. \A s \in Readers, v \in Waiters : fd'[s] = None => rd[v] # s
    BY <2>2 DEF PoolInv, None
  <2>6. \A s \in Readers : fd'[s] = "open" =>
          s \in open \cup doomed' \/ \E v \in Waiters : pc[v] = "register" /\ rd[v] = s
    BY <2>1, <2>2 DEF PoolInv
  <2> QED
    BY <2>1, <2>3, <2>4, <2>5, <2>6 DEF PoolInv
<1>3. CASE CloseWrite
  <2>1. UNCHANGED <<closed, idle, open, fd, rd, pc, doomed>> /\ doomed = {} /\ cpc = "readers"
    BY <1>3 DEF CloseWrite, poolVars, fdVars, waitVars
  <2> QED
    BY <1>0, <2>1 DEF PoolInv, Flagged
<1> QED
  BY <1>1, <1>2, <1>3 DEF CloseStep

\* Every step keeps the invariant.
LEMMA PoolStep ==
  ASSUME IInv, PoolInv, [Next]_vars
  PROVE  PoolInv'
<1>1. ASSUME NEW w \in Waiters, ContextEnds(w) \/ StartCallback(w) PROVE PoolInv'
  BY <1>1, PoolKept DEF ContextEnds, StartCallback, poolVars, fdVars, closeVars
<1>2. ASSUME NEW r \in Readers, RunCallback(r) PROVE PoolInv'
  BY <1>2, PoolKept DEF RunCallback, poolVars, waitVars, closeVars
<1>3. ASSUME NEW n \in Bursts, Signal(n) PROVE PoolInv'
  BY <1>3, PoolKept DEF Signal, poolVars, fdVars, waitVars, closeVars
<1>4. CASE UNCHANGED vars
  BY <1>4, PoolKept DEF vars, poolVars, fdVars, waitVars, closeVars
<1> QED
  BY <1>1, <1>2, <1>3, <1>4, WaiterPool, ClosePool DEF Next

\* DescriptorsKept always holds.  event_unix.go: "The read runs on this waiter's own
\* handle, so cancellation through a read deadline touches nothing else"; and once Close
\* and the waits are done no handle is open, whichever of them was being opened or given
\* back when Close took the list.
THEOREM PoolKeepsDescriptors == Spec => []DescriptorsKept
<1>1. Init => PoolInv
  BY ConstantsOK DEF Init, PoolInv, None
<1>2. IInv /\ PoolInv => DescriptorsKept
  <2> SUFFICES ASSUME IInv, PoolInv PROVE DescriptorsKept
    OBVIOUS
  <2>1. DOMAIN idle = 1..Len(idle)
    BY DEF IInv, Types
  <2>2. \A w \in Waiters : rd[w] \notin ToSet(idle)
    BY <2>1 DEF ToSet, PoolInv
  <2>3. IsInjective(idle)
    BY <2>1 DEF IsInjective, PoolInv
  <2>4. (cpc = "done" /\ \A w \in Waiters : pc[w] = "idle") => \A r \in Readers : fd[r] # "open"
    BY DEF PoolInv
  <2> QED
    BY <2>2, <2>3, <2>4 DEF DescriptorsKept, PoolInv
<1>3. IInv /\ PoolInv /\ [Next]_vars => PoolInv'
  BY PoolStep
<1> QED
  BY <1>1, <1>2, <1>3, InitInv, StepInv, PTL DEF Spec
-----------------------------------------------------------------------------
(* Tokens *)

\* NoSwallowedWakeup always holds.  event_unix.go: "A token is consumed only by a read that
\* returns it", whatever contexts end and whatever closes, for any waits and signals.
THEOREM WakeupsKept == Spec => []NoSwallowedWakeup
<1> DEFINE Sums == tokens \in Nat /\ posted \in Nat /\ taken \in Nat /\ posted = tokens + taken
<1>1. Init => Sums
  BY DEF Init
<1>2. Sums /\ [Next]_vars => Sums'
  <2> SUFFICES ASSUME Sums, [Next]_vars PROVE Sums'
    OBVIOUS
  <2>1. ASSUME NEW w \in Waiters, Read(w) PROVE Sums'
    BY <2>1 DEF Read
  <2>2. ASSUME NEW n \in Bursts, Signal(n) PROVE Sums'
    BY <2>2, ConstantsOK DEF Signal
  <2>3. CASE UNCHANGED tokenVars
    BY <2>3 DEF tokenVars
  <2>4. ASSUME NEW w \in Waiters, Acquire(w) \/ Dup(w) \/ Register(w) \/ Arm(w)
        PROVE  UNCHANGED tokenVars
    BY <2>4, Zenon DEF Acquire, Dup, Register, Arm
  <2>6. ASSUME NEW w \in Waiters, Wait(w) \/ Expired(w) \/ Reset(w) \/ Stop(w) \/ ReleaseDeadline(w)
        PROVE  UNCHANGED tokenVars
    BY <2>6, Zenon DEF Wait, Expired, Reset, Stop, ReleaseDeadline
  <2>7. ASSUME NEW w \in Waiters, ReleaseReader(w) \/ ContextEnds(w) \/ StartCallback(w)
        PROVE  UNCHANGED tokenVars
    BY <2>7, Zenon DEF ReleaseReader, ContextEnds, StartCallback
  <2>5. Close \/ CloseStep \/ (\E r \in Readers : RunCallback(r)) \/ UNCHANGED vars =>
        UNCHANGED tokenVars
    BY DEF Close, CloseStep, CloseReader, CloseWrite, RunCallback, vars
  <2> QED
    BY <2>1, <2>2, <2>3, <2>4, <2>5, <2>6, <2>7 DEF Next, WaiterStep
<1>3. Sums => NoSwallowedWakeup
  BY DEF NoSwallowedWakeup
<1> QED
  BY <1>1, <1>2, <1>3, PTL DEF Spec
=============================================================================
