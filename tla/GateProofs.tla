----------------------------- MODULE GateProofs -----------------------------
(***************************************************************************)
(* Proofs about MCGates for any finite set of operations and any set of    *)
(* closers: the C++ gate and the C gate never unmap under an operation and *)
(* implement GateSpec, and nothing enters the Go gate once it closes.      *)
(*                                                                         *)
(* The strengthening says that the count is exactly the number of          *)
(* operations between their increment and their decrement, that only the   *)
(* winner of the close drains, and that it drains with the flag set.       *)
(***************************************************************************)
EXTENDS MCGates, FiniteSetTheorems, TLAPS

(* The C++ gate. *)

Counted == {o \in Ops : opc[o] \in {"in", "backout"}}
Draining == {"load", "wait", "asleep", "done"}

IInv ==
  /\ TypeOK
  /\ active = Cardinality(Counted)
  /\ \A c \in Closers : cpc[c] \in Draining => closing
  /\ \A c, d \in Closers : cpc[c] \in Draining /\ cpc[d] \in Draining => c = d
  /\ NoUseAfterUnmap

\* A subset of the operations is finite, and is empty when it counts zero.
LEMMA CountFacts ==
  /\ IsFiniteSet(Counted)
  /\ Cardinality(Counted) \in Nat
  /\ Cardinality(Counted) = 0 => Counted = {}
<1>1. IsFiniteSet(Counted)
  BY OpsFinite, FS_Subset DEF Counted
<1> QED
  BY <1>1, FS_CardinalityType, FS_EmptySet

\* An operation that starts to count adds one; one that stops takes one away.
LEMMA CountStep ==
  ASSUME NEW o \in Ops, IsFiniteSet(Counted)
  PROVE  /\ (o \notin Counted /\ Counted' = Counted \cup {o})
              => Cardinality(Counted') = Cardinality(Counted) + 1
         /\ (o \in Counted /\ Counted' = Counted \ {o})
              => Cardinality(Counted') = Cardinality(Counted) - 1
  BY FS_AddElement, FS_RemoveElement

\* The gate starts open and empty, which is the base of the induction.
LEMMA InitInv == Init => IInv
<1> SUFFICES ASSUME Init PROVE IInv
  OBVIOUS
<1>1. Counted = {}
  BY DEF Init, Counted
<1>2. TypeOK
  BY DEF Init, TypeOK, OpPc, CloserPc, Word
<1> QED
  BY <1>1, <1>2, FS_EmptySet DEF Init, IInv, Draining, NoUseAfterUnmap

\* Every step of every thread keeps the strengthened invariant.
LEMMA StepInv == IInv /\ [Next]_vars => IInv'
<1> SUFFICES ASSUME IInv, [Next]_vars PROVE IInv'
  OBVIOUS
<1> USE DEF IInv
<1>0. /\ IsFiniteSet(Counted) /\ Cardinality(Counted) \in Nat
      /\ Cardinality(Counted) = 0 => Counted = {}
  BY CountFacts
<1>1. ASSUME NEW o \in Ops, EnterAdd(o) PROVE IInv'
  <2>1. TypeOK'
    BY <1>1 DEF EnterAdd, TypeOK, OpPc
  <2>2. o \notin Counted /\ Counted' = Counted \cup {o}
    BY <1>1 DEF EnterAdd, Counted, TypeOK
  <2>3. active' = Cardinality(Counted')
    BY <1>0, <1>1, <2>2, CountStep DEF EnterAdd
  <2>4. NoUseAfterUnmap'
    BY <1>1 DEF EnterAdd, NoUseAfterUnmap, Inside, Draining, TypeOK
  <2> QED
    BY <1>1, <2>1, <2>3, <2>4 DEF EnterAdd
<1>2. ASSUME NEW o \in Ops, LeaveSub(o) PROVE IInv'
  <2>1. o \in Counted /\ Counted' = Counted \ {o}
    BY <1>2 DEF LeaveSub, Counted, TypeOK
  <2>2. active' = Cardinality(Counted')
    BY <1>0, <1>2, <2>1, CountStep DEF LeaveSub
  <2>3. Cardinality(Counted) # 0
    BY <1>0, <2>1, FS_EmptySet
  <2>4. TypeOK'
    BY <1>0, <1>2, <2>3 DEF LeaveSub, TypeOK, OpPc
  <2>5. NoUseAfterUnmap'
    BY <1>2 DEF LeaveSub, NoUseAfterUnmap, Inside, TypeOK
  <2> QED
    BY <1>2, <2>2, <2>4, <2>5 DEF LeaveSub
<1>3. ASSUME NEW o \in Ops, LeaveWake(o) PROVE IInv'
  <2>1. TypeOK'
    BY <1>3 DEF LeaveWake, TypeOK, OpPc, CloserPc
  <2>2. Counted' = Counted
    BY <1>3 DEF LeaveWake, Counted, TypeOK
  <2>3. NoUseAfterUnmap'
    BY <1>3 DEF LeaveWake, NoUseAfterUnmap, Inside, TypeOK
  <2>4. \A c \in Closers : cpc'[c] \in Draining <=> cpc[c] \in Draining
    BY <1>3 DEF LeaveWake, Draining, TypeOK
  <2> QED
    BY <1>3, <2>1, <2>2, <2>3, <2>4 DEF LeaveWake
<1>4. ASSUME NEW c \in Closers, Close(c) PROVE IInv'
  <2>1. TypeOK'
    BY <1>4 DEF Close, TypeOK, CloserPc
  <2>2. Counted' = Counted
    BY <1>4 DEF Close, Counted
  <2>3. NoUseAfterUnmap'
    BY <1>4 DEF Close, NoUseAfterUnmap, Inside, TypeOK
  <2>4. \A d \in Closers : cpc'[d] \in Draining => closing'
    BY <1>4 DEF Close
  <2>5. \A d, e \in Closers : cpc'[d] \in Draining /\ cpc'[e] \in Draining => d = e
    BY <1>4 DEF Close, Draining, TypeOK
  <2> QED
    BY <1>4, <2>1, <2>2, <2>3, <2>4, <2>5 DEF Close
<1>5. ASSUME NEW c \in Closers, DrainLoad(c) PROVE IInv'
  <2>1. TypeOK'
    BY <1>5 DEF DrainLoad, TypeOK, CloserPc, Word, word
  <2>2. Counted' = Counted
    BY <1>5 DEF DrainLoad, Counted
  <2>3. NoUseAfterUnmap'
    <3>1. CASE active = 0
      BY <1>0, <1>5, <3>1 DEF DrainLoad, NoUseAfterUnmap, Inside, Counted, TypeOK
    <3>2. CASE active # 0
      BY <1>5, <3>2 DEF DrainLoad, NoUseAfterUnmap, Inside, TypeOK
    <3> QED
      BY <3>1, <3>2
  <2>4. \A d \in Closers : cpc'[d] \in Draining <=> cpc[d] \in Draining
    BY <1>5 DEF DrainLoad, Draining, TypeOK
  <2> QED
    BY <1>5, <2>1, <2>2, <2>3, <2>4 DEF DrainLoad
<1>6. ASSUME NEW c \in Closers, FutexWait(c) \/ SpuriousWake(c) PROVE IInv'
  <2>1. TypeOK'
    BY <1>6 DEF FutexWait, SpuriousWake, TypeOK, CloserPc
  <2>2. Counted' = Counted
    BY <1>6 DEF FutexWait, SpuriousWake, Counted
  <2>3. NoUseAfterUnmap'
    BY <1>6 DEF FutexWait, SpuriousWake, NoUseAfterUnmap, Inside, TypeOK
  <2>4. \A d \in Closers : cpc'[d] \in Draining <=> cpc[d] \in Draining
    BY <1>6 DEF FutexWait, SpuriousWake, Draining, TypeOK
  <2> QED
    BY <1>6, <2>1, <2>2, <2>3, <2>4 DEF FutexWait, SpuriousWake
<1>7. CASE UNCHANGED vars
  BY <1>7 DEF vars, TypeOK, Counted, NoUseAfterUnmap, Inside
<1> QED
  BY <1>1, <1>2, <1>3, <1>4, <1>5, <1>6, <1>7 DEF Next, OpNext, CloserStep

\* Every step of the C++ gate is one of the abstract gate, or none.
LEMMA CppRefines == IInv /\ [Next]_vars => [Abstract!Next]_(Abstract!gateSpecVars)
<1> SUFFICES ASSUME IInv, [Next]_vars
             PROVE  [Abstract!Next]_(Abstract!gateSpecVars)
  OBVIOUS
<1> USE DEF IInv
<1>1. ASSUME NEW o \in Ops, EnterAdd(o) PROVE Abstract!Next \/ UNCHANGED <<Inside, Phase>>
  <2>0. Phase' = Phase
    BY <1>1 DEF EnterAdd, Phase
  <2>1. CASE closing
    BY <1>1, <2>0, <2>1 DEF EnterAdd, Inside, TypeOK
  <2>2. CASE ~closing
    <3>1. Phase = "open"
      BY <2>2 DEF Phase, Draining
    <3>2. o \notin Inside /\ Inside' = Inside \cup {o}
      BY <1>1, <2>2 DEF EnterAdd, Inside, TypeOK
    <3> QED
      BY <2>0, <3>1, <3>2 DEF Abstract!Next, Abstract!Enter
  <2> QED
    BY <2>1, <2>2
<1>2. ASSUME NEW o \in Ops, LeaveSub(o) PROVE Abstract!Next \/ UNCHANGED <<Inside, Phase>>
  <2>0. Phase' = Phase
    BY <1>2 DEF LeaveSub, Phase
  <2>1. Inside' = Inside \ {o}
    BY <1>2 DEF LeaveSub, Inside, TypeOK
  <2> QED
    BY <2>0, <2>1 DEF Abstract!Next, Abstract!Leave
<1>3. ASSUME NEW o \in Ops, LeaveWake(o) PROVE UNCHANGED <<Inside, Phase>>
  BY <1>3 DEF LeaveWake, Inside, Phase, TypeOK
<1>4. ASSUME NEW c \in Closers, Close(c) PROVE Abstract!Next \/ UNCHANGED <<Inside, Phase>>
  <2>0. Inside' = Inside
    BY <1>4 DEF Close, Inside
  <2>1. (\E d \in Closers : cpc'[d] = "done") <=> (\E d \in Closers : cpc[d] = "done")
    BY <1>4 DEF Close, TypeOK
  <2>2. CASE closing
    BY <1>4, <2>0, <2>1, <2>2 DEF Close, Phase
  <2>3. CASE ~closing
    <3>1. Phase = "open"
      BY <2>3 DEF Phase, Draining
    <3>2. Phase' = "closing"
      BY <1>4, <2>1, <2>3 DEF Close, Phase, Draining
    <3> QED
      BY <2>0, <3>1, <3>2 DEF Abstract!Next, Abstract!StartClose
  <2> QED
    BY <2>2, <2>3
<1>5. ASSUME NEW c \in Closers, DrainLoad(c) PROVE Abstract!Next \/ UNCHANGED <<Inside, Phase>>
  <2>0. Inside' = Inside
    BY <1>5 DEF DrainLoad, Inside
  <2>1. CASE closing /\ active = 0
    <3>1. Inside = {}
      BY <2>1, CountFacts DEF Inside, Counted
    <3>2. Phase = "closing"
      BY <1>5, <2>1 DEF DrainLoad, Phase, Draining, TypeOK
    <3>3. Phase' = "unmapped"
      BY <1>5, <2>1 DEF DrainLoad, Phase, TypeOK
    <3> QED
      BY <2>0, <3>1, <3>2, <3>3 DEF Abstract!Next, Abstract!Unmap
  <2>2. CASE ~(closing /\ active = 0)
    BY <1>5, <2>0, <2>2 DEF DrainLoad, Phase, TypeOK
  <2> QED
    BY <2>1, <2>2
<1>6. ASSUME NEW c \in Closers, FutexWait(c) \/ SpuriousWake(c)
      PROVE  UNCHANGED <<Inside, Phase>>
  BY <1>6 DEF FutexWait, SpuriousWake, Inside, Phase, TypeOK
<1>7. CASE UNCHANGED vars
  BY <1>7 DEF vars, Inside, Phase, Abstract!gateSpecVars
<1> QED
  BY <1>1, <1>2, <1>3, <1>4, <1>5, <1>6, <1>7
  DEF Next, OpNext, CloserStep, Abstract!gateSpecVars
-----------------------------------------------------------------------------
(* The C gate, on the same variables, with a mutex and a condition. *)

CCounted == {o \in Ops : opc[o] \in {"check", "in", "backout"}}
CDraining == {"lock", "test", "asleep", "done"}

CInv ==
  /\ C!TypeOK
  /\ active = Cardinality(CCounted)
  /\ \A c \in Closers : cpc[c] \in CDraining => closing
  /\ \A c, d \in Closers : cpc[c] \in CDraining /\ cpc[d] \in CDraining => c = d
  /\ NoUseAfterUnmap

\* The same facts about the operations that the C gate counts.
LEMMA CCountFacts ==
  /\ IsFiniteSet(CCounted)
  /\ Cardinality(CCounted) \in Nat
  /\ Cardinality(CCounted) = 0 => CCounted = {}
<1>1. IsFiniteSet(CCounted)
  BY OpsFinite, FS_Subset DEF CCounted
<1> QED
  BY <1>1, FS_CardinalityType, FS_EmptySet

\* The C gate starts open and empty.
LEMMA CInit == C!Init => CInv
<1> SUFFICES ASSUME C!Init PROVE CInv
  OBVIOUS
<1>1. CCounted = {}
  BY DEF C!Init, CCounted
<1>2. C!TypeOK
  BY DEF C!Init, C!TypeOK, C!OpPc, C!CloserPc
<1> QED
  BY <1>1, <1>2, FS_EmptySet DEF C!Init, CInv, CDraining, NoUseAfterUnmap

\* The rest of the invariant, once the count is known to be right.
CRest ==
  /\ \A c \in Closers : cpc[c] \in CDraining => closing
  /\ \A c, d \in Closers : cpc[c] \in CDraining /\ cpc[d] \in CDraining => c = d
  /\ NoUseAfterUnmap

\* Every step of every thread of the C gate keeps its invariant.
LEMMA CStep == CInv /\ C!Next => CInv'
<1> SUFFICES ASSUME CInv, C!Next PROVE CInv'
  OBVIOUS
<1> USE DEF CInv
<1>0. /\ IsFiniteSet(CCounted) /\ Cardinality(CCounted) \in Nat
      /\ Cardinality(CCounted) = 0 => CCounted = {}
  BY CCountFacts
<1>1. ASSUME NEW o \in Ops, C!EnterAdd(o) PROVE CInv'
  <2>1. o \notin CCounted /\ CCounted' = CCounted \cup {o}
    BY <1>1 DEF C!EnterAdd, CCounted, C!TypeOK
  <2>2. active' = Cardinality(CCounted')
    BY <1>0, <1>1, <2>1, FS_AddElement DEF C!EnterAdd
  <2> QED
    BY <1>1, <2>2 DEF C!EnterAdd, C!TypeOK, C!OpPc, CDraining, NoUseAfterUnmap, Inside
<1>2. ASSUME NEW o \in Ops, C!LeaveSub(o) PROVE CInv'
  <2>1. o \in CCounted /\ CCounted' = CCounted \ {o}
    BY <1>2 DEF C!LeaveSub, CCounted, C!TypeOK
  <2>2. active' = Cardinality(CCounted') /\ active # 0
    BY <1>0, <1>2, <2>1, FS_RemoveElement, FS_EmptySet DEF C!LeaveSub
  <2> QED
    BY <1>0, <1>2, <2>2 DEF C!LeaveSub, C!TypeOK, C!OpPc, CDraining, NoUseAfterUnmap, Inside
<1>3. ASSUME NEW o \in Ops,
             C!EnterCheck(o) \/ C!LeaveRecheck(o) \/ C!LeaveLock(o) \/ C!LeaveBroadcast(o)
      PROVE  CInv'
  <2>1. CCounted' = CCounted
    BY <1>3 DEF C!EnterCheck, C!LeaveRecheck, C!LeaveLock, C!LeaveBroadcast, CCounted, C!TypeOK
  <2>2. C!TypeOK'
    BY <1>3 DEF C!EnterCheck, C!LeaveRecheck, C!LeaveLock, C!LeaveBroadcast, C!TypeOK, C!OpPc, C!CloserPc
  <2>3. CRest'
    BY <1>3 DEF C!EnterCheck, C!LeaveRecheck, C!LeaveLock, C!LeaveBroadcast, CRest, C!TypeOK,
       CDraining, NoUseAfterUnmap, Inside
  <2> QED
    BY <1>3, <2>1, <2>2, <2>3 DEF CRest, C!EnterCheck, C!LeaveRecheck, C!LeaveLock, C!LeaveBroadcast
<1>4. ASSUME NEW c \in Closers,
             C!Close(c) \/ C!DrainLock(c) \/ C!DrainTest(c) \/ C!SpuriousWake(c)
      PROVE  CInv'
  <2> USE <1>4 DEF C!Close, C!DrainLock, C!DrainTest, C!SpuriousWake
  <2>1. CCounted' = CCounted /\ active' = active
    BY DEF CCounted
  <2>2. C!TypeOK'
    BY DEF C!TypeOK, C!CloserPc
  <2>3. active = 0 => Inside = {}
    BY <1>0 DEF CCounted, Inside
  <2>4. CRest'
    BY <2>3 DEF CRest, C!TypeOK, CDraining, NoUseAfterUnmap, Inside
  <2> QED
    BY <2>1, <2>2, <2>4 DEF CRest
<1> QED
  BY <1>1, <1>2, <1>3, <1>4 DEF C!Next, C!OpNext

\* Every step of the C gate is one of the abstract gate, or none.
LEMMA CRefines == CInv /\ C!Next => Abstract!Next \/ UNCHANGED <<Inside, Phase>>
<1> SUFFICES ASSUME CInv, C!Next PROVE Abstract!Next \/ UNCHANGED <<Inside, Phase>>
  OBVIOUS
<1> USE DEF CInv
<1>1. ASSUME NEW o \in Ops, C!EnterCheck(o) PROVE Abstract!Next \/ UNCHANGED <<Inside, Phase>>
  <2>1. Phase' = Phase
    BY <1>1 DEF C!EnterCheck, Phase
  <2>2. CASE closing
    BY <1>1, <2>1, <2>2 DEF C!EnterCheck, Inside, C!TypeOK
  <2>3. CASE ~closing
    <3>1. Phase = "open"
      BY <2>3 DEF Phase, CDraining
    <3>2. o \notin Inside /\ Inside' = Inside \cup {o}
      BY <1>1, <2>3 DEF C!EnterCheck, Inside, C!TypeOK
    <3> QED
      BY <2>1, <3>1, <3>2 DEF Abstract!Next, Abstract!Enter
  <2> QED
    BY <2>2, <2>3
<1>2. ASSUME NEW o \in Ops, C!LeaveSub(o) PROVE Abstract!Next \/ UNCHANGED <<Inside, Phase>>
  <2>1. Phase' = Phase
    BY <1>2 DEF C!LeaveSub, Phase
  <2>2. Inside' = Inside \ {o}
    BY <1>2 DEF C!LeaveSub, Inside, C!TypeOK
  <2> QED
    BY <2>1, <2>2 DEF Abstract!Next, Abstract!Leave
<1>3. ASSUME NEW o \in Ops,
             C!EnterAdd(o) \/ C!LeaveRecheck(o) \/ C!LeaveLock(o) \/ C!LeaveBroadcast(o)
      PROVE  UNCHANGED <<Inside, Phase>>
  BY <1>3 DEF C!EnterAdd, C!LeaveRecheck, C!LeaveLock, C!LeaveBroadcast, Inside, Phase, C!TypeOK
<1>4. ASSUME NEW c \in Closers, C!Close(c) PROVE Abstract!Next \/ UNCHANGED <<Inside, Phase>>
  <2>1. Inside' = Inside
    BY <1>4 DEF C!Close, Inside
  <2>2. (\E d \in Closers : cpc'[d] = "done") <=> (\E d \in Closers : cpc[d] = "done")
    BY <1>4 DEF C!Close, C!TypeOK
  <2>3. CASE closing
    BY <1>4, <2>1, <2>2, <2>3 DEF C!Close, Phase
  <2>4. CASE ~closing
    <3>1. Phase = "open" /\ Phase' = "closing"
      BY <1>4, <2>2, <2>4 DEF C!Close, Phase, CDraining
    <3> QED
      BY <2>1, <3>1 DEF Abstract!Next, Abstract!StartClose
  <2> QED
    BY <2>3, <2>4
<1>5. ASSUME NEW c \in Closers, C!DrainTest(c) PROVE Abstract!Next \/ UNCHANGED <<Inside, Phase>>
  <2>1. Inside' = Inside
    BY <1>5 DEF C!DrainTest, Inside
  <2>2. CASE active = 0
    <3>1. Inside = {}
      BY <2>2, CCountFacts DEF Inside, CCounted
    <3>2. Phase = "closing" /\ Phase' = "unmapped"
      BY <1>5, <2>2 DEF C!DrainTest, Phase, CDraining, C!TypeOK
    <3> QED
      BY <2>1, <3>1, <3>2 DEF Abstract!Next, Abstract!Unmap
  <2>3. CASE active # 0
    BY <1>5, <2>1, <2>3 DEF C!DrainTest, Phase, C!TypeOK
  <2> QED
    BY <2>2, <2>3
<1>6. ASSUME NEW c \in Closers, C!DrainLock(c) \/ C!SpuriousWake(c)
      PROVE  UNCHANGED <<Inside, Phase>>
  BY <1>6 DEF C!DrainLock, C!SpuriousWake, Inside, Phase, C!TypeOK
<1> QED
  BY <1>1, <1>2, <1>3, <1>4, <1>5, <1>6 DEF C!Next, C!OpNext
-----------------------------------------------------------------------------
(* The three gates side by side. *)

\* The invariant of the gate that is linked, and the states of the operations of Go.
GatesInv ==
  /\ impl \in {"cpp", "c", "go"}
  /\ impl = "cpp" => IInv
  /\ impl = "c" => CInv
  /\ NoUseAfterUnmap
  /\ gopc \in [Ops -> Go!OpPc]

\* Whichever gate is linked keeps its invariant.
LEMMA GatesStep == GatesInv /\ [MCNext]_mcVars => GatesInv'
<1> SUFFICES ASSUME GatesInv, [MCNext]_mcVars PROVE GatesInv'
  OBVIOUS
<1> USE DEF GatesInv
<1>1. CASE CppOnly /\ Next
  BY <1>1, StepInv DEF CppOnly, goVars, IInv
<1>2. CASE COnly /\ C!Next
  BY <1>2, CStep DEF COnly, goVars, CInv
<1>3. CASE GoOnly /\ Go!Next
  <2>1. impl' = "go" /\ NoUseAfterUnmap'
    BY <1>3 DEF GoOnly, vars, NoUseAfterUnmap, Inside
  <2>2. gopc' \in [Ops -> Go!OpPc]
    BY <1>3 DEF Go!Next, Go!OpNext, Go!EnterAdd, Go!EnterCheck, Go!LeaveSub, Go!LeaveRecheck,
       Go!LeavePost, Go!Close, Go!CloseLoad, Go!CloseRecv, Go!OpPc
  <2> QED
    BY <2>1, <2>2
<1>4. CASE UNCHANGED mcVars
  <2>1. UNCHANGED vars /\ UNCHANGED <<impl, mu, gopc>>
    BY <1>4 DEF mcVars, goVars
  <2>2. impl = "cpp" => IInv'
    BY <2>1, StepInv
  <2>3. impl = "c" => CInv'
    BY <2>1 DEF CInv, C!TypeOK, CCounted, vars, NoUseAfterUnmap, Inside
  <2> QED
    BY <2>1, <2>2, <2>3 DEF vars, NoUseAfterUnmap, Inside
<1> QED
  BY <1>1, <1>2, <1>3, <1>4 DEF MCNext

\* The invariant of the gate that is linked holds in every state.
THEOREM GatesInvariance == FairSpec => []GatesInv
<1>1. MCInit => GatesInv
  BY InitInv, CInit DEF MCInit, GatesInv, IInv, CInv, Go!Init, Go!OpPc
<1> QED
  BY <1>1, GatesStep, PTL DEF FairSpec

\* NoUseAfterUnmap holds of the C++ gate and of the C gate for any number of threads:
\* no drain ends with an operation inside that enter let in.
THEOREM GatesSafety == FairSpec => []NoUseAfterUnmap
<1>1. GatesInv => NoUseAfterUnmap
  BY DEF GatesInv
<1> QED
  BY <1>1, GatesInvariance, PTL

\* RefinesGate: the C++ gate and the C gate implement the abstract one, though one
\* keeps the flag and the count in one word and the other in two.
THEOREM GatesRefine == FairSpec => RefinesGate
<1>1. MCInit => Abstract!Init
  BY DEF MCInit, Init, Abstract!Init, Inside, Phase
<1>2. GatesInv /\ [MCNext]_mcVars => [Abstract!Next]_(Abstract!gateSpecVars)
  <2> SUFFICES ASSUME GatesInv, [MCNext]_mcVars PROVE [Abstract!Next]_(Abstract!gateSpecVars)
    OBVIOUS
  <2>1. CASE CppOnly /\ Next
    BY <2>1, CppRefines DEF GatesInv, CppOnly
  <2>2. CASE COnly /\ C!Next
    BY <2>2, CRefines DEF GatesInv, COnly, Abstract!gateSpecVars
  <2>3. CASE UNCHANGED vars
    BY <2>3 DEF vars, Inside, Phase, Abstract!gateSpecVars
  <2> QED
    BY <2>1, <2>2, <2>3 DEF MCNext, GoOnly, mcVars
<1> QED
  BY <1>1, <1>2, GatesInvariance, PTL DEF FairSpec, RefinesGate, Abstract!Spec

\* NoEntryAfterClose: an operation of the Go gate reads the flag after it counted
\* itself, so that none gets in once Close has set it.
THEOREM GoEntry == FairSpec => NoEntryAfterClose
<1>1. GatesInv /\ [MCNext]_mcVars => [gclosing => Go!Inside' \subseteq Go!Inside]_mcVars
  <2> SUFFICES ASSUME GatesInv, MCNext, gclosing PROVE Go!Inside' \subseteq Go!Inside
    OBVIOUS
  <2>1. CASE GoOnly /\ Go!Next
    BY <2>1 DEF GatesInv, Go!Inside, Go!Next, Go!OpNext, Go!EnterAdd, Go!EnterCheck,
       Go!LeaveSub, Go!LeaveRecheck, Go!LeavePost, Go!Close, Go!CloseLoad, Go!CloseRecv
  <2>2. CASE UNCHANGED goVars
    BY <2>2 DEF goVars, Go!Inside
  <2> QED
    BY <2>1, <2>2 DEF MCNext, CppOnly, COnly
<1> QED
  BY <1>1, GatesInvariance, PTL DEF FairSpec, NoEntryAfterClose
=============================================================================
