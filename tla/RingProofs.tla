----------------------------- MODULE RingProofs -----------------------------
(***************************************************************************)
(* Proofs about Ring for every capacity, number of slots and producers,    *)
(* set of lengths and number of deaths.                                    *)
(*                                                                         *)
(* CursorOrder is not inductive: a producer compares with a head it cached *)
(* and swaps a tail it loaded long before.  IInv adds what it knew then    *)
(* (ClaimRoom: the room it found is still there, because head only grows   *)
(* and the swap fails if tail moved), what the reader knows in a Read      *)
(* (ReadInside) and that cursors are multiples of a word (Aligned).        *)
(***************************************************************************)
EXTENDS Ring, SequenceTheorems, TLAPS

\* Rounding up to a word yields a natural that is no smaller.
LEMMA AlignFacts ==
  ASSUME NEW n \in Nat
  PROVE  Align(n) \in Nat /\ Align(n) >= n
  BY DEF Align

\* A cursor masks to an index of the data region, and some of it is left.
LEMMA ToEndFacts ==
  ASSUME NEW c \in Nat
  PROVE  Index(c) \in 0..Capacity - 1 /\ ToEnd(c) \in 1..Capacity
  BY ConstantsOK DEF Index, ToEnd

\* An aligned cursor is the address of a word: the capacity is aligned too.
LEMMA IndexAligned ==
  ASSUME NEW c \in Nat, c % 8 = 0
  PROVE  Index(c) \in Addr /\ ToEnd(c) % 8 = 0
<1>1. Capacity \in Nat \ {0} /\ Capacity % 8 = 0
  BY ConstantsOK
<1>2. PICK k \in Nat : Capacity = 8 * k
  BY <1>1
<1>3. PICK m \in Nat : c = 8 * m
  OBVIOUS
<1> DEFINE q == c \div Capacity
<1>4. q \in Nat /\ Index(c) \in 0..Capacity - 1
  <2>1. q \in Nat
    BY <1>1
  <2> QED
    BY <2>1, ToEndFacts
<1>5. c = Capacity * q + Index(c)
  BY <1>1 DEF Index
<1>6. Index(c) % 8 = 0
  <2> DEFINE j == m - k * q
  <2>1. Index(c) \in Nat
    BY <1>1, <1>4
  <2>2. 8 * m = (8 * k) * q + Index(c)
    BY <1>2, <1>3, <1>5
  <2>3. j \in Int /\ Index(c) = 8 * j
    <3>1. k * q \in Int
      BY <1>2, <1>4
    <3> HIDE DEF q
    <3> QED
      BY <1>2, <1>3, <1>4, <2>1, <2>2, <3>1
  <2> HIDE DEF j
  <2> QED
    BY <2>3
<1>7. ToEnd(c) % 8 = 0
  BY <1>1, <1>4, <1>6 DEF ToEnd
<1> QED
  BY <1>4, <1>6, <1>7 DEF Addr

\* The size of a record and the space its claim takes are naturals.
LEMMA NeedFacts ==
  ASSUME NEW t \in Nat, NEW n \in Nat
  PROVE  Need(t, n) \in Nat /\ RecordLen(n) \in Nat /\ Wraps(t, n) \in BOOLEAN
<1>1. RecordLen(n) \in Nat
  BY DEF RecordLen, RecordHeaderSize
<1>2. Align(RecordLen(n)) \in Nat
  BY <1>1, AlignFacts
<1>3. ToEnd(t) \in Nat
  BY ToEndFacts
<1> QED
  BY <1>1, <1>2, <1>3 DEF Need, Wraps

\* What a group of variables keeps when a step leaves it alone.
LEMMA Frames ==
  /\ SegmentType /\ UNCHANGED <<cursorVars, mem>> => SegmentType'
  /\ SlotType /\ UNCHANGED slotVars => SlotType'
  /\ ReaderType /\ UNCHANGED <<rpc, rd, stl, corrupt>> => ReaderType'
  /\ HistoryType /\ UNCHANGED <<log, delivered>> => HistoryType'
  BY DEF SegmentType, SlotType, ReaderType, HistoryType, cursorVars, slotVars

ProducerType == pc \in [Producers -> ProducerPc] /\ me \in [Producers -> ProducerLocals]

\* A step of p, of any kind.
StepOf(p) == ProducerStep(p) \/ DropIntent(p) \/ Crash(p) \/ \E n \in Lengths : Begin(p, n)

\* What a step of a producer leaves alone, and which step changes the rest.
LEMMA ProducerFrame ==
  ASSUME NEW p \in Producers, StepOf(p)
  PROVE  /\ UNCHANGED <<readerVars, head>>
         /\ UNCHANGED <<tail, log>> \/ (SwapTail(p) /\ tail = me[p].tail)
            \/ (UNCHANGED tail /\ (Commit(p) \/ AbortLength(p)))
         /\ UNCHANGED headCache \/ StoreCache(p)
         /\ dead' = dead \/ dead' = dead \cup {p}
<1> USE DEF cursorVars
<1>1. CASE \E n \in Lengths : Begin(p, n)
  BY <1>1 DEF Begin
<1>2. CASE AcquireFree(p) \/ AcquireTaken(p) \/ AcquireHead(p) \/ AcquireOwner(p)
           \/ AcquireIntent(p) \/ AcquireSteal(p) \/ DropIntent(p) \/ DropOwner(p)
  BY <1>2 DEF AcquireFree, AcquireTaken, AcquireHead, AcquireOwner, AcquireIntent,
     AcquireSteal, DropIntent, DropOwner
<1>3. CASE LoadTail(p) \/ LoadCache(p) \/ LoadHead(p) \/ StoreSize(p) \/ StoreAt(p)
  BY <1>3 DEF LoadTail, LoadCache, LoadHead, StoreSize, StoreAt
<1>4. CASE StoreCache(p)
  BY <1>4 DEF StoreCache
<1>5. CASE SwapTail(p)
  BY <1>5 DEF SwapTail
<1>6. CASE ReleaseFull(p) \/ Release(p) \/ Fill(p) \/ Crash(p)
  BY <1>6 DEF ReleaseFull, Release, EndWith, Fill, Crash
<1>7. CASE PadType(p) \/ ClaimType(p) \/ AbortType(p) \/ PadLength(p) \/ ClaimLength(p)
  BY <1>7 DEF PadType, ClaimType, AbortType, PadLength, ClaimLength, StoreType, StoreLength
<1>8. CASE Commit(p) \/ AbortLength(p)
  BY <1>8 DEF Commit, AbortLength, StoreLength
<1> QED
  BY <1>1, <1>2, <1>3, <1>4, <1>5, <1>6, <1>7, <1>8 DEF StepOf, ProducerStep

\* The history of the claims after a step of a producer.
LEMMA HistoryTypes ==
  ASSUME NEW p \in Producers, TypeOK,
         StepOf(p)
  PROVE  HistoryType'
<1>0. /\ log \in Seq(Claim)
      /\ delivered \in Seq([typ : Int, words : SUBSET Word])
      /\ me[p].tail \in Nat /\ me[p].len \in Nat /\ tail \in Nat
  BY DEF TypeOK, HistoryType, SegmentType, ProducerLocals
<1>1. UNCHANGED delivered
  BY ProducerFrame DEF readerVars
<1>2. CASE SwapTail(p) /\ tail = me[p].tail
  <2>1. MyNeed(p) \in Nat
    BY <1>0, NeedFacts DEF MyNeed
  <2>2. [by |-> p, at |-> tail, end |-> tail', is |-> "open"] \in Claim
    BY <1>0, <1>2, <2>1 DEF SwapTail, Claim
  <2>3. log' = Append(log, [by |-> p, at |-> tail, end |-> tail', is |-> "open"])
    BY <1>2 DEF SwapTail
  <2>4. log' \in Seq(Claim)
    BY <1>0, <2>2, <2>3, AppendProperties
  <2> QED
    BY <1>0, <1>1, <2>4 DEF HistoryType
<1>3. ASSUME NEW o \in {"committed", "aborted"}, log' = [log EXCEPT ![me[p].msg].is = o]
      PROVE  log' \in Seq(Claim)
  <2>1. CASE me[p].msg \in DOMAIN log
    <3>1. log[me[p].msg] \in Claim
      BY <1>0, <2>1
    <3>2. [log[me[p].msg] EXCEPT !.is = o] \in Claim
      BY <3>1 DEF Claim
    <3>3. [log EXCEPT ![me[p].msg] = [log[me[p].msg] EXCEPT !.is = o]] \in Seq(Claim)
      BY <1>0, <2>1, <3>2, ExceptSeq
    <3> QED
      BY <1>3, <3>3
  <2>2. CASE me[p].msg \notin DOMAIN log
    <3>1. log' = log
      BY <1>0, <1>3, <2>2
    <3> QED
      BY <1>0, <3>1
  <2> QED
    BY <2>1, <2>2
<1>4. CASE Commit(p) \/ AbortLength(p)
  BY <1>1, <1>0, <1>3, <1>4 DEF Commit, AbortLength, HistoryType
<1>5. CASE UNCHANGED log
  BY <1>0, <1>1, <1>5 DEF HistoryType
<1> QED
  BY <1>2, <1>4, <1>5, ProducerFrame

\* A store to one local of a producer.
LEMMA SetLocal ==
  ASSUME me \in [Producers -> ProducerLocals], NEW p \in Producers
  PROVE  /\ \A v \in Nat : [me EXCEPT ![p].len = v] \in [Producers -> ProducerLocals]
         /\ \A v \in Nat : [me EXCEPT ![p].tail = v] \in [Producers -> ProducerLocals]
         /\ \A v \in Nat : [me EXCEPT ![p].head = v] \in [Producers -> ProducerLocals]
         /\ \A v \in Nat : [me EXCEPT ![p].msg = v] \in [Producers -> ProducerLocals]
         /\ \A v \in 0..NSlots : [me EXCEPT ![p].slot = v] \in [Producers -> ProducerLocals]
         /\ \A v \in Slots : [me EXCEPT ![p].scan = v] \in [Producers -> ProducerLocals]
         /\ \A v \in Producers \cup {NoProc} :
              [me EXCEPT ![p].own = v] \in [Producers -> ProducerLocals]
         /\ \A v \in 0..NSlots : [me EXCEPT ![p] = Unused(v)] \in [Producers -> ProducerLocals]
<1>1. 1 \in Slots
  BY ConstantsOK DEF Slots
<1> QED
  BY <1>1 DEF ProducerLocals, Unused

\* The locals of a producer after a step.
LEMMA ProducerTypes ==
  ASSUME NEW p \in Producers, TypeOK,
         StepOf(p)
  PROVE  ProducerType'
<1> USE DEF ProducerType, Goto
<1>0. ProducerType
  BY DEF TypeOK
<1>a. /\ \A l \in ProducerPc : [pc EXCEPT ![p] = l] \in [Producers -> ProducerPc]
      /\ Claiming \subseteq ProducerPc
      /\ {"idle", "drop", "padtype", "padlen", "type", "len", "open", "commit", "abort",
          "release"} \subseteq ProducerPc
  BY <1>0 DEF ProducerPc
<1>b. /\ me[p].slot \in 0..NSlots /\ me[p].scan \in Slots /\ Slots = 1..NSlots
      /\ me[p].tail \in Nat /\ me[p].len \in Nat
      /\ NSlots \in Nat /\ Lengths \subseteq Nat
  BY <1>0, ConstantsOK DEF ProducerLocals, Slots
<1>1. ASSUME NEW n \in Lengths, Begin(p, n) PROVE ProducerType'
  BY <1>0, <1>a, <1>b, <1>1, SetLocal DEF Begin, Claiming
<1>c. ASSUME NEW v \in Slots, me' = [me EXCEPT ![p].scan = v]
      PROVE  me' \in [Producers -> ProducerLocals]
  BY <1>0, <1>c, SetLocal
<1>d. me[p].scan # NSlots => me[p].scan + 1 \in Slots
  BY <1>b
<1>2. CASE AcquireFree(p)
  <2>1. CASE owner[me[p].scan] = NoProc
    BY <1>0, <1>a, <1>2, <2>1 DEF AcquireFree, Claiming
  <2>2. CASE owner[me[p].scan] # NoProc
    <3>1. pc' \in [Producers -> ProducerPc]
      BY <1>a, <1>2, <2>2 DEF AcquireFree, Claiming
    <3>2. (IF me[p].scan = NSlots THEN 1 ELSE me[p].scan + 1) \in Slots
      BY <1>b
    <3> QED
      BY <1>c, <1>2, <2>2, <3>1, <3>2 DEF AcquireFree
  <2> QED
    BY <2>1, <2>2
<1>3. CASE AcquireTaken(p)
  BY <1>0, <1>a, <1>b, <1>3, SetLocal DEF AcquireTaken, Claiming
<1>4. CASE AcquireHead(p)
  BY <1>0, <1>a, <1>b, <1>4, SetLocal DEF AcquireHead, Claiming, TypeOK, SegmentType
<1>5. ASSUME NextSlot(p) PROVE ProducerType'
  <2>1. CASE me[p].scan = NSlots
    BY <1>0, <1>a, <1>b, <1>5, <2>1, SetLocal DEF NextSlot, Claiming
  <2>2. CASE me[p].scan # NSlots
    BY <1>a, <1>c, <1>d, <1>5, <2>2 DEF NextSlot, Claiming
  <2> QED
    BY <2>1, <2>2
<1>6. CASE AcquireOwner(p)
  <2>1. owner[me[p].scan] \in Producers \cup {NoProc}
    BY <1>b DEF TypeOK, SlotType
  <2> QED
    BY <1>0, <1>a, <1>5, <1>6, <2>1, SetLocal DEF AcquireOwner, Claiming
<1>7. CASE AcquireIntent(p)
  BY <1>0, <1>a, <1>5, <1>7 DEF AcquireIntent, Claiming
<1>8. CASE AcquireSteal(p)
  BY <1>0, <1>a, <1>5, <1>8 DEF AcquireSteal, Steal, Claiming
<1>9. CASE DropIntent(p)
  BY <1>0, <1>a, <1>9 DEF DropIntent
<1>10. CASE DropOwner(p)
  BY <1>0, <1>a, <1>b, <1>10, SetLocal DEF DropOwner
<1>11. CASE LoadTail(p)
  BY <1>0, <1>a, <1>11, SetLocal DEF LoadTail, Claiming, TypeOK, SegmentType
<1>12. CASE LoadCache(p)
  BY <1>0, <1>a, <1>12 DEF LoadCache, Claiming
<1>13. CASE LoadHead(p)
  BY <1>0, <1>a, <1>13, SetLocal DEF LoadHead, Claiming, TypeOK, SegmentType
<1>14. CASE StoreCache(p) \/ StoreSize(p) \/ StoreAt(p)
  BY <1>0, <1>a, <1>14 DEF StoreCache, StoreSize, StoreAt, Claiming
<1>15. CASE ReleaseFull(p) \/ Release(p)
  BY <1>0, <1>a, <1>b, <1>15, SetLocal DEF ReleaseFull, Release, EndWith
<1>16. CASE SwapTail(p)
  <2>1. CASE tail # me[p].tail
    BY <1>0, <1>a, <1>16, <2>1 DEF SwapTail, Claiming
  <2>2. CASE tail = me[p].tail
    <3>1. log' \in Seq(Claim)
      BY HistoryTypes, <1>16 DEF HistoryType
    <3>2. Len(log') \in Nat
      BY <3>1
    <3>3. \A v \in Nat : me' = [me EXCEPT ![p].msg = v] => me' \in [Producers -> ProducerLocals]
      BY <1>0, SetLocal
    <3>4. me' = [me EXCEPT ![p].msg = Len(log')]
      BY <1>16, <2>2 DEF SwapTail
    <3>5. pc' \in [Producers -> ProducerPc]
      BY <1>a, <1>16, <2>2 DEF SwapTail
    <3> QED
      BY <3>2, <3>3, <3>4, <3>5
  <2> QED
    BY <2>1, <2>2
<1>17. CASE PadType(p) \/ ClaimType(p) \/ AbortType(p)
  BY <1>0, <1>a, <1>17 DEF PadType, ClaimType, AbortType, StoreType
<1>18. CASE PadLength(p) \/ ClaimLength(p) \/ Commit(p) \/ AbortLength(p)
  BY <1>0, <1>a, <1>18 DEF PadLength, ClaimLength, Commit, AbortLength, StoreLength
<1>19. CASE Fill(p)
  BY <1>0, <1>a, <1>19 DEF Fill
<1>20. CASE Crash(p)
  BY <1>0, <1>20 DEF Crash
<1> QED
  BY <1>1, <1>2, <1>3, <1>4, <1>6, <1>7, <1>8, <1>9, <1>10, <1>11, <1>12, <1>13, <1>14,
     <1>15, <1>16, <1>17, <1>18, <1>19, <1>20 DEF StepOf, ProducerStep

\* A store to a word of the data region, or to an entry of a slot.
LEMMA SetShared ==
  ASSUME SegmentType, SlotType
  PROVE  /\ \A a, v \in Int : mem' = [mem EXCEPT ![a].typ = v] => mem' \in [Addr -> Word]
         /\ \A a, v \in Int : mem' = [mem EXCEPT ![a].len = v] => mem' \in [Addr -> Word]
         /\ \A i \in 0..NSlots, v \in Nat \cup {NoIntent} :
              at' = [at EXCEPT ![i] = v] => at' \in [Slots -> Nat \cup {NoIntent}]
         /\ \A i \in 0..NSlots, v \in Nat :
              size' = [size EXCEPT ![i] = v] => size' \in [Slots -> Nat]
         /\ \A i \in 0..NSlots, o \in Producers \cup {NoProc} :
              owner' = [owner EXCEPT ![i] = o] => owner' \in [Slots -> Producers \cup {NoProc}]
  BY DEF SegmentType, SlotType, Word

\* The data region, the cursors and the slots after a step of a producer.
LEMMA SegmentTypes ==
  ASSUME NEW p \in Producers, TypeOK, StepOf(p)
  PROVE  SegmentType' /\ SlotType'
<1>0. /\ SegmentType /\ SlotType
      /\ me[p].slot \in 0..NSlots /\ me[p].scan \in Slots /\ Slots = 1..NSlots
      /\ me[p].scan \in 0..NSlots
      /\ me[p].tail \in Nat /\ me[p].len \in Nat /\ me[p].msg \in Nat
      /\ me[p].head \in Nat /\ NSlots \in Nat /\ NoIntent \in Int
  BY ConstantsOK DEF TypeOK, ProducerLocals, Slots, NoIntent
<1>1. /\ MyNeed(p) \in Nat /\ RecordLen(me[p].len) \in Nat
      /\ Index(me[p].tail) \in Int /\ ToEnd(me[p].tail) \in Int /\ RecordIndex(p) \in Int
  <2>1. /\ MyNeed(p) \in Nat /\ RecordLen(me[p].len) \in Nat
        /\ Wraps(me[p].tail, me[p].len) \in BOOLEAN
    BY <1>0, NeedFacts DEF MyNeed
  <2>2. Index(me[p].tail) \in Int /\ ToEnd(me[p].tail) \in Int
    <3>1. Capacity \in Nat
      BY ConstantsOK
    <3>2. Index(me[p].tail) \in 0..Capacity - 1 /\ ToEnd(me[p].tail) \in 1..Capacity
      BY <1>0, ToEndFacts
    <3> QED
      BY <3>1, <3>2
  <2> QED
    BY <2>1, <2>2 DEF RecordIndex
<1> USE DEF cursorVars, slotVars
<1>2. CASE AcquireFree(p)
  <2>1. UNCHANGED <<cursorVars, mem, at, size>>
    BY <1>2 DEF AcquireFree
  <2>2. UNCHANGED owner \/ owner' = [owner EXCEPT ![me[p].scan] = p]
    BY <1>2 DEF AcquireFree
  <2> QED
    BY <1>0, <2>1, <2>2, SetShared, Frames DEF SlotType
<1>3. CASE AcquireTaken(p)
  BY <1>0, <1>3, SetShared, Frames DEF AcquireTaken, SlotType
<1>4. CASE AcquireSteal(p)
  <2>1. UNCHANGED <<cursorVars, mem, at, size>>
    BY <1>4 DEF AcquireSteal
  <2>2. UNCHANGED owner \/ owner' = [owner EXCEPT ![me[p].scan] = p]
    BY <1>4 DEF AcquireSteal, Steal
  <2> QED
    BY <1>0, <2>1, <2>2, SetShared, Frames DEF SlotType
<1>5. CASE DropIntent(p) \/ ReleaseFull(p) \/ Release(p)
  BY <1>0, <1>5, SetShared, Frames DEF DropIntent, ReleaseFull, Release, EndWith, Forget, SlotType
<1>6. CASE DropOwner(p)
  <2>1. UNCHANGED <<cursorVars, mem, at, size>>
    BY <1>6 DEF DropOwner
  <2>2. \E o \in Producers \cup {NoProc} : owner' = [owner EXCEPT ![me[p].slot] = o]
    <3>1. CASE owner[me[p].slot] = p
      BY <1>6, <3>1 DEF DropOwner
    <3>2. CASE owner[me[p].slot] # p
      <4>1. owner' = [owner EXCEPT ![me[p].slot] = owner[me[p].slot]]
        BY <1>6, <3>2 DEF DropOwner
      <4>2. CASE me[p].slot \in Slots
        BY <1>0, <4>1, <4>2 DEF SlotType
      <4>3. CASE me[p].slot \notin Slots
        <5>1. owner' = [owner EXCEPT ![me[p].slot] = NoProc]
          BY <1>0, <4>1, <4>3 DEF SlotType
        <5> QED
          BY <5>1
      <4> QED
        BY <4>2, <4>3
    <3> QED
      BY <3>1, <3>2
  <2> QED
    BY <1>0, <2>1, <2>2, SetShared, Frames DEF SlotType
<1>7. CASE StoreSize(p) \/ StoreAt(p)
  BY <1>0, <1>1, <1>7, SetShared, Frames DEF StoreSize, StoreAt, SlotType
<1>8. CASE StoreCache(p)
  BY <1>0, <1>8, Frames DEF StoreCache, SegmentType
<1>9. CASE SwapTail(p)
  BY <1>0, <1>1, <1>9, Frames DEF SwapTail, SegmentType
<1>10. ASSUME NEW l, NEW a \in Int, NEW v \in Int, NEW n,
              StoreType(p, l, a, v, n) \/ StoreLength(p, l, a, v, n)
       PROVE  SegmentType' /\ SlotType'
  <2>1. UNCHANGED <<cursorVars, slotVars>>
    BY <1>10 DEF StoreType, StoreLength
  <2>2. mem' = [mem EXCEPT ![a].typ = v] \/ mem' = [mem EXCEPT ![a].len = v]
    BY <1>10 DEF StoreType, StoreLength
  <2>3. mem' \in [Addr -> Word]
    BY <1>0, <1>10, <2>2, SetShared
  <2> QED
    BY <1>0, <2>1, <2>3, Frames DEF SegmentType
<1>11. CASE PadType(p) \/ ClaimType(p) \/ AbortType(p)
  BY <1>0, <1>1, <1>10, <1>11 DEF PadType, ClaimType, AbortType, TypePadding
<1>12. CASE PadLength(p) \/ ClaimLength(p) \/ Commit(p) \/ AbortLength(p)
  BY <1>0, <1>1, <1>10, <1>12 DEF PadLength, ClaimLength, Commit, AbortLength
<1>13. CASE Fill(p)
  BY <1>0, <1>13, Frames DEF Fill, SegmentType, PayloadWord, Word
<1>14. CASE UNCHANGED <<cursorVars, mem, slotVars>>
  BY <1>0, <1>14, Frames
<1> QED
  BY <1>2, <1>3, <1>4, <1>5, <1>6, <1>7, <1>8, <1>9, <1>11, <1>12, <1>13, <1>14
     DEF StepOf, ProducerStep, Begin, AcquireHead, AcquireOwner, AcquireIntent, LoadTail,
         LoadCache, LoadHead, Crash
\* A step of p moves no other producer, and only three loads and stores of
\* tryClaim leave p on its way to the swap.
LEMMA OthersFrame ==
  ASSUME NEW p \in Producers, NEW q \in Producers, q # p, StepOf(p), ProducerType
  PROVE  pc'[q] = pc[q] /\ me'[q] = me[q]
<1> USE DEF ProducerType, Goto
<1>1. CASE \E n \in Lengths : Begin(p, n)
  BY <1>1 DEF Begin
<1>2. CASE AcquireFree(p) \/ AcquireTaken(p) \/ AcquireHead(p) \/ AcquireOwner(p)
           \/ AcquireIntent(p) \/ AcquireSteal(p) \/ DropIntent(p) \/ DropOwner(p)
  BY <1>2 DEF AcquireFree, AcquireTaken, AcquireHead, AcquireOwner, AcquireIntent,
     AcquireSteal, NextSlot, Steal, DropIntent, DropOwner
<1>3. CASE LoadTail(p) \/ LoadCache(p) \/ LoadHead(p) \/ StoreSize(p) \/ StoreAt(p)
  BY <1>3 DEF LoadTail, LoadCache, LoadHead, StoreSize, StoreAt
<1>4. CASE StoreCache(p)
  BY <1>4 DEF StoreCache
<1>5. CASE SwapTail(p)
  BY <1>5 DEF SwapTail
<1>6. CASE ReleaseFull(p) \/ Release(p) \/ Fill(p) \/ Crash(p)
  BY <1>6 DEF ReleaseFull, Release, EndWith, Fill, Crash
<1>7. CASE PadType(p) \/ ClaimType(p) \/ AbortType(p) \/ PadLength(p) \/ ClaimLength(p)
  BY <1>7 DEF PadType, ClaimType, AbortType, PadLength, ClaimLength, StoreType, StoreLength
<1>8. CASE Commit(p) \/ AbortLength(p)
  BY <1>8 DEF Commit, AbortLength, StoreLength
<1> QED
  BY <1>1, <1>2, <1>3, <1>4, <1>5, <1>6, <1>7, <1>8 DEF StepOf, ProducerStep

\* The tail a producer holds is one that it loaded, or the reset of its locals.
LEMMA OwnTail ==
  ASSUME NEW p \in Producers, StepOf(p), ProducerType
  PROVE  me'[p].tail \in {me[p].tail, tail, 0}
<1> USE DEF ProducerType, ProducerLocals
<1>1. CASE \E n \in Lengths : Begin(p, n)
  BY <1>1 DEF Begin
<1>2. CASE AcquireFree(p) \/ AcquireTaken(p) \/ AcquireHead(p)
  BY <1>2 DEF AcquireFree, AcquireTaken, AcquireHead
<1>3. CASE NextSlot(p) \/ DropIntent(p) \/ DropOwner(p)
  BY <1>3 DEF NextSlot, DropIntent, DropOwner, Unused
<1>4. CASE AcquireOwner(p) \/ AcquireIntent(p) \/ AcquireSteal(p)
  BY <1>3, <1>4 DEF AcquireOwner, AcquireIntent, AcquireSteal, Steal
<1>5. CASE LoadTail(p) \/ LoadCache(p) \/ LoadHead(p)
  BY <1>5 DEF LoadTail, LoadCache, LoadHead
<1>6. CASE StoreCache(p) \/ StoreSize(p) \/ StoreAt(p) \/ SwapTail(p)
  BY <1>6 DEF StoreCache, StoreSize, StoreAt, SwapTail
<1>7. CASE ReleaseFull(p) \/ Release(p) \/ Fill(p) \/ Crash(p)
  BY <1>7 DEF ReleaseFull, Release, EndWith, Fill, Crash, Unused
<1>8. CASE PadType(p) \/ ClaimType(p) \/ AbortType(p) \/ PadLength(p) \/ ClaimLength(p)
  BY <1>8 DEF PadType, ClaimType, AbortType, PadLength, ClaimLength, StoreType, StoreLength
<1>9. CASE Commit(p) \/ AbortLength(p)
  BY <1>9 DEF Commit, AbortLength, StoreLength
<1> QED
  BY <1>1, <1>2, <1>3, <1>4, <1>5, <1>6, <1>7, <1>8, <1>9 DEF StepOf, ProducerStep

\* The steps of tryClaim on the way to the swap, one by one.
LEMMA OtherSteps ==
  ASSUME NEW p \in Producers, StepOf(p), ProducerType
  PROVE  \/ LoadCache(p) \/ LoadHead(p) \/ StoreCache(p) \/ StoreSize(p) \/ StoreAt(p)
         \/ Crash(p) \/ pc'[p] \notin {"store", "size", "at", "cas"}
<1> USE DEF ProducerType, Goto
<1>1. CASE \E n \in Lengths : Begin(p, n)
  BY <1>1 DEF Begin
<1>2. CASE AcquireFree(p) \/ AcquireTaken(p) \/ AcquireHead(p) \/ AcquireOwner(p)
           \/ AcquireIntent(p) \/ AcquireSteal(p) \/ DropIntent(p) \/ DropOwner(p)
  BY <1>2 DEF AcquireFree, AcquireTaken, AcquireHead, AcquireOwner, AcquireIntent,
     AcquireSteal, NextSlot, Steal, DropIntent, DropOwner
<1>3. CASE LoadTail(p) \/ SwapTail(p)
  BY <1>3 DEF LoadTail, SwapTail
<1>4. CASE ReleaseFull(p) \/ Release(p) \/ Fill(p)
  BY <1>4 DEF ReleaseFull, Release, EndWith, Fill
<1>5. CASE PadType(p) \/ ClaimType(p) \/ AbortType(p) \/ PadLength(p) \/ ClaimLength(p)
  BY <1>5 DEF PadType, ClaimType, AbortType, PadLength, ClaimLength, StoreType, StoreLength
<1>6. CASE Commit(p) \/ AbortLength(p)
  BY <1>6 DEF Commit, AbortLength, StoreLength
<1> QED
  BY <1>1, <1>2, <1>3, <1>4, <1>5, <1>6 DEF StepOf, ProducerStep
-----------------------------------------------------------------------------
(* The strengthening *)

\* The room a producer found is still there when it swaps the tail, because
\* head only grows; the head it is about to cache is not ahead of the real one.
ClaimRoom(p) ==
  /\ pc[p] = "store" => me[p].head <= head
  /\ pc[p] \in {"store", "size", "at", "cas"} => me[p].tail + MyNeed(p) <= head + Capacity

\* A Read works on the bytes between the head and a tail that it saw.
ReadInside ==
  /\ rpc \in ReadPc => rd.head = head /\ head + rd.avail <= tail /\ rd.cons <= rd.avail
  /\ rpc \in {"deliver", "clear", "zero"} =>
       rd.len \in Nat /\ rd.cons + Align(rd.len) <= rd.avail

\* Cursors count words, so every header they lead to is the start of one.
Aligned ==
  /\ tail % 8 = 0 /\ head % 8 = 0 /\ rd.cons % 8 = 0
  /\ \A p \in Producers : me[p].tail % 8 = 0

IInv ==
  /\ TypeOK
  /\ Aligned
  /\ CursorOrder
  /\ \A p \in Producers : ClaimRoom(p)
  /\ ReadInside

\* An idle ring satisfies the strengthening.
LEMMA InitInv == Init => IInv
<1> SUFFICES ASSUME Init PROVE IInv
  OBVIOUS
<1>1. Start \in Nat /\ Capacity \in Nat /\ NSlots \in Nat /\ 1 \in Slots
  BY ConstantsOK DEF Slots
<1>2. SegmentType /\ SlotType
  BY <1>1 DEF Init, InitWith, SegmentType, SlotType, Word, Zero
<1>3. ReaderType
  <2>1. NoRead \in ReadLocals
    BY DEF NoRead, ReadLocals
  <2>2. NoStall \in StallLocals
    BY <1>1 DEF NoStall, StallAt, StallLocals
  <2> QED
    BY <2>1, <2>2 DEF Init, InitWith, ReaderType
<1>4. HistoryType
  BY DEF Init, InitWith, HistoryType
<1>5. pc \in [Producers -> ProducerPc] /\ me \in [Producers -> ProducerLocals]
  BY <1>1 DEF Init, InitWith, ProducerPc, ProducerLocals, Unused
<1>6. TypeOK
  BY <1>2, <1>3, <1>4, <1>5 DEF Init, InitWith, TypeOK
<1>7. CursorOrder /\ ReadInside
  BY <1>1 DEF Init, InitWith, CursorOrder, ReadInside, ReadPc
<1>8. \A p \in Producers : ClaimRoom(p)
  BY DEF Init, InitWith, ClaimRoom
<1>9. Aligned
  BY ConstantsOK DEF Init, InitWith, Aligned, NoRead, Unused
<1> QED
  BY <1>6, <1>7, <1>8, <1>9 DEF IInv

\* A claim takes whole words.
LEMMA NeedAligned ==
  ASSUME NEW t \in Nat, t % 8 = 0, NEW n \in Nat
  PROVE  Need(t, n) % 8 = 0
<1>1. Align(RecordLen(n)) \in Nat /\ Align(RecordLen(n)) % 8 = 0
  BY DEF Align, RecordLen, RecordHeaderSize
<1>2. ToEnd(t) \in Nat /\ ToEnd(t) % 8 = 0
  BY IndexAligned, ToEndFacts
<1> QED
  BY <1>1, <1>2 DEF Need

\* Room for a claim at t stays room while head grows.
LEMMA RoomFacts ==
  ASSUME NEW t \in Nat, NEW h \in Nat, NEW n \in Nat, HasRoom(t, h, n), h <= head,
         head \in Nat
  PROVE  t + n <= head + Capacity
  BY ConstantsOK DEF HasRoom

\* A step of a producer, its death included, preserves the strengthening.
LEMMA ProducerInv ==
  ASSUME IInv, NEW p \in Producers, StepOf(p)
  PROVE  IInv'
<1>0. /\ TypeOK /\ CursorOrder /\ ReadInside /\ ClaimRoom(p)
      /\ \A q \in Producers : ClaimRoom(q)
      /\ Capacity \in Nat
  BY ConstantsOK DEF IInv
<1>1. /\ tail \in Nat /\ head \in Nat /\ headCache \in Nat
      /\ me[p].tail \in Nat /\ me[p].len \in Nat /\ me[p].head \in Nat
      /\ pc \in [Producers -> ProducerPc] /\ me \in [Producers -> ProducerLocals]
      /\ rd \in ReadLocals
  BY <1>0 DEF TypeOK, SegmentType, ProducerLocals, ReaderType
<1>2. MyNeed(p) \in Nat
  BY <1>1, NeedFacts DEF MyNeed
<1>3. TypeOK'
  <2>1. ReaderType'
    BY <1>0, ProducerFrame, Frames DEF readerVars, TypeOK
  <2>2. dead' \subseteq Producers
    BY <1>0, ProducerFrame DEF TypeOK
  <2> QED
    BY <1>0, <2>1, <2>2, ProducerTypes, SegmentTypes, HistoryTypes DEF TypeOK, ProducerType
<1>4. tail <= tail' /\ tail' <= head + Capacity /\ tail' \in Nat
  <2>1. CASE UNCHANGED tail
    BY <1>0, <1>1, <2>1 DEF CursorOrder
  <2>2. CASE SwapTail(p) /\ tail = me[p].tail
    BY <1>0, <1>1, <1>2, <2>2 DEF SwapTail, At, ClaimRoom
  <2> QED
    BY <2>1, <2>2, ProducerFrame
<1>5. CursorOrder'
  <2>1. headCache' <= head
    <3>1. CASE UNCHANGED headCache
      BY <1>0, <3>1 DEF CursorOrder
    <3>2. CASE StoreCache(p)
      BY <1>0, <3>2 DEF StoreCache, At, ClaimRoom
    <3> QED
      BY <3>1, <3>2, ProducerFrame
  <2> QED
    BY <1>0, <1>1, <1>4, <2>1, ProducerFrame DEF CursorOrder
<1>6. ReadInside'
  <2>1. UNCHANGED <<rpc, rd, head>>
    BY ProducerFrame DEF readerVars
  <2>2. rd.head \in Nat /\ rd.avail \in Nat /\ rd.cons \in Nat
    BY <1>1 DEF ReadLocals
  <2> QED
    BY <1>0, <1>1, <1>4, <2>1, <2>2 DEF ReadInside
<1>7. ASSUME NEW q \in Producers PROVE ClaimRoom(q)'
  <2>0. head' = head
    BY ProducerFrame
  <2>1. CASE q # p
    <3>1. pc'[q] = pc[q] /\ me'[q] = me[q]
      BY <1>1, <2>1, OthersFrame DEF ProducerType
    <3> QED
      BY <1>0, <2>0, <3>1 DEF ClaimRoom, MyNeed
  <2>2. CASE q = p
    <3>1. CASE LoadCache(p)
      <4>1. CASE HasRoom(me[p].tail, headCache, MyNeed(p))
        <5>1. me[p].tail + MyNeed(p) <= head + Capacity
          BY <1>0, <1>1, <1>2, <4>1, RoomFacts DEF CursorOrder
        <5> QED
          BY <1>1, <2>0, <2>2, <3>1, <4>1, <5>1 DEF LoadCache, Goto, ClaimRoom, MyNeed
      <4>2. CASE ~HasRoom(me[p].tail, headCache, MyNeed(p))
        BY <1>1, <2>2, <3>1, <4>2 DEF LoadCache, Goto, ClaimRoom
      <4> QED
        BY <4>1, <4>2
    <3>2. CASE LoadHead(p)
      <4>1. me'[p].tail = me[p].tail /\ me'[p].len = me[p].len /\ me'[p].head = head
        BY <1>1, <3>2 DEF LoadHead, ProducerLocals
      <4>2. CASE pc'[p] = "store"
        <5>1. HasRoom(me[p].tail, head, MyNeed(p))
          BY <1>1, <3>2, <4>2 DEF LoadHead, Goto
        <5>2. me[p].tail + MyNeed(p) <= head + Capacity
          BY <1>1, <1>2, <5>1, RoomFacts
        <5> QED
          BY <1>1, <2>0, <2>2, <4>1, <5>2 DEF ClaimRoom, MyNeed
      <4>3. CASE pc'[p] # "store"
        BY <1>1, <2>2, <3>2, <4>3 DEF LoadHead, Goto, ClaimRoom
      <4> QED
        BY <4>2, <4>3
    <3>3. CASE StoreCache(p) \/ StoreSize(p) \/ StoreAt(p)
      BY <1>0, <1>1, <2>0, <2>2, <3>3
         DEF StoreCache, StoreSize, StoreAt, At, Goto, ClaimRoom, MyNeed
    <3>4. CASE Crash(p)
      BY <1>0, <2>0, <2>2, <3>4 DEF Crash, ClaimRoom, MyNeed
    <3>5. CASE pc'[p] \notin {"store", "size", "at", "cas"}
      BY <2>2, <3>5 DEF ClaimRoom
    <3> QED
      BY <1>1, <3>1, <3>2, <3>3, <3>4, <3>5, OtherSteps DEF ProducerType
  <2> QED
    BY <2>1, <2>2
<1>8. Aligned'
  <2>0. Aligned
    BY DEF IInv
  <2>1. head' % 8 = 0 /\ rd'.cons % 8 = 0
    BY <2>0, ProducerFrame DEF Aligned, readerVars
  <2>2. tail' % 8 = 0
    <3>1. CASE UNCHANGED tail
      BY <2>0, <3>1 DEF Aligned
    <3>2. CASE SwapTail(p) /\ tail = me[p].tail
      <4>1. tail' = tail + MyNeed(p) /\ tail % 8 = 0
        BY <2>0, <3>2 DEF SwapTail, Aligned
      <4>2. MyNeed(p) % 8 = 0
        BY <1>1, <2>0, NeedAligned DEF Aligned, MyNeed
      <4> QED
        BY <1>1, <1>2, <4>1, <4>2
    <3> QED
      BY <3>1, <3>2, ProducerFrame
  <2>3. ASSUME NEW q \in Producers PROVE me'[q].tail % 8 = 0
    <3>1. CASE q # p
      BY <1>1, <2>0, <3>1, OthersFrame DEF Aligned, ProducerType
    <3>2. CASE q = p
      <4>1. me'[p].tail \in {me[p].tail, tail, 0}
        BY <1>1, OwnTail DEF ProducerType
      <4> QED
        BY <2>0, <3>2, <4>1 DEF Aligned
    <3> QED
      BY <3>1, <3>2
  <2> QED
    BY <2>1, <2>2, <2>3 DEF Aligned
<1> QED
  BY <1>3, <1>5, <1>6, <1>7, <1>8 DEF IInv
-----------------------------------------------------------------------------
(* The steps of the reader *)

\* A step of the reader, of any kind.
ReaderNext == ReaderStep \/ \E n \in Limits : Receive(n)

\* The reader changes no producer and no cursor but head, and no slot but the
\* intents that it clears.
LEMMA ReaderFrame ==
  ASSUME ReaderNext
  PROVE  /\ UNCHANGED <<tail, headCache, owner, size, pc, me, dead, log>>
         /\ UNCHANGED head \/ PublishHead
         /\ UNCHANGED at \/ ReclaimForget
  BY DEF ReaderNext, ReaderStep, cursorVars, slotVars, producerVars, Receive, ReadStart,
     ReadNext, Deliver, Clear, ZeroLength, PublishHead, Stalled, ScanAt, ScanSize,
     LookOwner, LookAt, LookSize, LookDead, ReclaimLength, ReclaimType, ReclaimForget

\* A store to one of the reader's locals.
LEMMA SetReader ==
  ASSUME rd \in ReadLocals, NEW s \in StallLocals
  PROVE  /\ \A v \in Int : rd' = [rd EXCEPT !.len = v] => rd' \in ReadLocals
         /\ \A v \in Nat : rd' = [rd EXCEPT !.count = v] => rd' \in ReadLocals
         /\ \A v \in Nat : rd' = [rd EXCEPT !.cons = v] => rd' \in ReadLocals
         /\ \A v \in Nat : [NoRead EXCEPT !.limit = v] \in ReadLocals
         /\ NoRead \in ReadLocals /\ NoStall \in StallLocals
         /\ \A a \in Nat, l \in Int : StallAt(a, l) \in StallLocals
         /\ \A v \in Slots : [s EXCEPT !.idx = v] \in StallLocals
         /\ \A v \in Int : [s EXCEPT !.from = v] \in StallLocals
         /\ \A v \in Producers \cup {NoProc} : [s EXCEPT !.own = v] \in StallLocals
         /\ \A v \in SUBSET Slots : [s EXCEPT !.slots = v] \in StallLocals
         /\ \A e \in Int, v \in SUBSET Slots :
              [s EXCEPT !.end = e, !.dead = v] \in StallLocals
<1>1. 1 \in Slots
  BY ConstantsOK DEF Slots
<1>2. /\ \A v \in Nat : [NoRead EXCEPT !.limit = v] \in ReadLocals
      /\ NoRead \in ReadLocals
  BY DEF NoRead, ReadLocals
<1>3. /\ NoStall \in StallLocals
      /\ \A a \in Nat, l \in Int : StallAt(a, l) \in StallLocals
  BY <1>1 DEF StallLocals, StallAt, NoStall
<1>4. /\ \A v \in Int : rd' = [rd EXCEPT !.len = v] => rd' \in ReadLocals
      /\ \A v \in Nat : rd' = [rd EXCEPT !.count = v] => rd' \in ReadLocals
      /\ \A v \in Nat : rd' = [rd EXCEPT !.cons = v] => rd' \in ReadLocals
  BY DEF ReadLocals
<1>5. /\ \A v \in Slots : [s EXCEPT !.idx = v] \in StallLocals
      /\ \A v \in Int : [s EXCEPT !.from = v] \in StallLocals
      /\ \A v \in Producers \cup {NoProc} : [s EXCEPT !.own = v] \in StallLocals
      /\ \A v \in SUBSET Slots : [s EXCEPT !.slots = v] \in StallLocals
  BY DEF StallLocals
<1>6. \A e \in Int, v \in SUBSET Slots : [s EXCEPT !.end = e, !.dead = v] \in StallLocals
  BY DEF StallLocals
<1> QED
  BY <1>2, <1>3, <1>4, <1>5, <1>6

\* Where the scan of the slots and the look at them lead.
LEMMA LookTypes ==
  ASSUME rd \in ReadLocals, NEW s \in StallLocals, (\E i \in Nat : LookNext(s, i)) \/ ScanNext(s) \/ ReturnEmpty
  PROVE  rpc' \in {"idle"} \cup StallPc /\ rd' \in ReadLocals /\ stl' \in StallLocals
<1> USE DEF StallPc
<1>1. CASE ReturnEmpty
  BY <1>1, SetReader DEF ReturnEmpty
<1>2. ASSUME NEW r \in StallLocals, NEW i \in Nat, LookNext(r, i)
      PROVE  rpc' \in {"idle"} \cup StallPc /\ rd' \in ReadLocals /\ stl' \in StallLocals
  <2>1. r.slots \subseteq Slots
    BY DEF StallLocals
  <2>2. \A v \in Slots : [r EXCEPT !.idx = v] \in StallLocals
    BY SetReader
  <2> QED
    BY <1>1, <1>2, <2>1, <2>2 DEF LookNext
<1>3. CASE ScanNext(s)
  <2>1. s.idx \in Slots /\ NSlots \in Nat /\ Slots = 1..NSlots
    BY ConstantsOK DEF StallLocals, Slots
  <2>2. \A v \in Slots : [s EXCEPT !.idx = v] \in StallLocals
    BY SetReader
  <2>3. CASE s.idx < NSlots
    <3>1. s.idx + 1 \in Slots
      BY <2>1, <2>3
    <3> QED
      BY <1>3, <2>2, <2>3, <3>1 DEF ScanNext
  <2>4. CASE ~(s.idx < NSlots)
    BY <1>2, <1>3, <2>1, <2>2, <2>4 DEF ScanNext
  <2> QED
    BY <2>3, <2>4
<1> QED
  BY <1>1, <1>2, <1>3

\* The reader's own variables after each of its steps.
LEMMA ReaderTypes ==
  ASSUME IInv, ReaderNext
  PROVE  ReaderType' /\ ReadInside' /\ rd'.cons % 8 = 0
<1> DEFINE Good == ReaderType' /\ ReadInside' /\ rd'.cons % 8 = 0
<1>0. /\ rd \in ReadLocals /\ stl \in StallLocals /\ corrupt \in BOOLEAN
      /\ mem \in [Addr -> Word] /\ tail \in Nat /\ head \in Nat /\ head <= tail
      /\ ReadInside /\ SlotType /\ rd.cons % 8 = 0 /\ head % 8 = 0
  BY DEF IInv, TypeOK, ReaderType, SegmentType, CursorOrder, Aligned
<1>a. /\ rd.limit \in Nat /\ rd.count \in Nat /\ rd.head \in Nat /\ rd.avail \in Nat
      /\ rd.cons \in Nat /\ rd.len \in Int
      /\ stl.idx \in Slots /\ stl.idx \in Nat /\ stl.at \in Nat /\ stl.from \in Int /\ stl.slots \subseteq Slots
      /\ stl.dead \subseteq Slots
  BY <1>0 DEF ReadLocals, StallLocals, Slots
<1>b. UNCHANGED tail /\ (UNCHANGED head \/ PublishHead)
  BY ReaderFrame
\* A step that ends a call or goes on in unstall.
<1>c. ASSUME rpc' \in {"idle", "read"} \cup StallPc, rd' \in ReadLocals, stl' \in StallLocals,
             corrupt' \in BOOLEAN, rd'.cons % 8 = 0
      PROVE  Good
  BY <1>c DEF ReaderType, ReadInside, ReadPc, StallPc
<1>d. NoRead \in ReadLocals /\ NoRead.cons = 0
  BY <1>0, SetReader DEF NoRead
<1>e. ASSUME NEW s \in StallLocals, (\E i \in Nat : LookNext(s, i)) \/ ScanNext(s) \/ ReturnEmpty,
             corrupt' \in BOOLEAN
      PROVE  Good
  <2>1. rpc' \in {"idle"} \cup StallPc /\ rd' \in ReadLocals /\ stl' \in StallLocals
    BY <1>0, <1>e, LookTypes
  <2>2. rd' = rd \/ rd' = NoRead
    BY <1>e DEF LookNext, ScanNext, ReturnEmpty
  <2> QED
    BY <1>0, <1>c, <1>d, <1>e, <2>1, <2>2
<1>1. ASSUME NEW n \in Limits, Receive(n) PROVE Good
  <2>1. n \in Nat
    BY ConstantsOK
  <2>2. [NoRead EXCEPT !.limit = n] \in ReadLocals /\ [NoRead EXCEPT !.limit = n].cons = 0
    BY <1>0, <2>1, SetReader DEF NoRead
  <2> QED
    BY <1>0, <1>1, <1>c, <2>2 DEF Receive
<1>2. CASE ReadStart
  <2>1. tail - head \in Nat
    BY <1>0
  <2>2. rd' \in ReadLocals /\ rd'.head = head /\ rd'.avail = tail - head /\ rd'.cons = 0
    BY <1>a, <1>0, <1>2, <2>1 DEF ReadStart, ReadLocals
  <2>3. UNCHANGED <<head, tail, stl, corrupt>> /\ rpc' = "next"
    BY <1>2 DEF ReadStart, cursorVars
  <2> QED
    BY <1>0, <2>1, <2>2, <2>3 DEF ReaderType, ReadInside, ReadPc
<1>3. CASE ReadNext
  <2> DEFINE len == mem[ReadIndex].len
             more == rd.count < rd.limit /\ rd.cons < rd.avail /\ len > 0
  <2>1. /\ rpc = "next" /\ rd.head = head
        /\ UNCHANGED <<head, tail, stl>>
        /\ head + rd.avail <= tail /\ rd.cons <= rd.avail
    BY <1>0, <1>3 DEF ReadNext, ReadInside, ReadPc, cursorVars
  <2>2. len \in Int
    <3>1. (rd.head + rd.cons) \in Nat /\ (rd.head + rd.cons) % 8 = 0
      BY <1>0, <1>a, <2>1
    <3>2. ReadIndex \in Addr
      BY <3>1, IndexAligned DEF ReadIndex
    <3> QED
      BY <1>0, <3>2 DEF Word
  <2>3. corrupt' \in BOOLEAN
    BY <1>0, <1>3 DEF ReadNext
  <2>4. CASE more /\ BadRecord(len)
    BY <1>0, <1>3, <1>c, <1>d, <2>1, <2>3, <2>4 DEF ReadNext
  <2>5. CASE ~(more /\ BadRecord(len))
    <3>1. rd' = [rd EXCEPT !.len = len]
      BY <1>3, <2>5 DEF ReadNext
    <3>2. /\ rd' \in ReadLocals /\ rd'.head = rd.head /\ rd'.avail = rd.avail
          /\ rd'.cons = rd.cons /\ rd'.len = len
      BY <1>0, <2>2, <3>1 DEF ReadLocals
    <3>3. CASE ~more
      BY <1>0, <1>3, <2>1, <2>3, <3>2, <3>3 DEF ReadNext, ReaderType, ReadInside, ReadPc
    <3>4. CASE more /\ ~BadRecord(len)
      <4>1. len \in Nat
        BY <2>2, <3>4
      <4>2. Align(len) \in Nat
        BY <4>1, AlignFacts
      <4>4. Align(len) <= rd.avail - rd.cons
        BY <1>a, <3>4, <4>2 DEF BadRecord
      <4>3. rpc' = "deliver"
        BY <1>3, <3>4 DEF ReadNext
      <4> HIDE DEF len
      <4> QED
        BY <1>0, <1>a, <2>1, <2>3, <3>2, <4>1, <4>2, <4>3, <4>4 DEF ReaderType, ReadInside, ReadPc
    <3> QED
      BY <2>5, <3>3, <3>4
  <2> QED
    BY <2>4, <2>5
<1>4. CASE Deliver
  <2>1. rpc = "deliver" /\ rpc' = "clear" /\ UNCHANGED <<head, tail, stl, corrupt>>
    BY <1>4 DEF Deliver, cursorVars
  <2>2. rd' = rd \/ rd' = [rd EXCEPT !.count = rd.count + 1]
    BY <1>4 DEF Deliver
  <2>3. /\ rd' \in ReadLocals /\ rd'.head = rd.head /\ rd'.avail = rd.avail
        /\ rd'.cons = rd.cons /\ rd'.len = rd.len
    BY <1>0, <1>a, <2>2 DEF ReadLocals
  <2> QED
    BY <1>0, <2>1, <2>3 DEF ReaderType, ReadInside, ReadPc
<1>5. CASE Clear
  BY <1>0, <1>5 DEF Clear, ReaderType, ReadInside, ReadPc, cursorVars
<1>6. CASE ZeroLength
  <2>1. /\ rpc = "zero" /\ rpc' = "next" /\ UNCHANGED <<head, tail, stl, corrupt>>
        /\ rd' = [rd EXCEPT !.cons = rd.cons + Align(rd.len)]
    BY <1>6 DEF ZeroLength, cursorVars
  <2>2. /\ rd.len \in Nat /\ rd.cons + Align(rd.len) <= rd.avail /\ rd.head = head
        /\ head + rd.avail <= tail
    BY <1>0, <2>1 DEF ReadInside, ReadPc
  <2>3. Align(rd.len) \in Nat /\ Align(rd.len) % 8 = 0
    BY <2>2 DEF Align
  <2>4. (rd.cons + Align(rd.len)) \in Nat /\ (rd.cons + Align(rd.len)) % 8 = 0
    BY <1>0, <1>a, <2>3
  <2>5. /\ rd' \in ReadLocals /\ rd'.head = rd.head /\ rd'.avail = rd.avail
        /\ rd'.cons = rd.cons + Align(rd.len)
    BY <1>0, <2>1, <2>4 DEF ReadLocals
  <2> QED
    BY <1>0, <2>1, <2>2, <2>4, <2>5 DEF ReaderType, ReadInside, ReadPc
<1>7. CASE PublishHead
  <2>1. [NoRead EXCEPT !.limit = rd.limit] \in ReadLocals
        /\ [NoRead EXCEPT !.limit = rd.limit].cons = 0
    BY <1>0, <1>a, SetReader DEF NoRead
  <2> QED
    BY <1>0, <1>7, <1>c, <1>d, <2>1 DEF PublishHead, StallPc
<1>8. CASE Stalled
  <2>1. head \in Nat /\ mem[Index(head)].len \in Int
    BY <1>0, IndexAligned DEF Word
  <2>2. StallAt(head, mem[Index(head)].len) \in StallLocals
    BY <1>0, <2>1, SetReader
  <2>3. CASE ReturnEmpty
    BY <1>0, <1>8, <1>e, <2>3 DEF Stalled
  <2>4. CASE ~ReturnEmpty
    BY <1>0, <1>8, <1>c, <2>2, <2>4 DEF Stalled, StallPc
  <2> QED
    BY <2>3, <2>4
<1>9. CASE ScanAt
  <2>1. CASE ScanNext(stl)
    BY <1>0, <1>9, <1>e, <2>1 DEF ScanAt
  <2>2. CASE ~ScanNext(stl)
    <3>1. at[stl.idx] \in Int
      BY <1>0, <1>a DEF SlotType, NoIntent
    <3> QED
      BY <1>0, <1>9, <1>c, <2>2, <3>1, SetReader DEF ScanAt, StallPc
  <2> QED
    BY <2>1, <2>2
<1>10. CASE ScanSize
  <2>1. stl.slots \cup {stl.idx} \in SUBSET Slots
    BY <1>a
  <2>2. [stl EXCEPT !.slots = stl.slots \cup {stl.idx}] \in StallLocals
    BY <1>0, <2>1, SetReader
  <2> QED
    BY <1>0, <1>10, <1>e, <2>2 DEF ScanSize
<1>11. CASE LookOwner
  <2>1. owner[stl.idx] \in Producers \cup {NoProc}
    BY <1>0, <1>a DEF SlotType
  <2>2. [stl EXCEPT !.own = owner[stl.idx]] \in StallLocals
    BY <1>0, <2>1, SetReader
  <2> QED
    BY <1>0, <1>11, <1>c, <2>2 DEF LookOwner, StallPc
<1>12. CASE LookAt
  <2>1. at[stl.idx] \in Int
    BY <1>0, <1>a DEF SlotType, NoIntent
  <2>2. [stl EXCEPT !.from = at[stl.idx]] \in StallLocals
    BY <1>0, <2>1, SetReader
  <2> QED
    BY <1>0, <1>12, <1>c, <2>2 DEF LookAt, StallPc
<1>13. CASE LookSize
  <2>1. stl.from + size[stl.idx] \in Int
    BY <1>0, <1>a DEF SlotType
  <2>2. [stl EXCEPT !.from = stl.from + size[stl.idx]] \in StallLocals
    BY <1>0, <2>1, SetReader
  <2>3. CASE LookNext(stl, stl.idx) \/ ReturnEmpty
    BY <1>0, <1>13, <1>a, <1>e, <2>3 DEF LookSize
  <2>4. CASE ~(LookNext(stl, stl.idx) \/ ReturnEmpty)
    BY <1>0, <1>13, <1>c, <2>2, <2>4 DEF LookSize, StallPc
  <2> QED
    BY <2>3, <2>4
<1>14. CASE LookDead
  <2>1. stl.dead \cup {stl.idx} \in SUBSET Slots
    BY <1>a
  <2>2. [stl EXCEPT !.end = stl.from, !.dead = stl.dead \cup {stl.idx}] \in StallLocals
    BY <1>0, <1>a, <2>1, SetReader
  <2>3. corrupt' \in BOOLEAN
    BY <1>0, <1>14 DEF LookDead
  <2>4. CASE ReturnEmpty
    BY <1>0, <1>e, <2>3, <2>4
  <2>5. CASE ~ReturnEmpty
    BY <1>14, <1>a, <1>e, <2>2, <2>3, <2>5 DEF LookDead
  <2> QED
    BY <2>4, <2>5
<1>15. CASE ReclaimLength
  <2>1. CASE ReturnEmpty
    BY <1>0, <1>15, <1>e, <2>1 DEF ReclaimLength
  <2>2. CASE ~ReturnEmpty
    BY <1>0, <1>15, <1>c, <2>2 DEF ReclaimLength, StallPc
  <2> QED
    BY <2>1, <2>2
<1>16. CASE ReclaimType
  BY <1>0, <1>16, <1>c DEF ReclaimType, StallPc
<1>17. CASE ReclaimForget
  <2>1. NoStall \in StallLocals
    BY <1>0, SetReader
  <2> QED
    BY <1>0, <1>17, <1>c, <2>1 DEF ReclaimForget
<1> QED
  BY <1>1, <1>2, <1>3, <1>4, <1>5, <1>6, <1>7, <1>8, <1>9, <1>10, <1>11, <1>12, <1>13,
     <1>14, <1>15, <1>16, <1>17 DEF ReaderNext, ReaderStep

\* The data region and the history after a step of the reader.
LEMMA ReaderShared ==
  ASSUME IInv, ReaderNext
  PROVE  mem' \in [Addr -> Word] /\ SlotType' /\ HistoryType'
<1>0. /\ SegmentType /\ SlotType /\ HistoryType /\ stl \in StallLocals /\ rd \in ReadLocals
      /\ mem \in [Addr -> Word]
  BY DEF IInv, TypeOK, ReaderType, SegmentType
<1>1. mem' \in [Addr -> Word]
  <2>0. ReadIndex \in Int /\ Index(stl.at) \in Int /\ TypePadding \in Int
    <3>1. Capacity \in Nat /\ rd.head + rd.cons \in Nat /\ stl.at \in Nat
      BY <1>0, ConstantsOK DEF ReadLocals, StallLocals
    <3>2. ReadIndex \in 0..Capacity - 1 /\ Index(stl.at) \in 0..Capacity - 1
      BY <3>1, ToEndFacts DEF ReadIndex
    <3> QED
      BY <3>1, <3>2 DEF TypePadding
  <2>1. CASE UNCHANGED mem
    BY <1>0, <2>1
  <2>2. CASE Clear
    BY <1>0, <2>2 DEF Clear, Word, Zero
  <2>3. CASE ZeroLength
    <3> DEFINE none == 0
    <3>1. none \in Int /\ mem' = [mem EXCEPT ![ReadIndex].len = none]
      BY <2>3 DEF ZeroLength
    <3> HIDE DEF none
    <3> QED
      BY <1>0, <2>0, <3>1, SetShared
  <2>4. CASE ReclaimLength
    <3>1. SegmentSize \in Int
      <4>1. stl.at \in Nat /\ stl.end \in Int
        BY <1>0 DEF StallLocals
      <4>2. ToEnd(stl.at) \in Nat
        BY <4>1, ToEndFacts
      <4> QED
        BY <4>1, <4>2 DEF SegmentSize
    <3> QED
      BY <1>0, <2>4, <3>1 DEF ReclaimLength, Word
  <2>5. CASE ReclaimType
    BY <1>0, <2>0, <2>5, SetShared DEF ReclaimType
  <2> QED
    BY <2>1, <2>2, <2>3, <2>4, <2>5
       DEF ReaderNext, ReaderStep, Receive, ReadStart, ReadNext, Deliver, PublishHead,
           Stalled, ScanAt, ScanSize, LookOwner, LookAt, LookSize, LookDead, ReclaimForget
<1>2. SlotType'
  <2>1. UNCHANGED <<owner, size>> /\ (UNCHANGED at \/ ReclaimForget)
    BY ReaderFrame
  <2>2. at' \in [Slots -> Nat \cup {NoIntent}]
    BY <1>0, <2>1 DEF ReclaimForget, SlotType
  <2> QED
    BY <1>0, <2>1, <2>2 DEF SlotType
<1>3. HistoryType'
  <2>1. UNCHANGED log
    BY ReaderFrame
  <2>2. CASE UNCHANGED delivered
    BY <1>0, <2>1, <2>2 DEF HistoryType
  <2>3. CASE Deliver
    <3>1. ReadIndex \in Addr
      <4>1. /\ rd.head \in Nat /\ rd.cons \in Nat /\ head % 8 = 0 /\ rd.cons % 8 = 0
            /\ ReadInside
        BY <1>0 DEF ReadLocals, IInv, Aligned
      <4>2. rd.head % 8 = 0
        BY <4>1, <2>3 DEF Deliver, ReadInside, ReadPc
      <4>3. (rd.head + rd.cons) \in Nat /\ (rd.head + rd.cons) % 8 = 0
        BY <4>1, <4>2
      <4> QED
        BY <4>3, IndexAligned DEF ReadIndex
    <3> DEFINE w == {mem[a] : a \in PayloadOf(ReadIndex, rd.len - RecordHeaderSize)}
               r == [typ |-> mem[ReadIndex].typ, words |-> w]
    <3>2. w \subseteq Word
      BY <1>0 DEF PayloadOf
    <3>3. r \in [typ : Int, words : SUBSET Word]
      <4>1. mem[ReadIndex].typ \in Int
        BY <1>0, <3>1 DEF Word
      <4> HIDE DEF w
      <4> QED
        BY <3>2, <4>1
    <3>4. delivered' = delivered \/ delivered' = Append(delivered, r)
      BY <2>3 DEF Deliver
    <3>5. delivered \in Seq([typ : Int, words : SUBSET Word])
      BY <1>0 DEF HistoryType
    <3> HIDE DEF r
    <3> DEFINE T == [typ : Int, words : SUBSET Word]
    <3>6. delivered' \in Seq(T)
      <4>1. r \in T /\ delivered \in Seq(T)
        BY <3>3, <3>5
      <4> HIDE DEF T
      <4> QED
        BY <3>4, <4>1, AppendProperties
    <3> QED
      BY <1>0, <2>1, <3>6 DEF HistoryType
  <2> QED
    BY <2>2, <2>3
       DEF ReaderNext, ReaderStep, Receive, ReadStart, ReadNext, Clear, ZeroLength,
           PublishHead, Stalled, ScanAt, ScanSize, LookOwner, LookAt, LookSize, LookDead,
           ReclaimLength, ReclaimType, ReclaimForget
<1> QED
  BY <1>1, <1>2, <1>3

\* A step of the reader preserves the strengthening: head only grows, up to a
\* tail that was there.
LEMMA ReaderInv ==
  ASSUME IInv, ReaderNext
  PROVE  IInv'
<1>0. /\ TypeOK /\ CursorOrder /\ ReadInside /\ Aligned
      /\ \A q \in Producers : ClaimRoom(q)
      /\ Capacity \in Nat /\ tail \in Nat /\ head \in Nat /\ headCache \in Nat
      /\ rd.head \in Nat /\ rd.cons \in Nat /\ rd.avail \in Nat
  BY ConstantsOK DEF IInv, TypeOK, SegmentType, ReaderType, ReadLocals
<1>1. UNCHANGED <<tail, headCache, owner, size, pc, me, dead, log>>
  BY ReaderFrame
<1>2. head' \in Nat /\ head <= head' /\ head' <= tail /\ head' % 8 = 0
  <2>1. CASE UNCHANGED head
    BY <1>0, <2>1 DEF CursorOrder, Aligned
  <2>2. CASE PublishHead
    <3>1. /\ rpc \in ReadPc /\ head' = rd.head + rd.cons
      BY <2>2 DEF PublishHead, ReadPc
    <3>2. rd.head = head /\ head + rd.avail <= tail /\ rd.cons <= rd.avail
      BY <1>0, <3>1 DEF ReadInside
    <3> QED
      BY <1>0, <3>1, <3>2 DEF Aligned
  <2> QED
    BY <2>1, <2>2, ReaderFrame
<1>3. SegmentType'
  BY <1>0, <1>1, <1>2, ReaderShared DEF SegmentType
<1>4. TypeOK'
  BY <1>0, <1>1, <1>3, ReaderShared, ReaderTypes DEF TypeOK
<1>5. CursorOrder'
  <2>1. headCache' = headCache /\ tail' = tail
    BY <1>1
  <2>2. headCache <= head /\ tail <= head + Capacity
    BY <1>0 DEF CursorOrder
  <2>3. headCache <= head' /\ tail <= head' + Capacity
    <3>1. Capacity \in Nat /\ tail \in Nat /\ head \in Nat /\ headCache \in Nat
      BY <1>0
    <3>2. head' \in Nat /\ head <= head'
      BY <1>2
    <3>3. \A t, h, g, c \in Nat : t <= h + c /\ h <= g => t <= g + c
      OBVIOUS
    <3>4. headCache <= head'
      BY <2>2, <3>1, <3>2
    <3>5. tail <= head' + Capacity
      BY <2>2, <3>1, <3>2, <3>3
    <3> QED
      BY <3>4, <3>5
  <2> QED
    BY <1>2, <2>1, <2>3 DEF CursorOrder
<1>6. ASSUME NEW q \in Producers PROVE ClaimRoom(q)'
  <2>1. me[q].tail \in Nat /\ me[q].len \in Nat /\ me[q].head \in Nat
    BY <1>0 DEF TypeOK, ProducerLocals
  <2>2. MyNeed(q) \in Nat
    BY <2>1, NeedFacts DEF MyNeed
  <2>3. MyNeed(q)' = MyNeed(q)
    BY <1>1 DEF MyNeed
  <2> QED
    BY <1>0, <1>1, <1>2, <2>1, <2>2, <2>3 DEF ClaimRoom
<1>7. Aligned'
  BY <1>0, <1>1, <1>2, ReaderTypes DEF Aligned
<1> QED
  BY <1>4, <1>5, <1>6, <1>7, ReaderTypes DEF IInv
-----------------------------------------------------------------------------
\* The strengthening holds in every reachable state, whatever the capacity, the
\* number of slots and producers, the lengths sent and the number of deaths.
THEOREM Invariance == Spec => []IInv
<1>1. Init => IInv
  BY InitInv
<1>2. IInv /\ [Next]_vars => IInv'
  <2> SUFFICES ASSUME IInv, [Next]_vars PROVE IInv'
    OBVIOUS
  <2>1. CASE \E p \in Producers : StepOf(p)
    BY <2>1, ProducerInv
  <2>2. CASE ReaderNext
    BY <2>2, ReaderInv
  <2>3. CASE UNCHANGED vars
    BY <2>3 DEF vars, cursorVars, slotVars, readerVars, IInv, TypeOK, SegmentType, SlotType,
       ReaderType, HistoryType, CursorOrder, ClaimRoom, MyNeed, ReadInside, Aligned
  <2> QED
    BY <2>1, <2>2, <2>3 DEF Next, StepOf, ReaderNext
<1> QED
  BY <1>1, <1>2, PTL DEF Spec

\* Every variable keeps its type (TypeOK).
THEOREM TypeCorrect == Spec => []TypeOK
<1>1. IInv => TypeOK
  BY DEF IInv
<1> QED
  BY <1>1, Invariance, PTL

\* No producer ever laps the reader and the reader never passes the tail
\* (CursorOrder), although room is judged from a cached head and a stale tail.
THEOREM CursorSafety == Spec => []CursorOrder
<1>1. IInv => CursorOrder
  BY DEF IInv
<1> QED
  BY <1>1, Invariance, PTL
=============================================================================
