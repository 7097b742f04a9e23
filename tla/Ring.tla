-------------------------------- MODULE Ring --------------------------------
(***************************************************************************)
(* The shared-memory ring (ring.go), its claim slots and the recovery of   *)
(* dead claims (recover.go, queue_peer.go: unstall, takeSlot).             *)
(*                                                                         *)
(* One action is one access to shared memory.  Every producer is a process *)
(* of its own, except the ones in Local, which are goroutines of the       *)
(* receiver's process.  A producer may die between any two of its steps.   *)
(* The reader runs the loop of receive: Read, then unstall.                *)
(*                                                                         *)
(* Cursors, lengths and addresses are bytes, as in the code.  The data     *)
(* region is an array of 8-byte words; a record header is one word, and a  *)
(* payload word is written so that it would pass for the header of a       *)
(* committed record.  A message is named by the position of its claim in   *)
(* tail order, and its type is that name.                                  *)
(***************************************************************************)
EXTENDS Integers, Sequences, FiniteSets

CONSTANTS
  Producers,
  Local,      \* the producers in the receiver's own process
  Closable,   \* the producers that may close their handle
  NoProc,
  Capacity,   \* of the data region
  Lengths,    \* of the payloads that are sent
  NSlots,     \* ClaimSlots
  Limits,     \* of the calls to Read
  Start,      \* the cursor where an idle ring begins: what earlier traffic left
  MaxClaims,  \* bound: claims that win the tail
  MaxCrashes  \* bound: producers that die

ASSUME ConstantsOK ==
  /\ Capacity \in Nat /\ Capacity >= 16 /\ Capacity % 16 = 0
  /\ Start \in Nat /\ Start % 8 = 0
  /\ Lengths \subseteq Nat
  /\ NSlots \in Nat \ {0}
  /\ Limits \subseteq Nat \ {0}
  /\ MaxClaims \in Nat /\ MaxCrashes \in Nat
  /\ Local \subseteq Producers /\ Closable \subseteq Producers /\ NoProc \notin Producers

VARIABLES
  tail, head, headCache, mem, \* the header and the data region
  owner, at, size,            \* the claim slots
  pc, me,                     \* each producer: its step and its locals
  rpc, rd, stl,               \* the reader: its step, locals of Read, of unstall
  corrupt,                    \* whether ErrCorrupt came up
  dead,                       \* the processes that have exited
  log, delivered              \* history: the claims, and the calls of fn

cursorVars == <<tail, head, headCache>>
slotVars == <<owner, at, size>>
readerVars == <<rpc, rd, stl, corrupt, delivered>>
vars == <<cursorVars, mem, slotVars, pc, me, readerVars, dead, log>>

RecordHeaderSize == 8
NoIntent == -1
TypePadding == -1
Slots == 1..NSlots
Addr == {a \in 0..Capacity - 1 : a % 8 = 0}

Align(n) == ((n + 7) \div 8) * 8
MaxMessageSize == Capacity \div 2 - RecordHeaderSize
Index(cursor) == cursor % Capacity
ToEnd(cursor) == Capacity - Index(cursor)
RecordLen(n) == RecordHeaderSize + n

\* A record never straddles the wrap point: the claim covers the rest of the
\* lap as padding when the record does not fit there.
Wraps(t, n) == ToEnd(t) < Align(RecordLen(n))
Need(t, n) == Align(RecordLen(n)) + (IF Wraps(t, n) THEN ToEnd(t) ELSE 0)
\* Mutant: does not compare with the space a claim needs.
MutHasRoom(t, h, need) == h <= t /\ t - h <= Capacity
HasRoom(t, h, need) == h <= t /\ t - h <= Capacity /\ Capacity - (t - h) >= need

Zero == [len |-> 0, typ |-> 0]
PayloadWord(m) == [len |-> 8, typ |-> m]
PayloadOf(index, n) ==
  {a \in Addr : index + RecordHeaderSize <= a /\ a < index + RecordLen(n)}

\* Where the record of p's claim starts: after the padding, if it wraps.
RecordIndex(p) ==
  IF Wraps(me[p].tail, me[p].len) THEN 0 ELSE Index(me[p].tail)
SameProc(p, q) == p = q \/ {p, q} \subseteq Local
Covers(a, n, cursor) == a # NoIntent /\ a <= cursor /\ cursor < a + n

NoRead == [limit |-> 0, count |-> 0, head |-> 0, avail |-> 0, cons |-> 0, len |-> 0]
StallAt(a, len) == [at |-> a, length |-> len, slots |-> {}, idx |-> 1, own |-> NoProc,
                    from |-> 0, end |-> 0, dead |-> {}]
NoStall == StallAt(0, 0)

Unused(s) == [slot |-> s, len |-> 0, tail |-> 0, head |-> 0,
              scan |-> 1, own |-> NoProc, msg |-> 0]

\* An idle ring whose slots have the given owners.
InitWith(own, locals) ==
  /\ tail = Start /\ head = Start /\ headCache = Start
  /\ mem = [a \in Addr |-> Zero]
  /\ owner = own
  /\ at = [s \in Slots |-> NoIntent]
  /\ size = [s \in Slots |-> 0]
  /\ pc = [p \in Producers |-> "idle"]
  /\ me = locals
  /\ rpc = "idle" /\ rd = NoRead /\ stl = NoStall
  /\ corrupt = FALSE /\ dead = {}
  /\ log = <<>> /\ delivered = <<>>

Init == InitWith([s \in Slots |-> NoProc], [p \in Producers |-> Unused(0)])

Claiming == {"free", "taken", "head", "owner", "intent", "steal",
             "tail", "cache", "room", "store", "size", "at", "cas", "full"}
At(p, l) == p \notin dead /\ pc[p] = l
Goto(p, l) == pc' = [pc EXCEPT ![p] = l]
-----------------------------------------------------------------------------
(* takeSlot, acquireSlot and dropSlot *)

\* The claims that won the tail and those that still may.
Begun == Len(log) + Cardinality({q \in Producers \ dead : pc[q] \in Claiming})

\* A send or a claim of n bytes begins; an idle slot of the handle is reused.
Begin(p, n) ==
  /\ At(p, "idle")
  /\ Begun < MaxClaims
  /\ n <= MaxMessageSize
  /\ Goto(p, IF me[p].slot # 0 THEN "tail" ELSE "free")
  /\ me' = [me EXCEPT ![p].len = n]
  /\ UNCHANGED <<cursorVars, mem, slotVars, readerVars, dead, log>>

\* The first pass swaps each owner in turn from 0.
AcquireFree(p) ==
  LET i == me[p].scan IN
  /\ At(p, "free")
  /\ \/ /\ owner[i] = NoProc
        /\ owner' = [owner EXCEPT ![i] = p]
        /\ Goto(p, "taken")
        /\ UNCHANGED me
     \/ /\ owner[i] # NoProc
        /\ Goto(p, IF i = NSlots THEN "head" ELSE "free")
        /\ me' = [me EXCEPT ![p].scan = IF i = NSlots THEN 1 ELSE i + 1]
        /\ UNCHANGED owner
  /\ UNCHANGED <<cursorVars, mem, at, size, readerVars, dead, log>>

AcquireTaken(p) ==
  /\ At(p, "taken")
  /\ at' = [at EXCEPT ![me[p].scan] = NoIntent]
  /\ Goto(p, "tail")
  /\ me' = [me EXCEPT ![p].slot = me[p].scan]
  /\ UNCHANGED <<cursorVars, mem, owner, size, readerVars, dead, log>>

AcquireHead(p) ==
  /\ At(p, "head")
  /\ Goto(p, "owner")
  /\ me' = [me EXCEPT ![p].head = head]
  /\ UNCHANGED <<cursorVars, mem, slotVars, readerVars, dead, log>>

\* The second pass goes on to the next slot, or gives up: ErrTooManyClaims.
NextSlot(p) ==
  LET i == me[p].scan IN
  \/ i = NSlots /\ Goto(p, "idle") /\ me' = [me EXCEPT ![p] = Unused(0)]
  \/ i # NSlots /\ Goto(p, "owner") /\ me' = [me EXCEPT ![p].scan = i + 1]

AcquireOwner(p) ==
  LET o == owner[me[p].scan] IN
  /\ At(p, "owner")
  /\ IF o = NoProc \/ SameProc(o, p)
       THEN NextSlot(p)
       ELSE Goto(p, "intent") /\ me' = [me EXCEPT ![p].own = o]
  /\ UNCHANGED <<cursorVars, mem, slotVars, readerVars, dead, log>>

\* A slot whose claim the reader has not passed is left alone.
AcquireIntent(p) ==
  LET i == me[p].scan IN
  /\ At(p, "intent")
  /\ IF at[i] # NoIntent /\ at[i] + size[i] > me[p].head
       THEN NextSlot(p)
       ELSE Goto(p, "steal") /\ UNCHANGED me
  /\ UNCHANGED <<cursorVars, mem, slotVars, readerVars, dead, log>>

Steal(p, i) == owner' = [owner EXCEPT ![i] = p] /\ Goto(p, "taken") /\ UNCHANGED me

\* Only a dead owner loses its slot.  A process that is dead stays dead, so
\* the check and the swap of the owner are one step.
AcquireSteal(p) ==
  LET i == me[p].scan IN
  /\ At(p, "steal")
  /\ IF me[p].own \in dead /\ owner[i] = me[p].own
       THEN Steal(p, i)
       ELSE NextSlot(p) /\ UNCHANGED owner
  /\ UNCHANGED <<cursorVars, mem, at, size, readerVars, dead, log>>

\* The slot claims nothing any more.
Forget(p) == at' = [at EXCEPT ![me[p].slot] = NoIntent]

\* Close of a sending handle gives its slot back: the intent, then the owner.
DropIntent(p) ==
  /\ p \in Closable
  /\ At(p, "idle")
  /\ me[p].slot # 0
  /\ Forget(p)
  /\ Goto(p, "drop")
  /\ UNCHANGED <<cursorVars, mem, owner, size, me, readerVars, dead, log>>

DropOwner(p) ==
  LET i == me[p].slot IN
  /\ At(p, "drop")
  /\ owner' = [owner EXCEPT ![i] = IF owner[i] = p THEN NoProc ELSE owner[i]]
  /\ Goto(p, "idle")
  /\ me' = [me EXCEPT ![p] = Unused(0)]
  /\ UNCHANGED <<cursorVars, mem, at, size, readerVars, dead, log>>
-----------------------------------------------------------------------------
(* tryClaim *)

LoadTail(p) ==
  /\ At(p, "tail")
  /\ Goto(p, "cache")
  /\ me' = [me EXCEPT ![p].tail = tail]
  /\ UNCHANGED <<cursorVars, mem, slotVars, readerVars, dead, log>>

MyNeed(p) == Need(me[p].tail, me[p].len)

LoadCache(p) ==
  /\ At(p, "cache")
  /\ Goto(p, IF HasRoom(me[p].tail, headCache, MyNeed(p)) THEN "size" ELSE "room")
  /\ UNCHANGED <<cursorVars, mem, slotVars, me, readerVars, dead, log>>

\* The loop starts again when head passed the tail it loaded.
LoadHead(p) ==
  /\ At(p, "room")
  /\ Goto(p, IF head > me[p].tail THEN "tail"
             ELSE IF HasRoom(me[p].tail, head, MyNeed(p)) THEN "store"
             ELSE "full")
  /\ me' = [me EXCEPT ![p].head = head]
  /\ UNCHANGED <<cursorVars, mem, slotVars, readerVars, dead, log>>

StoreCache(p) ==
  /\ At(p, "store")
  /\ headCache' = me[p].head
  /\ Goto(p, "size")
  /\ UNCHANGED <<tail, head, mem, slotVars, me, readerVars, dead, log>>

\* The operation is over and the slot idle again.
EndWith(p, l) ==
  /\ At(p, l)
  /\ Forget(p)
  /\ Goto(p, "idle")
  /\ me' = [me EXCEPT ![p] = Unused(me[p].slot)]
  /\ UNCHANGED <<cursorVars, mem, owner, size, readerVars, dead, log>>

\* ErrFull.
ReleaseFull(p) == EndWith(p, "full")

StoreSize(p) ==
  /\ At(p, "size")
  /\ size' = [size EXCEPT ![me[p].slot] = MyNeed(p)]
  /\ Goto(p, "at")
  /\ UNCHANGED <<cursorVars, mem, owner, at, me, readerVars, dead, log>>

StoreAt(p) ==
  /\ At(p, "at")
  /\ at' = [at EXCEPT ![me[p].slot] = me[p].tail]
  /\ Goto(p, "cas")
  /\ UNCHANGED <<cursorVars, mem, owner, size, me, readerVars, dead, log>>

\* The swap that wins makes the claim; the one that loses starts again and
\* leaves the intent behind.
SwapTail(p) ==
  /\ At(p, "cas")
  /\ \/ /\ tail = me[p].tail
        /\ tail' = tail + MyNeed(p)
        /\ log' = Append(log, [by |-> p, at |-> tail, end |-> tail', is |-> "open"])
        /\ Goto(p, IF Wraps(me[p].tail, me[p].len) THEN "padtype" ELSE "type")
        /\ me' = [me EXCEPT ![p].msg = Len(log')]
     \/ /\ tail # me[p].tail
        /\ Goto(p, "tail")
        /\ UNCHANGED <<tail, me, log>>
  /\ UNCHANGED <<head, headCache, mem, slotVars, readerVars, dead>>

\* Stores of one field of a header.
StoreType(p, l, index, typ, next) ==
  /\ At(p, l)
  /\ mem' = [mem EXCEPT ![index].typ = typ]
  /\ Goto(p, next)
  /\ UNCHANGED <<cursorVars, slotVars, me, readerVars, dead, log>>

StoreLength(p, l, index, len, next) ==
  /\ At(p, l)
  /\ mem' = [mem EXCEPT ![index].len = len]
  /\ Goto(p, next)
  /\ UNCHANGED <<cursorVars, slotVars, me, readerVars, dead>>

PadType(p) == StoreType(p, "padtype", Index(me[p].tail), TypePadding, "padlen")
PadLength(p) ==
  /\ StoreLength(p, "padlen", Index(me[p].tail), ToEnd(me[p].tail), "type")
  /\ UNCHANGED log

ClaimType(p) == StoreType(p, "type", RecordIndex(p), me[p].msg, "len")

ClaimLength(p) ==
  /\ StoreLength(p, "len", RecordIndex(p), -RecordLen(me[p].len), "open")
  /\ UNCHANGED log
-----------------------------------------------------------------------------
(* The holder of a claim: copy, then Commit or Abort *)

\* Mutant: forgets that the record of a claim that wraps starts at 0.
MutFill(p) ==
  /\ At(p, "open")
  /\ mem' = [a \in Addr |-> IF a \in PayloadOf(Index(me[p].tail), me[p].len)
                              THEN PayloadWord(me[p].msg) ELSE mem[a]]
  /\ Goto(p, "commit")
  /\ UNCHANGED <<cursorVars, slotVars, me, readerVars, dead, log>>

Fill(p) ==
  /\ At(p, "open")
  /\ mem' = [a \in Addr |-> IF a \in PayloadOf(RecordIndex(p), me[p].len)
                              THEN PayloadWord(me[p].msg) ELSE mem[a]]
  /\ Goto(p, "commit")
  /\ UNCHANGED <<cursorVars, slotVars, me, readerVars, dead, log>>

Commit(p) ==
  /\ StoreLength(p, "commit", RecordIndex(p), RecordLen(me[p].len), "release")
  /\ log' = [log EXCEPT ![me[p].msg].is = "committed"]

AbortType(p) ==
  \/ StoreType(p, "open", RecordIndex(p), TypePadding, "abort")
  \/ StoreType(p, "commit", RecordIndex(p), TypePadding, "abort")

AbortLength(p) ==
  /\ StoreLength(p, "abort", RecordIndex(p), RecordLen(me[p].len), "release")
  /\ log' = [log EXCEPT ![me[p].msg].is = "aborted"]

Release(p) == EndWith(p, "release")

\* A process dies.  Its memory and its slots stay as they are.
Crash(p) ==
  /\ p \notin dead \cup Local
  /\ Cardinality(dead) < MaxCrashes
  /\ dead' = dead \cup {p}
  /\ UNCHANGED <<cursorVars, mem, slotVars, pc, me, readerVars, log>>
-----------------------------------------------------------------------------
(* receive: Read *)

producerVars == <<pc, me, dead>>

Receive(limit) ==
  /\ rpc = "idle"
  /\ rpc' = "read"
  /\ rd' = [NoRead EXCEPT !.limit = limit]
  /\ UNCHANGED <<cursorVars, mem, slotVars, producerVars, stl, corrupt, log, delivered>>

\* Only the reader moves head, so its load and the one of tail are one step.
ReadStart ==
  /\ rpc = "read"
  /\ rd' = [limit |-> rd.limit, count |-> 0, head |-> head, avail |-> tail - head,
             cons |-> 0, len |-> 0]
  /\ rpc' = "next"
  /\ UNCHANGED <<cursorVars, mem, slotVars, producerVars, stl, corrupt, log, delivered>>

ReadIndex == Index(rd.head + rd.cons)

\* Mutant: takes a record with no payload for a corrupt one.
MutBadRecord(len) == len <= RecordHeaderSize

BadRecord(len) ==
  \/ len < RecordHeaderSize
  \/ Align(len) > rd.avail - rd.cons
  \/ ReadIndex + Align(len) > Capacity

\* The loop condition, and the load of the length of the next record.
ReadNext ==
  LET len == mem[ReadIndex].len
      more == rd.count < rd.limit /\ rd.cons < rd.avail /\ len > 0
  IN
  /\ rpc = "next"
  /\ rpc' = IF ~more THEN "publish" ELSE IF BadRecord(len) THEN "idle" ELSE "deliver"
  /\ corrupt' = (corrupt \/ (more /\ BadRecord(len)))
  /\ rd' = IF more /\ BadRecord(len) THEN NoRead ELSE [rd EXCEPT !.len = len]
  /\ UNCHANGED <<cursorVars, mem, slotVars, producerVars, stl, log, delivered>>

\* fn gets the type and the payload, in place.
Deliver ==
  LET typ == mem[ReadIndex].typ
      words == {mem[a] : a \in PayloadOf(ReadIndex, rd.len - RecordHeaderSize)}
  IN
  /\ rpc = "deliver"
  /\ rpc' = "clear"
  /\ IF typ = TypePadding
       THEN UNCHANGED <<rd, delivered>>
       ELSE /\ delivered' = Append(delivered, [typ |-> typ, words |-> words])
            /\ rd' = [rd EXCEPT !.count = @ + 1]
  /\ UNCHANGED <<cursorVars, mem, slotVars, producerVars, stl, corrupt, log>>

\* Mutant: clears the type and leaves the payload.
MutClear ==
  /\ rpc = "clear"
  /\ mem' = [mem EXCEPT ![ReadIndex].typ = 0]
  /\ rpc' = "zero"
  /\ UNCHANGED <<cursorVars, slotVars, producerVars, rd, stl, corrupt, log, delivered>>

\* clear(data[index+4 : index+step]): the type and every payload word.
Clear ==
  LET stop == ReadIndex + Align(rd.len) IN
  /\ rpc = "clear"
  /\ mem' = [a \in Addr |->
                IF a = ReadIndex THEN [mem[a] EXCEPT !.typ = 0]
                ELSE IF ReadIndex < a /\ a < stop THEN Zero
                ELSE mem[a]]
  /\ rpc' = "zero"
  /\ UNCHANGED <<cursorVars, slotVars, producerVars, rd, stl, corrupt, log, delivered>>

ZeroLength ==
  /\ rpc = "zero"
  /\ mem' = [mem EXCEPT ![ReadIndex].len = 0]
  /\ rd' = [rd EXCEPT !.cons = @ + Align(rd.len)]
  /\ rpc' = "next"
  /\ UNCHANGED <<cursorVars, slotVars, producerVars, stl, corrupt, log, delivered>>

\* One store of head covers the whole batch.
PublishHead ==
  /\ rpc = "publish"
  /\ head' = rd.head + rd.cons
  /\ rpc' = IF rd.count > 0 THEN "idle" ELSE "stalled"
  /\ rd' = IF rd.count > 0 THEN NoRead ELSE [NoRead EXCEPT !.limit = rd.limit]
  /\ UNCHANGED <<tail, headCache, mem, slotVars, producerVars, stl, corrupt, log, delivered>>
-----------------------------------------------------------------------------
(* receive: unstall *)

\* The read found nothing: ErrEmpty, or the caller's wait.
ReturnEmpty == rpc' = "idle" /\ rd' = NoRead /\ stl' = NoStall

\* Mutant: does not see the stall of a claim that has no header yet.
MutStalled ==
  LET len == mem[Index(head)].len IN
  /\ rpc = "stalled"
  /\ IF head = tail \/ len >= 0
       THEN ReturnEmpty
       ELSE /\ stl' = StallAt(head, len)
            /\ rpc' = "scanat"
            /\ UNCHANGED rd
  /\ UNCHANGED <<cursorVars, mem, slotVars, producerVars, corrupt, log, delivered>>

Stalled ==
  LET len == mem[Index(head)].len IN
  /\ rpc = "stalled"
  /\ IF head = tail \/ len > 0
       THEN ReturnEmpty
       ELSE /\ stl' = StallAt(head, len)
            /\ rpc' = "scanat"
            /\ UNCHANGED rd
  /\ UNCHANGED <<cursorVars, mem, slotVars, producerVars, corrupt, log, delivered>>

\* Goes on to the slot after i that covers the stall.
LookNext(s, i) ==
  LET rest == {j \in s.slots : j > i} IN
  \/ \E j \in rest :
       /\ \A k \in rest : j <= k
       /\ rpc' = "lookowner" /\ stl' = [s EXCEPT !.idx = j] /\ UNCHANGED rd
  \/ rest = {} /\ s.dead = {} /\ ReturnEmpty
  \/ rest = {} /\ s.dead # {} /\ rpc' = "reclaim" /\ stl' = s /\ UNCHANGED rd

ScanNext(s) ==
  IF s.idx < NSlots
    THEN rpc' = "scanat" /\ stl' = [s EXCEPT !.idx = s.idx + 1] /\ UNCHANGED rd
    ELSE LookNext(s, 0)

ScanAt ==
  LET a == at[stl.idx] IN
  /\ rpc = "scanat"
  /\ IF a # NoIntent /\ a <= stl.at
       THEN stl' = [stl EXCEPT !.from = a] /\ rpc' = "scansize" /\ UNCHANGED rd
       ELSE ScanNext(stl)
  /\ UNCHANGED <<cursorVars, mem, slotVars, producerVars, corrupt, log, delivered>>

ScanSize ==
  /\ rpc = "scansize"
  /\ ScanNext(IF stl.at < stl.from + size[stl.idx]
                 THEN [stl EXCEPT !.slots = @ \cup {stl.idx}] ELSE stl)
  /\ UNCHANGED <<cursorVars, mem, slotVars, producerVars, corrupt, log, delivered>>

LookOwner ==
  /\ rpc = "lookowner"
  /\ rpc' = "lookat"
  /\ stl' = [stl EXCEPT !.own = owner[stl.idx]]
  /\ UNCHANGED <<cursorVars, mem, slotVars, producerVars, rd, corrupt, log, delivered>>

LookAt ==
  /\ rpc = "lookat"
  /\ rpc' = "looksize"
  /\ stl' = [stl EXCEPT !.from = at[stl.idx]]
  /\ UNCHANGED <<cursorVars, mem, slotVars, producerVars, rd, corrupt, log, delivered>>

\* A slot that no longer covers the stall is skipped; a claim of the
\* receiver's own process is left alone.
LookSize ==
  LET n == size[stl.idx] IN
  /\ rpc = "looksize"
  /\ IF stl.own = NoProc \/ ~Covers(stl.from, n, stl.at) THEN LookNext(stl, stl.idx)
     ELSE IF stl.own \in Local THEN ReturnEmpty
     ELSE /\ stl' = [stl EXCEPT !.from = stl.from + n]
          /\ rpc' = "lookdead"
          /\ UNCHANGED rd
  /\ UNCHANGED <<cursorVars, mem, slotVars, producerVars, corrupt, log, delivered>>

\* Mutant: reclaims without the check that the owner is dead.
MutLookDead ==
  /\ rpc = "lookdead"
  /\ LookNext([stl EXCEPT !.end = stl.from, !.dead = @ \cup {stl.idx}], stl.idx)
  /\ UNCHANGED <<cursorVars, mem, slotVars, producerVars, corrupt, log, delivered>>

\* A live producer gets a watch.  Dead ones must agree where the claim ends.
LookDead ==
  LET end == stl.from IN
  /\ rpc = "lookdead"
  /\ IF stl.own \notin dead
       THEN ReturnEmpty /\ UNCHANGED corrupt
     ELSE IF stl.dead # {} /\ end # stl.end
       THEN ReturnEmpty /\ corrupt' = TRUE
     ELSE /\ LookNext([stl EXCEPT !.end = end, !.dead = stl.dead \cup {stl.idx}], stl.idx)
          /\ UNCHANGED corrupt
  /\ UNCHANGED <<cursorVars, mem, slotVars, producerVars, log, delivered>>

\* One lap segment at a time.
SegmentSize == IF stl.end - stl.at > ToEnd(stl.at) THEN ToEnd(stl.at) ELSE stl.end - stl.at

\* Mutant: stores the length and does not compare.
MutReclaimLength ==
  /\ rpc = "reclaim"
  /\ mem' = [mem EXCEPT ![Index(stl.at)].len = SegmentSize]
  /\ rpc' = "retype"
  /\ UNCHANGED <<cursorVars, slotVars, producerVars, rd, stl, corrupt, log, delivered>>

\* The length is swapped only if it is still the one the stall was found with.
ReclaimLength ==
  LET a == Index(stl.at) IN
  /\ rpc = "reclaim"
  /\ IF mem[a].len = stl.length
       THEN /\ mem' = [mem EXCEPT ![a].len = SegmentSize]
            /\ rpc' = "retype"
            /\ UNCHANGED <<rd, stl>>
       ELSE ReturnEmpty /\ UNCHANGED mem
  /\ UNCHANGED <<cursorVars, slotVars, producerVars, corrupt, log, delivered>>

ReclaimType ==
  /\ rpc = "retype"
  /\ mem' = [mem EXCEPT ![Index(stl.at)].typ = TypePadding]
  /\ rpc' = "forget"
  /\ UNCHANGED <<cursorVars, slotVars, producerVars, rd, stl, corrupt, log, delivered>>

\* Mutant: clears the intents after the first segment.
MutReclaimForget ==
  /\ rpc = "forget"
  /\ at' = [i \in Slots |-> IF i \in stl.dead THEN NoIntent ELSE at[i]]
  /\ rpc' = "read"
  /\ stl' = NoStall
  /\ UNCHANGED <<cursorVars, mem, owner, size, producerVars, rd, corrupt, log, delivered>>

\* The last segment also clears the intents, and the read runs again.
ReclaimForget ==
  /\ rpc = "forget"
  /\ at' = [i \in Slots |-> IF i \in stl.dead /\ stl.at + SegmentSize = stl.end
                              THEN NoIntent ELSE at[i]]
  /\ rpc' = "read"
  /\ stl' = NoStall
  /\ UNCHANGED <<cursorVars, mem, owner, size, producerVars, rd, corrupt, log, delivered>>
-----------------------------------------------------------------------------
ProducerStep(p) ==
  \/ AcquireFree(p) \/ AcquireTaken(p) \/ AcquireHead(p) \/ AcquireOwner(p)
  \/ AcquireIntent(p) \/ AcquireSteal(p) \/ DropOwner(p)
  \/ LoadTail(p) \/ LoadCache(p) \/ LoadHead(p) \/ StoreCache(p) \/ ReleaseFull(p)
  \/ StoreSize(p) \/ StoreAt(p) \/ SwapTail(p)
  \/ PadType(p) \/ PadLength(p) \/ ClaimType(p) \/ ClaimLength(p)
  \/ Fill(p) \/ Commit(p) \/ AbortType(p) \/ AbortLength(p) \/ Release(p)

ReaderStep ==
  \/ ReadStart \/ ReadNext \/ Deliver \/ Clear \/ ZeroLength \/ PublishHead
  \/ Stalled \/ ScanAt \/ ScanSize \/ LookOwner \/ LookAt \/ LookSize \/ LookDead
  \/ ReclaimLength \/ ReclaimType \/ ReclaimForget

Next ==
  \/ \E p \in Producers :
       ProducerStep(p) \/ DropIntent(p) \/ Crash(p) \/ \E n \in Lengths : Begin(p, n)
  \/ ReaderStep
  \/ \E n \in Limits : Receive(n)

Spec == Init /\ [][Next]_vars
-----------------------------------------------------------------------------
ProducerPc == Claiming \cup {"idle", "drop", "padtype", "padlen", "type", "len", "open",
                             "commit", "abort", "release"}
ReadPc == {"next", "deliver", "clear", "zero", "publish"}
StallPc == {"stalled", "scanat", "scansize", "lookowner", "lookat", "looksize", "lookdead",
            "reclaim", "retype", "forget"}
Word == [len : Int, typ : Int]
Claim == [by : Producers, at : Nat, end : Nat, is : {"open", "committed", "aborted"}]
ProducerLocals == [slot : 0..NSlots, len : Nat, tail : Nat, head : Nat,
                   scan : Slots, own : Producers \cup {NoProc}, msg : Nat]
ReadLocals == [limit : Nat, count : Nat, head : Nat, avail : Nat, cons : Nat, len : Int]
StallLocals == [at : Nat, length : Int, slots : SUBSET Slots, idx : Slots,
                own : Producers \cup {NoProc}, from : Int, end : Int, dead : SUBSET Slots]

SegmentType ==
  /\ tail \in Nat /\ head \in Nat /\ headCache \in Nat
  /\ mem \in [Addr -> Word]
SlotType ==
  /\ owner \in [Slots -> Producers \cup {NoProc}]
  /\ at \in [Slots -> Nat \cup {NoIntent}]
  /\ size \in [Slots -> Nat]
ReaderType ==
  /\ rpc \in {"idle", "read"} \cup ReadPc \cup StallPc
  /\ rd \in ReadLocals
  /\ stl \in StallLocals
  /\ corrupt \in BOOLEAN
HistoryType ==
  /\ log \in Seq(Claim)
  /\ delivered \in Seq([typ : Int, words : SUBSET Word])

\* Every variable keeps its type: cursors are naturals, a slot names a process
\* or nobody, and every step a process can stand at is one of the code's.
TypeOK ==
  /\ SegmentType /\ SlotType /\ ReaderType /\ HistoryType
  /\ pc \in [Producers -> ProducerPc] /\ me \in [Producers -> ProducerLocals]
  /\ dead \subseteq Producers

\* The cursors of ring.go: no producer laps the reader, the cached head never
\* runs ahead of the real one, and the reader never passes the tail.
CursorOrder == headCache <= head /\ head <= tail /\ tail <= head + Capacity

\* How far the reader is, in the middle of a Read or between two.
ReadPos ==
  IF rpc \in ReadPc
    THEN rd.head + rd.cons + (IF rpc \in {"clear", "zero"} THEN Align(rd.len) ELSE 0)
    ELSE head

\* Read hands every committed message to fn once, in the order of the claims,
\* and nothing else, no aborted, unfinished or left-over record: the ring
\* implements MpscLog.  A step of Deliver passes a claim, and nothing else does.
Passed == Cardinality({k \in DOMAIN log : log[k].end <= ReadPos})
Log == INSTANCE MpscLog WITH
  entries <- [k \in DOMAIN log |-> [by |-> log[k].by, is |-> log[k].is]],
  passed <- Passed,
  out <- [i \in DOMAIN delivered |-> delivered[i].typ],
  gone <- dead
RefinesLog == Log!Spec

\* The payload fn sees is the payload that the producer of that message copied.
PayloadIntact ==
  \A i \in DOMAIN delivered : delivered[i].words \subseteq {PayloadWord(delivered[i].typ)}

\* Space that no claim covers holds zeros.  A claim takes it before it writes
\* its header, so the reader that finds it there must find a zero length.
FreeSpaceIsZero ==
  \A a \in Addr : mem[a] # Zero => \E c \in head..tail - 1 : Index(c) = a

\* No Read and no recovery reports ErrCorrupt.
NeverCorrupt == ~corrupt

\* ring.go: "A reader stopped inside that range can therefore always find the
\* producer that is responsible."
Attributable ==
  (rpc \notin ReadPc /\ head # tail /\ mem[Index(head)].len <= 0) =>
    \E k \in DOMAIN log, s \in Slots :
      /\ log[k].at <= head /\ head < log[k].end
      /\ owner[s] = log[k].by
      /\ Covers(at[s], size[s], head)

\* A claim never wedges the ring: again and again the reader is past every claim
\* there is, whether its producer commits, aborts or dies in the middle.
NoWedge == []<>(\A k \in DOMAIN log : log[k].end <= head)
=============================================================================
