------------------------------- MODULE Stream -------------------------------
(***************************************************************************)
(* One direction of a Conn (conn.go) with its deadlines (deadline.go): the *)
(* goroutines that write and half close on one side, the Read of the other *)
(* side, both Closes, and the death of the writing process.                *)
(*                                                                         *)
(* The Channel below is a sequence of messages with room for Room of them: *)
(* SendTyped and RecvInto are one step that blocks (how they park is in    *)
(* Queue).  Whoever waits for readMu has done nothing yet, so one Read at  *)
(* a time stands for them all.  A byte is <<write, index>>.                *)
(***************************************************************************)
EXTENDS Integers, Sequences, FiniteSets

CONSTANTS
  Writers,   \* goroutines of the writing side
  WriteLen,  \* bytes of a Write
  Limit,     \* MaxMessageSize
  ReadLens,  \* sizes of the buffer of a Read
  Room,      \* messages that fit in the channel
  MaxWrites, \* bound: Writes
  MaxSets,   \* bound: SetDeadline calls
  Times,     \* the kinds of deadline that are set: "none", "past", "later"
  Mortal     \* whether the writing process may die

Dirs == {"read", "write"}
Nobody == "nobody"

VARIABLES
  chan,                          \* the messages in the channel
  wmu, wpc, call,                \* writeMu; each writer: its step and its locals
  eofSent, cpc, alive,           \* the writing side; cpc is the step of its Close
  rpc, rmsg, rerr, pending, eof, \* the reading side: step of Read, what RecvInto returned
  rclosing, rclosed,             \* its Close: base cancelled, channel closed
  ctx,                           \* each direction: the context of its operation
  gen, timer, late, expired,     \* each direction: its deadline; late holds timers that went off
  sent, eofAt, got, due, sets, writes, dropped \* history

writeVars == <<wmu, wpc, call, eofSent, writes>>
closeVars == <<cpc, alive>>
readVars == <<rpc, rmsg, rerr, pending, eof, got, dropped>>
readCloseVars == <<rclosing, rclosed>>
deadlineVars == <<gen, timer, late, expired, due, sets>>
chanVars == <<chan, sent, eofAt>>
vars == <<writeVars, closeVars, readVars, readCloseVars, deadlineVars, chanVars, ctx>>

EOF == <<>>       \* the message that ends the stream; data is never empty
None == "none"
\* The locals of a Write, op being its number, or of a CloseWrite, with op = 0.
NoCall == [op |-> 0, written |-> 0, err |-> None]
Never == -1       \* eofAt while no end was sent

Init ==
  /\ chan = <<>> /\ sent = <<>> /\ eofAt = Never
  /\ wmu = Nobody /\ wpc = [w \in Writers |-> "idle"] /\ call = [w \in Writers |-> NoCall]
  /\ eofSent = FALSE /\ writes = 0 /\ cpc = "open" /\ alive = TRUE
  /\ rpc = "idle" /\ rmsg = EOF /\ rerr = None /\ pending = <<>> /\ eof = FALSE
  /\ got = <<>> /\ dropped = FALSE /\ rclosing = FALSE /\ rclosed = FALSE
  /\ ctx = [d \in Dirs |-> "off"]
  /\ gen = [d \in Dirs |-> 0] /\ timer = [d \in Dirs |-> 0] /\ late = [d \in Dirs |-> {}]
  /\ expired = [d \in Dirs |-> FALSE] /\ due = [d \in Dirs |-> FALSE] /\ sets = 0
-----------------------------------------------------------------------------
(* The channel below *)

\* The reading side sees the writing side end with the close of its queues or its
\* process.
WriterGone == cpc \in {"tx", "done"} \/ ~alive

Put(m) ==
  /\ chan' = Append(chan, m)
  /\ sent' = sent \o m
  /\ eofAt' = IF m = EOF /\ eofAt = Never THEN Len(sent) ELSE eofAt
-----------------------------------------------------------------------------
(* deadline *)

\* Mutant: leaves the operation under way alone.
MutExpire(d) == expired' = [expired EXCEPT ![d] = TRUE] /\ UNCHANGED ctx

Expire(d) ==
  /\ expired' = [expired EXCEPT ![d] = TRUE]
  /\ ctx' = [ctx EXCEPT ![d] = IF @ = "live" THEN "deadline" ELSE @]

set(d, at) ==
  /\ sets < MaxSets /\ (d = "write" => alive)
  /\ sets' = sets + 1
  /\ gen' = [gen EXCEPT ![d] = @ + 1]
  /\ timer' = [timer EXCEPT ![d] = IF at = "later" THEN gen[d] + 1 ELSE 0]
  /\ due' = [due EXCEPT ![d] = at = "past"]
  /\ IF at = "past" THEN Expire(d)
     ELSE expired' = [expired EXCEPT ![d] = FALSE] /\ UNCHANGED ctx
  /\ UNCHANGED <<late, chanVars, writeVars, closeVars, readVars, readCloseVars>>

\* The time comes.  Stop does not reach a function that has started.
GoesOff(d) ==
  /\ timer[d] # 0
  /\ timer' = [timer EXCEPT ![d] = 0]
  /\ late' = [late EXCEPT ![d] = @ \cup {timer[d]}]
  /\ due' = [due EXCEPT ![d] = TRUE]
  /\ UNCHANGED <<gen, expired, sets, ctx, chanVars, writeVars, closeVars, readVars, readCloseVars>>

\* Mutant: expires whatever deadline is set now.
Mutfire(d, g) ==
  /\ g \in late[d]
  /\ late' = [late EXCEPT ![d] = @ \ {g}]
  /\ Expire(d)
  /\ UNCHANGED <<gen, timer, due, sets, chanVars, writeVars, closeVars, readVars, readCloseVars>>

fire(d, g) ==
  /\ g \in late[d]
  /\ late' = [late EXCEPT ![d] = @ \ {g}]
  /\ IF g = gen[d] THEN Expire(d) ELSE UNCHANGED <<expired, ctx>>
  /\ UNCHANGED <<gen, timer, due, sets, chanVars, writeVars, closeVars, readVars, readCloseVars>>

begin(d, cancelled) == ctx' = [ctx EXCEPT ![d] = IF cancelled THEN "canceled" ELSE "live"]
done(d) == ctx' = [ctx EXCEPT ![d] = "off"]

\* translate: the cause of the context comes before the error of the operation.
translate(d, err) == IF ctx[d] = "deadline" THEN "deadline"
                     ELSE IF err = "canceled" THEN "closed" ELSE err
-----------------------------------------------------------------------------
(* Write and CloseWrite *)

Goto(w, l) == wpc' = [wpc EXCEPT ![w] = l]
Return(w) == Goto(w, "idle") /\ wmu' = Nobody /\ call' = [call EXCEPT ![w] = NoCall]

Start(w, op) ==
  /\ wpc[w] = "idle" /\ wmu = Nobody /\ alive
  /\ IF eofSent THEN UNCHANGED <<wpc, wmu, call>>
     ELSE Goto(w, "begin") /\ wmu' = w /\ call' = [call EXCEPT ![w].op = op]
  /\ UNCHANGED <<eofSent, chanVars, closeVars, readVars, readCloseVars, deadlineVars, ctx>>

Write(w) == writes < MaxWrites /\ writes' = writes + 1 /\ Start(w, writes + 1)
CloseWrite(w) == ~eofSent /\ UNCHANGED writes /\ Start(w, 0)

\* begin of the deadline refuses an operation whose deadline has passed.
BeginSend(w) ==
  /\ wpc[w] = "begin" /\ alive
  /\ IF expired["write"] THEN Return(w) /\ UNCHANGED ctx
     ELSE Goto(w, "send") /\ begin("write", cpc \notin {"open", "cancel"}) /\ UNCHANGED <<wmu, call>>
  /\ UNCHANGED <<eofSent, writes, chanVars, closeVars, readVars, readCloseVars, deadlineVars>>

Chunk(w) ==
  LET c == call[w]
      end == IF c.written + Limit > WriteLen THEN WriteLen ELSE c.written + Limit
  IN IF c.op = 0 THEN EOF ELSE [i \in 1..(end - c.written) |-> <<c.op, c.written + i>>]

Fails(w, err) == call' = [call EXCEPT ![w].err = err] /\ UNCHANGED chanVars

\* SendTyped tries before it looks at its context, and blocks on a full channel.
SendTyped(w) ==
  /\ wpc[w] = "send" /\ alive
  /\ \/ cpc = "done" /\ Fails(w, "closed")
     \/ cpc # "done" /\ rclosed /\ Fails(w, "gone")
     \/ cpc # "done" /\ ~rclosed /\ Len(chan) < Room /\ Put(Chunk(w)) /\ UNCHANGED call
     \/ cpc # "done" /\ ~rclosed /\ Len(chan) = Room /\ ctx["write"] # "live" /\ Fails(w, "canceled")
  /\ Goto(w, "sent")
  /\ UNCHANGED <<wmu, eofSent, writes, closeVars, readVars, readCloseVars, deadlineVars, ctx>>

\* Mutant: lets go of the mutex between the messages of one Write.
MutSent(w) ==
  LET err == translate("write", call[w].err)
      n == call[w].written + Len(Chunk(w)) IN
  /\ wpc[w] = "sent" /\ alive
  /\ done("write")
  /\ eofSent' = (eofSent \/ (err = None /\ call[w].op = 0))
  /\ IF err = None /\ call[w].op # 0 /\ n < WriteLen
       THEN Goto(w, "begin") /\ call' = [call EXCEPT ![w].written = n] /\ wmu' = Nobody
       ELSE Return(w)
  /\ UNCHANGED <<writes, chanVars, closeVars, readVars, readCloseVars, deadlineVars>>

Sent(w) ==
  LET err == translate("write", call[w].err)
      n == call[w].written + Len(Chunk(w)) IN
  /\ wpc[w] = "sent" /\ alive
  /\ done("write")
  /\ eofSent' = (eofSent \/ (err = None /\ call[w].op = 0))
  /\ IF err = None /\ call[w].op # 0 /\ n < WriteLen
       THEN Goto(w, "begin") /\ call' = [call EXCEPT ![w].written = n] /\ UNCHANGED wmu
       ELSE Return(w)
  /\ UNCHANGED <<writes, chanVars, closeVars, readVars, readCloseVars, deadlineVars>>
-----------------------------------------------------------------------------
(* Close of the writing side, and its death *)

\* The end of the stream is tried once and without writeMu.
CloseEOF ==
  /\ cpc = "open" /\ alive
  /\ cpc' = "cancel" /\ eofSent' = TRUE
  /\ IF ~eofSent /\ ~rclosed /\ Len(chan) < Room THEN Put(EOF) ELSE UNCHANGED chanVars
  /\ UNCHANGED <<wmu, wpc, call, writes, alive, readVars, readCloseVars, deadlineVars, ctx>>

CancelBase ==
  /\ cpc = "cancel" /\ alive
  /\ cpc' = "rx"
  /\ ctx' = [ctx EXCEPT !["write"] = IF @ = "live" THEN "canceled" ELSE @]
  /\ UNCHANGED <<alive, writeVars, chanVars, readVars, readCloseVars, deadlineVars>>

\* Channel.Close: the receiving end, then the sending end, which waits for the
\* sends that entered it.
CloseRx ==
  /\ cpc = "rx" /\ alive
  /\ cpc' = "tx"
  /\ UNCHANGED <<alive, writeVars, chanVars, readVars, readCloseVars, deadlineVars, ctx>>

CloseTx ==
  /\ cpc = "tx" /\ alive
  /\ cpc' = "done"
  /\ UNCHANGED <<alive, writeVars, chanVars, readVars, readCloseVars, deadlineVars, ctx>>

Die ==
  /\ Mortal /\ alive
  /\ alive' = FALSE
  /\ UNCHANGED <<cpc, writeVars, chanVars, readVars, readCloseVars, deadlineVars, ctx>>
-----------------------------------------------------------------------------
(* Read *)

Copy(n) ==
  LET k == IF n < Len(pending) THEN n ELSE Len(pending) IN
  /\ got' = got \o SubSeq(pending, 1, k)
  /\ pending' = SubSeq(pending, k + 1, Len(pending))

\* The loop of Read: what is left over, the end of the stream, or a receive.
Read(n) ==
  /\ rpc = "idle"
  /\ \/ pending # <<>> /\ Copy(n) /\ UNCHANGED <<rpc, ctx>>
     \/ /\ pending = <<>> /\ ~eof /\ ~expired["read"]
        /\ begin("read", rclosing) /\ rpc' = "recv" /\ UNCHANGED <<got, pending>>
  /\ UNCHANGED <<rmsg, rerr, eof, dropped, chanVars, writeVars, closeVars, readCloseVars, deadlineVars>>

\* RecvInto reads before it reports that the peer is gone or its context ended.
RecvInto ==
  /\ rpc = "recv"
  /\ rpc' = "received"
  /\ \/ rclosed /\ rerr' = "closed" /\ UNCHANGED <<chan, rmsg>>
     \/ ~rclosed /\ chan # <<>> /\ rmsg' = Head(chan) /\ chan' = Tail(chan) /\ rerr' = None
     \/ ~rclosed /\ chan = <<>> /\ WriterGone /\ rerr' = "gone" /\ UNCHANGED <<chan, rmsg>>
     \/ /\ ~rclosed /\ chan = <<>> /\ ~WriterGone /\ ctx["read"] # "live"
        /\ rerr' = "canceled" /\ UNCHANGED <<chan, rmsg>>
  /\ UNCHANGED <<sent, eofAt, pending, eof, got, dropped, writeVars, closeVars, readCloseVars, deadlineVars, ctx>>

\* Mutant: takes the end of the stream for a message without bytes.
MutReceived ==
  LET err == translate("read", rerr) IN
  /\ rpc = "received"
  /\ done("read") /\ rpc' = "idle" /\ rmsg' = EOF /\ rerr' = None
  /\ dropped' = (dropped \/ (err = "deadline" /\ rerr = None))
  /\ pending' = IF err = None THEN rmsg ELSE <<>>
  /\ UNCHANGED <<eof, got, chanVars, writeVars, closeVars, readCloseVars, deadlineVars>>

Received ==
  LET err == translate("read", rerr) IN
  /\ rpc = "received"
  /\ done("read") /\ rpc' = "idle" /\ rmsg' = EOF /\ rerr' = None
  /\ dropped' = (dropped \/ (err = "deadline" /\ rerr = None))
  /\ eof' = (eof \/ (err = None /\ rmsg = EOF))
  /\ pending' = IF err = None THEN rmsg ELSE <<>>
  /\ UNCHANGED <<got, chanVars, writeVars, closeVars, readCloseVars, deadlineVars>>

CloseReader ==
  /\ ~rclosing
  /\ rclosing' = TRUE
  /\ ctx' = [ctx EXCEPT !["read"] = IF @ = "live" THEN "canceled" ELSE @]
  /\ UNCHANGED <<rclosed, chanVars, writeVars, closeVars, readVars, deadlineVars>>

CloseReaderChannel ==
  /\ rclosing /\ ~rclosed
  /\ rclosed' = TRUE
  /\ UNCHANGED <<rclosing, chanVars, writeVars, closeVars, readVars, deadlineVars, ctx>>
-----------------------------------------------------------------------------
WriterStep(w) == BeginSend(w) \/ SendTyped(w) \/ Sent(w)
CloseStep == CancelBase \/ CloseRx \/ CloseTx
ReadStep == RecvInto \/ Received
FireStep(d) == \E g \in late[d] : fire(d, g)

Next ==
  \/ \E w \in Writers : Write(w) \/ CloseWrite(w) \/ WriterStep(w)
  \/ CloseEOF \/ CloseStep \/ Die
  \/ (\E n \in ReadLens : Read(n)) \/ ReadStep \/ CloseReader \/ CloseReaderChannel
  \/ \E d \in Dirs : GoesOff(d) \/ FireStep(d) \/ \E at \in Times : set(d, at)

Spec == Init /\ [][Next]_vars

\* Goroutines that can run do; nobody has to read, write, close or die.
Fairness ==
  /\ \A w \in Writers : WF_vars(WriterStep(w))
  /\ \A d \in Dirs : WF_vars(FireStep(d))
  /\ WF_vars(CloseStep) /\ WF_vars(ReadStep) /\ WF_vars(CloseReaderChannel)

FairSpec == Spec /\ Fairness
-----------------------------------------------------------------------------
\* The bytes up to the end of the stream, if it has one.
Stream == IF eofAt = Never THEN sent ELSE SubSeq(sent, 1, eofAt)

\* conn.go: Read "returns io.EOF after the peer has closed and every byte it sent
\* has been consumed", and no byte is lost, repeated or out of order before that.
EveryByteRead ==
  /\ Len(got) <= Len(Stream) /\ got = SubSeq(Stream, 1, Len(got))
  /\ eof => got = Stream

\* It is so, however writes, half closes and Closes interleave, unless a deadline
\* passed between a receive and the look at its context.
StreamIntact == ~dropped => EveryByteRead

\* The bytes of a Write are together in the stream: writeMu holds over its messages.
WritesWhole ==
  \A i, j \in DOMAIN sent : i < j /\ sent[i][1] = sent[j][1] =>
    \A k \in i..j : sent[k] = <<sent[i][1], sent[i][2] + (k - i)>>

\* deadline.go: fire expires the deadline, "unless a later set replaced it": no timer
\* of an earlier deadline ends an operation under a later one.
DeadlineReal == \A d \in Dirs : expired[d] => due[d]

\* A blocked operation ends when its deadline passes, its side closes, or the other
\* side closes or dies: however often it is tried again, none stays blocked.
OpsEnd ==
  /\ []<>(alive /\ (expired["write"] \/ cpc # "open" \/ rclosed) => wmu = Nobody)
  /\ []<>(expired["read"] \/ rclosing \/ WriterGone => rpc = "idle")
=============================================================================
