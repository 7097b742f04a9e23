---------------------------- MODULE StreamProofs ----------------------------
(***************************************************************************)
(* Three properties of a stream, each for any number of writers and calls, *)
(* any sizes of writes, messages and buffers, and any room in the channel. *)
(*                                                                         *)
(* A deadline expires only when its time has come.  The strengthening is   *)
(* about generations: a timer carries that of the set which started it,    *)
(* and those that went off carry no later one than the present.            *)
(*                                                                         *)
(* The bytes of a Write are together.  The strengthening is about the      *)
(* writer that holds writeMu: what it has sent is the end of the stream.   *)
(*                                                                         *)
(* Every byte is read once and in order.  The strengthening gives every    *)
(* message in the channel its place in the stream: they follow each other, *)
(* from what the reader has taken to all that was sent, and the first      *)
(* message without bytes is at the end of the stream.                      *)
(***************************************************************************)
EXTENDS Stream, TLAPS

USE SMTT(20), Z3T(20)
-----------------------------------------------------------------------------
(* Deadlines *)

IInv ==
  /\ gen \in [Dirs -> Nat] /\ timer \in [Dirs -> Nat] /\ DOMAIN late = Dirs
  /\ DOMAIN expired = Dirs /\ DOMAIN due = Dirs
  /\ \A d \in Dirs :
       /\ timer[d] \in {0, gen[d]}
       /\ \A g \in late[d] : g \in Nat /\ g <= gen[d]
       /\ gen[d] \in late[d] => due[d]
  /\ DeadlineReal

\* No deadline is set at the start.
LEMMA InitInv == Init => IInv
  BY DEF Init, IInv, DeadlineReal, Dirs

\* A new deadline has a generation that no timer before it has.
LEMMA SetInv ==
  ASSUME IInv, NEW d \in Dirs, NEW at \in Times, set(d, at)
  PROVE  IInv'
<1> USE DEF IInv, DeadlineReal
<1>1. gen' = [gen EXCEPT ![d] = @ + 1] /\ late' = late
  BY DEF set
<1>2. gen[d] + 1 \notin late[d]
  BY DEF set
<1>3. timer' \in [Dirs -> Nat] /\ timer'[d] \in {0, gen[d] + 1}
      /\ \A e \in Dirs \ {d} : timer'[e] = timer[e]
  BY DEF set
<1>4. due' = [due EXCEPT ![d] = (at = "past")]
  BY DEF set
<1>5. expired' = [expired EXCEPT ![d] = (at = "past")]
  <2>1. CASE at = "past"
    BY <2>1, Zenon DEF set, Expire
  <2>2. CASE at # "past"
    BY <2>2, Zenon DEF set
  <2> QED
    BY <2>1, <2>2
<1>6. DeadlineReal'
  BY <1>4, <1>5
<1>7. ASSUME NEW e \in Dirs
      PROVE  /\ timer'[e] \in {0, gen'[e]}
             /\ \A g \in late'[e] : g \in Nat /\ g <= gen'[e]
             /\ gen'[e] \in late'[e] => due'[e]
  <2>1. CASE e = d
    BY <1>1, <1>2, <1>3, <2>1
  <2>2. CASE e # d
    BY <1>1, <1>3, <1>4, <2>2
  <2> QED
    BY <2>1, <2>2
<1> QED
  BY <1>1, <1>3, <1>4, <1>5, <1>6, <1>7

\* A timer that goes off is that of the present deadline, which is now due.
LEMMA GoesOffInv ==
  ASSUME IInv, NEW d \in Dirs, GoesOff(d)
  PROVE  IInv'
  BY DEF IInv, DeadlineReal, GoesOff

\* A function that runs late expires the deadline of its own generation or none.
LEMMA FireInv ==
  ASSUME IInv, NEW d \in Dirs, NEW g \in late[d], fire(d, g)
  PROVE  IInv'
  BY DEF IInv, DeadlineReal, fire, Expire

\* Whatever leaves the deadlines alone keeps the invariant.
LEMMA FrameInv == IInv /\ UNCHANGED deadlineVars => IInv'
  BY DEF IInv, DeadlineReal, deadlineVars

\* Reads, writes and Closes only look at the deadlines.
LEMMA StepInv == IInv /\ [Next]_vars => IInv'
<1> SUFFICES ASSUME IInv, [Next]_vars PROVE IInv'
  OBVIOUS
<1>1. ASSUME NEW w \in Writers, Write(w) \/ CloseWrite(w) \/ WriterStep(w)
      PROVE  UNCHANGED deadlineVars
  BY <1>1 DEF Write, CloseWrite, Start, WriterStep, BeginSend, SendTyped, Sent
<1>2. ASSUME CloseEOF \/ CloseStep \/ Die PROVE UNCHANGED deadlineVars
  BY <1>2 DEF CloseEOF, CloseStep, CancelBase, CloseRx, CloseTx, Die
<1>3. ASSUME (\E n \in ReadLens : Read(n)) \/ ReadStep \/ CloseReader \/ CloseReaderChannel
      PROVE  UNCHANGED deadlineVars
  BY <1>3 DEF Read, ReadStep, RecvInto, Received, CloseReader, CloseReaderChannel
<1>4. ASSUME NEW d \in Dirs, GoesOff(d) \/ FireStep(d) \/ \E at \in Times : set(d, at)
      PROVE  IInv'
  BY <1>4, SetInv, GoesOffInv, FireInv DEF FireStep
<1>5. CASE UNCHANGED vars
  BY <1>5, FrameInv DEF vars
<1> QED
  BY <1>1, <1>2, <1>3, <1>4, <1>5, FrameInv DEF Next

\* DeadlineReal always holds.  deadline.go: fire expires the deadline "unless a later
\* set replaced it", so no operation ends for a deadline that was moved or cleared.
THEOREM DeadlinesReal == Spec => []DeadlineReal
<1>1. IInv => DeadlineReal
  BY DEF IInv
<1> QED
  BY InitInv, StepInv, <1>1, PTL DEF Spec
-----------------------------------------------------------------------------
(* Writes *)

\* A byte is known by its Write and its place in it; a message is a sequence of bytes, and
\* a call of Write keeps the number of its Write, what it has written, and its error.
Byte == Nat \X Nat
Msg == Seq(Byte)
Locals == [op : Nat, written : Nat, err : {None, "closed", "gone", "canceled"}]

\* What the constants are in a program: Write returns at once for no bytes, and
\* MaxMessageSize is positive.
Sane ==
  /\ WriteLen \in Nat \ {0} /\ Limit \in Nat \ {0} /\ ReadLens \subseteq Nat
  /\ Nobody \notin Writers

\* The bytes from d on, and no others, are the first of the Write o.
Block(o, d) ==
  /\ d \in 0..Len(sent)
  /\ \A i \in 1..Len(sent) : (i > d => sent[i] = <<o, i - d>>) /\ (i <= d => sent[i][1] # o)

\* How many bytes of its Write the writer w has sent: a chunk counts once it is in the channel.
Out(w) ==
  IF wpc[w] = "sent" /\ call[w].err = None
    THEN call[w].written + Len(Chunk(w)) ELSE call[w].written

\* A call under way holds writeMu, and what it has sent of its Write is the end of the
\* stream.
WriterOK(w) ==
  /\ wpc[w] # "idle" => wmu = w
  /\ wpc[w] = "idle" => call[w] = NoCall
  /\ wpc[w] # "sent" => call[w].err = None
  /\ call[w].op <= writes /\ call[w].written < WriteLen
  /\ call[w].op # 0 => Block(call[w].op, Len(sent) - Out(w))

\* Nobody else's bytes come in between, because only the holder of writeMu sends.
WriteInv ==
  /\ sent \in Msg /\ writes \in Nat
  /\ wpc \in [Writers -> {"idle", "begin", "send", "sent"}] /\ call \in [Writers -> Locals]
  /\ \A w \in Writers : WriterOK(w)
  /\ \A i \in 1..Len(sent) : sent[i][1] \in 1..writes
  /\ WritesWhole

\* The chunk of a Write is not empty and goes on where the last one stopped; that of
\* CloseWrite is empty (chunk bounds in Write).
LEMMA ChunkLaw ==
  ASSUME Sane, NEW w, call[w] \in Locals, call[w].written < WriteLen
  PROVE  /\ Chunk(w) \in Msg /\ (call[w].op = 0 => Chunk(w) = EOF /\ Len(Chunk(w)) = 0)
         /\ call[w].op # 0 => /\ Len(Chunk(w)) \in 1..(WriteLen - call[w].written)
                              /\ \A k \in 1..Len(Chunk(w)) :
                                   Chunk(w)[k] = <<call[w].op, call[w].written + k>>
<1>1. CASE call[w].op = 0
  BY <1>1 DEF Chunk, EOF, Msg
<1>2. CASE call[w].op # 0
  <2> DEFINE c == call[w]
             end == IF c.written + Limit > WriteLen THEN WriteLen ELSE c.written + Limit
             m == [i \in 1..(end - c.written) |-> <<c.op, c.written + i>>]
  <2>1. c.op \in Nat /\ c.written \in Nat /\ end - c.written \in 1..(WriteLen - c.written)
    BY DEF Sane, Locals
  <2>2. m \in Msg /\ Len(m) = end - c.written
    BY <2>1 DEF Msg, Byte
  <2>3. Chunk(w) = m
    BY <1>2 DEF Chunk
  <2> QED
    BY <1>2, <2>1, <2>2, <2>3
<1> QED
  BY <1>1, <1>2

\* A chunk behind the bytes of its own Write makes the block longer and keeps every Write
\* together.
LEMMA BlockGrows ==
  ASSUME sent \in Msg, NEW m \in Msg, sent' = sent \o m, NEW o \in Nat, NEW d \in Nat, Block(o, d),
         WritesWhole,
         \A k \in 1..Len(m) : m[k] = <<o, (Len(sent) - d) + k>>
  PROVE  sent' \in Msg /\ Len(sent') = Len(sent) + Len(m) /\ Block(o, d)' /\ WritesWhole'
<1>1. /\ sent' \in Msg /\ Len(sent') = Len(sent) + Len(m) /\ Len(sent) \in Nat /\ Len(m) \in Nat
      /\ \A i \in 1..Len(sent) : sent'[i] = sent[i]
      /\ \A i \in 1..Len(sent') : i > Len(sent) => sent'[i] = m[i - Len(sent)]
      /\ DOMAIN sent = 1..Len(sent) /\ DOMAIN sent' = 1..Len(sent')
  BY DEF Msg
<1>2. ASSUME NEW i \in 1..Len(sent')
      PROVE  (i > d => sent'[i] = <<o, i - d>>) /\ (i <= d => sent'[i] = sent[i] /\ sent[i][1] # o)
  <2>1. CASE i \in 1..Len(sent)
    BY <1>1, <2>1 DEF Block
  <2>2. CASE i > Len(sent)
    <3>1. i - Len(sent) \in 1..Len(m) /\ i > d
      BY <1>1, <2>2 DEF Block
    <3>2. sent'[i] = <<o, (Len(sent) - d) + (i - Len(sent))>>
      BY <1>1, <2>2, <3>1
    <3>3. (Len(sent) - d) + (i - Len(sent)) = i - d
      BY <1>1
    <3> QED
      BY <3>1, <3>2, <3>3
  <2> QED
    BY <1>1, <2>1, <2>2
<1>3. Block(o, d)'
  <2>1. d \in 0..Len(sent')
    BY <1>1 DEF Block
  <2>2. \A i \in 1..Len(sent') : (i > d => sent'[i] = <<o, i - d>>) /\ (i <= d => sent'[i][1] # o)
    BY <1>2
  <2> QED
    BY <2>1, <2>2, Zenon DEF Block
<1>4. WritesWhole'
  <2> SUFFICES ASSUME NEW i \in 1..Len(sent'), NEW j \in 1..Len(sent'), i < j,
                      sent'[i][1] = sent'[j][1], NEW k \in i..j
               PROVE  sent'[k] = <<sent'[i][1], sent'[i][2] + (k - i)>>
    BY <1>1, Zenon DEF WritesWhole
  <2>0. k \in 1..Len(sent') /\ k >= i /\ k <= j
    BY <1>1
  <2>1. CASE i > d
    <3>0. k > d
      BY <2>0, <2>1
    <3>1. sent'[i] = <<o, i - d>> /\ sent'[k] = <<o, k - d>>
      BY <1>2, <2>0, <2>1, <3>0, Zenon
    <3>2. k - d = (i - d) + (k - i)
      BY <2>0
    <3> QED
      BY <3>1, <3>2
  <2>2. CASE i <= d
    <3>1. j <= d
      <4>1. CASE j > d
        BY <1>2, <2>2, <4>1
      <4> QED
        BY <4>1
    <3>2. i \in 1..Len(sent) /\ j \in 1..Len(sent)
      BY <1>1, <2>2, <3>1 DEF Block
    <3>3. sent'[i] = sent[i] /\ sent'[j] = sent[j] /\ sent'[k] = sent[k]
      BY <1>1, <2>0, <3>2
    <3> QED
      BY <1>1, <3>2, <3>3, Zenon DEF WritesWhole
  <2>3. i > d \/ i <= d
    BY DEF Block
  <2> QED
    BY <2>1, <2>2, <2>3, Zenon
<1> QED
  BY <1>1, <1>3, <1>4

\* A Write or CloseWrite that takes writeMu has sent nothing yet.
LEMMA WriteStart ==
  ASSUME Sane, WriteInv, NEW w \in Writers, Write(w) \/ CloseWrite(w)
  PROVE  WriteInv'
<1>0. /\ sent' = sent /\ writes' \in {writes, writes + 1} /\ writes \in Nat /\ wmu = Nobody
      /\ \A v \in Writers : wpc[v] = "idle" /\ call[v] = NoCall
  BY DEF WriteInv, WriterOK, Sane, Write, CloseWrite, Start, chanVars
<1>1. CASE UNCHANGED <<wpc, wmu, call>>
  <2>1. \A v \in Writers : WriterOK(v)'
    BY <1>0, <1>1 DEF WriterOK, NoCall, Sane, None
  <2> QED
    BY <1>0, <1>1, <2>1 DEF WriteInv, WritesWhole
<1>2. ASSUME NEW o \in {0, writes'}, wpc' = [wpc EXCEPT ![w] = "begin"], wmu' = w,
             call' = [call EXCEPT ![w].op = o], o # 0 => writes' = writes + 1
      PROVE  WriteInv'
  <2>1. call' \in [Writers -> Locals] /\ call'[w] = [op |-> o, written |-> 0, err |-> None]
        /\ \A v \in Writers \ {w} : call'[v] = NoCall
    BY <1>0, <1>2 DEF WriteInv, Locals, NoCall, None
  <2>2. wpc' \in [Writers -> {"idle", "begin", "send", "sent"}] /\ wpc'[w] = "begin"
        /\ \A v \in Writers \ {w} : wpc'[v] = "idle"
    BY <1>0, <1>2 DEF WriteInv
  <2>3. o # 0 => Block(o, Len(sent))'
    BY <1>0, <1>2 DEF Block, WriteInv, Msg
  <2>4. Out(w)' = 0
    BY <2>1, <2>2 DEF Out
  <2>5. ASSUME NEW v \in Writers PROVE WriterOK(v)'
    <3>1. CASE v = w
      <4>1. Len(sent') - Out(w)' = Len(sent)
        BY <1>0, <2>4 DEF WriteInv, Msg
      <4> QED
        BY <1>0, <1>2, <2>1, <2>2, <2>3, <3>1, <4>1 DEF WriterOK, Sane
    <3>2. CASE v # w
      BY <1>0, <1>2, <2>1, <2>2, <3>2 DEF WriterOK, NoCall, Sane, None
    <3> QED
      BY <3>1, <3>2
  <2> QED
    BY <1>0, <2>1, <2>2, <2>5 DEF WriteInv, WritesWhole
<1> QED
  BY <1>1, <1>2 DEF Write, CloseWrite, Start, Goto

\* A call that returns gives writeMu back and leaves the stream as it is.
LEMMA WriteReturn ==
  ASSUME Sane, WriteInv, NEW w \in Writers, Return(w), UNCHANGED <<sent, writes>>, wpc[w] # "idle"
  PROVE  WriteInv'
<1>1. call' \in [Writers -> Locals] /\ call'[w] = NoCall
      /\ \A v \in Writers \ {w} : call'[v] = call[v]
  BY DEF WriteInv, Locals, NoCall, None, Return
<1>2. wpc' \in [Writers -> {"idle", "begin", "send", "sent"}] /\ wpc'[w] = "idle"
      /\ \A v \in Writers \ {w} : wpc'[v] = wpc[v]
  BY DEF WriteInv, Return, Goto
<1>3. ASSUME NEW v \in Writers PROVE WriterOK(v)'
  <2>1. v # w => wpc[v] = "idle" /\ call[v] = NoCall
    BY DEF WriteInv, WriterOK
  <2> QED
    BY <1>1, <1>2, <2>1 DEF WriterOK, NoCall, None, WriteInv, Sane
<1> QED
  BY <1>1, <1>2, <1>3 DEF WriteInv, WritesWhole

\* A call that goes on keeps the invariant if its own part of it holds: nobody else holds
\* writeMu.
LEMMA WriteGo ==
  ASSUME Sane, WriteInv, NEW w \in Writers, wpc[w] # "idle", NEW l \in {"begin", "send", "sent"},
         Goto(w, l), UNCHANGED <<writes, wmu>>, call' \in [Writers -> Locals],
         \A v \in Writers : v # w => call'[v] = call[v], WriterOK(w)',
         sent' \in Msg, \A i \in 1..Len(sent') : sent'[i][1] \in 1..writes, WritesWhole'
  PROVE  WriteInv'
<1>1. wpc' \in [Writers -> {"idle", "begin", "send", "sent"}]
      /\ \A v \in Writers : v # w => wpc'[v] = wpc[v]
  BY DEF WriteInv, Goto
<1>2. ASSUME NEW v \in Writers, v # w PROVE WriterOK(v)'
  <2>1. wpc[v] = "idle" /\ call[v] = NoCall
    BY <1>2 DEF WriteInv, WriterOK
  <2> QED
    BY <1>1, <1>2, <2>1 DEF WriterOK, NoCall, None, WriteInv, Sane
<1>3. \A v \in Writers : WriterOK(v)'
  BY <1>2, Zenon
<1> QED
  BY <1>1, <1>3 DEF WriteInv

\* A step of a call under way keeps the invariant: an error sends nothing, and a chunk goes
\* behind the one before it.
LEMMA WriterStepInv ==
  ASSUME Sane, WriteInv, NEW w \in Writers, WriterStep(w)
  PROVE  WriteInv'
<1> DEFINE c == call[w]
<1>0. /\ wpc[w] # "idle" /\ c \in Locals /\ WriterOK(w) /\ writes' = writes /\ sent \in Msg
      /\ WritesWhole
      /\ \A i \in 1..Len(sent) : sent[i][1] \in 1..writes
      /\ c.op \in 0..writes /\ c.written \in Nat /\ c.written < WriteLen /\ Len(sent) \in Nat
      /\ Len(sent) - Out(w) \in Int
      /\ call \in [Writers -> Locals] /\ wpc \in [Writers -> {"idle", "begin", "send", "sent"}]
      /\ writes \in Nat
  BY ChunkLaw DEF WriteInv, WriterOK, WriterStep, BeginSend, SendTyped, Sent, Locals, Msg, Out
<1> PICK d \in Int, o \in 0..writes : d = Len(sent) - Out(w) /\ o = c.op
  BY <1>0
<1>a. o # 0 => Block(o, d)
  BY <1>0 DEF WriterOK
<1>1. CASE BeginSend(w)
  <2>1. CASE Return(w)
    BY <1>0, <1>1, <2>1, WriteReturn DEF BeginSend, chanVars
  <2>2. CASE Goto(w, "send") /\ UNCHANGED <<wmu, call>>
    <3>1. call' = call /\ sent' = sent /\ wpc'[w] = "send" /\ wpc[w] = "begin"
      BY <1>0, <1>1, <2>2 DEF BeginSend, chanVars, Goto
    <3>2. Out(w)' = Out(w) /\ WritesWhole'
      BY <1>0, <3>1 DEF Out, WritesWhole
    <3>3. o # 0 => Block(o, d)'
      BY <1>a, <3>1 DEF Block
    <3>4. WriterOK(w)'
      BY <1>0, <2>2, <3>1, <3>2, <3>3 DEF WriterOK
    <3> QED
      BY <1>0, <2>2, <3>1, <3>2, <3>4, WriteGo
  <2> QED
    BY <1>1, <2>1, <2>2 DEF BeginSend
<1>2. CASE SendTyped(w)
  <2>0. /\ wpc[w] = "send" /\ Goto(w, "sent") /\ UNCHANGED wmu /\ c.err = None /\ wpc'[w] = "sent"
        /\ Out(w) = c.written /\ wmu = w
    BY <1>0, <1>2 DEF SendTyped, WriterOK, Out, Goto
  <2>1. ASSUME NEW err \in {"closed", "gone", "canceled"}, Fails(w, err) PROVE WriteInv'
    <3>1. /\ call' \in [Writers -> Locals] /\ \A v \in Writers : v # w => call'[v] = call[v]
          /\ call'[w].op = o /\ call'[w].written = c.written /\ call'[w].err # None /\ sent' = sent
      <4>1. call' = [call EXCEPT ![w] = [call[w] EXCEPT !.err = err]] /\ sent' = sent /\ err # None
        BY <2>1 DEF Fails, chanVars, None
      <4>2. [call[w] EXCEPT !.err = err] \in Locals
        BY <1>0 DEF Locals
      <4> QED
        BY <1>0, <4>1, <4>2 DEF Locals
    <3>2. Out(w)' = Out(w) /\ WritesWhole'
      BY <1>0, <2>0, <3>1 DEF Out, WritesWhole
    <3>3. o # 0 => Block(o, d)'
      BY <1>a, <3>1 DEF Block
    <3>4. WriterOK(w)'
      BY <1>0, <2>0, <3>1, <3>2, <3>3 DEF WriterOK
    <3> QED
      BY <1>0, <2>0, <3>1, <3>2, <3>4, WriteGo
  <2>2. ASSUME Put(Chunk(w)), UNCHANGED call PROVE WriteInv'
    <3>0. Chunk(w) \in Msg /\ Chunk(w)' = Chunk(w) /\ (c.op = 0 => Chunk(w) = <<>>)
      <4>1. Chunk(w)' = Chunk(w)
        BY <2>2 DEF Chunk
      <4> QED
        BY <1>0, <4>1, ChunkLaw DEF EOF
    <3> PICK m \in Msg : m = Chunk(w)
      BY <3>0
    <3>1. sent' = sent \o m /\ Len(m) \in Nat /\ Out(w)' = c.written + Len(m)
      BY <2>0, <2>2, <3>0 DEF Put, Out, Msg
    <3>2. CASE o = 0
      <4>1. sent' = sent
        <5>1. m = <<>>
          BY <3>0, <3>2
        <5> QED
          BY <1>0, <3>1, <5>1 DEF Msg
      <4>2. WriterOK(w)' /\ WritesWhole'
        BY <1>0, <2>0, <2>2, <3>2, <4>1 DEF WriterOK, WritesWhole
      <4> QED
        BY <1>0, <2>0, <2>2, <4>1, <4>2, WriteGo
    <3>3. CASE o # 0
      <4>1. Block(o, d) /\ o \in Nat /\ d \in Nat /\ Len(sent) - d = c.written
        BY <1>0, <1>a, <2>0, <3>3 DEF Block
      <4>2. \A k \in 1..Len(m) : m[k] = <<o, (Len(sent) - d) + k>>
        BY <1>0, <3>3, <4>1, ChunkLaw
      <4>3. sent' \in Msg /\ Len(sent') = Len(sent) + Len(m) /\ Block(o, d)' /\ WritesWhole'
        BY <1>0, <3>1, <4>1, <4>2, BlockGrows, Zenon
      <4>4. Len(sent') - Out(w)' = d
        BY <1>0, <3>1, <4>1, <4>3
      <4>5. ASSUME NEW i \in 1..Len(sent') PROVE sent'[i][1] \in 1..writes
        <5>1. CASE i \in 1..Len(sent)
          BY <1>0, <3>1, <5>1 DEF Msg
        <5>2. CASE i > Len(sent)
          <6>1. i - Len(sent) \in 1..Len(m) /\ sent'[i] = m[i - Len(sent)]
            BY <1>0, <3>1, <4>3, <5>2 DEF Msg
          <6>2. sent'[i] = <<o, (Len(sent) - d) + (i - Len(sent))>>
            BY <4>2, <6>1
          <6> QED
            BY <1>0, <3>3, <6>2
        <5> QED
          BY <1>0, <5>1, <5>2
      <4>6. WriterOK(w)'
        BY <1>0, <2>0, <2>2, <4>3, <4>4 DEF WriterOK
      <4> QED
        BY <1>0, <2>0, <2>2, <4>3, <4>5, <4>6, WriteGo
    <3> QED
      BY <3>2, <3>3
  <2> QED
    BY <1>2, <2>1, <2>2 DEF SendTyped
<1>3. CASE Sent(w)
  <2> DEFINE n == c.written + Len(Chunk(w))
  <2>1. CASE Return(w)
    BY <1>0, <1>3, <2>1, WriteReturn DEF Sent, chanVars
  <2>2. CASE c.err = None /\ n < WriteLen /\ Goto(w, "begin")
             /\ call' = [call EXCEPT ![w].written = n] /\ UNCHANGED wmu
    <3>0. n \in Nat
      BY <1>0, ChunkLaw DEF Msg
    <3>1. /\ call' \in [Writers -> Locals] /\ \A v \in Writers : v # w => call'[v] = call[v]
          /\ call'[w].op = o /\ call'[w].written = n /\ call'[w].err = None /\ sent' = sent
          /\ wpc[w] = "sent" /\ wpc'[w] = "begin" /\ UNCHANGED <<writes, wmu>>
      BY <1>0, <1>3, <2>2, <3>0 DEF Sent, chanVars, Goto, Locals
    <3>2. Out(w)' = n /\ Out(w) = n /\ WritesWhole'
      BY <1>0, <2>2, <3>1 DEF Out, WritesWhole
    <3>3. o # 0 => Block(o, d)'
      BY <1>a, <3>1 DEF Block
    <3>4. WriterOK(w)'
      BY <1>0, <2>2, <3>1, <3>2, <3>3 DEF WriterOK
    <3>5. Goto(w, "begin")
      BY <2>2
    <3> QED
      BY <1>0, <3>1, <3>2, <3>4, <3>5, WriteGo, Zenon
  <2> QED
    BY <1>3, <2>1, <2>2 DEF Sent, translate, None
<1> QED
  BY <1>1, <1>2, <1>3 DEF WriterStep

\* Whatever leaves the writers and what they sent alone keeps the invariant.
LEMMA WriteFrame ==
  ASSUME WriteInv, UNCHANGED <<sent, writes, wmu, wpc, call>> PROVE WriteInv'
<1>1. ASSUME NEW w \in Writers PROVE WriterOK(w)'
  <2>1. WriterOK(w) /\ Out(w)' = Out(w)
    BY DEF WriteInv, Out, Chunk
  <2> QED
    BY <2>1 DEF WriterOK, Block
<1> QED
  BY <1>1 DEF WriteInv, WritesWhole

\* Every step keeps the invariant: reads, deadlines, the death of the reader, and Close,
\* whose end of stream has no bytes.
LEMMA WriteStep ==
  ASSUME Sane, WriteInv, [Next]_vars PROVE WriteInv'
<1>1. CASE CloseEOF
  <2>1. UNCHANGED <<writes, wmu, wpc, call>> /\ (sent' = sent \/ sent' = sent \o EOF)
    BY <1>1 DEF CloseEOF, Put, chanVars
  <2>2. sent' = sent
    BY <2>1 DEF WriteInv, Msg, EOF
  <2> QED
    BY <2>1, <2>2, WriteFrame
<1>2. CASE CloseStep \/ Die \/ UNCHANGED vars
  BY <1>2, WriteFrame DEF CloseStep, CancelBase, CloseRx, CloseTx, Die, vars, writeVars, chanVars
<1>3. CASE (\E n \in ReadLens : Read(n)) \/ ReadStep \/ CloseReader \/ CloseReaderChannel
  BY <1>3, WriteFrame
     DEF Read, ReadStep, RecvInto, Received, CloseReader, CloseReaderChannel, writeVars, chanVars
<1>4. CASE \E d \in Dirs : GoesOff(d) \/ FireStep(d) \/ \E at \in Times : set(d, at)
  BY <1>4, WriteFrame DEF GoesOff, FireStep, fire, set, writeVars, chanVars
<1> QED
  BY <1>1, <1>2, <1>3, <1>4, WriteStart, WriterStepInv DEF Next

\* At the start nothing is sent and nobody writes.
LEMMA WriteInit ==
  ASSUME Sane, Init PROVE WriteInv
<1>1. sent = <<>> /\ sent \in Msg /\ Len(sent) = 0
  BY DEF Init, Msg
<1> QED
  BY <1>1 DEF Init, WriteInv, WriterOK, NoCall, Locals, None, Sane, WritesWhole, EOF

\* WritesWhole always holds.  conn.go: Write "splits p into as many messages as the
\* channel's maximum message size requires", all of them under writeMu, so the bytes of one
\* Write are together, for any writers, length of Write and size of message.
THEOREM WritesTogether ==
  ASSUME Sane
  PROVE  Spec => []WritesWhole
<1>1. (Init => WriteInv) /\ (WriteInv /\ [Next]_vars => WriteInv')
  BY WriteInit, WriteStep
<1>2. WriteInv => WritesWhole
  BY DEF WriteInv
<1> QED
  BY <1>1, <1>2, PTL DEF Spec
-----------------------------------------------------------------------------
(* Reads *)

\* How much of the stream the reader has taken out of the channel, and whether it has taken
\* the message that ends it.
Taken == Len(got) + Len(pending) + Len(rmsg)
Ended == eof \/ (rpc = "received" /\ rerr = None /\ rmsg = EOF)

\* The part of the types that the argument needs.
ReadTypes ==
  /\ chan \in Seq(Msg) /\ sent \in Msg /\ got \in Msg /\ pending \in Msg /\ rmsg \in Msg
  /\ eofAt \in Nat \cup {Never} /\ rerr \in {None, "closed", "gone", "canceled"}
  /\ rpc \in {"idle", "recv", "received"} /\ eof \in BOOLEAN /\ dropped \in BOOLEAN

\* off[i] is where in the stream the i-th message of the channel ends.
Offsets == [0..Len(chan) -> 0..Len(sent)]

\* The messages of the channel follow each other in the stream, from what the reader has
\* taken to all that was sent.
Laid(off) ==
  /\ off[0] = Taken /\ off[Len(chan)] = Len(sent)
  /\ \A i, j \in 0..Len(chan) : i <= j => off[i] <= off[j]
  /\ \A i \in 1..Len(chan) : off[i] = off[i - 1] + Len(chan[i])
  /\ \A i \in 1..Len(chan) : \A k \in 1..Len(chan[i]) : chan[i][k] = sent[off[i - 1] + k]

\* Until the reader has taken it, the first message without bytes in the channel is at the
\* end of the stream.
EndAt(off) ==
  /\ eofAt = Never => ~Ended /\ \A i \in 1..Len(chan) : chan[i] # EOF
  /\ eofAt # Never /\ ~Ended => \E j \in 1..Len(chan) :
       chan[j] = EOF /\ off[j] = eofAt /\ \A i \in 1..(j - 1) : chan[i] # EOF

\* What the reader returned, what it kept for the next Read and the message it just received
\* are the stream, one behind the other.
InHand ==
  /\ \A i \in 1..Len(got) : got[i] = sent[i]
  /\ \A i \in 1..Len(pending) : pending[i] = sent[Len(got) + i]
  /\ \A i \in 1..Len(rmsg) : rmsg[i] = sent[Len(got) + Len(pending) + i]

\* The reader receives only with nothing kept and no end seen, and the end is where the
\* stream ends.
Steps ==
  /\ rpc # "idle" => ~eof /\ pending = <<>>
  /\ rpc # "received" => rmsg = EOF /\ rerr = None
  /\ rerr # None => rmsg = EOF
  /\ eof => pending = <<>>
  /\ Ended => Taken = eofAt

ReadInv == Steps /\ InHand /\ \E off \in Offsets : Laid(off) /\ EndAt(off)

\* A message that is sent has its place behind the others, and the first empty one sets the
\* end (Send into the channel).
LEMMA PutLaid ==
  ASSUME ReadTypes, NEW m \in Msg, Put(m), UNCHANGED readVars, NEW off \in Offsets, Laid(off),
         EndAt(off)
  PROVE  \E new \in Offsets' : Laid(new)' /\ EndAt(new)'
<1> DEFINE n == Len(chan)
<1>1. /\ chan' \in Seq(Msg) /\ Len(chan') = n + 1 /\ n \in Nat /\ chan'[n + 1] = m
      /\ \A i \in 1..n : chan'[i] = chan[i]
  BY DEF ReadTypes, Put
<1>2. /\ Len(sent') = Len(sent) + Len(m) /\ Len(sent) \in Nat /\ Len(m) \in Nat
      /\ \A i \in 1..Len(sent) : sent'[i] = sent[i]
      /\ \A k \in 1..Len(m) : sent'[Len(sent) + k] = m[k]
  BY DEF ReadTypes, Put, Msg
<1>3. Taken' = Taken /\ Ended' = Ended
  BY DEF readVars, Taken, Ended
<1>a. \A i \in 0..n : off[i] \in 0..Len(sent)
  BY DEF Offsets
<1>4. PICK new \in Offsets' : new[n + 1] = Len(sent') /\ \A i \in 0..n : new[i] = off[i]
  <2> DEFINE f == [i \in 0..(n + 1) |-> IF i = n + 1 THEN Len(sent') ELSE off[i]]
  <2>1. f \in [0..(n + 1) -> 0..Len(sent')]
    BY <1>1, <1>2, <1>a
  <2>2. f[n + 1] = Len(sent') /\ \A i \in 0..n : f[i] = off[i]
    BY <1>1
  <2>3. f \in Offsets'
    BY <1>1, <2>1 DEF Offsets
  <2> HIDE DEF f
  <2> QED
    BY <2>2, <2>3
<1> HIDE DEF n
<1>5. Laid(new)'
  <2>1. new[0] = Taken /\ new[Len(chan')] = Len(sent')
    BY <1>1, <1>4 DEF Laid, n
  <2>2. \A i, j \in 0..Len(chan') : i <= j => new[i] <= new[j]
    BY <1>1, <1>2, <1>4, <1>a DEF Laid, n
  <2>3. ASSUME NEW i \in 1..Len(chan')
        PROVE  new[i] = new[i - 1] + Len(chan'[i])
               /\ \A k \in 1..Len(chan'[i]) : chan'[i][k] = sent'[new[i - 1] + k]
    <3>1. CASE i = n + 1
      <4>1. new[i - 1] = Len(sent)
        BY <1>1, <1>4, <3>1 DEF Laid, n
      <4> QED
        BY <1>1, <1>2, <1>4, <3>1, <4>1
    <3>2. CASE i \in 1..n
      <4>1. i - 1 \in 0..n /\ new[i] = off[i] /\ new[i - 1] = off[i - 1] /\ chan'[i] = chan[i]
            /\ off[i] = off[i - 1] + Len(chan[i])
        BY <1>1, <1>4, <3>2 DEF Laid, n
      <4>2. ASSUME NEW k \in 1..Len(chan[i]) PROVE off[i - 1] + k \in 1..Len(sent)
        <5>1. off[i] \in 0..Len(sent) /\ off[i - 1] \in 0..Len(sent)
          BY <1>a, <3>2, <4>1
        <5>2. Len(chan[i]) \in Nat
          BY <3>2 DEF ReadTypes, Msg, n
        <5> QED
          BY <1>2, <4>1, <5>1, <5>2
      <4> QED
        BY <1>2, <3>2, <4>1, <4>2 DEF Laid, n
    <3> QED
      BY <1>1, <3>1, <3>2
  <2> QED
    BY <1>3, <2>1, <2>2, <2>3 DEF Laid
<1>6. EndAt(new)'
  <2>1. CASE eofAt' = Never
    <3>1. eofAt = Never /\ m # EOF
      BY <1>2, <2>1 DEF Put, Never
    <3> QED
      BY <1>1, <1>3, <2>1, <3>1 DEF EndAt, n
  <2>2. CASE eofAt' # Never /\ eofAt = Never
    <3>1. eofAt' = Len(sent) /\ m = EOF /\ Len(m) = 0
      BY <2>2 DEF Put, EOF
    <3> QED
      BY <1>1, <1>2, <1>3, <1>4, <2>2, <3>1 DEF EndAt, n
  <2>3. CASE eofAt # Never
    <3>1. eofAt' = eofAt
      BY <2>3 DEF Put
    <3> QED
      BY <1>1, <1>3, <1>4, <2>3, <3>1 DEF EndAt, n
  <2> QED
    BY <2>1, <2>2, <2>3
<1> QED
  BY <1>4, <1>5, <1>6

\* A message that is received is the next of the stream, and the others keep their places
\* (RecvInto).
LEMMA TakeLaid ==
  ASSUME ReadTypes, chan # <<>>, Steps, InHand, rpc = "recv", rpc' = "received", rmsg' = Head(chan),
         chan' = Tail(chan), rerr' = None,
         UNCHANGED <<sent, eofAt, pending, eof, got>>, NEW off \in Offsets, Laid(off), EndAt(off)
  PROVE  ReadInv'
<1> DEFINE n == Len(chan)
<1>1. /\ n \in Nat /\ n >= 1 /\ Len(chan') = n - 1 /\ rmsg' = chan[1] /\ chan[1] \in Msg
      /\ Len(chan[1]) \in Nat
      /\ \A i \in 1..(n - 1) : chan'[i] = chan[i + 1]
  BY DEF ReadTypes, Msg
<1>2. PICK new \in Offsets' : \A i \in 0..(n - 1) : new[i] = off[i + 1]
  <2> DEFINE f == [i \in 0..(n - 1) |-> off[i + 1]]
  <2>1. f \in [0..(n - 1) -> 0..Len(sent)] /\ \A i \in 0..(n - 1) : f[i] = off[i + 1]
    BY <1>1 DEF Offsets
  <2>2. f \in Offsets'
    BY <1>1, <2>1 DEF Offsets
  <2> HIDE DEF f
  <2> QED
    BY <2>1, <2>2
<1>3. /\ Len(got) \in Nat /\ pending = <<>> /\ Len(pending) = 0 /\ rmsg = EOF /\ Len(rmsg) = 0
      /\ off[0] = Len(got) /\ off[1] = Len(got) + Len(chan[1]) /\ Taken' = Len(got) + Len(chan[1])
  BY <1>1 DEF Laid, Taken, Steps, EOF, ReadTypes, Msg
<1>4. ~eof /\ ~Ended /\ (Ended' <=> chan[1] = EOF)
  BY <1>1 DEF Steps, Ended
<1> HIDE DEF n
<1>5. Laid(new)'
  <2>1. new[0] = Taken' /\ new[Len(chan')] = Len(sent')
    BY <1>1, <1>2, <1>3 DEF Laid, n
  <2>2. \A i, j \in 0..Len(chan') : i <= j => new[i] <= new[j]
    BY <1>1, <1>2 DEF Laid, n
  <2>3. ASSUME NEW i \in 1..Len(chan')
        PROVE  new[i] = new[i - 1] + Len(chan'[i])
               /\ \A k \in 1..Len(chan'[i]) : chan'[i][k] = sent'[new[i - 1] + k]
    <3>1. i + 1 \in 1..n /\ new[i] = off[i + 1] /\ new[i - 1] = off[i] /\ chan'[i] = chan[i + 1]
          /\ (i + 1) - 1 = i
      BY <1>1, <1>2
    <3> QED
      BY <3>1 DEF Laid, n
  <2> QED
    BY <2>1, <2>2, <2>3, Zenon DEF Laid
<1>6. EndAt(new)' /\ (Ended' => Taken' = eofAt)
  <2>1. CASE eofAt = Never
    BY <1>1, <1>4, <2>1 DEF EndAt, n
  <2>2. CASE eofAt # Never
    <3> PICK j \in 1..n : chan[j] = EOF /\ off[j] = eofAt /\ \A i \in 1..(j - 1) : chan[i] # EOF
      BY <1>4, <2>2 DEF EndAt, n
    <3>1. CASE j = 1
      BY <1>1, <1>3, <1>4, <2>2, <3>1 DEF EndAt, EOF
    <3>2. CASE j # 1
      <4>1. j - 1 \in 1..Len(chan') /\ chan'[j - 1] = EOF /\ new[j - 1] = eofAt
        BY <1>1, <1>2, <3>2
      <4>2. \A i \in 1..((j - 1) - 1) : chan'[i] # EOF
        BY <1>1
      <4>3. ~Ended'
        BY <1>1, <1>4, <3>2
      <4> QED
        BY <2>2, <4>1, <4>2, <4>3 DEF EndAt
    <3> QED
      BY <3>1, <3>2
  <2> QED
    BY <2>1, <2>2
<1>7. InHand'
  <2>1. \A k \in 1..Len(chan[1]) : chan[1][k] = sent[off[0] + k]
    BY <1>1 DEF Laid, n
  <2> QED
    BY <1>1, <1>3, <2>1 DEF InHand
<1>8. Steps'
  BY <1>4, <1>6 DEF Steps
<1> QED
  BY <1>2, <1>5, <1>6, <1>7, <1>8 DEF ReadInv

\* The places depend on the channel, what was sent, and how much was taken, only.
LEMMA LaidFrame ==
  ASSUME ReadInv, UNCHANGED <<chan, sent, eofAt>>, Taken' = Taken, Ended' <=> Ended
  PROVE  \E off \in Offsets' : Laid(off)' /\ EndAt(off)'
<1> PICK off \in Offsets : Laid(off) /\ EndAt(off)
  BY DEF ReadInv
<1>0. chan' = chan /\ sent' = sent /\ eofAt' = eofAt
  OBVIOUS
<1>1. off \in Offsets'
  BY <1>0, Zenon DEF Offsets
<1>2. Laid(off)'
  BY <1>0, Zenon DEF Laid
<1>3. EndAt(off)'
  BY <1>0, Zenon DEF EndAt
<1> QED
  BY <1>1, <1>2, <1>3

\* Read copies the start of what was kept behind what it returned, and keeps the rest
\* (the copy in Read).
LEMMA CopyInv ==
  ASSUME ReadTypes, ReadInv, rpc = "idle", NEW n \in Nat, Copy(n),
         UNCHANGED <<rpc, rmsg, rerr, eof, chan, sent, eofAt>>
  PROVE  ReadInv'
<1> DEFINE k == IF n < Len(pending) THEN n ELSE Len(pending)
<1>1. k \in 0..Len(pending) /\ Len(pending) \in Nat /\ Len(got) \in Nat /\ rmsg = <<>>
  BY DEF ReadTypes, Msg, ReadInv, Steps, EOF
<1>2. got' = got \o SubSeq(pending, 1, k) /\ pending' = SubSeq(pending, k + 1, Len(pending))
  BY DEF Copy
<1> HIDE DEF k
<1>3. /\ Len(got') = Len(got) + k /\ \A i \in 1..Len(got) : got'[i] = got[i]
      /\ \A i \in 1..k : got'[Len(got) + i] = pending[i]
  BY <1>1, <1>2 DEF ReadTypes, Msg
<1>4. Len(pending') = Len(pending) - k
      /\ \A i \in 1..(Len(pending) - k) : pending'[i] = pending[k + i]
  BY <1>1, <1>2 DEF ReadTypes, Msg
<1>5. Taken' = Taken /\ Ended' = Ended
  BY <1>1, <1>3, <1>4 DEF Taken, Ended, ReadTypes, Msg
<1>6. InHand'
  <2>1. \A i \in 1..Len(got') : got'[i] = sent[i]
    <3> SUFFICES ASSUME NEW i \in 1..Len(got') PROVE got'[i] = sent[i]
      OBVIOUS
    <3>1. CASE i \in 1..Len(got)
      BY <1>3, <3>1 DEF ReadInv, InHand
    <3>2. CASE i > Len(got)
      <4>1. i - Len(got) \in 1..k /\ i - Len(got) \in 1..Len(pending)
            /\ Len(got) + (i - Len(got)) = i
        BY <1>1, <1>3, <3>2
      <4> QED
        BY <1>3, <4>1 DEF ReadInv, InHand
    <3> QED
      BY <1>1, <3>1, <3>2
  <2>2. \A i \in 1..Len(pending') : pending'[i] = sent[Len(got') + i]
    <3> SUFFICES ASSUME NEW i \in 1..Len(pending') PROVE pending'[i] = sent[Len(got') + i]
      OBVIOUS
    <3>1. k + i \in 1..Len(pending) /\ i \in 1..(Len(pending) - k)
          /\ Len(got) + (k + i) = Len(got') + i
      BY <1>1, <1>3, <1>4
    <3> QED
      BY <1>4, <3>1 DEF ReadInv, InHand
  <2> QED
    BY <1>1, <2>1, <2>2 DEF InHand
<1>7. Steps'
  <2>1. pending = <<>> => pending' = <<>>
    BY <1>1, <1>2, <1>4 DEF ReadTypes, Msg
  <2> QED
    BY <1>5, <2>1 DEF Steps, ReadInv
<1>8. \E off \in Offsets' : Laid(off)' /\ EndAt(off)'
  BY <1>5, LaidFrame
<1> QED
  BY <1>6, <1>7, <1>8 DEF ReadInv

\* A message received without an error is kept, and an empty one is the end; only the
\* deadline drops one (dropped).
LEMMA ReceivedInv ==
  ASSUME ReadTypes, ReadInv, Received, ~dropped'
  PROVE  ReadInv'
<1>1. /\ pending = <<>> /\ ~eof /\ rpc = "received" /\ rpc' = "idle" /\ rmsg' = EOF /\ rerr' = None
      /\ got' = got
      /\ UNCHANGED <<chan, sent, eofAt>> /\ Len(pending) = 0 /\ Len(EOF) = 0 /\ Len(got) \in Nat
      /\ Len(rmsg) \in Nat
  BY DEF Received, ReadInv, Steps, chanVars, EOF, ReadTypes, Msg
<1>2. pending' = rmsg /\ (eof' <=> rerr = None /\ rmsg = EOF)
  <2> DEFINE err == translate("read", rerr)
  <2>1. /\ eof' <=> eof \/ (err = None /\ rmsg = EOF)
        /\ (err = None => pending' = rmsg) /\ (err # None => pending' = <<>>)
        /\ ~(err = "deadline" /\ rerr = None)
    BY Zenon DEF Received
  <2>2. CASE rerr = None
    <3>1. err = None
      BY <2>1, <2>2 DEF translate, None
    <3> HIDE DEF err
    <3> QED
      BY <1>1, <2>1, <2>2, <3>1, Zenon
  <2>3. CASE rerr # None
    <3>1. err # None /\ rmsg = EOF
      BY <2>3 DEF translate, None, ReadTypes, ReadInv, Steps
    <3> HIDE DEF err
    <3> QED
      BY <1>1, <2>1, <2>3, <3>1, Zenon DEF EOF
  <2> QED
    BY <2>2, <2>3
<1>3. Taken' = Taken /\ (Ended' <=> Ended)
  BY <1>1, <1>2 DEF Taken, Ended
<1>4. InHand' /\ Steps'
  BY <1>1, <1>2, <1>3 DEF ReadInv, InHand, Steps, EOF
<1>5. \E off \in Offsets' : Laid(off)' /\ EndAt(off)'
  BY <1>1, <1>3, LaidFrame
<1> QED
  BY <1>4, <1>5 DEF ReadInv

\* The first n bytes of a message.
LEMMA Prefix ==
  ASSUME NEW s \in Msg, NEW n \in 0..Len(s)
  PROVE  /\ SubSeq(s, 1, n) \in Msg /\ Len(SubSeq(s, 1, n)) = n
         /\ \A i \in 1..n : SubSeq(s, 1, n)[i] = s[i]
  BY DEF Msg

\* What is in its place was read once and in order, and all of it before the end.
LEMMA IntactFollows ==
  ASSUME ReadTypes, ReadInv PROVE EveryByteRead
<1> PICK off \in Offsets : Laid(off) /\ EndAt(off)
  BY DEF ReadInv
<1>1. /\ Len(got) \in Nat /\ Len(pending) \in Nat /\ Len(rmsg) \in Nat /\ Len(sent) \in Nat
      /\ Len(chan) \in Nat
      /\ off[0] = Taken /\ Taken \in 0..Len(sent)
      /\ \A j \in 0..Len(chan) : off[j] \in 0..Len(sent) /\ Taken <= off[j]
  <2>1. /\ Len(got) \in Nat /\ Len(pending) \in Nat /\ Len(rmsg) \in Nat /\ Len(sent) \in Nat
        /\ Len(chan) \in Nat
    BY DEF ReadTypes, Msg
  <2>2. off[0] = Taken /\ \A j \in 0..Len(chan) : off[j] \in 0..Len(sent) /\ off[0] <= off[j]
    BY <2>1 DEF Laid, Offsets
  <2> QED
    BY <2>1, <2>2
<1>2. eofAt # Never => eofAt \in 0..Len(sent) /\ Taken <= eofAt
  BY <1>1 DEF EndAt, ReadInv, Steps
<1>3. /\ Stream \in Msg /\ Len(got) <= Len(Stream) /\ Len(Stream) <= Len(sent)
      /\ \A i \in 1..Len(Stream) : Stream[i] = sent[i]
      /\ eof => Len(got) = Len(Stream)
  <2>1. CASE eofAt = Never
    BY <1>1, <2>1 DEF Stream, Taken, ReadTypes, ReadInv, EndAt, Ended
  <2>2. CASE eofAt # Never
    <3>1. Stream = SubSeq(sent, 1, eofAt) /\ eofAt \in 0..Len(sent)
      BY <1>2, <2>2 DEF Stream
    <3>2. Stream \in Msg /\ Len(Stream) = eofAt /\ \A i \in 1..eofAt : Stream[i] = sent[i]
      BY <3>1, Prefix, Zenon DEF ReadTypes
    <3>3. eof => Len(got) = eofAt
      BY <1>1, <2>2 DEF ReadInv, Steps, Ended, Taken, EOF
    <3>4. Len(got) <= eofAt /\ eofAt <= Len(sent)
      BY <1>1, <1>2, <2>2 DEF Taken
    <3> QED
      BY <3>2, <3>3, <3>4, Zenon
  <2> QED
    BY <2>1, <2>2, Zenon
<1>4. \A i \in 1..Len(got) : got[i] = Stream[i]
  BY <1>1, <1>3 DEF ReadInv, InHand, Msg
<1>5. got = SubSeq(Stream, 1, Len(got))
  <2>1. /\ SubSeq(Stream, 1, Len(got)) \in Msg /\ Len(SubSeq(Stream, 1, Len(got))) = Len(got)
        /\ \A i \in 1..Len(got) : SubSeq(Stream, 1, Len(got))[i] = Stream[i]
    <3>1. Len(got) \in 0..Len(Stream)
      BY <1>1, <1>3
    <3> QED
      BY <1>3, <3>1, Prefix, Zenon
  <2> QED
    BY <1>1, <1>4, <2>1 DEF ReadTypes, Msg
<1>6. eof => got = Stream
  BY <1>1, <1>3, <1>4 DEF ReadTypes, Msg
<1> QED
  BY <1>1, <1>3, <1>5, <1>6 DEF EveryByteRead

\* Whatever leaves the channel and the reader alone keeps the places.
LEMMA ReadFrame ==
  ASSUME ReadTypes, ReadInv, UNCHANGED <<chanVars, rpc, rmsg, rerr, pending, eof, got>>
  PROVE ReadInv'
<1>1. Taken' = Taken /\ Ended' = Ended /\ UNCHANGED <<chan, sent, eofAt>>
  BY DEF Taken, Ended, chanVars
<1>2. InHand' /\ Steps'
  BY <1>1 DEF ReadInv, InHand, Steps
<1>3. \E off \in Offsets' : Laid(off)' /\ EndAt(off)'
  BY <1>1, LaidFrame
<1> QED
  BY <1>2, <1>3 DEF ReadInv

\* A message that is sent disturbs nothing the reader holds.
LEMMA PutInv ==
  ASSUME ReadTypes, ReadInv, NEW m \in Msg, Put(m), UNCHANGED readVars PROVE ReadInv'
<1> PICK off \in Offsets : Laid(off) /\ EndAt(off)
  BY DEF ReadInv
<1>1. \E new \in Offsets' : Laid(new)' /\ EndAt(new)'
  BY PutLaid
<1>2. InHand'
  <2>1. /\ Len(got) \in Nat /\ Len(pending) \in Nat /\ Len(rmsg) \in Nat /\ Len(sent) \in Nat
        /\ Len(chan) \in Nat
        /\ Taken \in 0..Len(sent)
    <3>1. /\ Len(got) \in Nat /\ Len(pending) \in Nat /\ Len(rmsg) \in Nat /\ Len(sent) \in Nat
          /\ Len(chan) \in Nat
      BY DEF ReadTypes, Msg
    <3> QED
      BY <3>1 DEF Offsets, Laid
  <2>2. \A i \in 1..Len(sent) : sent'[i] = sent[i]
    BY DEF ReadTypes, Msg, Put
  <2> QED
    BY <2>1, <2>2 DEF ReadInv, InHand, Taken, readVars
<1>3. Steps'
  <2>1. eofAt # Never => eofAt' = eofAt
    BY DEF Put
  <2>2. Ended => eofAt # Never
    BY DEF EndAt
  <2>3. Taken' = Taken /\ Ended' = Ended
    BY DEF readVars, Taken, Ended
  <2> QED
    BY <2>1, <2>2, <2>3 DEF ReadInv, Steps, readVars
<1> QED
  BY <1>1, <1>2, <1>3 DEF ReadInv

\* A message that is sent keeps the types.
LEMMA PutTypes ==
  ASSUME ReadTypes, NEW m \in Msg, Put(m), UNCHANGED readVars PROVE ReadTypes'
  BY DEF ReadTypes, Put, readVars, Msg, Never

\* The invariant: until a deadline has dropped a message, everything is in its place.
Intact == WriteInv /\ ReadTypes /\ (dropped \/ ReadInv)

\* A step of Read keeps the places, or drops a message.
LEMMA ReadStepInv ==
  ASSUME Sane, Intact, (\E n \in ReadLens : Read(n)) \/ ReadStep
  PROVE  ReadTypes' /\ (dropped' \/ ReadInv')
<1> USE DEF Intact
<1>1. ASSUME NEW n \in Nat, Read(n) PROVE ReadTypes' /\ (dropped' \/ ReadInv')
  <2>1. UNCHANGED <<chan, sent, eofAt, rmsg, rerr, eof, dropped>> /\ rpc = "idle"
    BY <1>1 DEF Read, chanVars
  <2>2. CASE Copy(n) /\ rpc' = rpc
    <3>1. ReadTypes'
      BY <2>1, <2>2 DEF ReadTypes, Copy, Msg
    <3>2. ReadInv => ReadInv'
      BY <2>1, <2>2, CopyInv
    <3> QED
      BY <2>1, <3>1, <3>2
  <2>3. CASE pending = <<>> /\ ~eof /\ rpc' = "recv" /\ UNCHANGED <<got, pending>>
    <3>1. ReadTypes'
      BY <2>1, <2>3 DEF ReadTypes
    <3>2. ASSUME ReadInv PROVE ReadInv'
      <4>1. Taken' = Taken /\ Ended' = Ended
        BY <2>1, <2>3 DEF Taken, Ended
      <4>2. InHand' /\ Steps'
        BY <2>1, <2>3, <3>2, <4>1 DEF ReadInv, InHand, Steps
      <4>3. \E off \in Offsets' : Laid(off)' /\ EndAt(off)'
        BY <2>1, <3>2, <4>1, LaidFrame
      <4> QED
        BY <4>2, <4>3 DEF ReadInv
    <3> QED
      BY <2>1, <3>1, <3>2
  <2> QED
    BY <1>1, <2>2, <2>3 DEF Read
<1>2. CASE RecvInto
  <2>1. UNCHANGED <<sent, eofAt, pending, eof, got, dropped>> /\ rpc = "recv" /\ rpc' = "received"
    BY <1>2 DEF RecvInto
  <2>2. CASE rerr' \in {"closed", "gone", "canceled"} /\ UNCHANGED <<chan, rmsg>>
    <3>1. ReadTypes'
      BY <2>1, <2>2 DEF ReadTypes
    <3>2. ASSUME ReadInv PROVE ReadInv'
      <4>1. Taken' = Taken /\ ~Ended /\ ~Ended'
        BY <2>1, <2>2, <3>2 DEF Taken, Ended, None, ReadInv, Steps
      <4>2. InHand' /\ Steps'
        BY <2>1, <2>2, <3>2, <4>1 DEF ReadInv, InHand, Steps
      <4>3. \E off \in Offsets' : Laid(off)' /\ EndAt(off)'
        BY <2>1, <2>2, <3>2, <4>1, LaidFrame
      <4> QED
        BY <4>2, <4>3 DEF ReadInv
    <3> QED
      BY <2>1, <3>1, <3>2
  <2>3. CASE chan # <<>> /\ rmsg' = Head(chan) /\ chan' = Tail(chan) /\ rerr' = None
    <3>1. ReadTypes'
      BY <2>1, <2>3 DEF ReadTypes, Msg
    <3>2. ReadInv => ReadInv'
      BY <2>1, <2>3, TakeLaid DEF ReadInv
    <3> QED
      BY <2>1, <3>1, <3>2
  <2> QED
    BY <1>2, <2>2, <2>3 DEF RecvInto
<1>3. CASE Received
  <2>1. ReadTypes' /\ (dropped => dropped')
    <3>1. eof' \in BOOLEAN /\ dropped' \in BOOLEAN /\ (dropped => dropped')
      BY <1>3, Zenon DEF Received
    <3> QED
      BY <1>3, <3>1 DEF Received, ReadTypes, chanVars, EOF, Msg
  <2> QED
    BY <1>3, <2>1, ReceivedInv
<1> QED
  BY <1>1, <1>2, <1>3 DEF ReadStep, Sane

\* Every step keeps the invariant.
LEMMA IntactStep ==
  ASSUME Sane, Intact, [Next]_vars PROVE Intact'
<1> USE DEF Intact
<1>0. WriteInv'
  BY WriteStep
<1>1. ASSUME NEW m \in Msg, Put(m), UNCHANGED readVars PROVE Intact'
  BY <1>0, <1>1, PutInv, PutTypes DEF readVars
<1>2. ASSUME UNCHANGED <<chanVars, readVars>> PROVE Intact'
  <2>1. ReadTypes' /\ dropped' = dropped
    BY <1>2 DEF ReadTypes, chanVars, readVars
  <2>2. ReadInv => ReadInv'
    BY <1>2, ReadFrame DEF readVars
  <2> QED
    BY <1>0, <2>1, <2>2
<1>3. ASSUME NEW w \in Writers, Write(w) \/ CloseWrite(w) \/ WriterStep(w) PROVE Intact'
  <2>1. Chunk(w) \in Msg
    <3>1. call[w] \in Locals /\ call[w].written < WriteLen
      BY DEF WriteInv, WriterOK
    <3> QED
      BY <3>1, ChunkLaw
  <2>2. UNCHANGED readVars /\ (Put(Chunk(w)) \/ UNCHANGED chanVars)
    BY <1>3 DEF Write, CloseWrite, Start, WriterStep, BeginSend, SendTyped, Sent, Fails
  <2> PICK m \in Msg : m = Chunk(w)
    BY <2>1
  <2>3. Put(Chunk(w)) => Put(m)
    BY DEF Put
  <2> QED
    BY <1>1, <1>2, <2>2, <2>3
<1>4. CASE CloseEOF
  <2>1. EOF \in Msg
    BY DEF EOF, Msg
  <2>2. UNCHANGED readVars /\ (Put(EOF) \/ UNCHANGED chanVars)
    BY <1>4 DEF CloseEOF
  <2> QED
    BY <1>1, <1>2, <2>1, <2>2
<1>5. CASE CloseStep \/ Die \/ CloseReader \/ CloseReaderChannel \/ UNCHANGED vars
  BY <1>2, <1>5 DEF CloseStep, CancelBase, CloseRx, CloseTx, Die, CloseReader, CloseReaderChannel,
     vars
<1>6. CASE (\E n \in ReadLens : Read(n)) \/ ReadStep
  BY <1>0, <1>6, ReadStepInv
<1>7. CASE \E d \in Dirs : GoesOff(d) \/ FireStep(d) \/ \E at \in Times : set(d, at)
  BY <1>2, <1>7 DEF GoesOff, FireStep, fire, set
<1> QED
  BY <1>3, <1>4, <1>5, <1>6, <1>7 DEF Next

\* StreamIntact always holds: until a deadline drops a message (MCStreamDeadline), what Read
\* returned is the start of the stream, and all of it once Read has said end of stream, for
\* any writers, sizes and room in the channel, whoever closes or dies.
THEOREM EveryByteArrives ==
  ASSUME Sane
  PROVE  Spec => []StreamIntact
<1>1. Init => Intact
  <2> SUFFICES ASSUME Init PROVE Intact
    OBVIOUS
  <2>1. WriteInv
    BY WriteInit
  <2>2. ReadTypes
    <3>1. <<>> \in Seq(Msg) /\ <<>> \in Msg
      BY DEF Msg
    <3> QED
      BY <3>1, Zenon DEF Init, ReadTypes, EOF
  <2>3. Len(chan) = 0 /\ Taken = 0 /\ Len(sent) = 0 /\ ~Ended /\ chan = <<>>
    BY DEF Init, Taken, Ended, EOF
  <2>4. \E off \in Offsets : Laid(off) /\ EndAt(off)
    <3> DEFINE zero == [i \in 0..0 |-> 0]
    <3>0. zero \in [0..0 -> 0..0]
      OBVIOUS
    <3> PICK off : off = zero
      BY Zenon
    <3>1. off \in Offsets /\ off[0] = 0
      BY <2>3, <3>0 DEF Offsets
    <3>2. Laid(off) /\ EndAt(off)
      BY <2>3, <3>1 DEF Laid, EndAt, Init
    <3> QED
      BY <3>1, <3>2
  <2>5. InHand /\ Steps
    BY <2>3 DEF Init, InHand, Steps, EOF
  <2> QED
    BY <2>1, <2>2, <2>4, <2>5 DEF Intact, ReadInv
<1>2. Intact /\ [Next]_vars => Intact'
  BY IntactStep
<1>3. Intact => StreamIntact
  BY IntactFollows DEF Intact, StreamIntact
<1> QED
  BY <1>1, <1>2, <1>3, PTL DEF Spec
=============================================================================
