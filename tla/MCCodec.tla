------------------------------ MODULE MCCodec ------------------------------
(***************************************************************************)
(* The schemas and the bytes that module Codec is checked on.              *)
(***************************************************************************)
EXTENDS Integers, Sequences, SequencesExt

ReservedID == 99

Scalar(k) == [kind |-> k]
Ref(n) == [kind |-> "ref", name |-> n]
Array(n, t) == [kind |-> "array", len |-> n, elem |-> t]
Field(n, t) == [name |-> n, camel |-> n, type |-> t]
Message(n, id, types) ==
  [name |-> n, snake |-> n, const |-> n \o "Type", id |-> id,
   fields |-> [i \in DOMAIN types |-> Field(<<"x", "y", "z", "s", "t">>[i], types[i])]]

\* Two messages with up to two fields each, of types that nest in every way, and every
\* way in which three messages may contain each other.
SomeTypes == {Scalar("u8"), Scalar("u16"), Scalar("u64"), Scalar("string"),
              Array(3, Scalar("u8")), Array(0, Scalar("u8")), Array(2, Scalar("string")),
              Ref("A"), Ref("B"), Array(2, Ref("B"))}
TwoMessages ==
  {<<Message("A", 1, a), Message("B", 2, b)>> :
     a \in BoundedSeq(SomeTypes, 2), b \in UNION {[1..n -> SomeTypes \ {Ref("A")}] : n \in 0..1}}
  \cup {<<Message("A", 1, <<Scalar("u16"), Array(2, Ref("B")), Scalar("u8")>>), Message("B", 2, b)>> :
     b \in BoundedSeq(SomeTypes, 2)}
Contents == {<<>>} \cup {<<Scalar("u8"), t>> : t \in {Ref("A"), Ref("B"), Array(2, Ref("C"))}}
                   \cup {<<Ref("B"), Array(2, Ref("C"))>>, <<Ref("C"), Array(2, Ref("A"))>>}
ThreeMessages ==
  {<<Message("A", 1, a), Message("B", 2, b), Message("C", 3, c)>> : a, b, c \in Contents}

\* Names that clash: in Go, in C, with a constant; type IDs that do.
ClashingNames ==
  {<<Message("A", i, <<>>), [Message(n, j, <<Scalar("u8"), Scalar("u8")>>) EXCEPT !.snake = s, !.fields[2].camel = f]>> :
     i, j \in {1, 2, ReservedID}, n \in {"A", "B", "AType"}, s \in {"A", "B"}, f \in {"x", "y"}}

\* The messages of the codecs: Out contains two of In and ends in two variable fields.
CodecSchema ==
  <<Message("Out", 1, <<Scalar("u8"), Array(2, Ref("In")), Scalar("u32"), Scalar("string"), Scalar("bytes")>>),
    Message("In", 2, <<Scalar("bool"), Scalar("i16")>>),
    Message("Text", 3, <<Scalar("string")>>)>>

MCSchemas == TwoMessages \cup ThreeMessages \cup ClashingNames \cup {CodecSchema}

Strings == {<<>>, <<65>>, <<195, 169>>, <<65, 195, 169, 65>>}
MCValues(s, m) ==
  IF s # CodecSchema \/ m # 1 THEN {}
  ELSE {[fixed |-> <<200, b, -2, c, 513, 66051>>, var |-> <<u, t>>] :
          b, c \in BOOLEAN, u \in Strings, t \in {<<>>, <<255>>, <<1, 2, 3, 4>>}}

MCRooms == {-1, 0, 2}

\* Another byte at any place, cut short at any place, one byte more.
MCChanged(b) ==
  {[b EXCEPT ![i] = c] : i \in DOMAIN b, c \in {0, 2, 127}}
  \cup {SubSeq(b, 1, n) : n \in 0..(Len(b) - 1)} \cup {Append(b, 0)}

\* A string of a first byte and up to three others, on either side of every limit.
First == {127, 191, 193, 194, 224, 237, 239, 240, 244, 245}
Others == {127, 128, 143, 144, 159, 160, 191, 192}
MCArrivals(s, m) ==
  IF s # CodecSchema \/ m # 3 THEN {}
  ELSE {<<Len(t) + 1, 0, 0, 0, c>> \o t : c \in First, t \in BoundedSeq(Others, 3)}
=============================================================================
