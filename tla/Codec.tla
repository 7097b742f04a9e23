------------------------------- MODULE Codec -------------------------------
(***************************************************************************)
(* The codecs that ipcgen writes for a checked schema, in Go, C, C++ and   *)
(* Python (ipcgen/internal/gen), beside the reference codec they are       *)
(* tested against (refcodec).  The model runs the generated code: what the *)
(* statements do that golang.go, c.go, cpp.go and python.go write for the  *)
(* messages of the schema.                                                 *)
(*                                                                         *)
(* A value is the scalars of the fixed section, in the order in which      *)
(* every codec comes to them (module Schema unrolls the loops over arrays  *)
(* and the calls for contained messages), and the bytes of each string or  *)
(* bytes field.  Strings are UTF-8 and numbers in the range of their type, *)
(* as Python and the reference require.  Offsets are from zero, as in the  *)
(* code.  4 GiB is scaled to MaxLen bytes.  Left out are numbers of eight  *)
(* bytes, which TLC cannot hold, floats, which travel as the integer of    *)
(* their bits, and sizes beyond SIZE_MAX.                                  *)
(***************************************************************************)
EXTENDS Schema

CONSTANTS
  Langs,     \* of the generated codecs
  MaxLen,    \* the longest string or bytes field that a length prefix can tell
  Rooms,     \* how many bytes more than it needs an encoder is given
  Stale,     \* the byte that the buffer of an encoder is full of
  Values(_, _),  \* the values of a message of a schema that are encoded
  Changed(_),    \* what may become of an encoding on its way
  Arrivals(_, _) \* bytes that come from elsewhere

VARIABLES
  phase,     \* idle, encoded, wire, decoded
  msg, value,
  buf, out,  \* what an encoder was given, and the buffer and the count that it left
  by,
  wire, got  \* what is decoded, and what each decoder makes of it

codecVars == <<phase, msg, value, buf, out, by, wire, got>>

NoValue == [fixed |-> <<>>, var |-> <<>>]

CodecInit ==
  /\ phase = "idle" /\ msg = 0 /\ value = NoValue /\ by = ""
  /\ buf = <<>> /\ out = [n |-> 0, buf |-> <<>>] /\ wire = <<>> /\ got = <<>>

Store(b, at, bytes) == [i \in DOMAIN b |-> IF i - at \in DOMAIN bytes THEN bytes[i - at] ELSE b[i]]
Signed(kind) == kind \in {"i8", "i16"}
Shift(x, n) == FoldLeft(LAMBDA y, i : y \div 256, x, [i \in 1..n |-> i]) \* x >> 8n

\* Go's encoding/binary and Python's struct.
LittleEndian(x, n) == [i \in 1..n |-> Shift(x, i - 1) % 256]
Unsigned(b, at, n) == FoldRight(LAMBDA byte, x : x * 256 + byte, SubSeq(b, at + 1, at + n), 0)
Number(kind, u) ==
  LET w == 256^ScalarSize[kind] IN IF Signed(kind) /\ 2 * u >= w THEN u - w ELSE u
-----------------------------------------------------------------------------
(* One scalar, in each language: stored, and loaded with whether it is well formed *)

GoPut(b, s, x) ==
  IF s.kind = "bool" THEN IF x THEN Store(b, s.at, <<1>>) ELSE b
  ELSE Store(b, s.at, LittleEndian(x, ScalarSize[s.kind]))
GoGet(b, s) ==
  IF s.kind = "bool" THEN [ok |-> b[s.at + 1] <= 1, x |-> b[s.at + 1] = 1]
  ELSE [ok |-> TRUE, x |-> Number(s.kind, Unsigned(b, s.at, ScalarSize[s.kind]))]

\* put_u16 stores two bytes, put_u32 two halves with put_u16; a signed number is stored
\* as the unsigned one of its width.
CPut16(b, at, x) == Store(b, at, <<x % 256, (x \div 256) % 256>>)
CPut(b, s, x) ==
  CASE s.kind = "bool" -> Store(b, s.at, <<IF x THEN 1 ELSE 0>>)
    [] s.kind \in {"u8", "i8"} -> Store(b, s.at, <<x % 256>>)
    [] ScalarSize[s.kind] = 2 -> CPut16(b, s.at, x)
    [] ScalarSize[s.kind] = 4 -> CPut16(CPut16(b, s.at, x), s.at + 2, Shift(x, 2))
CGet16(b, at) == b[at + 1] + 256 * b[at + 2]
CGet(b, s) ==
  CASE s.kind = "bool" -> [ok |-> b[s.at + 1] <= 1, x |-> b[s.at + 1] = 1]
    [] s.kind \in {"u8", "i8"} -> [ok |-> TRUE, x |-> Number(s.kind, b[s.at + 1])]
    [] ScalarSize[s.kind] = 2 -> [ok |-> TRUE, x |-> Number(s.kind, CGet16(b, s.at))]
    [] ScalarSize[s.kind] = 4 ->
         [ok |-> TRUE, x |-> Number(s.kind, CGet16(b, s.at) + 65536 * CGet16(b, s.at + 2))]

CppPut(b, s, x) ==
  Store(b, s.at, IF s.kind = "bool" THEN <<IF x THEN 1 ELSE 0>>
                 ELSE [i \in 1..ScalarSize[s.kind] |-> Shift(x, i - 1) % 256])
CppGet(b, s) ==
  IF s.kind = "bool" THEN [ok |-> b[s.at + 1] <= 1, x |-> b[s.at + 1] = 1]
  ELSE [ok |-> TRUE, x |-> Number(s.kind,
          FoldLeft(LAMBDA u, i : u + b[s.at + i] * 256^(i - 1), 0, [i \in 1..ScalarSize[s.kind] |-> i]))]

PyPut(b, s, x) ==
  IF s.kind = "bool" THEN Store(b, s.at, <<IF x THEN 1 ELSE 0>>)
  ELSE Store(b, s.at, LittleEndian(x, ScalarSize[s.kind]))
PyGet(b, s) == \* _bool, or unpack_from
  [ok |-> s.kind = "bool" => b[s.at + 1] <= 1,
   x  |-> IF s.kind = "bool" THEN b[s.at + 1] = 1
          ELSE Number(s.kind, Unsigned(b, s.at, ScalarSize[s.kind]))]

RefPut(b, s, x) ==
  IF s.kind = "bool" THEN IF x THEN Store(b, s.at, <<1>>) ELSE b
  ELSE Store(b, s.at, [i \in 1..ScalarSize[s.kind] |-> Shift(x, i - 1) % 256])
-----------------------------------------------------------------------------
(* UTF-8 *)

\* The well-formed sequences of the Unicode standard (its table 3-7), which Go's
\* utf8.Valid and Python's decoder accept.
Continuation == 128..191
Second(c) == \* what may follow the first byte
  CASE c = 224 -> 160..191 [] c = 237 -> 128..159 [] c = 240 -> 144..191 [] c = 244 -> 128..143
    [] OTHER -> Continuation
More(c) == IF c < 224 THEN 0 ELSE IF c < 240 THEN 1 ELSE 2
WellFormedFrom[s \in Seq(Nat)] ==
  \/ s = <<>>
  \/ s[1] < 128 /\ WellFormedFrom[Tail(s)]
  \/ /\ s[1] \in 194..244 /\ Len(s) >= More(s[1]) + 2 /\ s[2] \in Second(s[1])
     /\ \A i \in 3..(More(s[1]) + 2) : s[i] \in Continuation
     /\ WellFormedFrom[SubSeq(s, More(s[1]) + 3, Len(s))]
utf8Valid(s) == WellFormedFrom[s]

\* The check of the C codec: the length from the high bits of the first byte, the code
\* point from the low bits, and then its range.
Sequence(c) ==
  CASE c \div 32 = 6  -> [k |-> 1, cp |-> c % 32, min |-> 128]
    [] c \div 16 = 14 -> [k |-> 2, cp |-> c % 16, min |-> 2048]
    [] c \div 8 = 30  -> [k |-> 3, cp |-> c % 8,  min |-> 65536]
    [] OTHER          -> [k |-> 0, cp |-> 0,      min |-> 0]
CodePoint(s, q) == FoldLeft(LAMBDA cp, c : cp * 64 + (c % 64), q.cp, SubSeq(s, 2, q.k + 1))
Cutf8From[s \in Seq(Nat)] ==
  \/ s = <<>>
  \/ s[1] < 128 /\ Cutf8From[Tail(s)]
  \/ LET q == Sequence(s[1]) IN
     /\ s[1] >= 128 /\ q.k > 0 /\ Len(s) - 1 >= q.k
     /\ \A j \in 2..(q.k + 1) : s[j] \div 64 = 2
     /\ CodePoint(s, q) >= q.min /\ CodePoint(s, q) <= 1114111 /\ CodePoint(s, q) \notin 55296..57343
     /\ Cutf8From[SubSeq(s, q.k + 2, Len(s))]
Cutf8(s) == Cutf8From[s]
\* The C++ codec's is the same text.
Cpputf8(s) == Cutf8From[s]
-----------------------------------------------------------------------------
(* The encoders: [n, buf] is the count that is returned and the buffer afterwards *)

Refused(b) == [n |-> 0, buf |-> b]
Fits(v) == \A i \in DOMAIN v.var : Len(v.var[i]) <= MaxLen
Size(m, v) == place[m].size + FoldLeft(LAMBDA n, s : n + 4 + Len(s), 0, v.var)
Cleared(b, n) == Store(b, 0, [i \in 1..n |-> 0])

PutFixed(m, v, b, put(_, _, _)) ==
  FoldLeft(LAMBDA x, i : put(x, place[m].scalars[i], v.fixed[i]), b, [i \in DOMAIN v.fixed |-> i])
\* PutVar of each field, from off on.
PutVars(v, b, off) ==
  FoldLeft(LAMBDA x, s : [b |-> Store(x.b, x.off, LittleEndian(Len(s), 4) \o s), off |-> x.off + 4 + Len(s)],
           [b |-> b, off |-> off], v.var)

GoMarshalTo(m, v, b) ==
  IF ~Fits(v) \/ Len(b) < Size(m, v) THEN Refused(b)
  ELSE LET p == PutVars(v, PutFixed(m, v, Cleared(b, place[m].size), GoPut), place[m].size)
       IN [n |-> p.off, buf |-> p.b]

\* Mutant: stores the fields without clearing the section.
Mutencode(m, v, b) ==
  IF ~Fits(v) \/ Len(b) < Size(m, v) THEN Refused(b)
  ELSE [n |-> Size(m, v), buf |-> PutVars(v, PutFixed(m, v, b, CPut), place[m].size).b]

Cencode(m, v, b) ==
  IF ~Fits(v) \/ Len(b) < Size(m, v) THEN Refused(b)
  ELSE [n |-> Size(m, v),
        buf |-> PutVars(v, PutFixed(m, v, Cleared(b, place[m].size), CPut), place[m].size).b]

Cppencode(m, v, b) ==
  IF ~Fits(v) \/ Len(b) < Size(m, v) THEN Refused(b)
  ELSE [n |-> Size(m, v),
        buf |-> PutVars(v, PutFixed(m, v, Cleared(b, place[m].size), CppPut), place[m].size).b]

\* Python appends to a bytearray of its own.
Pyencode(m, v, b) ==
  LET fixed == PutFixed(m, v, [i \in 1..place[m].size |-> 0], PyPut)
      all == FoldLeft(LAMBDA x, s : x \o LittleEndian(Len(s), 4) \o s, fixed, v.var)
  IN IF Fits(v) THEN [n |-> Len(all), buf |-> all] ELSE Refused(b)

RefEncode(m, v) ==
  FoldLeft(LAMBDA x, s : x \o LittleEndian(Len(s), 4) \o s,
           PutFixed(m, v, [i \in 1..place[m].size |-> 0], RefPut), v.var)

Marshal(l, m, v, b) ==
  CASE l = "go" -> GoMarshalTo(m, v, b) [] l = "c" -> Cencode(m, v, b)
    [] l = "cpp" -> Cppencode(m, v, b)  [] l = "py" -> Pyencode(m, v, b)
-----------------------------------------------------------------------------
(* The decoders: an error, or a value *)

Malformed(e) == [err |-> e, value |-> NoValue]

\* A length prefix and the bytes after it: what is left decides, so that no sum overflows.
\* A prefix of 2 GiB and more is longer than any input, whatever it is.
GetVar(b, off) ==
  LET n == IF b[off + 4] < 128 THEN Unsigned(b, off, 4) ELSE 2147483647 IN
  IF IF Len(b) - off < 4 THEN TRUE ELSE n > Len(b) - (off + 4)
    THEN [ok |-> FALSE, raw |-> <<>>, off |-> off]
    ELSE [ok |-> TRUE, raw |-> SubSeq(b, off + 5, off + 4 + n), off |-> off + 4 + n]

\* One variable field; an error ends the decoding.
DecodeVar(b, x, f, utf8(_)) ==
  LET g == GetVar(b, x.off) IN
  CASE x.err # "" -> x
    [] x.err = "" /\ ~g.ok -> [x EXCEPT !.err = "length"]
    [] x.err = "" /\ g.ok /\ f.type.kind = "string" /\ ~utf8(g.raw) -> [x EXCEPT !.err = "utf8"]
    [] OTHER -> [x EXCEPT !.off = g.off, !.var = Append(@, g.raw)]

\* The order in which all the decoders look: the fixed section is there, its fields, the
\* variable fields, nothing after them.
Decoded(m, b, get(_, _), utf8(_)) ==
  LET s == place[m].scalars
      fixed == [i \in DOMAIN s |-> get(b, s[i])]
      vars == FoldLeft(LAMBDA x, f : DecodeVar(b, x, f, utf8),
                       [err |-> "", off |-> place[m].size, var |-> <<>>], VarFields(m))
  IN CASE Len(b) < place[m].size -> Malformed("short")
       [] OTHER ->
          IF \E i \in DOMAIN s : ~fixed[i].ok THEN Malformed("bool")
          ELSE IF vars.err # "" THEN Malformed(vars.err)
          ELSE IF vars.off # Len(b) THEN Malformed("trailing")
          ELSE [err |-> "", value |-> [fixed |-> [i \in DOMAIN s |-> fixed[i].x], var |-> vars.var]]

GoUnmarshalBinary(m, b) == Decoded(m, b, GoGet, utf8Valid)
Cdecode(m, b) == Decoded(m, b, CGet, Cutf8)
Pydecode(m, b) == Decoded(m, b, PyGet, utf8Valid)
\* nullopt does not tell why.
Cppdecode(m, b) ==
  LET d == Decoded(m, b, CppGet, Cpputf8) IN IF d.err = "" THEN d ELSE Malformed("malformed")

\* refcodec.Decode: the kind of the error, or none; it builds no value.
RefDecode(m, b) ==
  LET bools == {i \in DOMAIN place[m].scalars : place[m].scalars[i].kind = "bool"}
      off == FoldLeft(LAMBDA x, f :
               IF x.err # "" THEN x
               ELSE IF ~GetVar(b, x.off).ok THEN [x EXCEPT !.err = "length"]
               ELSE IF f.type.kind = "string" /\ ~utf8Valid(GetVar(b, x.off).raw) THEN [x EXCEPT !.err = "utf8"]
               ELSE [x EXCEPT !.off = GetVar(b, x.off).off],
               [err |-> "", off |-> place[m].size], VarFields(m))
  IN IF Len(b) < place[m].size THEN "short"
     ELSE IF \E i \in bools : b[place[m].scalars[i].at + 1] > 1 THEN "bool"
     ELSE IF off.err # "" THEN off.err
     ELSE IF off.off # Len(b) THEN "trailing" ELSE ""

Unmarshal(l, m, b) ==
  CASE l = "go" -> GoUnmarshalBinary(m, b) [] l = "c" -> Cdecode(m, b)
    [] l = "cpp" -> Cppdecode(m, b)        [] l = "py" -> Pydecode(m, b)
-----------------------------------------------------------------------------
(* A message is encoded by one program, and decoded by one of each language *)

Encode(l, m, v, room) ==
  /\ Accepted /\ phase = "idle" /\ Size(m, v) + room >= 0
  /\ buf' = [i \in 1..(Size(m, v) + room) |-> Stale]
  /\ out' = Marshal(l, m, v, buf')
  /\ phase' = "encoded" /\ msg' = m /\ value' = v /\ by' = l
  /\ UNCHANGED <<wire, got>>

Send ==
  /\ phase = "encoded" /\ out.n > 0
  /\ wire' = SubSeq(out.buf, 1, out.n)
  /\ phase' = "wire" /\ buf' = <<>> /\ out' = Refused(<<>>) /\ by' = ""
  /\ UNCHANGED <<msg, value, got>>

Change ==
  /\ phase = "wire" /\ value # NoValue
  /\ wire' \in Changed(wire)
  /\ value' = NoValue
  /\ UNCHANGED <<phase, msg, buf, out, by, got>>

Arrive(m) ==
  /\ Accepted /\ phase = "idle"
  /\ wire' \in Arrivals(schema, m)
  /\ phase' = "wire" /\ msg' = m
  /\ UNCHANGED <<value, buf, out, by, got>>

Decode ==
  /\ phase = "wire"
  /\ got' = [l \in Langs |-> Unmarshal(l, msg, wire)]
  /\ phase' = "decoded"
  /\ UNCHANGED <<msg, value, buf, out, by, wire>>

CodecNext ==
  \/ \E l \in Langs, m \in Messages, room \in Rooms : \E v \in Values(schema, m) : Encode(l, m, v, room)
  \/ Send \/ Change \/ Decode
  \/ \E m \in Messages : Arrive(m)

Init == CheckInit /\ CodecInit
Next ==
  \/ CheckNext /\ UNCHANGED codecVars
  \/ CodecNext /\ UNCHANGED checkVars
vars == <<checkVars, codecVars>>
Spec == Init /\ [][Next]_vars
-----------------------------------------------------------------------------
\* The bytes of the fixed section that belong to a scalar.
Meant(m) == UNION {(s.at + 1)..(s.at + ScalarSize[s.kind]) : s \in Range(place[m].scalars)}

\* spec/schema.md and the vectors of ipcgen/testdata hold every generated codec to the
\* reference.  Whatever was in the buffer, an encoder writes exactly the reference's
\* bytes, padding included, and nothing past them; a buffer that is too small, or a field
\* that is too long, it leaves alone.  Of any bytes, every decoder gives the reference's
\* verdict; the value that was encoded comes back, and a value that is accepted encodes
\* to the bytes it came from, but for the padding.
CodecsAgree ==
  /\ phase = "encoded" =>
       IF Fits(value) /\ (by = "py" \/ Len(buf) >= Size(msg, value))
         THEN LET ref == RefEncode(msg, value) IN
              /\ out.n = Len(ref)
              /\ out.buf = ref \o (IF by = "py" THEN <<>> ELSE SubSeq(buf, Len(ref) + 1, Len(buf)))
         ELSE out = Refused(buf)
  /\ phase = "decoded" => \A l \in Langs :
       LET err == RefDecode(msg, wire)
           again == RefEncode(msg, got[l].value)
       IN /\ got[l].err = IF l = "cpp" /\ err # "" THEN "malformed" ELSE err
          /\ value # NoValue => got[l] = [err |-> "", value |-> value]
          /\ err = "" =>
               /\ Len(again) = Len(wire)
               /\ \A i \in DOMAIN wire :
                    (i > place[msg].size \/ i \in Meant(msg)) => again[i] = wire[i]
=============================================================================
