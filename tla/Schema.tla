------------------------------- MODULE Schema -------------------------------
(***************************************************************************)
(* The check of a parsed schema (ipcgen: schema/check.go, schema.go): the  *)
(* names, the references, the search for messages that contain themselves, *)
(* one call of visit at a time, and the layout of the fixed sections.      *)
(*                                                                         *)
(* A message is known by its place in the file.  Its name comes with what  *)
(* Snake makes of it and with the Go constant of its type ID, a field's    *)
(* name with what Camel makes of it; names that are malformed or reserved  *)
(* are left out.  An error is its kind and the message it is about: the    *)
(* sort by position is of no account.  The kinds i32, i64, f32 and f64,    *)
(* with the sizes of u32 and u64, are left out.                            *)
(***************************************************************************)
EXTENDS Integers, Sequences, FiniteSets, SequencesExt, FiniteSetsExt, Relation

CONSTANTS
  Schemas,      \* the schemas that are checked: sequences of messages
  MaxFixedSize, \* of a fixed section
  NoID          \* the type ID that is reserved

VARIABLES
  schema,
  stage,              \* names, types, cycles, layout, done
  errs,
  state, stack, root, \* cycles: the colours, the calls of visit, the next message of the loop
  sorted,
  place               \* each message that is laid out: size, align, and where its scalars are

checkVars == <<schema, stage, errs, state, stack, root, sorted, place>>

Messages == DOMAIN schema
Fields(m) == schema[m].fields
ScalarSize == [bool |-> 1, u8 |-> 1, i8 |-> 1, u16 |-> 2, i16 |-> 2, u32 |-> 4, u64 |-> 8]

IsVar(t) == t.kind \in {"string", "bytes"}
FixedFields(m) == SelectSeq(Fields(m), LAMBDA f : ~IsVar(f.type))
VarFields(m) == SelectSeq(Fields(m), LAMBDA f : IsVar(f.type))
Fixed(m) == VarFields(m) = <<>>

\* byName keeps the first message of a name.
Lookup(name) == {m \in Messages : schema[m].name = name /\ \A n \in 1..(m - 1) : schema[n].name # name}

Only(S) == CHOOSE m \in S : TRUE

\* The type that decides size and alignment: an array's element.
Base(t) == IF t.kind = "array" THEN t.elem ELSE t
refOf(t) == IF Base(t).kind = "ref" THEN Lookup(Base(t).name) ELSE {}

CheckInit ==
  /\ schema \in Schemas /\ stage = "names" /\ errs = {}
  /\ state = [m \in Messages |-> "unseen"] /\ stack = <<>> /\ root = 1
  /\ sorted = <<>> /\ place = <<>>

Before(i) == 1..(i - 1)
Repeats(seq, i, key) == \E j \in Before(i) : seq[j][key] = seq[i][key]

\* names and fieldNames.
Names ==
  /\ stage = "names"
  /\ stage' = "types"
  /\ errs' = {<<"name", m>> : m \in {m \in Messages :
                 \/ Repeats(schema, m, "name") \/ Repeats(schema, m, "snake")}}
        \cup {<<"id", m>> : m \in {m \in Messages :
                 schema[m].id = NoID \/ Repeats(schema, m, "id")}}
        \cup {<<"constant", m>> : m \in {m \in Messages :
                 \E n \in Messages : m \in Lookup(schema[n].const)}}
        \cup {<<"field", m>> : m \in {m \in Messages : \E i \in DOMAIN Fields(m) :
                 \/ Repeats(Fields(m), i, "name") \/ Repeats(Fields(m), i, "camel")}}
  /\ UNCHANGED <<schema, state, stack, root, sorted, place>>

\* What resolve and types say of one field.
BadType(t) ==
  LET e == Base(t) IN
  \/ e.kind = "ref" /\ (Lookup(e.name) = {} \/ \E m \in Lookup(e.name) : ~Fixed(m))
  \/ t.kind = "array" /\ (t.len < 1 \/ IsVar(e) \/ e.kind = "array")

Types ==
  LET bad == {<<"type", m>> : m \in {m \in Messages : \E i \in DOMAIN Fields(m) : BadType(Fields(m)[i].type)}} IN
  /\ stage = "types"
  /\ errs' = errs \cup bad
  /\ stage' = IF errs' = {} THEN "cycles" ELSE "done"
  /\ UNCHANGED <<schema, state, stack, root, sorted, place>>
-----------------------------------------------------------------------------
(* cycles: a depth-first search, each frame a message and its next field *)

\* visit(m), up to its first look at a field.
Visit(m, below) ==
  \/ /\ state[m] = "unseen"
     /\ state' = [state EXCEPT ![m] = "active"]
     /\ stack' = Append(below, [msg |-> m, next |-> 1])
     /\ UNCHANGED errs
  \/ /\ state[m] # "unseen"
     /\ errs' = IF state[m] = "active" THEN errs \cup {<<"cycle", m>>} ELSE errs
     /\ stack' = below
     /\ UNCHANGED state

VisitField ==
  LET top == Last(stack)
      r == refOf(Fields(top.msg)[top.next].type)
      below == [stack EXCEPT ![Len(stack)].next = @ + 1]
  IN
  /\ stage = "cycles" /\ stack # <<>> /\ top.next <= Len(Fields(top.msg))
  /\ \/ r = {} /\ stack' = below /\ UNCHANGED <<state, errs>>
     \/ \E m \in r : Visit(m, below)
  /\ UNCHANGED <<schema, stage, root, sorted, place>>

Leave ==
  LET top == Last(stack) IN
  /\ stage = "cycles" /\ stack # <<>> /\ top.next > Len(Fields(top.msg))
  /\ stack' = Front(stack)
  /\ state' = [state EXCEPT ![top.msg] = "done"]
  /\ sorted' = Append(sorted, top.msg)
  /\ UNCHANGED <<schema, stage, errs, root, place>>

VisitRoot ==
  /\ stage = "cycles" /\ stack = <<>> /\ root <= Len(schema)
  /\ Visit(root, <<>>)
  /\ root' = root + 1
  /\ UNCHANGED <<schema, stage, sorted, place>>

CyclesEnd ==
  /\ stage = "cycles" /\ stack = <<>> /\ root > Len(schema)
  /\ stage' = IF errs = {} THEN "layout" ELSE "done"
  /\ UNCHANGED <<schema, errs, state, stack, root, sorted, place>>
-----------------------------------------------------------------------------
(* layout *)

RoundUp(n, a) == ((n + a - 1) \div a) * a

\* Size and Align of a type whose messages are laid out.
ElemSize(t) == IF t.kind = "ref" THEN place[Only(Lookup(t.name))].size ELSE ScalarSize[t.kind]
TypeSize(t) == IF t.kind = "array" THEN t.len * ElemSize(t.elem) ELSE ElemSize(t)
TypeAlign(t) ==
  IF Base(t).kind = "ref" THEN place[Only(Lookup(Base(t).name))].align
                          ELSE ScalarSize[Base(t).kind]

\* The scalars of a field at off, in the order in which the codecs come to them: what
\* their loops over an array and their calls for a contained message unroll to.
ElemScalars(t, off) ==
  IF t.kind = "ref" THEN LET in == place[Only(Lookup(t.name))].scalars
                         IN [j \in DOMAIN in |-> [in[j] EXCEPT !.at = @ + off]]
                    ELSE <<[at |-> off, kind |-> t.kind]>>
TypeScalars(t, off) ==
  IF t.kind = "array" THEN FlattenSeq([i \in 1..t.len |-> ElemScalars(t.elem, off + (i - 1) * ElemSize(t.elem))])
                      ELSE ElemScalars(t, off)

\* Places the next field at the end of what is placed.
PlaceField(p, f) ==
  LET a == TypeAlign(f.type)
      off == RoundUp(p.size, a)
  IN [size |-> off + TypeSize(f.type), align |-> Max({p.align, a}),
      scalars |-> p.scalars \o TypeScalars(f.type, off),
      fits |-> p.fits /\ off + TypeSize(f.type) <= MaxFixedSize]

\* Mutant: leaves the padding off the end of a section.
MutPadded(p) == [p EXCEPT !.size = @]

\* The section ends on a multiple of its alignment, as the next element of an array must.
Padded(p) == [p EXCEPT !.size = RoundUp(@, p.align)]

\* One message of Sorted: a section that is too large ends the check.
Layout ==
  LET m == sorted[Cardinality(DOMAIN place) + 1]
      p == FoldLeft(PlaceField, [size |-> 0, align |-> 1, scalars |-> <<>>, fits |-> TRUE], FixedFields(m))
  IN
  /\ stage = "layout" /\ Cardinality(DOMAIN place) < Len(sorted)
  /\ \/ /\ p.fits
        /\ place' = [n \in DOMAIN place \cup {m} |->
             IF n = m THEN Padded(p) ELSE place[n]]
        /\ UNCHANGED <<stage, errs>>
     \/ ~p.fits /\ errs' = errs \cup {<<"size", m>>} /\ stage' = "done" /\ UNCHANGED place
  /\ UNCHANGED <<schema, state, stack, root, sorted>>

LayoutEnd ==
  /\ stage = "layout" /\ Cardinality(DOMAIN place) = Len(sorted)
  /\ stage' = "done"
  /\ UNCHANGED <<schema, errs, state, stack, root, sorted, place>>

CheckNext ==
  Names \/ Types \/ VisitField \/ Leave \/ VisitRoot \/ CyclesEnd \/ Layout \/ LayoutEnd
-----------------------------------------------------------------------------
Accepted == stage = "done" /\ errs = {}

Holds(m, n) == \E i \in DOMAIN Fields(m) : n \in refOf(Fields(m)[i].type)
ContainsItself ==
  LET closure == TransitiveClosure([mn \in Messages \X Messages |-> Holds(mn[1], mn[2])], Messages)
  IN \E m \in Messages : closure[m, m]

\* The Go declarations, the C types and the type IDs of the messages do not clash.
Distinct ==
  LET n == Len(schema) IN
  /\ Cardinality({schema[m].name : m \in Messages} \cup {schema[m].const : m \in Messages}) = 2 * n
  /\ Cardinality({schema[m].snake : m \in Messages}) = n
  /\ Cardinality({schema[m].id : m \in Messages} \ {NoID}) = n

\* check.go: "layout places every fixed field."  An accepted schema declares no name
\* twice and contains no message in itself, every message comes after those it contains
\* ("Sorted puts each contained message first"), and every scalar, through any nesting
\* of messages and arrays, lies on a multiple of its size, inside the section and clear
\* of every other scalar.  A schema is refused for a cycle only if it has one.
CheckSound ==
  /\ Accepted =>
       /\ Distinct /\ ~ContainsItself
       /\ IsInjective(sorted) /\ Range(sorted) = Messages
       /\ \A i, j \in Messages : Holds(sorted[i], sorted[j]) => j < i
       /\ \A m \in Messages :
            LET s == place[m].scalars
                end(i) == s[i].at + ScalarSize[s[i].kind]
            IN /\ \A i \in DOMAIN s :
                    s[i].at % ScalarSize[s[i].kind] = 0 /\ end(i) <= place[m].size
               /\ \A i, j \in DOMAIN s : i < j => end(i) <= s[j].at
  /\ (\E m \in Messages : <<"cycle", m>> \in errs) => ContainsItself
=============================================================================
