------------------------------ MODULE MCLayers ------------------------------
(***************************************************************************)
(* What is built on channels: the service, the stream connection, and the  *)
(* messages of the schema compiler.  A behaviour picks a scenario at the   *)
(* start and keeps it; the variables of the other layers stand still.      *)
(*   restart  one client connects across two services, with a death;       *)
(*   calls    one client and one service, calls that are given up, a death;*)
(*   crowd    two clients connect to one service that may close; one of    *)
(*            them closes;                                                 *)
(*   writers  a stream: two goroutines write and half close, both sides    *)
(*            close, and the writing process dies, without deadlines;      *)
(*   clock    a stream: one goroutine writes and half closes, and          *)
(*            deadlines of both directions are set, pass and are replaced; *)
(*   schema   a schema is checked, and its messages encoded and decoded.   *)
(***************************************************************************)
EXTENDS Service, MCCodec

CONSTANTS c1, c2, w1, w2

VARIABLES
  scenario,
  pipe, wmu, wpc, call, eofSent, closing, alive, rpc, rmsg, rerr, pending, eof,
  rclosing, rclosed, ctx, gen, timer, late, expired, sent, eofAt, read, due, sets, writes, dropped,
  schema, stage, errs, state, stack, root, sorted, place,
  phase, msg, value, buf, out, by, wire, got

streamVars ==
  <<pipe, wmu, wpc, call, eofSent, closing, alive, rpc, rmsg, rerr, pending, eof,
    rclosing, rclosed, ctx, gen, timer, late, expired, sent, eofAt, read, due, sets, writes, dropped>>
codecVars ==
  <<schema, stage, errs, state, stack, root, sorted, place, phase, msg, value, buf, out, by, wire, got>>

Conn == INSTANCE Stream WITH
  Writers <- {w1, w2}, WriteLen <- 3, Limit <- 2, ReadLens <- {1, 3}, Room <- 2,
  MaxWrites <- 2, MaxSets <- 2, Times <- {"none", "past", "later"}, Mortal <- TRUE,
  chan <- pipe, cpc <- closing, got <- read

Gen == INSTANCE Codec WITH
  Schemas <- MCSchemas, MaxFixedSize <- 16, NoID <- ReservedID,
  Langs <- {"go", "c", "cpp", "py"}, MaxLen <- 3, Rooms <- MCRooms, Stale <- 170,
  Values <- MCValues, Changed <- MCChanged, Arrivals <- MCArrivals

Scope(cs, serves, calls, dying) == [clients |-> cs, serves |-> serves, calls |-> calls, deaths |-> dying]
Services3 == [
  restart |-> Scope({c1}, 2, 0, 1),
  calls   |-> Scope({c1}, 1, 2, 1),
  crowd   |-> Scope({c1, c2}, 1, 0, 0)]
S == Services3[scenario]

MCInit ==
  /\ scenario \in DOMAIN Services3 \cup {"writers", "clock", "schema"}
  /\ Init /\ Conn!Init /\ Gen!CodecInit
  /\ Gen!CheckInit /\ (scenario = "schema" \/ schema = CodecSchema)

ServiceNext ==
  /\ \/ \E k \in 1..S.serves :
          \/ MainStep(k) \/ CloseStep(k) \/ CreateRegistry(k) \/ CloseCancel(k)
          \/ deaths < S.deaths /\ ServiceDies(k)
     \/ \E c \in S.clients :
          \/ ServeStep(c) \/ ClientStep(c) \/ CreateHalf(c) \/ GiveUp(c)
          \/ c = c1 /\ CloseClient(c)
          \/ seq[c] < S.calls /\ Call(c)
          \/ deaths < S.deaths /\ ClientDies(c)
  /\ UNCHANGED <<streamVars, codecVars>>

StreamNext ==
  /\ \/ \E w \in IF scenario = "writers" THEN {w1, w2} ELSE {w1} :
          Conn!Write(w) \/ Conn!CloseWrite(w) \/ Conn!WriterStep(w)
     \/ scenario = "writers" /\
          (Conn!CloseEOF \/ Conn!CloseStep \/ Conn!Die \/ Conn!CloseReader \/ Conn!CloseReaderChannel)
     \/ (\E n \in {1, 3} : Conn!Read(n)) \/ Conn!ReadStep
     \/ scenario = "clock" /\ \E d \in Conn!Dirs :
          Conn!GoesOff(d) \/ Conn!FireStep(d) \/ \E at \in {"none", "past", "later"} : Conn!set(d, at)
  /\ UNCHANGED <<vars, codecVars>>

MCNext ==
  /\ \/ scenario \in DOMAIN Services3 /\ ServiceNext
     \/ scenario \in {"writers", "clock"} /\ StreamNext
     \/ scenario = "schema" /\ Gen!Next /\ UNCHANGED <<vars, streamVars>>
  /\ UNCHANGED scenario

MCSpec ==
  MCInit /\ [][MCNext]_<<scenario, vars, streamVars, codecVars>> /\ Fairness /\ Conn!Fairness

\* Stream: every byte is read once and in order, up to the end of the stream.
StreamIntact == Conn!StreamIntact

\* Stream: the bytes of a Write are together.
WritesWhole == Conn!WritesWhole

\* Stream: no deadline passes but the one that was set last.
DeadlineReal == Conn!DeadlineReal

\* Stream: no operation stays blocked that has a reason to end.
OpsEnd == Conn!OpsEnd

\* Schema: an accepted schema has a sound layout.
CheckSound == Gen!CheckSound

\* Codec: the four codecs do what the reference does.
CodecsAgree == Gen!CodecsAgree
=============================================================================
