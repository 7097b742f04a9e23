--------------------------- MODULE IdentityProofs ---------------------------
(***************************************************************************)
(* Proofs about Identity for any number of callers, watches and faults.    *)
(*                                                                         *)
(* ExitIsReal rests on LifeKept: a watch that ends with an error while the *)
(* process lives dials once more, and finds the socket in place.  That a   *)
(* function is called once rests on its being in one list of one watch     *)
(* (Once), and CallComes on the watch in the table being the one that is   *)
(* not stopped (TableInv).  Most actions change one watch: for each, a     *)
(* lemma first says what the watch becomes (Shape) and then derives the    *)
(* invariant from that.                                                    *)
(***************************************************************************)
EXTENDS Identity, TLAPS

\* A watch replaced in the list: the list is as long, and the others are as they were.
LEMMA Replaced ==
  ASSUME NEW T, NEW list \in Seq(T), NEW k \in 1..Len(list), NEW x \in T
  PROVE  /\ [list EXCEPT ![k] = x] \in Seq(T)
         /\ Len([list EXCEPT ![k] = x]) = Len(list)
         /\ \A l \in 1..Len(list) : [list EXCEPT ![k] = x][l] = IF l = k THEN x ELSE list[l]
  OBVIOUS

\* A watch or a call added to a list: it comes last, and the others are as they were.
LEMMA Added ==
  ASSUME NEW T, NEW list \in Seq(T), NEW x \in T
  PROVE  /\ Append(list, x) \in Seq(T) /\ Append(list, x) # <<>>
         /\ Len(Append(list, x)) = Len(list) + 1 /\ Append(list, x)[Len(list) + 1] = x
         /\ \A l \in 1..Len(list) : Append(list, x)[l] = list[l]
  OBVIOUS

\* Where the process stands in listenLife, and what its socket file says of it.
SockInv ==
  /\ alive \in BOOLEAN /\ released \in BOOLEAN /\ exited \in BOOLEAN
  /\ sock \in {"none", "bound", "listening"} /\ path \in {"none", "tmp", "life"}
  /\ spc \in {"idle", "dial", "remove"}
  /\ ~alive => sock = "none"
  /\ alive /\ sock = "none" => path = "none" /\ ~released
  /\ sock = "bound" => path = "tmp" /\ ~released
  /\ sock = "listening" /\ ~released => path \in {"tmp", "life"}
  /\ sock = "listening" /\ released => path = "none"
  /\ spc = "remove" => ~alive

\* The types, and a table that points at a watch.
WatchInv ==
  /\ watches \in Seq(Watch) /\ byID \in Nat /\ calling \subseteq Callers
  /\ cpc \in [Callers -> {"idle", "waiting", "cancelled"}]
  /\ calls \in [Callers -> Seq({"exit", "error"})]
  /\ byID # 0 => byID \in DOMAIN watches

\* The watch in the table is the one that is not stopped.  A watch collects no
\* function before it is stopped.
TableInv ==
  \A k \in DOMAIN watches :
    /\ watches[k].stopped <=> byID # k
    /\ ~watches[k].stopped => watches[k].pc \in {"wait", "collect"}
    /\ watches[k].pc \notin {"recheck", "call"} => watches[k].due = {}

\* ExitIsReal with what it rests on: while the process lives and has not released
\* its socket, every wait that ends does so with an error, and a dial answers.
RealInv ==
  alive /\ ~released =>
    /\ DOMAIN watches # {} => path = "life"
    /\ calling = {} /\ ~exited
    /\ \A k \in DOMAIN watches : watches[k].pc \in {"collect", "recheck", "call"} => watches[k].err
    /\ \A c \in Callers : \A i \in DOMAIN calls[c] : calls[c][i] # "exit"

\* The function of c is in a list of watch k.
In(c, k) == c \in watches[k].fns \cup watches[k].due

\* Someone is on the way to call c through watch k.
Coming(c, k) ==
  \/ c \in watches[k].due /\ watches[k].pc \in {"recheck", "call"}
  \/ c \in watches[k].fns /\ ~watches[k].stopped /\ watches[k].pc \in {"wait", "collect"}

\* A function is in one list, and not called while it is in one that is to call it.
Once(c) ==
  /\ Len(calls[c]) <= 1
  /\ cpc[c] = "idle" => calls[c] = <<>> /\ c \notin calling
  /\ c \in calling => calls[c] = <<>>
  /\ \A k \in DOMAIN watches :
       /\ In(c, k) => cpc[c] # "idle" /\ c \notin calling
       /\ c \in watches[k].due => calls[c] = <<>>
       /\ c \in watches[k].fns /\ ~watches[k].stopped => calls[c] = <<>>
       /\ \A l \in DOMAIN watches : In(c, k) /\ In(c, l) => k = l

OnceInv == \A c \in Callers : Once(c)

IdInv == SockInv /\ WatchInv /\ TableInv /\ RealInv /\ OnceInv /\ CallComes

\* Watch k has these fields now, and the others are as they were.
Shape(k, l, stopped, err, fns, due) ==
  /\ watches' \in Seq(Watch) /\ DOMAIN watches' = DOMAIN watches
  /\ watches'[k].pc = l /\ watches'[k].fns = fns /\ watches'[k].due = due
  /\ watches'[k].stopped <=> stopped
  /\ watches'[k].err <=> err
  /\ \A i \in DOMAIN watches \ {k} : watches'[i] = watches[i]

\* What is in the table of watches.
LEMMA WatchType ==
  ASSUME WatchInv, NEW k \in DOMAIN watches
  PROVE  watches[k] \in Watch /\ k \in Nat \ {0}
  BY DEF WatchInv

\* Another record in the place of a watch.
LEMMA SetWatch ==
  ASSUME WatchInv, NEW k \in DOMAIN watches, NEW r \in Watch, watches' = [watches EXCEPT ![k] = r]
  PROVE  Shape(k, r.pc, r.stopped, r.err, r.fns, r.due)
  BY Replaced DEF WatchInv, Shape

\* A first call.
LEMMA CalledOnce ==
  ASSUME IdInv, NEW c \in Callers, NEW what \in {"exit", "error"}, calls[c] = <<>>, Called(c, what)
  PROVE  /\ calls' \in [Callers -> Seq({"exit", "error"})] /\ calls'[c] # <<>>
         /\ Len(calls'[c]) = 1 /\ DOMAIN calls'[c] = {1} /\ calls'[c][1] = what
         /\ \A d \in Callers \ {c} : calls'[d] = calls[d]
<1>1. calls' = [calls EXCEPT ![c] = Append(calls[c], what)]
      /\ calls \in [Callers -> Seq({"exit", "error"})]
  BY DEF Called, IdInv, WatchInv
<1>2. Append(calls[c], what) \in Seq({"exit", "error"}) /\ Len(Append(calls[c], what)) = 1
      /\ Append(calls[c], what)[1] = what
  BY <1>1
<1>3. calls'[c] = Append(calls[c], what)
  BY <1>1
<1>4. DOMAIN calls'[c] = {1}
  BY <1>2, <1>3
<1> QED
  BY <1>1, <1>2, <1>3, <1>4

\* onExit, where byID has a watch: the function joins its list.
LEMMA JoinInv ==
  ASSUME IdInv, NEW c \in Callers, OnExit(c), NEW k, k = byID, k # 0
  PROVE  IdInv'
<1>1. k \in DOMAIN watches
  BY DEF IdInv, WatchInv
<1>2. Shape(k, watches[k].pc, watches[k].stopped, watches[k].err, watches[k].fns \cup {c}, watches[k].due)
  <2>1. watches[k] \in Watch
    BY <1>1, WatchType DEF IdInv
  <2> DEFINE r == [watches[k] EXCEPT !.fns = @ \cup {c}]
  <2>2. r \in Watch
    BY <2>1 DEF Watch
  <2>3. watches' = [watches EXCEPT ![k] = r]
    BY <1>1, <2>1 DEF OnExit, IdInv, WatchInv, Watch
  <2>4. Shape(k, r.pc, r.stopped, r.err, r.fns, r.due)
    BY <1>1, <2>2, <2>3, SetWatch DEF IdInv
  <2> QED
    BY <1>1, <2>1, <2>4 DEF Watch, Shape
<1>3. /\ UNCHANGED <<alive, sock, released, path, spc, exited, calls, byID, calling>>
      /\ cpc[c] = "idle" /\ cpc' = [cpc EXCEPT ![c] = "waiting"]
  BY DEF OnExit, procVars
<1>4. SockInv' /\ WatchInv' /\ TableInv'
  BY <1>1, <1>2, <1>3 DEF IdInv, SockInv, TableInv, WatchInv, Shape
<1>5. RealInv'
  <2> SUFFICES ASSUME alive', ~released'
               PROVE  RealInv!2'
    BY DEF RealInv
  <2>1. alive /\ ~released
    BY <1>1, <1>2, <1>3 DEF IdInv, SockInv
  <2>2. (DOMAIN watches # {} => path = "life")' /\ calling' = {} /\ ~exited'
    BY <1>1, <1>2, <1>3, <2>1 DEF IdInv, SockInv, WatchInv, RealInv, Shape
  <2>3. ASSUME NEW i \in DOMAIN watches', watches'[i].pc \in {"collect", "recheck", "call"}
        PROVE watches'[i].err
    BY <1>1, <1>2, <1>3, <2>1, <2>3 DEF IdInv, SockInv, WatchInv, RealInv, Shape
  <2>4. ASSUME NEW d \in Callers, NEW i \in DOMAIN calls'[d] PROVE calls'[d][i] # "exit"
    BY <1>1, <1>2, <1>3, <2>1, <2>4 DEF IdInv, SockInv, WatchInv, RealInv, Shape
  <2> QED
    BY <2>2, <2>3, <2>4
<1>6. ASSUME NEW d \in Callers PROVE Once(d)'
  <2>0. Once(d)
    BY DEF IdInv, OnceInv
  <2>1. /\ Len(calls'[d]) <= 1
        /\ cpc'[d] = "idle" => calls'[d] = <<>> /\ d \notin calling'
        /\ d \in calling' => calls'[d] = <<>>
    BY <2>0, <1>1, <1>2, <1>3 DEF IdInv, WatchInv, Once, In, Shape
  <2>2. ASSUME NEW i \in DOMAIN watches'
        PROVE  /\ In(d, i)' => cpc'[d] # "idle" /\ d \notin calling'
               /\ d \in watches'[i].due => calls'[d] = <<>>
               /\ d \in watches'[i].fns /\ ~watches'[i].stopped => calls'[d] = <<>>
    BY <2>0, <2>2, <1>1, <1>2, <1>3 DEF IdInv, WatchInv, TableInv, Once, In, Shape
  <2>3. ASSUME NEW i \in DOMAIN watches', NEW j \in DOMAIN watches', In(d, i)', In(d, j)'
        PROVE i = j
    BY <2>0, <2>3, <1>1, <1>2, <1>3 DEF Once, In, Shape
  <2> QED
    BY <2>1, <2>2, <2>3 DEF Once
<1>7. CallComes'
  <2> SUFFICES ASSUME NEW d \in Callers, cpc'[d] = "waiting", calls'[d] = <<>>, d \notin calling'
               PROVE  \E i \in DOMAIN watches' : Coming(d, i)'
    BY DEF CallComes, Coming
  <2>1. CASE d = c
    BY <2>1, <1>1, <1>2, <1>3 DEF IdInv, WatchInv, TableInv, Coming, Shape
  <2>2. CASE d # c
    <3>1. PICK i \in DOMAIN watches : Coming(d, i)
      BY <2>2, <1>1, <1>2, <1>3 DEF IdInv, WatchInv, CallComes, Coming
    <3>2. i \in DOMAIN watches' /\ Coming(d, i)'
      BY <2>2, <3>1, <1>1, <1>2, <1>3 DEF Coming, Shape
    <3> QED
      BY <3>2
  <2> QED
    BY <2>1, <2>2
<1> QED
  BY <1>4, <1>5, <1>6, <1>7 DEF IdInv, OnceInv

\* onExit, where the dial finds no process: go fn(nil).
LEMMA GoneInv ==
  ASSUME IdInv, NEW c \in Callers, OnExit(c), byID = 0, lifeGone
  PROVE  IdInv'
<1>1. /\ UNCHANGED <<alive, sock, released, path, spc, exited, calls, byID, watches>>
         /\ calling' = calling \cup {c}
      /\ cpc[c] = "idle" /\ cpc' = [cpc EXCEPT ![c] = "waiting"]
  BY DEF OnExit, procVars
<1>2. Known /\ lifeGone
  BY DEF OnExit
<1>3. SockInv' /\ WatchInv' /\ TableInv'
  BY <1>1, <1>2 DEF IdInv, SockInv, TableInv, WatchInv, Shape, Known, lifeGone
<1>4. RealInv'
  BY <1>1, <1>2 DEF IdInv, SockInv, WatchInv, TableInv, RealInv, Shape, Known, lifeGone
<1>5. ASSUME NEW d \in Callers PROVE Once(d)'
  BY <1>5, <1>1, <1>2 DEF IdInv, WatchInv, TableInv, OnceInv, Once, In, Shape, Known, lifeGone
<1>6. CallComes'
  BY <1>1, <1>2 DEF IdInv, WatchInv, TableInv, OnceInv, Once, In, CallComes, Shape, Known, lifeGone
<1> QED
  BY <1>3, <1>4, <1>5, <1>6 DEF IdInv, OnceInv

\* onExit, where the dial connects: a new watch, the one in the table.
LEMMA OpenInv ==
  ASSUME IdInv, NEW c \in Callers, OnExit(c), byID = 0, ~lifeGone, NEW n, n = Len(watches) + 1
  PROVE  IdInv'
<1>1. /\ watches' \in Seq(Watch) /\ DOMAIN watches' = DOMAIN watches \cup {n}
      /\ n \in Nat \ {0} /\ n \notin DOMAIN watches /\ byID' = n /\ watches'[n] = NewWatch(c)
      /\ \A i \in DOMAIN watches : watches'[i] = watches[i]
  <2>1. NewWatch(c) \in Watch
    BY DEF NewWatch, Watch
  <2>2. watches' = Append(watches, NewWatch(c)) /\ byID' = Len(watches')
    BY DEF OnExit
  <2> QED
    BY <2>1, <2>2, Added DEF IdInv, WatchInv
<1>2. /\ UNCHANGED <<alive, sock, released, path, spc, exited, calls, calling>>
      /\ cpc[c] = "idle" /\ cpc' = [cpc EXCEPT ![c] = "waiting"]
  BY DEF OnExit, procVars
<1>3. Known /\ ~lifeGone
  BY DEF OnExit
<1>4. SockInv' /\ WatchInv' /\ TableInv'
  BY <1>1, <1>2, <1>3 DEF IdInv, SockInv, TableInv, WatchInv, Shape, Known, lifeGone, NewWatch
<1>5. RealInv'
  BY <1>1, <1>2, <1>3
     DEF IdInv, SockInv, WatchInv, TableInv, RealInv, Shape, Known, lifeGone, NewWatch
<1>6. ASSUME NEW d \in Callers PROVE Once(d)'
  BY <1>6, <1>1, <1>2, <1>3
     DEF IdInv, WatchInv, TableInv, OnceInv, Once, In, Shape, Known, lifeGone, NewWatch
<1>7. CallComes'
  <2> SUFFICES ASSUME NEW d \in Callers, cpc'[d] = "waiting", calls'[d] = <<>>, d \notin calling'
               PROVE  \E i \in DOMAIN watches' : Coming(d, i)'
    BY DEF CallComes, Coming
  <2>1. CASE d = c
    <3>1. n \in DOMAIN watches' /\ watches'[n] = NewWatch(c)
      BY <1>1
    <3>2. Coming(d, n)'
      BY <2>1, <3>1 DEF Coming, NewWatch
    <3> QED
      BY <3>1, <3>2
  <2>2. CASE d # c
    <3>1. PICK i \in DOMAIN watches : Coming(d, i)
      BY <2>2, <1>1, <1>2, <1>3 DEF IdInv, WatchInv, CallComes, Coming
    <3>2. i \in DOMAIN watches' /\ Coming(d, i)'
      BY <2>2, <3>1, <1>1, <1>2, <1>3 DEF Coming, Shape, Known, lifeGone, NewWatch
    <3> QED
      BY <3>2
  <2> QED
    BY <2>1, <2>2
<1> QED
  BY <1>4, <1>5, <1>6, <1>7 DEF IdInv, OnceInv

\* A cancel whose function no list holds any more.
LEMMA LeaveInv ==
  ASSUME IdInv, NEW c \in Callers, Cancel(c), watches' = watches, byID' = byID
  PROVE  IdInv'
<1>1. /\ UNCHANGED <<alive, sock, released, path, spc, exited, calls, calling, byID, watches>>
      /\ cpc[c] = "waiting" /\ cpc' = [cpc EXCEPT ![c] = "cancelled"]
  BY DEF Cancel, procVars
<1>2. SockInv' /\ WatchInv' /\ TableInv'
  BY <1>1 DEF IdInv, SockInv, TableInv, WatchInv, Shape
<1>3. RealInv'
  BY <1>1 DEF IdInv, SockInv, WatchInv, TableInv, RealInv, Shape
<1>4. ASSUME NEW d \in Callers PROVE Once(d)'
  BY <1>4, <1>1 DEF IdInv, WatchInv, TableInv, OnceInv, Once, In, Shape
<1>5. CallComes'
  BY <1>1 DEF IdInv, WatchInv, TableInv, OnceInv, Once, In, CallComes, Shape
<1> QED
  BY <1>2, <1>3, <1>4, <1>5 DEF IdInv, OnceInv

\* A cancel that takes its function out and leaves the watch to run.
LEMMA CancelInv ==
  ASSUME IdInv, NEW c \in Callers, NEW k \in Holding(c), Cancel(c),
         watches[k].fns # {c} \/ watches[k].stopped,
         watches' = [watches EXCEPT ![k] = [watches[k] EXCEPT !.fns = @ \ {c}]], byID' = byID
  PROVE  IdInv'
<1>1. k \in DOMAIN watches /\ c \in watches[k].fns /\ (watches[k].fns # {c} \/ watches[k].stopped)
  BY DEF Holding
<1>2. Shape(k, watches[k].pc, watches[k].stopped, watches[k].err, watches[k].fns \ {c}, watches[k].due)
  <2>1. watches[k] \in Watch
    BY <1>1, WatchType DEF IdInv
  <2> DEFINE r == [watches[k] EXCEPT !.fns = @ \ {c}]
  <2>2. r \in Watch
    BY <2>1 DEF Watch
  <2>3. watches' = [watches EXCEPT ![k] = r]
    BY <1>1, <2>1 DEF Cancel, IdInv, WatchInv, Watch
  <2>4. Shape(k, r.pc, r.stopped, r.err, r.fns, r.due)
    BY <1>1, <2>2, <2>3, SetWatch DEF IdInv
  <2> QED
    BY <1>1, <2>1, <2>4 DEF Watch, Shape
<1>3. /\ UNCHANGED <<alive, sock, released, path, spc, exited, calls, calling, byID>>
      /\ cpc[c] = "waiting" /\ cpc' = [cpc EXCEPT ![c] = "cancelled"]
  BY DEF Cancel, procVars
<1>4. SockInv' /\ WatchInv' /\ TableInv'
  BY <1>1, <1>2, <1>3 DEF IdInv, SockInv, TableInv, WatchInv, Shape
<1>5. RealInv'
  BY <1>1, <1>2, <1>3 DEF IdInv, SockInv, WatchInv, TableInv, RealInv, Shape
<1>6. ASSUME NEW d \in Callers PROVE Once(d)'
  BY <1>6, <1>1, <1>2, <1>3 DEF IdInv, WatchInv, TableInv, OnceInv, Once, In, Shape
<1>7. CallComes'
  BY <1>1, <1>2, <1>3 DEF IdInv, WatchInv, TableInv, OnceInv, Once, In, CallComes, Shape
<1> QED
  BY <1>4, <1>5, <1>6, <1>7 DEF IdInv, OnceInv

\* The cancel of the last function, which stops the watch.
LEMMA LastInv ==
  ASSUME IdInv, NEW c \in Callers, NEW k \in Holding(c), Cancel(c),
         watches[k].fns = {c} /\ ~watches[k].stopped,
         watches' = [watches EXCEPT ![k] = [watches[k] EXCEPT !.fns = {}, !.stopped = TRUE, !.closed = TRUE]], byID' = 0
  PROVE  IdInv'
<1>1. k \in DOMAIN watches /\ watches[k].fns = {c} /\ ~watches[k].stopped
  BY DEF Holding
<1>2. Shape(k, watches[k].pc, TRUE, watches[k].err, {}, watches[k].due)
  <2>1. watches[k] \in Watch
    BY <1>1, WatchType DEF IdInv
  <2> DEFINE r == [watches[k] EXCEPT !.fns = {}, !.stopped = TRUE, !.closed = TRUE]
  <2>2. r \in Watch
    BY <2>1 DEF Watch
  <2>3. watches' = [watches EXCEPT ![k] = r]
    BY <1>1, <2>1 DEF Cancel, IdInv, WatchInv, Watch
  <2>4. Shape(k, r.pc, r.stopped, r.err, r.fns, r.due)
    BY <1>1, <2>2, <2>3, SetWatch DEF IdInv
  <2> QED
    BY <1>1, <2>1, <2>4 DEF Watch, Shape
<1>3. /\ UNCHANGED <<alive, sock, released, path, spc, exited, calls, calling>> /\ byID' = 0
      /\ cpc[c] = "waiting" /\ cpc' = [cpc EXCEPT ![c] = "cancelled"]
  BY DEF Cancel, procVars
<1>4. SockInv' /\ WatchInv' /\ TableInv'
  BY <1>1, <1>2, <1>3 DEF IdInv, SockInv, TableInv, WatchInv, Shape
<1>5. RealInv'
  BY <1>1, <1>2, <1>3 DEF IdInv, SockInv, WatchInv, TableInv, RealInv, Shape
<1>6. ASSUME NEW d \in Callers PROVE Once(d)'
  BY <1>6, <1>1, <1>2, <1>3 DEF IdInv, WatchInv, TableInv, OnceInv, Once, In, Shape
<1>7. CallComes'
  <2> SUFFICES ASSUME NEW d \in Callers, cpc'[d] = "waiting", calls'[d] = <<>>, d \notin calling'
               PROVE  \E i \in DOMAIN watches' : Coming(d, i)'
    BY DEF CallComes, Coming
  <2>1. PICK i \in DOMAIN watches : Coming(d, i)
    BY <1>1, <1>2, <1>3 DEF IdInv, WatchInv, CallComes, Coming
  <2>2. i \in DOMAIN watches' /\ Coming(d, i)'
    BY <2>1, <1>1, <1>2, <1>3 DEF IdInv, WatchInv, TableInv, OnceInv, Once, In, Coming, Shape
  <2> QED
    BY <2>2
<1> QED
  BY <1>4, <1>5, <1>6, <1>7 DEF IdInv, OnceInv

\* The wait of a watch ends; without an error only if the process is dead.
LEMMA EndInv ==
  ASSUME IdInv, NEW k \in 1..MaxWatches, NEW e \in BOOLEAN, WaitEnds(k) \/ WaitFails(k), alive => e,
         watches' = [watches EXCEPT ![k].pc = "collect", ![k].err = e]
  PROVE  IdInv'
<1>1. k \in DOMAIN watches /\ watches[k].pc = "wait" /\ (alive => e)
  BY DEF WaitEnds, WaitFails, Running
<1>2. Shape(k, "collect", watches[k].stopped, e, watches[k].fns, watches[k].due)
  <2>1. watches[k] \in Watch
    BY <1>1, WatchType DEF IdInv
  <2> DEFINE r == [watches[k] EXCEPT !.pc = "collect", !.err = e]
  <2>2. r \in Watch
    BY <2>1 DEF Watch
  <2>3. watches' = [watches EXCEPT ![k] = r]
    BY <1>1, <2>1 DEF Running, IdInv, WatchInv, Watch
  <2>4. Shape(k, r.pc, r.stopped, r.err, r.fns, r.due)
    BY <1>1, <2>2, <2>3, SetWatch DEF IdInv
  <2> QED
    BY <1>1, <2>1, <2>4 DEF Watch, Shape
<1>3. UNCHANGED <<alive, sock, released, path, spc, exited, calls, cpc, calling, byID>>
  BY DEF WaitEnds, WaitFails, procVars, callVars
<1>4. SockInv' /\ WatchInv' /\ TableInv'
  BY <1>1, <1>2, <1>3 DEF IdInv, SockInv, TableInv, WatchInv, Shape
<1>5. RealInv'
  BY <1>1, <1>2, <1>3 DEF IdInv, SockInv, WatchInv, TableInv, RealInv, Shape
<1>6. ASSUME NEW d \in Callers PROVE Once(d)'
  BY <1>6, <1>1, <1>2, <1>3 DEF IdInv, WatchInv, TableInv, OnceInv, Once, In, Shape
<1>7. CallComes'
  <2> SUFFICES ASSUME NEW d \in Callers, cpc'[d] = "waiting", calls'[d] = <<>>, d \notin calling'
               PROVE  \E i \in DOMAIN watches' : Coming(d, i)'
    BY DEF CallComes, Coming
  <2>1. PICK i \in DOMAIN watches : Coming(d, i)
    BY <1>1, <1>2, <1>3 DEF IdInv, WatchInv, CallComes, Coming
  <2>2. i \in DOMAIN watches' /\ Coming(d, i)'
    BY <2>1, <1>1, <1>2, <1>3 DEF IdInv, WatchInv, TableInv, OnceInv, Once, In, Coming, Shape
  <2> QED
    BY <2>2
<1> QED
  BY <1>4, <1>5, <1>6, <1>7 DEF IdInv, OnceInv

\* run finds its watch stopped, and calls nobody.
LEMMA DropInv ==
  ASSUME IdInv, NEW k \in 1..MaxWatches, Collect(k), watches[k].stopped
  PROVE  IdInv'
<1>1. k \in DOMAIN watches /\ watches[k].pc = "collect" /\ watches[k].stopped
  BY DEF Collect, Running
<1>2. Shape(k, "done", TRUE, watches[k].err, watches[k].fns, watches[k].due)
  <2>1. watches[k] \in Watch
    BY <1>1, WatchType DEF IdInv
  <2> DEFINE r == [watches[k] EXCEPT !.pc = "done"]
  <2>2. r \in Watch
    BY <2>1 DEF Watch
  <2>3. watches' = [watches EXCEPT ![k] = r]
    BY <1>1, <2>1 DEF Collect, IdInv, WatchInv, Watch
  <2>4. Shape(k, r.pc, r.stopped, r.err, r.fns, r.due)
    BY <1>1, <2>2, <2>3, SetWatch DEF IdInv
  <2> QED
    BY <1>1, <2>1, <2>4 DEF Watch, Shape
<1>3. UNCHANGED <<alive, sock, released, path, spc, exited, calls, cpc, calling, byID>>
  BY DEF Collect, procVars, callVars
<1>4. SockInv' /\ WatchInv' /\ TableInv'
  BY <1>1, <1>2, <1>3 DEF IdInv, SockInv, TableInv, WatchInv, Shape
<1>5. RealInv'
  BY <1>1, <1>2, <1>3 DEF IdInv, SockInv, WatchInv, TableInv, RealInv, Shape
<1>6. ASSUME NEW d \in Callers PROVE Once(d)'
  <2>0. Once(d)
    BY DEF IdInv, OnceInv
  <2>1. /\ Len(calls'[d]) <= 1
        /\ cpc'[d] = "idle" => calls'[d] = <<>> /\ d \notin calling'
        /\ d \in calling' => calls'[d] = <<>>
    BY <2>0, <1>1, <1>2, <1>3 DEF IdInv, WatchInv, Once, In, Shape
  <2>2. ASSUME NEW i \in DOMAIN watches'
        PROVE  /\ In(d, i)' => cpc'[d] # "idle" /\ d \notin calling'
               /\ d \in watches'[i].due => calls'[d] = <<>>
               /\ d \in watches'[i].fns /\ ~watches'[i].stopped => calls'[d] = <<>>
    BY <2>0, <2>2, <1>1, <1>2, <1>3 DEF IdInv, WatchInv, TableInv, Once, In, Shape
  <2>3. ASSUME NEW i \in DOMAIN watches', NEW j \in DOMAIN watches', In(d, i)', In(d, j)'
        PROVE i = j
    BY <2>0, <2>3, <1>1, <1>2, <1>3 DEF Once, In, Shape
  <2> QED
    BY <2>1, <2>2, <2>3 DEF Once
<1>7. CallComes'
  <2> SUFFICES ASSUME NEW d \in Callers, cpc'[d] = "waiting", calls'[d] = <<>>, d \notin calling'
               PROVE  \E i \in DOMAIN watches' : Coming(d, i)'
    BY DEF CallComes, Coming
  <2>1. PICK i \in DOMAIN watches : Coming(d, i)
    BY <1>1, <1>2, <1>3 DEF IdInv, WatchInv, CallComes, Coming
  <2>2. i \in DOMAIN watches' /\ Coming(d, i)'
    BY <2>1, <1>1, <1>2, <1>3 DEF IdInv, WatchInv, TableInv, OnceInv, Once, In, Coming, Shape
  <2> QED
    BY <2>2
<1> QED
  BY <1>4, <1>5, <1>6, <1>7 DEF IdInv, OnceInv

\* run takes its watch out of the table, with its functions.
LEMMA CollectInv ==
  ASSUME IdInv, NEW k \in 1..MaxWatches, Collect(k), ~watches[k].stopped
  PROVE  IdInv'
<1>1. k \in DOMAIN watches /\ watches[k].pc = "collect" /\ ~watches[k].stopped
  BY DEF Collect, Running
<1>2. Shape(k, "recheck", TRUE, watches[k].err, watches[k].fns, watches[k].fns)
  <2>1. watches[k] \in Watch
    BY <1>1, WatchType DEF IdInv
  <2> DEFINE r == [watches[k] EXCEPT !.pc = "recheck", !.stopped = TRUE, !.due = watches[k].fns]
  <2>2. r \in Watch
    BY <2>1 DEF Watch
  <2>3. watches' = [watches EXCEPT ![k] = r]
    BY <1>1, <2>1 DEF Collect, IdInv, WatchInv, Watch
  <2>4. Shape(k, r.pc, r.stopped, r.err, r.fns, r.due)
    BY <1>1, <2>2, <2>3, SetWatch DEF IdInv
  <2> QED
    BY <1>1, <2>1, <2>4 DEF Watch, Shape
<1>3. UNCHANGED <<alive, sock, released, path, spc, exited, calls, cpc, calling>> /\ byID' = 0
  BY DEF Collect, procVars, callVars
<1>4. SockInv' /\ WatchInv' /\ TableInv'
  BY <1>1, <1>2, <1>3 DEF IdInv, SockInv, TableInv, WatchInv, Shape
<1>5. RealInv'
  BY <1>1, <1>2, <1>3 DEF IdInv, SockInv, WatchInv, TableInv, RealInv, Shape
<1>6. ASSUME NEW d \in Callers PROVE Once(d)'
  BY <1>6, <1>1, <1>2, <1>3 DEF IdInv, WatchInv, TableInv, OnceInv, Once, In, Shape
<1>7. CallComes'
  <2> SUFFICES ASSUME NEW d \in Callers, cpc'[d] = "waiting", calls'[d] = <<>>, d \notin calling'
               PROVE  \E i \in DOMAIN watches' : Coming(d, i)'
    BY DEF CallComes, Coming
  <2>1. PICK i \in DOMAIN watches : Coming(d, i)
    BY <1>1, <1>2, <1>3 DEF IdInv, WatchInv, CallComes, Coming
  <2>2. i \in DOMAIN watches' /\ Coming(d, i)'
    BY <2>1, <1>1, <1>2, <1>3 DEF IdInv, WatchInv, TableInv, OnceInv, Once, In, Coming, Shape
  <2> QED
    BY <2>2
<1> QED
  BY <1>4, <1>5, <1>6, <1>7 DEF IdInv, OnceInv

\* run settles what it is to tell: an exit only if there was one.
LEMMA SettleInv ==
  ASSUME IdInv, NEW k \in 1..MaxWatches, NEW e \in BOOLEAN, Settle(k, e),
         watches[k].err /\ ~exited /\ ~lifeGone => e
  PROVE  IdInv'
<1>1. k \in DOMAIN watches /\ watches[k].pc = "recheck"
  BY DEF Settle, Running
<1>2. Shape(k, "call", watches[k].stopped, e, watches[k].fns, watches[k].due)
  <2>1. watches[k] \in Watch
    BY <1>1, WatchType DEF IdInv
  <2> DEFINE r == [watches[k] EXCEPT !.pc = "call", !.err = e]
  <2>2. r \in Watch
    BY <2>1 DEF Watch
  <2>3. watches' = [watches EXCEPT ![k] = r]
    BY <1>1, <2>1 DEF Settle, IdInv, WatchInv, Watch
  <2>4. Shape(k, r.pc, r.stopped, r.err, r.fns, r.due)
    BY <1>1, <2>2, <2>3, SetWatch DEF IdInv
  <2> QED
    BY <1>1, <2>1, <2>4 DEF Watch, Shape
<1>3. UNCHANGED <<alive, sock, released, path, spc, calls, cpc, calling, byID>>
  BY DEF Settle, procVars, callVars
<1>4. exited' \in BOOLEAN /\ (exited' <=> exited \/ ~e)
  BY DEF Settle, IdInv, SockInv
<1>5. alive /\ ~released => e
  BY <1>1 DEF IdInv, SockInv, RealInv, lifeGone
<1>6. SockInv' /\ WatchInv' /\ TableInv'
  <2>1. SockInv'
    BY <1>3, <1>4 DEF IdInv, SockInv
  <2>2. WatchInv' /\ TableInv'
    BY <1>1, <1>2, <1>3 DEF IdInv, TableInv, WatchInv, Shape
  <2> QED
    BY <2>1, <2>2
<1>7. RealInv'
  BY <1>1, <1>2, <1>3, <1>4, <1>5 DEF IdInv, SockInv, WatchInv, TableInv, RealInv, Shape
<1>8. ASSUME NEW d \in Callers PROVE Once(d)'
  BY <1>8, <1>1, <1>2, <1>3, <1>4, <1>5 DEF IdInv, WatchInv, TableInv, OnceInv, Once, In, Shape
<1>9. CallComes'
  <2> SUFFICES ASSUME NEW d \in Callers, cpc'[d] = "waiting", calls'[d] = <<>>, d \notin calling'
               PROVE  \E i \in DOMAIN watches' : Coming(d, i)'
    BY DEF CallComes, Coming
  <2>1. PICK i \in DOMAIN watches : Coming(d, i)
    BY <1>1, <1>2, <1>3, <1>4, <1>5 DEF IdInv, WatchInv, CallComes, Coming
  <2>2. i \in DOMAIN watches' /\ Coming(d, i)'
    BY <2>1, <1>1, <1>2, <1>3, <1>4, <1>5
       DEF IdInv, WatchInv, TableInv, OnceInv, Once, In, Coming, Shape
  <2> QED
    BY <2>2
<1> QED
  BY <1>6, <1>7, <1>8, <1>9 DEF IdInv, OnceInv

\* run calls one of the functions it collected.
LEMMA CallInv ==
  ASSUME IdInv, NEW k \in 1..MaxWatches, CallNext(k), NEW c \in watches[k].due,
         NEW what \in {"exit", "error"}, what = "exit" => ~watches[k].err,
  Called(c, what), watches' = [watches EXCEPT ![k].due = @ \ {c}]
  PROVE  IdInv'
<1>1. k \in DOMAIN watches /\ watches[k].pc = "call" /\ c \in Callers /\ c \in watches[k].due
  BY WatchType DEF CallNext, Running, IdInv, Watch
<1>2. Shape(k, "call", watches[k].stopped, watches[k].err, watches[k].fns, watches[k].due \ {c})
  <2>1. watches[k] \in Watch
    BY <1>1, WatchType DEF IdInv
  <2> DEFINE r == [watches[k] EXCEPT !.due = @ \ {c}]
  <2>2. r \in Watch
    BY <2>1 DEF Watch
  <2>3. watches' = [watches EXCEPT ![k] = r]
    BY <1>1, <2>1 DEF CallNext, IdInv, WatchInv, Watch
  <2>4. Shape(k, r.pc, r.stopped, r.err, r.fns, r.due)
    BY <1>1, <2>2, <2>3, SetWatch DEF IdInv
  <2> QED
    BY <1>1, <2>1, <2>4 DEF Watch, Shape
<1>3. UNCHANGED <<alive, sock, released, path, spc, exited, cpc, calling, byID>>
  BY DEF CallNext, procVars
<1>4. calls[c] = <<>> /\ (what = "exit" => ~watches[k].err)
  BY <1>1 DEF IdInv, OnceInv, Once
<1>5. /\ calls' \in [Callers -> Seq({"exit", "error"})] /\ calls'[c] # <<>>
      /\ Len(calls'[c]) = 1 /\ DOMAIN calls'[c] = {1} /\ calls'[c][1] = what
      /\ \A d \in Callers \ {c} : calls'[d] = calls[d]
  BY <1>1, <1>4, CalledOnce
<1>6. SockInv' /\ WatchInv' /\ TableInv'
  BY <1>1, <1>2, <1>3, <1>4, <1>5 DEF IdInv, SockInv, TableInv, WatchInv, Shape
<1>7. RealInv'
  <2> SUFFICES ASSUME alive', ~released'
               PROVE  RealInv!2'
    BY DEF RealInv
  <2>1. alive /\ ~released
    BY <1>1, <1>2, <1>3, <1>4, <1>5 DEF IdInv, SockInv
  <2>2. (DOMAIN watches # {} => path = "life")' /\ calling' = {} /\ ~exited'
    BY <1>1, <1>2, <1>3, <1>4, <1>5, <2>1 DEF IdInv, SockInv, WatchInv, RealInv, Shape
  <2>3. ASSUME NEW i \in DOMAIN watches', watches'[i].pc \in {"collect", "recheck", "call"}
        PROVE watches'[i].err
    BY <1>1, <1>2, <1>3, <1>4, <1>5, <2>1, <2>3 DEF IdInv, SockInv, WatchInv, RealInv, Shape
  <2>4. ASSUME NEW d \in Callers, NEW i \in DOMAIN calls'[d] PROVE calls'[d][i] # "exit"
    <3>1. CASE d = c
      BY <3>1, <1>1, <1>2, <1>3, <1>4, <1>5, <2>1, <2>4 DEF IdInv, SockInv, WatchInv, RealInv, Shape
    <3>2. CASE d # c
      BY <3>2, <1>1, <1>2, <1>3, <1>4, <1>5, <2>1, <2>4 DEF IdInv, SockInv, WatchInv, RealInv, Shape
    <3> QED
      BY <3>1, <3>2
  <2> QED
    BY <2>2, <2>3, <2>4
<1>8. ASSUME NEW d \in Callers PROVE Once(d)'
  <2>0. Once(d)
    BY DEF IdInv, OnceInv
  <2>1. /\ Len(calls'[d]) <= 1
        /\ cpc'[d] = "idle" => calls'[d] = <<>> /\ d \notin calling'
        /\ d \in calling' => calls'[d] = <<>>
    <3>1. CASE d = c
      BY <3>1, <2>0, <1>1, <1>2, <1>3, <1>4, <1>5 DEF IdInv, WatchInv, Once, In, Shape
    <3>2. CASE d # c
      BY <3>2, <2>0, <1>1, <1>2, <1>3, <1>4, <1>5 DEF IdInv, WatchInv, Once, In, Shape
    <3> QED
      BY <3>1, <3>2
  <2>2. ASSUME NEW i \in DOMAIN watches'
        PROVE  /\ In(d, i)' => cpc'[d] # "idle" /\ d \notin calling'
               /\ d \in watches'[i].due => calls'[d] = <<>>
               /\ d \in watches'[i].fns /\ ~watches'[i].stopped => calls'[d] = <<>>
    <3>1. CASE d = c
      BY <3>1, <2>0, <2>2, <1>1, <1>2, <1>3, <1>4, <1>5
         DEF IdInv, WatchInv, TableInv, Once, In, Shape
    <3>2. CASE d # c
      BY <3>2, <2>0, <2>2, <1>1, <1>2, <1>3, <1>4, <1>5
         DEF IdInv, WatchInv, TableInv, Once, In, Shape
    <3> QED
      BY <3>1, <3>2
  <2>3. ASSUME NEW i \in DOMAIN watches', NEW j \in DOMAIN watches', In(d, i)', In(d, j)'
        PROVE i = j
    BY <2>0, <2>3, <1>1, <1>2, <1>3, <1>4, <1>5 DEF Once, In, Shape
  <2> QED
    BY <2>1, <2>2, <2>3 DEF Once
<1>9. CallComes'
  <2> SUFFICES ASSUME NEW d \in Callers, cpc'[d] = "waiting", calls'[d] = <<>>, d \notin calling'
               PROVE  \E i \in DOMAIN watches' : Coming(d, i)'
    BY DEF CallComes, Coming
  <2>1. PICK i \in DOMAIN watches : Coming(d, i)
    BY <1>1, <1>2, <1>3, <1>4, <1>5 DEF IdInv, WatchInv, CallComes, Coming
  <2>2. i \in DOMAIN watches' /\ Coming(d, i)'
    BY <2>1, <1>1, <1>2, <1>3, <1>4, <1>5
       DEF IdInv, WatchInv, TableInv, OnceInv, Once, In, Coming, Shape
  <2> QED
    BY <2>2
<1> QED
  BY <1>6, <1>7, <1>8, <1>9 DEF IdInv, OnceInv

\* run has called them all.
LEMMA DoneInv ==
  ASSUME IdInv, NEW k \in 1..MaxWatches, CallNext(k), watches[k].due = {}
  PROVE  IdInv'
<1>1. k \in DOMAIN watches /\ watches[k].pc = "call"
  BY DEF CallNext, Running
<1>2. Shape(k, "done", watches[k].stopped, watches[k].err, watches[k].fns, {})
  <2>1. watches[k] \in Watch
    BY <1>1, WatchType DEF IdInv
  <2> DEFINE r == [watches[k] EXCEPT !.pc = "done"]
  <2>2. r \in Watch
    BY <2>1 DEF Watch
  <2>3. watches' = [watches EXCEPT ![k] = r]
    BY <1>1, <2>1 DEF CallNext, IdInv, WatchInv, Watch
  <2>4. Shape(k, r.pc, r.stopped, r.err, r.fns, r.due)
    BY <1>1, <2>2, <2>3, SetWatch DEF IdInv
  <2> QED
    BY <1>1, <2>1, <2>4 DEF Watch, Shape
<1>3. UNCHANGED <<alive, sock, released, path, spc, exited, calls, cpc, calling, byID>>
  BY DEF CallNext, procVars
<1>4. SockInv' /\ WatchInv' /\ TableInv'
  BY <1>1, <1>2, <1>3 DEF IdInv, SockInv, TableInv, WatchInv, Shape
<1>5. RealInv'
  BY <1>1, <1>2, <1>3 DEF IdInv, SockInv, WatchInv, TableInv, RealInv, Shape
<1>6. ASSUME NEW d \in Callers PROVE Once(d)'
  <2>0. Once(d)
    BY DEF IdInv, OnceInv
  <2>1. /\ Len(calls'[d]) <= 1
        /\ cpc'[d] = "idle" => calls'[d] = <<>> /\ d \notin calling'
        /\ d \in calling' => calls'[d] = <<>>
    BY <2>0, <1>1, <1>2, <1>3 DEF IdInv, WatchInv, Once, In, Shape
  <2>2. ASSUME NEW i \in DOMAIN watches'
        PROVE  /\ In(d, i)' => cpc'[d] # "idle" /\ d \notin calling'
               /\ d \in watches'[i].due => calls'[d] = <<>>
               /\ d \in watches'[i].fns /\ ~watches'[i].stopped => calls'[d] = <<>>
    BY <2>0, <2>2, <1>1, <1>2, <1>3 DEF IdInv, WatchInv, TableInv, Once, In, Shape
  <2>3. ASSUME NEW i \in DOMAIN watches', NEW j \in DOMAIN watches', In(d, i)', In(d, j)'
        PROVE i = j
    BY <2>0, <2>3, <1>1, <1>2, <1>3 DEF Once, In, Shape
  <2> QED
    BY <2>1, <2>2, <2>3 DEF Once
<1>7. CallComes'
  BY <1>1, <1>2, <1>3 DEF IdInv, WatchInv, TableInv, OnceInv, Once, In, CallComes, Shape
<1> QED
  BY <1>4, <1>5, <1>6, <1>7 DEF IdInv, OnceInv

\* go fn(nil) runs.
LEMMA GoInv ==
  ASSUME IdInv, NEW c \in Callers, GoCall(c)
  PROVE  IdInv'
<1>1. UNCHANGED <<alive, sock, released, path, spc, exited, cpc, byID, watches>> /\ c \in calling
      /\ calling' = calling \ {c}
  BY DEF GoCall, procVars
<1>2. calls[c] = <<>>
  BY <1>1 DEF IdInv, OnceInv, Once
<1>3. /\ calls' \in [Callers -> Seq({"exit", "error"})] /\ calls'[c] # <<>>
      /\ Len(calls'[c]) = 1 /\ DOMAIN calls'[c] = {1} /\ calls'[c][1] = "exit"
      /\ \A d \in Callers \ {c} : calls'[d] = calls[d]
  BY <1>2, CalledOnce DEF GoCall
<1>4. SockInv' /\ WatchInv' /\ TableInv'
  BY <1>1, <1>2, <1>3 DEF IdInv, SockInv, TableInv, WatchInv, Shape
<1>5. RealInv'
  <2> SUFFICES ASSUME alive', ~released'
               PROVE  RealInv!2'
    BY DEF RealInv
  <2>1. alive /\ ~released
    BY <1>1, <1>2, <1>3 DEF IdInv, SockInv
  <2>2. (DOMAIN watches # {} => path = "life")' /\ calling' = {} /\ ~exited'
    BY <1>1, <1>2, <1>3, <2>1 DEF IdInv, SockInv, WatchInv, RealInv, Shape
  <2>3. ASSUME NEW i \in DOMAIN watches', watches'[i].pc \in {"collect", "recheck", "call"}
        PROVE watches'[i].err
    BY <1>1, <1>2, <1>3, <2>1, <2>3 DEF IdInv, SockInv, WatchInv, RealInv, Shape
  <2>4. ASSUME NEW d \in Callers, NEW i \in DOMAIN calls'[d] PROVE calls'[d][i] # "exit"
    BY <1>1, <1>2, <1>3, <2>1, <2>4 DEF IdInv, SockInv, WatchInv, RealInv, Shape
  <2> QED
    BY <2>2, <2>3, <2>4
<1>6. ASSUME NEW d \in Callers PROVE Once(d)'
  <2>0. Once(d)
    BY DEF IdInv, OnceInv
  <2>1. /\ Len(calls'[d]) <= 1
        /\ cpc'[d] = "idle" => calls'[d] = <<>> /\ d \notin calling'
        /\ d \in calling' => calls'[d] = <<>>
    <3>1. CASE d = c
      BY <3>1, <2>0, <1>1, <1>2, <1>3 DEF IdInv, WatchInv, Once, In, Shape
    <3>2. CASE d # c
      BY <3>2, <2>0, <1>1, <1>2, <1>3 DEF IdInv, WatchInv, Once, In, Shape
    <3> QED
      BY <3>1, <3>2
  <2>2. ASSUME NEW i \in DOMAIN watches'
        PROVE  /\ In(d, i)' => cpc'[d] # "idle" /\ d \notin calling'
               /\ d \in watches'[i].due => calls'[d] = <<>>
               /\ d \in watches'[i].fns /\ ~watches'[i].stopped => calls'[d] = <<>>
    BY <2>0, <2>2, <1>1, <1>2, <1>3 DEF IdInv, WatchInv, TableInv, Once, In, Shape
  <2>3. ASSUME NEW i \in DOMAIN watches', NEW j \in DOMAIN watches', In(d, i)', In(d, j)'
        PROVE i = j
    BY <2>0, <2>3, <1>1, <1>2, <1>3 DEF Once, In, Shape
  <2> QED
    BY <2>1, <2>2, <2>3 DEF Once
<1>7. CallComes'
  <2> SUFFICES ASSUME NEW d \in Callers, cpc'[d] = "waiting", calls'[d] = <<>>, d \notin calling'
               PROVE  \E i \in DOMAIN watches' : Coming(d, i)'
    BY DEF CallComes, Coming
  <2>1. PICK i \in DOMAIN watches : Coming(d, i)
    BY <1>1, <1>2, <1>3 DEF IdInv, WatchInv, CallComes, Coming
  <2>2. i \in DOMAIN watches' /\ Coming(d, i)'
    BY <2>1, <1>1, <1>2, <1>3 DEF IdInv, WatchInv, TableInv, OnceInv, Once, In, Coming, Shape
  <2> QED
    BY <2>2
<1> QED
  BY <1>4, <1>5, <1>6, <1>7 DEF IdInv, OnceInv

\* The process and the sweep touch no watch: as long as the process lives and has not
\* released its socket, its file stays in place.
LEMMA ProcessInv ==
  ASSUME IdInv, ProcessStep \/ Exit \/ SweepStep
  PROVE  IdInv'
<1> USE DEF ProcessStep, Bind, Listen, Rename, Release, Exit,
       SweepStep, SweepFind, SweepDial, SweepRemove,
       procVars, tableVars, callVars, IdInv
<1>1. UNCHANGED <<byID, watches, calling, exited, cpc, calls>>
  OBVIOUS
<1>2. SockInv'
  <2>1. CASE Bind \/ Listen
    BY <2>1 DEF SockInv
  <2>2. CASE Rename
    BY <2>2 DEF SockInv
  <2>3. CASE Release
    BY <2>3 DEF SockInv
  <2>4. CASE Exit
    BY <2>4 DEF SockInv
  <2>5. CASE SweepStep
    BY <2>5 DEF SockInv
  <2> QED
    BY <2>1, <2>2, <2>3, <2>4, <2>5
<1>3. WatchInv' /\ TableInv'
  BY <1>1 DEF WatchInv, TableInv
<1>4. RealInv'
  <2>1. alive' /\ ~released' => alive /\ ~released /\ (path = "life" => path' = "life")
    BY DEF SockInv
  <2> QED
    BY <1>1, <2>1 DEF RealInv
<1>5. OnceInv' /\ CallComes'
  BY <1>1 DEF OnceInv, Once, In, CallComes
<1> QED
  BY <1>2, <1>3, <1>4, <1>5

\* onExit joins a watch, finds the process gone, or opens a watch.
LEMMA OnExitInv ==
  ASSUME IdInv, NEW c \in Callers, OnExit(c)
  PROVE  IdInv'
<1>1. CASE byID # 0
  BY <1>1, JoinInv
<1>2. CASE byID = 0 /\ lifeGone
  BY <1>2, GoneInv
<1>3. CASE byID = 0 /\ ~lifeGone
  BY <1>3, OpenInv
<1> QED
  BY <1>1, <1>2, <1>3

\* A cancel finds its function in no list, leaves the watch to others, or ends it.
LEMMA CancelsInv ==
  ASSUME IdInv, NEW c \in Callers, Cancel(c)
  PROVE  IdInv'
<1>1. CASE watches' = watches /\ byID' = byID
  BY <1>1, LeaveInv
<1>2. ASSUME NEW k \in Holding(c), watches[k].fns = {c} /\ ~watches[k].stopped,
             watches' = [watches EXCEPT ![k] = [watches[k] EXCEPT !.fns = {}, !.stopped = TRUE, !.closed = TRUE]],
             byID' = 0
      PROVE  IdInv'
  BY <1>2, LastInv
<1>3. ASSUME NEW k \in Holding(c), watches[k].fns # {c} \/ watches[k].stopped,
             watches' = [watches EXCEPT ![k] = [watches[k] EXCEPT !.fns = @ \ {c}]], byID' = byID
      PROVE  IdInv'
  BY <1>3, CancelInv
<1>4. \/ watches' = watches /\ byID' = byID
      \/ \E k \in Holding(c) :
           \/ /\ watches[k].fns = {c} /\ ~watches[k].stopped
              /\ watches' = [watches EXCEPT ![k] = [watches[k] EXCEPT !.fns = {}, !.stopped = TRUE, !.closed = TRUE]]
              /\ byID' = 0
           \/ /\ watches[k].fns # {c} \/ watches[k].stopped
              /\ watches' = [watches EXCEPT ![k] = [watches[k] EXCEPT !.fns = @ \ {c}]]
                 /\ byID' = byID
  BY Zenon DEF Cancel
<1> QED
  BY <1>1, <1>2, <1>3, <1>4

\* run's wait, its critical section, its recheck and its calls.
LEMMA RunInv ==
  ASSUME IdInv, NEW k \in 1..MaxWatches, WatchStep(k) \/ WaitFails(k)
  PROVE  IdInv'
<1>1. CASE WaitEnds(k)
  <2>1. PICK e \in BOOLEAN : (alive => e)
             /\ watches' = [watches EXCEPT ![k].pc = "collect", ![k].err = e]
    BY <1>1 DEF WaitEnds, IdInv, SockInv
  <2> QED
    BY <1>1, <2>1, EndInv
<1>2. CASE WaitFails(k)
  <2>1. watches' = [watches EXCEPT ![k].pc = "collect", ![k].err = TRUE]
    BY <1>2 DEF WaitFails
  <2> QED
    BY <1>2, <2>1, EndInv
<1>3. CASE Collect(k)
  BY <1>3, DropInv, CollectInv
<1>4. CASE Recheck(k)
  <2>1. PICK e : e \in BOOLEAN /\ Settle(k, e) /\ (watches[k].err /\ ~exited /\ ~lifeGone => e)
    BY <1>4, Zenon DEF Recheck
  <2> QED
    BY <2>1, SettleInv
<1>5. CASE CallNext(k)
  <2>1. CASE watches[k].due = {}
    BY <1>5, <2>1, DoneInv
  <2>2. CASE watches[k].due # {}
    <3>1. PICK c \in watches[k].due : /\ Called(c, IF watches[k].err THEN "error" ELSE "exit")
                                      /\ watches' = [watches EXCEPT ![k].due = @ \ {c}]
      BY <1>5, <2>2 DEF CallNext
    <3> DEFINE what == IF watches[k].err THEN "error" ELSE "exit"
    <3>2. what \in {"exit", "error"} /\ (what = "exit" => ~watches[k].err)
      OBVIOUS
    <3>3. Called(c, what)
      BY <3>1
    <3> HIDE DEF what
    <3> QED
      BY <1>5, <3>1, <3>2, <3>3, CallInv
  <2> QED
    BY <2>1, <2>2
<1> QED
  BY <1>1, <1>2, <1>3, <1>4, <1>5 DEF WatchStep

\* The initial state satisfies the invariant.
LEMMA IdInit == Init => IdInv
<1> SUFFICES ASSUME Init PROVE IdInv
  OBVIOUS
<1> USE DEF Init
<1>1. SockInv
  BY DEF SockInv
<1>2. DOMAIN watches = {}
  OBVIOUS
<1>3. WatchInv /\ TableInv /\ RealInv
  BY <1>2 DEF WatchInv, TableInv, RealInv
<1>4. OnceInv /\ CallComes
  BY <1>2 DEF OnceInv, Once, In, CallComes
<1> QED
  BY <1>1, <1>3, <1>4 DEF IdInv

\* Every step of the process, the sweep, the callers and the watches keeps it.
LEMMA IdStep == IdInv /\ [Next]_vars => IdInv'
<1> SUFFICES ASSUME IdInv, [Next]_vars PROVE IdInv'
  OBVIOUS
<1>1. CASE UNCHANGED vars
  <2> USE <1>1 DEF vars, procVars, tableVars, callVars, IdInv
  <2>1. SockInv' /\ WatchInv' /\ TableInv' /\ RealInv'
    BY DEF SockInv, WatchInv, TableInv, RealInv
  <2>2. OnceInv' /\ CallComes'
    BY DEF OnceInv, Once, In, CallComes
  <2> QED
    BY <2>1, <2>2
<1>2. CASE Next
  BY <1>2, ProcessInv, OnExitInv, CancelsInv, GoInv, RunInv DEF Next
<1> QED
  BY <1>1, <1>2

\* The invariant says what the properties say.
LEMMA IdImplies == IdInv => LifeKept /\ ExitIsReal /\ CallComes
<1> SUFFICES ASSUME IdInv PROVE LifeKept /\ ExitIsReal /\ CallComes
  OBVIOUS
<1>1. LifeKept
  BY DEF IdInv, SockInv, LifeKept
<1>2. ExitIsReal
  BY DEF IdInv, RealInv, OnceInv, Once, ExitIsReal
<1> QED
  BY <1>1, <1>2 DEF IdInv
-----------------------------------------------------------------------------
\* The invariant holds in every state.
THEOREM Invariance == Spec => []IdInv
  BY IdInit, IdStep, PTL DEF Spec

\* LifeKept always holds: sweepLife removes only what refuses a dial, which a live
\* process does only before the rename.
THEOREM LifeSafety == Spec => []LifeKept
  BY Invariance, IdImplies, PTL

\* ExitIsReal always holds: onExit tells of no exit that did not happen, and calls
\* a function at most once, however joins, cancels and the end of a watch interleave.
THEOREM ExitSafety == Spec => []ExitIsReal
  BY Invariance, IdImplies, PTL

\* CallComes always holds: a caller that waits is in a list of a watch that is still
\* to call it, or in go fn(nil).
THEOREM CallSafety == Spec => []CallComes
  BY Invariance, IdImplies, PTL
=============================================================================
