------------------------------ MODULE Identity ------------------------------
(***************************************************************************)
(* The life socket of one process and the watches on it (identity.go,      *)
(* life_unix.go).  The process binds its socket under a temporary name,    *)
(* listens, and renames it into place.  Sweepers of other processes remove *)
(* sockets that refuse a dial.  One more process watches it: callers share *)
(* one watch, each may cancel, and the watch calls them when the           *)
(* connection ends.                                                        *)
(***************************************************************************)
EXTENDS Naturals, FiniteSets, Sequences

CONSTANTS
  Callers,
  MaxWatches, \* bound: watches that are opened
  MaxFaults   \* bound: dials and waits that fail while the process lives

VARIABLES
  alive, sock,      \* the process, and its socket
  released,         \* Release was called, just before the exit
  path,             \* where the socket is in the file system
  spc,              \* the sweeper
  byID,             \* the watch in the table, or 0
  watches,          \* every watch ever opened
  calling,          \* callers whose process was gone: go fn(nil)
  exited,           \* the set of that name holds the process
  cpc,              \* each caller
  calls,            \* each caller: what fn was called with
  faults

procVars == <<alive, sock, released, path>>
tableVars == <<byID, watches, calling, exited>>
callVars == <<cpc, calls>>
vars == <<procVars, spc, tableVars, callVars, faults>>

Watch == [pc : {"wait", "collect", "recheck", "call", "done"}, stopped : BOOLEAN,
          closed : BOOLEAN, err : BOOLEAN, fns : SUBSET Callers, due : SUBSET Callers]

TypeOK ==
  /\ {alive, released} \subseteq BOOLEAN /\ sock \in {"none", "bound", "listening"}
  /\ path \in {"none", "tmp", "life"}
  /\ spc \in {"idle", "dial", "remove"}
  /\ byID \in 0..Len(watches) /\ watches \in Seq(Watch) /\ Len(watches) <= MaxWatches
  /\ calling \subseteq Callers /\ exited \in BOOLEAN
  /\ cpc \in [Callers -> {"idle", "waiting", "cancelled"}]
  /\ calls \in [Callers -> Seq({"exit", "error"})]
  /\ faults \in 0..MaxFaults

Init ==
  /\ alive = TRUE /\ sock = "none" /\ released = FALSE /\ path = "none" /\ spc = "idle"
  /\ byID = 0 /\ watches = <<>> /\ calling = {} /\ exited = FALSE
  /\ cpc = [c \in Callers |-> "idle"] /\ calls = [c \in Callers |-> <<>>]
  /\ faults = 0
-----------------------------------------------------------------------------
(* The process: selfID, listenLife *)

\* net.Listen binds, and then listens.
Bind ==
  /\ alive /\ sock = "none"
  /\ sock' = "bound" /\ path' = "tmp"
  /\ UNCHANGED <<alive, released, spc, tableVars, callVars, faults>>

Listen ==
  /\ alive /\ sock = "bound"
  /\ sock' = "listening"
  /\ UNCHANGED <<alive, released, path, spc, tableVars, callVars, faults>>

Rename ==
  /\ alive /\ sock = "listening" /\ path = "tmp"
  /\ path' = "life"
  /\ UNCHANGED <<alive, sock, released, spc, tableVars, callVars, faults>>

\* Release removes the socket by its path.  Only the exit follows.
Release ==
  /\ alive /\ sock = "listening" /\ path # "tmp" /\ ~released
  /\ released' = TRUE /\ path' = "none"
  /\ UNCHANGED <<alive, sock, spc, tableVars, callVars, faults>>

\* The process exits, with its listener and every connection.  The file stays.
Exit ==
  /\ alive
  /\ alive' = FALSE /\ sock' = "none"
  /\ UNCHANGED <<released, path, spc, tableVars, callVars, faults>>
-----------------------------------------------------------------------------
(* sweepLife, of any other process: its directory, a dial, a remove *)

SweepFind ==
  /\ spc = "idle" /\ path = "life"
  /\ spc' = "dial"
  /\ UNCHANGED <<procVars, tableVars, callVars, faults>>

\* Mutant: any end of the dial condemns the file.
MutSweepDial ==
  /\ spc = "dial"
  /\ spc' = "remove"
  /\ UNCHANGED <<procVars, tableVars, callVars, faults>>

\* Only a dial that is refused condemns the file.
SweepDial ==
  /\ spc = "dial"
  /\ spc' = IF path = "life" /\ sock # "listening" THEN "remove" ELSE "idle"
  /\ UNCHANGED <<procVars, tableVars, callVars, faults>>

SweepRemove ==
  /\ spc = "remove"
  /\ path' = IF path = "life" THEN "none" ELSE path
  /\ spc' = "idle"
  /\ UNCHANGED <<alive, sock, released, tableVars, callVars, faults>>
-----------------------------------------------------------------------------
(* The watching process: onExit, its cancel, run, isDead *)

\* What a dial of the life socket says: no file or a refusal is an exit.
lifeGone == path # "life" \/ sock # "listening"

Fault == faults < MaxFaults /\ faults' = faults + 1

\* The watching process knows the procID only from a process whose socket was in
\* place; by now the socket may be gone.
Known == path = "life" \/ (path = "none" /\ (released \/ ~alive))

NewWatch(c) == [pc |-> "wait", stopped |-> FALSE, closed |-> FALSE, err |-> FALSE,
                fns |-> {c}, due |-> {}]

\* The first caller opens the connection, later ones join its watch.
OnExit(c) ==
  /\ cpc[c] = "idle" /\ Known
  /\ cpc' = [cpc EXCEPT ![c] = "waiting"]
  /\ \/ /\ byID # 0
        /\ watches' = [watches EXCEPT ![byID].fns = @ \cup {c}]
        /\ UNCHANGED <<byID, calling>>
     \/ /\ byID = 0 /\ lifeGone
        /\ calling' = calling \cup {c}
        /\ UNCHANGED <<byID, watches>>
     \/ /\ byID = 0 /\ ~lifeGone /\ Len(watches) < MaxWatches
        /\ watches' = Append(watches, NewWatch(c))
        /\ byID' = Len(watches')
        /\ UNCHANGED calling
  /\ UNCHANGED <<procVars, spc, exited, calls, faults>>

\* The watch that holds the function of c, if one still does.
Holding(c) == {k \in DOMAIN watches : c \in watches[k].fns}

\* Mutant: any cancel stops the watch.
MutCancel(c) ==
  /\ cpc[c] = "waiting"
  /\ cpc' = [cpc EXCEPT ![c] = "cancelled"]
  /\ \/ Holding(c) = {} /\ UNCHANGED <<byID, watches>>
     \/ \E k \in Holding(c) :
          LET w == watches[k]
              last == ~w.stopped
          IN /\ watches' = [watches EXCEPT ![k] =
                  IF last THEN [w EXCEPT !.fns = @ \ {c}, !.stopped = TRUE, !.closed = TRUE]
                  ELSE [w EXCEPT !.fns = @ \ {c}]]
             /\ byID' = IF last THEN 0 ELSE byID
  /\ UNCHANGED <<procVars, spc, calling, exited, calls, faults>>

\* The last one to cancel stops the watch and closes its connection.
Cancel(c) ==
  /\ cpc[c] = "waiting"
  /\ cpc' = [cpc EXCEPT ![c] = "cancelled"]
  /\ \/ Holding(c) = {} /\ UNCHANGED <<byID, watches>>
     \/ \E k \in Holding(c) :
          LET w == watches[k]
              last == w.fns = {c} /\ ~w.stopped
          IN /\ watches' = [watches EXCEPT ![k] =
                  IF last THEN [w EXCEPT !.fns = {}, !.stopped = TRUE, !.closed = TRUE]
                  ELSE [w EXCEPT !.fns = @ \ {c}]]
             /\ byID' = IF last THEN 0 ELSE byID
  /\ UNCHANGED <<procVars, spc, calling, exited, calls, faults>>

Running(k, l) == k \in DOMAIN watches /\ watches[k].pc = l

\* The read ends with the process, cleanly or with a reset, when the last cancel
\* closes the connection, or because the kernel fails it.
WaitEnds(k) ==
  /\ Running(k, "wait")
  /\ \/ ~alive /\ \E e \in BOOLEAN : watches' = [watches EXCEPT ![k].pc = "collect", ![k].err = e]
     \/ /\ alive /\ watches[k].closed
        /\ watches' = [watches EXCEPT ![k].pc = "collect", ![k].err = TRUE]
  /\ UNCHANGED <<procVars, spc, byID, calling, exited, callVars, faults>>

WaitFails(k) ==
  /\ Running(k, "wait") /\ alive /\ ~watches[k].closed
  /\ Fault
  /\ watches' = [watches EXCEPT ![k].pc = "collect", ![k].err = TRUE]
  /\ UNCHANGED <<procVars, spc, byID, calling, exited, callVars>>

\* run's critical section: take the watch out of the table, with its functions.
Collect(k) ==
  /\ Running(k, "collect")
  /\ IF watches[k].stopped
       THEN watches' = [watches EXCEPT ![k].pc = "done"] /\ UNCHANGED byID
       ELSE /\ watches' = [watches EXCEPT ![k].pc = "recheck", ![k].stopped = TRUE,
                                          ![k].due = watches[k].fns]
            /\ byID' = 0
  /\ UNCHANGED <<procVars, spc, calling, exited, callVars, faults>>

\* Mutant: every end of the wait is an exit.
MutRecheck(k) ==
  /\ Running(k, "recheck")
  /\ watches' = [watches EXCEPT ![k].pc = "call", ![k].err = FALSE]
  /\ exited' = TRUE
  /\ UNCHANGED <<procVars, spc, byID, calling, callVars, faults>>

Settle(k, err) ==
  /\ Running(k, "recheck")
  /\ watches' = [watches EXCEPT ![k].pc = "call", ![k].err = err]
  /\ exited' = (exited \/ ~err)
  /\ UNCHANGED <<procVars, spc, byID, calling, callVars>>

\* An error is an exit after all if isDead says so; a dial that fails for another
\* reason says nothing.
Recheck(k) ==
  \/ Settle(k, watches[k].err /\ ~exited /\ ~lifeGone) /\ UNCHANGED faults
  \/ Settle(k, watches[k].err /\ ~exited) /\ Fault

Called(c, what) == calls' = [calls EXCEPT ![c] = Append(@, what)]

CallNext(k) ==
  /\ Running(k, "call")
  /\ \/ \E c \in watches[k].due :
          /\ Called(c, IF watches[k].err THEN "error" ELSE "exit")
          /\ watches' = [watches EXCEPT ![k].due = @ \ {c}]
     \/ /\ watches[k].due = {}
        /\ watches' = [watches EXCEPT ![k].pc = "done"]
        /\ UNCHANGED calls
  /\ UNCHANGED <<procVars, spc, byID, calling, exited, cpc, faults>>

\* go fn(nil), for a process that was gone.
GoCall(c) ==
  /\ c \in calling
  /\ calling' = calling \ {c}
  /\ Called(c, "exit")
  /\ UNCHANGED <<procVars, spc, byID, watches, exited, cpc, faults>>
-----------------------------------------------------------------------------
ProcessStep == Bind \/ Listen \/ Rename \/ Release
SweepStep == SweepFind \/ SweepDial \/ SweepRemove
WatchStep(k) == WaitEnds(k) \/ Collect(k) \/ Recheck(k) \/ CallNext(k)

Next ==
  \/ ProcessStep \/ Exit \/ SweepStep
  \/ \E c \in Callers : OnExit(c) \/ Cancel(c) \/ GoCall(c)
  \/ \E k \in 1..MaxWatches : WatchStep(k) \/ WaitFails(k)

Spec == Init /\ [][Next]_vars
-----------------------------------------------------------------------------
\* The sweep never takes the life socket of a process that lives: from the rename
\* on, a dial finds the socket and the socket listens.  This is what makes isDead
\* an answer that recovery may act on.
LifeKept == alive /\ sock = "listening" /\ ~released => path \in {"tmp", "life"}

\* Nobody is told of an exit that did not happen, neither by a call of fn nor by the
\* set of exited processes, whatever the kernel does to a watch; and nobody is told
\* twice, even if the process exits while callers join and cancel.
ExitIsReal ==
  /\ alive /\ ~released => ~exited /\ \A c \in Callers : "exit" \notin {calls[c][i] : i \in DOMAIN calls[c]}
  /\ \A c \in Callers : Len(calls[c]) <= 1

\* A call is never lost: a caller that waits and was not called is in a list that
\* somebody is on the way to call, so that the exit reaches it, even if the process
\* exits while other callers join the watch, leave it, or open another.
CallComes ==
  \A c \in Callers : cpc[c] = "waiting" /\ calls[c] = <<>> =>
    \/ c \in calling
    \/ \E k \in DOMAIN watches :
         \/ c \in watches[k].due /\ watches[k].pc \in {"recheck", "call"}
         \/ c \in watches[k].fns /\ ~watches[k].stopped /\ watches[k].pc \in {"wait", "collect"}
=============================================================================
