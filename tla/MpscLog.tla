------------------------------ MODULE MpscLog ------------------------------
(***************************************************************************)
(* What the ring promises: a log of claims.  Producers append claims and   *)
(* settle them in any order; one reader passes them in claim order, gets   *)
(* each committed one once, and waits at an unsettled one for as long as   *)
(* its producer lives.                                                     *)
(***************************************************************************)
EXTENDS Naturals, Sequences

CONSTANT Producers

VARIABLES
  entries, \* the claims: who made them and what became of them
  passed,  \* how many of them the reader is past
  out,     \* the numbers of the claims it was given
  gone     \* the producers that died

logVars == <<entries, passed, out, gone>>

Outcomes == {"committed", "aborted"}

Init == entries = <<>> /\ passed = 0 /\ out = <<>> /\ gone = {}

Claim(p) ==
  /\ p \notin gone
  /\ entries' = Append(entries, [by |-> p, is |-> "open"])
  /\ UNCHANGED <<passed, out, gone>>

Settle(k, outcome) ==
  /\ entries[k].is = "open" /\ entries[k].by \notin gone
  /\ k > passed
  /\ entries' = [entries EXCEPT ![k].is = outcome]
  /\ UNCHANGED <<passed, out, gone>>

\* The reader goes past the next claim.
Pass ==
  LET k == passed + 1 IN
  /\ k <= Len(entries)
  /\ entries[k].is = "open" => entries[k].by \in gone
  /\ passed' = k
  /\ out' = IF entries[k].is = "committed" THEN Append(out, k) ELSE out
  /\ UNCHANGED <<entries, gone>>

Die(p) ==
  /\ gone' = gone \cup {p}
  /\ UNCHANGED <<entries, passed, out>>

Next ==
  \/ \E p \in Producers : Claim(p) \/ Die(p)
  \/ \E k \in DOMAIN entries, outcome \in Outcomes : Settle(k, outcome)
  \/ Pass

Spec == Init /\ [][Next]_logVars
=============================================================================
