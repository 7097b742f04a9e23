------------------------------- MODULE MCRing -------------------------------
(***************************************************************************)
(* The ring in scenarios, one of which a behaviour picks at the start and  *)
(* keeps:                                                                  *)
(*   wrap      two processes, records that do not fit before the wrap      *)
(*             point, a death anywhere: recovery in two segments;          *)
(*   lap       the receiver's own process sends alone, until the cursors   *)
(*             are more than a lap away from where they were;              *)
(*   takeover  two processes share the one slot that the receiver's own    *)
(*             process left: slots run out, are given back and are taken   *)
(*             over from a dead owner.                                     *)
(***************************************************************************)
EXTENDS Ring, TLC

CONSTANTS p1, p2, p3

VARIABLE scenario

Scope(ps, ls, lims, n, mortal, drops) ==
  [active |-> ps, lengths |-> ls, limits |-> lims, claims |-> n,
   mortal |-> mortal, drops |-> drops]

Scenarios == [
  wrap     |-> Scope({p1, p2}, {8}, {2}, 2, {p1, p2}, {}),
  lap      |-> Scope({p3}, {0, 8}, {1, 2}, 3, {}, {p3}),
  takeover |-> Scope({p1, p2}, {0}, {1}, 2, {p1, p2}, {p1, p2})]

S == Scenarios[scenario]

\* p3 has sent before, and keeps slot 1.
Held == InitWith([s \in Slots |-> IF s = 1 THEN p3 ELSE NoProc],
                 [p \in Producers |-> Unused(IF p = p3 THEN 1 ELSE 0)])

MCInit ==
  /\ scenario \in DOMAIN Scenarios
  /\ IF scenario = "takeover" THEN Held ELSE Init

MCNext ==
  /\ \/ \E p \in S.active : ProducerStep(p)
     \/ \E p \in S.active, n \in S.lengths : Begun < S.claims /\ Begin(p, n)
     \/ \E p \in S.drops : DropIntent(p)
     \/ \E p \in S.mortal : Crash(p)
     \/ ReaderStep
     \/ \E n \in S.limits : Receive(n)
  /\ UNCHANGED scenario

MCSpec == MCInit /\ [][MCNext]_<<vars, scenario>>

\* Two processes outside the receiver's are interchangeable.
Symmetry == Permutations({p1, p2})

\* ring.go: a reader that is stopped inside a claim can always find the producer
\* that is responsible.  So it is where no slot changes hands.
AttributableHere == scenario # "takeover" => Attributable
=============================================================================
