----------------------------- MODULE GateThreads ----------------------------
(* The threads that use a gate: operations, and the closers that race. *)
EXTENDS Naturals, FiniteSets

CONSTANTS Ops, Closers, NoOne
ASSUME OpsFinite == IsFiniteSet(Ops)
ASSUME NoOneIsNoThread == NoOne \notin Ops \cup Closers
=============================================================================
