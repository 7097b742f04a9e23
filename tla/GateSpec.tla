------------------------------ MODULE GateSpec ------------------------------
(***************************************************************************)
(* What a close gate promises.  Operations on a queue hold pointers into   *)
(* its mapping.  A close stops new operations, waits for the ones inside   *)
(* and only then unmaps.  GateGo, GateC and GateCpp are the three gates of *)
(* the code.                                                               *)
(***************************************************************************)
CONSTANT Ops
VARIABLES inside, phase

gateSpecVars == <<inside, phase>>

Init == inside = {} /\ phase = "open"

Enter(o) ==
  /\ phase = "open"
  /\ o \notin inside
  /\ inside' = inside \cup {o}
  /\ UNCHANGED phase

Leave(o) ==
  /\ o \in inside
  /\ inside' = inside \ {o}
  /\ UNCHANGED phase

StartClose == phase = "open" /\ phase' = "closing" /\ UNCHANGED inside

Unmap ==
  /\ phase = "closing"
  /\ inside = {}
  /\ phase' = "unmapped"
  /\ UNCHANGED inside

Next == (\E o \in Ops : Enter(o) \/ Leave(o)) \/ StartClose \/ Unmap

Spec == Init /\ [][Next]_gateSpecVars
=============================================================================
