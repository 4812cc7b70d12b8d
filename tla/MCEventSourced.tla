--------------------------- MODULE MCEventSourced ---------------------------
(* Instance of EventSourced for TLC.                                       *)
EXTENDS EventSourced, TLC

(* Incarnations differ in nothing but their name.                          *)
IncarnationSymmetry == Permutations(Incarnations)
=============================================================================
