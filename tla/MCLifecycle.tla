---------------------------- MODULE MCLifecycle ----------------------------
(* Instance of Lifecycle for TLC.                                          *)
EXTENDS Lifecycle, TLC

(* The root is told apart; the other actors differ in nothing but their    *)
(* name as long as all or none of them are restarted.                      *)
ActorSymmetry == Permutations(Actors \ {Root})
=============================================================================
