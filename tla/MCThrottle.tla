----------------------------- MODULE MCThrottle -----------------------------
(* Throttle for TLC, whose constants are the cfg's: two workers fan a list *)
(* out over an unmetered endpoint. Two widths of the cap lie above its     *)
(* floor, so that a second halving shows, and the list is longer than the  *)
(* cap.                                                                    *)
EXTENDS Throttle, TLC

OneList == [w \in Workers |-> CHOOSE l \in Lists : TRUE]
Unmetered == [l \in Lists |-> MaxCap]

ASSUME Fitting == ThrottleAssumption

(* Workers are interchangeable where only safety is asked. *)
Symmetry == Permutations(Workers)
=============================================================================
