------------------------------- MODULE MCPool -------------------------------
(* Pool for TLC, whose constants are the cfg's: the last of three          *)
(* endpoints is on another chain, the first and the last keep history, the *)
(* middle one is never down.                                               *)
EXTENDS Pool, TLC

ASSUME Fitting == PoolAssumption

(* Callers are interchangeable where only safety is asked. *)
Symmetry == Permutations(Callers)
=============================================================================
