---------------------------- MODULE MCThreadGraph ----------------------------
(* Model values for ThreadGraph: overlapping requests are interchangeable. *)
EXTENDS ThreadGraph, TLC

RunSymmetry == Permutations(Runs)
=============================================================================
