---------------------------- MODULE MCClientEval ----------------------------
(* ClientEval for TLC. Goroutines are interchangeable. *)
EXTENDS ClientEval, TLC

Symmetry == Permutations(Threads)
=============================================================================
