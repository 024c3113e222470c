------------------------------- MODULE MCDebate -------------------------------
(* TLC instances of Debate. *)
EXTENDS Debate, TLC

(* Debate goroutines and clients are interchangeable in the safety         *)
(* properties.                                                             *)
Symmetry == Permutations(Loops) \cup Permutations(Clients)

===============================================================================
