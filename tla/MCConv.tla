------------------------------- MODULE MCConv ------------------------------
(* Instances of Conversations. *)
EXTENDS Conversations, TLC

CONSTANTS t1, t2, s1, s2

Symmetry == Permutations(Turns) \cup Permutations(Sessions)
=============================================================================
