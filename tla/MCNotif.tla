------------------------------- MODULE MCNotif -------------------------------
(* Instances of Notifications. *)
EXTENDS Notifications

Symmetry == Permutations(Tabs) \cup Permutations(Writers) \cup Permutations(Conns)
=============================================================================
