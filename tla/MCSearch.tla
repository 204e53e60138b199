------------------------------ MODULE MCSearch ------------------------------
(* Instances of SearchSync. *)
EXTENDS SearchSync

\* Whatever the environment does, kinds that may be added to it included.
AnyFault == AllFaults
=============================================================================
