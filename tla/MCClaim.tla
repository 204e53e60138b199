------------------------------ MODULE MCClaim ------------------------------
(* Instances of ClaimLifecycle: what the user may start in a behaviour. *)
EXTENDS ClaimLifecycle, TLC

\* Each operation of ops once.
Once(ops) == [op \in UserOps |-> IF op \in ops THEN 1 ELSE 0]

\* Which operations race, and those that bring the claim where they do.
Races == {Once({"approve", "redraft"}), Once({"edit", "redraft"}),
          Once({"approve", "edit"}), Once({"override", "cancel", "redraft"}),
          Once({"approve", "cancel", "override"}), Once({"approve", "record"})}

Answers == {Once({"approve", "cancel", "record"})}
Hands   == {Once({})}

Symmetry == Permutations(AgentSlots)
=============================================================================
