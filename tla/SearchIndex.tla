----------------------------- MODULE SearchIndex -----------------------------
(***************************************************************************)
(* What the search index promises, without change streams or instances:    *)
(* an entry shows a version that its document really had, and none older   *)
(* than the one that has been passed, that is, whose change no restart     *)
(* will deliver again.  It may lag, and it may go back as far as that.     *)
(* The documents that are excused, because a change of theirs was lost,    *)
(* stay so until their current version is indexed.                         *)
(***************************************************************************)
EXTENDS Integers

CONSTANTS Docs

VARIABLES
    versions,  \* the versions of each document, 0 before its first
    passed,    \* the version of each document that no restart goes back behind
    entry,     \* the version that the index shows
    excused    \* documents that have lost a change

vars == <<versions, passed, entry, excused>>

Init ==
    /\ versions = [d \in Docs |-> {0}]
    /\ passed = [d \in Docs |-> 0]
    /\ entry = [d \in Docs |-> 0]
    /\ excused = {}

\* A write of the database.
Write(d) ==
    /\ \E new \in versions'[d] :
        /\ \A v \in versions[d] : v < new
        /\ versions' = [versions EXCEPT ![d] = @ \cup {new}]
    /\ UNCHANGED <<passed, entry, excused>>

Newest(d) == \A v \in versions[d] : v <= entry'[d]

\* The index is written, or another position becomes the one to restart from.
Index ==
    /\ \A d \in Docs :
        /\ {passed'[d], entry'[d]} \subseteq versions[d]
        /\ d \in excused' \/ passed'[d] <= entry'[d]
        /\ d \in excused \ excused' => Newest(d)
    /\ UNCHANGED versions

Next == Index \/ \E d \in Docs : Write(d)

Spec == Init /\ [][Next]_vars
=============================================================================
