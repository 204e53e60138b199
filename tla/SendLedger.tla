----------------------------- MODULE SendLedger -----------------------------
(***************************************************************************)
(* What the handling of a claim promises about its e-mails, without        *)
(* handlers, documents or messages: an account.  Nothing leaves before the *)
(* user has agreed to it, and every e-mail draws on a credit of one, which *)
(* a request to redraft, each failure and each overlap of requests raise   *)
(* by one.                                                                 *)
(***************************************************************************)
EXTENDS Naturals

CONSTANTS Ways   \* how the user can agree to a send

VARIABLES
    agreed,   \* the ways in which the user has agreed
    credit,   \* how many e-mails may have left by now
    sent      \* how many have

vars == <<agreed, credit, sent>>

Init ==
    /\ agreed \in SUBSET Ways
    /\ credit = 1
    /\ sent = 0

\* The user agrees; nothing takes that back.
Agree ==
    /\ \E ways \in SUBSET Ways : agreed' = agreed \cup ways
    /\ UNCHANGED <<credit, sent>>

\* A redraft is asked for, something fails, or a request runs into another.
Grant ==
    /\ credit' = credit + 1
    /\ UNCHANGED <<agreed, sent>>

Send ==
    /\ agreed # {}
    /\ sent < credit
    /\ sent' = sent + 1
    /\ UNCHANGED <<agreed, credit>>

\* An e-mail whose acceptance the sender does not hear of.
SendUnheard ==
    /\ agreed # {}
    /\ sent' = sent + 1
    /\ credit' = credit + 1
    /\ UNCHANGED agreed

Next == Agree \/ Grant \/ Send \/ SendUnheard

Spec == Init /\ [][Next]_vars
=============================================================================
