---------------------------- MODULE PurchaseStore ----------------------------
(***************************************************************************)
(* What the ingest-agent and the gateway share: the purchases of one user  *)
(* with their unique indexes, and the Gmail part of the user's document.   *)
(*                                                                         *)
(* A receipt stands for the normalised body of a mail or the bytes of an   *)
(* upload, so equal receipts are equal hashes, and an order for a platform *)
(* and its order number.  The user's skiplist is not state here: a Gmail   *)
(* purchase stores the hash of sender and body, the classifier looks up    *)
(* the hash of subject and body, and they never meet.                      *)
(* The events and notices that follow a write are inputs of the modules    *)
(* that model their receivers.                                             *)
(***************************************************************************)
EXTENDS Integers, Sequences, FiniteSets

CONSTANTS
    Receipts,
    Lines,       \* the keys of the lines of a receipt with several items
    Orders,
    OrderOf,     \* the order that the extractor reads from a receipt
    MaxMail,     \* bound: messages that arrive in the mailbox
    FaultKinds,  \* which failures the environment produces
    MaxEvents    \* bound: messages, failures and requests of the user, together

AllFaults == {"crash", "redeliver", "get", "list", "history", "mongo"}

ASSUME StoreAssumption ==
    /\ OrderOf \in [Receipts -> Orders]
    /\ {MaxMail, MaxEvents} \subseteq Nat
    /\ FaultKinds \subseteq AllFaults

VARIABLES
    purchases,  \* the collection, in the order of insertion
    user,       \* gmail_integration of the user's document
    events      \* bound: messages, failures and requests so far

None == -1

\* order_id is "" until an analysis or the user fills it in.
NoOrder == "none"

\* A receipt with one item, a mail and a manual fill have no line key.
Whole == "whole"

\* read is FALSE for the overall_min of 0.0 that a sentinel has, which the page
\* shows as still being analysed.  pending stands for both statuses to review.
\* The hash of a line is that of the receipt with the line's key behind it.
Purchase == [hash : Receipts \X (Lines \cup {Whole}), line : Lines \cup {Whole},
             order : Orders \cup {NoOrder},
             status : {"pending", "monitoring", "dismissed"}, read : BOOLEAN]

\* History positions: None is null.
User == [connected : BOOLEAN, cursor : Int, watch : Int]

Disconnected == [connected |-> FALSE, cursor |-> None, watch |-> None]

\* Connected before, and nothing pushed since.
Watched == [connected |-> TRUE, cursor |-> None, watch |-> 0]

StoreInit ==
    /\ purchases = <<>>
    /\ user \in {Disconnected, Watched}
    /\ events = 0

Event == events < MaxEvents /\ events' = events + 1

Fault(kind) == kind \in FaultKinds /\ Event

NoFault == UNCHANGED events

SameHash(e, f) == e.hash = f.hash

\* No order is not indexed.
SameOrderLine(e, f) == e.order # NoOrder /\ e.order = f.order /\ e.line = f.line

\* Mutant: no index over the hash.
OrderTaken(e, others) ==
    \E i \in DOMAIN purchases \cap others : SameOrderLine(e, purchases[i])

\* The two unique indexes refuse the purchase e: no status is exempt.
Taken(e, others) ==
    \E i \in DOMAIN purchases \cap others :
        SameHash(e, purchases[i]) \/ SameOrderLine(e, purchases[i])

Others(p) == DOMAIN purchases \ {p}
=============================================================================
