---------------------------- MODULE PurchaseReview ---------------------------
(***************************************************************************)
(* The gateway's requests on purchases and on the Gmail connection.  Each  *)
(* loads what it checks, waits, and writes; a request also holds the       *)
(* user's document as it was when the request came in.                     *)
(***************************************************************************)
EXTENDS PurchaseStore

CONSTANT Requests  \* requests of the user that are under way at a time

VARIABLE request  \* what each request is doing

Free == [pc |-> "free", p |-> 0, receipt |-> "none", line |-> Whole,
         order |-> NoOrder, copy |-> Disconnected]

ReviewInit == request = [q \in Requests |-> Free]

-----------------------------------------------------------------------------

Is(q, step) == request[q].pc = step

Answered(q) == request' = [request EXCEPT ![q] = Free]

\* What the request keeps of the documents it loads.
Loaded(q, kept) ==
    /\ Is(q, "free") /\ Event
    /\ request' = [request EXCEPT ![q] = kept]
    /\ UNCHANGED <<purchases, user>>

\* The user leaves an order as it was read, corrects it or leaves none.
OrderChoice == Orders \cup {NoOrder}

AskConfirm(q, p) ==
    /\ purchases[p].status = "pending"
    /\ \E o \in OrderChoice :
          Loaded(q, [Free EXCEPT !.pc = "confirm", !.p = p, !.order = o])

\* The write does not ask again for the status; an order that is taken fails it.
Confirm(q) ==
    LET p == request[q].p
        e == [purchases[p] EXCEPT !.status = "monitoring", !.order = request[q].order]
    IN
    /\ Is(q, "confirm")
    /\ purchases' = IF Taken(e, Others(p)) THEN purchases
                    ELSE [purchases EXCEPT ![p] = e]
    /\ Answered(q)
    /\ UNCHANGED <<user, events>>

AskDismiss(q, p) ==
    /\ purchases[p].status = "pending"
    /\ Loaded(q, [Free EXCEPT !.pc = "dismiss", !.p = p, !.copy = user])

\* With remember_sender the skiplist follows.
Dismiss(q) ==
    /\ Is(q, "dismiss")
    /\ purchases' = [purchases EXCEPT ![request[q].p].status = "dismissed"]
    /\ Answered(q) \/ request' = [request EXCEPT ![q].pc = "remember"]
    /\ UNCHANGED <<user, events>>

\* The whole document goes back as it was when the request came in.
RememberSender(q) ==
    /\ Is(q, "remember")
    /\ user' = request[q].copy
    /\ Answered(q)
    /\ UNCHANGED <<purchases, events>>

AskStop(q, p) ==
    /\ purchases[p].status = "monitoring"
    /\ Loaded(q, [Free EXCEPT !.pc = "stop", !.p = p])

StopMonitoring(q) ==
    /\ Is(q, "stop")
    /\ purchases' = [purchases EXCEPT ![request[q].p].status = "dismissed"]
    /\ Answered(q)
    /\ UNCHANGED <<user, events>>

\* What a confirmed receipt becomes: whole, or one of its lines.
Confirmed(r, l, o) == [hash |-> <<r, l>>, line |-> l, order |-> o,
                       status |-> "monitoring", read |-> TRUE]

\* Only purchases that are tracked count as duplicates here.
Duplicate(e, others) ==
    \E p \in others : /\ purchases[p].status = "monitoring"
                      /\ SameHash(e, purchases[p]) \/ SameOrderLine(e, purchases[p])

\* The confirmation of an upload or of one line of it, which wrote nothing until now.
AskCreate(q, r, l, o) ==
    /\ ~Duplicate(Confirmed(r, l, o), DOMAIN purchases)
    /\ Loaded(q, [Free EXCEPT !.pc = "create", !.receipt = r, !.line = l, !.order = o])

\* The look-up was some time ago: the indexes decide.
CreatePurchase(q) ==
    LET e == Confirmed(request[q].receipt, request[q].line, request[q].order) IN
    /\ Is(q, "create")
    /\ purchases' = IF Taken(e, DOMAIN purchases) THEN purchases
                    ELSE Append(purchases, e)
    /\ Answered(q)
    /\ UNCHANGED <<user, events>>

\* Another receipt for a purchase that is tracked: looked up as a whole one, ...
AskReupload(q, p, r, o) ==
    /\ purchases[p].status = "monitoring"
    /\ ~Duplicate(Confirmed(r, Whole, o), Others(p))
    /\ Loaded(q, [Free EXCEPT !.pc = "reupload", !.p = p, !.receipt = r, !.order = o])

\* ... and stored with the hash of a whole one and the line the purchase has.
ReplaceReceipt(q) ==
    LET p == request[q].p
        e == [purchases[p] EXCEPT !.hash = <<request[q].receipt, Whole>>,
                                  !.order = request[q].order, !.read = TRUE]
    IN
    /\ Is(q, "reupload")
    /\ purchases' = IF Taken(e, Others(p)) THEN purchases
                    ELSE [purchases EXCEPT ![p] = e]
    /\ Answered(q)
    /\ UNCHANGED <<user, events>>

\* The OAuth callback: the user's document is loaded, the token stored, ...
AskConnect(q) == Loaded(q, [Free EXCEPT !.pc = "connect", !.copy = user])

\* ... and the document written back whole, with its old positions.
ConnectGmail(q) ==
    /\ Is(q, "connect")
    /\ user' = [request[q].copy EXCEPT !.connected = TRUE]
    /\ Answered(q)
    /\ UNCHANGED <<purchases, events>>

Ask(q) ==
    \/ \E p \in DOMAIN purchases :
          \/ AskConfirm(q, p) \/ AskDismiss(q, p) \/ AskStop(q, p)
          \/ \E r \in Receipts, o \in OrderChoice : AskReupload(q, p, r, o)
    \/ \E r \in Receipts, l \in Lines \cup {Whole}, o \in OrderChoice :
          AskCreate(q, r, l, o)
    \/ AskConnect(q)

RequestStep(q) ==
    \/ Confirm(q) \/ Dismiss(q) \/ RememberSender(q) \/ StopMonitoring(q)
    \/ CreatePurchase(q) \/ ReplaceReceipt(q) \/ ConnectGmail(q)

ReviewNext == \E q \in Requests : Ask(q) \/ RequestStep(q)
=============================================================================
