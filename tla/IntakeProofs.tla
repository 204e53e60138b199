----------------------------- MODULE IntakeProofs ----------------------------
(***************************************************************************)
(* Theorems about PurchaseIntake, for any receipts, orders, handlers and   *)
(* requests: its types, and that no receipt and no line is tracked twice.  *)
(***************************************************************************)
EXTENDS PurchaseIntake, SequenceTheorems, WellFoundedInduction, TLAPS

-----------------------------------------------------------------------------
(* The invariant *)

\* A user document whose positions Gmail has already given out.
Document == [connected : BOOLEAN, cursor : None..Len(mailbox),
             watch : None..Len(mailbox)]

HandlerSteps == {"idle", "list", "classify", "store", "finalize", "rescue"}

RequestSteps == {"free", "confirm", "dismiss", "remember", "stop", "create",
                 "reupload", "connect"}

Working == [pc : HandlerSteps, push : 0..Len(mailbox), from : 0..Len(mailbox),
            todo : SUBSET Messages, cur : Nat]

Asked == [pc : RequestSteps, p : Nat, receipt : Receipts \cup {"none"},
          line : Lines \cup {Whole}, order : Orders \cup {NoOrder}, copy : Document]

\* A handler holds a message and a purchase where it has to, a request too.
Holds(r) ==
    /\ r.pc \in {"store", "finalize", "rescue"} => r.todo # {}
    /\ r.pc \in {"finalize", "rescue"} => r.cur \in DOMAIN purchases

Names(r) ==
    /\ r.pc \in {"confirm", "dismiss", "stop", "reupload"} => r.p \in DOMAIN purchases
    /\ r.pc \in {"create", "reupload"} => r.receipt \in Receipts

HandlersOK == /\ handler \in [Handlers -> Working]
              /\ \A h \in Handlers : Holds(handler[h])

RequestsOK == /\ request \in [Requests -> Asked]
              /\ \A q \in Requests : Names(request[q])

MailOK == /\ mailbox \in Seq(Receipts) /\ Len(mailbox) <= MaxMail
          /\ watching \in BOOLEAN
          /\ oldest \in 0..Len(mailbox)
          /\ pushes \subseteq Messages
          /\ outside \cup handled \cup lost \cup deferred \subseteq Messages

StoreOK == /\ purchases \in Seq(Purchase)
           /\ user \in Document
           /\ events \in 0..MaxEvents

IntakeInv == StoreOK /\ MailOK /\ HandlersOK /\ RequestsOK

-----------------------------------------------------------------------------
(* Helpers *)

\* Every set of message numbers has a lowest.
LEMMA LeastExists ==
    ASSUME NEW S, S \subseteq Nat, S # {}
    PROVE  \E n \in S : \A m \in S : n <= m
    <1>1. PICK n \in S : \A m \in S : ~(<<m, n>> \in OpToRel(<, Nat))
        BY NatLessThanWellFounded, WFMin, Zenon
    <1>2. ASSUME NEW m \in S
          PROVE  n <= m
        <2>1. m \in Nat /\ n \in Nat
            OBVIOUS
        <2>2. ~(m < n)
            BY <1>1, <2>1 DEF OpToRel
        <2>3. QED
            BY <2>1, <2>2
    <1>3. QED
        BY <1>2

\* The message a batch is at is one of it.
LEMMA CurrentIsLeft ==
    ASSUME MailOK, NEW h \in Handlers, handler[h].todo \subseteq Messages,
           handler[h].todo # {}
    PROVE  Current(h) \in handler[h].todo
    <1>1. handler[h].todo \subseteq Nat
        BY LenProperties DEF MailOK, Messages
    <1>2. PICK n \in handler[h].todo : \A m \in handler[h].todo : n <= m
        BY <1>1, LeastExists
    <1>3. QED
        BY <1>2 DEF Current

\* A failure or a request counts one event at most.
LEMMA Counted ==
    ASSUME events \in 0..MaxEvents, NEW kind,
           Fault(kind) \/ NoFault \/ Event
    PROVE  events' \in 0..MaxEvents
    BY StoreAssumption DEF Fault, NoFault, Event

-----------------------------------------------------------------------------
(* How purchases change *)

\* A purchase is inserted, or one is written over: by one whose keys were its own
\* or that no other purchase has.
Inserts(e) ==
    /\ ~Taken(e, DOMAIN purchases)
    /\ purchases' = Append(purchases, e)

SameKeys(e, f) == e.hash = f.hash /\ e.order = f.order /\ e.line = f.line

Rewrites(p, e) ==
    /\ SameKeys(e, purchases[p]) \/ ~Taken(e, Others(p))
    /\ purchases' = [purchases EXCEPT ![p] = e]

PurchaseStep ==
    \/ UNCHANGED purchases
    \/ \E e \in Purchase : Inserts(e)
    \/ \E p \in DOMAIN purchases : \E e \in Purchase : Rewrites(p, e)

\* The writes of the ingest-agent.
LEMMA InboundPurchases ==
    ASSUME IntakeInv, InboundNext
    PROVE  PurchaseStep
    <1> USE DEF PurchaseStep
    <1>1. ASSUME NEW h \in Handlers, StoreSentinel(h)
          PROVE  PurchaseStep
        <2> DEFINE r == Sentinel(mailbox[Current(h)])
        <2>1. handler[h].todo \subseteq Messages /\ handler[h].todo # {}
            BY <1>1 DEF IntakeInv, HandlersOK, Working, Holds, StoreSentinel, At
        <2>2. Current(h) \in Messages
            BY <2>1, CurrentIsLeft DEF IntakeInv
        <2>3. mailbox[Current(h)] \in Receipts
            BY <2>2, ElementOfSeq, LenProperties DEF IntakeInv, MailOK, Messages
        <2>4. r \in Purchase
            BY <2>3 DEF Sentinel, Purchase
        <2>5. UNCHANGED purchases \/ Inserts(r)
            BY <1>1 DEF StoreSentinel, Inserts
        <2>6. QED
            BY <2>4, <2>5
    <1>2. ASSUME NEW h \in Handlers, Finalize(h), purchases' # purchases
          PROVE  PurchaseStep
        <2> DEFINE p == handler[h].cur
                   o == OrderOf[purchases[p].hash[1]]
                   e == [purchases[p] EXCEPT !.order = o, !.status = "pending",
                                             !.read = TRUE]
        <2>1. p \in DOMAIN purchases
            BY <1>2 DEF IntakeInv, HandlersOK, Holds, Finalize, At
        <2>2. purchases[p] \in Purchase
            BY <2>1, ElementOfSeq, LenProperties DEF IntakeInv, StoreOK
        <2>3. o \in Orders \cup {NoOrder}
            <3>1. purchases[p].hash[1] \in Receipts
                BY <2>2 DEF Purchase
            <3>2. QED
                BY <3>1, StoreAssumption
        <2>4. e \in Purchase
            BY <2>2, <2>3 DEF Purchase
        <2>5. Rewrites(p, e)
            BY <1>2 DEF Finalize, Rewrites
        <2>6. QED
            BY <2>1, <2>4, <2>5
    <1>3. ASSUME NEW h \in Handlers, Rescue(h), purchases' # purchases
          PROVE  PurchaseStep
        <2> DEFINE p == handler[h].cur
                   e == [purchases[p] EXCEPT !.read = TRUE]
        <2>1. p \in DOMAIN purchases
            BY <1>3 DEF IntakeInv, HandlersOK, Holds, Rescue, At
        <2>2. purchases[p] \in Purchase
            BY <2>1, ElementOfSeq, LenProperties DEF IntakeInv, StoreOK
        <2>3. e \in Purchase /\ SameKeys(e, purchases[p])
            BY <2>2 DEF Purchase, SameKeys
        <2>4. Rewrites(p, e)
            BY <1>3, <2>3 DEF Rescue, Rewrites
        <2>5. QED
            BY <2>1, <2>3, <2>4
    <1>4. ASSUME NEW h \in Handlers, NEW n \in pushes, ReceivePush(h, n)
          PROVE  PurchaseStep
        BY <1>4 DEF ReceivePush
    <1>5. ASSUME NEW h \in Handlers,
                 ListHistory(h) \/ ListFails(h) \/ Classify(h) \/ AdvanceCursor(h) \/ Crash(h)
          PROVE  PurchaseStep
        BY <1>5 DEF ListHistory, ListFails, Classify, AdvanceCursor, Crash
    <1>6. ASSUME NEW r \in Receipts, Arrive(r)
          PROVE  PurchaseStep
        BY <1>6 DEF Arrive
    <1>7. ASSUME HistoryExpires \/ RegisterWatch \/ Disconnect
          PROVE  PurchaseStep
        BY <1>7 DEF HistoryExpires, RegisterWatch, Disconnect
    <1>8. QED
        BY <1>1, <1>2, <1>3, <1>4, <1>5, <1>6, <1>7 DEF InboundNext, HandlerStep

\* The writes of the gateway.
LEMMA ReviewPurchases ==
    ASSUME IntakeInv, ReviewNext
    PROVE  PurchaseStep
    <1> USE DEF PurchaseStep
    <1>1. ASSUME NEW q \in Requests, Ask(q)
          PROVE  PurchaseStep
        BY <1>1 DEF Ask, AskConfirm, AskDismiss, AskStop, AskReupload, AskCreate,
           AskConnect, Loaded
    <1>2. ASSUME NEW q \in Requests, RememberSender(q) \/ ConnectGmail(q)
          PROVE  PurchaseStep
        BY <1>2 DEF RememberSender, ConnectGmail
    <1>3. ASSUME NEW q \in Requests
          PROVE  request[q] \in Asked /\ Names(request[q])
        BY <1>3 DEF IntakeInv, RequestsOK
    <1>4. ASSUME NEW p \in DOMAIN purchases
          PROVE  purchases[p] \in Purchase
        BY <1>4, ElementOfSeq, LenProperties DEF IntakeInv, StoreOK
    <1>5. ASSUME NEW q \in Requests, Confirm(q), purchases' # purchases
          PROVE  PurchaseStep
        <2> DEFINE p == request[q].p
                   e == [purchases[p] EXCEPT !.status = "monitoring",
                                             !.order = request[q].order]
        <2>1. p \in DOMAIN purchases /\ request[q].order \in Orders \cup {NoOrder}
            BY <1>3, <1>5 DEF Confirm, Is, Names, Asked
        <2>2. purchases[p] \in Purchase
            BY <1>4, <2>1
        <2>3. e \in Purchase
            BY <2>1, <2>2 DEF Purchase
        <2>4. Rewrites(p, e)
            BY <1>5 DEF Confirm, Rewrites
        <2>5. QED
            BY <2>1, <2>3, <2>4
    <1>6. ASSUME NEW q \in Requests, Dismiss(q) \/ StopMonitoring(q)
          PROVE  PurchaseStep
        <2> DEFINE p == request[q].p
                   e == [purchases[p] EXCEPT !.status = "dismissed"]
        <2>1. p \in DOMAIN purchases
            BY <1>3, <1>6 DEF Dismiss, StopMonitoring, Is, Names
        <2>2. purchases[p] \in Purchase
            BY <1>4, <2>1
        <2>3. e \in Purchase /\ SameKeys(e, purchases[p])
            BY <2>2 DEF Purchase, SameKeys
        <2>4. Rewrites(p, e)
            BY <1>6, <2>3 DEF Dismiss, StopMonitoring, Rewrites
        <2>5. QED
            BY <2>1, <2>3, <2>4
    <1>7. ASSUME NEW q \in Requests, CreatePurchase(q)
          PROVE  PurchaseStep
        <2> DEFINE e == Confirmed(request[q].receipt, request[q].line, request[q].order)
        <2>1. /\ request[q].receipt \in Receipts /\ request[q].line \in Lines \cup {Whole}
              /\ request[q].order \in Orders \cup {NoOrder}
            BY <1>3, <1>7 DEF CreatePurchase, Is, Names, Asked
        <2>2. e \in Purchase
            BY <2>1 DEF Confirmed, Purchase
        <2>3. UNCHANGED purchases \/ Inserts(e)
            BY <1>7 DEF CreatePurchase, Inserts
        <2>4. QED
            BY <2>2, <2>3
    <1>8. ASSUME NEW q \in Requests, ReplaceReceipt(q), purchases' # purchases
          PROVE  PurchaseStep
        <2> DEFINE p == request[q].p
                   e == [purchases[p] EXCEPT !.hash = <<request[q].receipt, Whole>>,
                                             !.order = request[q].order, !.read = TRUE]
        <2>1. /\ p \in DOMAIN purchases /\ request[q].receipt \in Receipts
              /\ request[q].order \in Orders \cup {NoOrder}
            BY <1>3, <1>8 DEF ReplaceReceipt, Is, Names, Asked
        <2>2. purchases[p] \in Purchase
            BY <1>4, <2>1
        <2>3. e \in Purchase
            BY <2>1, <2>2 DEF Purchase
        <2>4. Rewrites(p, e)
            BY <1>8 DEF ReplaceReceipt, Rewrites
        <2>5. QED
            BY <2>1, <2>3, <2>4
    <1>9. QED
        BY <1>1, <1>2, <1>5, <1>6, <1>7, <1>8 DEF ReviewNext, RequestStep

\* Every step.
LEMMA PurchaseSteps ==
    ASSUME IntakeInv, [Next]_vars
    PROVE  PurchaseStep
    BY InboundPurchases, ReviewPurchases DEF Next, vars, storeVars, PurchaseStep

\* The purchases stay purchases, and none goes.
LEMMA PurchasesGrow ==
    ASSUME purchases \in Seq(Purchase), PurchaseStep
    PROVE  purchases' \in Seq(Purchase) /\ DOMAIN purchases \subseteq DOMAIN purchases'
    <1>1. CASE UNCHANGED purchases
        BY <1>1
    <1>2. ASSUME NEW r \in Purchase, Inserts(r)
          PROVE  purchases' \in Seq(Purchase) /\ DOMAIN purchases \subseteq DOMAIN purchases'
        BY <1>2, AppendProperties, LenProperties DEF Inserts
    <1>3. ASSUME NEW p \in DOMAIN purchases, NEW e \in Purchase, Rewrites(p, e)
          PROVE  purchases' \in Seq(Purchase) /\ DOMAIN purchases \subseteq DOMAIN purchases'
        <2>1. Len(purchases) \in Nat /\ DOMAIN purchases = 1..Len(purchases)
            BY LenProperties
        <2>2. purchases' \in [1..Len(purchases) -> Purchase]
            BY <1>3, <2>1, ElementOfSeq DEF Rewrites
        <2>3. QED
            BY <2>1, <2>2, IsASeq
    <1>4. QED
        BY <1>1, <1>2, <1>3 DEF PurchaseStep

\* What the unique indexes let through keeps receipts and orders apart.
LEMMA TrackedStep ==
    ASSUME purchases \in Seq(Purchase), ReceiptTrackedOnce, PurchaseStep
    PROVE  ReceiptTrackedOnce'
    <1> USE DEF ReceiptTrackedOnce, Others
    <1>1. CASE UNCHANGED purchases
        BY <1>1
    <1>2. ASSUME NEW r \in Purchase, Inserts(r)
          PROVE  ReceiptTrackedOnce'
        <2> DEFINE n == Len(purchases) + 1
        <2>1. /\ Len(purchases) \in Nat
              /\ DOMAIN purchases = 1..Len(purchases)
              /\ DOMAIN purchases' = 1..n
              /\ purchases'[n] = r
              /\ \A i \in DOMAIN purchases : purchases'[i] = purchases[i]
            BY <1>2, AppendProperties, LenProperties DEF Inserts
        <2>2. \A i \in DOMAIN purchases :
                 /\ ~SameHash(r, purchases[i]) /\ ~SameHash(purchases[i], r)
                 /\ ~SameOrderLine(r, purchases[i]) /\ ~SameOrderLine(purchases[i], r)
            BY <1>2 DEF Inserts, Taken, SameHash, SameOrderLine
        <2>3. ASSUME NEW i \in DOMAIN purchases', NEW j \in Others(i)'
              PROVE  /\ ~SameHash(purchases'[i], purchases'[j])
                     /\ ~SameOrderLine(purchases'[i], purchases'[j])
            <3>1. CASE i = n
                <4>1. j \in DOMAIN purchases
                    BY <2>1, <2>3, <3>1
                <4>2. QED
                    BY <2>1, <2>2, <3>1, <4>1
            <3>2. CASE j = n
                <4>1. i \in DOMAIN purchases
                    BY <2>1, <2>3, <3>2
                <4>2. QED
                    BY <2>1, <2>2, <3>2, <4>1
            <3>3. CASE i # n /\ j # n
                <4>1. i \in DOMAIN purchases /\ j \in Others(i)
                    BY <2>1, <2>3, <3>3
                <4>2. QED
                    BY <2>1, <4>1
            <3>4. QED
                BY <3>1, <3>2, <3>3
        <2>4. QED
            BY <2>3
    <1>3. ASSUME NEW p \in DOMAIN purchases, NEW e \in Purchase, Rewrites(p, e)
          PROVE  ReceiptTrackedOnce'
        <2>1. DOMAIN purchases' = DOMAIN purchases
            BY <1>3 DEF Rewrites
        <2>2. \A i \in Others(p) :
                 /\ purchases'[i] = purchases[i]
                 /\ ~SameHash(e, purchases[i]) /\ ~SameHash(purchases[i], e)
                 /\ ~SameOrderLine(e, purchases[i]) /\ ~SameOrderLine(purchases[i], e)
            BY <1>3 DEF Rewrites, Taken, SameKeys, SameHash, SameOrderLine
        <2>3. purchases'[p] = e
            BY <1>3 DEF Rewrites
        <2>4. ASSUME NEW i \in DOMAIN purchases', NEW j \in Others(i)'
              PROVE  /\ ~SameHash(purchases'[i], purchases'[j])
                     /\ ~SameOrderLine(purchases'[i], purchases'[j])
            <3>1. i \in DOMAIN purchases /\ j \in Others(i) /\ i \in Others(j)
                BY <2>1, <2>4
            <3>2. CASE i = p \/ j = p
                BY <2>2, <2>3, <3>1, <3>2
            <3>3. CASE i # p /\ j # p
                BY <2>2, <3>1, <3>3
            <3>4. QED
                BY <3>2, <3>3
        <2>5. QED
            BY <2>4
    <1>4. QED
        BY <1>1, <1>2, <1>3 DEF PurchaseStep

-----------------------------------------------------------------------------
(* Types *)

\* The steps of a handler that leave the mailbox alone.
HandlerAct(h) ==
    \/ \E n \in pushes : ReceivePush(h, n)
    \/ ListHistory(h) \/ ListFails(h) \/ Classify(h) \/ StoreSentinel(h)
    \/ Finalize(h) \/ Rescue(h) \/ AdvanceCursor(h) \/ Crash(h)

\* What the types say of one handler.
LEMMA HandlerFields ==
    ASSUME IntakeInv, NEW h \in Handlers
    PROVE  /\ handler[h] \in Working /\ Holds(handler[h])
           /\ handler[h].todo \subseteq Messages
           /\ handler[h].push \in 0..Len(mailbox) /\ handler[h].from \in 0..Len(mailbox)
           /\ handler[h].todo # {} => Current(h) \in handler[h].todo
    BY CurrentIsLeft DEF IntakeInv, HandlersOK, Working

\* The mailbox grows, and everything that names its messages goes on doing so.
MailGrows == Len(mailbox) <= Len(mailbox') /\ Messages \subseteq Messages'

LEMMA MailStep ==
    ASSUME IntakeInv, [Next]_vars
    PROVE  MailOK' /\ MailGrows
    <1> DEFINE Goal == MailOK' /\ MailGrows
    <1>1. Len(mailbox) \in Nat /\ Messages = 1..Len(mailbox)
        BY LenProperties DEF IntakeInv, MailOK, Messages
    <1>2. ASSUME NEW r \in Receipts, Arrive(r)
          PROVE  Goal
        <2>1. /\ mailbox' \in Seq(Receipts) /\ Len(mailbox') = Len(mailbox) + 1
              /\ Messages' = 1..Len(mailbox) + 1
            BY <1>1, <1>2, AppendProperties, LenProperties
               DEF Arrive, IntakeInv, MailOK, Messages
        <2>2. Len(mailbox') <= MaxMail
            BY <1>1, <1>2, <2>1, StoreAssumption DEF Arrive
        <2>3. UNCHANGED <<watching, oldest, handled, lost, deferred>>
            BY <1>2 DEF Arrive
        <2>4. Messages \subseteq Messages' /\ Len(mailbox) + 1 \in Messages'
            BY <1>1, <2>1
        <2>5. /\ pushes' \subseteq pushes \cup {Len(mailbox) + 1}
              /\ outside' \subseteq outside \cup {Len(mailbox) + 1}
            BY <1>2 DEF Arrive
        <2>6. pushes \subseteq Messages /\ outside \cup handled \cup lost \cup deferred \subseteq Messages
            BY DEF IntakeInv, MailOK
        <2>7. /\ pushes' \subseteq Messages'
              /\ outside' \cup handled' \cup lost' \cup deferred' \subseteq Messages'
            BY <2>3, <2>4, <2>5, <2>6
        <2>8. watching' \in BOOLEAN /\ oldest' \in 0..Len(mailbox')
            BY <1>1, <2>1, <2>3 DEF IntakeInv, MailOK
        <2>9. Len(mailbox) <= Len(mailbox')
            BY <1>1, <2>1
        <2>10. QED
            BY <2>1, <2>2, <2>4, <2>7, <2>8, <2>9 DEF MailOK, MailGrows
    <1>3. ASSUME HistoryExpires
          PROVE  Goal
        BY <1>1, <1>3 DEF HistoryExpires, history, IntakeInv, MailOK, MailGrows, Messages
    <1>4. ASSUME RegisterWatch \/ Disconnect
          PROVE  Goal
        <2>1. /\ UNCHANGED <<mailbox, oldest, pushes, handled, lost, deferred>>
              /\ watching' \in {TRUE, watching} /\ outside' \subseteq outside \cup Messages
            BY <1>4 DEF RegisterWatch, Disconnect
        <2>2. Messages' = Messages /\ Len(mailbox') = Len(mailbox)
            BY <2>1 DEF Messages
        <2>3. outside' \cup handled' \cup lost' \cup deferred' \subseteq Messages
            BY <2>1 DEF IntakeInv, MailOK
        <2>4. watching' \in BOOLEAN
            BY <2>1 DEF IntakeInv, MailOK
        <2>5. QED
            BY <1>1, <2>1, <2>2, <2>3, <2>4 DEF IntakeInv, MailOK, MailGrows
    <1>5. ASSUME NEW h \in Handlers, NEW n \in pushes, ReceivePush(h, n)
          PROVE  Goal
        <2>1. 1..n \subseteq Messages
            BY <1>1 DEF IntakeInv, MailOK
        <2>2. QED
            BY <1>1, <1>5, <2>1
               DEF ReceivePush, Outstanding, IntakeInv, MailOK, MailGrows, Messages
    <1>6. ASSUME NEW h \in Handlers, ListHistory(h)
          PROVE  Goal
        BY <1>1, <1>6 DEF ListHistory, Listed, IntakeInv, MailOK, MailGrows, Messages
    <1>7. ASSUME NEW h \in Handlers, ListFails(h)
          PROVE  Goal
        <2>1. 1..handler[h].push \subseteq Messages
            BY <1>1, HandlerFields
        <2>2. QED
            BY <1>1, <1>7, <2>1 DEF ListFails, Answer, IntakeInv, MailOK, MailGrows, Messages
    <1>8. ASSUME NEW h \in Handlers, Classify(h)
          PROVE  Goal
        <2>1. Current(h) \in Messages
            BY <1>8, HandlerFields DEF Classify
        <2>2. QED
            BY <1>1, <1>8, <2>1 DEF Classify, IntakeInv, MailOK, MailGrows, Messages
    <1>9. ASSUME NEW h \in Handlers, StoreSentinel(h)
          PROVE  Goal
        <2>1. Current(h) \in Messages
            BY <1>9, HandlerFields DEF StoreSentinel, Holds, At
        <2>2. QED
            BY <1>1, <1>9, <2>1 DEF StoreSentinel, IntakeInv, MailOK, MailGrows, Messages
    <1>10. ASSUME NEW h \in Handlers, Finalize(h) \/ Rescue(h) \/ Crash(h)
          PROVE  Goal
        BY <1>1, <1>10 DEF Finalize, Rescue, Crash, history, IntakeInv, MailOK, MailGrows,
           Messages
    <1>11. ASSUME NEW h \in Handlers, AdvanceCursor(h)
          PROVE  Goal
        BY <1>1, <1>11 DEF AdvanceCursor, Answer, history, IntakeInv, MailOK, MailGrows,
           Messages
    <1>12. CASE UNCHANGED inboundVars
        BY <1>1, <1>12 DEF inboundVars, history, IntakeInv, MailOK, MailGrows, Messages
    <1>13. QED
        BY <1>2, <1>3, <1>4, <1>5, <1>6, <1>7, <1>8, <1>9, <1>10, <1>11, <1>12
           DEF Next, InboundNext, HandlerStep, vars

\* A document stays one as the mailbox grows.
LEMMA DocumentGrows ==
    ASSUME MailOK, MailOK', MailGrows
    PROVE  /\ Document \subseteq Document'
           /\ Len(mailbox) \in Nat /\ Len(mailbox') \in Nat
           /\ Working \subseteq Working'
    <1>1. Len(mailbox) \in Nat /\ Len(mailbox') \in Nat
        BY LenProperties DEF MailOK
    <1>2. None..Len(mailbox) \subseteq None..Len(mailbox')
        BY <1>1 DEF MailGrows, None
    <1>3. 0..Len(mailbox) \subseteq 0..Len(mailbox')
        BY <1>1 DEF MailGrows
    <1>4. SUBSET Messages \subseteq SUBSET Messages'
        BY DEF MailGrows
    <1>5. Document \subseteq Document'
        BY <1>2 DEF Document
    <1>6. Working \subseteq Working'
        BY <1>3, <1>4 DEF Working
    <1>7. QED
        BY <1>1, <1>5, <1>6

\* The user's document: a position is one of the mailbox or of a handler's push.
LEMMA UserStep ==
    ASSUME IntakeInv, [Next]_vars
    PROVE  user' \in Document'
    <1>1. MailOK' /\ MailGrows /\ Document \subseteq Document'
          /\ Len(mailbox) \in Nat /\ Len(mailbox') \in Nat
        BY MailStep, DocumentGrows DEF IntakeInv
    <1>2. user \in Document
        BY DEF IntakeInv, StoreOK
    <1>3. CASE UNCHANGED user
        BY <1>1, <1>2, <1>3
    <1>4. CASE RegisterWatch
        BY <1>1, <1>2, <1>4 DEF RegisterWatch, Document, None
    <1>5. CASE Disconnect
        BY <1>1, <1>5 DEF Disconnect, Disconnected, Document, None
    <1>6. ASSUME NEW h \in Handlers, AdvanceCursor(h)
          PROVE  user' \in Document'
        BY <1>1, <1>2, <1>6, HandlerFields DEF AdvanceCursor, Advanced, Document, None
    <1>7. ASSUME NEW q \in Requests, RememberSender(q) \/ ConnectGmail(q)
          PROVE  user' \in Document'
        <2>1. request[q].copy \in Document
            BY DEF IntakeInv, RequestsOK, Asked
        <2>2. user' \in Document
            BY <1>7, <2>1 DEF RememberSender, ConnectGmail, Document
        <2>3. QED
            BY <1>1, <2>2
    <1>8. ASSUME NEW r \in Receipts, Arrive(r)
          PROVE  UNCHANGED user
        BY <1>8 DEF Arrive
    <1>9. ASSUME NEW h \in Handlers, HandlerStep(h) \/ Crash(h)
          PROVE  UNCHANGED user \/ AdvanceCursor(h)
        BY <1>9 DEF HandlerStep, ReceivePush, ListHistory, ListFails, Classify,
           StoreSentinel, Finalize, Rescue, Crash
    <1>10. ASSUME NEW q \in Requests, Ask(q) \/ RequestStep(q)
          PROVE  UNCHANGED user \/ RememberSender(q) \/ ConnectGmail(q)
        BY <1>10 DEF Ask, AskConfirm, AskDismiss, AskStop, AskReupload, AskCreate,
           AskConnect, Loaded, RequestStep, Confirm, Dismiss, StopMonitoring,
           CreatePurchase, ReplaceReceipt
    <1>11. HistoryExpires => UNCHANGED user
        BY DEF HistoryExpires
    <1>12. QED
        BY <1>3, <1>4, <1>5, <1>6, <1>7, <1>8, <1>9, <1>10, <1>11
           DEF Next, InboundNext, ReviewNext, vars, storeVars

\* A write of one handler, of its type, leaves the handlers typed.
LEMMA HandlerWrites ==
    ASSUME IntakeInv, [Next]_vars, NEW h \in Handlers, NEW r \in Working', Holds(r)',
           handler' = [handler EXCEPT ![h] = r]
    PROVE  HandlersOK'
    <1>1. Working \subseteq Working'
        BY MailStep, DocumentGrows DEF IntakeInv
    <1>2. DOMAIN purchases \subseteq DOMAIN purchases'
        BY PurchaseSteps, PurchasesGrow DEF IntakeInv, StoreOK
    <1>3. \A g \in Handlers : handler[g] \in Working' /\ Holds(handler[g])'
        BY <1>1, <1>2 DEF IntakeInv, HandlersOK, Holds
    <1>4. \A g \in Handlers : handler'[g] = IF g = h THEN r ELSE handler[g]
        BY DEF IntakeInv, HandlersOK
    <1>5. handler' \in [Handlers -> Working']
        BY <1>3 DEF IntakeInv, HandlersOK
    <1>6. \A g \in Handlers : Holds(handler[g])' /\ Holds(r)'
        BY <1>3
    <1>7. QED
        BY <1>4, <1>5, <1>6 DEF HandlersOK, Holds

\* The values a handler takes.
LEMMA HandlerValues ==
    ASSUME IntakeInv, NEW h \in Handlers
    PROVE  /\ Idle \in Working /\ Idle.pc = "idle"
           /\ Dropped(h) \in Working /\ Dropped(h).pc = "classify"
    <1>1. Len(mailbox) \in Nat
        BY LenProperties DEF IntakeInv, MailOK
    <1>2. Idle \in Working /\ Idle.pc = "idle"
        BY <1>1 DEF Idle, Working, HandlerSteps
    <1>3. handler[h] \in Working
        BY HandlerFields
    <1>4. Dropped(h) \in Working /\ Dropped(h).pc = "classify"
        BY <1>3 DEF Dropped, Working, HandlerSteps
    <1>5. QED
        BY <1>2, <1>4

LEMMA HandlersStep ==
    ASSUME IntakeInv, [Next]_vars
    PROVE  HandlersOK'
    <1>1. MailOK' /\ MailGrows /\ Working \subseteq Working'
          /\ Len(mailbox) \in Nat /\ Len(mailbox') \in Nat
        BY MailStep, DocumentGrows DEF IntakeInv
    <1>2. DOMAIN purchases \subseteq DOMAIN purchases'
        BY PurchaseSteps, PurchasesGrow DEF IntakeInv, StoreOK
    <1>3. CASE UNCHANGED handler
        BY <1>1, <1>2, <1>3 DEF IntakeInv, HandlersOK, Holds
    <1>4. ASSUME NEW h \in Handlers, handler' = [handler EXCEPT ![h] = Idle]
          PROVE  HandlersOK'
        <2>1. Idle \in Working' /\ Holds(Idle)'
            BY <1>1, HandlerValues DEF Holds
        <2>2. QED
            BY <1>4, <2>1, HandlerWrites
    <1>5. ASSUME NEW h \in Handlers, NextMessage(h)
          PROVE  HandlersOK'
        <2>1. PICK r \in Working : r = Dropped(h) /\ r.pc = "classify"
            BY HandlerValues
        <2>2. r \in Working' /\ Holds(r)'
            BY <1>1, <2>1 DEF Holds
        <2>3. handler' = [handler EXCEPT ![h] = r]
            BY <1>5, <2>1 DEF NextMessage
        <2>4. QED
            BY <2>2, <2>3, HandlerWrites
    <1>6. ASSUME NEW h \in Handlers, NEW n \in pushes, ReceivePush(h, n)
          PROVE  HandlersOK'
        <2>1. CASE UNCHANGED handler
            BY <1>3, <2>1
        <2>2. CASE handler' = [handler EXCEPT
                      ![h] = [Idle EXCEPT !.pc = "list", !.push = n, !.from = Start]]
                   /\ Start # None
            <3>1. n \in 0..Len(mailbox)
                BY <1>1, LenProperties DEF IntakeInv, MailOK, Messages
            <3>2. Start \in 0..Len(mailbox)
                BY <1>1, <2>2 DEF IntakeInv, StoreOK, Document, Start, None
            <3> DEFINE r == [Idle EXCEPT !.pc = "list", !.push = n, !.from = Start]
            <3>3. Idle \in Working
                BY HandlerValues
            <3>4. r \in Working /\ r.pc = "list"
                BY <3>1, <3>2, <3>3 DEF Working, HandlerSteps
            <3>5. handler' = [handler EXCEPT ![h] = r]
                BY <2>2
            <3> HIDE DEF r
            <3>6. PICK x \in Working : x = r /\ x.pc = "list"
                BY <3>4
            <3>7. x \in Working' /\ Holds(x)'
                BY <1>1, <3>6 DEF Holds
            <3>8. QED
                BY <3>5, <3>6, <3>7, HandlerWrites
        <2>3. QED
            BY <1>6, <2>1, <2>2 DEF ReceivePush
    <1>7. ASSUME NEW h \in Handlers, ListHistory(h)
          PROVE  HandlersOK'
        <2> DEFINE r == [handler[h] EXCEPT !.pc = "classify", !.todo = Capped(Listed(h))]
        <2>1. Capped(Listed(h)) \subseteq Messages
            BY DEF Capped, Listed
        <2>2. r \in Working /\ r.pc = "classify"
            BY <2>1, HandlerFields DEF Working, HandlerSteps
        <2>3. handler' = [handler EXCEPT ![h] = r]
            BY <1>7 DEF ListHistory
        <2> HIDE DEF r
        <2>4. PICK x \in Working : x = r /\ x.pc = "classify"
            BY <2>2
        <2>5. x \in Working' /\ Holds(x)'
            BY <1>1, <2>4 DEF Holds
        <2>6. QED
            BY <2>3, <2>4, <2>5, HandlerWrites
    <1>8. ASSUME NEW h \in Handlers, Classify(h), Goto(h, "store")
          PROVE  HandlersOK'
        <2> DEFINE r == [handler[h] EXCEPT !.pc = "store"]
        <2>1. r \in Working /\ r.pc = "store" /\ r.todo = handler[h].todo
            BY HandlerFields DEF Working, HandlerSteps
        <2>2. handler' = [handler EXCEPT ![h] = r] /\ handler[h].todo # {}
            BY <1>8 DEF Goto, Classify
        <2> HIDE DEF r
        <2>3. PICK x \in Working : x = r /\ x.pc = "store" /\ x.todo # {}
            BY <2>1, <2>2
        <2>4. x \in Working' /\ Holds(x)'
            BY <1>1, <2>3 DEF Holds
        <2>5. QED
            BY <2>2, <2>3, <2>4, HandlerWrites
    <1>9. ASSUME NEW h \in Handlers, StoreSentinel(h), ~NextMessage(h)
          PROVE  HandlersOK'
        <2>1. PICK step \in {"finalize", "rescue"} :
                  handler' = [handler EXCEPT ![h].pc = step, ![h].cur = NewId]
            BY <1>9 DEF StoreSentinel
        <2> DEFINE r == [handler[h] EXCEPT !.pc = step, !.cur = NewId]
        <2>2. Len(purchases) \in Nat /\ NewId \in DOMAIN purchases'
            <3>1. purchases' = Append(purchases, Sentinel(mailbox[Current(h)]))
                BY <1>9 DEF StoreSentinel
            <3>2. QED
                BY <3>1 DEF IntakeInv, StoreOK, NewId
        <2>3. /\ r \in Working /\ r.pc = step /\ r.cur = NewId
              /\ r.todo = handler[h].todo /\ handler[h].todo # {}
            <3>1. NewId \in Nat
                BY <2>2 DEF NewId
            <3>2. handler[h] \in Working /\ handler[h].todo # {}
                BY <1>9, HandlerFields DEF StoreSentinel, At, Holds
            <3>3. QED
                BY <3>1, <3>2 DEF Working, HandlerSteps
        <2>4. handler' = [handler EXCEPT ![h] = r]
            BY <2>1
        <2> HIDE DEF r
        <2>5. PICK x \in Working : x = r /\ x.pc = step /\ x.cur = NewId /\ x.todo # {}
            BY <2>3
        <2>6. x \in Working' /\ Holds(x)'
            BY <1>1, <2>2, <2>5 DEF Holds
        <2>7. QED
            BY <2>4, <2>5, <2>6, HandlerWrites
    <1>10. ASSUME NEW h \in Handlers, ListFails(h) \/ AdvanceCursor(h) \/ Crash(h)
           PROVE  handler' = [handler EXCEPT ![h] = Idle]
        BY <1>10 DEF ListFails, AdvanceCursor, Crash, Answer
    <1>11. ASSUME NEW h \in Handlers, Finalize(h) \/ Rescue(h)
           PROVE  NextMessage(h)
        BY <1>11 DEF Finalize, Rescue
    <1>12. ASSUME NEW h \in Handlers, Classify(h)
           PROVE  NextMessage(h) \/ Goto(h, "store")
        BY <1>12 DEF Classify
    <1>13. ASSUME NEW r \in Receipts, Arrive(r)
           PROVE  UNCHANGED handler
        BY <1>13 DEF Arrive
    <1>14. HistoryExpires \/ RegisterWatch \/ Disconnect => UNCHANGED handler
        BY DEF HistoryExpires, RegisterWatch, Disconnect
    <1>15. UNCHANGED inboundVars => UNCHANGED handler
        BY DEF inboundVars
    <1>16. QED
        BY <1>3, <1>4, <1>5, <1>6, <1>7, <1>8, <1>9, <1>10, <1>11, <1>12, <1>13, <1>14,
           <1>15 DEF Next, InboundNext, HandlerStep, vars

\* So do the requests.
LEMMA RequestWrites ==
    ASSUME IntakeInv, [Next]_vars, NEW q \in Requests, NEW r \in Asked, Names(r),
           request' = [request EXCEPT ![q] = r]
    PROVE  RequestsOK'
    <1>1. Document \subseteq Document'
        BY MailStep, DocumentGrows DEF IntakeInv
    <1>2. Asked \subseteq Asked'
        BY <1>1 DEF Asked
    <1>3. DOMAIN purchases \subseteq DOMAIN purchases'
        BY PurchaseSteps, PurchasesGrow DEF IntakeInv, StoreOK
    <1>4. \A u \in Requests : request[u] \in Asked /\ Names(request[u])'
        BY <1>3 DEF IntakeInv, RequestsOK, Names
    <1>5. \A u \in Requests : request'[u] = IF u = q THEN r ELSE request[u]
        BY DEF IntakeInv, RequestsOK
    <1>6. request' \in [Requests -> Asked']
        BY <1>2 DEF IntakeInv, RequestsOK
    <1>7. Names(r)'
        BY <1>3 DEF Names
    <1>8. QED
        BY <1>4, <1>5, <1>6, <1>7 DEF RequestsOK, Names

LEMMA RequestsStep ==
    ASSUME IntakeInv, [Next]_vars
    PROVE  RequestsOK'
    <1> USE DEF RequestSteps
    <1>1. user \in Document
        BY DEF IntakeInv, StoreOK
    <1>2. Disconnected \in Document
        <2>1. Len(mailbox) \in Nat
            BY LenProperties DEF IntakeInv, MailOK
        <2>2. QED
            BY <2>1 DEF Disconnected, Document, None
    <1>3. Free \in Asked /\ Free.pc = "free"
        BY <1>2 DEF Free, Asked
    <1>4. ASSUME NEW p \in DOMAIN purchases
          PROVE  purchases[p] \in Purchase /\ p \in Nat
        BY <1>4, ElementOfSeq, LenProperties DEF IntakeInv, StoreOK
    <1>5. CASE UNCHANGED request
        <2>1. Document \subseteq Document'
            BY MailStep, DocumentGrows DEF IntakeInv
        <2>2. Asked \subseteq Asked'
            BY <2>1 DEF Asked
        <2>3. DOMAIN purchases \subseteq DOMAIN purchases'
            BY PurchaseSteps, PurchasesGrow DEF IntakeInv, StoreOK
        <2>4. QED
            BY <1>5, <2>2, <2>3 DEF IntakeInv, RequestsOK, Names
    <1>6. ASSUME NEW q \in Requests, Answered(q)
          PROVE  RequestsOK'
        <2>1. Free \in Asked /\ Names(Free)
            BY <1>3 DEF Names
        <2>2. QED
            BY <1>6, <2>1, RequestWrites DEF Answered
    <1>7. ASSUME NEW q \in Requests, NEW r \in Asked, Names(r), Loaded(q, r)
          PROVE  RequestsOK'
        BY <1>7, RequestWrites DEF Loaded
    <1>8. ASSUME NEW q \in Requests, NEW p \in DOMAIN purchases, AskConfirm(q, p)
          PROVE  RequestsOK'
        <2>1. PICK o \in OrderChoice :
                  Loaded(q, [Free EXCEPT !.pc = "confirm", !.p = p, !.order = o])
            BY <1>8 DEF AskConfirm
        <2> DEFINE r == [Free EXCEPT !.pc = "confirm", !.p = p, !.order = o]
        <2>2. o \in Orders \cup {NoOrder}
            BY DEF OrderChoice
        <2>3. r \in Asked /\ r.pc = "confirm" /\ r.p = p
            BY <1>3, <1>4, <2>2 DEF Asked
        <2>4. Names(r)
            BY <2>3 DEF Names
        <2>5. QED
            BY <1>7, <2>1, <2>3, <2>4
    <1>9. ASSUME NEW q \in Requests, NEW p \in DOMAIN purchases, AskDismiss(q, p)
          PROVE  RequestsOK'
        <2> DEFINE r == [Free EXCEPT !.pc = "dismiss", !.p = p, !.copy = user]
        <2>1. r \in Asked /\ r.pc = "dismiss" /\ r.p = p
            BY <1>1, <1>3, <1>4 DEF Asked
        <2>2. Names(r)
            BY <2>1 DEF Names
        <2>3. QED
            BY <1>7, <1>9, <2>1, <2>2 DEF AskDismiss
    <1>10. ASSUME NEW q \in Requests, NEW p \in DOMAIN purchases, AskStop(q, p)
           PROVE  RequestsOK'
        <2> DEFINE r == [Free EXCEPT !.pc = "stop", !.p = p]
        <2>1. r \in Asked /\ r.pc = "stop" /\ r.p = p
            BY <1>3, <1>4 DEF Asked
        <2>2. Names(r)
            BY <2>1 DEF Names
        <2>3. QED
            BY <1>7, <1>10, <2>1, <2>2 DEF AskStop
    <1>11. ASSUME NEW q \in Requests, NEW p \in DOMAIN purchases, NEW x \in Receipts,
                  NEW o \in OrderChoice, AskReupload(q, p, x, o)
           PROVE  RequestsOK'
        <2> DEFINE r == [Free EXCEPT !.pc = "reupload", !.p = p, !.receipt = x,
                                     !.order = o]
        <2>1. r \in Asked /\ r.pc = "reupload" /\ r.p = p /\ r.receipt = x
            BY <1>3, <1>4 DEF Asked, OrderChoice
        <2>2. Names(r)
            BY <2>1 DEF Names
        <2>3. QED
            BY <1>7, <1>11, <2>1, <2>2 DEF AskReupload
    <1>12. ASSUME NEW q \in Requests, NEW x \in Receipts, NEW l \in Lines \cup {Whole},
                  NEW o \in OrderChoice, AskCreate(q, x, l, o)
           PROVE  RequestsOK'
        <2> DEFINE r == [Free EXCEPT !.pc = "create", !.receipt = x, !.line = l,
                                     !.order = o]
        <2>1. r \in Asked /\ r.pc = "create" /\ r.receipt = x
            BY <1>3 DEF Asked, OrderChoice
        <2>2. Names(r)
            BY <2>1 DEF Names
        <2>3. QED
            BY <1>7, <1>12, <2>1, <2>2 DEF AskCreate
    <1>13. ASSUME NEW q \in Requests, AskConnect(q)
           PROVE  RequestsOK'
        <2> DEFINE r == [Free EXCEPT !.pc = "connect", !.copy = user]
        <2>1. r \in Asked /\ r.pc = "connect"
            BY <1>1, <1>3 DEF Asked
        <2>2. Names(r)
            BY <2>1 DEF Names
        <2>3. QED
            BY <1>7, <1>13, <2>1, <2>2 DEF AskConnect
    <1>14. ASSUME NEW q \in Requests, Dismiss(q)
           PROVE  RequestsOK'
        <2>1. CASE Answered(q)
            BY <1>6, <2>1
        <2>2. CASE request' = [request EXCEPT ![q].pc = "remember"]
            <3> DEFINE r == [request[q] EXCEPT !.pc = "remember"]
            <3>1. r \in Asked /\ r.pc = "remember"
                BY DEF IntakeInv, RequestsOK, Asked
            <3>2. Names(r)
                BY <3>1 DEF Names
            <3>3. request' = [request EXCEPT ![q] = r]
                BY <2>2
            <3>4. QED
                BY <3>1, <3>2, <3>3, RequestWrites
        <2>3. QED
            BY <1>14, <2>1, <2>2 DEF Dismiss
    <1>15. ASSUME NEW q \in Requests, RequestStep(q)
           PROVE  Answered(q) \/ Dismiss(q)
        BY <1>15 DEF RequestStep, Confirm, RememberSender, StopMonitoring, CreatePurchase,
           ReplaceReceipt, ConnectGmail
    <1>16. QED
        BY <1>5, <1>6, <1>8, <1>9, <1>10, <1>11, <1>12, <1>13, <1>14, <1>15
           DEF Next, ReviewNext, Ask, vars

\* Failures and requests are counted below their bound.
LEMMA EventsStep ==
    ASSUME IntakeInv, [Next]_vars
    PROVE  events' \in 0..MaxEvents
    <1> USE DEF Fault, NoFault
    <1>1. events \in 0..MaxEvents
        BY DEF IntakeInv, StoreOK
    <1>2. CASE UNCHANGED events
        BY <1>1, <1>2
    <1>3. CASE Event
        BY <1>1, <1>3, StoreAssumption DEF Event
    <1>4. ASSUME NEW h \in Handlers, NEW n \in pushes, ReceivePush(h, n)
          PROVE  UNCHANGED events \/ Event
        BY <1>4 DEF ReceivePush
    <1>5. ASSUME NEW h \in Handlers,
                 ListHistory(h) \/ ListFails(h) \/ Classify(h) \/ StoreSentinel(h)
          PROVE  UNCHANGED events \/ Event
        BY <1>5 DEF ListHistory, ListFails, Classify, StoreSentinel
    <1>6. ASSUME NEW h \in Handlers,
                 Finalize(h) \/ Rescue(h) \/ AdvanceCursor(h) \/ Crash(h)
          PROVE  UNCHANGED events \/ Event
        BY <1>6 DEF Finalize, Rescue, AdvanceCursor, Crash
    <1>7. ASSUME NEW r \in Receipts, Arrive(r)
          PROVE  Event
        BY <1>7 DEF Arrive
    <1>8. ASSUME HistoryExpires \/ RegisterWatch \/ Disconnect
          PROVE  UNCHANGED events \/ Event
        BY <1>8 DEF HistoryExpires, RegisterWatch, Disconnect
    <1>9. ASSUME NEW q \in Requests, Ask(q)
          PROVE  Event
        BY <1>9 DEF Ask, AskConfirm, AskDismiss, AskStop, AskReupload, AskCreate,
           AskConnect, Loaded
    <1>10. ASSUME NEW q \in Requests, RequestStep(q)
           PROVE  UNCHANGED events
        BY <1>10 DEF RequestStep, Confirm, Dismiss, RememberSender, StopMonitoring,
           CreatePurchase, ReplaceReceipt, ConnectGmail
    <1>11. QED
        BY <1>2, <1>3, <1>4, <1>5, <1>6, <1>7, <1>8, <1>9, <1>10
           DEF Next, InboundNext, HandlerStep, ReviewNext, vars, storeVars

-----------------------------------------------------------------------------
(* The theorems *)

LEMMA IntakeInit == Init => IntakeInv /\ ReceiptTrackedOnce
    <1> SUFFICES ASSUME Init PROVE IntakeInv /\ ReceiptTrackedOnce
        OBVIOUS
    <1>1. purchases = <<>> /\ mailbox = <<>> /\ events = 0
        BY DEF Init, StoreInit, InboundInit
    <1>2. DOMAIN purchases = {} /\ Messages = {} /\ Len(mailbox) = 0
        BY <1>1 DEF Messages
    <1>3. MailOK
        <2>1. user.connected \in BOOLEAN
            <3>1. Disconnected \in Document /\ Watched \in Document
                BY <1>2 DEF Document, Disconnected, Watched, None
            <3>2. user \in Document
                BY <3>1 DEF Init, StoreInit
            <3>3. QED
                BY <3>2 DEF Document
        <2>2. /\ watching = user.connected /\ oldest = 0 /\ pushes = {}
              /\ outside = {} /\ handled = {} /\ lost = {} /\ deferred = {}
            BY DEF Init, InboundInit
        <2>3. mailbox \in Seq(Receipts) /\ Len(mailbox) <= MaxMail
            BY <1>1, <1>2, StoreAssumption
        <2>4. QED
            BY <1>2, <2>1, <2>2, <2>3 DEF MailOK
    <1>4. StoreOK /\ Disconnected \in Document
        <2>1. Disconnected \in Document /\ Watched \in Document
            BY <1>2 DEF Document, Disconnected, Watched, None
        <2>2. user \in Document
            BY <2>1 DEF Init, StoreInit
        <2>3. QED
            BY <1>1, <2>1, <2>2, StoreAssumption DEF StoreOK
    <1>5. Idle \in Working /\ Idle.pc = "idle"
        BY <1>2 DEF Idle, Working, HandlerSteps
    <1>6. HandlersOK
        BY <1>5 DEF Init, InboundInit, HandlersOK, Holds
    <1>7. Free \in Asked /\ Free.pc = "free"
        BY <1>4 DEF Free, Asked, RequestSteps
    <1>8. RequestsOK
        BY <1>7 DEF Init, ReviewInit, RequestsOK, Names
    <1>9. QED
        BY <1>2, <1>3, <1>4, <1>6, <1>8 DEF IntakeInv, ReceiptTrackedOnce

LEMMA IntakeStep == IntakeInv /\ [Next]_vars => IntakeInv'
    <1> SUFFICES ASSUME IntakeInv, [Next]_vars PROVE IntakeInv'
        OBVIOUS
    <1>1. purchases' \in Seq(Purchase)
        BY PurchaseSteps, PurchasesGrow DEF IntakeInv, StoreOK
    <1>2. StoreOK'
        BY <1>1, UserStep, EventsStep DEF StoreOK
    <1>3. QED
        BY <1>2, MailStep, HandlersStep, RequestsStep DEF IntakeInv

\* In every reachable state the handlers and requests hold messages and purchases
\* that exist, and positions are positions of the mailbox.
THEOREM TypeCorrect == Spec => []TypeOK
    <1>1. Init => IntakeInv
        BY IntakeInit
    <1>2. IntakeInv => TypeOK
        <2> SUFFICES ASSUME IntakeInv PROVE TypeOK
            OBVIOUS
        <2>1. Len(mailbox) \in Nat
            BY LenProperties DEF IntakeInv, MailOK
        <2>2. user \in User /\ {user.cursor, user.watch} \subseteq None..Len(mailbox)
            BY <2>1 DEF IntakeInv, StoreOK, Document, User, None
        <2>3. \A h \in Handlers :
                 /\ handler[h].todo \subseteq Messages
                 /\ At(h, "store") => handler[h].todo # {}
                 /\ handler[h].pc \in {"finalize", "rescue"} =>
                       handler[h].todo # {} /\ handler[h].cur \in DOMAIN purchases
            BY HandlerFields DEF Holds, At
        <2>4. \A q \in Requests :
                 Is(q, "confirm") \/ Is(q, "dismiss") \/ Is(q, "stop") \/ Is(q, "reupload")
                    => request[q].p \in DOMAIN purchases
            BY DEF IntakeInv, RequestsOK, Names, Is
        <2>5. QED
            BY <2>2, <2>3, <2>4 DEF IntakeInv, StoreOK, MailOK, TypeOK
    <1>3. QED
        BY <1>1, <1>2, IntakeStep, PTL DEF Spec

\* However look-ups and writes of the two services interleave, no receipt, no
\* line of a receipt and no line of an order is tracked by two purchases.
THEOREM TrackedOnce == Spec => []ReceiptTrackedOnce
    <1>1. Init => IntakeInv /\ ReceiptTrackedOnce
        BY IntakeInit
    <1>2. IntakeInv /\ ReceiptTrackedOnce /\ [Next]_vars
             => (IntakeInv /\ ReceiptTrackedOnce)'
        BY IntakeStep, PurchaseSteps, TrackedStep DEF IntakeInv, StoreOK
    <1>3. QED
        BY <1>1, <1>2, PTL DEF Spec
=============================================================================
