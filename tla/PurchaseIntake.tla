---------------------------- MODULE PurchaseIntake ---------------------------
(***************************************************************************)
(* The ingest-agent and the gateway over the same purchases and the same   *)
(* user document, and what they promise together.                          *)
(***************************************************************************)
EXTENDS GmailInbound, PurchaseReview

storeVars == <<purchases, user, events>>
vars      == <<storeVars, inboundVars, request>>

Init == StoreInit /\ InboundInit /\ ReviewInit

Next ==
    \/ InboundNext /\ UNCHANGED request
    \/ ReviewNext /\ UNCHANGED inboundVars

Spec == Init /\ [][Next]_vars

-----------------------------------------------------------------------------
(* Safety *)

\* The type invariant: a handler holds a message and a purchase where it has to.
TypeOK ==
    /\ purchases \in Seq(Purchase)
    /\ user \in User /\ {user.cursor, user.watch} \subseteq None..Len(mailbox)
    /\ mailbox \in Seq(Receipts) /\ Len(mailbox) <= MaxMail
    /\ watching \in BOOLEAN
    /\ oldest \in 0..Len(mailbox)
    /\ pushes \subseteq Messages
    /\ \A h \in Handlers :
          /\ handler[h].todo \subseteq Messages
          /\ At(h, "store") => handler[h].todo # {}
          /\ handler[h].pc \in {"finalize", "rescue"} =>
                handler[h].todo # {} /\ handler[h].cur \in DOMAIN purchases
    /\ outside \cup handled \cup lost \cup deferred \subseteq Messages
    /\ \A q \in Requests :
          Is(q, "confirm") \/ Is(q, "dismiss") \/ Is(q, "stop") \/ Is(q, "reupload")
             => request[q].p \in DOMAIN purchases
    /\ events \in 0..MaxEvents

\* Requests of both services look for a duplicate first and store later, and two
\* confirmations of one upload may pass the look-up together; still a receipt, or a
\* line of one, has one purchase, and so has a line of an order.
ReceiptTrackedOnce ==
    \A p \in DOMAIN purchases : \A q \in Others(p) :
        /\ ~SameHash(purchases[p], purchases[q])
        /\ ~SameOrderLine(purchases[p], purchases[q])

\* The history cursor never passes a message that nobody has dealt with, although
\* pushes come in any order, run next to each other, die and are repeated, and
\* whole-document writes of the gateway put old positions back.  Messages that
\* failed or were over the cap are the losses the code accepts.
CursorPassesNothing ==
    \A n \in Messages :
        user.connected /\ n <= user.cursor => n \in outside \cup handled \cup lost

\* The pipeline turns a message into a purchase or finds that it is none, unless
\* Gmail fails or the batch is over its cap.
MessageIsProcessed == lost = {}

-----------------------------------------------------------------------------
(* Liveness *)

\* Pub/Sub repeats what is not acknowledged and a request is not left standing;
\* the user, the mailbox and the failures owe nothing.
FairSpec ==
    /\ Spec
    /\ \A h \in Handlers : WF_vars(HandlerStep(h) /\ UNCHANGED request)

\* Every message that arrives is in the end dealt with, in spite of requests that
\* die, unless its push ended without a listing: Gmail failed or the user's document
\* had nowhere to start.
MessageIsDealtWith ==
    []<>(Messages \subseteq outside \cup handled \cup lost \cup deferred)
=============================================================================
