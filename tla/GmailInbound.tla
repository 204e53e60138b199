---------------------------- MODULE GmailInbound -----------------------------
(***************************************************************************)
(* From a Gmail push to a purchase that waits for its review: the watch,   *)
(* the history cursor and the handler of gmail-inbound pushes, several of  *)
(* which run at a time.                                                    *)
(*                                                                         *)
(* The n-th message of the mailbox has history id n.  main.py:481 uses the *)
(* answer of classify, a coroutine function, without awaiting it; the      *)
(* repository's tests replace it by a plain function.  AwaitsClassifier is *)
(* FALSE for the code as it stands, TRUE for what the tests run.           *)
(***************************************************************************)
EXTENDS PurchaseStore

CONSTANTS
    Handlers,          \* concurrent requests of the push endpoint
    Cap,               \* _GMAIL_INBOUND_PROCESS_CAP
    AwaitsClassifier

ASSUME InboundAssumption ==
    /\ Cap \in Nat \ {0}
    /\ AwaitsClassifier \in BOOLEAN

VARIABLES
    mailbox,   \* the messages at Gmail, in the order of arrival
    watching,  \* whether Gmail pushes, which a disconnect does not end
    oldest,    \* Gmail answers 404 to a history request from before it
    pushes,    \* pushes that Pub/Sub has not seen acknowledged
    handler,   \* what each request of the push endpoint is doing
    outside,   \* history: messages that came while nothing watched for the user
    handled,   \* history: messages that were not orders, known, or stored
    lost,      \* history: messages given up: they failed or were over the cap
    deferred   \* history: messages whose push ended without a listing

history     == <<outside, handled, lost, deferred>>
inboundVars == <<mailbox, watching, oldest, pushes, handler, history>>

Idle == [pc |-> "idle", push |-> 0, from |-> 0, todo |-> {}, cur |-> 0]

Messages == DOMAIN mailbox

InboundInit ==
    /\ mailbox = <<>> /\ watching = user.connected /\ oldest = 0 /\ pushes = {}
    /\ handler = [h \in Handlers |-> Idle]
    /\ outside = {} /\ handled = {} /\ lost = {} /\ deferred = {}

-----------------------------------------------------------------------------
(* Gmail, the watch and the connection *)

\* Where the next push starts to read; the watch only until there is a cursor.
Start == IF user.cursor # None THEN user.cursor ELSE user.watch

Arrive(r) ==
    /\ Len(mailbox) < MaxMail /\ Event
    /\ mailbox' = Append(mailbox, r)
    /\ pushes' = IF watching THEN pushes \cup {Len(mailbox) + 1} ELSE pushes
    /\ outside' = IF user.connected /\ Start # None THEN outside
                  ELSE outside \cup {Len(mailbox) + 1}
    /\ UNCHANGED <<purchases, user, watching, oldest, handler, handled, lost,
                   deferred>>

\* Gmail keeps about a week of history.
HistoryExpires ==
    /\ Fault("history")
    /\ oldest < Len(mailbox)
    /\ oldest' = Len(mailbox)
    /\ UNCHANGED <<purchases, user, mailbox, watching, pushes, handler,
                   history>>

\* After a connect, and again by the renewal sweep: only the watch's position is
\* written.  A first read will start there, so what came before is left out.
RegisterWatch ==
    /\ user.connected
    /\ user.watch < Len(mailbox) \/ ~watching
    /\ watching' = TRUE
    /\ user' = [user EXCEPT !.watch = Len(mailbox)]
    /\ outside' = IF user.cursor = None THEN outside \cup Messages ELSE outside
    /\ UNCHANGED <<purchases, events, mailbox, oldest, pushes, handler,
                   handled, lost, deferred>>

\* The integration is cleared in one write; Gmail keeps pushing.
Disconnect ==
    /\ user.connected
    /\ user' = Disconnected
    /\ outside' = outside \cup Messages
    /\ UNCHANGED <<purchases, events, mailbox, watching, oldest, pushes,
                   handler, handled, lost, deferred>>

-----------------------------------------------------------------------------
(* _process_gmail_inbound *)

At(h, step) == handler[h].pc = step

Goto(h, step) == handler' = [handler EXCEPT ![h].pc = step]

InHand(n) == \E h \in Handlers : ~At(h, "idle") /\ handler[h].push = n

\* The message the batch is at: the lowest that is left.
Current(h) == CHOOSE n \in handler[h].todo : \A m \in handler[h].todo : n <= m

\* On to the next message of the batch.
Dropped(h) == [handler[h] EXCEPT !.pc = "classify", !.todo = @ \ {Current(h)},
                                  !.cur = 0]

NextMessage(h) == handler' = [handler EXCEPT ![h] = Dropped(h)]

\* Every answer is a 200, so the push is gone unless the request died.
Answer(h) ==
    /\ handler' = [handler EXCEPT ![h] = Idle]
    /\ pushes' = pushes \ {handler[h].push}

\* Mutant: a push is acknowledged when it is received.
Acknowledged(n) == pushes \ {n}

\* A push stays with Pub/Sub while the request works on it.
Outstanding(n) == pushes

\* Pushes come in any order, and again while a slow request is still at work.
ReceivePush(h, n) ==
    /\ At(h, "idle") /\ n \in pushes
    /\ IF InHand(n) THEN Fault("redeliver") ELSE NoFault
    /\ IF user.connected /\ Start # None
       THEN /\ handler' = [handler EXCEPT
                   ![h] = [Idle EXCEPT !.pc = "list", !.push = n, !.from = Start]]
            /\ pushes' = Outstanding(n)
            /\ UNCHANGED deferred
       ELSE /\ pushes' = pushes \ {n}
            /\ deferred' = deferred \cup 1..n
            /\ UNCHANGED handler
    /\ UNCHANGED <<purchases, user, mailbox, watching, oldest, outside, handled, lost>>

\* Everything after the start that Gmail has by now, not only up to the push.
Listed(h) == {n \in Messages : n > handler[h].from}

\* The oldest ones; the others are lost.
Capped(ns) == {n \in ns : Cardinality({m \in ns : m < n}) < Cap}

ListHistory(h) ==
    /\ At(h, "list") /\ handler[h].from >= oldest
    /\ handler' = [handler EXCEPT ![h].pc = "classify", ![h].todo = Capped(Listed(h))]
    /\ lost' = lost \cup {n \in Listed(h) : \A m \in Capped(Listed(h)) : n > m}
    /\ UNCHANGED <<purchases, user, events, mailbox, watching, oldest, pushes,
                   outside, handled, deferred>>

\* No token or no answer, or a start that Gmail has forgotten: the cursor stays.
ListFails(h) ==
    /\ At(h, "list")
    /\ IF handler[h].from < oldest THEN NoFault ELSE Fault("list")
    /\ deferred' = deferred \cup 1..handler[h].push
    /\ Answer(h)
    /\ UNCHANGED <<purchases, user, mailbox, watching, oldest, outside, handled,
                   lost>>

Known(r) == \E p \in DOMAIN purchases : purchases[p].hash = <<r, Whole>>

\* messages.get, the parser, the classifier and the look-up of the hash.
Classify(h) ==
    /\ At(h, "classify") /\ handler[h].todo # {}
    /\ LET n == Current(h) IN
       \/ /\ IF AwaitsClassifier THEN Fault("get") ELSE NoFault
          /\ lost' = lost \cup {n}
          /\ NextMessage(h)
          /\ UNCHANGED handled
       \/ /\ AwaitsClassifier /\ NoFault
          /\ handled' = handled \cup {n}
          /\ NextMessage(h)
          /\ UNCHANGED lost
       \/ /\ AwaitsClassifier /\ NoFault /\ ~Known(mailbox[n])
          /\ Goto(h, "store")
          /\ UNCHANGED <<handled, lost>>
    /\ UNCHANGED <<purchases, user, mailbox, watching, oldest, pushes, outside,
                   deferred>>

Sentinel(r) == [hash |-> <<r, Whole>>, line |-> Whole, order |-> NoOrder,
                status |-> "pending", read |-> FALSE]

\* Mutant: counts from zero.
LastId == Len(purchases)

NewId == Len(purchases) + 1

\* A concurrent request may have stored it: the index refuses the second one.
\* Then the language model reads the message, or fails to.
StoreSentinel(h) ==
    /\ At(h, "store")
    /\ LET e == Sentinel(mailbox[Current(h)]) IN
       IF Taken(e, DOMAIN purchases)
       THEN NextMessage(h) /\ UNCHANGED purchases
       ELSE /\ purchases' = Append(purchases, e)
            /\ \E step \in {"finalize", "rescue"} :
                  handler' = [handler EXCEPT ![h].pc = step,
                                             ![h].cur = NewId]
    /\ handled' = handled \cup {Current(h)}
    /\ UNCHANGED <<user, events, mailbox, watching, oldest, pushes, outside, lost,
                   deferred>>

\* finalize_purchase_extraction writes its status over whatever the purchase has.
\* An order that another purchase has makes the write fail, and nothing rescues.
Finalize(h) ==
    LET p == handler[h].cur
        e == [purchases[p] EXCEPT !.order = OrderOf[purchases[p].hash[1]],
                                  !.status = "pending", !.read = TRUE]
    IN
    /\ At(h, "finalize")
    /\ \/ /\ ~Taken(e, Others(p)) /\ NoFault
          /\ purchases' = [purchases EXCEPT ![p] = e]
       \/ /\ IF Taken(e, Others(p)) THEN NoFault
             ELSE Fault("mongo")
          /\ UNCHANGED purchases
    /\ NextMessage(h)
    /\ UNCHANGED <<user, mailbox, watching, oldest, pushes, history>>

\* finalize_purchase_extraction_failure lets the user fill in what was not read.
Rescue(h) ==
    LET p == handler[h].cur IN
    /\ At(h, "rescue")
    /\ \/ purchases' = [purchases EXCEPT ![p].read = TRUE] /\ NoFault
       \/ Fault("mongo") /\ UNCHANGED purchases
    /\ NextMessage(h)
    /\ UNCHANGED <<user, mailbox, watching, oldest, pushes, history>>

\* Mutant: the newest message there is, listed or not.
NewestSeen(h) == Len(mailbox)

\* The push's own position, wherever the cursor is by now.
Advanced(h) == handler[h].push

\* One field of the document is written, connected or not.
AdvanceCursor(h) ==
    /\ At(h, "classify") /\ handler[h].todo = {}
    /\ \/ NoFault /\ user' = [user EXCEPT !.cursor = Advanced(h)]
       \/ Fault("mongo") /\ UNCHANGED user
    /\ Answer(h)
    /\ UNCHANGED <<purchases, mailbox, watching, oldest, history>>

\* The instance dies; Pub/Sub delivers the push again.
Crash(h) ==
    /\ ~At(h, "idle")
    /\ Fault("crash")
    /\ handler' = [handler EXCEPT ![h] = Idle]
    /\ UNCHANGED <<purchases, user, mailbox, watching, oldest, pushes, history>>

HandlerStep(h) ==
    \/ \E n \in pushes : ReceivePush(h, n)
    \/ ListHistory(h) \/ ListFails(h) \/ Classify(h) \/ StoreSentinel(h)
    \/ Finalize(h) \/ Rescue(h) \/ AdvanceCursor(h)

InboundNext ==
    \/ \E r \in Receipts : Arrive(r)
    \/ HistoryExpires \/ RegisterWatch \/ Disconnect
    \/ \E h \in Handlers : HandlerStep(h) \/ Crash(h)
=============================================================================
