-------------------------- MODULE IntakeSafetyProofs -------------------------
(***************************************************************************)
(* That the history cursor passes no message, for any handlers, requests,  *)
(* caps and failures.  A cursor is written from a push and from old copies *)
(* of the user's document, so the invariant speaks of these: every         *)
(* position anybody could still write has only settled messages below it,  *)
(* and a handler has the unsettled ones up to its push in its batch.       *)
(***************************************************************************)
EXTENDS IntakeProofs, FiniteSetTheorems

\* Messages that nobody owes anything.
Settled == outside \cup handled \cup lost

\* Nothing below where this document lets a push start is left to do.
SettledBelow(u) ==
    \A n \in Messages :
        n <= (IF u.cursor # None THEN u.cursor ELSE u.watch) => n \in Settled

\* A handler starts from such a position; later it has everything up to its
\* push in its batch.
BatchComplete(r) ==
    /\ r.pc = "list" => \A n \in Messages : n <= r.from => n \in Settled
    /\ r.pc \in {"classify", "store", "finalize", "rescue"} =>
          \A n \in Messages : n <= r.push => n \in Settled \/ n \in r.todo

\* Once its purchase is stored, a message is settled.
StoredIsSettled(h) ==
    handler[h].pc \in {"finalize", "rescue"} => Current(h) \in Settled

CursorInv ==
    /\ SettledBelow(user)
    /\ \A q \in Requests : SettledBelow(request[q].copy)
    /\ \A h \in Handlers : BatchComplete(handler[h]) /\ StoredIsSettled(h)

-----------------------------------------------------------------------------

\* What is settled stays so, and a new message is above every position.
Growth ==
    /\ Settled \subseteq Settled'
    /\ \A n \in Messages' : n \in Messages \/ (n \in Nat /\ n > Len(mailbox))

LEMMA GrowthStep ==
    ASSUME IntakeInv, [Next]_vars
    PROVE  Growth
    <1>1. Len(mailbox) \in Nat /\ Messages = 1..Len(mailbox)
        BY LenProperties DEF IntakeInv, MailOK, Messages
    <1>2. Messages' = 1..Len(mailbox') /\ Len(mailbox') \in Nat
        BY MailStep, LenProperties DEF MailOK, Messages
    <1>3. \A n \in Messages' : n \in Messages \/ (n \in Nat /\ n > Len(mailbox))
        BY <1>1, <1>2
    <1>4. ASSUME NEW r \in Receipts, Arrive(r)
          PROVE  Settled \subseteq Settled'
        BY <1>4 DEF Arrive, Settled
    <1>5. ASSUME HistoryExpires \/ RegisterWatch \/ Disconnect
          PROVE  Settled \subseteq Settled'
        BY <1>5 DEF HistoryExpires, RegisterWatch, Disconnect, history, Settled
    <1>6. ASSUME NEW h \in Handlers, NEW n \in pushes, ReceivePush(h, n)
          PROVE  Settled \subseteq Settled'
        BY <1>6 DEF ReceivePush, Settled
    <1>7. ASSUME NEW h \in Handlers,
                 ListHistory(h) \/ ListFails(h) \/ Classify(h) \/ StoreSentinel(h)
          PROVE  Settled \subseteq Settled'
        BY <1>7 DEF ListHistory, ListFails, Classify, StoreSentinel, Settled
    <1>8. ASSUME NEW h \in Handlers,
                 Finalize(h) \/ Rescue(h) \/ AdvanceCursor(h) \/ Crash(h)
          PROVE  Settled \subseteq Settled'
        BY <1>8 DEF Finalize, Rescue, AdvanceCursor, Crash, history, Settled
    <1>9. UNCHANGED inboundVars => Settled \subseteq Settled'
        BY DEF inboundVars, history, Settled
    <1>10. QED
        BY <1>3, <1>4, <1>5, <1>6, <1>7, <1>8, <1>9
           DEF Next, InboundNext, HandlerStep, vars, Growth

\* So what was settled below a position still is.
LEMMA PositionKept ==
    ASSUME MailOK, Growth, NEW u \in Document, SettledBelow(u)
    PROVE  SettledBelow(u)'
    <1>1. Len(mailbox) \in Nat
        BY LenProperties DEF MailOK
    <1>2. (IF u.cursor # None THEN u.cursor ELSE u.watch) \in None..Len(mailbox)
        BY DEF Document
    <1>3. QED
        BY <1>1, <1>2 DEF Growth, SettledBelow, None

\* And a batch that was complete still is.
LEMMA BatchKept ==
    ASSUME MailOK, Growth, NEW r \in Working, BatchComplete(r)
    PROVE  BatchComplete(r)'
    <1>1. Len(mailbox) \in Nat /\ r.from \in 0..Len(mailbox) /\ r.push \in 0..Len(mailbox)
        BY LenProperties DEF MailOK, Working
    <1>2. QED
        BY <1>1 DEF Growth, BatchComplete

\* The cap leaves out what comes after all that it lets through.
LEMMA CapIsPrefix ==
    ASSUME MailOK, NEW h \in Handlers, NEW n \in Listed(h), n \notin Capped(Listed(h))
    PROVE  \A m \in Capped(Listed(h)) : n > m
    <1> DEFINE Before(k) == {m \in Listed(h) : m < k}
    <1>1. Len(mailbox) \in Nat /\ Messages = 1..Len(mailbox)
        BY LenProperties DEF MailOK, Messages
    <1>2. Listed(h) \subseteq 1..Len(mailbox)
        BY <1>1 DEF Listed
    <1>3. IsFiniteSet(Listed(h))
        <2>1. IsFiniteSet(1..Len(mailbox))
            BY <1>1, FS_Interval
        <2>2. QED
            BY <1>2, <2>1, FS_Subset
    <1>4. SUFFICES ASSUME NEW m \in Capped(Listed(h)), ~(n > m)
                   PROVE  FALSE
        OBVIOUS
    <1>5. m \in Listed(h) /\ Cardinality(Before(m)) < Cap
        BY DEF Capped
    <1>6. n \in Nat /\ m \in Nat /\ n <= m
        BY <1>2, <1>4, <1>5
    <1>7. Before(n) \subseteq Before(m) /\ Before(m) \subseteq Listed(h)
        BY <1>2, <1>6
    <1>8. /\ Cardinality(Before(n)) <= Cardinality(Before(m))
          /\ Cardinality(Before(n)) \in Nat /\ Cardinality(Before(m)) \in Nat
        BY <1>3, <1>7, FS_Subset, FS_CardinalityType
    <1>9. Cardinality(Before(n)) < Cap
        BY <1>5, <1>8, InboundAssumption
    <1>10. QED
        BY <1>9 DEF Capped

-----------------------------------------------------------------------------

\* The user's document.
LEMMA UserSettled ==
    ASSUME IntakeInv, CursorInv, [Next]_vars, Growth
    PROVE  SettledBelow(user)'
    <1>1. user \in Document /\ SettledBelow(user) /\ MailOK
        BY DEF IntakeInv, StoreOK, CursorInv
    <1>2. CASE UNCHANGED user
        <2>1. PICK u \in Document : u = user /\ SettledBelow(u)'
            BY <1>1, PositionKept
        <2>2. QED
            BY <1>2, <2>1 DEF SettledBelow
    <1>3. CASE RegisterWatch
        <2>1. CASE user.cursor = None
            BY <1>3, <2>1 DEF RegisterWatch, SettledBelow, Settled, Messages
        <2>2. CASE user.cursor # None
            <3>1. Messages' = Messages /\ Settled' = Settled /\ user'.cursor = user.cursor
                BY <1>1, <1>3, <2>2 DEF RegisterWatch, Settled, Messages, Document
            <3>2. QED
                BY <1>1, <2>2, <3>1 DEF SettledBelow
        <2>3. QED
            BY <2>1, <2>2
    <1>4. CASE Disconnect
        BY <1>4 DEF Disconnect, SettledBelow, Settled, Messages
    <1>5. ASSUME NEW h \in Handlers, AdvanceCursor(h), user' # user
          PROVE  SettledBelow(user)'
        <2>1. /\ handler[h].pc = "classify" /\ handler[h].todo = {}
              /\ user' = [user EXCEPT !.cursor = handler[h].push]
              /\ UNCHANGED <<mailbox, history>>
            BY <1>5 DEF AdvanceCursor, Advanced, At
        <2>2. \A n \in Messages : n <= handler[h].push => n \in Settled
            BY <2>1 DEF CursorInv, BatchComplete
        <2>3. user'.cursor = handler[h].push /\ user'.cursor # None
            BY <1>1, <2>1, HandlerFields DEF Document, None
        <2>4. Messages' = Messages /\ Settled' = Settled
            BY <2>1 DEF Messages, Settled, history
        <2>5. QED
            BY <2>2, <2>3, <2>4 DEF SettledBelow
    <1>6. ASSUME NEW q \in Requests, RememberSender(q) \/ ConnectGmail(q)
          PROVE  SettledBelow(user)'
        <2>1. request[q].copy \in Document /\ SettledBelow(request[q].copy)
            BY DEF IntakeInv, RequestsOK, Asked, CursorInv
        <2>2. PICK u \in Document : u = request[q].copy /\ SettledBelow(u)'
            BY <1>1, <2>1, PositionKept
        <2>3. user'.cursor = u.cursor /\ user'.watch = u.watch
            BY <1>6, <2>2 DEF RememberSender, ConnectGmail, Document
        <2>4. QED
            BY <2>2, <2>3 DEF SettledBelow
    <1>7. ASSUME NEW r \in Receipts, Arrive(r)
          PROVE  UNCHANGED user
        BY <1>7 DEF Arrive
    <1>8. ASSUME NEW h \in Handlers, HandlerStep(h) \/ Crash(h)
          PROVE  UNCHANGED user \/ AdvanceCursor(h)
        BY <1>8 DEF HandlerStep, ReceivePush, ListHistory, ListFails, Classify,
           StoreSentinel, Finalize, Rescue, Crash
    <1>9. ASSUME NEW q \in Requests, Ask(q) \/ RequestStep(q)
          PROVE  UNCHANGED user \/ RememberSender(q) \/ ConnectGmail(q)
        BY <1>9 DEF Ask, AskConfirm, AskDismiss, AskStop, AskReupload, AskCreate,
           AskConnect, Loaded, RequestStep, Confirm, Dismiss, StopMonitoring,
           CreatePurchase, ReplaceReceipt
    <1>10. HistoryExpires => UNCHANGED user
        BY DEF HistoryExpires
    <1>11. QED
        BY <1>2, <1>3, <1>4, <1>5, <1>6, <1>7, <1>8, <1>9, <1>10
           DEF Next, InboundNext, ReviewNext, vars, storeVars

\* The copies of it that requests hold.
LEMMA CopiesSettled ==
    ASSUME IntakeInv, CursorInv, [Next]_vars, Growth
    PROVE  \A q \in Requests : SettledBelow(request[q].copy)'
    <1>1. user \in Document /\ SettledBelow(user) /\ MailOK
        BY DEF IntakeInv, StoreOK, CursorInv
    <1>2. Free.copy = Disconnected /\ Disconnected \in Document
        <2>1. Len(mailbox) \in Nat
            BY <1>1, LenProperties DEF MailOK
        <2>2. QED
            BY <2>1 DEF Free, Disconnected, Document, None
    <1>3. SettledBelow(Disconnected)
        BY <1>1, LenProperties DEF SettledBelow, Disconnected, None, MailOK, Messages
    <1>4. ASSUME NEW q \in Requests
          PROVE  request[q] \in Asked /\ request[q].copy \in Document
                 /\ SettledBelow(request[q].copy)
        BY DEF IntakeInv, RequestsOK, Asked, CursorInv
    <1>5. ASSUME NEW q \in Requests
          PROVE  request'[q].copy \in {request[q].copy, Disconnected, user}
        <2>1. CASE UNCHANGED request
            BY <2>1
        <2>2. ASSUME NEW u \in Requests, Answered(u)
              PROVE  request'[q].copy \in {request[q].copy, Disconnected, user}
            BY <1>2, <2>2 DEF Answered, IntakeInv, RequestsOK
        <2>3. ASSUME NEW u \in Requests, Dismiss(u)
              PROVE  request'[q].copy \in {request[q].copy, Disconnected, user}
            <3>1. CASE request' = [request EXCEPT ![u].pc = "remember"]
                BY <1>4, <3>1 DEF IntakeInv, RequestsOK, Asked
            <3>2. QED
                BY <2>2, <2>3, <3>1 DEF Dismiss
        <2>4. ASSUME NEW u \in Requests, NEW kept, Loaded(u, kept),
                     kept.copy \in {Disconnected, user}
              PROVE  request'[q].copy \in {request[q].copy, Disconnected, user}
            BY <2>4 DEF Loaded, IntakeInv, RequestsOK
        <2>5. ASSUME NEW u \in Requests, Ask(u)
              PROVE  \E kept : Loaded(u, kept) /\ kept.copy \in {Disconnected, user}
            <3>1. Free.copy = Disconnected
                BY DEF Free
            <3>2. ASSUME NEW p \in DOMAIN purchases, AskConfirm(u, p)
                  PROVE  \E kept : Loaded(u, kept) /\ kept.copy \in {Disconnected, user}
                <4>1. PICK o : Loaded(u, [Free EXCEPT !.pc = "confirm", !.p = p,
                                                      !.order = o])
                    BY <3>2 DEF AskConfirm
                <4>2. [Free EXCEPT !.pc = "confirm", !.p = p, !.order = o].copy
                         = Disconnected
                    BY DEF Free
                <4>3. QED
                    BY <4>1, <4>2
            <3>3. ASSUME NEW p \in DOMAIN purchases, AskDismiss(u, p)
                  PROVE  \E kept : Loaded(u, kept) /\ kept.copy \in {Disconnected, user}
                <4>1. [Free EXCEPT !.pc = "dismiss", !.p = p, !.copy = user].copy = user
                    BY DEF Free
                <4>2. QED
                    BY <3>3, <4>1 DEF AskDismiss
            <3>4. ASSUME NEW p \in DOMAIN purchases, AskStop(u, p)
                  PROVE  \E kept : Loaded(u, kept) /\ kept.copy \in {Disconnected, user}
                <4>1. [Free EXCEPT !.pc = "stop", !.p = p].copy = Disconnected
                    BY DEF Free
                <4>2. QED
                    BY <3>4, <4>1 DEF AskStop
            <3>5. ASSUME NEW p \in DOMAIN purchases, NEW x \in Receipts,
                         NEW o \in OrderChoice, AskReupload(u, p, x, o)
                  PROVE  \E kept : Loaded(u, kept) /\ kept.copy \in {Disconnected, user}
                <4>1. [Free EXCEPT !.pc = "reupload", !.p = p, !.receipt = x,
                                   !.order = o].copy = Disconnected
                    BY DEF Free
                <4>2. QED
                    BY <3>5, <4>1 DEF AskReupload
            <3>6. ASSUME NEW x \in Receipts, NEW l \in Lines \cup {Whole},
                         NEW o \in OrderChoice, AskCreate(u, x, l, o)
                  PROVE  \E kept : Loaded(u, kept) /\ kept.copy \in {Disconnected, user}
                <4>1. [Free EXCEPT !.pc = "create", !.receipt = x, !.line = l,
                                   !.order = o].copy = Disconnected
                    BY DEF Free
                <4>2. QED
                    BY <3>6, <4>1 DEF AskCreate
            <3>7. ASSUME AskConnect(u)
                  PROVE  \E kept : Loaded(u, kept) /\ kept.copy \in {Disconnected, user}
                <4>1. [Free EXCEPT !.pc = "connect", !.copy = user].copy = user
                    BY DEF Free
                <4>2. QED
                    BY <3>7, <4>1 DEF AskConnect
            <3>8. QED
                BY <2>5, <3>2, <3>3, <3>4, <3>5, <3>6, <3>7 DEF Ask
        <2>6. ASSUME NEW u \in Requests, RequestStep(u)
              PROVE  Answered(u) \/ Dismiss(u)
            BY <2>6 DEF RequestStep, Confirm, RememberSender, StopMonitoring,
               CreatePurchase, ReplaceReceipt, ConnectGmail
        <2>7. QED
            BY <2>1, <2>2, <2>3, <2>4, <2>5, <2>6 DEF Next, ReviewNext, vars
    <1>6. ASSUME NEW q \in Requests
          PROVE  SettledBelow(request[q].copy)'
        <2>1. PICK u \in Document : u = request'[q].copy /\ SettledBelow(u)
            BY <1>1, <1>2, <1>3, <1>4, <1>5
        <2>2. SettledBelow(u)'
            BY <1>1, <2>1, PositionKept
        <2>3. QED
            BY <2>1, <2>2 DEF SettledBelow
    <1>7. QED
        BY <1>6

-----------------------------------------------------------------------------

\* The message a batch is at depends on the batch alone.
Least(S) == CHOOSE n \in S : \A m \in S : n <= m

\* A handler that stays as it is.
LEMMA HandlerKept ==
    ASSUME IntakeInv, CursorInv, Growth, NEW g \in Handlers, handler'[g] = handler[g]
    PROVE  BatchComplete(handler[g])' /\ StoredIsSettled(g)'
    <1>1. handler[g] \in Working /\ BatchComplete(handler[g]) /\ MailOK
        BY HandlerFields DEF CursorInv, IntakeInv
    <1>2. PICK r \in Working : r = handler[g] /\ BatchComplete(r)'
        BY <1>1, BatchKept
    <1>3. BatchComplete(handler[g])'
        BY <1>2 DEF BatchComplete
    <1>4. Current(g) = Least(handler[g].todo) /\ Current(g)' = Least(handler'[g].todo)
        BY DEF Current, Least
    <1>5. StoredIsSettled(g)'
        BY <1>4 DEF StoredIsSettled, CursorInv, Growth
    <1>6. QED
        BY <1>3, <1>5

\* A handler that moves.
LEMMA HandlerMoves ==
    ASSUME IntakeInv, CursorInv, Growth, NEW h \in Handlers, NEW r,
           handler' = [handler EXCEPT ![h] = r], BatchComplete(r)',
           r.pc \in {"finalize", "rescue"} => Least(r.todo) \in Settled'
    PROVE  \A g \in Handlers : BatchComplete(handler[g])' /\ StoredIsSettled(g)'
    <1>1. ASSUME NEW g \in Handlers, g # h
          PROVE  BatchComplete(handler[g])' /\ StoredIsSettled(g)'
        BY <1>1, HandlerKept DEF IntakeInv, HandlersOK
    <1>2. handler'[h] = r
        BY DEF IntakeInv, HandlersOK
    <1>3. BatchComplete(handler[h])'
        BY <1>2 DEF BatchComplete
    <1>4. Current(h)' = Least(handler'[h].todo)
        BY DEF Current, Least
    <1>5. StoredIsSettled(h)'
        BY <1>2, <1>4 DEF StoredIsSettled
    <1>6. QED
        BY <1>1, <1>3, <1>5

\* On to the next message, when the current one is settled.
LEMMA MovesOn ==
    ASSUME IntakeInv, CursorInv, Growth, NEW h \in Handlers,
           handler[h].pc \in {"classify", "store", "finalize", "rescue"},
           UNCHANGED mailbox, Current(h) \in Settled', NextMessage(h)
    PROVE  \A g \in Handlers : BatchComplete(handler[g])' /\ StoredIsSettled(g)'
    <1> DEFINE r == Dropped(h)
    <1>1. /\ r.pc = "classify" /\ r.push = handler[h].push
          /\ r.todo = handler[h].todo \ {Current(h)}
        BY HandlerFields DEF Dropped, Working
    <1>2. \A n \in Messages : n <= handler[h].push =>
             n \in Settled' \/ n \in handler[h].todo \ {Current(h)}
        BY DEF CursorInv, BatchComplete, Growth
    <1>3. Messages' = Messages
        BY DEF Messages
    <1>4. handler' = [handler EXCEPT ![h] = r]
        BY DEF NextMessage
    <1> HIDE DEF r
    <1>5. PICK x : x = r
        OBVIOUS
    <1>6. BatchComplete(x)'
        BY <1>1, <1>2, <1>3, <1>5 DEF BatchComplete
    <1>7. QED
        BY <1>1, <1>4, <1>5, <1>6, HandlerMoves

LEMMA BatchesStep ==
    ASSUME IntakeInv, CursorInv, [Next]_vars, Growth
    PROVE  \A g \in Handlers : BatchComplete(handler[g])' /\ StoredIsSettled(g)'
    <1> DEFINE Goal == \A g \in Handlers : BatchComplete(handler[g])' /\ StoredIsSettled(g)'
    <1>1. ASSUME UNCHANGED handler
          PROVE  Goal
        BY <1>1, HandlerKept
    <1>2. ASSUME NEW h \in Handlers, handler' = [handler EXCEPT ![h] = Idle]
          PROVE  Goal
        <2>1. Idle.pc = "idle" /\ BatchComplete(Idle)'
            BY DEF Idle, BatchComplete
        <2>2. QED
            BY <1>2, <2>1, HandlerMoves
    <1>3. ASSUME NEW h \in Handlers, NEW n \in pushes, ReceivePush(h, n)
          PROVE  Goal
        <2>1. CASE UNCHANGED handler
            BY <1>1, <2>1
        <2>2. CASE handler' = [handler EXCEPT
                      ![h] = [Idle EXCEPT !.pc = "list", !.push = n, !.from = Start]]
            <3> DEFINE r == [Idle EXCEPT !.pc = "list", !.push = n, !.from = Start]
            <3>1. r.pc = "list" /\ r.from = Start
                BY DEF Idle
            <3>2. \A m \in Messages : m <= Start => m \in Settled
                BY DEF CursorInv, SettledBelow, Start
            <3>3. Messages' = Messages /\ handler' = [handler EXCEPT ![h] = r]
                BY <1>3, <2>2 DEF ReceivePush, Messages
            <3> HIDE DEF r
            <3>4. PICK x : x = r
                OBVIOUS
            <3>5. x.pc = "list" /\ BatchComplete(x)'
                BY <3>1, <3>2, <3>3, <3>4 DEF BatchComplete, Growth
            <3>6. QED
                BY <3>3, <3>4, <3>5, HandlerMoves
        <2>3. QED
            BY <1>3, <2>1, <2>2 DEF ReceivePush
    <1>4. ASSUME NEW h \in Handlers, ListHistory(h)
          PROVE  Goal
        <2> DEFINE r == [handler[h] EXCEPT !.pc = "classify", !.todo = Capped(Listed(h))]
        <2>1. /\ r.pc = "classify" /\ r.push = handler[h].push
              /\ r.todo = Capped(Listed(h))
            BY HandlerFields DEF Working
        <2>2. handler' = [handler EXCEPT ![h] = r] /\ Messages' = Messages
            BY <1>4 DEF ListHistory, Messages
        <2>3. ASSUME NEW n \in Messages
              PROVE  n \in Settled' \/ n \in Capped(Listed(h))
            <3>1. CASE n \in Listed(h)
                <4>1. n \in Capped(Listed(h)) \/ \A m \in Capped(Listed(h)) : n > m
                    BY <3>1, CapIsPrefix DEF IntakeInv
                <4>2. n \in Capped(Listed(h)) \/ n \in lost'
                    BY <1>4, <3>1, <4>1 DEF ListHistory
                <4>3. QED
                    BY <4>2 DEF Settled
            <3>2. CASE n \notin Listed(h)
                <4>1. n \in Nat /\ handler[h].from \in Nat
                    BY HandlerFields, LenProperties DEF IntakeInv, MailOK, Messages
                <4>2. n <= handler[h].from
                    BY <3>2, <4>1 DEF Listed
                <4>3. n \in Settled
                    BY <1>4, <4>2 DEF CursorInv, BatchComplete, ListHistory, At
                <4>4. QED
                    BY <4>3 DEF Growth
            <3>3. QED
                BY <3>1, <3>2
        <2> HIDE DEF r
        <2>4. PICK x : x = r
            OBVIOUS
        <2>5. BatchComplete(x)'
            BY <2>1, <2>2, <2>3, <2>4 DEF BatchComplete
        <2>6. QED
            BY <2>1, <2>2, <2>4, <2>5, HandlerMoves
    <1>5. ASSUME NEW h \in Handlers, Classify(h)
          PROVE  Goal
        <2>1. handler[h].pc = "classify" /\ UNCHANGED mailbox
            BY <1>5 DEF Classify, At
        <2>2. CASE NextMessage(h) /\ Current(h) \in Settled'
            BY <2>1, <2>2, MovesOn
        <2>3. CASE Goto(h, "store")
            <3> DEFINE r == [handler[h] EXCEPT !.pc = "store"]
            <3>1. /\ r.pc = "store" /\ r.push = handler[h].push
                  /\ r.todo = handler[h].todo
                BY HandlerFields DEF Working
            <3>2. handler' = [handler EXCEPT ![h] = r] /\ Messages' = Messages
                BY <2>1, <2>3 DEF Goto, Messages
            <3>3. \A n \in Messages : n <= handler[h].push =>
                     n \in Settled' \/ n \in handler[h].todo
                BY <2>1 DEF CursorInv, BatchComplete, Growth
            <3> HIDE DEF r
            <3>4. PICK x : x = r
                OBVIOUS
            <3>5. BatchComplete(x)'
                BY <3>1, <3>2, <3>3, <3>4 DEF BatchComplete
            <3>6. QED
                BY <3>1, <3>2, <3>4, <3>5, HandlerMoves
        <2>4. QED
            BY <1>5, <2>2, <2>3 DEF Classify, Settled
    <1>6. ASSUME NEW h \in Handlers, StoreSentinel(h)
          PROVE  Goal
        <2>1. /\ handler[h].pc = "store" /\ UNCHANGED mailbox
              /\ Current(h) \in Settled'
            BY <1>6 DEF StoreSentinel, At, Settled
        <2>2. CASE NextMessage(h)
            BY <2>1, <2>2, MovesOn
        <2>3. CASE ~NextMessage(h)
            <3>1. PICK step \in {"finalize", "rescue"} :
                      handler' = [handler EXCEPT ![h].pc = step, ![h].cur = NewId]
                BY <1>6, <2>3 DEF StoreSentinel
            <3> DEFINE r == [handler[h] EXCEPT !.pc = step, !.cur = NewId]
            <3>2. /\ r.pc = step /\ r.push = handler[h].push
                  /\ r.todo = handler[h].todo
                BY HandlerFields DEF Working
            <3>3. handler' = [handler EXCEPT ![h] = r] /\ Messages' = Messages
                BY <2>1, <3>1 DEF Messages
            <3>4. \A n \in Messages : n <= handler[h].push =>
                     n \in Settled' \/ n \in handler[h].todo
                BY <2>1 DEF CursorInv, BatchComplete, Growth
            <3>5. Least(handler[h].todo) = Current(h)
                BY DEF Current, Least
            <3> HIDE DEF r
            <3>6. PICK x : x = r
                OBVIOUS
            <3>7. BatchComplete(x)'
                BY <3>2, <3>3, <3>4, <3>6 DEF BatchComplete
            <3>8. Least(x.todo) \in Settled'
                BY <2>1, <3>2, <3>5, <3>6
            <3>9. QED
                BY <3>3, <3>6, <3>7, <3>8, HandlerMoves
        <2>4. QED
            BY <2>2, <2>3
    <1>7. ASSUME NEW h \in Handlers, Finalize(h) \/ Rescue(h)
          PROVE  Goal
        <2>1. /\ handler[h].pc \in {"finalize", "rescue"}
              /\ UNCHANGED mailbox /\ NextMessage(h)
            BY <1>7 DEF Finalize, Rescue, At
        <2>2. Current(h) \in Settled'
            BY <2>1 DEF CursorInv, StoredIsSettled, Growth
        <2>3. QED
            BY <2>1, <2>2, MovesOn
    <1>8. ASSUME NEW h \in Handlers, ListFails(h) \/ AdvanceCursor(h) \/ Crash(h)
          PROVE  handler' = [handler EXCEPT ![h] = Idle]
        BY <1>8 DEF ListFails, AdvanceCursor, Crash, Answer
    <1>9. ASSUME NEW r \in Receipts, Arrive(r)
          PROVE  UNCHANGED handler
        BY <1>9 DEF Arrive
    <1>10. HistoryExpires \/ RegisterWatch \/ Disconnect => UNCHANGED handler
        BY DEF HistoryExpires, RegisterWatch, Disconnect
    <1>11. UNCHANGED inboundVars => UNCHANGED handler
        BY DEF inboundVars
    <1>12. QED
        BY <1>1, <1>2, <1>3, <1>4, <1>5, <1>6, <1>7, <1>8, <1>9, <1>10, <1>11
           DEF Next, InboundNext, HandlerStep, vars

-----------------------------------------------------------------------------

LEMMA CursorInit == Init => CursorInv
    <1> SUFFICES ASSUME Init PROVE CursorInv
        OBVIOUS
    <1>1. mailbox = <<>> /\ Messages = {}
        BY DEF Init, InboundInit, Messages
    <1>2. Idle.pc = "idle"
        BY DEF Idle
    <1>3. \A h \in Handlers : handler[h] = Idle
        BY DEF Init, InboundInit
    <1>4. QED
        BY <1>1, <1>2, <1>3 DEF CursorInv, SettledBelow, BatchComplete, StoredIsSettled

\* Pushes in any order, repeated and next to each other, requests that die and
\* old copies of the user's document written back: the history cursor never
\* passes a message that nobody has dealt with.
THEOREM CursorIsSafe == Spec => []CursorPassesNothing
    <1>1. Init => IntakeInv /\ CursorInv
        BY IntakeInit, CursorInit
    <1>2. IntakeInv /\ CursorInv /\ [Next]_vars => (IntakeInv /\ CursorInv)'
        <2> SUFFICES ASSUME IntakeInv, CursorInv, [Next]_vars
                     PROVE  IntakeInv' /\ CursorInv'
            OBVIOUS
        <2>1. Growth
            BY GrowthStep
        <2>2. CursorInv'
            BY <2>1, UserSettled, CopiesSettled, BatchesStep DEF CursorInv
        <2>3. QED
            BY <2>2, IntakeStep
    <1>3. IntakeInv /\ CursorInv => CursorPassesNothing
        <2> SUFFICES ASSUME IntakeInv, CursorInv, NEW n \in Messages, n <= user.cursor
                     PROVE  n \in outside \cup handled \cup lost
            BY DEF CursorPassesNothing
        <2>1. n \in Nat \ {0}
            BY LenProperties DEF IntakeInv, MailOK, Messages
        <2>2. user.cursor # None
            BY <2>1 DEF None
        <2>3. QED
            BY <2>2 DEF CursorInv, SettledBelow, Settled
    <1>4. QED
        BY <1>1, <1>2, <1>3, PTL DEF Spec
=============================================================================
