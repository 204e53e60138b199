-------------------------- MODULE NotificationProofs -------------------------
(***************************************************************************)
(* Four invariants, for any writers, notices, tabs, connections and        *)
(* failures.                                                               *)
(*   MailedOnce: a call which is about to send owns its id - the event is  *)
(*     stored, nobody else is about to send it and nobody has.             *)
(*   TypeCorrect: a tab knows of nothing that is not stored.               *)
(*   PositionIsHonest: what is behind the watermark of a connection was    *)
(*     received, is excused or is on its way, in order.                    *)
(*   SurfacedOnce: a tab that surfaces an event was not done with it, is   *)
(*     from then on, and stays so; every other has the claim coming.       *)
(***************************************************************************)
EXTENDS Notifications, FiniteSetTheorems, SequenceTheorems, TLAPS

Call == [pc : {"upsert", "mail"},
         event : [notice : Notices, minute : Int, at : Int]]

Sending(w) == writer[w].pc = "mail"

IsStored(i) == \E e \in stored : Id(e) = i

MailInv ==
    /\ writer \in [Writers -> Call \cup {Free}]
    /\ mails \in [Ids -> Nat]
    /\ \A i \in Ids : mails[i] = 0 \/ (mails[i] = 1 /\ IsStored(i))
    /\ \A w \in Writers : Sending(w) =>
          /\ IsStored(Id(writer[w].event))
          /\ Id(writer[w].event) \in Ids => mails[Id(writer[w].event)] = 0
    /\ \A v, w \in Writers : Sending(v) /\ Sending(w) /\ v # w
          => Id(writer[v].event) # Id(writer[w].event)

\* Initially nothing is stored and nobody sends.
LEMMA MailInit == Init => MailInv
  BY DEF Init, WriterInit, MailInv, Sending, Free

\* Ending a call leaves what the others own.
LEMMA Ended ==
    ASSUME MailInv, NEW w \in Writers, stored \subseteq stored', UNCHANGED mails,
           writer' = [writer EXCEPT ![w] = Free]
    PROVE  MailInv'
  <1>1. \A i : IsStored(i) => IsStored(i)'
    BY DEF IsStored, Id
  <1>2. \A v \in Writers : Sending(v)' => Sending(v) /\ writer'[v] = writer[v]
    BY DEF MailInv, Sending, Free
  <1>3. QED
    BY <1>1, <1>2 DEF MailInv, Id, Free

\* A new call does not send yet.
LEMMA Began ==
    ASSUME MailInv, clock \in Int, MinuteLength \in Nat \ {0},
           NEW w \in Writers, NEW n \in Notices, BeginWrite(w, n)
    PROVE  MailInv'
  <1>1. Now(n) \in [notice : Notices, minute : Int, at : Int]
    BY DEF Now
  <1>2. writer' \in [Writers -> Call \cup {Free}] /\ stored' = stored /\ mails' = mails
    BY <1>1 DEF BeginWrite, MailInv, Call
  <1>3. \A v \in Writers : Sending(v)' => Sending(v) /\ writer'[v] = writer[v]
    BY DEF MailInv, Sending, BeginWrite
  <1>4. QED
    BY <1>2, <1>3 DEF MailInv, IsStored, Id

\* Only the upsert that inserts an event goes on to send it.
LEMMA Upserted ==
    ASSUME MailInv, NEW w \in Writers, Upsert(w)
    PROVE  MailInv'
  <1> DEFINE e == writer[w].event
  <1>1. stored \subseteq stored' /\ UNCHANGED mails
    BY DEF Upsert, Inserted
  <1>2. CASE writer' = [writer EXCEPT ![w] = Free]
    BY <1>1, <1>2, Ended
  <1>3. CASE writer' # [writer EXCEPT ![w] = Free]
    <2>1. /\ IsNew(e) /\ stored' = stored \cup {e}
          /\ writer' = [writer EXCEPT ![w] = [writer[w] EXCEPT !.pc = "mail"]]
      BY <1>3 DEF Upsert, Sends, Inserted
    <2>2. writer[w] \in Call
      BY DEF Upsert, MailInv, Free
    <2>3. writer' \in [Writers -> Call \cup {Free}] /\ writer'[w].event = e
      BY <2>1, <2>2 DEF MailInv, Call
    <2>4. ~IsStored(Id(e)) /\ IsStored(Id(e))'
      BY <2>1 DEF IsNew, IsStored, Id
    <2>5. \A i : IsStored(i) => IsStored(i)'
      BY <2>1 DEF IsStored, Id
    <2>6. \A v \in Writers : v # w => writer'[v] = writer[v]
      BY <2>1 DEF MailInv
    <2>7. \A v \in Writers : v # w /\ Sending(v) => Id(writer[v].event) # Id(e)
      BY <2>4 DEF MailInv
    <2>8. Id(writer'[w].event) = Id(e)
      BY <2>3
    <2>9. \A i \in Ids : mails'[i] = 0 \/ (mails'[i] = 1 /\ IsStored(i)')
      BY <1>1, <2>5 DEF MailInv
    <2>10. \A v \in Writers : Sending(v)' =>
              /\ \E f \in stored' : Id(f) = Id(writer'[v].event)
              /\ Id(writer'[v].event) \in Ids => mails'[Id(writer'[v].event)] = 0
      <3> SUFFICES ASSUME NEW v \in Writers, Sending(v)'
                   PROVE  /\ \E f \in stored' : Id(f) = Id(writer'[v].event)
                          /\ Id(writer'[v].event) \in Ids
                                => mails'[Id(writer'[v].event)] = 0
        OBVIOUS
      <3>1. CASE v = w
        <4>1. \E f \in stored' : Id(f) = Id(e)
          BY <2>1
        <4>2. Id(e) \in Ids => mails[Id(e)] = 0
          BY <2>4 DEF MailInv
        <4>3. QED
          BY <3>1, <4>1, <4>2, <1>1, <2>8
      <3>2. CASE v # w
        <4>1. Sending(v) /\ writer'[v] = writer[v]
          BY <3>2, <2>6 DEF Sending
        <4>2. \E f \in stored : Id(f) = Id(writer[v].event)
          BY <4>1 DEF MailInv, IsStored
        <4>3. QED
          BY <4>1, <4>2, <1>1 DEF MailInv
      <3>3. QED
        BY <3>1, <3>2
    <2>11. \A u, v \in Writers : Sending(u)' /\ Sending(v)' /\ u # v
              => Id(writer'[u].event) # Id(writer'[v].event)
      BY <2>6, <2>7, <2>8 DEF MailInv, Sending
    <2>12. QED
      BY <2>3, <1>1, <2>9, <2>10, <2>11 DEF MailInv, IsStored, Id, Sending
  <1>4. QED
    BY <1>2, <1>3

\* Sending uses the ownership up.
LEMMA Mailed ==
    ASSUME MailInv, NEW w \in Writers, SendMail(w)
    PROVE  MailInv'
  <1> DEFINE i == Id(writer[w].event)
  <1>1. /\ Sending(w) /\ IsStored(i) /\ stored' = stored
        /\ writer' = [writer EXCEPT ![w] = Free]
    BY DEF SendMail, MailInv, Sending
  <1>2. CASE mails' = mails
    BY <1>1, <1>2, Ended
  <1>3. CASE mails' = [mails EXCEPT ![i] = @ + 1]
    <2>1. \A v \in Writers : Sending(v)' =>
             v # w /\ Sending(v) /\ writer'[v] = writer[v] /\ Id(writer[v].event) # i
      BY <1>1 DEF MailInv, Sending, Free
    <2>2. i \in Ids => mails[i] = 0
      BY <1>1 DEF MailInv
    <2>3. mails' \in [Ids -> Nat] /\ writer' \in [Writers -> Call \cup {Free}]
      <3>1. mails \in [Ids -> Nat] /\ writer \in [Writers -> Call \cup {Free}]
        BY DEF MailInv
      <3>2. mails' \in [Ids -> Nat]
        <4> HIDE DEF i
        <4>1. \A j \in Ids : [mails EXCEPT ![i] = @ + 1][j] \in Nat
          BY <3>1, <2>2
        <4>2. QED
          BY <1>3, <3>1, <4>1
      <3>3. QED
        BY <1>1, <3>1, <3>2
    <2>4. \A j \in Ids : mails'[j] = IF j = i THEN 1 ELSE mails[j]
      BY <1>3, <2>2 DEF MailInv
    <2>5. \A j : IsStored(j)' = IsStored(j)
      BY <1>1 DEF IsStored, Id
    <2>6. \A j \in Ids : mails'[j] = 0 \/ (mails'[j] = 1 /\ IsStored(j)')
      BY <1>1, <2>4, <2>5 DEF MailInv
    <2>7. QED
      BY <2>1, <2>3, <2>4, <2>5, <2>6 DEF MailInv, Id
  <1>4. QED
    BY <1>2, <1>3 DEF SendMail

\* The streams leave the writers alone.
LEMMA StreamLeaves ==
    ASSUME StreamNext PROVE UNCHANGED <<clock, stored, writer, mails>>
  <1>1. ASSUME NEW t \in Tabs, NEW c \in Conns, Connect(t, c)
        PROVE  UNCHANGED <<clock, stored, writer, mails>>
    BY <1>1 DEF Connect, writerVars
  <1>2. ASSUME NEW t \in Tabs, NEW c \in Conns, OpenStream(t, c)
        PROVE  UNCHANGED <<clock, stored, writer, mails>>
    BY <1>2 DEF OpenStream, writerVars
  <1>3. ASSUME NEW t \in Tabs, NEW c \in Conns, Poll(t, c)
        PROVE  UNCHANGED <<clock, stored, writer, mails>>
    BY <1>3 DEF Poll
  <1>4. ASSUME NEW t \in Tabs, NEW c \in Conns, Receive(t, c)
        PROVE  UNCHANGED <<clock, stored, writer, mails>>
    BY <1>4 DEF Receive, writerVars
  <1>5. ASSUME NEW t \in Tabs, NEW c \in Conns, StreamBreaks(t, c) \/ PollFails(t, c)
        PROVE  UNCHANGED <<clock, stored, writer, mails>>
    BY <1>5 DEF StreamBreaks, PollFails
  <1>6. ASSUME NEW t \in Tabs, NEW e \in Events, HearClaim(t, e)
        PROVE  UNCHANGED <<clock, stored, writer, mails>>
    BY <1>6 DEF HearClaim, writerVars
  <1>7. ASSUME NEW t \in Tabs, ReconnectTimer(t) \/ TokenFails(t)
        PROVE  UNCHANGED <<clock, stored, writer, mails>>
    BY <1>7 DEF ReconnectTimer, TokenFails, writerVars
  <1>8. ASSUME NEW t \in Tabs, Online(t) \/ Reload(t)
        PROVE  UNCHANGED <<clock, stored, writer, mails>>
    BY <1>8 DEF Online, Reload
  <1>9. QED
    BY <1>1, <1>2, <1>3, <1>4, <1>5, <1>6, <1>7, <1>8 DEF StreamNext, TabStep, ConnStep

\* Every step keeps the invariant.
LEMMA MailStep ==
    ASSUME MailInv, clock \in Int, MinuteLength \in Nat \ {0}, [Next]_vars
    PROVE  MailInv'
  <1>1. ASSUME UNCHANGED <<stored, writer, mails>> PROVE MailInv'
    BY <1>1 DEF MailInv, Sending, IsStored, Id
  <1>2. CASE WriteEvent
    <2>1. ASSUME NEW w \in Writers, NEW n \in Notices, BeginWrite(w, n) PROVE MailInv'
      BY <2>1, Began
    <2>2. ASSUME NEW w \in Writers, Upsert(w) PROVE MailInv'
      BY <2>2, Upserted
    <2>3. ASSUME NEW w \in Writers, SendMail(w) PROVE MailInv'
      BY <2>3, Mailed
    <2>4. ASSUME NEW w \in Writers, CrashWriter(w) PROVE MailInv'
      BY <2>4, Ended DEF CrashWriter
    <2>5. ASSUME Tick PROVE MailInv'
      BY <2>5, <1>1 DEF Tick
    <2>6. QED
      BY <1>2, <2>1, <2>2, <2>3, <2>4, <2>5 DEF WriteEvent, WriterNext
  <1>3. CASE StreamNext
    BY <1>1, <1>3, StreamLeaves
  <1>4. CASE UNCHANGED vars
    BY <1>1, <1>4 DEF vars, writerVars
  <1>5. QED
    BY <1>2, <1>3, <1>4 DEF Next

\* Every step leaves the clock a number.
LEMMA ClockStep == ASSUME clock \in Int, [Next]_vars PROVE clock' \in Int
  <1>1. CASE WriteEvent
    BY <1>1 DEF WriteEvent, WriterNext, BeginWrite, Upsert, SendMail, CrashWriter, Tick
  <1>2. CASE StreamNext
    BY <1>2, StreamLeaves
  <1>3. CASE UNCHANGED vars
    BY <1>3 DEF vars, writerVars
  <1>4. QED
    BY <1>1, <1>2, <1>3 DEF Next

\* However often a message is redelivered and whichever services handle it at the
\* same time, a notice is e-mailed at most once a minute.
THEOREM MailedOnce == Spec => []MailedOncePerMinute
  <1>1. Init => MailInv /\ clock \in Int
    BY MailInit DEF Init, WriterInit
  <1>2. (MailInv /\ clock \in Int) /\ [Next]_vars => (MailInv /\ clock \in Int)'
    BY MailStep, ClockStep, WriterAssumption
  <1>3. MailInv => MailedOncePerMinute
    BY DEF MailInv, MailedOncePerMinute
  <1>4. QED
    BY <1>1, <1>2, <1>3, PTL DEF Spec

-----------------------------------------------------------------------------
(* The order of events *)

\* A watermark left at an event has what comes after the event ahead of it, and
\* what is past a watermark comes after what is not.
LEMMA Order ==
    /\ \A e \in Events : ~Earlier(e, e) /\ Mark(e) \in Marks /\ Newer(e, NoMark)
    /\ \A e, f \in Events : Newer(f, Mark(e)) <=> Earlier(e, f)
    /\ \A e, f, g \in Events : Earlier(e, f) /\ Earlier(f, g) => Earlier(e, g)
    /\ \A e, f \in Events, m \in Marks \cup {NoMark} :
          ~Newer(e, m) /\ Newer(f, m) => Earlier(e, f)
    /\ \A e, f \in Events, m \in Marks \cup {NoMark} :
          ~Newer(f, m) /\ Earlier(e, f) => ~Newer(e, m)
  <1>1. MaxClock \in Nat /\ Notices \subseteq Nat /\ None = -1
    BY WriterAssumption DEF None
  <1>2. \A e \in Events : e.at \in Nat /\ e.notice \in Nat /\ e.notice \in Notices
                       /\ e.at \in 0..MaxClock
    <2> TAKE e \in Events
    <2>1. e.notice \in Notices /\ e.at \in 0..MaxClock
      BY DEF Events
    <2>2. e.at \in Nat
      BY <1>1, <2>1
    <2>3. e.notice \in Nat
      BY <1>1, <2>1
    <2>4. QED
      BY <2>1, <2>2, <2>3
  <1>3. \A m \in Marks \cup {NoMark} : m.at \in Int /\ m.id \in Int
    <2> TAKE m \in Marks \cup {NoMark}
    <2>1. CASE m \in Marks
      <3>1. m.at \in 0..MaxClock /\ (m.id \in Notices \/ m.id = None)
        BY <2>1 DEF Marks
      <3>2. m.at \in Int
        BY <1>1, <3>1
      <3>3. \A n \in Notices : n \in Int
        BY <1>1
      <3>4. m.id = None => m.id \in Int
        BY <1>1
      <3>5. QED
        BY <3>1, <3>2, <3>3, <3>4, Zenon
    <2>2. CASE m = NoMark
      BY <1>1, <2>2 DEF NoMark
    <2>3. QED
      BY <2>1, <2>2
  <1>4. \A e \in Events : Mark(e) \in Marks /\ Mark(e).at = e.at /\ Mark(e).id = e.notice
    BY <1>2 DEF Mark, Marks
  <1>5. \A e \in Events : ~Earlier(e, e) /\ Newer(e, NoMark)
    BY <1>1, <1>2 DEF Earlier, Newer, NoMark
  <1>6. \A e, f \in Events : Newer(f, Mark(e)) <=> Earlier(e, f)
    BY <1>1, <1>2, <1>4 DEF Earlier, Newer
  <1>7. \A e, f, g \in Events : Earlier(e, f) /\ Earlier(f, g) => Earlier(e, g)
    BY <1>2 DEF Earlier
  <1>8. \A e, f \in Events, m \in Marks \cup {NoMark} :
          ~Newer(e, m) /\ Newer(f, m) => Earlier(e, f)
    BY <1>1, <1>2, <1>3 DEF Earlier, Newer
  <1>9. \A e, f \in Events, m \in Marks \cup {NoMark} :
          ~Newer(f, m) /\ Earlier(e, f) => ~Newer(e, m)
    BY <1>1, <1>2, <1>3 DEF Earlier, Newer
  <1>10. QED
    BY <1>4, <1>5, <1>6, <1>7, <1>8, <1>9

InOrder(s) == \A i, j \in DOMAIN s : i < j => Earlier(s[i], s[j])

\* Sorting a finite set loses and repeats nothing.
LEMMA SortedIs ==
    ASSUME NEW S, IsFiniteSet(S), NEW s \in Sorted(S)
    PROVE  s \in Seq(S) /\ ToSet(s) = S /\ InOrder(s)
  <1> DEFINE n == Cardinality(S)
  <1>1. n \in Nat /\ IsFiniteSet(1..n) /\ Cardinality(1..n) = n
    BY FS_CardinalityType, FS_Interval
  <1>2. s \in [1..n -> S] /\ \A i, j \in 1..n : i # j => s[i] # s[j]
    BY DEF Sorted, SetToSeqs
  <1>3. s \in Injection(1..n, S)
    BY <1>2 DEF Injection, IsInjective
  <1>4. s \in Surjection(1..n, S)
    BY <1>1, <1>3, FS_Injection
  <1>5. \A x \in S : \E i \in 1..n : s[i] = x
    BY <1>4 DEF Surjection
  <1>6. s \in Seq(S) /\ DOMAIN s = 1..n
    BY <1>1, <1>2
  <1>7. ToSet(s) = S
    BY <1>2, <1>5, <1>6 DEF ToSet
  <1>8. QED
    BY <1>6, <1>7 DEF Sorted, InOrder

\* A batch holds events past the watermark, in order, and all of those up to its
\* last.
LEMMA FetchedIs ==
    ASSUME stored \subseteq Events, IsFiniteSet(stored), NEW m \in Marks,
           NEW docs \in Fetched(m), docs # <<>>
    PROVE  /\ docs \in Seq(stored) /\ InOrder(docs)
           /\ Len(docs) \in Nat \ {0} /\ Last(docs) \in ToSet(docs)
           /\ ToSet(docs) \subseteq stored /\ IsFiniteSet(ToSet(docs))
           /\ \A e \in ToSet(docs) : Newer(e, m) /\ ~Newer(e, Mark(Last(docs)))
           /\ \A e \in stored : Newer(e, m) /\ ~Newer(e, Mark(Last(docs)))
                                 => e \in ToSet(docs)
  <1> DEFINE past == {e \in stored : Newer(e, m)}
  <1>1. PICK s \in Sorted(past) :
           docs = SubSeq(s, 1, IF Len(s) < Batch THEN Len(s) ELSE Batch)
    BY DEF Fetched
  <1> DEFINE k == IF Len(s) < Batch THEN Len(s) ELSE Batch
  <1>2. IsFiniteSet(past)
    BY FS_Subset
  <1>3. s \in Seq(past) /\ ToSet(s) = past /\ InOrder(s)
    BY <1>2, SortedIs
  <1>4. Len(s) \in Nat /\ DOMAIN s = 1..Len(s) /\ k \in 0..Len(s)
        /\ \A i \in 1..Len(s) : s[i] \in past
    BY <1>3, StreamAssumption
  <1>5. /\ docs \in Seq(past) /\ Len(docs) = k /\ DOMAIN docs = 1..k
        /\ \A i \in 1..k : docs[i] = s[i]
    <2> HIDE DEF k, past
    <2>1. \A i \in 1..k : s[i] \in past
      BY <1>4
    <2>2. /\ SubSeq(s, 1, k) \in Seq(past)
          /\ Len(SubSeq(s, 1, k)) = IF 1 <= k THEN k - 1 + 1 ELSE 0
          /\ \A i \in 1..(k - 1 + 1) : SubSeq(s, 1, k)[i] = s[1 + i - 1]
      BY <1>4, <2>1, SubSeqProperties
    <2>3. docs = SubSeq(s, 1, k)
      BY <1>1 DEF k
    <2>4. QED
      BY <1>4, <2>2, <2>3
  <1>6. k \in 1..Len(s)
    BY <1>4, <1>5, EmptySeq
  <1> HIDE DEF k
  <1>7. Last(docs) = s[k] /\ Last(docs) \in ToSet(docs)
    BY <1>5, <1>6 DEF Last, ToSet
  <1>8. InOrder(docs)
    BY <1>3, <1>4, <1>5, <1>6 DEF InOrder
  <1>9. ASSUME NEW e \in ToSet(docs) PROVE Newer(e, m) /\ ~Newer(e, Mark(Last(docs)))
    <2>1. PICK i \in 1..k : e = s[i]
      BY <1>5 DEF ToSet
    <2>2. e \in past /\ e \in Events /\ s[k] \in Events
      BY <1>4, <1>6, <2>1
    <2>3. i = k \/ Earlier(e, s[k])
      BY <1>3, <1>4, <1>6, <2>1 DEF InOrder
    <2>4. ~Earlier(s[k], e)
      BY <2>1, <2>2, <2>3, Order
    <2>5. QED
      BY <1>7, <2>2, <2>4, Order
  <1>10. ASSUME NEW e \in stored, Newer(e, m), ~Newer(e, Mark(Last(docs)))
         PROVE  e \in ToSet(docs)
    <2>1. PICK i \in 1..Len(s) : e = s[i]
      BY <1>3, <1>4, <1>10 DEF ToSet
    <2>2. s[k] \in Events
      BY <1>4, <1>6
    <2>3. i <= k
      BY <1>3, <1>4, <1>6, <1>7, <1>10, <2>1, <2>2, Order DEF InOrder
    <2>4. QED
      BY <1>4, <1>5, <1>6, <2>1, <2>3 DEF ToSet
  <1>11. ToSet(docs) \subseteq stored
    BY <1>5 DEF ToSet
  <1>12. QED
    BY <1>5, <1>6, <1>7, <1>8, <1>9, <1>10, <1>11, FS_Subset

-----------------------------------------------------------------------------
(* Types *)

Dated(e) == e.minute = e.at \div MinuteLength /\ e.at <= clock

Pending == [pc : {"upsert", "mail"}, event : Events]

\* Events are stored once, and none is from the future.
StoreInv ==
    /\ clock \in 0..MaxClock
    /\ stored \subseteq Events /\ IsFiniteSet(stored)
    /\ \A e \in stored : Dated(e)
    /\ \A e, f \in stored : Id(e) = Id(f) => e = f
    /\ writer \in [Writers -> Pending \cup {Free}]
    /\ \A w \in Writers : writer[w] # Free => Dated(writer[w].event)
    /\ mails \in [Ids -> Nat]
    /\ writes \in 0..MaxWrites
    /\ faults \in 0..MaxFaults

Tab == [last : Marks \cup {NoMark}, seen : SUBSET Events, claimed : SUBSET Events,
        current : Conns \cup {None}, connecting : Nat, timers : Nat]

Opening == [state : {"opening"}, url : Marks \cup {NoMark}]

Open == [state : {"open"}, start : Marks, mark : Marks, resumed : BOOLEAN,
         queue : Seq(Events)]

Connection == Opening \cup Open \cup {Closed}

\* Whatever a tab has heard of is stored.
StreamInv ==
    /\ tab \in [Tabs -> Tab]
    /\ conn \in [Tabs -> [Conns -> Connection]]
    /\ \A t \in Tabs : tab[t].seen \cup tab[t].claimed \subseteq stored
    /\ \A t \in Tabs, c \in Conns : IsOpen(t, c) => ToSet(conn[t][c].queue) \subseteq stored
    /\ bus \subseteq Tabs \X stored
    /\ shown \in [Events -> Nat]
    /\ raced \subseteq stored
    /\ missed \in [Tabs -> SUBSET Events]

TypeInv == StoreInv /\ StreamInv

LEMMA Constants ==
    /\ MaxClock \in Nat /\ MaxWrites \in Nat /\ MaxFaults \in Nat
    /\ MinuteLength \in Nat /\ MinuteLength > 0
  BY WriterAssumption

\* Of two clock readings the later one is not in an earlier minute.
LEMMA MinuteOfClock ==
    ASSUME NEW n \in 0..MaxClock
    PROVE  n \div MinuteLength \in Minutes
  <1> DEFINE q == n \div MinuteLength
             r == MaxClock \div MinuteLength
  <1>1. /\ q \in Int /\ MinuteLength * q <= n /\ n < MinuteLength * (q + 1)
        /\ r \in Int /\ MinuteLength * r <= MaxClock /\ MaxClock < MinuteLength * (r + 1)
    BY Constants
  <1>2. q >= 0
    BY <1>1, Constants
  <1>3. q <= r
    <2> HIDE DEF q, r
    <2>1. SUFFICES ASSUME q > r PROVE FALSE
      BY <1>1
    <2>2. q >= r + 1
      BY <1>1, <2>1
    <2>3. MinuteLength * q >= MinuteLength * (r + 1)
      BY <1>1, <2>2, Constants
    <2>4. QED
      BY <1>1, <2>3, Constants
  <1>4. QED
    BY <1>1, <1>2, <1>3 DEF Minutes

LEMMA NowIs ==
    ASSUME StoreInv, NEW n \in Notices
    PROVE  Now(n) \in Events /\ Dated(Now(n))
  <1>1. clock \div MinuteLength \in Minutes
    BY MinuteOfClock DEF StoreInv
  <1>2. Now(n) \in Events
    BY <1>1 DEF Now, Events, StoreInv
  <1>3. QED
    BY <1>2, Constants DEF Now, Dated, StoreInv

LEMMA InsertedIs ==
    ASSUME StoreInv, NEW e \in Events, Dated(e), Inserted(e)
    PROVE  /\ stored \subseteq stored' /\ stored' \subseteq Events /\ IsFiniteSet(stored')
           /\ \A f \in stored' : Dated(f)
           /\ \A f, g \in stored' : Id(f) = Id(g) => f = g
  <1>1. IsFiniteSet(stored \cup {e})
    BY FS_AddElement DEF StoreInv
  <1>2. QED
    BY <1>1 DEF Inserted, IsNew, StoreInv

\* A writer's step keeps what is stored, and the types.
LEMMA StoreStep ==
    ASSUME StoreInv, WriterNext
    PROVE  StoreInv' /\ stored \subseteq stored'
  <1>1. ASSUME NEW w \in Writers, NEW n \in Notices, BeginWrite(w, n)
        PROVE  StoreInv' /\ stored \subseteq stored'
    <2>1. [pc |-> "upsert", event |-> Now(n)] \in Pending /\ Dated(Now(n))
      BY NowIs DEF Pending
    <2>2. writer' \in [Writers -> Pending \cup {Free}]
      BY <1>1, <2>1 DEF BeginWrite, StoreInv
    <2>3. \A v \in Writers : writer'[v] # Free => Dated(writer'[v].event)
      BY <1>1, <2>1 DEF BeginWrite, StoreInv
    <2>4. writes' \in 0..MaxWrites
      BY <1>1, Constants DEF BeginWrite, StoreInv
    <2>5. QED
      BY <1>1, <2>2, <2>3, <2>4 DEF BeginWrite, StoreInv, Dated, Id
  <1>2. ASSUME NEW w \in Writers, Upsert(w)
        PROVE  StoreInv' /\ stored \subseteq stored'
    <2> DEFINE e == writer[w].event
    <2>1. writer[w] \in Pending /\ e \in Events /\ Dated(e)
      BY <1>2 DEF Upsert, StoreInv, Pending, Free
    <2>2. [writer[w] EXCEPT !.pc = "mail"] \in Pending
          /\ [writer[w] EXCEPT !.pc = "mail"].event = e
      BY <2>1 DEF Pending
    <2>3. writer' \in [Writers -> Pending \cup {Free}]
          /\ \A v \in Writers : writer'[v] # Free => Dated(writer'[v].event)
      <3>1. \/ writer' = [writer EXCEPT ![w] = [writer[w] EXCEPT !.pc = "mail"]]
            \/ writer' = [writer EXCEPT ![w] = Free]
        BY <1>2 DEF Upsert
      <3>2. QED
        BY <2>1, <2>2, <3>1 DEF StoreInv
    <2>4. Inserted(e) \/ stored' = stored
      BY <1>2 DEF Upsert
    <2>5. /\ stored \subseteq stored' /\ stored' \subseteq Events /\ IsFiniteSet(stored')
          /\ \A f \in stored' : Dated(f)
          /\ \A f, g \in stored' : Id(f) = Id(g) => f = g
      BY <2>1, <2>4, InsertedIs DEF StoreInv
    <2>6. faults' \in 0..MaxFaults
      BY <1>2, Constants DEF Upsert, Fault, StoreInv
    <2>7. QED
      BY <1>2, <2>3, <2>5, <2>6 DEF Upsert, StoreInv, Dated, Id
  <1>3. ASSUME NEW w \in Writers, SendMail(w)
        PROVE  StoreInv' /\ stored \subseteq stored'
    <2> DEFINE i == Id(writer[w].event)
    <2>1. i \in Ids
      BY <1>3 DEF SendMail, StoreInv, Pending, Free, Events, Ids, Id
    <2>2. mails' \in [Ids -> Nat]
      <3> HIDE DEF i
      <3>1. mails' = mails \/ mails' = [mails EXCEPT ![i] = @ + 1]
        BY <1>3 DEF SendMail, i
      <3>2. mails \in [Ids -> Nat] /\ mails[i] + 1 \in Nat
        BY <2>1 DEF StoreInv
      <3>3. QED
        BY <2>1, <3>1, <3>2
    <2>3. writer' = [writer EXCEPT ![w] = Free]
      BY <1>3 DEF SendMail
    <2>4. writer' \in [Writers -> Pending \cup {Free}]
          /\ \A v \in Writers : writer'[v] # Free => Dated(writer'[v].event)
      BY <2>3 DEF StoreInv
    <2>5. faults' \in 0..MaxFaults
      BY <1>3, Constants DEF SendMail, Fault, StoreInv
    <2>6. QED
      BY <1>3, <2>2, <2>4, <2>5 DEF SendMail, StoreInv, Dated, Id
  <1>4. ASSUME NEW w \in Writers, CrashWriter(w)
        PROVE  StoreInv' /\ stored \subseteq stored'
    <2>1. writer' \in [Writers -> Pending \cup {Free}]
          /\ \A v \in Writers : writer'[v] # Free => Dated(writer'[v].event)
      BY <1>4 DEF CrashWriter, StoreInv
    <2>2. faults' \in 0..MaxFaults
      BY <1>4, Constants DEF CrashWriter, Fault, StoreInv
    <2>3. QED
      BY <1>4, <2>1, <2>2 DEF CrashWriter, StoreInv, Dated, Id
  <1>5. ASSUME Tick PROVE StoreInv' /\ stored \subseteq stored'
    <2>1. clock' \in 0..MaxClock /\ \A e \in Events : Dated(e) => Dated(e)'
      BY <1>5, Constants DEF Tick, StoreInv, Dated, Events
    <2>2. \A w \in Writers : writer[w] # Free => writer[w].event \in Events
      BY DEF StoreInv, Pending
    <2>3. \A e \in stored' : Dated(e)'
      BY <1>5, <2>1 DEF Tick, StoreInv
    <2>4. (\A w \in Writers : writer[w] # Free => Dated(writer[w].event))'
      BY <1>5, <2>1, <2>2 DEF Tick, StoreInv
    <2>5. QED
      BY <1>5, <2>1, <2>3, <2>4 DEF Tick, StoreInv, Id
  <1>6. QED
    BY <1>1, <1>2, <1>3, <1>4, <1>5 DEF WriterNext

-----------------------------------------------------------------------------
(* What the steps of a tab do *)

\* A step that at most closes connections, and moves no position.
Quiet ==
    /\ tab' \in [Tabs -> Tab]
    /\ \A t \in Tabs : /\ tab'[t].last = tab[t].last
                       /\ tab'[t].seen = tab[t].seen
                       /\ tab'[t].claimed = tab[t].claimed
    /\ conn' \in [Tabs -> [Conns -> Connection]]
    /\ \A t \in Tabs, c \in Conns : conn'[t][c] = conn[t][c] \/ conn'[t][c] = Closed
    /\ UNCHANGED <<bus, shown, raced, missed>>

\* The fields of a tab and of a connection.
LEMMA TabFields ==
    ASSUME StreamInv, NEW t \in Tabs
    PROVE  /\ tab[t] \in Tab
           /\ tab[t].last \in Marks \cup {NoMark}
           /\ tab[t].seen \subseteq Events /\ tab[t].claimed \subseteq Events
           /\ tab[t].current \in Conns \cup {None}
           /\ tab[t].connecting \in Nat /\ tab[t].timers \in Nat
  BY DEF StreamInv, Tab

LEMMA ConnFields ==
    ASSUME StreamInv, NEW t \in Tabs, NEW c \in Conns
    PROVE  /\ conn[t] \in [Conns -> Connection] /\ conn[t][c] \in Connection
           /\ IsOpen(t, c) => conn[t][c] \in Open
           /\ conn[t][c].state = "opening" => conn[t][c] \in Opening
  BY DEF StreamInv, Connection, Open, Opening, Closed, IsOpen

LEMMA ClosedIs == Closed \in Connection /\ Closed.state = "closed"
  BY DEF Connection, Closed

\* Failures, breaks and timers are quiet.
LEMMA QuietSteps ==
    ASSUME StreamInv, NEW t \in Tabs,
           \/ ReconnectTimer(t) \/ TokenFails(t) \/ Online(t)
           \/ \E c \in Conns : StreamBreaks(t, c) \/ PollFails(t, c)
    PROVE  Quiet
  <1> DEFINE Counted(x) == /\ x \in Tab /\ x.last = tab[t].last
                           /\ x.seen = tab[t].seen /\ x.claimed = tab[t].claimed
  <1>1. ASSUME NEW x, Counted(x), tab' = [tab EXCEPT ![t] = x]
        PROVE  /\ tab' \in [Tabs -> Tab]
               /\ \A u \in Tabs : /\ tab'[u].last = tab[u].last
                                  /\ tab'[u].seen = tab[u].seen
                                  /\ tab'[u].claimed = tab[u].claimed
    BY <1>1 DEF StreamInv
  <1>2. ASSUME NEW k \in Nat, NEW n \in Nat, NEW r \in Conns \cup {None}
        PROVE  /\ Counted([tab[t] EXCEPT !.timers = k, !.connecting = n])
               /\ Counted([tab[t] EXCEPT !.connecting = n, !.timers = k])
               /\ Counted([tab[t] EXCEPT !.current = r, !.timers = k])
               /\ Counted([tab[t] EXCEPT !.timers = k, !.current = r, !.connecting = n])
    BY TabFields DEF Tab
  <1> HIDE DEF Counted
  <1>3. CASE ReconnectTimer(t)
    <2>1. tab' = [tab EXCEPT ![t] = [tab[t] EXCEPT !.timers = tab[t].timers - 1,
                                                   !.connecting = tab[t].connecting + 1]]
      BY <1>3 DEF ReconnectTimer
    <2>2. tab[t].timers - 1 \in Nat /\ tab[t].connecting + 1 \in Nat
      BY <1>3, TabFields DEF ReconnectTimer
    <2>3. QED
      BY <1>1, <1>2, <1>3, <2>1, <2>2 DEF ReconnectTimer, Quiet, StreamInv
  <1>4. CASE TokenFails(t)
    <2>1. tab' = [tab EXCEPT ![t] = [tab[t] EXCEPT !.connecting = tab[t].connecting - 1,
                                                   !.timers = tab[t].timers + 1]]
      BY <1>4 DEF TokenFails
    <2>2. tab[t].connecting - 1 \in Nat /\ tab[t].timers + 1 \in Nat
      BY <1>4, TabFields DEF TokenFails
    <2>3. QED
      BY <1>1, <1>2, <1>4, <2>1, <2>2 DEF TokenFails, Quiet, StreamInv
  <1>5. CASE Online(t)
    <2> DEFINE k == IF tab[t].timers > 0 THEN tab[t].timers - 1 ELSE 0
    <2>1. tab' = [tab EXCEPT ![t] = [tab[t] EXCEPT !.timers = k, !.current = None,
                                                   !.connecting = tab[t].connecting + 1]]
      BY <1>5 DEF Online
    <2>2. k \in Nat /\ tab[t].connecting + 1 \in Nat
      BY TabFields
    <2> HIDE DEF k
    <2>3. /\ tab' \in [Tabs -> Tab]
          /\ \A u \in Tabs : /\ tab'[u].last = tab[u].last
                             /\ tab'[u].seen = tab[u].seen
                             /\ tab'[u].claimed = tab[u].claimed
      BY <1>1, <1>2, <2>1, <2>2
    <2>4. conn' = [conn EXCEPT ![t] = [d \in Conns |->
                      IF d = tab[t].current THEN Closed ELSE conn[t][d]]]
      BY <1>5 DEF Online
    <2>5. [d \in Conns |-> IF d = tab[t].current THEN Closed ELSE conn[t][d]]
             \in [Conns -> Connection]
      BY ConnFields, ClosedIs
    <2>6. conn' \in [Tabs -> [Conns -> Connection]]
      BY <2>4, <2>5 DEF StreamInv
    <2>7. \A u \in Tabs, d \in Conns : conn'[u][d] = conn[u][d] \/ conn'[u][d] = Closed
      BY <2>4 DEF StreamInv
    <2>8. QED
      BY <1>5, <2>3, <2>6, <2>7 DEF Online, Quiet
  <1>6. ASSUME NEW c \in Conns, StreamBreaks(t, c) \/ PollFails(t, c) PROVE Quiet
    <2>1. /\ tab' = [tab EXCEPT ![t] = [tab[t] EXCEPT !.current = None,
                                                      !.timers = tab[t].timers + 1]]
          /\ conn' = [conn EXCEPT ![t] = [conn[t] EXCEPT ![c] = Closed]]
          /\ UNCHANGED <<bus, shown, raced, missed>>
      BY <1>6 DEF StreamBreaks, PollFails, Errored
    <2>2. tab[t].timers + 1 \in Nat
      BY TabFields
    <2>3. [conn[t] EXCEPT ![c] = Closed] \in [Conns -> Connection]
      BY ConnFields, ClosedIs
    <2>4. conn' \in [Tabs -> [Conns -> Connection]]
      BY <2>1, <2>3 DEF StreamInv
    <2>5. \A u \in Tabs, d \in Conns : conn'[u][d] = conn[u][d] \/ conn'[u][d] = Closed
      BY <2>1, ConnFields DEF StreamInv
    <2>6. QED
      BY <1>1, <1>2, <2>1, <2>2, <2>4, <2>5 DEF Quiet
  <1>7. QED
    BY <1>3, <1>4, <1>5, <1>6

\* A connection is replaced, and the others stay.
LEMMA ConnReplaced ==
    ASSUME StreamInv, NEW t \in Tabs, NEW c \in Conns, NEW x \in Connection,
           conn' = [conn EXCEPT ![t] = [conn[t] EXCEPT ![c] = x]]
    PROVE  /\ conn' \in [Tabs -> [Conns -> Connection]]
           /\ conn'[t][c] = x
           /\ \A u \in Tabs, d \in Conns : u # t \/ d # c => conn'[u][d] = conn[u][d]
  <1>1. [conn[t] EXCEPT ![c] = x] \in [Conns -> Connection]
    BY ConnFields
  <1>2. QED
    BY <1>1, ConnFields DEF StreamInv

LEMMA ConnectIs ==
    ASSUME StreamInv, NEW t \in Tabs, NEW c \in Conns, Connect(t, c)
    PROVE  /\ tab' \in [Tabs -> Tab]
           /\ \A u \in Tabs : /\ tab'[u].last = tab[u].last
                              /\ tab'[u].seen = tab[u].seen
                              /\ tab'[u].claimed = tab[u].claimed
           /\ conn' \in [Tabs -> [Conns -> Connection]]
           /\ conn'[t][c] \in Opening /\ conn'[t][c].url = tab[t].last
           /\ \A u \in Tabs, d \in Conns : u # t \/ d # c => conn'[u][d] = conn[u][d]
           /\ UNCHANGED <<bus, shown, raced, missed>>
  <1>1. tab[t].connecting - 1 \in Nat
    BY TabFields DEF Connect
  <1>2. [tab[t] EXCEPT !.connecting = tab[t].connecting - 1, !.current = c] \in Tab
    BY <1>1, TabFields DEF Tab
  <1>3. tab' = [tab EXCEPT ![t] = [tab[t] EXCEPT !.connecting = tab[t].connecting - 1,
                                                 !.current = c]]
    BY DEF Connect
  <1>4. tab' \in [Tabs -> Tab]
    BY <1>2, <1>3 DEF StreamInv
  <1>5. \A u \in Tabs : /\ tab'[u].last = tab[u].last
                        /\ tab'[u].seen = tab[u].seen
                        /\ tab'[u].claimed = tab[u].claimed
    BY <1>3, TabFields DEF StreamInv, Tab
  <1> DEFINE x == [state |-> "opening", url |-> tab[t].last]
  <1>6. x \in Connection /\ x \in Opening /\ x.url = tab[t].last
    BY TabFields DEF Connection, Opening
  <1>7. conn' = [conn EXCEPT ![t] = [conn[t] EXCEPT ![c] = x]]
    BY DEF Connect
  <1> HIDE DEF x
  <1>8. /\ conn' \in [Tabs -> [Conns -> Connection]] /\ conn'[t][c] = x
        /\ \A u \in Tabs, d \in Conns : u # t \/ d # c => conn'[u][d] = conn[u][d]
    BY <1>6, <1>7, ConnReplaced
  <1>9. QED
    BY <1>4, <1>5, <1>6, <1>8 DEF Connect

LEMMA OpenStreamIs ==
    ASSUME TypeInv, NEW t \in Tabs, NEW c \in Conns, OpenStream(t, c)
    PROVE  /\ UNCHANGED <<tab, bus, shown, raced, missed>>
           /\ conn[t][c] \in Opening /\ Seed(conn[t][c].url) \in Marks
           /\ conn' \in [Tabs -> [Conns -> Connection]]
           /\ conn'[t][c] \in Open
           /\ conn'[t][c].start = Seed(conn[t][c].url)
           /\ conn'[t][c].mark = Seed(conn[t][c].url)
           /\ conn'[t][c].resumed = (conn[t][c].url # NoMark)
           /\ conn'[t][c].queue = <<>> /\ ToSet(conn'[t][c].queue) = {}
           /\ \A u \in Tabs, d \in Conns : u # t \/ d # c => conn'[u][d] = conn[u][d]
  <1>1. StreamInv /\ conn[t][c] \in Opening
    BY ConnFields DEF TypeInv, OpenStream
  <1>2. conn[t][c].url \in Marks \cup {NoMark}
    BY <1>1 DEF Opening
  <1>3. Seed(conn[t][c].url) \in Marks
    BY <1>2 DEF Seed, Marks, TypeInv, StoreInv
  <1> DEFINE x == [state |-> "open", start |-> Seed(conn[t][c].url),
                   mark |-> Seed(conn[t][c].url), resumed |-> conn[t][c].url # NoMark,
                   queue |-> <<>>]
  <1>4. x \in Connection
    <2>1. <<>> \in Seq(Events) /\ (conn[t][c].url # NoMark) \in BOOLEAN
      OBVIOUS
    <2>2. x \in Open
      BY <1>3, <2>1, Zenon DEF Open
    <2>3. QED
      BY <2>2 DEF Connection
  <1>4a. /\ x \in Open /\ x.start = Seed(conn[t][c].url) /\ x.mark = x.start
         /\ x.resumed = (conn[t][c].url # NoMark) /\ x.queue = <<>>
    BY <1>4 DEF Connection, Open, Opening, Closed
  <1>4b. ToSet(<<>>) = {}
    BY DEF ToSet
  <1>5. conn' = [conn EXCEPT ![t] = [conn[t] EXCEPT ![c] = x]]
    BY DEF OpenStream
  <1> HIDE DEF x
  <1>6. /\ conn' \in [Tabs -> [Conns -> Connection]] /\ conn'[t][c] = x
        /\ \A u \in Tabs, d \in Conns : u # t \/ d # c => conn'[u][d] = conn[u][d]
    BY <1>1, <1>4, <1>5, ConnReplaced
  <1>7. QED
    BY <1>1, <1>3, <1>4a, <1>4b, <1>6 DEF OpenStream

LEMMA ReloadIs ==
    ASSUME StreamInv, NEW t \in Tabs, Reload(t)
    PROVE  /\ tab' \in [Tabs -> Tab] /\ tab'[t] = FreshTab
           /\ \A u \in Tabs : u # t => tab'[u] = tab[u] /\ conn'[u] = conn[u]
           /\ conn' \in [Tabs -> [Conns -> Connection]]
           /\ \A c \in Conns : conn'[t][c] = Closed
           /\ bus' = {b \in bus : b[1] # t}
           /\ UNCHANGED <<shown, raced, missed>>
  <1>1. FreshTab \in Tab
    BY DEF FreshTab, Tab
  <1>2. [c \in Conns |-> Closed] \in [Conns -> Connection]
    BY ClosedIs
  <1>3. QED
    BY <1>1, <1>2 DEF Reload, StreamInv

\* A connection that is open has got one batch further.
Polled(t, c, docs, bad, frames) ==
    /\ docs # <<>> /\ bad \subseteq ToSet(docs) /\ frames \in Sorted(ToSet(docs) \ bad)
    /\ conn'[t][c] = [conn[t][c] EXCEPT !.queue = @ \o frames, !.mark = Mark(Last(docs))]
    /\ missed' = [missed EXCEPT ![t] = @ \cup bad]

LEMMA PollIs ==
    ASSUME TypeInv, NEW t \in Tabs, NEW c \in Conns, Poll(t, c)
    PROVE  /\ UNCHANGED <<tab, bus, shown, raced>>
           /\ conn[t][c] \in Open
           /\ \E docs \in Fetched(conn[t][c].mark) : \E bad, frames :
                 Polled(t, c, docs, bad, frames)
           /\ conn' \in [Tabs -> [Conns -> Connection]] /\ conn'[t][c] \in Open
           /\ ToSet(conn'[t][c].queue) \subseteq stored
           /\ \A u \in Tabs, d \in Conns : u # t \/ d # c => conn'[u][d] = conn[u][d]
           /\ missed' \in [Tabs -> SUBSET Events]
           /\ \A u \in Tabs : missed[u] \subseteq missed'[u]
  <1>1. StreamInv /\ conn[t][c] \in Open /\ stored \subseteq Events /\ IsFiniteSet(stored)
    BY ConnFields DEF TypeInv, StoreInv, Poll
  <1>2. PICK docs \in Fetched(conn[t][c].mark) :
           \E bad \in SUBSET ToSet(docs) : \E frames \in Sorted(ToSet(docs) \ bad) :
             /\ docs # <<>>
             /\ conn' = [conn EXCEPT ![t][c].queue = @ \o frames,
                                     ![t][c].mark = Mark(Last(docs))]
             /\ missed' = [missed EXCEPT ![t] = @ \cup bad]
    BY DEF Poll
  <1>2a. PICK bad \in SUBSET ToSet(docs) : \E frames \in Sorted(ToSet(docs) \ bad) :
             /\ docs # <<>>
             /\ conn' = [conn EXCEPT ![t][c].queue = @ \o frames,
                                     ![t][c].mark = Mark(Last(docs))]
             /\ missed' = [missed EXCEPT ![t] = @ \cup bad]
    BY <1>2
  <1>3. PICK frames \in Sorted(ToSet(docs) \ bad) :
             /\ docs # <<>>
             /\ conn' = [conn EXCEPT ![t][c].queue = @ \o frames,
                                     ![t][c].mark = Mark(Last(docs))]
             /\ missed' = [missed EXCEPT ![t] = @ \cup bad]
    BY <1>2a
  <1>4. conn[t][c].mark \in Marks /\ conn[t][c].queue \in Seq(Events)
    BY <1>1 DEF Open
  <1>5. /\ ToSet(docs) \subseteq stored /\ IsFiniteSet(ToSet(docs))
        /\ Last(docs) \in ToSet(docs)
    BY <1>1, <1>3, <1>4, FetchedIs
  <1>6. IsFiniteSet(ToSet(docs) \ bad)
    BY <1>5, FS_Subset
  <1>7. frames \in Seq(ToSet(docs) \ bad) /\ ToSet(frames) = ToSet(docs) \ bad
    BY <1>6, SortedIs
  <1>8. frames \in Seq(Events)
    BY <1>1, <1>5, <1>7, SeqMonotonic
  <1> DEFINE q == conn[t][c].queue \o frames
             x == [conn[t][c] EXCEPT !.queue = q, !.mark = Mark(Last(docs))]
  <1>9. q \in Seq(Events) /\ Mark(Last(docs)) \in Marks
    BY <1>1, <1>4, <1>5, <1>8, Order
  <1>10. ToSet(q) \subseteq stored
    <2>1. ToSet(conn[t][c].queue) \subseteq stored
      BY <1>1 DEF StreamInv, Poll
    <2>2. ToSet(frames) \subseteq stored
      BY <1>5, <1>7
    <2>3. \A i \in DOMAIN q : \/ i \in DOMAIN conn[t][c].queue /\ q[i] = conn[t][c].queue[i]
                              \/ \E j \in DOMAIN frames : q[i] = frames[j]
      BY <1>4, <1>8
    <2>4. QED
      BY <2>1, <2>2, <2>3 DEF ToSet
  <1> HIDE DEF q
  <1>11. x \in Open /\ x.queue = q
    BY <1>1, <1>9 DEF Open
  <1>12. conn' = [conn EXCEPT ![t] = [conn[t] EXCEPT ![c] = x]]
    BY <1>3 DEF q
  <1> HIDE DEF x
  <1>13. x \in Connection
    BY <1>11 DEF Connection
  <1>14. /\ conn' \in [Tabs -> [Conns -> Connection]] /\ conn'[t][c] = x
         /\ \A u \in Tabs, d \in Conns : u # t \/ d # c => conn'[u][d] = conn[u][d]
    BY <1>1, <1>12, <1>13, ConnReplaced
  <1>15. missed' \in [Tabs -> SUBSET Events] /\ \A u \in Tabs : missed[u] \subseteq missed'[u]
    BY <1>1, <1>3, <1>5 DEF StreamInv
  <1>16. Polled(t, c, docs, bad, frames)
    BY <1>3, <1>14 DEF Polled, x, q
  <1>17. QED
    BY <1>1, <1>10, <1>11, <1>14, <1>15, <1>16 DEF Poll

\* A tab has taken the first frame e of a queue.
Received(t, c, e) ==
    /\ tab'[t].last = Mark(e)
    /\ tab'[t].seen = tab[t].seen \cup {e}
    /\ tab'[t].claimed = IF Surfaces(tab[t], e) THEN tab[t].claimed \cup {e}
                                                ELSE tab[t].claimed
    /\ conn'[t][c] = [conn[t][c] EXCEPT !.queue = Tail(@)]
    /\ bus' = IF Surfaces(tab[t], e) THEN bus \cup {<<o, e>> : o \in Tabs \ {t}} ELSE bus
    /\ shown' = IF Surfaces(tab[t], e) THEN [shown EXCEPT ![e] = @ + 1] ELSE shown
    /\ raced' = IF Surfaces(tab[t], e) /\ <<t, e>> \in bus THEN raced \cup {e} ELSE raced
    /\ missed' = [missed EXCEPT ![t] = @ \cup Skipped(t, c, e)]

\* What follows a head: the rest of the sequence, one place on.
LEMMA TailIs ==
    ASSUME NEW S, NEW s \in Seq(S), s # <<>>
    PROVE  /\ Len(s) \in Nat \ {0} /\ 1 \in DOMAIN s /\ Head(s) = s[1]
           /\ Tail(s) \in Seq(S) /\ DOMAIN Tail(s) = 1..(Len(s) - 1)
           /\ \A i \in DOMAIN Tail(s) : Tail(s)[i] = s[i + 1] /\ i + 1 \in DOMAIN s
           /\ ToSet(Tail(s)) \subseteq ToSet(s) /\ Head(s) \in ToSet(s)
           /\ \A x \in ToSet(s) : x = Head(s) \/ \E i \in DOMAIN s : i > 1 /\ s[i] = x
  <1>1. Len(s) \in Nat \ {0} /\ DOMAIN s = 1..Len(s) /\ Head(s) = s[1]
    BY EmptySeq
  <1>2. /\ Tail(s) \in Seq(S) /\ Len(Tail(s)) = Len(s) - 1
        /\ \A i \in 1..Len(Tail(s)) : Tail(s)[i] = s[i + 1]
    BY HeadTailProperties
  <1>3. DOMAIN Tail(s) = 1..(Len(s) - 1)
    BY <1>1, <1>2
  <1>4. \A i \in DOMAIN Tail(s) : Tail(s)[i] = s[i + 1] /\ i + 1 \in DOMAIN s
    BY <1>1, <1>2, <1>3
  <1>5. ToSet(Tail(s)) \subseteq ToSet(s) /\ Head(s) \in ToSet(s)
    BY <1>1, <1>4 DEF ToSet
  <1>6. \A x \in ToSet(s) : x = Head(s) \/ \E i \in DOMAIN s : i > 1 /\ s[i] = x
    BY <1>1 DEF ToSet
  <1>7. QED
    BY <1>1, <1>2, <1>3, <1>4, <1>5, <1>6

LEMMA ReceiveIs ==
    ASSUME TypeInv, NEW t \in Tabs, NEW c \in Conns, Receive(t, c)
    PROVE  LET e == Head(conn[t][c].queue) IN
           /\ conn[t][c] \in Open /\ conn[t][c].queue # <<>>
           /\ e \in stored /\ e \in ToSet(conn[t][c].queue)
           /\ Received(t, c, e)
           /\ tab' \in [Tabs -> Tab]
           /\ \A u \in Tabs : u # t => tab'[u] = tab[u]
           /\ conn' \in [Tabs -> [Conns -> Connection]] /\ conn'[t][c] \in Open
           /\ conn'[t][c].queue = Tail(conn[t][c].queue)
           /\ ToSet(conn'[t][c].queue) \subseteq stored
           /\ \A u \in Tabs, d \in Conns : u # t \/ d # c => conn'[u][d] = conn[u][d]
           /\ missed' \in [Tabs -> SUBSET Events]
           /\ \A u \in Tabs : missed[u] \subseteq missed'[u]
  <1> DEFINE q == conn[t][c].queue
             e == Head(q)
             x == [conn[t][c] EXCEPT !.queue = Tail(q)]
             s == tab[t].seen \cup {e}
             m == IF Surfaces(tab[t], e) THEN tab[t].claimed \cup {e} ELSE tab[t].claimed
             y == [tab[t] EXCEPT !.last = Mark(e), !.seen = s, !.claimed = m]
  <1>1. StreamInv /\ conn[t][c] \in Open /\ stored \subseteq Events
    BY ConnFields DEF TypeInv, StoreInv, Receive
  <1>2. q \in Seq(Events) /\ q # <<>> /\ ToSet(q) \subseteq stored
    BY <1>1 DEF Open, Receive, StreamInv
  <1>3. e \in stored /\ e \in Events /\ e \in ToSet(q)
        /\ Tail(q) \in Seq(Events) /\ ToSet(Tail(q)) \subseteq stored
    BY <1>1, <1>2, TailIs
  <1>4. x \in Open /\ x.queue = Tail(q)
    BY <1>1, <1>3 DEF Open
  <1>5. conn' = [conn EXCEPT ![t] = [conn[t] EXCEPT ![c] = x]]
    BY DEF Receive
  <1>6. x \in Connection
    BY <1>4 DEF Connection
  <1>7. /\ conn' \in [Tabs -> [Conns -> Connection]] /\ conn'[t][c] = x
        /\ \A u \in Tabs, d \in Conns : u # t \/ d # c => conn'[u][d] = conn[u][d]
    <2> HIDE DEF x
    <2>1. QED
      BY <1>1, <1>5, <1>6, ConnReplaced
  <1>8. /\ y \in Tab /\ y.last = Mark(e) /\ y.seen = s /\ y.claimed = m
    <2>1. Mark(e) \in Marks /\ s \in SUBSET Events /\ m \in SUBSET Events /\ tab[t] \in Tab
      BY <1>1, <1>3, TabFields, Order
    <2> HIDE DEF s, m, e
    <2>2. QED
      BY <2>1 DEF Tab
  <1>9. tab' = [tab EXCEPT ![t] = y]
    BY DEF Receive
  <1>10. tab' \in [Tabs -> Tab] /\ tab'[t] = y /\ \A u \in Tabs : u # t => tab'[u] = tab[u]
    <2> HIDE DEF y
    <2>1. QED
      BY <1>1, <1>8, <1>9 DEF StreamInv
  <1>11. missed' = [missed EXCEPT ![t] = missed[t] \cup Skipped(t, c, e)]
    BY DEF Receive
  <1>12. Skipped(t, c, e) \subseteq Events
    BY <1>1 DEF Skipped
  <1>13. missed' \in [Tabs -> SUBSET Events] /\ \A u \in Tabs : missed[u] \subseteq missed'[u]
    BY <1>1, <1>11, <1>12 DEF StreamInv
  <1>14. Received(t, c, e)
    <2>1. tab'[t].last = Mark(e) /\ tab'[t].seen = s /\ tab'[t].claimed = m
      BY <1>8, <1>10
    <2>2. conn'[t][c] = [conn[t][c] EXCEPT !.queue = Tail(@)]
      BY <1>7
    <2>3. QED
      BY <2>1, <2>2, <1>11 DEF Receive, Received
  <1>15. QED
    BY <1>1, <1>2, <1>3, <1>4, <1>7, <1>10, <1>13, <1>14

LEMMA HearClaimIs ==
    ASSUME StreamInv, NEW t \in Tabs, NEW e \in Events, HearClaim(t, e)
    PROVE  /\ <<t, e>> \in bus /\ e \in stored /\ bus' = bus \ {<<t, e>>}
           /\ tab' \in [Tabs -> Tab]
           /\ \A u \in Tabs : /\ tab'[u].last = tab[u].last
                              /\ tab'[u].seen = tab[u].seen
                              /\ tab'[u].claimed = IF u = t THEN tab[u].claimed \cup {e}
                                                            ELSE tab[u].claimed
           /\ UNCHANGED <<conn, shown, raced, missed>>
  <1>1. tab' = [tab EXCEPT ![t] = [tab[t] EXCEPT !.claimed = tab[t].claimed \cup {e}]]
    BY DEF HearClaim
  <1> DEFINE m == tab[t].claimed \cup {e}
  <1>2. m \in SUBSET Events
    BY TabFields
  <1> HIDE DEF m
  <1>3. [tab[t] EXCEPT !.claimed = m] \in Tab
    BY <1>2, TabFields DEF Tab
  <1>4. tab' = [tab EXCEPT ![t] = [tab[t] EXCEPT !.claimed = m]]
    BY <1>1 DEF m
  <1>5. tab' \in [Tabs -> Tab]
    BY <1>3, <1>4 DEF StreamInv
  <1>6. \A u \in Tabs : /\ tab'[u].last = tab[u].last
                        /\ tab'[u].seen = tab[u].seen
                        /\ tab'[u].claimed = IF u = t THEN m ELSE tab[u].claimed
    BY <1>4, TabFields DEF StreamInv, Tab
  <1>7. QED
    BY <1>5, <1>6 DEF HearClaim, StreamInv, m

\* Each step of a tab is one of these.
LEMMA TabCases ==
    ASSUME StreamInv, StreamNext
    PROVE  \/ Quiet
           \/ \E t \in Tabs : Reload(t)
           \/ \E t \in Tabs, e \in Events : HearClaim(t, e)
           \/ \E t \in Tabs, c \in Conns : Connect(t, c)
           \/ \E t \in Tabs, c \in Conns : OpenStream(t, c)
           \/ \E t \in Tabs, c \in Conns : Poll(t, c)
           \/ \E t \in Tabs, c \in Conns : Receive(t, c)
  BY QuietSteps DEF StreamNext, TabStep, ConnStep

\* What a step of a tab leaves to the writers.
LEMMA StreamKeepsStore ==
    ASSUME StoreInv, StreamNext
    PROVE  StoreInv' /\ UNCHANGED <<clock, stored>>
  <1>1. UNCHANGED writes /\ faults' \in 0..MaxFaults
    <2> USE Constants DEF StoreInv, Fault
    <2>1. ASSUME NEW t \in Tabs, NEW c \in Conns, Connect(t, c)
          PROVE  UNCHANGED writes /\ faults' \in 0..MaxFaults
      BY <2>1 DEF Connect, writerVars
    <2>2. ASSUME NEW t \in Tabs, NEW c \in Conns, OpenStream(t, c)
          PROVE  UNCHANGED writes /\ faults' \in 0..MaxFaults
      BY <2>2 DEF OpenStream, writerVars
    <2>3. ASSUME NEW t \in Tabs, NEW c \in Conns, Poll(t, c)
          PROVE  UNCHANGED writes /\ faults' \in 0..MaxFaults
      BY <2>3 DEF Poll
    <2>4. ASSUME NEW t \in Tabs, NEW c \in Conns, Receive(t, c)
          PROVE  UNCHANGED writes /\ faults' \in 0..MaxFaults
      BY <2>4 DEF Receive, writerVars
    <2>5. ASSUME NEW t \in Tabs, NEW c \in Conns, StreamBreaks(t, c) \/ PollFails(t, c)
          PROVE  UNCHANGED writes /\ faults' \in 0..MaxFaults
      BY <2>5 DEF StreamBreaks, PollFails
    <2>6. ASSUME NEW t \in Tabs, NEW e \in Events, HearClaim(t, e)
          PROVE  UNCHANGED writes /\ faults' \in 0..MaxFaults
      BY <2>6 DEF HearClaim, writerVars
    <2>7. ASSUME NEW t \in Tabs, ReconnectTimer(t) \/ TokenFails(t)
          PROVE  UNCHANGED writes /\ faults' \in 0..MaxFaults
      BY <2>7 DEF ReconnectTimer, TokenFails, writerVars
    <2>8. ASSUME NEW t \in Tabs, Online(t) \/ Reload(t)
          PROVE  UNCHANGED writes /\ faults' \in 0..MaxFaults
      BY <2>8 DEF Online, Reload
    <2>9. QED
      BY <2>1, <2>2, <2>3, <2>4, <2>5, <2>6, <2>7, <2>8 DEF StreamNext, TabStep, ConnStep
  <1>2. UNCHANGED <<clock, stored, writer, mails>>
    BY StreamLeaves
  <1>3. QED
    BY <1>1, <1>2 DEF StoreInv, Dated, Id

LEMMA TypeInit == Init => TypeInv
  <1> SUFFICES ASSUME Init PROVE TypeInv
    OBVIOUS
  <1>1. StoreInv
    <2>1. clock \in 0..MaxClock /\ writes \in 0..MaxWrites /\ faults \in 0..MaxFaults
      BY Constants DEF Init, WriterInit
    <2>2. IsFiniteSet(stored)
      BY FS_EmptySet DEF Init, WriterInit
    <2>3. QED
      BY <2>1, <2>2 DEF Init, WriterInit, StoreInv
  <1>2. StreamInv
    <2>1. FreshTab \in Tab /\ FreshTab.seen = {} /\ FreshTab.claimed = {}
      BY DEF FreshTab, Tab
    <2>2. Closed \in Connection /\ Closed.state # "open"
      BY ClosedIs
    <2>3. QED
      BY <2>1, <2>2 DEF Init, WriterInit, StreamInit, StreamInv, IsOpen
  <1>3. QED
    BY <1>1, <1>2 DEF TypeInv

LEMMA TypeStep == ASSUME TypeInv, [Next]_vars PROVE TypeInv' /\ stored \subseteq stored'
  <1>0. StoreInv /\ StreamInv
    BY DEF TypeInv
  <1>1. CASE WriteEvent
    <2>1. StoreInv' /\ stored \subseteq stored' /\ stored' \subseteq Events
      BY <1>0, <1>1, StoreStep DEF WriteEvent, StoreInv
    <2>2. UNCHANGED <<tab, conn, bus, shown, raced>>
          /\ missed' = [t \in Tabs |->
                          missed[t] \cup {e \in stored' \ stored : Behind(t, e)}]
      BY <1>1 DEF WriteEvent
    <2>3. missed' \in [Tabs -> SUBSET Events]
      BY <1>0, <2>1, <2>2 DEF StreamInv
    <2>4. QED
      BY <1>0, <2>1, <2>2, <2>3 DEF TypeInv, StreamInv, IsOpen
  <1>2. CASE StreamNext
    <2>1. StoreInv' /\ UNCHANGED <<clock, stored>>
      BY <1>0, <1>2, StreamKeepsStore
    <2>2. CASE Quiet
      <3>1. \A t \in Tabs, c \in Conns :
               IsOpen(t, c)' => IsOpen(t, c) /\ conn'[t][c] = conn[t][c]
        BY <2>2, ClosedIs DEF Quiet, IsOpen
      <3>2. QED
        BY <1>0, <2>1, <2>2, <3>1 DEF TypeInv, StreamInv, Quiet
    <2>3. ASSUME NEW t \in Tabs, Reload(t) PROVE TypeInv'
      <3>1. FreshTab.seen = {} /\ FreshTab.claimed = {}
        BY DEF FreshTab
      <3>2. \A u \in Tabs, c \in Conns :
               IsOpen(u, c)' => u # t /\ IsOpen(u, c) /\ conn'[u][c] = conn[u][c]
        BY <1>0, <2>3, ReloadIs, ClosedIs DEF IsOpen
      <3>3. \A u \in Tabs : tab'[u].seen \cup tab'[u].claimed \subseteq stored'
        BY <1>0, <2>1, <2>3, <3>1, ReloadIs DEF StreamInv
      <3>4. QED
        BY <1>0, <2>1, <2>3, <3>2, <3>3, ReloadIs DEF TypeInv, StreamInv
    <2>4. ASSUME NEW t \in Tabs, NEW e \in Events, HearClaim(t, e) PROVE TypeInv'
      <3>1. \A u \in Tabs : tab'[u].seen \cup tab'[u].claimed \subseteq stored'
        <4>1. /\ e \in stored
              /\ \A u \in Tabs : /\ tab'[u].seen = tab[u].seen
                                 /\ tab'[u].claimed = IF u = t THEN tab[u].claimed \cup {e}
                                                               ELSE tab[u].claimed
          BY <1>0, <2>4, HearClaimIs
        <4>2. \A u \in Tabs : tab[u].seen \subseteq stored /\ tab[u].claimed \subseteq stored
          BY <1>0 DEF StreamInv
        <4>3. stored' = stored
          BY <2>1
        <4>4. QED
          BY <4>1, <4>2, <4>3
      <3>2. QED
        BY <1>0, <2>1, <2>4, <3>1, HearClaimIs DEF TypeInv, StreamInv, IsOpen
    <2>5. ASSUME NEW t \in Tabs, NEW c \in Conns, Connect(t, c) PROVE TypeInv'
      <3>1. conn'[t][c].state = "opening"
        BY <1>0, <2>5, ConnectIs DEF Opening
      <3>2. \A u \in Tabs, d \in Conns :
               IsOpen(u, d)' => IsOpen(u, d) /\ conn'[u][d] = conn[u][d]
        BY <1>0, <2>5, <3>1, ConnectIs DEF IsOpen
      <3>3. QED
        BY <1>0, <2>1, <2>5, <3>2, ConnectIs DEF TypeInv, StreamInv
    <2>6. ASSUME NEW t \in Tabs, NEW c \in Conns, OpenStream(t, c) PROVE TypeInv'
      <3>1. ToSet(conn'[t][c].queue) = {}
        BY <2>6, OpenStreamIs
      <3>2. \A u \in Tabs, d \in Conns : IsOpen(u, d)' =>
               \/ u = t /\ d = c
               \/ IsOpen(u, d) /\ conn'[u][d] = conn[u][d]
        BY <2>6, OpenStreamIs DEF IsOpen
      <3>3. \A u \in Tabs, d \in Conns : IsOpen(u, d)' => ToSet(conn'[u][d].queue) \subseteq stored
        BY <1>0, <3>1, <3>2 DEF StreamInv
      <3>4. conn' \in [Tabs -> [Conns -> Connection]] /\ UNCHANGED <<tab, bus, shown, raced, missed>>
        BY <2>6, OpenStreamIs
      <3>5. QED
        BY <1>0, <2>1, <3>3, <3>4 DEF TypeInv, StreamInv
    <2>7. ASSUME NEW t \in Tabs, NEW c \in Conns, Poll(t, c) PROVE TypeInv'
      <3>1. \A u \in Tabs, d \in Conns : IsOpen(u, d)' =>
               \/ u = t /\ d = c
               \/ IsOpen(u, d) /\ conn'[u][d] = conn[u][d]
        BY <2>7, PollIs DEF IsOpen
      <3>2. QED
        BY <1>0, <2>1, <2>7, <3>1, PollIs DEF TypeInv, StreamInv
    <2>8. ASSUME NEW t \in Tabs, NEW c \in Conns, Receive(t, c) PROVE TypeInv'
      <3> DEFINE e == Head(conn[t][c].queue)
      <3>1. \A u \in Tabs, d \in Conns : IsOpen(u, d)' =>
               \/ u = t /\ d = c
               \/ IsOpen(u, d) /\ conn'[u][d] = conn[u][d]
        BY <2>8, ReceiveIs DEF IsOpen
      <3>2. e \in stored /\ e \in Events /\ Received(t, c, e)
        BY <1>0, <2>8, ReceiveIs DEF StoreInv
      <3>3. bus' \subseteq Tabs \X stored /\ raced' \subseteq stored
            /\ shown' \in [Events -> Nat]
        <4> HIDE DEF e
        <4>1. QED
          BY <1>0, <3>2 DEF Received, StreamInv
      <3>4. \A u \in Tabs : tab'[u].seen \cup tab'[u].claimed \subseteq stored
        <4>1. tab'[t].seen \cup tab'[t].claimed \subseteq stored
          <5> HIDE DEF e
          <5>1. QED
            BY <1>0, <3>2 DEF Received, StreamInv
        <4>2. QED
          BY <1>0, <2>8, <4>1, ReceiveIs DEF StreamInv
      <3>5. \A u \in Tabs, d \in Conns : IsOpen(u, d)' => ToSet(conn'[u][d].queue) \subseteq stored
        <4>1. ToSet(conn'[t][c].queue) \subseteq stored
          BY <2>8, ReceiveIs
        <4>2. QED
          BY <1>0, <3>1, <4>1 DEF StreamInv
      <3>6. StreamInv'
        BY <2>1, <2>8, <3>3, <3>4, <3>5, ReceiveIs DEF StreamInv
      <3>7. QED
        BY <2>1, <3>6 DEF TypeInv
    <2>9. QED
      BY <1>0, <1>2, <2>1, <2>2, <2>3, <2>4, <2>5, <2>6, <2>7, <2>8, TabCases
  <1>3. CASE UNCHANGED vars
    BY <1>0, <1>3 DEF vars, writerVars, streamVars, TypeInv, StoreInv, StreamInv,
                       Dated, Id, IsOpen
  <1>4. QED
    BY <1>1, <1>2, <1>3 DEF Next

\* Every variable has its type: there is one document for an id, a tab knows of
\* nothing that is not stored, and a connection that is open has its positions.
THEOREM TypeCorrect == Spec => []TypeOK
  <1>1. TypeInv => TypeOK
    <2> SUFFICES ASSUME TypeInv PROVE TypeOK
      OBVIOUS
    <2>1. StoreInv /\ StreamInv
      BY DEF TypeInv
    <2>2. \A w \in Writers : writer[w] # Free =>
             writer[w].pc \in {"upsert", "mail"} /\ writer[w].event \in Events
      BY <2>1 DEF StoreInv, Pending
    <2>3. \A t \in Tabs :
          /\ tab[t].last \in Marks \cup {NoMark}
          /\ tab[t].current \in Conns \cup {None}
          /\ tab[t].connecting \in Nat /\ tab[t].timers \in Nat
      BY <2>1, TabFields
    <2>4. \A t \in Tabs, c \in Conns : IsOpen(t, c) =>
             conn[t][c].mark \in Marks /\ conn[t][c].start \in Marks
      BY <2>1, ConnFields DEF Open
    <2>5. QED
      BY <2>1, <2>2, <2>3, <2>4 DEF TypeOK, StoreInv, StreamInv
  <1>2. TypeInv /\ [Next]_vars => TypeInv'
    BY TypeStep
  <1>3. QED
    BY TypeInit, <1>1, <1>2, PTL DEF Spec

-----------------------------------------------------------------------------
(* Nothing is skipped *)

\* What is behind a position the tab has, or has asked for, was received or is
\* excused.  What is behind the watermark of a connection may also be on its way,
\* or be from before a connection that started anew.
Known(t, e) == e \in tab[t].seen \cup missed[t]

Asked(t, c) ==
    conn[t][c].state = "opening" =>
        \A e \in stored : ~Newer(e, conn[t][c].url) => Known(t, e)

Follows(t, c) ==
    IsOpen(t, c) =>
        /\ InOrder(conn[t][c].queue)
        /\ \A e \in ToSet(conn[t][c].queue) : ~Newer(e, conn[t][c].mark)
        /\ \A e \in stored : ~Newer(e, conn[t][c].mark) =>
              \/ Known(t, e)
              \/ e \in ToSet(conn[t][c].queue)
              \/ ~conn[t][c].resumed /\ ~Newer(e, conn[t][c].start)

FlowInv ==
    /\ TypeInv
    /\ NothingSkipped
    /\ \A t \in Tabs, c \in Conns : Asked(t, c) /\ Follows(t, c)

LEMMA FlowInit == Init => FlowInv
  <1> SUFFICES ASSUME Init PROVE FlowInv
    OBVIOUS
  <1>1. stored = {} /\ \A t \in Tabs, c \in Conns : conn[t][c] = Closed
    BY DEF Init, WriterInit, StreamInit
  <1>2. QED
    BY <1>1, TypeInit, ClosedIs DEF FlowInv, NothingSkipped, Asked, Follows, IsOpen

\* What a step adds to the store is behind no position, or excused.
Excused(t) == \A e \in stored' \ stored : Behind(t, e) => e \in missed'[t]

\* A connection the step leaves alone still has behind it what it had.
LEMMA Kept ==
    ASSUME NEW t \in Tabs, NEW c \in Conns, conn'[t][c] = conn[t][c],
           Asked(t, c), Follows(t, c), Excused(t),
           tab[t].seen \subseteq tab'[t].seen, missed[t] \subseteq missed'[t]
    PROVE  Asked(t, c)' /\ Follows(t, c)'
  <1>1. \A e : Known(t, e) => Known(t, e)'
    BY DEF Known
  <1>2. Asked(t, c)'
    <2> SUFFICES ASSUME conn[t][c].state = "opening", NEW e \in stored',
                        ~Newer(e, conn[t][c].url)
                 PROVE  Known(t, e)'
      BY DEF Asked
    <2>1. CASE e \in stored
      BY <1>1, <2>1 DEF Asked
    <2>2. CASE e \notin stored
      BY <2>2 DEF Excused, Behind, Known
    <2>3. QED
      BY <2>1, <2>2
  <1>3. Follows(t, c)'
    <2> SUFFICES ASSUME IsOpen(t, c)
                 PROVE  \A e \in stored' : ~Newer(e, conn[t][c].mark) =>
                           \/ Known(t, e)'
                           \/ e \in ToSet(conn[t][c].queue)
                           \/ ~conn[t][c].resumed /\ ~Newer(e, conn[t][c].start)
      BY DEF Follows, IsOpen
    <2> TAKE e \in stored'
    <2>1. CASE e \in stored
      BY <1>1, <2>1 DEF Follows
    <2>2. CASE e \notin stored
      BY <2>2 DEF Excused, Behind, Known
    <2>3. QED
      BY <2>1, <2>2
  <1>4. QED
    BY <1>2, <1>3

\* A tab that the step leaves at its position has nothing new behind it.
LEMMA Stayed ==
    ASSUME NothingSkipped, NEW t \in Tabs, tab'[t].last = tab[t].last, Excused(t),
           tab[t].seen \subseteq tab'[t].seen, missed[t] \subseteq missed'[t]
    PROVE  \A e \in stored' : ~Newer(e, tab'[t].last) => Known(t, e)'
  BY DEF NothingSkipped, Excused, Behind, Known

\* A step that at most closes connections.
LEMMA FlowQuiet ==
    ASSUME FlowInv, TypeInv', \A t \in Tabs : Excused(t),
           \A t \in Tabs : /\ tab'[t].last = tab[t].last
                           /\ tab[t].seen \subseteq tab'[t].seen
                           /\ missed[t] \subseteq missed'[t],
           \A t \in Tabs, c \in Conns : conn'[t][c] = conn[t][c] \/ conn'[t][c] = Closed
    PROVE  FlowInv'
  <1>1. NothingSkipped'
    BY Stayed DEF FlowInv, NothingSkipped, Known
  <1>2. ASSUME NEW t \in Tabs, NEW c \in Conns PROVE Asked(t, c)' /\ Follows(t, c)'
    <2>1. CASE conn'[t][c] = conn[t][c]
      BY <2>1, Kept DEF FlowInv
    <2>2. CASE conn'[t][c] = Closed
      BY <2>2, ClosedIs DEF Asked, Follows, IsOpen
    <2>3. QED
      BY <2>1, <2>2
  <1>3. QED
    BY <1>1, <1>2 DEF FlowInv

\* A tab that is loaded again has no position.
LEMMA FlowReload ==
    ASSUME FlowInv, TypeInv', UNCHANGED stored, NEW t \in Tabs, Reload(t)
    PROVE  FlowInv'
  <1>1. StreamInv /\ stored \subseteq Events
    BY DEF FlowInv, TypeInv, StoreInv
  <1>2. \A u \in Tabs : Excused(u)
    BY DEF Excused
  <1>3. \A u \in Tabs : u # t => tab'[u] = tab[u] /\ conn'[u] = conn[u]
    BY <1>1, ReloadIs
  <1>4. missed' = missed /\ tab'[t].last = NoMark /\ \A c \in Conns : conn'[t][c] = Closed
    BY <1>1, ReloadIs DEF FreshTab
  <1>5. \A e \in stored' : Newer(e, tab'[t].last)
    BY <1>1, <1>4, Order
  <1>6. NothingSkipped'
    BY <1>3, <1>4, <1>5 DEF FlowInv, NothingSkipped
  <1>7. ASSUME NEW u \in Tabs, NEW c \in Conns PROVE Asked(u, c)' /\ Follows(u, c)'
    <2>1. CASE u = t
      BY <1>4, <2>1, ClosedIs DEF Asked, Follows, IsOpen
    <2>2. CASE u # t
      BY <1>2, <1>3, <1>4, <2>2, Kept DEF FlowInv
    <2>3. QED
      BY <2>1, <2>2
  <1>8. QED
    BY <1>6, <1>7 DEF FlowInv

\* A step of one connection: what it owes is that connection, and the position
\* of its tab.
LEMMA FlowOne ==
    ASSUME FlowInv, TypeInv', UNCHANGED stored, NEW t \in Tabs, NEW c \in Conns,
           \A u \in Tabs, d \in Conns : u # t \/ d # c => conn'[u][d] = conn[u][d],
           \A u \in Tabs : u # t => tab'[u].last = tab[u].last,
           \A u \in Tabs : /\ tab[u].seen \subseteq tab'[u].seen
                           /\ missed[u] \subseteq missed'[u],
           \A e \in stored : ~Newer(e, tab'[t].last) => Known(t, e)',
           Asked(t, c)' /\ Follows(t, c)'
    PROVE  FlowInv'
  <1>1. \A u \in Tabs : Excused(u)
    BY DEF Excused
  <1>2. NothingSkipped'
    <2>1. ASSUME NEW u \in Tabs, u # t
          PROVE  \A e \in stored' : ~Newer(e, tab'[u].last) => Known(u, e)'
      BY <1>1, <2>1, Stayed DEF FlowInv
    <2>2. QED
      BY <2>1 DEF NothingSkipped, Known
  <1>3. ASSUME NEW u \in Tabs, NEW d \in Conns PROVE Asked(u, d)' /\ Follows(u, d)'
    <2>1. CASE u = t /\ d = c
      BY <2>1
    <2>2. CASE u # t \/ d # c
      BY <1>1, <2>2, Kept DEF FlowInv
    <2>3. QED
      BY <2>1, <2>2
  <1>4. QED
    BY <1>2, <1>3 DEF FlowInv

\* A connection takes along the position of its tab.
LEMMA FlowConnect ==
    ASSUME FlowInv, TypeInv', UNCHANGED stored, NEW t \in Tabs, NEW c \in Conns,
           Connect(t, c)
    PROVE  FlowInv'
  <1>1. StreamInv
    BY DEF FlowInv, TypeInv
  <1>2. /\ missed' = missed
        /\ \A u \in Tabs : tab'[u].last = tab[u].last /\ tab'[u].seen = tab[u].seen
        /\ conn'[t][c] \in Opening /\ conn'[t][c].url = tab[t].last
        /\ \A u \in Tabs, d \in Conns : u # t \/ d # c => conn'[u][d] = conn[u][d]
    BY <1>1, ConnectIs
  <1>3. \A e \in stored : ~Newer(e, tab[t].last) => Known(t, e)'
    BY <1>2 DEF FlowInv, NothingSkipped, Known
  <1>4. conn'[t][c].state = "opening"
    BY <1>2 DEF Opening
  <1>5. Asked(t, c)' /\ Follows(t, c)'
    BY <1>2, <1>3, <1>4 DEF Asked, Follows, IsOpen
  <1>6. QED
    BY <1>2, <1>3, <1>5, FlowOne

\* A stream starts where the tab had got to, or anew.
LEMMA FlowOpen ==
    ASSUME FlowInv, TypeInv', UNCHANGED stored, NEW t \in Tabs, NEW c \in Conns,
           OpenStream(t, c)
    PROVE  FlowInv'
  <1> DEFINE url == conn[t][c].url
  <1>1. TypeInv /\ conn[t][c].state = "opening"
    BY DEF FlowInv, OpenStream
  <1>2. UNCHANGED <<tab, missed>>
    BY <1>1, OpenStreamIs
  <1>3. /\ conn'[t][c] \in Open /\ conn'[t][c].start = Seed(url)
        /\ conn'[t][c].mark = Seed(url) /\ conn'[t][c].resumed = (url # NoMark)
        /\ conn'[t][c].queue = <<>> /\ ToSet(conn'[t][c].queue) = {}
        /\ \A u \in Tabs, d \in Conns : u # t \/ d # c => conn'[u][d] = conn[u][d]
    BY <1>1, OpenStreamIs
  <1>4. \A e \in stored : ~Newer(e, url) => Known(t, e)'
    BY <1>1, <1>2 DEF FlowInv, Asked, Known
  <1>5. InOrder(<<>>)
    BY DEF InOrder
  <1>6. \A e \in stored : ~Newer(e, Seed(url)) =>
           Known(t, e)' \/ (url = NoMark /\ ~Newer(e, Seed(url)))
    BY <1>4 DEF Seed
  <1>7. Asked(t, c)' /\ Follows(t, c)'
    <2>1. conn'[t][c].state = "open"
      BY <1>3 DEF Open
    <2>2. QED
      BY <1>3, <1>5, <1>6, <2>1 DEF Asked, Follows, IsOpen
  <1>8. \A e \in stored : ~Newer(e, tab'[t].last) => Known(t, e)'
    BY <1>2 DEF FlowInv, NothingSkipped, Known
  <1>9. QED
    BY <1>2, <1>3, <1>7, <1>8, FlowOne

\* What two sequences in order give, when the second is past the first.
LEMMA Joined ==
    ASSUME NEW S, NEW q \in Seq(S), NEW r \in Seq(S), InOrder(q), InOrder(r),
           \A e \in ToSet(q), f \in ToSet(r) : Earlier(e, f)
    PROVE  InOrder(q \o r) /\ ToSet(q \o r) = ToSet(q) \cup ToSet(r)
  <1>1. /\ Len(q) \in Nat /\ DOMAIN q = 1..Len(q)
        /\ Len(r) \in Nat /\ DOMAIN r = 1..Len(r)
        /\ DOMAIN (q \o r) = 1..(Len(q) + Len(r))
    OBVIOUS
  <1>2. /\ \A i \in DOMAIN q : i \in DOMAIN (q \o r) /\ (q \o r)[i] = q[i]
        /\ \A i \in DOMAIN r : Len(q) + i \in DOMAIN (q \o r) /\ (q \o r)[Len(q) + i] = r[i]
    BY <1>1
  <1>3. \A i \in DOMAIN (q \o r) :
           \/ i \in DOMAIN q /\ (q \o r)[i] = q[i]
           \/ i > Len(q) /\ i - Len(q) \in DOMAIN r /\ (q \o r)[i] = r[i - Len(q)]
    BY <1>1
  <1>4. InOrder(q \o r)
    <2> SUFFICES ASSUME NEW i \in DOMAIN (q \o r), NEW j \in DOMAIN (q \o r), i < j
                 PROVE  Earlier((q \o r)[i], (q \o r)[j])
      BY DEF InOrder
    <2>1. CASE i \in DOMAIN q /\ j \in DOMAIN q
      BY <1>2, <2>1 DEF InOrder
    <2>2. CASE i \in DOMAIN q /\ j \notin DOMAIN q
      BY <1>2, <1>3, <2>2 DEF ToSet
    <2>3. CASE i \notin DOMAIN q
      <3>1. i > Len(q) /\ i - Len(q) \in DOMAIN r /\ (q \o r)[i] = r[i - Len(q)]
        BY <1>3, <2>3
      <3>2. j > Len(q) /\ j - Len(q) \in DOMAIN r /\ (q \o r)[j] = r[j - Len(q)]
        BY <1>1, <1>3, <3>1
      <3>3. i - Len(q) < j - Len(q)
        BY <1>1, <3>1, <3>2
      <3>4. QED
        BY <3>1, <3>2, <3>3 DEF InOrder
    <2>4. QED
      BY <2>1, <2>2, <2>3
  <1>5. ToSet(q \o r) = ToSet(q) \cup ToSet(r)
    <2>1. \A e \in ToSet(q) \cup ToSet(r) : e \in ToSet(q \o r)
      BY <1>2 DEF ToSet
    <2>2. \A e \in ToSet(q \o r) : e \in ToSet(q) \cup ToSet(r)
      BY <1>3 DEF ToSet
    <2>3. QED
      BY <2>1, <2>2
  <1>6. QED
    BY <1>4, <1>5

\* A batch goes on where the watermark was, and what it cannot send is excused.
LEMMA FlowPoll ==
    ASSUME FlowInv, TypeInv', UNCHANGED stored, NEW t \in Tabs, NEW c \in Conns,
           Poll(t, c)
    PROVE  FlowInv'
  <1> DEFINE q == conn[t][c].queue
             m == conn[t][c].mark
  <1>1. TypeInv /\ StreamInv /\ stored \subseteq Events /\ IsFiniteSet(stored)
    BY DEF FlowInv, TypeInv, StoreInv
  <1>2. /\ UNCHANGED tab
        /\ conn[t][c] \in Open /\ conn'[t][c] \in Open
        /\ \A u \in Tabs, d \in Conns : u # t \/ d # c => conn'[u][d] = conn[u][d]
        /\ \A u \in Tabs : missed[u] \subseteq missed'[u]
    BY <1>1, PollIs
  <1>3. PICK docs \in Fetched(m) : \E bad, frames : Polled(t, c, docs, bad, frames)
    BY <1>1, PollIs
  <1>4. PICK bad, frames : Polled(t, c, docs, bad, frames)
    BY <1>3
  <1>5. m \in Marks /\ q \in Seq(Events) /\ IsOpen(t, c)
    BY <1>2 DEF Open, IsOpen
  <1> DEFINE last == Last(docs)
  <1>6. /\ last \in ToSet(docs) /\ ToSet(docs) \subseteq stored /\ IsFiniteSet(ToSet(docs))
        /\ \A e \in ToSet(docs) : Newer(e, m) /\ ~Newer(e, Mark(last))
        /\ \A e \in stored : Newer(e, m) /\ ~Newer(e, Mark(last)) => e \in ToSet(docs)
    <2>1. docs # <<>>
      BY <1>4 DEF Polled
    <2>2. QED
      BY <1>1, <1>5, <2>1, FetchedIs
  <1>7. ToSet(frames) = ToSet(docs) \ bad /\ InOrder(frames) /\ frames \in Seq(Events)
    <2>1. IsFiniteSet(ToSet(docs) \ bad) /\ frames \in Sorted(ToSet(docs) \ bad)
      BY <1>4, <1>6, FS_Subset DEF Polled
    <2>2. frames \in Seq(ToSet(docs) \ bad) /\ ToSet(frames) = ToSet(docs) \ bad
          /\ InOrder(frames)
      BY <2>1, SortedIs
    <2>3. ToSet(docs) \ bad \subseteq Events
      BY <1>1, <1>6
    <2>4. QED
      BY <2>2, <2>3, SeqMonotonic
  <1>8. conn'[t][c].queue = q \o frames /\ conn'[t][c].mark = Mark(last)
        /\ conn'[t][c].start = conn[t][c].start /\ conn'[t][c].resumed = conn[t][c].resumed
    BY <1>2, <1>4 DEF Polled, Open
  <1>9. missed'[t] = missed[t] \cup bad
    BY <1>1, <1>4 DEF Polled, StreamInv
  <1> HIDE DEF q, m, last
  <1>10. InOrder(q) /\ ToSet(q) \subseteq stored /\ \A e \in ToSet(q) : ~Newer(e, m)
    BY <1>1, <1>5 DEF FlowInv, Follows, StreamInv, q, m
  <1>11. InOrder(q \o frames) /\ ToSet(q \o frames) = ToSet(q) \cup ToSet(frames)
    <2>1. \A e \in ToSet(q), f \in ToSet(frames) : Earlier(e, f)
      BY <1>1, <1>5, <1>6, <1>7, <1>10, Order
    <2>2. QED
      BY <1>5, <1>7, <1>10, <2>1, Joined
  <1>12. \A e \in stored : ~Newer(e, m) => ~Newer(e, Mark(last))
    BY <1>1, <1>5, <1>6, Order
  <1>13. \A e \in ToSet(q \o frames) : ~Newer(e, Mark(last))
    BY <1>6, <1>7, <1>10, <1>11, <1>12
  <1>14. \A e \in stored : ~Newer(e, Mark(last)) =>
            \/ Known(t, e)'
            \/ e \in ToSet(q \o frames)
            \/ ~conn[t][c].resumed /\ ~Newer(e, conn[t][c].start)
    <2> SUFFICES ASSUME NEW e \in stored, ~Newer(e, Mark(last))
                 PROVE  \/ Known(t, e)'
                        \/ e \in ToSet(q \o frames)
                        \/ ~conn[t][c].resumed /\ ~Newer(e, conn[t][c].start)
      OBVIOUS
    <2>1. CASE Newer(e, m)
      BY <1>6, <1>7, <1>9, <1>11, <2>1 DEF Known
    <2>2. CASE ~Newer(e, m)
      <3>1. \/ Known(t, e)
            \/ e \in ToSet(q)
            \/ ~conn[t][c].resumed /\ ~Newer(e, conn[t][c].start)
        BY <1>5, <2>2 DEF FlowInv, Follows, q, m
      <3>2. Known(t, e) => Known(t, e)'
        BY <1>2 DEF Known
      <3>3. QED
        BY <1>11, <3>1, <3>2
    <2>3. QED
      BY <2>1, <2>2
  <1>15. Asked(t, c)' /\ Follows(t, c)'
    <2>1. conn'[t][c].state = "open"
      BY <1>2 DEF Open
    <2>2. QED
      BY <1>8, <1>11, <1>13, <1>14, <2>1 DEF Asked, Follows, IsOpen
  <1>16. \A e \in stored : ~Newer(e, tab'[t].last) => Known(t, e)'
    BY <1>2 DEF FlowInv, NothingSkipped, Known
  <1>17. QED
    BY <1>2, <1>15, <1>16, FlowOne

\* The frame a tab takes has nothing before it that the tab could still get from
\* this connection.
LEMMA FlowReceive ==
    ASSUME FlowInv, TypeInv', UNCHANGED stored, NEW t \in Tabs, NEW c \in Conns,
           Receive(t, c)
    PROVE  FlowInv'
  <1> DEFINE q == conn[t][c].queue
             m == conn[t][c].mark
  <1>0. PICK e : e = Head(q)
    OBVIOUS
  <1>1. TypeInv /\ StreamInv /\ stored \subseteq Events
    BY DEF FlowInv, TypeInv, StoreInv
  <1>2. /\ conn[t][c] \in Open /\ q # <<>> /\ e \in stored /\ e \in ToSet(q)
        /\ Received(t, c, e)
        /\ \A u \in Tabs : u # t => tab'[u] = tab[u]
        /\ conn'[t][c] \in Open /\ conn'[t][c].queue = Tail(q)
        /\ \A u \in Tabs, d \in Conns : u # t \/ d # c => conn'[u][d] = conn[u][d]
        /\ \A u \in Tabs : missed[u] \subseteq missed'[u]
    BY <1>0, <1>1, ReceiveIs
  <1>3. q \in Seq(Events) /\ m \in Marks /\ IsOpen(t, c)
    BY <1>2 DEF Open, IsOpen
  <1>4. /\ conn'[t][c].mark = m
        /\ conn'[t][c].start = conn[t][c].start /\ conn'[t][c].resumed = conn[t][c].resumed
    BY <1>2 DEF Received, Open
  <1>5. /\ tab'[t].last = Mark(e) /\ tab'[t].seen = tab[t].seen \cup {e}
        /\ missed'[t] = missed[t] \cup Skipped(t, c, e)
    BY <1>1, <1>2 DEF Received, StreamInv
  <1>6. /\ InOrder(q) /\ \A f \in ToSet(q) : ~Newer(f, m)
        /\ \A f \in stored : ~Newer(f, m) =>
              \/ Known(t, f)
              \/ f \in ToSet(q)
              \/ ~conn[t][c].resumed /\ ~Newer(f, conn[t][c].start)
    BY <1>3 DEF FlowInv, Follows
  <1> HIDE DEF q, m
  <1>7. /\ \A i \in DOMAIN Tail(q) : Tail(q)[i] = q[i + 1] /\ i + 1 \in DOMAIN q
        /\ DOMAIN Tail(q) = 1..(Len(q) - 1) /\ Len(q) \in Nat \ {0}
        /\ ToSet(Tail(q)) \subseteq ToSet(q)
        /\ e = q[1] /\ 1 \in DOMAIN q
        /\ \A f \in ToSet(q) : f = e \/ \E i \in DOMAIN q : i > 1 /\ q[i] = f
    BY <1>0, <1>2, <1>3, TailIs
  <1>8. \A f \in ToSet(q) : f = e \/ Earlier(e, f)
    BY <1>6, <1>7 DEF InOrder
  <1>9. \A f \in ToSet(q) : f = e \/ f \in ToSet(Tail(q))
    <2>1. DOMAIN q = 1..Len(q)
      BY <1>3
    <2>2. \A i \in DOMAIN q : i > 1 => i - 1 \in DOMAIN Tail(q) /\ Tail(q)[i - 1] = q[i]
      BY <1>7, <2>1
    <2>3. QED
      BY <1>7, <2>2 DEF ToSet
  <1>10. InOrder(Tail(q))
    BY <1>6, <1>7 DEF InOrder
  <1>11. \A f : Known(t, f) => Known(t, f)'
    BY <1>2, <1>5 DEF Known
  <1>12. Known(t, e)'
    BY <1>5 DEF Known
  <1>13. \A f \in stored : ~Newer(f, Mark(e)) => Known(t, f)'
    <2> SUFFICES ASSUME NEW f \in stored, ~Newer(f, Mark(e)) PROVE Known(t, f)'
      OBVIOUS
    <2>1. f \in Events /\ e \in Events /\ ~Earlier(e, f)
      BY <1>1, <1>2, Order
    <2>2. ~Newer(f, m)
      BY <1>2, <1>3, <1>6, <2>1, Order
    <2>3. f \in ToSet(q) => f = e
      BY <1>8, <2>1
    <2>4. ASSUME ~conn[t][c].resumed, ~Newer(f, conn[t][c].start), f # e
          PROVE  Known(t, f)'
      BY <1>5, <2>4 DEF Skipped, Known
    <2>5. QED
      BY <1>6, <1>11, <1>12, <2>2, <2>3, <2>4
  <1>14. Asked(t, c)' /\ Follows(t, c)'
    <2>1. conn'[t][c].state = "open"
      BY <1>2 DEF Open
    <2>2. \A f \in stored : ~Newer(f, m) =>
             \/ Known(t, f)'
             \/ f \in ToSet(Tail(q))
             \/ ~conn[t][c].resumed /\ ~Newer(f, conn[t][c].start)
      BY <1>6, <1>9, <1>11, <1>12
    <2>3. \A f \in ToSet(Tail(q)) : ~Newer(f, m)
      BY <1>6, <1>7
    <2>4. QED
      BY <1>2, <1>4, <1>10, <2>1, <2>2, <2>3 DEF Asked, Follows, IsOpen
  <1>15. \A u \in Tabs : /\ tab[u].seen \subseteq tab'[u].seen
                         /\ missed[u] \subseteq missed'[u]
    BY <1>2, <1>5
  <1>16. QED
    BY <1>2, <1>5, <1>13, <1>14, <1>15, FlowOne

LEMMA FlowStep == ASSUME FlowInv, [Next]_vars PROVE FlowInv'
  <1>1. TypeInv /\ StoreInv /\ StreamInv /\ TypeInv' /\ stored \subseteq stored'
    BY TypeStep DEF FlowInv, TypeInv
  <1>2. CASE WriteEvent
    <2>1. UNCHANGED <<tab, conn>>
          /\ missed' = [t \in Tabs |->
                          missed[t] \cup {e \in stored' \ stored : Behind(t, e)}]
      BY <1>2 DEF WriteEvent
    <2>2. \A t \in Tabs : Excused(t) /\ missed[t] \subseteq missed'[t]
      BY <2>1 DEF Excused
    <2>3. QED
      BY <1>1, <2>1, <2>2, FlowQuiet
  <1>3. CASE StreamNext
    <2>1. stored' = stored
      BY <1>1, <1>3, StreamKeepsStore
    <2>2. \A t \in Tabs : Excused(t)
      BY <2>1 DEF Excused
    <2>3. CASE Quiet
      BY <1>1, <2>2, <2>3, FlowQuiet DEF Quiet
    <2>4. ASSUME NEW t \in Tabs, NEW e \in Events, HearClaim(t, e) PROVE FlowInv'
      BY <1>1, <2>2, <2>4, HearClaimIs, FlowQuiet
    <2>5. QED
      BY <1>1, <1>3, <2>1, <2>3, <2>4, TabCases, FlowReload, FlowConnect, FlowOpen,
         FlowPoll, FlowReceive
  <1>4. CASE UNCHANGED vars
    <2>1. UNCHANGED <<tab, conn, stored, missed>>
      BY <1>4 DEF vars, writerVars, streamVars
    <2>2. \A t \in Tabs : Excused(t)
      BY <2>1 DEF Excused
    <2>3. QED
      BY <1>1, <2>1, <2>2, FlowQuiet
  <1>5. QED
    BY <1>2, <1>3, <1>4 DEF Next

\* A tab's position never passes an event it has not received: not at the end of
\* a batch in the middle of a created_at, not across reconnects, not when two
\* connections of the tab move it in turns.
THEOREM PositionIsHonest == Spec => []NothingSkipped
  <1>1. FlowInv => NothingSkipped
    BY DEF FlowInv
  <1>2. FlowInv /\ [Next]_vars => FlowInv'
    BY FlowStep
  <1>3. QED
    BY FlowInit, <1>1, <1>2, PTL DEF Spec

-----------------------------------------------------------------------------
(* Nothing is repeated *)

\* A connection that will not bring an event: its watermark is past it, and what
\* is on its way comes after it.
Passed(t, c, e) ==
    /\ conn[t][c].state = "opening" => conn[t][c].url = NoMark \/ ~Newer(e, conn[t][c].url)
    /\ IsOpen(t, c) =>
          /\ ~Newer(e, conn[t][c].mark)
          /\ \A f \in ToSet(conn[t][c].queue) : Earlier(e, f)

\* A tab is done with an event if it would drop it, or cannot get it any more.
Past(t, e) ==
    /\ tab[t].last = NoMark \/ ~Newer(e, tab[t].last)
    /\ \A c \in Conns : Passed(t, c, e)

Done(t, e) == e \in tab[t].seen \cup tab[t].claimed \/ Past(t, e)

DoneTabs(e) == {t \in Tabs : Done(t, e)}

\* Each surfacing of an event was that of another tab, which is done with it.  If
\* the claims were heard in time it was one, and every tab is done with the event
\* or has a claim coming.
ShowInv ==
    \A e \in Events : shown[e] > 0 =>
       /\ e \in stored
       /\ shown[e] <= Cardinality(DoneTabs(e))
       /\ e \notin raced =>
            /\ shown[e] = 1
            /\ \A t \in Tabs : Done(t, e) \/ <<t, e>> \in bus

LEMMA DoneCounted ==
    ASSUME NEW e
    PROVE  /\ IsFiniteSet(DoneTabs(e)) /\ Cardinality(DoneTabs(e)) \in Nat
           /\ Cardinality(DoneTabs(e)) <= Cardinality(Tabs)
  BY FS_Subset, FS_CardinalityType, StreamAssumption DEF DoneTabs

\* The tabs done with an event, in a step that undoes none.
LEMMA DoneGrows ==
    ASSUME NEW e, \A t \in Tabs : Done(t, e) => Done(t, e)'
    PROVE  /\ Cardinality(DoneTabs(e)') \in Nat
           /\ Cardinality(DoneTabs(e)) <= Cardinality(DoneTabs(e)')
           /\ (\E t \in Tabs : ~Done(t, e) /\ Done(t, e)')
                 => Cardinality(DoneTabs(e)) + 1 <= Cardinality(DoneTabs(e)')
  <1> DEFINE A == DoneTabs(e)
             B == {t \in Tabs : Done(t, e)'}
  <1>1. B = DoneTabs(e)' /\ A \subseteq B
    BY DEF DoneTabs
  <1>2. IsFiniteSet(A) /\ Cardinality(A) \in Nat
    BY DoneCounted
  <1>3. IsFiniteSet(B) /\ Cardinality(B) \in Nat
    BY FS_Subset, FS_CardinalityType, StreamAssumption
  <1>4. Cardinality(A) <= Cardinality(B)
    BY <1>1, <1>3, FS_Subset
  <1>5. ASSUME NEW t \in Tabs, ~Done(t, e), Done(t, e)'
        PROVE  Cardinality(A) + 1 <= Cardinality(B)
    <2>1. t \notin A /\ A \cup {t} \subseteq B
      BY <1>1, <1>5 DEF DoneTabs
    <2>2. Cardinality(A \cup {t}) = Cardinality(A) + 1
      BY <1>2, <2>1, FS_AddElement
    <2>3. Cardinality(A \cup {t}) <= Cardinality(B)
      BY <1>3, <2>1, FS_Subset
    <2>4. QED
      BY <2>2, <2>3
  <1>6. QED
    BY <1>1, <1>3, <1>4, <1>5

\* A step that surfaces nothing.
LEMMA ShowKept ==
    ASSUME ShowInv, TypeInv, UNCHANGED <<shown, raced>>, stored \subseteq stored',
           \A t \in Tabs, e \in stored : Done(t, e) => Done(t, e)',
           \A t \in Tabs, e \in stored : <<t, e>> \in bus => <<t, e>> \in bus' \/ Done(t, e)'
    PROVE  ShowInv'
  <1> SUFFICES ASSUME NEW e \in Events, shown[e] > 0
               PROVE  /\ e \in stored'
                      /\ shown[e] <= Cardinality(DoneTabs(e)')
                      /\ e \notin raced =>
                           /\ shown[e] = 1
                           /\ \A t \in Tabs : Done(t, e)' \/ <<t, e>> \in bus'
    BY DEF ShowInv
  <1>1. /\ e \in stored /\ shown[e] <= Cardinality(DoneTabs(e)) /\ shown[e] \in Nat
        /\ e \notin raced =>
             shown[e] = 1 /\ \A t \in Tabs : Done(t, e) \/ <<t, e>> \in bus
    BY DEF ShowInv, TypeInv, StreamInv
  <1>2. Cardinality(DoneTabs(e)) <= Cardinality(DoneTabs(e)')
        /\ Cardinality(DoneTabs(e)') \in Nat /\ Cardinality(DoneTabs(e)) \in Nat
    BY <1>1, DoneGrows, DoneCounted
  <1>3. shown[e] <= Cardinality(DoneTabs(e)')
    BY <1>1, <1>2
  <1>4. QED
    BY <1>1, <1>3

\* A step that leaves a tab its connections, or closes some, undoes nothing.
LEMMA DoneKept ==
    ASSUME NEW t \in Tabs, NEW e, tab'[t].last = tab[t].last,
           tab[t].seen \subseteq tab'[t].seen, tab[t].claimed \subseteq tab'[t].claimed,
           \A c \in Conns : conn'[t][c] = conn[t][c] \/ conn'[t][c] = Closed \/ Passed(t, c, e)',
           Done(t, e)
    PROVE  Done(t, e)'
  <1>1. \A c \in Conns : conn'[t][c] = Closed => Passed(t, c, e)'
    BY ClosedIs DEF Passed, IsOpen
  <1>2. \A c \in Conns : Passed(t, c, e) /\ conn'[t][c] = conn[t][c] => Passed(t, c, e)'
    BY DEF Passed, IsOpen
  <1>3. Past(t, e) => Past(t, e)'
    BY <1>1, <1>2 DEF Past
  <1>4. QED
    BY <1>3 DEF Done

\* A tab that is loaded again gets no event again: a connection starts anew.
LEMMA DoneReload ==
    ASSUME StreamInv, NEW t \in Tabs, Reload(t), NEW u \in Tabs, NEW e, Done(u, e)
    PROVE  Done(u, e)'
  <1>1. CASE u = t
    <2>1. tab'[t].last = NoMark /\ \A c \in Conns : conn'[t][c] = Closed
      BY ReloadIs DEF FreshTab
    <2>2. QED
      BY <1>1, <2>1, ClosedIs DEF Done, Past, Passed, IsOpen
  <1>2. CASE u # t
    BY <1>2, ReloadIs, DoneKept
  <1>3. QED
    BY <1>1, <1>2

LEMMA DoneConnect ==
    ASSUME StreamInv, NEW t \in Tabs, NEW c \in Conns, Connect(t, c),
           NEW u \in Tabs, NEW e, Done(u, e)
    PROVE  Done(u, e)'
  <1>1. /\ \A v \in Tabs : /\ tab'[v].last = tab[v].last /\ tab'[v].seen = tab[v].seen
                           /\ tab'[v].claimed = tab[v].claimed
        /\ conn'[t][c] \in Opening /\ conn'[t][c].url = tab[t].last
        /\ \A v \in Tabs, d \in Conns : v # t \/ d # c => conn'[v][d] = conn[v][d]
    BY ConnectIs
  <1>2. CASE e \in tab[u].seen \cup tab[u].claimed
    BY <1>1, <1>2 DEF Done
  <1>3. CASE Past(u, e)
    <2>1. u = t => Passed(t, c, e)'
      BY <1>1, <1>3 DEF Past, Passed, Opening, IsOpen
    <2>2. \A d \in Conns : conn'[u][d] = conn[u][d] \/ Passed(u, d, e)'
      BY <1>1, <2>1
    <2>3. QED
      BY <1>1, <2>2, DoneKept
  <1>4. QED
    BY <1>2, <1>3 DEF Done

\* A stream that starts anew starts after every event that is stored.
LEMMA DoneOpen ==
    ASSUME TypeInv, NEW t \in Tabs, NEW c \in Conns, OpenStream(t, c),
           NEW u \in Tabs, NEW e \in stored, Done(u, e)
    PROVE  Done(u, e)'
  <1> DEFINE url == conn[t][c].url
  <1>1. /\ UNCHANGED tab /\ url \in Marks \cup {NoMark}
        /\ conn'[t][c] \in Open /\ conn'[t][c].mark = Seed(url)
        /\ ToSet(conn'[t][c].queue) = {}
        /\ \A v \in Tabs, d \in Conns : v # t \/ d # c => conn'[v][d] = conn[v][d]
    BY OpenStreamIs DEF Opening
  <1>2. CASE e \in tab[u].seen \cup tab[u].claimed
    BY <1>1, <1>2 DEF Done
  <1>3. CASE Past(u, e)
    <2>1. ~Newer(e, [at |-> clock, id |-> None])
      <3>1. e \in Events /\ e.at <= clock /\ clock \in 0..MaxClock
        BY DEF TypeInv, StoreInv, Dated
      <3>2. e.at \in Nat /\ clock \in Nat
        BY <3>1, Constants DEF Events
      <3>3. QED
        BY <3>1, <3>2 DEF Newer
    <2>2. u = t => ~Newer(e, Seed(url))
      <3>1. u = t => url = NoMark \/ ~Newer(e, url)
        BY <1>3 DEF Past, Passed, OpenStream
      <3>2. QED
        BY <2>1, <3>1 DEF Seed
    <2>3. u = t => Passed(t, c, e)'
      BY <1>1, <2>2 DEF Passed, Open, IsOpen
    <2>4. \A d \in Conns : conn'[u][d] = conn[u][d] \/ Passed(u, d, e)'
      BY <1>1, <2>3
    <2>5. QED
      BY <1>1, <2>4, DoneKept
  <1>4. QED
    BY <1>2, <1>3 DEF Done

\* What a batch adds comes after what the watermark is past.
LEMMA DonePoll ==
    ASSUME TypeInv, NEW t \in Tabs, NEW c \in Conns, Poll(t, c),
           NEW u \in Tabs, NEW e \in stored, Done(u, e)
    PROVE  Done(u, e)'
  <1> DEFINE q == conn[t][c].queue
             m == conn[t][c].mark
  <1>1. StreamInv /\ stored \subseteq Events /\ IsFiniteSet(stored)
    BY DEF TypeInv, StoreInv
  <1>2. /\ UNCHANGED tab
        /\ conn[t][c] \in Open /\ conn'[t][c] \in Open
        /\ \A v \in Tabs, d \in Conns : v # t \/ d # c => conn'[v][d] = conn[v][d]
        /\ \E docs \in Fetched(m) : \E bad, frames : Polled(t, c, docs, bad, frames)
    BY PollIs
  <1>3. CASE e \in tab[u].seen \cup tab[u].claimed
    BY <1>2, <1>3 DEF Done
  <1>4. CASE Past(u, e)
    <2>1. ASSUME u = t PROVE Passed(t, c, e)'
      <3>0. PICK docs \in Fetched(m) : \E bad, frames : Polled(t, c, docs, bad, frames)
        BY <1>2
      <3>1. PICK bad, frames : Polled(t, c, docs, bad, frames)
        BY <3>0
      <3>2. /\ m \in Marks /\ q \in Seq(Events)
            /\ ~Newer(e, m) /\ \A f \in ToSet(q) : Earlier(e, f)
        BY <1>2, <1>4, <2>1 DEF Open, Past, Passed, IsOpen
      <3> DEFINE last == Last(docs)
      <3>3. /\ last \in ToSet(docs) /\ ToSet(docs) \subseteq stored
            /\ IsFiniteSet(ToSet(docs))
            /\ \A f \in ToSet(docs) : Newer(f, m) /\ ~Newer(f, Mark(last))
        <4>1. docs # <<>>
          BY <3>1 DEF Polled
        <4>2. QED
          BY <1>1, <3>2, <4>1, FetchedIs
      <3>4. ToSet(frames) \subseteq ToSet(docs) /\ frames \in Seq(Events)
        <4>1. IsFiniteSet(ToSet(docs) \ bad) /\ frames \in Sorted(ToSet(docs) \ bad)
          BY <3>1, <3>3, FS_Subset DEF Polled
        <4>2. frames \in Seq(ToSet(docs) \ bad) /\ ToSet(frames) = ToSet(docs) \ bad
          BY <4>1, SortedIs
        <4>3. ToSet(docs) \ bad \subseteq Events
          BY <1>1, <3>3
        <4>4. QED
          BY <4>2, <4>3, SeqMonotonic
      <3>5. conn'[t][c].queue = q \o frames /\ conn'[t][c].mark = Mark(last)
            /\ conn'[t][c].state = "open"
        BY <1>2, <3>1 DEF Polled, Open
      <3> HIDE DEF q, m, last
      <3>6. \A f \in ToSet(docs) : Earlier(e, f)
        BY <1>1, <3>2, <3>3, Order
      <3>7. ~Newer(e, Mark(last))
        BY <1>1, <3>2, <3>3, <3>6, Order
      <3>8. \A f \in ToSet(q \o frames) : f \in ToSet(q) \/ f \in ToSet(frames)
        BY <3>2, <3>4 DEF ToSet
      <3>9. \A f \in ToSet(q \o frames) : Earlier(e, f)
        BY <3>2, <3>4, <3>6, <3>8
      <3>10. QED
        BY <3>5, <3>7, <3>9 DEF Passed, IsOpen
    <2>2. \A d \in Conns : conn'[u][d] = conn[u][d] \/ Passed(u, d, e)'
      BY <1>2, <2>1
    <2>3. QED
      BY <1>2, <2>2, DoneKept
  <1>5. QED
    BY <1>3, <1>4 DEF Done

\* A frame that moves the position comes after what the tab is done with.
LEMMA DoneReceive ==
    ASSUME TypeInv, NEW t \in Tabs, NEW c \in Conns, Receive(t, c),
           NEW u \in Tabs, NEW e \in stored, Done(u, e)
    PROVE  Done(u, e)'
  <1> DEFINE q == conn[t][c].queue
  <1>0. PICK h : h = Head(q)
    OBVIOUS
  <1>1. StreamInv /\ stored \subseteq Events
    BY DEF TypeInv, StoreInv
  <1>2. /\ conn[t][c] \in Open /\ h \in stored /\ h \in ToSet(q) /\ q # <<>>
        /\ Received(t, c, h)
        /\ \A v \in Tabs : v # t => tab'[v] = tab[v]
        /\ conn'[t][c] \in Open /\ conn'[t][c].queue = Tail(q)
        /\ \A v \in Tabs, d \in Conns : v # t \/ d # c => conn'[v][d] = conn[v][d]
    BY <1>0, ReceiveIs
  <1>3. CASE u # t
    BY <1>2, <1>3, DoneKept
  <1>4. CASE u = t /\ e \in tab[t].seen \cup tab[t].claimed
    BY <1>2, <1>4 DEF Received, Done
  <1>5. CASE u = t /\ Past(t, e)
    <2>1. conn[t][c].state = "open" /\ conn'[t][c].state = "open"
      BY <1>2 DEF Open
    <2>2. ~Newer(e, conn[t][c].mark) /\ \A f \in ToSet(q) : Earlier(e, f)
      BY <1>5, <2>1 DEF Past, Passed, IsOpen
    <2>3. ToSet(Tail(q)) \subseteq ToSet(q)
      <3>1. q \in Seq(Events)
        BY <1>2 DEF Open
      <3>2. QED
        BY <1>2, <3>1, TailIs
    <2>4. conn'[t][c].mark = conn[t][c].mark
      BY <1>2 DEF Received, Open
    <2>5. Passed(t, c, e)'
      BY <1>2, <2>1, <2>2, <2>3, <2>4 DEF Passed, IsOpen
    <2>6. ~Newer(e, Mark(h)) /\ tab'[t].last = Mark(h)
      <3>1. Earlier(e, h) /\ e \in Events /\ h \in Events
        BY <1>1, <1>2, <2>2
      <3>2. ~Earlier(h, e)
        BY <3>1, Order
      <3>3. QED
        BY <1>2, <3>1, <3>2, Order DEF Received
    <2>7. \A d \in Conns : d # c => Passed(t, d, e)'
      BY <1>2, <1>5 DEF Past, Passed, IsOpen
    <2>8. QED
      BY <1>5, <2>5, <2>6, <2>7 DEF Done, Past
  <1>6. QED
    BY <1>3, <1>4, <1>5 DEF Done

\* A tab that surfaces an event was not done with it, and is from now on.
LEMMA Surfacing ==
    ASSUME TypeInv, NEW t \in Tabs, NEW c \in Conns, Receive(t, c), NEW h,
           h = Head(conn[t][c].queue), Surfaces(tab[t], h)
    PROVE  ~Done(t, h) /\ Done(t, h)'
  <1>1. h \in ToSet(conn[t][c].queue) /\ h \in stored /\ Received(t, c, h)
    BY ReceiveIs
  <1>2. h \in Events
    BY <1>1 DEF TypeInv, StoreInv
  <1>3. ~Past(t, h)
    BY <1>1, <1>2, Order DEF Past, Passed, Receive
  <1>4. QED
    BY <1>1, <1>3 DEF Surfaces, Done, Received

LEMMA ShowReceive ==
    ASSUME ShowInv, TypeInv, UNCHANGED stored, NEW t \in Tabs, NEW c \in Conns,
           Receive(t, c)
    PROVE  ShowInv'
  <1>1. PICK h : h = Head(conn[t][c].queue)
    OBVIOUS
  <1>2. h \in stored /\ Received(t, c, h)
    BY <1>1, ReceiveIs
  <1>3. \A u \in Tabs, e \in stored : Done(u, e) => Done(u, e)'
    BY DoneReceive
  <1>4. CASE ~Surfaces(tab[t], h)
    <2>1. UNCHANGED <<bus, shown, raced>>
      BY <1>2, <1>4 DEF Received
    <2>2. QED
      BY <1>3, <2>1, ShowKept
  <1>5. CASE Surfaces(tab[t], h)
    <2>1. /\ bus' = bus \cup {<<o, h>> : o \in Tabs \ {t}}
          /\ shown' = [shown EXCEPT ![h] = shown[h] + 1]
          /\ raced' = IF <<t, h>> \in bus THEN raced \cup {h} ELSE raced
      BY <1>2, <1>5 DEF Received
    <2>2. h \in Events /\ shown \in [Events -> Nat]
      BY <1>2 DEF TypeInv, StoreInv, StreamInv
    <2>3. ~Done(t, h) /\ Done(t, h)'
      BY <1>1, <1>5, Surfacing
    <2>4. ASSUME NEW e \in Events, shown'[e] > 0, e # h
          PROVE  /\ e \in stored
                 /\ shown'[e] <= Cardinality(DoneTabs(e)')
                 /\ e \notin raced' =>
                      shown'[e] = 1 /\ \A u \in Tabs : Done(u, e)' \/ <<u, e>> \in bus'
      <3>1. shown'[e] = shown[e] /\ shown[e] \in Nat /\ (e \in raced' <=> e \in raced)
        BY <2>1, <2>2, <2>4
      <3>2. /\ e \in stored /\ shown[e] <= Cardinality(DoneTabs(e))
            /\ e \notin raced =>
                 shown[e] = 1 /\ \A u \in Tabs : Done(u, e) \/ <<u, e>> \in bus
        BY <2>4, <3>1 DEF ShowInv
      <3>3. Cardinality(DoneTabs(e)) <= Cardinality(DoneTabs(e)')
            /\ Cardinality(DoneTabs(e)') \in Nat /\ Cardinality(DoneTabs(e)) \in Nat
        BY <1>3, <3>2, DoneGrows, DoneCounted
      <3>4. shown'[e] <= Cardinality(DoneTabs(e)')
        BY <3>1, <3>2, <3>3
      <3>5. QED
        BY <1>3, <2>1, <3>1, <3>2, <3>4
    <2>5. shown'[h] <= Cardinality(DoneTabs(h)')
      <3>1. /\ Cardinality(DoneTabs(h)) + 1 <= Cardinality(DoneTabs(h)')
            /\ Cardinality(DoneTabs(h)') \in Nat /\ Cardinality(DoneTabs(h)) \in Nat
        BY <1>2, <1>3, <2>3, DoneGrows, DoneCounted
      <3>2. shown[h] <= Cardinality(DoneTabs(h))
        BY <2>2, <3>1 DEF ShowInv
      <3>3. QED
        BY <2>1, <2>2, <3>1, <3>2
    <2>6. ASSUME h \notin raced'
          PROVE  shown'[h] = 1 /\ \A u \in Tabs : Done(u, h)' \/ <<u, h>> \in bus'
      <3>1. h \notin raced /\ <<t, h>> \notin bus
        BY <2>1, <2>6
      <3>2. shown[h] = 0
        BY <2>2, <2>3, <3>1 DEF ShowInv
      <3>3. QED
        BY <2>1, <2>2, <2>3, <3>2
    <2>7. QED
      BY <1>2, <2>4, <2>5, <2>6 DEF ShowInv
  <1>6. QED
    BY <1>4, <1>5

LEMMA ShowStep == ASSUME TypeInv, ShowInv, [Next]_vars PROVE ShowInv'
  <1>1. StoreInv /\ StreamInv /\ stored \subseteq stored'
    BY TypeStep DEF TypeInv
  <1>2. ASSUME UNCHANGED <<tab, conn, bus, shown, raced>> PROVE ShowInv'
    <2>1. \A t \in Tabs, e \in stored : Done(t, e) => Done(t, e)'
      BY <1>2, DoneKept
    <2>2. QED
      BY <1>1, <1>2, <2>1, ShowKept
  <1>3. CASE StreamNext
    <2>1. stored' = stored
      BY <1>1, <1>3, StreamKeepsStore
    <2>2. CASE Quiet
      <3>1. \A t \in Tabs, e \in stored : Done(t, e) => Done(t, e)'
        BY <2>2, DoneKept DEF Quiet
      <3>2. QED
        BY <2>1, <2>2, <3>1, ShowKept DEF Quiet
    <2>3. ASSUME NEW t \in Tabs, Reload(t) PROVE ShowInv'
      <3>1. \A u \in Tabs, e \in stored : Done(u, e) => Done(u, e)'
        BY <1>1, <2>3, DoneReload
      <3>2. \A e : Done(t, e)'
        <4>1. tab'[t].last = NoMark /\ \A c \in Conns : conn'[t][c] = Closed
          BY <1>1, <2>3, ReloadIs DEF FreshTab
        <4>2. QED
          BY <4>1, ClosedIs DEF Done, Past, Passed, IsOpen
      <3>3. bus' = {b \in bus : b[1] # t} /\ UNCHANGED <<shown, raced>>
        BY <1>1, <2>3, ReloadIs
      <3>4. QED
        BY <2>1, <3>1, <3>2, <3>3, ShowKept
    <2>4. ASSUME NEW t \in Tabs, NEW e \in Events, HearClaim(t, e) PROVE ShowInv'
      <3>1. /\ bus' = bus \ {<<t, e>>} /\ UNCHANGED <<conn, shown, raced>>
            /\ \A u \in Tabs : /\ tab'[u].last = tab[u].last
                               /\ tab'[u].seen = tab[u].seen
                               /\ tab'[u].claimed = IF u = t THEN tab[u].claimed \cup {e}
                                                             ELSE tab[u].claimed
        BY <1>1, <2>4, HearClaimIs
      <3>2. \A u \in Tabs, f \in stored : Done(u, f) => Done(u, f)'
        BY <3>1, DoneKept
      <3>3. Done(t, e)'
        BY <3>1 DEF Done
      <3>4. \A u \in Tabs, f \in stored : <<u, f>> \in bus => <<u, f>> \in bus' \/ Done(u, f)'
        BY <3>1, <3>3
      <3>5. QED
        BY <2>1, <3>1, <3>2, <3>4, ShowKept
    <2>5. ASSUME NEW t \in Tabs, NEW c \in Conns, Connect(t, c) PROVE ShowInv'
      <3>1. UNCHANGED <<bus, shown, raced>>
        BY <2>5 DEF Connect
      <3>2. QED
        BY <1>1, <2>1, <2>5, <3>1, DoneConnect, ShowKept
    <2>6. ASSUME NEW t \in Tabs, NEW c \in Conns, OpenStream(t, c) PROVE ShowInv'
      <3>1. UNCHANGED <<bus, shown, raced>>
        BY <2>6 DEF OpenStream
      <3>2. QED
        BY <2>1, <2>6, <3>1, DoneOpen, ShowKept
    <2>7. ASSUME NEW t \in Tabs, NEW c \in Conns, Poll(t, c) PROVE ShowInv'
      <3>1. UNCHANGED <<bus, shown, raced>>
        BY <2>7 DEF Poll
      <3>2. QED
        BY <2>1, <2>7, <3>1, DonePoll, ShowKept
    <2>8. QED
      BY <1>1, <1>3, <2>1, <2>2, <2>3, <2>4, <2>5, <2>6, <2>7, ShowReceive, TabCases
  <1>4. QED
    BY <1>2, <1>3 DEF Next, WriteEvent, vars, streamVars

\* An event is surfaced once, in one tab, unless two tabs handled it while the
\* claim of one was on its way to the other; neither two connections of a tab nor
\* a reconnect or a reload repeats one.
THEOREM SurfacedOnce == Spec => []ShownOnce
  <1>1. Init => ShowInv
    BY DEF Init, WriterInit, StreamInit, ShowInv
  <1>2. ASSUME TypeInv, ShowInv PROVE ShownOnce
    <2> SUFFICES ASSUME NEW e \in Events
                 PROVE  shown[e] <= IF e \in raced THEN Cardinality(Tabs) ELSE 1
      BY DEF ShownOnce
    <2>1. shown[e] \in Nat /\ Cardinality(Tabs) \in Nat
      BY <1>2, FS_CardinalityType, StreamAssumption DEF TypeInv, StreamInv
    <2>2. CASE shown[e] > 0
      <3>1. shown[e] <= Cardinality(DoneTabs(e)) /\ (e \notin raced => shown[e] = 1)
        BY <1>2, <2>2 DEF ShowInv
      <3>2. QED
        BY <2>1, <3>1, DoneCounted
    <2>3. QED
      BY <2>1, <2>2
  <1>3. TypeInv /\ ShowInv /\ [Next]_vars => TypeInv' /\ ShowInv'
    BY TypeStep, ShowStep
  <1>4. QED
    BY TypeInit, <1>1, <1>2, <1>3, PTL DEF Spec
=============================================================================
