----------------------------- MODULE EventStream ----------------------------
(***************************************************************************)
(* How a notification reaches the user's browser tabs: the generator that  *)
(* polls for events past a watermark, one per connection, and the tab,     *)
(* which resumes from the last id it has seen, reconnects after errors,    *)
(* drops what it has had before and leaves to the other tabs what they     *)
(* have claimed.  A tab may come to hold two connections: connect() waits  *)
(* for the token, and another connect() may start meanwhile.               *)
(* The refresh of a stream after 50 minutes is a break and a reconnect     *)
(* without delay.  The 500 ids a tab remembers are all it gets here.       *)
(***************************************************************************)
EXTENDS NotificationWriter, SequencesExt

CONSTANTS
    Tabs,
    Conns,  \* bound: connections a tab holds at a time
    Batch   \* MAX_DOCS_PER_TICK

ASSUME StreamAssumption == Batch \in Nat \ {0} /\ IsFiniteSet(Tabs)

VARIABLES
    tab,     \* the state of the hook in each tab
    conn,    \* each tab's connections, both ends
    bus,     \* BroadcastChannel: claims on their way to other tabs
    shown,   \* history: how often an event was surfaced
    raced,   \* history: events surfaced while a claim of theirs was on its way
    missed   \* history: events each tab is excused from

streamVars == <<tab, conn, bus, shown, raced, missed>>

None == -1

\* A watermark: created_at and _id, which a new connection has not.
Marks == [at : 0..MaxClock, id : Notices \cup {None}]

NoMark == [at |-> None, id |-> None]

Mark(e) == [at |-> e.at, id |-> e.notice]

\* connecting counts the calls that wait for the token, timers those that will
\* make one.  The tab can clear the newest only, taken to be the last to fire.
FreshTab == [last |-> NoMark, seen |-> {}, claimed |-> {}, current |-> None,
             connecting |-> 1, timers |-> 0]

Closed == [state |-> "closed"]

StreamInit ==
    /\ tab = [t \in Tabs |-> FreshTab]
    /\ conn = [t \in Tabs |-> [c \in Conns |-> Closed]]
    /\ bus = {}
    /\ shown = [e \in Events |-> 0]
    /\ raced = {}
    /\ missed = [t \in Tabs |-> {}]

IsOpen(t, c) == conn[t][c].state = "open"

\* Mutant: created_at alone decides, as before the compound watermark.
NewerByTime(e, mark) == e.at > mark.at

Newer(e, mark) ==
    e.at > mark.at \/ (mark.id # None /\ e.at = mark.at /\ e.notice > mark.id)

Earlier(e, f) == e.at < f.at \/ (e.at = f.at /\ e.notice < f.notice)

-----------------------------------------------------------------------------
(* Connecting *)

\* The token is there: a new EventSource with the last id in its URL.  Another
\* one that is open stays so.
Connect(t, c) ==
    /\ tab[t].connecting > 0 /\ conn[t][c] = Closed
    /\ tab' = [tab EXCEPT ![t].connecting = @ - 1, ![t].current = c]
    /\ conn' = [conn EXCEPT ![t][c] = [state |-> "opening", url |-> tab[t].last]]
    /\ UNCHANGED <<bus, shown, raced, missed, writerVars>>

TokenFails(t) ==
    /\ tab[t].connecting > 0
    /\ Fault("token")
    /\ tab' = [tab EXCEPT ![t].connecting = @ - 1, ![t].timers = @ + 1]
    /\ UNCHANGED <<conn, bus, shown, raced, missed, clock, stored, writer, mails, writes>>

ReconnectTimer(t) ==
    /\ tab[t].timers > 0
    /\ tab' = [tab EXCEPT ![t].timers = @ - 1, ![t].connecting = @ + 1]
    /\ UNCHANGED <<conn, bus, shown, raced, missed, writerVars>>

\* Mutant: a new connection replays the backlog.
SeedBacklog(url) == IF url = NoMark THEN [at |-> 0, id |-> None] ELSE url

Seed(url) == IF url = NoMark THEN [at |-> clock, id |-> None] ELSE url

\* The request reaches the gateway and the generator starts.
OpenStream(t, c) ==
    LET url == conn[t][c].url IN
    /\ conn[t][c].state = "opening"
    /\ conn' = [conn EXCEPT ![t][c] = [state |-> "open", start |-> Seed(url),
                     mark |-> Seed(url), resumed |-> url # NoMark, queue |-> <<>>]]
    /\ UNCHANGED <<tab, bus, shown, raced, missed, writerVars>>

\* The error listener closes its own source and forgets the current one.
Errored(t, c) ==
    /\ conn' = [conn EXCEPT ![t][c] = Closed]
    /\ tab' = [tab EXCEPT ![t].current = None, ![t].timers = @ + 1]

StreamBreaks(t, c) ==
    /\ conn[t][c] # Closed
    /\ Fault("break")
    /\ Errored(t, c)
    /\ UNCHANGED <<bus, shown, raced, missed, clock, stored, writer, mails, writes>>

\* The browser is online again: the current source is closed and replaced.
Online(t) ==
    /\ Fault("online")
    /\ conn' = [conn EXCEPT ![t] = [c \in Conns |->
                                      IF c = tab[t].current THEN Closed ELSE @[c]]]
    /\ tab' = [tab EXCEPT ![t].timers = IF @ > 0 THEN @ - 1 ELSE 0,
                          ![t].current = None, ![t].connecting = @ + 1]
    /\ UNCHANGED <<bus, shown, raced, missed, clock, stored, writer, mails, writes>>

\* The page is loaded again and knows nothing.
Reload(t) ==
    /\ Fault("reload")
    /\ tab' = [tab EXCEPT ![t] = FreshTab]
    /\ conn' = [conn EXCEPT ![t] = [c \in Conns |-> Closed]]
    /\ bus' = {b \in bus : b[1] # t}
    /\ UNCHANGED <<shown, raced, missed, clock, stored, writer, mails, writes>>

-----------------------------------------------------------------------------
(* Polling and handling *)

\* The sequences of all of S by created_at and id: there is one for a set of
\* stored events.
Sorted(S) == {s \in SetToSeqs(S) : \A i, j \in DOMAIN s : i < j => Earlier(s[i], s[j])}

\* The oldest events past the watermark, at most a batch of them.
Fetched(mark) ==
    LET past == {e \in stored : Newer(e, mark)}
    IN  {SubSeq(s, 1, IF Len(s) < Batch THEN Len(s) ELSE Batch) : s \in Sorted(past)}

\* The frames of a batch are sent in order and the watermark follows, past a
\* document that cannot be sent too.
Poll(t, c) ==
    /\ IsOpen(t, c)
    /\ \E docs \in Fetched(conn[t][c].mark) : \E bad \in SUBSET ToSet(docs) :
          \E frames \in Sorted(ToSet(docs) \ bad) :
             /\ docs # <<>>
             /\ IF bad = {} THEN UNCHANGED faults ELSE Fault("poison")
             /\ conn' = [conn EXCEPT ![t][c].queue = @ \o frames,
                                     ![t][c].mark = Mark(Last(docs))]
             /\ missed' = [missed EXCEPT ![t] = @ \cup bad]
    /\ UNCHANGED <<tab, bus, shown, raced, clock, stored, writer, mails, writes>>

\* A failed poll is told in a frame named error, which the tab's error listener
\* takes for the end of the connection.
PollFails(t, c) ==
    /\ IsOpen(t, c) /\ conn[t][c].queue = <<>>
    /\ Fault("poll")
    /\ Errored(t, c)
    /\ UNCHANGED <<bus, shown, raced, missed, clock, stored, writer, mails, writes>>

\* Events from before a connection that started anew, which the tab now leaves
\* behind.
Skipped(t, c, e) ==
    IF conn[t][c].resumed THEN {}
    ELSE {f \in stored \ tab[t].seen :
             ~Newer(f, Mark(e)) /\ f # e /\ ~Newer(f, conn[t][c].start)}

Surfaces(me, e) == e \notin me.seen /\ e \notin me.claimed

\* A frame moves the position of the tab, whatever becomes of it; the first tab
\* to claim the event surfaces it and tells the others.
Receive(t, c) ==
    LET me == tab[t]
        e  == Head(conn[t][c].queue)
        on == Surfaces(me, e)
    IN
    /\ IsOpen(t, c) /\ conn[t][c].queue # <<>>
    /\ conn' = [conn EXCEPT ![t][c].queue = Tail(@)]
    /\ tab' = [tab EXCEPT ![t].last = Mark(e), ![t].seen = @ \cup {e},
                          ![t].claimed = IF on THEN @ \cup {e} ELSE @]
    /\ bus' = IF on THEN bus \cup {<<o, e>> : o \in Tabs \ {t}} ELSE bus
    /\ shown' = IF on THEN [shown EXCEPT ![e] = @ + 1] ELSE shown
    /\ raced' = IF on /\ <<t, e>> \in bus THEN raced \cup {e} ELSE raced
    /\ missed' = [missed EXCEPT ![t] = @ \cup Skipped(t, c, e)]
    /\ UNCHANGED writerVars

HearClaim(t, e) ==
    /\ <<t, e>> \in bus
    /\ bus' = bus \ {<<t, e>>}
    /\ tab' = [tab EXCEPT ![t].claimed = @ \cup {e}]
    /\ UNCHANGED <<conn, shown, raced, missed, writerVars>>

TabStep(t) ==
    \/ ReconnectTimer(t)
    \/ \E c \in Conns : Connect(t, c) \/ OpenStream(t, c)

ConnStep(t, c) == Poll(t, c) \/ Receive(t, c)

StreamNext ==
    \E t \in Tabs :
      \/ TabStep(t) \/ TokenFails(t) \/ Online(t) \/ Reload(t)
      \/ \E c \in Conns : ConnStep(t, c) \/ StreamBreaks(t, c) \/ PollFails(t, c)
      \/ \E e \in Events : HearClaim(t, e)
=============================================================================
