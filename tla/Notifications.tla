---------------------------- MODULE Notifications ---------------------------
(***************************************************************************)
(* The writers of notifications and the streams that read them.            *)
(***************************************************************************)
EXTENDS EventStream

vars == <<writerVars, streamVars>>

Init == WriterInit /\ StreamInit

\* Where the streams and the position of a tab have got to: the position may
\* have moved back since a connection that is opening took it along.
Behind(t, e) ==
    \/ ~Newer(e, tab[t].last)
    \/ \E c \in Conns : conn[t][c].state = "opening" /\ ~Newer(e, conn[t][c].url)
    \/ \E c \in Conns : IsOpen(t, c) /\ ~Newer(e, conn[t][c].mark)

\* A tab is excused from an event that is stored behind its back.
WriteEvent ==
    /\ WriterNext
    /\ missed' = [t \in Tabs |-> missed[t] \cup {e \in stored' \ stored : Behind(t, e)}]
    /\ UNCHANGED <<tab, conn, bus, shown, raced>>

Next == WriteEvent \/ StreamNext

Spec == Init /\ [][Next]_vars

-----------------------------------------------------------------------------
(* Safety *)

\* The type invariant: an event has one document, a connection its positions.
TypeOK ==
    /\ clock \in 0..MaxClock
    /\ stored \subseteq Events
    /\ \A e, f \in stored : Id(e) = Id(f) => e = f
    /\ \A w \in Writers : writer[w] # Free =>
          writer[w].pc \in {"upsert", "mail"} /\ writer[w].event \in Events
    /\ mails \in [Ids -> Nat]
    /\ writes \in 0..MaxWrites /\ faults \in 0..MaxFaults
    /\ \A t \in Tabs :
          /\ tab[t].last \in Marks \cup {NoMark}
          /\ tab[t].seen \cup tab[t].claimed \subseteq stored
          /\ tab[t].current \in Conns \cup {None}
          /\ tab[t].connecting \in Nat /\ tab[t].timers \in Nat
          /\ \A c \in Conns : IsOpen(t, c) =>
                /\ conn[t][c].mark \in Marks /\ conn[t][c].start \in Marks
                /\ ToSet(conn[t][c].queue) \subseteq stored
    /\ bus \subseteq Tabs \X stored
    /\ raced \subseteq stored

\* However often a message is redelivered and whichever services handle it at
\* the same time, a notice is e-mailed at most once a minute.
MailedOncePerMinute == \A i \in Ids : mails[i] <= 1

\* An event is surfaced once, in one tab, unless two tabs handled it while the
\* claim of one was on its way to the other; neither two connections of a tab
\* nor a reconnect or a reload repeats one.
ShownOnce ==
    \A e \in Events : shown[e] <= IF e \in raced THEN Cardinality(Tabs) ELSE 1

\* A tab's position never passes an event it has not received: not at the end of
\* a batch in the middle of a created_at, not across reconnects, not when two
\* connections move it in turns.  Excused are events stored behind its back,
\* those from before a connection without a position, and unreadable ones.
NothingSkipped ==
    \A t \in Tabs : \A e \in stored :
        ~Newer(e, tab[t].last) => e \in tab[t].seen \cup missed[t]

=============================================================================
