------------------------- MODULE NotificationWriter -------------------------
(***************************************************************************)
(* write_notification_event, which every service calls when something has  *)
(* happened to a claim or a purchase: an in-app event under an id derived  *)
(* from user, type, entity and minute, and an e-mail if the event is new.  *)
(* Callers are Pub/Sub handlers, so the same notice may be written twice.  *)
(* Whether created_at is old when the event is stored depends on how long  *)
(* the write takes: the clock may tick in between.                         *)
(***************************************************************************)
EXTENDS Integers, Sequences, FiniteSets

CONSTANTS
    Notices,       \* type and entity of a notification, as the order of its id
    Emailed,       \* notices the user gets by e-mail: the dispatcher's gates
    Writers,       \* concurrent calls
    MinuteLength,  \* ticks of created_at in a minute bucket
    MaxClock,      \* bound: where the clock stops
    MaxWrites,     \* bound: calls in a behaviour
    FaultKinds,    \* which failures the environment produces
    MaxFaults      \* bound: failures in a behaviour

AllFaults == {"crash", "mongo", "sendgrid", "token", "break", "online",
              "reload", "poll", "poison"}

ASSUME WriterAssumption ==
    /\ Notices \subseteq Nat /\ Emailed \subseteq Notices
    /\ MinuteLength \in Nat \ {0}
    /\ {MaxClock, MaxWrites, MaxFaults} \subseteq Nat
    /\ FaultKinds \subseteq AllFaults

VARIABLES
    clock,
    stored,  \* the collection notification_events of one user
    writer,  \* what each call is doing
    mails,   \* history: e-mails that left, per id
    writes,  \* bound: calls so far
    faults   \* bound: failures so far

writerVars == <<clock, stored, writer, mails, writes, faults>>

Minutes == 0 .. MaxClock \div MinuteLength

\* The id is the pair of notice and minute; at is created_at.
Ids    == Notices \X Minutes
Events == [notice : Notices, minute : Minutes, at : 0..MaxClock]

Id(e) == <<e.notice, e.minute>>

Free == [pc |-> "free"]

WriterInit ==
    /\ clock = 0
    /\ stored = {}
    /\ writer = [w \in Writers |-> Free]
    /\ mails = [i \in Ids |-> 0]
    /\ writes = 0
    /\ faults = 0

Fault(kind) == kind \in FaultKinds /\ faults < MaxFaults /\ faults' = faults + 1

-----------------------------------------------------------------------------

Now(n) == [notice |-> n, minute |-> clock \div MinuteLength, at |-> clock]

\* The id and created_at are computed before the write.
BeginWrite(w, n) ==
    /\ writer[w] = Free /\ writes < MaxWrites
    /\ writer' = [writer EXCEPT ![w] = [pc |-> "upsert", event |-> Now(n)]]
    /\ writes' = writes + 1
    /\ UNCHANGED <<clock, stored, mails, faults>>

\* Mutant: the id includes the time, so nothing is ever a duplicate.
IsNewInstant(e) == e \notin stored

IsNew(e) == \A f \in stored : Id(f) # Id(e)

Inserted(e) == stored' = IF IsNew(e) THEN stored \cup {e} ELSE stored

\* Mutant: the caller does not look at what the upsert answered.
SendsAlways(e) == e.notice \in Emailed

Sends(e) == IsNew(e) /\ e.notice \in Emailed

\* The upsert leaves an event that is there alone; only an insert leads to an
\* e-mail, and the dispatcher has its say on which.  A failure of the upsert is
\* swallowed, and may be one of the answer alone.
Upsert(w) ==
    LET e == writer[w].event IN
    /\ writer[w].pc = "upsert"
    /\ \/ /\ Inserted(e)
          /\ writer' = [writer EXCEPT ![w] = IF Sends(e) THEN [@ EXCEPT !.pc = "mail"] ELSE Free]
          /\ UNCHANGED faults
       \/ /\ Fault("mongo")
          /\ Inserted(e) \/ UNCHANGED stored
          /\ writer' = [writer EXCEPT ![w] = Free]
    /\ UNCHANGED <<clock, mails, writes>>

\* SendGrid takes the message, or fails, before or after it has taken it.
SendMail(w) ==
    LET i == Id(writer[w].event) IN
    /\ writer[w].pc = "mail"
    /\ \/ mails' = [mails EXCEPT ![i] = @ + 1] /\ UNCHANGED faults
       \/ /\ Fault("sendgrid")
          /\ UNCHANGED mails \/ mails' = [mails EXCEPT ![i] = @ + 1]
    /\ writer' = [writer EXCEPT ![w] = Free]
    /\ UNCHANGED <<clock, stored, writes>>

\* The service dies in the call.
CrashWriter(w) ==
    /\ writer[w] # Free
    /\ Fault("crash")
    /\ writer' = [writer EXCEPT ![w] = Free]
    /\ UNCHANGED <<clock, stored, mails, writes>>

Tick ==
    /\ clock < MaxClock
    /\ clock' = clock + 1
    /\ UNCHANGED <<stored, writer, mails, writes, faults>>

WriterNext ==
    \/ \E w \in Writers :
         \/ \E n \in Notices : BeginWrite(w, n)
         \/ Upsert(w) \/ SendMail(w) \/ CrashWriter(w)
    \/ Tick
=============================================================================
