--------------------------- MODULE ClaimLifecycle ---------------------------
(***************************************************************************)
(* One claim document, from the empty shell the price monitor stores to    *)
(* its resolution, and everything that writes it concurrently:             *)
(*                                                                         *)
(*   - the api-gateway handlers approve, cancel, record outcome and edit;  *)
(*   - the assistant tools that set the send mode and ask for a redraft;   *)
(*   - the claim-agent handlers for price.dropped, claim.approved and      *)
(*     claim.redraft_requested, and its auto-send worker.                  *)
(*                                                                         *)
(* Every handler loads the document, tests a gate on that copy and later   *)
(* writes the document unconditionally by _id, so each load and each write *)
(* is an action of its own.  Pub/Sub is at-least-once: a delivery in       *)
(* progress may be repeated, and a crash gives it back to the topic.       *)
(***************************************************************************)
EXTENDS Integers, Sequences, FiniteSets

CONSTANTS
    AgentSlots,     \* concurrent requests the claim-agent serves
    GatewaySlots,   \* concurrent claim requests the api-gateway serves
    RedraftEvents,  \* event ids of claim.redraft_requested
    EditTexts,      \* texts a user may type into the draft
    ClaimType,      \* one of ClaimTypes
    DefaultMode,    \* user.send_preference.default_mode
    Budgets,        \* bound: what the user may start, and how often: one of these
    FaultKinds,     \* which failures the environment produces
    MaxFaults       \* bound: how many failures in a behaviour

ClaimTypes == {"email", "chat_script", "in_store", "self_service"}
SendModes  == {"approval", "auto"}
UserOps    == {"approve", "cancel", "record", "edit", "override", "redraft"}
AllFaults  == {"crash", "redeliver", "publish", "write", "gmail", "gmailLost",
               "raise", "notify", "overlap"}

Slots    == AgentSlots \cup GatewaySlots
Messages == {"dropped", "approved"} \cup RedraftEvents
Texts    == {"shell", "agent"} \cup RedraftEvents \cup EditTexts

ASSUME SlotsAssumption ==
    /\ AgentSlots \cap GatewaySlots = {}
    /\ IsFiniteSet(Slots) /\ IsFiniteSet(RedraftEvents)
    /\ RedraftEvents \cap {"dropped", "approved", "none", "shell", "agent"} = {}
    /\ EditTexts \cap (RedraftEvents \cup {"none", "shell", "agent"}) = {}

ASSUME ValuesAssumption ==
    /\ ClaimType \in ClaimTypes
    /\ DefaultMode \in SendModes
    /\ Budgets \subseteq [UserOps -> Nat]
    /\ FaultKinds \subseteq AllFaults
    /\ MaxFaults \in Nat

VARIABLES
    doc,      \* the claim document in MongoDB
    idem,     \* redraft_processed_events: the redraft idempotency records
    slot,     \* what each request slot is executing
    pending,  \* deliveries Pub/Sub still owes, per message
    notices,  \* kinds of NotificationEvent written for the claim
    mails,    \* history: e-mails that Gmail accepted
    consent,  \* history: ways in which the user has agreed to a send
    left,     \* bound: user operations not yet started
    asked,    \* redraft events already published
    faults    \* bound: failures so far

vars == <<doc, idem, slot, pending, notices, mails, consent, left, asked, faults>>

Outcomes == {"draft_pending", "queued_for_send", "pending", "approved",
             "denied", "user_cancelled"}
Resolved == {"approved", "denied", "user_cancelled"}
Vias     == {"none", "gmail_send", "clipboard", "in_store_print",
             "self_service_link"}

\* auto_send_at: absent, still in the future, or elapsed.  submitted_at:
\* absent, within the five-minute cancel window, or older.
Claim == [outcome  : Outcomes,
          via      : Vias,
          autoAt   : {"none", "waiting", "due"},
          override : SendModes \cup {"none"},
          subAt    : {"none", "recent", "old"},
          to       : BOOLEAN,     \* recipient_email and subject are set
          content  : Texts,
          vers     : Seq([n : Nat, text : Texts])]

\* The claim the monitor stores before it publishes price.dropped; its empty
\* draft is version 0.
Shell == [outcome |-> "draft_pending", via |-> "none", autoAt |-> "none",
          override |-> "none", subAt |-> "none", to |-> FALSE,
          content |-> "shell", vers |-> <<[n |-> 0, text |-> "shell"]>>]

\* What a handler still uses of the copy it loaded.
Copy(claim) == [outcome |-> claim.outcome, autoAt |-> claim.autoAt,
                override |-> claim.override, to |-> claim.to,
                versions |-> Len(claim.vers)]

Idle == [kind |-> "idle", pc |-> "idle", msg |-> "none", snap |-> Copy(Shell),
         mode |-> "none", text |-> "none"]

Init ==
    /\ doc = Shell
    /\ idem = [e \in RedraftEvents |-> "none"]
    /\ slot = [s \in Slots |-> Idle]
    /\ pending = [m \in Messages |-> IF m = "dropped" THEN 1 ELSE 0]
    /\ notices = {}
    /\ mails = 0
    /\ consent = IF DefaultMode = "auto" THEN {"auto"} ELSE {}
    /\ left \in Budgets
    /\ asked = {}
    /\ faults = 0

-----------------------------------------------------------------------------
(* Helpers *)

At(s, kinds, pc) == slot[s].kind \in kinds /\ slot[s].pc = pc

\* A request starts: it occupies a free slot and keeps the copy it loaded.
Begin(s, k, step, m, md, tx) ==
    /\ slot[s].pc = "idle"
    /\ slot' = [slot EXCEPT ![s] = [kind |-> k, pc |-> step, msg |-> m,
                                    snap |-> Copy(doc), mode |-> md, text |-> tx]]

Goto(s, step) == slot' = [slot EXCEPT ![s].pc = step]
Finish(s)     == slot' = [slot EXCEPT ![s] = Idle]

Take(m)    == pending[m] > 0 /\ pending' = [pending EXCEPT ![m] = @ - 1]
Publish(m) == pending' = [pending EXCEPT ![m] = @ + 1]

UserStarts(op) == left[op] > 0 /\ left' = [left EXCEPT ![op] = @ - 1]

Fault(kind) == kind \in FaultKinds /\ faults < MaxFaults /\ faults' = faults + 1

\* Mutant: the version is pushed without the scalar that mirrors it.
PushedOnly(d, number, txt) ==
    [d EXCEPT !.vers = Append(@, [n |-> number, text |-> txt])]

Pushed(d, number, txt) ==
    [d EXCEPT !.content = txt, !.vers = Append(@, [n |-> number, text |-> txt])]

\* The claim-agent serves several requests at once, and its routes, subscriptions and
\* schedule set no limit of one; a request that joins another is counted.
Joins == IF \A a \in AgentSlots : slot[a].pc = "idle"
         THEN UNCHANGED faults
         ELSE Fault("overlap")

\* publish_event may raise although the broker took the message.
PublishRaises(m) == UNCHANGED pending \/ Publish(m)

Consents(mode) == consent' = consent \cup (IF mode = "auto" THEN {"auto"} ELSE {})

-----------------------------------------------------------------------------
(* api-gateway: approve_claim *)

\* Load and gate; any other outcome answers 409 and changes nothing.
ApproveLoad(g, mode, txt) ==
    /\ doc.outcome \in {"draft_pending", "queued_for_send"}
    /\ UserStarts("approve")
    /\ Begin(g, "approve", "write", "none", mode, txt)
    /\ UNCHANGED <<doc, idem, pending, notices, mails, consent, asked, faults>>

Approved(d, mode) == [d EXCEPT !.override = mode, !.subAt = "recent",
                               !.outcome = "pending", !.autoAt = "none"]

\* The edited draft, when there is one, is pushed in the same write; its
\* number comes from the copy that was loaded.
ApproveWrite(g) ==
    LET me == slot[g] IN
    /\ At(g, {"approve"}, "write")
    /\ doc' = IF me.text = "none"
              THEN Approved(doc, me.mode)
              ELSE Pushed(Approved(doc, me.mode), me.snap.versions + 1, me.text)
    /\ consent' = consent \cup {"approve"} \cup
                  (IF me.mode = "auto" THEN {"auto"} ELSE {})
    /\ Goto(g, "publish")
    /\ UNCHANGED <<idem, pending, notices, mails, left, asked, faults>>

ApprovePublish(g) ==
    /\ At(g, {"approve"}, "publish")
    /\ \/ Publish("approved") /\ Goto(g, "notify") /\ UNCHANGED faults
       \/ Fault("publish") /\ PublishRaises("approved") /\ Goto(g, "rollback")
    /\ UNCHANGED <<doc, idem, notices, mails, consent, left, asked>>

\* Mutants: the rollback before WI-6, which dropped the timer; no rollback.
RestoredNoTimer(d, old) ==
    [d EXCEPT !.outcome = old.outcome, !.subAt = "none", !.autoAt = "none"]
NotRestored(d, old) == d

Restored(d, old) ==
    [d EXCEPT !.outcome = old.outcome, !.subAt = "none", !.autoAt = old.autoAt]

\* Restores the outcome and the timer that were loaded; 503 either way.
ApproveRollback(g) ==
    /\ At(g, {"approve"}, "rollback")
    /\ \/ doc' = Restored(doc, slot[g].snap) /\ UNCHANGED faults
       \/ Fault("write") /\ UNCHANGED doc
    /\ Finish(g)
    /\ UNCHANGED <<idem, pending, notices, mails, consent, left, asked>>

\* write_notification_event swallows its own failure.
WriteNotice(kind) ==
    \/ notices' = notices \cup {kind} /\ UNCHANGED faults
    \/ Fault("notify") /\ UNCHANGED notices

ApproveNotify(g) ==
    /\ At(g, {"approve"}, "notify")
    /\ WriteNotice("submitted")
    /\ Finish(g)
    /\ UNCHANGED <<doc, idem, pending, mails, consent, left, asked>>

-----------------------------------------------------------------------------
(* api-gateway: cancel_claim, record_claim_outcome, edit_claim_draft *)

CancelLoad(g) ==
    /\ \/ doc.outcome \in {"draft_pending", "queued_for_send"}
       \/ doc.outcome = "pending" /\ doc.override = "auto" /\ doc.subAt = "recent"
    /\ UserStarts("cancel")
    /\ Begin(g, "cancel", "write", "none", "none", "none")
    /\ UNCHANGED <<doc, idem, pending, notices, mails, consent, asked, faults>>

CancelWrite(g) ==
    /\ At(g, {"cancel"}, "write")
    /\ doc' = [doc EXCEPT !.outcome = "user_cancelled", !.autoAt = "none"]
    /\ Finish(g)
    /\ UNCHANGED <<idem, pending, notices, mails, consent, left, asked, faults>>

RecordLoad(g) ==
    /\ doc.outcome \in {"pending", "approved", "denied"}
    /\ UserStarts("record")
    /\ Begin(g, "record", "write", "none", "none", "none")
    /\ UNCHANGED <<doc, idem, pending, notices, mails, consent, asked, faults>>

RecordWrite(g) ==
    /\ At(g, {"record"}, "write")
    /\ \E verdict \in {"approved", "denied"} : doc' = [doc EXCEPT !.outcome = verdict]
    /\ Finish(g)
    /\ UNCHANGED <<idem, pending, notices, mails, consent, left, asked, faults>>

EditLoad(g, txt) ==
    /\ doc.outcome = "draft_pending"
    /\ UserStarts("edit")
    /\ Begin(g, "edit", "write", "none", "none", txt)
    /\ UNCHANGED <<doc, idem, pending, notices, mails, consent, asked, faults>>

EditWrite(g) ==
    LET me == slot[g] IN
    /\ At(g, {"edit"}, "write")
    /\ doc' = Pushed(doc, me.snap.versions + 1, me.text)
    /\ Finish(g)
    /\ UNCHANGED <<idem, pending, notices, mails, consent, left, asked, faults>>

-----------------------------------------------------------------------------
(* assistant-agent tools; neither looks at the outcome *)

UpdateSendOverride(mode) ==
    /\ UserStarts("override")
    /\ doc' = [doc EXCEPT !.override = mode]
    /\ Consents(mode)
    /\ UNCHANGED <<idem, slot, pending, notices, mails, asked, faults>>

RequestRedraft(e) ==
    /\ e \notin asked
    /\ UserStarts("redraft")
    /\ asked' = asked \cup {e}
    /\ Publish(e)
    /\ UNCHANGED <<doc, idem, slot, notices, mails, consent, faults>>

-----------------------------------------------------------------------------
(* claim-agent: handle_price_dropped *)

ReceivePriceDropped(a) ==
    /\ Take("dropped")
    /\ Begin(a, "draft", "generate", "dropped", "none", "none")
    /\ Joins
    /\ UNCHANGED <<doc, idem, notices, mails, consent, left, asked>>

\* Whether the draft of an e-mail can be sent: its address is always found, its
\* subject is what the language model wrote and may be empty.
Drafts == {FALSE, ClaimType = "email"}

NewDraft(to) == [Shell EXCEPT !.to = to, !.content = "agent",
                              !.vers = <<[n |-> 1, text |-> "agent"]>>]

\* upsert_claim replaces the whole document, whatever it had become.
PersistDraft(a) ==
    /\ At(a, {"draft"}, "generate")
    /\ \E to \in Drafts :
         /\ doc' = NewDraft(to)
         /\ slot' = [slot EXCEPT ![a].pc = "announce", ![a].snap = Copy(NewDraft(to))]
    /\ UNCHANGED <<idem, pending, notices, mails, consent, left, asked, faults>>

NotifyDrafted(a) ==
    /\ At(a, {"draft", "redraft"}, "announce")
    /\ WriteNotice("drafted")
    /\ Goto(a, "mode")
    /\ UNCHANGED <<doc, idem, pending, mails, consent, left, asked>>

\* Mutant: the account default is not consulted.
DetermineSendModeNoDefault(claim) ==
    IF claim.override # "none" THEN claim.override ELSE "auto"

DetermineSendMode(claim) ==
    IF claim.override # "none" THEN claim.override ELSE DefaultMode

\* Mutant: the outcome approval mode wrote before WI-5.
DispatchedLegacy(d, mode) ==
    IF mode = "auto"
    THEN [d EXCEPT !.outcome = "queued_for_send", !.autoAt = "waiting"]
    ELSE [d EXCEPT !.outcome = "awaiting_approval"]

Dispatched(d, mode) ==
    IF mode = "auto"
    THEN [d EXCEPT !.outcome = "queued_for_send", !.autoAt = "waiting"]
    ELSE [d EXCEPT !.outcome = "draft_pending"]

\* handle_auto_mode and handle_approval_mode write before they publish.
ApplyMode(a) ==
    /\ At(a, {"draft", "redraft"}, "mode")
    /\ doc' = Dispatched(doc, DetermineSendMode(slot[a].snap))
    /\ Goto(a, "publishDrafted")
    /\ UNCHANGED <<idem, pending, notices, mails, consent, left, asked, faults>>

\* claim.drafted has no subscriber in the backend; if it raises, the handler ends.
PublishDrafted(a) ==
    /\ At(a, {"draft", "redraft"}, "publishDrafted")
    /\ \/ /\ IF DetermineSendMode(slot[a].snap) = "auto"
             THEN Goto(a, "notifyQueued")
             ELSE Finish(a)
          /\ UNCHANGED faults
       \/ Fault("publish") /\ Finish(a)
    /\ UNCHANGED <<doc, idem, pending, notices, mails, consent, left, asked>>

NotifyQueued(a) ==
    /\ At(a, {"draft", "redraft"}, "notifyQueued")
    /\ WriteNotice("queued")
    /\ Finish(a)
    /\ UNCHANGED <<doc, idem, pending, mails, consent, left, asked>>

-----------------------------------------------------------------------------
(* claim-agent: handle_claim_redraft_requested *)

ReceiveRedraft(a, e) ==
    /\ Take(e)
    /\ Begin(a, "redraft", "begin", e, "none", "none")
    /\ Joins
    /\ UNCHANGED <<doc, idem, notices, mails, consent, left, asked>>

\* Mutant: only a finished redraft counts as a duplicate.
FirstDeliveryUnlessDone(e) == idem[e] # "done"

\* try_claim_redraft_event: insert-once on the event id.
FirstDelivery(e) == idem[e] = "none"

\* A duplicate is acked and dropped.
BeginRedraft(a) ==
    LET e == slot[a].msg IN
    /\ At(a, {"redraft"}, "begin")
    /\ \/ /\ FirstDelivery(e)
          /\ idem' = [idem EXCEPT ![e] = "processing"]
          /\ Goto(a, "generate")
       \/ ~FirstDelivery(e) /\ Finish(a) /\ UNCHANGED idem
    /\ UNCHANGED <<doc, pending, notices, mails, consent, left, asked, faults>>

\* atomic_append_draft_version numbers the version on the server.
AppendRedraft(a) ==
    /\ At(a, {"redraft"}, "generate")
    /\ \E to \in Drafts :
         doc' = [Pushed(doc, Len(doc.vers) + 1, slot[a].msg) EXCEPT !.to = to]
    /\ Goto(a, "markDone")
    /\ UNCHANGED <<idem, pending, notices, mails, consent, left, asked, faults>>

MarkRedraftDone(a) ==
    /\ At(a, {"redraft"}, "markDone")
    /\ idem' = [idem EXCEPT ![slot[a].msg] = "done"]
    /\ Goto(a, "announce")
    /\ UNCHANGED <<doc, pending, notices, mails, consent, left, asked, faults>>

-----------------------------------------------------------------------------
(* claim-agent: handle_claim_approved, handle_auto_send and submit_claim *)

\* Mutants: each gate of handle_claim_approved dropped in turn.
SubmittableAgain(claim)    == claim.outcome = "pending"
SubmittableAnyTime(claim)  == claim.via = "none"

Submittable(claim) == claim.via = "none" /\ claim.outcome = "pending"

ReceiveApproved(a) ==
    /\ Take("approved")
    /\ \/ /\ Submittable(doc) /\ Joins
          /\ Begin(a, "submit", "send", "approved", "none", "none")
       \/ ~Submittable(doc) /\ slot[a].pc = "idle" /\ UNCHANGED <<slot, faults>>
    /\ UNCHANGED <<doc, idem, notices, mails, consent, left, asked>>

Overdue(claim) == claim.outcome = "queued_for_send" /\ claim.autoAt = "due"

\* The scheduler's tick: the query that finds the overdue claim ...
AutoSendScan(a) ==
    /\ Overdue(doc)
    /\ Begin(a, "worker", "reread", "none", "none", "none")
    /\ Joins
    /\ UNCHANGED <<doc, idem, pending, notices, mails, consent, left, asked>>

\* ... and the re-read guard, which looks at the outcome alone.
AutoSendReread(a) ==
    /\ At(a, {"worker"}, "reread")
    /\ IF doc.outcome = "queued_for_send"
       THEN slot' = [slot EXCEPT ![a].pc = "send", ![a].snap = Copy(doc)]
       ELSE Finish(a)
    /\ UNCHANGED <<doc, idem, pending, notices, mails, consent, left, asked, faults>>

\* gmail_send accepted the message, or there is nothing to send.
Send(a) ==
    /\ At(a, {"submit", "worker"}, "send")
    /\ ClaimType = "email" => slot[a].snap.to
    /\ mails' = IF ClaimType = "email" THEN mails + 1 ELSE mails
    /\ Goto(a, "record")
    /\ UNCHANGED <<doc, idem, pending, notices, consent, left, asked, faults>>

\* Terminal: no recipient, or a revoked grant.
SendTerminal(a) ==
    /\ At(a, {"submit", "worker"}, "send")
    /\ ClaimType = "email"
    /\ \/ ~slot[a].snap.to /\ UNCHANGED faults
       \/ slot[a].snap.to /\ Fault("gmail")
    /\ Goto(a, "revert")
    /\ UNCHANGED <<doc, idem, pending, notices, mails, consent, left, asked>>

\* Transient: the worker leaves the claim queued for its next tick, the
\* approved handler gives it back to the user.  The message may have left.
SendTransient(a) ==
    /\ At(a, {"submit", "worker"}, "send")
    /\ ClaimType = "email" /\ slot[a].snap.to
    /\ \/ Fault("gmail") /\ UNCHANGED mails
       \/ Fault("gmailLost") /\ mails' = mails + 1
    /\ IF slot[a].kind = "worker" THEN Finish(a) ELSE Goto(a, "revert")
    /\ UNCHANGED <<doc, idem, pending, notices, consent, left, asked>>

SubmittedVia == CASE ClaimType = "email"       -> "gmail_send"
                  [] ClaimType = "chat_script" -> "clipboard"
                  [] ClaimType = "in_store"    -> "in_store_print"
                  [] OTHER                     -> "self_service_link"

\* submit_claim's write leaves auto_send_at alone.
RecordSubmission(a) ==
    /\ At(a, {"submit", "worker"}, "record")
    /\ doc' = [doc EXCEPT !.via = SubmittedVia, !.subAt = "recent",
                          !.outcome = "pending"]
    /\ IF slot[a].kind = "worker" THEN Goto(a, "publish") ELSE Finish(a)
    /\ UNCHANGED <<idem, pending, notices, mails, consent, left, asked, faults>>

RevertSubmission(a) ==
    /\ At(a, {"submit", "worker"}, "revert")
    /\ doc' = [doc EXCEPT !.outcome = "draft_pending",
                          !.autoAt = IF slot[a].kind = "worker" THEN "none" ELSE @]
    /\ Finish(a)
    /\ UNCHANGED <<idem, pending, notices, mails, consent, left, asked, faults>>

AutoSendPublish(a) ==
    /\ At(a, {"worker"}, "publish")
    /\ \/ Publish("approved") /\ Goto(a, "notify") /\ UNCHANGED faults
       \/ Fault("publish") /\ PublishRaises("approved") /\ Goto(a, "rollback")
    /\ UNCHANGED <<doc, idem, notices, mails, consent, left, asked>>

AutoSendRollback(a) ==
    /\ At(a, {"worker"}, "rollback")
    /\ \/ /\ doc' = [doc EXCEPT !.outcome = "queued_for_send", !.subAt = "none",
                                !.via = "none", !.autoAt = slot[a].snap.autoAt]
          /\ UNCHANGED faults
       \/ Fault("write") /\ UNCHANGED doc
    /\ Finish(a)
    /\ UNCHANGED <<idem, pending, notices, mails, consent, left, asked>>

AutoSendNotify(a) ==
    /\ At(a, {"worker"}, "notify")
    /\ WriteNotice("submitted")
    /\ Finish(a)
    /\ UNCHANGED <<doc, idem, pending, mails, consent, left, asked>>

\* A missing document, an invalid draft or an exception ends a handler of the
\* claim-agent where it stands; what it wrote stays, a redraft's idempotency
\* record included, and the push is answered with 200.  A redraft whose draft
\* is invalid for the second time tells the user.
HandlerGivesUp(a) ==
    /\ slot[a].pc # "idle"
    /\ Fault("raise")
    /\ Finish(a)
    /\ \/ UNCHANGED notices
       \/ At(a, {"redraft"}, "generate") /\ notices' = notices \cup {"drafted"}
    /\ UNCHANGED <<doc, idem, pending, mails, consent, left, asked>>

-----------------------------------------------------------------------------
(* Time and failures *)

DelayElapses ==
    /\ doc.autoAt = "waiting"
    /\ doc' = [doc EXCEPT !.autoAt = "due"]
    /\ UNCHANGED <<idem, slot, pending, notices, mails, consent, left, asked, faults>>

CancelWindowCloses ==
    /\ doc.subAt = "recent"
    /\ doc' = [doc EXCEPT !.subAt = "old"]
    /\ UNCHANGED <<idem, slot, pending, notices, mails, consent, left, asked, faults>>

\* An instance dies in the middle of a request: what it wrote stays, and a
\* push that was never answered is owed again.
Crash(s) ==
    /\ slot[s].pc # "idle"
    /\ Fault("crash")
    /\ IF slot[s].msg = "none" THEN UNCHANGED pending ELSE Publish(slot[s].msg)
    /\ Finish(s)
    /\ UNCHANGED <<doc, idem, notices, mails, consent, left, asked>>

\* The ack deadline passes while the handler still runs.
Redeliver(s) ==
    /\ slot[s].msg # "none"
    /\ Fault("redeliver")
    /\ Publish(slot[s].msg)
    /\ UNCHANGED <<doc, idem, slot, notices, mails, consent, left, asked>>

-----------------------------------------------------------------------------

UserStep ==
    \/ \E g \in GatewaySlots :
         \/ \E mode \in SendModes \cup {"none"}, txt \in EditTexts \cup {"none"} :
               ApproveLoad(g, mode, txt)
         \/ CancelLoad(g)
         \/ RecordLoad(g)
         \/ \E txt \in EditTexts : EditLoad(g, txt)
    \/ \E mode \in SendModes \cup {"none"} : UpdateSendOverride(mode)
    \/ \E e \in RedraftEvents : RequestRedraft(e)

GatewayStep(g) ==
    \/ ApproveWrite(g) \/ ApprovePublish(g) \/ ApproveRollback(g) \/ ApproveNotify(g)
    \/ CancelWrite(g) \/ RecordWrite(g) \/ EditWrite(g)

\* A push or a scheduler tick reaches an idle slot.
AgentReceives(a) ==
    \/ ReceivePriceDropped(a)
    \/ ReceiveApproved(a)
    \/ \E e \in RedraftEvents : ReceiveRedraft(a, e)
    \/ AutoSendScan(a)

AgentStep(a) ==
    \/ HandlerGivesUp(a)
    \/ PersistDraft(a) \/ NotifyDrafted(a) \/ ApplyMode(a)
    \/ PublishDrafted(a) \/ NotifyQueued(a)
    \/ BeginRedraft(a) \/ AppendRedraft(a) \/ MarkRedraftDone(a)
    \/ AutoSendReread(a) \/ Send(a) \/ SendTerminal(a) \/ SendTransient(a)
    \/ RecordSubmission(a) \/ RevertSubmission(a)
    \/ AutoSendPublish(a) \/ AutoSendRollback(a) \/ AutoSendNotify(a)

Environment ==
    \/ DelayElapses
    \/ CancelWindowCloses
    \/ \E s \in Slots : Crash(s) \/ Redeliver(s)

Next ==
    \/ UserStep
    \/ \E g \in GatewaySlots : GatewayStep(g)
    \/ \E a \in AgentSlots : AgentReceives(a) \/ AgentStep(a)
    \/ Environment

Spec == Init /\ [][Next]_vars

\* The user owes nothing; a request that runs is finished (or fails), Pub/Sub
\* delivers what it owes, the scheduler ticks every minute and clocks advance.
FairSpec ==
    /\ Spec
    /\ \A g \in GatewaySlots : WF_vars(GatewayStep(g))
    /\ \A a \in AgentSlots : WF_vars(AgentStep(a))
    /\ WF_vars(\E a \in AgentSlots : ReceivePriceDropped(a))
    /\ SF_vars(\E a \in AgentSlots : ReceiveApproved(a))
    /\ \A e \in RedraftEvents : SF_vars(\E a \in AgentSlots : ReceiveRedraft(a, e))
    /\ SF_vars(\E a \in AgentSlots : AutoSendScan(a))
    /\ WF_vars(DelayElapses)

-----------------------------------------------------------------------------
(* Safety *)

Snapshot == [outcome : Outcomes, autoAt : {"none", "waiting", "due"},
             override : SendModes \cup {"none"}, to : BOOLEAN, versions : Nat]

Kinds == {"idle", "approve", "cancel", "record", "edit", "draft", "redraft",
          "submit", "worker"}
Stages == {"idle", "write", "publish", "rollback", "notify", "generate",
           "announce", "mode", "publishDrafted", "notifyQueued", "begin",
           "markDone", "reread", "send", "record", "revert"}

\* A redraft knows its event, and an edit has a text; an approval may have one.
Invocation == {i \in [kind : Kinds, pc : Stages, msg : Messages \cup {"none"},
                      snap : Snapshot, mode : SendModes \cup {"none"},
                      text : EditTexts \cup {"none"}] :
                 /\ i.kind = "redraft" => i.msg \in RedraftEvents
                 /\ i.kind = "edit" => i.text \in EditTexts}

\* Every variable has its type; in particular the writers produce only the
\* outcomes the gateway's gates know (send_mode.py explains what happened
\* when one of them wrote awaiting_approval).
TypeOK ==
    /\ doc \in Claim
    /\ idem \in [RedraftEvents -> {"none", "processing", "done"}]
    /\ slot \in [Slots -> Invocation]
    /\ pending \in [Messages -> Nat]
    /\ notices \subseteq {"drafted", "queued", "submitted"}
    /\ mails \in Nat
    /\ consent \subseteq {"approve", "auto"}
    /\ left \in [UserOps -> Nat]
    /\ asked \subseteq RedraftEvents
    /\ faults \in 0 .. MaxFaults

\* No e-mail leaves unless the user approved the draft or has chosen automatic
\* sending, as the account default or for this claim, whatever is redelivered,
\* rolled back or crashes in between.
MailNeedsConsent == mails > 0 => consent # {}

\* A queued claim has a send time.  The auto-send query selects on it, so a
\* claim that a rollback put back in the queue without one would never leave.
QueuedHasTimer == doc.outcome = "queued_for_send" => doc.autoAt # "none"

\* One e-mail per claim, and one more for each redraft the user asked for, each failure
\* and each request of the claim-agent that ran into another: a resend is the
\* consequence of one of these, never of the ordinary interplay of approval, auto-send
\* and the notification the worker publishes, and no single one causes two.
MailsPaidByFaults == mails <= 1 + Cardinality(asked) + faults

\* draft_content is the text of the last draft version (the Claim validator's
\* rule, which the partial writes of approve, edit and redraft bypass).
DraftInSync == doc.content = doc.vers[Len(doc.vers)].text

\* A redraft request changes the draft at most once, however often Pub/Sub
\* delivers it.
RedraftOnce ==
    \A e \in RedraftEvents : \A i, j \in DOMAIN doc.vers :
        (doc.vers[i].text = e /\ doc.vers[j].text = e) => i = j

\* A resolved claim returns to an unresolved outcome only at the hands of a
\* drafting handler, which has no gate, or of a request that had loaded it
\* before it was resolved; nobody who loads it afterwards revives it.
ResolutionIsFinal ==
    [][(doc.outcome \in Resolved /\ doc'.outcome \notin Resolved) =>
         \E s \in Slots : /\ slot[s].pc # "idle"
                          /\ \/ slot[s].kind \in {"draft", "redraft"}
                             \/ slot[s].snap.outcome \notin Resolved]_vars

-----------------------------------------------------------------------------
(* The abstract specification *)

Ledger == INSTANCE SendLedger WITH
              Ways   <- {"approve", "auto"},
              agreed <- consent,
              credit <- 1 + Cardinality(asked) + faults,
              sent   <- mails

\* The claim's handlers, its worker and Pub/Sub together keep the account of
\* SendLedger: every e-mail was agreed to and within the credit when it left, and no
\* step withdraws either.
KeepsLedger == Ledger!Spec

-----------------------------------------------------------------------------
(* Liveness, under FairSpec *)

\* An approved claim does not stay in flight for ever: it is submitted, or it
\* goes back to the user, even if publishing or Gmail fails.
ApprovedIsAnswered ==
    (doc.outcome = "pending" /\ doc.via = "none")
        ~> (doc.outcome # "pending" \/ doc.via # "none")

\* The auto-send queue drains, whichever rollbacks put the claim back in it.
QueueDrains == []<>(doc.outcome # "queued_for_send")

-----------------------------------------------------------------------------
(* What the repository says and the code does not do *)

\* claim-agent/src/main.py says the re-read guard prevents duplicate submits
\* when an auto-send run goes long.
NoDoubleSend == mails <= 1

=============================================================================
