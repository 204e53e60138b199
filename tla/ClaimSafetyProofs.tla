------------------------- MODULE ClaimSafetyProofs -------------------------
(***************************************************************************)
(* The safety invariants of ClaimLifecycle.  A handler acts on the copy it *)
(* loaded, so every argument is about two things: what a slot's copy can   *)
(* say (SlotEvolves) and what the handlers do to the document.             *)
(* MailsArePaid and KeepsAccount are about the number of e-mails, for any  *)
(* number of requests that overlap.  They rest on a potential, PaidInv, of *)
(* what may yet lead to an e-mail without a further failure.               *)
(***************************************************************************)
EXTENDS ClaimLifecycleProofs, FiniteSetTheorems

\* What the gate of a handler of kind k let through.
Gate(k, outcome) ==
    /\ k = "approve" => outcome \in {"draft_pending", "queued_for_send"}
    /\ k = "submit"  => outcome = "pending"
    /\ k = "worker"  => outcome = "queued_for_send"

\* A request keeps the outcome its gate let through.
GatesHeld == \A s \in Slots : Gate(slot[s].kind, slot[s].snap.outcome)

\* A copy of a queued claim has the send time that came with it.
CopiesHaveTimer ==
    \A s \in Slots : slot[s].snap.outcome = "queued_for_send" => slot[s].snap.autoAt # "none"

\* Without the user's consent no claim, and no copy of one, is on its way out.
Committed(claim) == claim.outcome \in {"queued_for_send", "pending"} \/ claim.override = "auto"

OutgoingHasConsent ==
    consent = {} => /\ mails = 0
                    /\ DefaultMode # "auto"
                    /\ ~Committed(doc)
                    /\ \A s \in Slots : ~Committed(slot[s].snap)

-----------------------------------------------------------------------------
(* The copies *)

\* Moving on within a request keeps its kind and its copy.
LEMMA GotoKeeps ==
    ASSUME TypeOK, NEW s \in Slots, NEW step, Goto(s, step), NEW r \in Slots
    PROVE  slot'[r].kind = slot[r].kind /\ slot'[r].snap = slot[r].snap
    <1>1. slot \in [Slots -> Invocation] /\ slot[r] \in Invocation
        BY DEF TypeOK
    <1>2. CASE r = s
        <2>1. slot'[r] = [slot[r] EXCEPT !.pc = step]
            BY <1>1, <1>2 DEF Goto
        <2>2. QED
            BY <1>1, <2>1 DEF Invocation
    <1>3. CASE r # s
        BY <1>1, <1>3 DEF Goto
    <1>4. QED
        BY <1>2, <1>3

\* Ending a request empties its slot and touches no other.
LEMMA FinishEmpties ==
    ASSUME TypeOK, NEW s \in Slots, Finish(s), NEW r \in Slots
    PROVE  slot'[r] = Idle \/ slot'[r] = slot[r]
    BY DEF Finish, TypeOK

\* Starting a request fills its slot with a copy of the document.
LEMMA BeginCopies ==
    ASSUME TypeOK, NEW s \in Slots, NEW k, NEW step, NEW m, NEW md, NEW tx,
           Begin(s, k, step, m, md, tx), NEW r \in Slots
    PROVE  \/ slot'[r].kind = k /\ slot'[r].snap = Copy(doc)
           \/ slot'[r] = slot[r]
    BY DEF Begin, TypeOK

\* What one step may do to a slot: leave kind and copy alone, empty it, load
\* the document past the handler's gate, or adopt the draft just stored.
Evolves(r) ==
    \/ slot'[r].kind = slot[r].kind /\ slot'[r].snap = slot[r].snap
    \/ slot'[r] = Idle
    \/ slot'[r].snap = Copy(doc) /\ Gate(slot'[r].kind, doc.outcome)
    \/ /\ PersistDraft(r) /\ slot'[r].kind = "draft"
       /\ \E to \in Drafts : slot'[r].snap = Copy(NewDraft(to))

\* A fresh draft is not queued, and no mode is chosen for it.
LEMMA DraftCopy ==
    ASSUME NEW snap, \E to \in Drafts : snap = Copy(NewDraft(to))
    PROVE  snap.outcome = "draft_pending" /\ snap.override = "none"
    BY DEF Copy, NewDraft, Shell

\* Every step of the system treats every slot in one of these ways.
LEMMA SlotEvolves ==
    ASSUME TypeOK, [Next]_vars, NEW r \in Slots
    PROVE  Evolves(r)
    <1>1. ASSUME NEW g \in GatewaySlots, NEW mode, NEW txt, ApproveLoad(g, mode, txt)
          PROVE  Evolves(r)
        BY <1>1, BeginCopies DEF ApproveLoad, Evolves, Gate, Slots
    <1>2. ASSUME NEW g \in GatewaySlots, CancelLoad(g) \/ RecordLoad(g)
          PROVE  Evolves(r)
        BY <1>2, BeginCopies DEF CancelLoad, RecordLoad, Evolves, Gate, Slots
    <1>3. ASSUME NEW g \in GatewaySlots, NEW txt, EditLoad(g, txt)
          PROVE  Evolves(r)
        BY <1>3, BeginCopies DEF EditLoad, Evolves, Gate, Slots
    <1>4. ASSUME NEW a \in AgentSlots, AgentReceives(a)
          PROVE  Evolves(r)
        <2>1. a \in Slots
            BY DEF Slots
        <2>2. CASE ReceivePriceDropped(a)
            BY <2>1, <2>2, BeginCopies DEF ReceivePriceDropped, Evolves, Gate
        <2>3. CASE ReceiveApproved(a)
            BY <2>1, <2>3, BeginCopies DEF ReceiveApproved, Submittable, Evolves, Gate
        <2>4. ASSUME NEW e \in RedraftEvents, ReceiveRedraft(a, e)
              PROVE  Evolves(r)
            BY <2>1, <2>4, BeginCopies DEF ReceiveRedraft, Evolves, Gate
        <2>5. CASE AutoSendScan(a)
            BY <2>1, <2>5, BeginCopies DEF AutoSendScan, Overdue, Evolves, Gate
        <2>6. QED
            BY <1>4, <2>2, <2>3, <2>4, <2>5 DEF AgentReceives
    <1>5. ASSUME NEW a \in AgentSlots, PersistDraft(a)
          PROVE  Evolves(r)
        <2>1. slot \in [Slots -> Invocation] /\ slot[r] \in Invocation
            BY DEF TypeOK
        <2>2. CASE r = a
            <3>0. PICK to \in Drafts :
                      slot' = [slot EXCEPT ![a].pc = "announce",
                                           ![a].snap = Copy(NewDraft(to))]
                BY <1>5 DEF PersistDraft
            <3>1. slot'[r] = [slot[r] EXCEPT !.pc = "announce", !.snap = Copy(NewDraft(to))]
                BY <2>1, <2>2, <3>0
            <3>2. slot[r].kind = "draft"
                BY <1>5, <2>2 DEF PersistDraft, At
            <3>3. slot'[r].kind = "draft" /\ slot'[r].snap = Copy(NewDraft(to))
                BY <2>1, <3>1, <3>2 DEF Invocation
            <3>4. QED
                BY <1>5, <2>2, <3>3 DEF Evolves
        <2>3. CASE r # a
            BY <1>5, <2>1, <2>3 DEF PersistDraft, Evolves
        <2>4. QED
            BY <2>2, <2>3
    <1>6. ASSUME NEW a \in AgentSlots, AutoSendReread(a)
          PROVE  Evolves(r)
        <2>1. slot \in [Slots -> Invocation] /\ slot[r] \in Invocation
            BY DEF TypeOK
        <2>2. CASE doc.outcome = "queued_for_send"
            <3>1. slot' = [slot EXCEPT ![a].pc = "send", ![a].snap = Copy(doc)]
                BY <1>6, <2>2 DEF AutoSendReread
            <3>2. CASE r = a
                <4>1. slot'[r] = [slot[r] EXCEPT !.pc = "send", !.snap = Copy(doc)]
                    BY <2>1, <3>1, <3>2
                <4>2. slot[r].kind = "worker"
                    BY <1>6, <3>2 DEF AutoSendReread, At
                <4>3. slot'[r].kind = "worker" /\ slot'[r].snap = Copy(doc)
                    BY <2>1, <4>1, <4>2 DEF Invocation
                <4>4. QED
                    BY <2>2, <4>3 DEF Evolves, Gate
            <3>3. CASE r # a
                BY <2>1, <3>1, <3>3 DEF Evolves
            <3>4. QED
                BY <3>2, <3>3
        <2>3. CASE doc.outcome # "queued_for_send"
            BY <1>6, <2>3, FinishEmpties DEF AutoSendReread, Evolves, Slots
        <2>4. QED
            BY <2>2, <2>3
    <1>7. ASSUME NEW s \in Slots, Finish(s) \/ \E step : Goto(s, step)
          PROVE  Evolves(r)
        BY <1>7, FinishEmpties, GotoKeeps DEF Evolves
    <1>8. CASE UNCHANGED slot
        BY <1>8 DEF Evolves
    <1>9. ASSUME NEW g \in GatewaySlots, GatewayStep(g)
          PROVE  Evolves(r)
        <2>1. Finish(g) \/ \E step : Goto(g, step)
            BY <1>9 DEF GatewayStep, ApproveWrite, ApprovePublish, ApproveRollback,
                        ApproveNotify, CancelWrite, RecordWrite, EditWrite
        <2>2. QED
            BY <1>7, <2>1 DEF Slots
    <1>10. ASSUME NEW a \in AgentSlots, AgentStep(a)
           PROVE  Evolves(r)
        <2>1. CASE PersistDraft(a) \/ AutoSendReread(a)
            BY <1>5, <1>6, <2>1
        <2>2. CASE ~(PersistDraft(a) \/ AutoSendReread(a))
            <3>1. Finish(a) \/ \E step : Goto(a, step)
                BY <1>10, <2>2
                   DEF AgentStep, HandlerGivesUp, NotifyDrafted, ApplyMode,
                       PublishDrafted, NotifyQueued, BeginRedraft, AppendRedraft,
                       MarkRedraftDone, Send, SendTerminal, SendTransient,
                       RecordSubmission, RevertSubmission, AutoSendPublish,
                       AutoSendRollback, AutoSendNotify
            <3>2. QED
                BY <1>7, <3>1 DEF Slots
        <2>3. QED
            BY <2>1, <2>2
    <1>11. CASE Environment
        <2>1. UNCHANGED slot \/ \E s \in Slots : Finish(s)
            BY <1>11 DEF Environment, DelayElapses, CancelWindowCloses, Crash, Redeliver
        <2>2. QED
            BY <1>7, <1>8, <2>1
    <1>12. CASE UserStep
        <2>1. CASE UNCHANGED slot
            BY <1>8, <2>1
        <2>2. CASE ~UNCHANGED slot
            BY <1>1, <1>2, <1>3, <1>12, <2>2 DEF UserStep, UpdateSendOverride, RequestRedraft
        <2>3. QED
            BY <2>1, <2>2
    <1>13. CASE UNCHANGED vars
        BY <1>8, <1>13 DEF vars
    <1>14. QED
        BY <1>4, <1>9, <1>10, <1>11, <1>12, <1>13 DEF Next

\* A gate that held when the copy was loaded holds of it for as long as the
\* request runs.
LEMMA GatesStep ==
    ASSUME TypeOK, GatesHeld, [Next]_vars
    PROVE  GatesHeld'
    <1>1. SUFFICES ASSUME NEW r \in Slots
                   PROVE  Gate(slot'[r].kind, slot'[r].snap.outcome)
        BY DEF GatesHeld
    <1>2. Evolves(r) /\ Gate(slot[r].kind, slot[r].snap.outcome)
        BY SlotEvolves DEF GatesHeld
    <1>3. QED
        BY <1>2 DEF Evolves, Gate, Idle, Copy

-----------------------------------------------------------------------------
(* The document *)

\* The steps that may change the document; every other step leaves it alone.
LEMMA DocWriters ==
    ASSUME [Next]_vars
    PROVE  \/ UNCHANGED doc
           \/ \E mode \in SendModes \cup {"none"} : UpdateSendOverride(mode)
           \/ \E g \in GatewaySlots :
                 ApproveWrite(g) \/ ApproveRollback(g) \/ CancelWrite(g)
                 \/ RecordWrite(g) \/ EditWrite(g)
           \/ \E a \in AgentSlots :
                 PersistDraft(a) \/ ApplyMode(a) \/ AppendRedraft(a)
                 \/ RecordSubmission(a) \/ RevertSubmission(a) \/ AutoSendRollback(a)
           \/ DelayElapses \/ CancelWindowCloses
    <1>1. ASSUME NEW g \in GatewaySlots, ApprovePublish(g) \/ ApproveNotify(g)
          PROVE  UNCHANGED doc
        BY <1>1 DEF ApprovePublish, ApproveNotify
    <1>2. ASSUME NEW a \in AgentSlots, AgentReceives(a)
          PROVE  UNCHANGED doc
        BY <1>2 DEF AgentReceives, ReceivePriceDropped, ReceiveApproved, ReceiveRedraft,
                    AutoSendScan
    <1>3. ASSUME NEW a \in AgentSlots, AgentStep(a),
                 ~(\/ PersistDraft(a) \/ ApplyMode(a) \/ AppendRedraft(a)
                   \/ RecordSubmission(a) \/ RevertSubmission(a) \/ AutoSendRollback(a))
          PROVE  UNCHANGED doc
        BY <1>3 DEF AgentStep, HandlerGivesUp, NotifyDrafted, PublishDrafted,
                    NotifyQueued, BeginRedraft, MarkRedraftDone, AutoSendReread, Send,
                    SendTerminal, SendTransient, AutoSendPublish, AutoSendNotify
    <1>4. ASSUME NEW s \in Slots, Crash(s) \/ Redeliver(s)
          PROVE  UNCHANGED doc
        BY <1>4 DEF Crash, Redeliver
    <1>5. ASSUME UserStep, ~\E mode \in SendModes \cup {"none"} : UpdateSendOverride(mode)
          PROVE  UNCHANGED doc
        BY <1>5 DEF UserStep, ApproveLoad, CancelLoad, RecordLoad, EditLoad, RequestRedraft
    <1>6. CASE UNCHANGED vars
        BY <1>6 DEF vars
    <1>7. CASE \E g \in GatewaySlots : GatewayStep(g)
        BY <1>7, <1>1 DEF GatewayStep
    <1>8. CASE \E a \in AgentSlots : AgentReceives(a) \/ AgentStep(a)
        BY <1>8, <1>2, <1>3
    <1>9. CASE Environment
        BY <1>9, <1>4 DEF Environment
    <1>10. QED
        BY <1>5, <1>6, <1>7, <1>8, <1>9 DEF Next

-----------------------------------------------------------------------------
(* A queued claim has a send time *)

TimerInv == TypeOK /\ GatesHeld /\ CopiesHaveTimer /\ QueuedHasTimer

\* The copies: what was loaded from a queued claim includes its timer.
LEMMA CopiesTimerStep ==
    ASSUME TimerInv, [Next]_vars
    PROVE  CopiesHaveTimer'
    <1>1. SUFFICES ASSUME NEW r \in Slots, slot'[r].snap.outcome = "queued_for_send"
                   PROVE  slot'[r].snap.autoAt # "none"
        BY DEF CopiesHaveTimer
    <1>2. Evolves(r)
        BY SlotEvolves DEF TimerInv
    <1>3. QED
        <2>1. slot'[r].snap # Copy(Shell)
            BY <1>1 DEF Copy, Shell
        <2>2. ~\E to \in Drafts : slot'[r].snap = Copy(NewDraft(to))
            BY <1>1, DraftCopy
        <2>3. CASE slot'[r].snap = Copy(doc)
            BY <1>1, <2>3 DEF TimerInv, QueuedHasTimer, Copy
        <2>4. CASE slot'[r].snap = slot[r].snap
            BY <1>1, <2>4 DEF TimerInv, CopiesHaveTimer
        <2>5. QED
            BY <1>2, <2>1, <2>2, <2>3, <2>4 DEF Evolves, Idle

\* The document: who queues a claim sets its timer, who clears the timer takes
\* the claim out of the queue, and a rollback restores both from one copy.
LEMMA QueuedTimerStep ==
    ASSUME TimerInv, [Next]_vars
    PROVE  QueuedHasTimer'
    <1>0. /\ doc \in Claim
          /\ doc.outcome = "queued_for_send" => doc.autoAt # "none"
        BY DEF TimerInv, TypeOK, QueuedHasTimer
    <1>1. CASE UNCHANGED doc
        BY <1>0, <1>1 DEF QueuedHasTimer
    <1>2. ASSUME NEW mode, UpdateSendOverride(mode)
          PROVE  QueuedHasTimer'
        BY <1>0, <1>2 DEF UpdateSendOverride, QueuedHasTimer, Claim
    <1>3. ASSUME NEW g \in GatewaySlots, ApproveWrite(g)
          PROVE  QueuedHasTimer'
        BY <1>0, <1>3 DEF ApproveWrite, Approved, Pushed, QueuedHasTimer, Claim
    <1>4. ASSUME NEW g \in GatewaySlots, ApproveRollback(g)
          PROVE  QueuedHasTimer'
        <2>1. slot[g].snap.outcome = "queued_for_send" => slot[g].snap.autoAt # "none"
            BY DEF TimerInv, CopiesHaveTimer, Slots
        <2>2. doc' = doc \/ doc' = Restored(doc, slot[g].snap)
            BY <1>4 DEF ApproveRollback
        <2>3. QED
            BY <1>0, <2>1, <2>2 DEF Restored, QueuedHasTimer, Claim
    <1>5. ASSUME NEW g \in GatewaySlots, CancelWrite(g) \/ RecordWrite(g) \/ EditWrite(g)
          PROVE  QueuedHasTimer'
        BY <1>0, <1>5 DEF CancelWrite, RecordWrite, EditWrite, Pushed, QueuedHasTimer, Claim
    <1>6. ASSUME NEW a \in AgentSlots, PersistDraft(a)
          PROVE  QueuedHasTimer'
        BY <1>6 DEF PersistDraft, NewDraft, Shell, QueuedHasTimer
    <1>7. ASSUME NEW a \in AgentSlots, ApplyMode(a)
          PROVE  QueuedHasTimer'
        BY <1>0, <1>7 DEF ApplyMode, Dispatched, QueuedHasTimer, Claim
    <1>8. ASSUME NEW a \in AgentSlots, AppendRedraft(a)
          PROVE  QueuedHasTimer'
        BY <1>0, <1>8 DEF AppendRedraft, Pushed, QueuedHasTimer, Claim
    <1>9. ASSUME NEW a \in AgentSlots, RecordSubmission(a) \/ RevertSubmission(a)
          PROVE  QueuedHasTimer'
        BY <1>0, <1>9 DEF RecordSubmission, RevertSubmission, QueuedHasTimer, Claim
    <1>10. ASSUME NEW a \in AgentSlots, AutoSendRollback(a)
           PROVE  QueuedHasTimer'
        <2>1. slot[a].snap.outcome = "queued_for_send"
            BY <1>10 DEF AutoSendRollback, At, TimerInv, GatesHeld, Gate, Slots
        <2>2. slot[a].snap.autoAt # "none"
            BY <2>1 DEF TimerInv, CopiesHaveTimer, Slots
        <2>3. QED
            BY <1>0, <1>10, <2>2 DEF AutoSendRollback, QueuedHasTimer, Claim
    <1>11. CASE DelayElapses \/ CancelWindowCloses
        BY <1>0, <1>11 DEF DelayElapses, CancelWindowCloses, QueuedHasTimer, Claim
    <1>12. QED
        BY <1>1, <1>2, <1>3, <1>4, <1>5, <1>6, <1>7, <1>8, <1>9, <1>10, <1>11, DocWriters

\* A claim is never queued without a send time, whatever fails and whoever
\* rolls back: the auto-send query always finds it.
THEOREM QueuedTimer == Spec => []QueuedHasTimer
<1>1. Init => TimerInv
    BY InitTypeOK DEF Init, TimerInv, GatesHeld, Gate, CopiesHaveTimer, QueuedHasTimer,
                      Idle, Copy, Shell
<1>2. TimerInv /\ TypeOK' /\ [Next]_vars => TimerInv'
    BY GatesStep, CopiesTimerStep, QueuedTimerStep DEF TimerInv
<1>3. TimerInv => QueuedHasTimer
    BY DEF TimerInv
<1>4. QED
    BY <1>1, <1>2, <1>3, TypeCorrect, PTL DEF Spec

-----------------------------------------------------------------------------
(* No e-mail without consent *)

ConsentInv == TypeOK /\ GatesHeld /\ OutgoingHasConsent

\* Consent is never withdrawn: nothing in the code takes a send back from the
\* record that the user agreed to one.
LEMMA ConsentGrows ==
    ASSUME [Next]_vars
    PROVE  consent \subseteq consent'
    <1>1. ASSUME NEW mode, UpdateSendOverride(mode)
          PROVE  consent \subseteq consent'
        BY <1>1 DEF UpdateSendOverride, Consents
    <1>2. ASSUME UserStep
          PROVE  consent \subseteq consent'
        BY <1>1, <1>2 DEF UserStep, ApproveLoad, CancelLoad, RecordLoad, EditLoad, RequestRedraft
    <1>3. ASSUME NEW g \in GatewaySlots, GatewayStep(g)
          PROVE  consent \subseteq consent'
        BY <1>3 DEF GatewayStep, ApproveWrite, ApprovePublish, ApproveRollback,
                    ApproveNotify, CancelWrite, RecordWrite, EditWrite
    <1>4. ASSUME NEW a \in AgentSlots, AgentReceives(a)
          PROVE  consent \subseteq consent'
        BY <1>4 DEF AgentReceives, ReceivePriceDropped, ReceiveApproved, ReceiveRedraft,
                    AutoSendScan
    <1>5. ASSUME NEW a \in AgentSlots, AgentStep(a)
          PROVE  consent \subseteq consent'
        BY <1>5 DEF AgentStep, PersistDraft, HandlerGivesUp, NotifyDrafted, ApplyMode,
                    PublishDrafted, NotifyQueued, BeginRedraft, AppendRedraft,
                    MarkRedraftDone, AutoSendReread, Send, SendTerminal, SendTransient,
                    RecordSubmission, RevertSubmission, AutoSendPublish,
                    AutoSendRollback, AutoSendNotify
    <1>6. ASSUME Environment
          PROVE  consent \subseteq consent'
        BY <1>6 DEF Environment, DelayElapses, CancelWindowCloses, Crash, Redeliver
    <1>7. CASE UNCHANGED vars
        BY <1>7 DEF vars
    <1>8. QED
        BY <1>2, <1>3, <1>4, <1>5, <1>6, <1>7 DEF Next

\* Only a request past the gate of claim.approved or of the auto-send worker
\* sends a message.
LEMMA Senders ==
    ASSUME [Next]_vars, mails' # mails
    PROVE  \E a \in AgentSlots : slot[a].kind \in {"submit", "worker"}
    <1>1. ASSUME NEW a \in AgentSlots, Send(a) \/ SendTransient(a)
          PROVE  slot[a].kind \in {"submit", "worker"}
        BY <1>1 DEF Send, SendTransient, At
    <1>2. CASE UserStep
        BY <1>2 DEF UserStep, ApproveLoad, CancelLoad, RecordLoad, EditLoad,
                    UpdateSendOverride, RequestRedraft
    <1>3. ASSUME NEW g \in GatewaySlots, GatewayStep(g)
          PROVE  UNCHANGED mails
        BY <1>3 DEF GatewayStep, ApproveWrite, ApprovePublish, ApproveRollback,
                    ApproveNotify, CancelWrite, RecordWrite, EditWrite
    <1>4. ASSUME NEW a \in AgentSlots, AgentReceives(a)
          PROVE  UNCHANGED mails
        BY <1>4 DEF AgentReceives, ReceivePriceDropped, ReceiveApproved, ReceiveRedraft,
                    AutoSendScan
    <1>5. ASSUME NEW a \in AgentSlots, AgentStep(a)
          PROVE  Send(a) \/ SendTransient(a) \/ UNCHANGED mails
        BY <1>5 DEF AgentStep, PersistDraft, HandlerGivesUp, NotifyDrafted, ApplyMode,
                    PublishDrafted, NotifyQueued, BeginRedraft, AppendRedraft,
                    MarkRedraftDone, AutoSendReread, SendTerminal,
                    RecordSubmission, RevertSubmission, AutoSendPublish,
                    AutoSendRollback, AutoSendNotify
    <1>6. CASE Environment
        BY <1>6 DEF Environment, DelayElapses, CancelWindowCloses, Crash, Redeliver
    <1>7. CASE UNCHANGED vars
        BY <1>7 DEF vars
    <1>8. QED
        BY <1>1, <1>2, <1>3, <1>4, <1>5, <1>6, <1>7 DEF Next

\* Without consent no handler brings the claim nearer to being sent.
LEMMA CommittedStep ==
    ASSUME ConsentInv, [Next]_vars, consent' = {}
    PROVE  ~Committed(doc')
    <1>1. /\ consent = {} /\ DefaultMode # "auto" /\ doc \in Claim
          /\ doc.outcome \notin {"queued_for_send", "pending"} /\ doc.override # "auto"
        BY ConsentGrows DEF ConsentInv, OutgoingHasConsent, Committed, TypeOK
    <1>2. ASSUME NEW s \in Slots
          PROVE  /\ slot[s].snap.outcome \notin {"queued_for_send", "pending"}
                 /\ slot[s].snap.override # "auto"
                 /\ slot[s].kind \notin {"submit", "worker"}
        BY <1>1 DEF ConsentInv, OutgoingHasConsent, Committed, GatesHeld, Gate
    <1>3. CASE UNCHANGED doc
        BY <1>1, <1>3 DEF Committed
    <1>4. ASSUME NEW mode \in SendModes \cup {"none"}, UpdateSendOverride(mode)
          PROVE  ~Committed(doc')
        <2>1. mode # "auto"
            BY <1>4 DEF UpdateSendOverride, Consents
        <2>2. QED
            BY <1>1, <1>4, <2>1 DEF UpdateSendOverride, Claim, Committed
    <1>5. ASSUME NEW g \in GatewaySlots
          PROVE  ~ApproveWrite(g)
        BY DEF ApproveWrite
    <1>6. ASSUME NEW g \in GatewaySlots, ApproveRollback(g)
          PROVE  ~Committed(doc')
        <2>1. slot[g].snap.outcome \notin {"queued_for_send", "pending"}
            BY <1>2 DEF Slots
        <2>2. doc' = doc \/ doc' = Restored(doc, slot[g].snap)
            BY <1>6 DEF ApproveRollback
        <2>3. QED
            BY <1>1, <2>1, <2>2 DEF Restored, Claim, Committed
    <1>7. ASSUME NEW g \in GatewaySlots, CancelWrite(g) \/ RecordWrite(g) \/ EditWrite(g)
          PROVE  ~Committed(doc')
        BY <1>1, <1>7 DEF CancelWrite, RecordWrite, EditWrite, Pushed, Claim, Committed
    <1>8. ASSUME NEW a \in AgentSlots, PersistDraft(a)
          PROVE  ~Committed(doc')
        BY <1>8 DEF PersistDraft, NewDraft, Shell, Committed
    <1>9. ASSUME NEW a \in AgentSlots, ApplyMode(a)
          PROVE  ~Committed(doc')
        <2>1. DetermineSendMode(slot[a].snap) # "auto"
            BY <1>1, <1>2 DEF DetermineSendMode, Slots
        <2>2. QED
            BY <1>1, <1>9, <2>1 DEF ApplyMode, Dispatched, Claim, Committed
    <1>10. ASSUME NEW a \in AgentSlots, AppendRedraft(a)
           PROVE  ~Committed(doc')
        BY <1>1, <1>10 DEF AppendRedraft, Pushed, Claim, Committed
    <1>11. ASSUME NEW a \in AgentSlots
           PROVE  ~(RecordSubmission(a) \/ RevertSubmission(a) \/ AutoSendRollback(a))
        BY <1>2 DEF RecordSubmission, RevertSubmission, AutoSendRollback, At, Slots
    <1>12. CASE DelayElapses \/ CancelWindowCloses
        BY <1>1, <1>12 DEF DelayElapses, CancelWindowCloses, Claim, Committed
    <1>13. QED
        BY <1>3, <1>4, <1>5, <1>6, <1>7, <1>8, <1>9, <1>10, <1>11, <1>12, DocWriters

\* A request about to send has the consent of the user behind it.
LEMMA OutgoingStep ==
    ASSUME ConsentInv, [Next]_vars
    PROVE  OutgoingHasConsent'
    <1>1. SUFFICES ASSUME consent' = {}
                   PROVE  /\ mails' = 0
                          /\ DefaultMode # "auto"
                          /\ ~Committed(doc')
                          /\ \A s \in Slots : ~Committed(slot'[s].snap)
        BY DEF OutgoingHasConsent, Committed
    <1>2. /\ mails = 0 /\ DefaultMode # "auto" /\ ~Committed(doc)
          /\ \A s \in Slots : ~Committed(slot[s].snap)
        BY <1>1, ConsentGrows DEF ConsentInv, OutgoingHasConsent
    <1>3. ~Committed(doc')
        BY <1>1, CommittedStep
    <1>4. mails' = 0
        <2>1. \A a \in AgentSlots : slot[a].kind \notin {"submit", "worker"}
            BY <1>2 DEF ConsentInv, GatesHeld, Gate, Committed, Slots
        <2>2. QED
            BY <1>2, <2>1, Senders
    <1>5. ASSUME NEW s \in Slots
          PROVE  ~Committed(slot'[s].snap)
        <2>1. Evolves(s)
            BY SlotEvolves DEF ConsentInv
        <2>2. QED
            <3>1. ~Committed(Copy(Shell)) /\ ~Committed(Copy(doc))
                BY <1>2 DEF Committed, Copy, Shell
            <3>2. (\E to \in Drafts : slot'[s].snap = Copy(NewDraft(to)))
                     => ~Committed(slot'[s].snap)
                BY DraftCopy DEF Committed
            <3>3. QED
                BY <1>2, <2>1, <3>1, <3>2 DEF Evolves, Idle
    <1>6. QED
        BY <1>2, <1>3, <1>4, <1>5

\* No e-mail leaves without the user's consent, given for the draft or in
\* advance, whatever is redelivered, rolled back or crashes.
THEOREM MailConsent == Spec => []MailNeedsConsent
<1>1. Init => ConsentInv
    BY InitTypeOK DEF Init, ConsentInv, GatesHeld, Gate, OutgoingHasConsent, Committed,
                      Idle, Copy, Shell
<1>2. ConsentInv /\ TypeOK' /\ [Next]_vars => ConsentInv'
    BY GatesStep, OutgoingStep DEF ConsentInv
<1>3. ConsentInv => MailNeedsConsent
    BY DEF ConsentInv, OutgoingHasConsent, MailNeedsConsent
<1>4. QED
    BY <1>1, <1>2, <1>3, TypeCorrect, PTL DEF Spec

-----------------------------------------------------------------------------
(* Resolved claims, and the text of the draft *)

\* Whoever takes a claim out of a resolved outcome is a drafting handler, or
\* loaded the claim before it was resolved.
THEOREM ResolvedStays == Spec => ResolutionIsFinal
<1> DEFINE Reviver ==
      \E s \in Slots : /\ slot[s].pc # "idle"
                       /\ \/ slot[s].kind \in {"draft", "redraft"}
                          \/ slot[s].snap.outcome \notin Resolved
<1>1. ASSUME TypeOK, GatesHeld, [Next]_vars, doc.outcome \in Resolved,
             doc'.outcome \notin Resolved
      PROVE  Reviver
    <2>0. doc \in Claim
        BY <1>1 DEF TypeOK
    <2>1. ASSUME NEW mode, UpdateSendOverride(mode)
          PROVE  FALSE
        BY <1>1, <2>0, <2>1 DEF UpdateSendOverride, Claim
    <2>2. ASSUME NEW g \in GatewaySlots, ApproveWrite(g) \/ ApproveRollback(g)
          PROVE  Reviver
        <3>1. slot[g].kind = "approve" /\ slot[g].pc # "idle" /\ g \in Slots
            BY <2>2 DEF ApproveWrite, ApproveRollback, At, Slots
        <3>2. slot[g].snap.outcome \notin Resolved
            BY <1>1, <3>1 DEF GatesHeld, Gate, Resolved
        <3>3. QED
            BY <3>1, <3>2
    <2>3. ASSUME NEW g \in GatewaySlots, CancelWrite(g) \/ RecordWrite(g) \/ EditWrite(g)
          PROVE  FALSE
        BY <1>1, <2>0, <2>3 DEF CancelWrite, RecordWrite, EditWrite, Pushed, Claim, Resolved
    <2>4. ASSUME NEW a \in AgentSlots, PersistDraft(a) \/ ApplyMode(a) \/ AppendRedraft(a)
          PROVE  Reviver
        BY <2>4 DEF PersistDraft, ApplyMode, AppendRedraft, At, Slots
    <2>5. ASSUME NEW a \in AgentSlots,
                 RecordSubmission(a) \/ RevertSubmission(a) \/ AutoSendRollback(a)
          PROVE  Reviver
        <3>1. /\ slot[a].kind \in {"submit", "worker"} /\ slot[a].pc # "idle"
              /\ a \in Slots
            BY <2>5 DEF RecordSubmission, RevertSubmission, AutoSendRollback, At, Slots
        <3>2. slot[a].snap.outcome \notin Resolved
            BY <1>1, <3>1 DEF GatesHeld, Gate, Resolved
        <3>3. QED
            BY <3>1, <3>2
    <2>6. CASE DelayElapses \/ CancelWindowCloses
        BY <1>1, <2>0, <2>6 DEF DelayElapses, CancelWindowCloses, Claim
    <2>7. QED
        BY <1>1, <2>1, <2>2, <2>3, <2>4, <2>5, <2>6, DocWriters
<1>2. TypeOK /\ GatesHeld /\ [Next]_vars =>
        [(doc.outcome \in Resolved /\ doc'.outcome \notin Resolved) => Reviver]_vars
    BY <1>1
<1>3. Init => GatesHeld
    BY DEF Init, GatesHeld, Gate, Idle
<1>4. TypeOK /\ GatesHeld /\ [Next]_vars => GatesHeld'
    BY GatesStep
<1>5. QED
    BY <1>2, <1>3, <1>4, TypeCorrect, PTL DEF Spec, ResolutionIsFinal

\* A claim always has a draft, and draft_content is its latest version.
DraftInv == Len(doc.vers) > 0 /\ DraftInSync

\* Adding a version this way keeps the two together.
LEMMA PushedInSync ==
    ASSUME NEW claim \in Claim, NEW number, NEW txt \in Texts
    PROVE  LET c == Pushed(claim, number, txt) IN
           /\ Len(c.vers) > 0
           /\ c.content = c.vers[Len(c.vers)].text
    <1> DEFINE version == [n |-> number, text |-> txt]
    <1>1. claim.vers \in Seq([n : Nat, text : Texts])
        BY DEF Claim
    <1>2. /\ Len(Append(claim.vers, version)) = Len(claim.vers) + 1
          /\ Append(claim.vers, version)[Len(claim.vers) + 1] = version
          /\ Len(claim.vers) \in Nat
        BY <1>1
    <1>3. /\ Pushed(claim, number, txt).vers = Append(claim.vers, version)
          /\ Pushed(claim, number, txt).content = txt
        BY DEF Pushed, Claim
    <1>4. QED
        BY <1>2, <1>3

\* The scalar and the version history never come apart, although three
\* handlers push versions concurrently and none goes through the validator.
THEOREM DraftsAgree == Spec => []DraftInSync
<1>1. Init => DraftInv
    BY DEF Init, DraftInv, DraftInSync, Shell
<1>2. ASSUME TypeOK, DraftInv, [Next]_vars
      PROVE  DraftInv'
    <2>0. doc \in Claim /\ Len(doc.vers) > 0 /\ doc.content = doc.vers[Len(doc.vers)].text
        BY <1>2 DEF TypeOK, DraftInv, DraftInSync
    <2>1. CASE doc'.vers = doc.vers /\ doc'.content = doc.content
        BY <2>0, <2>1 DEF DraftInv, DraftInSync
    <2>2. ASSUME NEW mode, UpdateSendOverride(mode)
          PROVE  doc'.vers = doc.vers /\ doc'.content = doc.content
        BY <2>0, <2>2 DEF UpdateSendOverride, Claim
    <2>3. ASSUME NEW g \in GatewaySlots, ApproveWrite(g)
          PROVE  DraftInv'
        <3>1. /\ Approved(doc, slot[g].mode) \in Claim
              /\ Approved(doc, slot[g].mode).vers = doc.vers
              /\ Approved(doc, slot[g].mode).content = doc.content
            BY <1>2, <2>0, SlotFields DEF Approved, Claim, Outcomes, Slots
        <3>2. CASE slot[g].text = "none"
            BY <2>1, <2>3, <3>1, <3>2 DEF ApproveWrite
        <3>3. CASE slot[g].text # "none"
            <4>1. slot[g].text \in Texts
                BY <1>2, <3>3, SlotFields DEF Slots
            <4>2. doc' = Pushed(Approved(doc, slot[g].mode), slot[g].snap.versions + 1,
                                slot[g].text)
                BY <2>3, <3>3 DEF ApproveWrite
            <4>3. QED
                BY <3>1, <4>1, <4>2, PushedInSync DEF DraftInv, DraftInSync
        <3>4. QED
            BY <3>2, <3>3
    <2>4. ASSUME NEW g \in GatewaySlots, ApproveRollback(g)
          PROVE  doc'.vers = doc.vers /\ doc'.content = doc.content
        BY <2>0, <2>4 DEF ApproveRollback, Restored, Claim
    <2>5. ASSUME NEW g \in GatewaySlots, CancelWrite(g) \/ RecordWrite(g)
          PROVE  doc'.vers = doc.vers /\ doc'.content = doc.content
        BY <2>0, <2>5 DEF CancelWrite, RecordWrite, Claim
    <2>6. ASSUME NEW g \in GatewaySlots, EditWrite(g)
          PROVE  DraftInv'
        <3>1. slot[g].text \in Texts
            BY <1>2, <2>6, SlotFields DEF EditWrite, At, Slots, Texts
        <3>2. QED
            BY <2>0, <2>6, <3>1, PushedInSync DEF EditWrite, DraftInv, DraftInSync
    <2>7. ASSUME NEW a \in AgentSlots, PersistDraft(a)
          PROVE  DraftInv'
        BY <2>7 DEF PersistDraft, NewDraft, Shell, DraftInv, DraftInSync
    <2>8. ASSUME NEW a \in AgentSlots, ApplyMode(a)
          PROVE  doc'.vers = doc.vers /\ doc'.content = doc.content
        BY <2>0, <2>8 DEF ApplyMode, Dispatched, Claim
    <2>9. ASSUME NEW a \in AgentSlots, AppendRedraft(a)
          PROVE  DraftInv'
        <3> DEFINE c == Pushed(doc, Len(doc.vers) + 1, slot[a].msg)
        <3>1. slot[a].msg \in Texts
            BY <1>2, <2>9, SlotFields DEF AppendRedraft, At, Slots, Texts
        <3>2. c \in Claim
            <4>1. Len(doc.vers) + 1 \in Nat
                BY <2>0 DEF Claim
            <4>2. QED
                BY <2>0, <3>1, <4>1, PushedType
        <3>3. Len(c.vers) > 0 /\ c.content = c.vers[Len(c.vers)].text
            BY <2>0, <3>1, PushedInSync
        <3>4. PICK to \in Drafts : doc' = [c EXCEPT !.to = to]
            BY <2>9 DEF AppendRedraft
        <3> HIDE DEF c
        <3>5. doc'.vers = c.vers /\ doc'.content = c.content
            BY <3>2, <3>4 DEF Claim
        <3>6. QED
            BY <3>3, <3>5 DEF DraftInv, DraftInSync
    <2>10. ASSUME NEW a \in AgentSlots,
                  RecordSubmission(a) \/ RevertSubmission(a) \/ AutoSendRollback(a)
           PROVE  doc'.vers = doc.vers /\ doc'.content = doc.content
        BY <2>0, <2>10 DEF RecordSubmission, RevertSubmission, AutoSendRollback, Claim
    <2>11. CASE DelayElapses \/ CancelWindowCloses
        BY <2>0, <2>1, <2>11 DEF DelayElapses, CancelWindowCloses, Claim
    <2>12. CASE UNCHANGED doc
        BY <2>1, <2>12
    <2>13. QED
        BY <1>2, <2>1, <2>2, <2>3, <2>4, <2>5, <2>6, <2>7, <2>8, <2>9, <2>10, <2>11,
           <2>12, DocWriters
<1>3. DraftInv => DraftInSync
    BY DEF DraftInv
<1>4. QED
    BY <1>1, <1>2, <1>3, TypeCorrect, PTL DEF Spec

-----------------------------------------------------------------------------
(* A redraft changes the draft once                                        *)
(*                                                                         *)
(* The idempotency record is inserted before the draft is written, and a   *)
(* document that has a redraft's text has its record.                      *)

HasText(e) == \E i \in DOMAIN doc.vers : doc.vers[i].text = e

\* The handler in s has inserted the record of e and not yet written its draft.
Redrafting(s, e) == At(s, {"redraft"}, "generate") /\ slot[s].msg = e

\* Only one handler does so for an event, and before its text is there.
OneRedrafts ==
    \A s \in Slots, e \in RedraftEvents : Redrafting(s, e) =>
        /\ idem[e] # "none" /\ ~HasText(e)
        /\ \A t \in Slots : Redrafting(t, e) => t = s

RedraftInv ==
    /\ TypeOK
    /\ OneRedrafts
    /\ \A e \in RedraftEvents : HasText(e) => idem[e] # "none"
    /\ RedraftOnce

\* A redraft comes to generate only by the first delivery of its event.
Delivers(r) ==
    At(r, {"redraft"}, "generate")' =>
        /\ slot'[r].msg = slot[r].msg
        /\ \/ At(r, {"redraft"}, "generate")
           \/ BeginRedraft(r) /\ FirstDelivery(slot[r].msg)

LEMMA GotoDelivers ==
    ASSUME TypeOK, NEW s \in Slots, NEW step, Goto(s, step), NEW r \in Slots
    PROVE  /\ slot'[r].text = slot[r].text /\ slot'[r].msg = slot[r].msg
           /\ slot'[r].kind = slot[r].kind
           /\ slot'[r].pc = IF r = s THEN step ELSE slot[r].pc
    <1>1. slot \in [Slots -> Invocation] /\ slot[r] \in Invocation
        BY DEF TypeOK
    <1>2. CASE r = s
        <2>1. slot'[r] = [slot[r] EXCEPT !.pc = step]
            BY <1>1, <1>2 DEF Goto
        <2>2. QED
            BY <1>1, <1>2, <2>1 DEF Invocation
    <1>3. CASE r # s
        BY <1>1, <1>3 DEF Goto
    <1>4. QED
        BY <1>2, <1>3

\* A request that starts is not at its draft if it is a redraft.
LEMMA BeginDelivers ==
    ASSUME TypeOK, NEW s \in Slots, NEW k, NEW step, NEW m, NEW md, NEW tx,
           Begin(s, k, step, m, md, tx), k # "redraft" \/ step # "generate",
           NEW r \in Slots
    PROVE  Delivers(r)
    <1>1. \/ slot'[r].kind = k /\ slot'[r].pc = step
          \/ slot'[r] = slot[r]
        BY DEF Begin, TypeOK
    <1>2. QED
        BY <1>1 DEF Delivers, At

\* Every step treats every slot so.
LEMMA SlotDelivers ==
    ASSUME TypeOK, [Next]_vars, NEW r \in Slots
    PROVE  Delivers(r)
    <1>1. ASSUME NEW g \in GatewaySlots,
                 \/ \E mode \in SendModes \cup {"none"}, txt \in EditTexts \cup {"none"} :
                       ApproveLoad(g, mode, txt)
                 \/ CancelLoad(g) \/ RecordLoad(g) \/ \E txt \in EditTexts : EditLoad(g, txt)
          PROVE  Delivers(r)
        <2>1. g \in Slots
            BY DEF Slots
        <2>2. \E k \in {"approve", "cancel", "record", "edit"}, md \in SendModes \cup {"none"},
                 tx \in EditTexts \cup {"none"} : Begin(g, k, "write", "none", md, tx)
            <3>1. ASSUME NEW mode \in SendModes \cup {"none"},
                         NEW txt \in EditTexts \cup {"none"}, ApproveLoad(g, mode, txt)
                  PROVE  Begin(g, "approve", "write", "none", mode, txt)
                BY <3>1 DEF ApproveLoad
            <3>2. ASSUME CancelLoad(g) \/ RecordLoad(g)
                  PROVE  \E k \in {"cancel", "record"} :
                            Begin(g, k, "write", "none", "none", "none")
                BY <3>2 DEF CancelLoad, RecordLoad
            <3>3. ASSUME NEW txt \in EditTexts, EditLoad(g, txt)
                  PROVE  Begin(g, "edit", "write", "none", "none", txt)
                BY <3>3 DEF EditLoad
            <3> HIDE DEF SendModes
            <3>4. QED
                BY <1>1, <3>1, <3>2, <3>3
        <2>3. QED
            <3>1. PICK k \in {"approve", "cancel", "record", "edit"},
                       md \in SendModes \cup {"none"},
                       tx \in EditTexts \cup {"none"} : Begin(g, k, "write", "none", md, tx)
                BY <2>2
            <3>2. k # "redraft"
                OBVIOUS
            <3>3. QED
                BY <2>1, <3>1, <3>2, BeginDelivers
    <1>2. ASSUME NEW a \in AgentSlots, AgentReceives(a)
          PROVE  Delivers(r)
        <2>1. a \in Slots
            BY DEF Slots
        <2>2. CASE UNCHANGED slot
            BY <2>2 DEF Delivers, At
        <2>3. \/ UNCHANGED slot
              \/ \E m : \E k \in {"draft", "submit", "worker", "redraft"},
                          step \in {"generate", "send", "reread", "begin"} :
                    /\ Begin(a, k, step, m, "none", "none")
                    /\ k # "redraft" \/ step # "generate"
            BY <1>2 DEF AgentReceives, ReceivePriceDropped, ReceiveApproved,
                        ReceiveRedraft, AutoSendScan
        <2>4. QED
            BY <2>1, <2>2, <2>3, BeginDelivers
    <1>3. ASSUME NEW a \in AgentSlots, NEW step \in {"announce", "send"}, NEW claim,
                 slot' = [slot EXCEPT ![a].pc = step, ![a].snap = claim]
          PROVE  Delivers(r)
        <2>1. slot \in [Slots -> Invocation] /\ slot[r] \in Invocation
            BY DEF TypeOK
        <2>2. CASE r = a
            <3>1. slot'[r] = [slot[r] EXCEPT !.pc = step, !.snap = claim]
                BY <1>3, <2>1, <2>2
            <3>2. slot'[r].pc = step /\ slot'[r].text = slot[r].text
                BY <2>1, <3>1 DEF Invocation
            <3>3. QED
                BY <3>2 DEF Delivers, At
        <2>3. CASE r # a
            BY <1>3, <2>1, <2>3 DEF Delivers, At
        <2>4. QED
            BY <2>2, <2>3
    <1>4. ASSUME NEW s \in Slots, Finish(s)
          PROVE  Delivers(r)
        <2>1. Idle.pc = "idle" /\ Idle.text = "none" /\ "none" \notin RedraftEvents
            BY SlotsAssumption DEF Idle
        <2>2. QED
            BY <1>4, <2>1, FinishEmpties DEF Delivers, At
    <1>5. ASSUME NEW s \in Slots, NEW step, step # "generate", Goto(s, step)
          PROVE  Delivers(r)
        BY <1>5, GotoDelivers DEF Delivers, At
    <1>6. ASSUME NEW a \in AgentSlots, BeginRedraft(a)
          PROVE  Delivers(r)
        <2>1. a \in Slots
            BY DEF Slots
        <2>2. CASE FirstDelivery(slot[a].msg) /\ Goto(a, "generate")
            BY <1>6, <2>1, <2>2, GotoDelivers DEF Delivers, At
        <2>3. CASE Finish(a)
            BY <1>4, <2>1, <2>3
        <2>4. QED
            BY <1>6, <2>2, <2>3 DEF BeginRedraft
    <1>7. CASE UNCHANGED slot
        BY <1>7 DEF Delivers, At
    <1>8. ASSUME NEW g \in GatewaySlots, GatewayStep(g)
          PROVE  Delivers(r)
        <2>1. Finish(g) \/ \E step : step # "generate" /\ Goto(g, step)
            BY <1>8 DEF GatewayStep, ApproveWrite, ApprovePublish, ApproveRollback,
                        ApproveNotify, CancelWrite, RecordWrite, EditWrite
        <2>2. QED
            BY <1>4, <1>5, <2>1 DEF Slots
    <1>9. ASSUME NEW a \in AgentSlots, AgentStep(a)
          PROVE  Delivers(r)
        <2>1. CASE PersistDraft(a)
            BY <1>3, <2>1 DEF PersistDraft
        <2>2. CASE BeginRedraft(a)
            BY <1>6, <2>2
        <2>3. CASE AutoSendReread(a)
            BY <1>3, <1>4, <2>3 DEF AutoSendReread, Slots
        <2>4. CASE ~(PersistDraft(a) \/ BeginRedraft(a) \/ AutoSendReread(a))
            <3>1. Finish(a) \/ \E step : step # "generate" /\ Goto(a, step)
                BY <1>9, <2>4
                   DEF AgentStep, HandlerGivesUp, NotifyDrafted, ApplyMode,
                       PublishDrafted, NotifyQueued, AppendRedraft,
                       MarkRedraftDone, Send, SendTerminal, SendTransient,
                       RecordSubmission, RevertSubmission, AutoSendPublish,
                       AutoSendRollback, AutoSendNotify
            <3>2. QED
                BY <1>4, <1>5, <3>1 DEF Slots
        <2>5. QED
            BY <2>1, <2>2, <2>3, <2>4
    <1>10. CASE Environment
        <2>1. UNCHANGED slot \/ \E s \in Slots : Finish(s)
            BY <1>10 DEF Environment, DelayElapses, CancelWindowCloses, Crash, Redeliver
        <2>2. QED
            BY <1>4, <1>7, <2>1
    <1>11. CASE UserStep
        <2>1. CASE UNCHANGED slot
            BY <1>7, <2>1
        <2>2. CASE ~UNCHANGED slot
            BY <1>1, <1>11, <2>2 DEF UserStep, UpdateSendOverride, RequestRedraft
        <2>3. QED
            BY <2>1, <2>2
    <1>12. CASE UNCHANGED vars
        BY <1>7, <1>12 DEF vars
    <1>13. QED
        BY <1>2, <1>8, <1>9, <1>10, <1>11, <1>12 DEF Next

\* A record, once inserted, stays.
LEMMA RecordsStay ==
    ASSUME TypeOK, [Next]_vars, NEW e \in RedraftEvents, idem[e] # "none"
    PROVE  idem'[e] # "none"
    <1>1. CASE UNCHANGED idem
        BY <1>1
    <1>2. ASSUME NEW a \in AgentSlots, BeginRedraft(a) \/ MarkRedraftDone(a)
          PROVE  idem'[e] # "none"
        BY <1>2 DEF BeginRedraft, MarkRedraftDone, TypeOK
    <1>3. CASE UserStep \/ Environment \/ UNCHANGED vars
        BY <1>1, <1>3 DEF UserStep, ApproveLoad, CancelLoad, RecordLoad, EditLoad,
                          UpdateSendOverride, RequestRedraft, Environment, DelayElapses,
                          CancelWindowCloses, Crash, Redeliver, vars
    <1>4. ASSUME NEW g \in GatewaySlots, GatewayStep(g)
          PROVE  UNCHANGED idem
        BY <1>4 DEF GatewayStep, ApproveWrite, ApprovePublish, ApproveRollback,
                    ApproveNotify, CancelWrite, RecordWrite, EditWrite
    <1>5. ASSUME NEW a \in AgentSlots, AgentReceives(a)
          PROVE  UNCHANGED idem
        BY <1>5 DEF AgentReceives, ReceivePriceDropped, ReceiveApproved, ReceiveRedraft,
                    AutoSendScan
    <1>6. ASSUME NEW a \in AgentSlots, AgentStep(a)
          PROVE  UNCHANGED idem \/ BeginRedraft(a) \/ MarkRedraftDone(a)
        BY <1>6 DEF AgentStep, HandlerGivesUp, PersistDraft, NotifyDrafted, ApplyMode,
                    PublishDrafted, NotifyQueued, AppendRedraft, AutoSendReread, Send,
                    SendTerminal, SendTransient, RecordSubmission, RevertSubmission,
                    AutoSendPublish, AutoSendRollback, AutoSendNotify
    <1>7. QED
        BY <1>1, <1>2, <1>3, <1>4, <1>5, <1>6 DEF Next

\* The versions: the user may add one, and so may a handler that redrafts; a first
\* draft replaces them all.
Adds(txt) == \E number : doc'.vers = Append(doc.vers, [n |-> number, text |-> txt])

LEMMA VersionSteps ==
    ASSUME TypeOK, [Next]_vars
    PROVE  \/ doc'.vers = doc.vers
           \/ \E a \in AgentSlots :
                 PersistDraft(a) /\ doc'.vers = <<[n |-> 1, text |-> "agent"]>>
           \/ \E txt \in EditTexts : Adds(txt)
           \/ \E a \in AgentSlots : AppendRedraft(a) /\ Adds(slot[a].msg)
    <1>1. doc \in Claim
        BY DEF TypeOK
    <1>2. ASSUME NEW claim \in Claim, NEW number, NEW txt
          PROVE  Pushed(claim, number, txt).vers =
                     Append(claim.vers, [n |-> number, text |-> txt])
        BY DEF Pushed, Claim
    <1>3. ASSUME NEW mode, UpdateSendOverride(mode)
          PROVE  doc'.vers = doc.vers
        BY <1>1, <1>3 DEF UpdateSendOverride, Claim
    <1>4. ASSUME NEW g \in GatewaySlots, ApproveWrite(g)
          PROVE  doc'.vers = doc.vers \/ \E txt \in EditTexts : Adds(txt)
        <2>1. /\ Approved(doc, slot[g].mode) \in Claim
              /\ Approved(doc, slot[g].mode).vers = doc.vers
            BY <1>1, SlotFields DEF Approved, Claim, Outcomes, Slots
        <2>2. slot[g].text \in EditTexts \cup {"none"}
            BY SlotFields DEF Slots
        <2>3. CASE slot[g].text = "none"
            BY <1>4, <2>1, <2>3 DEF ApproveWrite
        <2>4. CASE slot[g].text # "none"
            <3>1. PICK number : number = slot[g].snap.versions + 1
                OBVIOUS
            <3>2. doc' = Pushed(Approved(doc, slot[g].mode), number, slot[g].text)
                BY <1>4, <2>4, <3>1 DEF ApproveWrite
            <3>3. doc'.vers = Append(doc.vers, [n |-> number, text |-> slot[g].text])
                BY <1>2, <2>1, <3>2
            <3>4. QED
                BY <2>2, <2>4, <3>3 DEF Adds
        <2>5. QED
            BY <2>3, <2>4
    <1>5. ASSUME NEW g \in GatewaySlots, EditWrite(g)
          PROVE  \E txt \in EditTexts : Adds(txt)
        <2>1. slot[g].text \in EditTexts
            BY <1>5, SlotFields DEF EditWrite, At, Slots
        <2>2. PICK number : number = slot[g].snap.versions + 1
            OBVIOUS
        <2>3. doc' = Pushed(doc, number, slot[g].text)
            BY <1>5, <2>2 DEF EditWrite
        <2>4. doc'.vers = Append(doc.vers, [n |-> number, text |-> slot[g].text])
            BY <1>1, <1>2, <2>3
        <2>5. QED
            BY <2>1, <2>4 DEF Adds
    <1>6. ASSUME NEW g \in GatewaySlots, ApproveRollback(g) \/ CancelWrite(g) \/ RecordWrite(g)
          PROVE  doc'.vers = doc.vers
        BY <1>1, <1>6 DEF ApproveRollback, Restored, CancelWrite, RecordWrite, Claim
    <1>7. ASSUME NEW a \in AgentSlots, PersistDraft(a)
          PROVE  doc'.vers = <<[n |-> 1, text |-> "agent"]>>
        BY <1>7 DEF PersistDraft, NewDraft, Shell
    <1>8. ASSUME NEW a \in AgentSlots, AppendRedraft(a)
          PROVE  Adds(slot[a].msg)
        <2> DEFINE c == Pushed(doc, Len(doc.vers) + 1, slot[a].msg)
        <2>1. c.vers = Append(doc.vers, [n |-> Len(doc.vers) + 1, text |-> slot[a].msg])
            BY <1>1, <1>2
        <2>2. c \in Claim
            <3>1. slot[a].msg \in Texts
                BY <1>8, SlotFields DEF AppendRedraft, At, Slots, Texts
            <3>2. Len(doc.vers) + 1 \in Nat
                BY <1>1 DEF Claim
            <3>3. QED
                BY <1>1, <3>1, <3>2, PushedType
        <2>3. PICK to \in Drafts : doc' = [c EXCEPT !.to = to]
            BY <1>8 DEF AppendRedraft
        <2> HIDE DEF c
        <2>4. doc'.vers = c.vers
            BY <2>2, <2>3 DEF Claim
        <2>5. QED
            BY <2>1, <2>4 DEF Adds
    <1>9. ASSUME NEW a \in AgentSlots, \/ ApplyMode(a) \/ RecordSubmission(a)
                                       \/ RevertSubmission(a) \/ AutoSendRollback(a)
          PROVE  doc'.vers = doc.vers
        BY <1>1, <1>9 DEF ApplyMode, Dispatched, RecordSubmission, RevertSubmission,
                          AutoSendRollback, Claim
    <1>10. CASE DelayElapses \/ CancelWindowCloses
        BY <1>1, <1>10 DEF DelayElapses, CancelWindowCloses, Claim
    <1>11. QED
        BY <1>3, <1>4, <1>5, <1>6, <1>7, <1>8, <1>9, <1>10, DocWriters

\* What was drafted for an event is there already, or its handler writes it now.
LEMMA TextArrives ==
    ASSUME RedraftInv, [Next]_vars, NEW e \in RedraftEvents, HasText(e)'
    PROVE  HasText(e) \/ \E a \in AgentSlots : AppendRedraft(a) /\ slot[a].msg = e
    <1>1. doc.vers \in Seq([n : Nat, text : Texts]) /\ e # "agent"
        BY SlotsAssumption DEF RedraftInv, TypeOK, Claim
    <1>2. CASE doc'.vers = doc.vers
        BY <1>2 DEF HasText
    <1>3. CASE doc'.vers = <<[n |-> 1, text |-> "agent"]>>
        BY <1>1, <1>3 DEF HasText
    <1>4. ASSUME NEW txt, Adds(txt)
          PROVE  HasText(e) \/ txt = e
        <2>1. PICK number : doc'.vers = Append(doc.vers, [n |-> number, text |-> txt])
            BY <1>4 DEF Adds
        <2>2. PICK version : version = [n |-> number, text |-> txt]
            OBVIOUS
        <2>3. PICK i \in DOMAIN doc'.vers : doc'.vers[i].text = e
            BY DEF HasText
        <2>4. \/ i \in DOMAIN doc.vers /\ doc'.vers[i] = doc.vers[i]
              \/ doc'.vers[i] = version
            BY <1>1, <2>1, <2>2
        <2>5. QED
            BY <2>2, <2>3, <2>4 DEF HasText
    <1>5. ASSUME NEW txt \in EditTexts
          PROVE  txt # e
        BY SlotsAssumption
    <1>6. QED
        BY <1>2, <1>3, <1>4, <1>5, VersionSteps DEF RedraftInv

\* It is not written where it is.
LEMMA StaysOnce ==
    ASSUME RedraftInv, [Next]_vars
    PROVE  RedraftOnce'
    <1>1. doc.vers \in Seq([n : Nat, text : Texts])
        BY DEF RedraftInv, TypeOK, Claim
    <1>2. CASE doc'.vers = doc.vers
        BY <1>2 DEF RedraftInv, RedraftOnce
    <1>3. CASE doc'.vers = <<[n |-> 1, text |-> "agent"]>>
        BY <1>3 DEF RedraftOnce
    <1>4. ASSUME NEW txt, Adds(txt), txt \in RedraftEvents => ~HasText(txt)
          PROVE  RedraftOnce'
        <2>1. PICK number : doc'.vers = Append(doc.vers, [n |-> number, text |-> txt])
            BY <1>4 DEF Adds
        <2>2. PICK version : version = [n |-> number, text |-> txt]
            OBVIOUS
        <2>3. \A i \in DOMAIN doc'.vers :
                 \/ i \in DOMAIN doc.vers /\ doc'.vers[i] = doc.vers[i]
                 \/ i = Len(doc.vers) + 1 /\ doc'.vers[i] = version
            BY <1>1, <2>1, <2>2
        <2>4. version.text = txt
            BY <2>2
        <2>5. ASSUME NEW e \in RedraftEvents, NEW i \in DOMAIN doc'.vers,
                     NEW j \in DOMAIN doc'.vers,
                     doc'.vers[i].text = e, doc'.vers[j].text = e
              PROVE  i = j
            <3>1. CASE i \in DOMAIN doc.vers /\ doc'.vers[i] = doc.vers[i]
                <4>1. e # txt
                    BY <1>4, <2>5, <3>1 DEF HasText
                <4>2. j \in DOMAIN doc.vers /\ doc'.vers[j] = doc.vers[j]
                    BY <2>3, <2>4, <2>5, <4>1
                <4>3. QED
                    BY <2>5, <3>1, <4>2 DEF RedraftInv, RedraftOnce
            <3>2. CASE i = Len(doc.vers) + 1 /\ doc'.vers[i] = version
                <4>1. e = txt
                    BY <2>4, <2>5, <3>2
                <4>2. ~(j \in DOMAIN doc.vers /\ doc'.vers[j] = doc.vers[j])
                    BY <1>4, <2>5, <4>1 DEF HasText
                <4>3. QED
                    BY <2>3, <3>2, <4>2
            <3>3. QED
                BY <2>3, <3>1, <3>2
        <2>6. QED
            BY <2>5 DEF RedraftOnce
    <1>5. ASSUME NEW a \in AgentSlots, AppendRedraft(a)
          PROVE  slot[a].msg \in RedraftEvents => ~HasText(slot[a].msg)
        <2>1. a \in Slots /\ Redrafting(a, slot[a].msg)
            BY <1>5 DEF AppendRedraft, Redrafting, Slots
        <2>2. QED
            BY <2>1 DEF RedraftInv, OneRedrafts
    <1>6. ASSUME NEW txt \in EditTexts
          PROVE  txt \notin RedraftEvents
        BY SlotsAssumption
    <1>7. QED
        BY <1>2, <1>3, <1>4, <1>5, <1>6, VersionSteps DEF RedraftInv

\* Only the first delivery of an event comes to its draft, and nobody else then.
LEMMA OneRedraftsStep ==
    ASSUME RedraftInv, [Next]_vars
    PROVE  OneRedrafts'
    <1> USE DEF RedraftInv
    <1>1. ASSUME NEW r \in Slots, NEW e \in RedraftEvents, Redrafting(r, e)'
          PROVE  \/ Redrafting(r, e)
                 \/ BeginRedraft(r) /\ slot[r].msg = e /\ idem[e] = "none"
        BY <1>1, SlotDelivers DEF Delivers, Redrafting, At, FirstDelivery
    <1>2. ASSUME NEW s \in Slots, NEW e \in RedraftEvents, Redrafting(s, e)'
          PROVE  /\ idem'[e] # "none" /\ ~HasText(e)'
                 /\ \A t \in Slots : Redrafting(t, e)' => t = s
        <2>1. CASE Redrafting(s, e)
            <3>1. /\ idem[e] # "none" /\ ~HasText(e)
                  /\ \A t \in Slots : Redrafting(t, e) => t = s
                BY <2>1 DEF OneRedrafts
            <3>2. ASSUME NEW a \in AgentSlots, AppendRedraft(a), slot[a].msg = e
                  PROVE  FALSE
                <4>1. a \in Slots /\ Redrafting(a, e)
                    BY <3>2 DEF AppendRedraft, Redrafting, Slots
                <4>2. a = s /\ Goto(a, "markDone")
                    BY <3>1, <3>2, <4>1 DEF AppendRedraft
                <4>3. QED
                    BY <1>2, <4>2, GotoDelivers DEF Redrafting, At
            <3>3. ~HasText(e)'
                BY <3>1, <3>2, TextArrives
            <3>4. QED
                BY <1>1, <3>1, <3>3, RecordsStay
        <2>2. CASE BeginRedraft(s) /\ slot[s].msg = e /\ idem[e] = "none"
            <3>1. /\ ~HasText(e) /\ \A t \in Slots : ~Redrafting(t, e)
                BY <2>2 DEF OneRedrafts
            <3>2. Goto(s, "generate") /\ idem' = [idem EXCEPT ![e] = "processing"]
                  /\ UNCHANGED doc /\ slot[s].pc = "begin"
                BY <2>2 DEF BeginRedraft, FirstDelivery, At
            <3>3. idem'[e] # "none" /\ ~HasText(e)'
                BY <3>1, <3>2 DEF TypeOK, HasText
            <3>4. ASSUME NEW t \in Slots, t # s
                  PROVE  ~Redrafting(t, e)'
                <4>1. slot'[t] = slot[t]
                    BY <3>2, <3>4 DEF Goto, TypeOK
                <4>2. QED
                    BY <3>1, <4>1 DEF Redrafting, At
            <3>5. QED
                BY <3>3, <3>4
        <2>3. QED
            BY <1>1, <1>2, <2>1, <2>2
    <1>3. QED
        BY <1>2 DEF OneRedrafts

\* A redraft request changes the draft at most once, however often it is
\* delivered, redelivered or interrupted.
THEOREM OneDraftPerRedraft == Spec => []RedraftOnce
<1>1. Init => \A e \in RedraftEvents, s \in Slots :
                 ~Redrafting(s, e) /\ ~HasText(e)
    BY SlotsAssumption DEF Init, Idle, Shell, Redrafting, At, HasText
<1>2. Init => RedraftInv
    <2>1. Init => RedraftOnce
        BY DEF Init, Shell, RedraftOnce
    <2>2. ASSUME Init PROVE \A e \in RedraftEvents : ~HasText(e)
        BY <2>2, SlotsAssumption DEF Init, Shell, HasText
    <2>3. QED
        BY <1>1, <2>1, <2>2, InitTypeOK DEF RedraftInv, OneRedrafts
<1>3. ASSUME RedraftInv, [Next]_vars, TypeOK'
      PROVE  RedraftInv'
    <2>1. ASSUME NEW e \in RedraftEvents, HasText(e)'
          PROVE  idem'[e] # "none"
        <3>1. ASSUME NEW a \in AgentSlots, AppendRedraft(a), slot[a].msg = e
              PROVE  idem[e] # "none"
            <4>1. a \in Slots /\ Redrafting(a, e)
                BY <3>1 DEF AppendRedraft, Redrafting, Slots
            <4>2. QED
                BY <1>3, <4>1 DEF RedraftInv, OneRedrafts
        <3>2. idem[e] # "none"
            BY <1>3, <2>1, <3>1, TextArrives DEF RedraftInv
        <3>3. QED
            BY <1>3, <3>2, RecordsStay DEF RedraftInv
    <2>2. QED
        BY <1>3, <2>1, StaysOnce, OneRedraftsStep DEF RedraftInv
<1>4. RedraftInv => RedraftOnce
    BY DEF RedraftInv
<1>5. QED
    BY <1>2, <1>3, <1>4, TypeCorrect, PTL DEF Spec

-----------------------------------------------------------------------------
(* Every e-mail after the first is paid for                                *)
(*                                                                         *)
(* The argument counts the e-mails that have left together with those that *)
(* may still leave without a further failure or a further overlap: one     *)
(* while the claim may be sent and nobody is on the way to send it, one    *)
(* for each request that is or that puts the claim where it may be sent,   *)
(* one for each rollback, which does too, and one for each price.dropped   *)
(* still to be handled.                                                    *)

\* A request that may lead to one e-mail: it drafts, or it has passed the gate of
\* a submission.
Charged(r) ==
    \/ r.kind = "draft" /\ r.pc \in {"generate", "announce", "mode"}
    \/ r.kind = "redraft" /\ r.pc \in {"generate", "markDone", "announce", "mode"}
    \/ r.kind = "worker" /\ r.pc \in {"reread", "send"}
    \/ r.kind = "submit" /\ r.pc = "send" /\ r.snap.to

Charges == {a \in AgentSlots : Charged(slot[a])}

Rolling == {s \in Slots : slot[s].pc = "rollback"}

Delivered == {e \in RedraftEvents : idem[e] # "none"}

\* The agent has drafted the claim, and it may be sent: it was never submitted or
\* it is queued.
Drafted == \E i \in DOMAIN doc.vers : doc.vers[i].text \in {"agent"} \cup RedraftEvents

Ready == Drafted /\ (doc.via = "none" \/ doc.outcome = "queued_for_send")

\* A request that is about to send, or about to record that it sent, stands for it.
Covers(r) == Charged(r) \/ r.pc = "record"

Masked == \E a \in AgentSlots : Covers(slot[a])

Open == Ready /\ ~Masked

One(p) == IF p THEN 1 ELSE 0

Owed == mails + pending["dropped"] + One(Open) + Cardinality(Rolling) + Cardinality(Charges)

Allowance == 1 + faults + Cardinality(Delivered)

\* price.dropped is handled by drafting, and a submission is recorded by a request
\* that submits.
DroppedDrafts == \A s \in Slots : slot[s].msg = "dropped" => slot[s].kind = "draft"

Recorders == \A s \in Slots : slot[s].pc = "record" => slot[s].kind \in {"submit", "worker"}

\* Until the agent has drafted the claim it has no recipient, it is not queued, and
\* no request believes otherwise.
Undrafted(r) ==
    /\ ~r.snap.to /\ r.snap.outcome # "queued_for_send"
    /\ r.kind # "worker" /\ r.pc \notin {"markDone", "announce", "mode"}

Blank == ~Drafted => /\ ~doc.to /\ doc.outcome # "queued_for_send"
                     /\ \A s \in Slots : Undrafted(slot[s])

PaidInv == TypeOK /\ DroppedDrafts /\ Recorders /\ Blank /\ Owed <= Allowance

\* Sets of slots and of redraft events are counted with natural numbers.
LEMMA SlotCount ==
    ASSUME NEW S \in SUBSET Slots
    PROVE  IsFiniteSet(S) /\ Cardinality(S) \in Nat
    BY FS_Subset, FS_CardinalityType, SlotsAssumption

LEMMA EventCount ==
    ASSUME NEW E \in SUBSET RedraftEvents
    PROVE  IsFiniteSet(E) /\ Cardinality(E) \in Nat
    BY FS_Subset, FS_CardinalityType, SlotsAssumption

LEMMA Weights ==
    ASSUME TypeOK
    PROVE  /\ mails \in Nat /\ pending["dropped"] \in Nat /\ faults \in Nat
           /\ Cardinality(Rolling) \in Nat /\ Cardinality(Charges) \in Nat
           /\ Cardinality(Delivered) \in Nat
    <1>1. /\ Rolling \in SUBSET Slots /\ Charges \in SUBSET Slots
          /\ Delivered \in SUBSET RedraftEvents
        BY DEF Rolling, Charges, Delivered, Slots
    <1>2. mails \in Nat /\ pending["dropped"] \in Nat /\ faults \in Nat
        BY ValuesAssumption DEF TypeOK, Messages
    <1>3. QED
        BY <1>1, <1>2, SlotCount, EventCount

LEMMA WeightsAfter ==
    ASSUME TypeOK'
    PROVE  /\ mails' \in Nat /\ pending'["dropped"] \in Nat /\ faults' \in Nat
           /\ Cardinality(Rolling') \in Nat /\ Cardinality(Charges') \in Nat
           /\ Cardinality(Delivered') \in Nat
    <1>1. /\ Rolling' \in SUBSET Slots /\ Charges' \in SUBSET Slots
          /\ Delivered' \in SUBSET RedraftEvents
        BY DEF Rolling, Charges, Delivered, Slots
    <1>2. mails' \in Nat /\ pending'["dropped"] \in Nat /\ faults' \in Nat
        BY ValuesAssumption DEF TypeOK, Messages
    <1>3. QED
        BY <1>1, <1>2, SlotCount, EventCount

\* What a request is at after it starts, moves on or ends.
LEMMA BeginSlot ==
    ASSUME TypeOK, NEW s \in Slots, NEW k, NEW step, NEW m, NEW md, NEW tx,
           Begin(s, k, step, m, md, tx)
    PROVE  /\ slot[s].pc = "idle"
           /\ slot'[s].kind = k /\ slot'[s].pc = step /\ slot'[s].msg = m
           /\ slot'[s].snap = Copy(doc)
           /\ \A r \in Slots \ {s} : slot'[r] = slot[r]
    BY DEF Begin, TypeOK

LEMMA GotoSlot ==
    ASSUME TypeOK, NEW s \in Slots, NEW step, Goto(s, step)
    PROVE  /\ slot'[s].kind = slot[s].kind /\ slot'[s].pc = step
           /\ slot'[s].msg = slot[s].msg /\ slot'[s].snap = slot[s].snap
           /\ \A r \in Slots \ {s} : slot'[r] = slot[r]
    <1>1. \A r \in Slots \ {s} : slot'[r] = slot[r]
        BY DEF Goto, TypeOK
    <1>2. QED
        BY <1>1, GotoDelivers, GotoKeeps

LEMMA FinishSlot ==
    ASSUME TypeOK, NEW s \in Slots, Finish(s)
    PROVE  /\ slot'[s].kind = "idle" /\ slot'[s].pc = "idle" /\ slot'[s].msg = "none"
           /\ \A r \in Slots \ {s} : slot'[r] = slot[r]
    BY DEF Finish, Idle, TypeOK

\* A handler that refreshes its copy.
LEMMA RefreshSlot ==
    ASSUME TypeOK, NEW s \in Slots, NEW step, NEW snap,
           slot' = [slot EXCEPT ![s].pc = step, ![s].snap = snap]
    PROVE  /\ slot'[s].kind = slot[s].kind /\ slot'[s].pc = step
           /\ slot'[s].msg = slot[s].msg /\ slot'[s].snap = snap
           /\ \A r \in Slots \ {s} : slot'[r] = slot[r]
    <1>1. slot[s] \in Invocation /\ slot \in [Slots -> Invocation]
        BY DEF TypeOK
    <1>2. slot'[s] = [slot[s] EXCEPT !.pc = step, !.snap = snap]
        BY <1>1
    <1>3. QED
        BY <1>1, <1>2 DEF Invocation

\* The records of redrafts are as many as they were.
LEMMA DeliveredSame ==
    ASSUME UNCHANGED idem
    PROVE  Cardinality(Delivered') = Cardinality(Delivered)
    BY DEF Delivered

\* A set of slots that changes in one slot only changes by that slot's weight.
LEMMA CountStep ==
    ASSUME NEW S \in SUBSET Slots, NEW T \in SUBSET Slots, NEW s \in Slots,
           \A r \in Slots \ {s} : r \in T <=> r \in S
    PROVE  Cardinality(T) + One(s \in S) = Cardinality(S) + One(s \in T)
    <1>1. IsFiniteSet(S) /\ Cardinality(S) \in Nat
        BY SlotCount
    <1>2. CASE (s \in S) <=> (s \in T)
        <2>1. T = S
            BY <1>2
        <2>2. QED
            BY <2>1
    <1>3. CASE s \notin S /\ s \in T
        <2>1. T = S \cup {s}
            BY <1>3
        <2>2. Cardinality(T) = Cardinality(S) + 1
            BY <1>1, <1>3, <2>1, FS_AddElement
        <2>3. QED
            BY <1>1, <1>3, <2>2 DEF One
    <1>4. CASE s \in S /\ s \notin T
        <2>1. T = S \ {s}
            BY <1>4
        <2>2. Cardinality(T) = Cardinality(S) - 1
            BY <1>1, <1>4, <2>1, FS_RemoveElement
        <2>3. QED
            BY <1>1, <1>4, <2>2 DEF One
    <1>5. QED
        BY <1>2, <1>3, <1>4

\* What a step of one request must pay for: the changes to what was sent, to what
\* is owed by Pub/Sub, and to the weights of its own slot and of the claim.
Paid(s) ==
    mails' + pending'["dropped"] + One(Open') + One(s \in Rolling') + One(s \in Charges')
        + faults + Cardinality(Delivered)
    <= mails + pending["dropped"] + One(Open) + One(s \in Rolling) + One(s \in Charges)
        + faults' + Cardinality(Delivered')

LEMMA OpenBit ==
    /\ Open \in BOOLEAN /\ Open' \in BOOLEAN
    /\ One(Open) \in 0 .. 1 /\ One(Open') \in 0 .. 1
    <1>1. Open \in BOOLEAN /\ Open' \in BOOLEAN
        BY DEF Open
    <1>2. QED
        BY <1>1 DEF One

LEMMA Bits ==
    ASSUME NEW s
    PROVE  /\ Open \in BOOLEAN /\ Open' \in BOOLEAN
           /\ One(Open) \in 0 .. 1 /\ One(Open') \in 0 .. 1
           /\ One(s \in Rolling) \in 0 .. 1 /\ One(s \in Rolling') \in 0 .. 1
           /\ One(s \in Charges) \in 0 .. 1 /\ One(s \in Charges') \in 0 .. 1
    BY OpenBit DEF One

\* Then the account stays balanced.
LEMMA PaidStep ==
    ASSUME TypeOK, TypeOK', Owed <= Allowance, NEW s \in Slots,
           \A r \in Slots \ {s} : slot'[r] = slot[r], Paid(s)
    PROVE  (Owed <= Allowance)'
    <1>1. Cardinality(Rolling') + One(s \in Rolling) = Cardinality(Rolling) + One(s \in Rolling')
        <2>1. Rolling \in SUBSET Slots /\ Rolling' \in SUBSET Slots
            BY DEF Rolling
        <2>2. \A r \in Slots \ {s} : r \in Rolling' <=> r \in Rolling
            BY DEF Rolling
        <2>3. QED
            BY <2>1, <2>2, CountStep
    <1>2. Cardinality(Charges') + One(s \in Charges) = Cardinality(Charges) + One(s \in Charges')
        <2>1. Charges \in SUBSET Slots /\ Charges' \in SUBSET Slots
            BY DEF Charges, Slots
        <2>2. \A r \in Slots \ {s} : r \in Charges' <=> r \in Charges
            BY DEF Charges, Slots
        <2>3. QED
            BY <2>1, <2>2, CountStep
    <1>3. QED
        BY <1>1, <1>2, Bits, Weights, WeightsAfter DEF Paid, Owed, Allowance

\* A step of one request of the agent changes what covers the claim by its own.
LEMMA MaskStep ==
    ASSUME NEW a \in AgentSlots, \A r \in Slots \ {a} : slot'[r] = slot[r]
    PROVE  /\ Covers(slot'[a]) => Masked'
           /\ Covers(slot[a]) => Masked
           /\ ~Covers(slot[a]) => (Masked => Masked')
    BY DEF Masked, Slots

\* A request of the agent that leaves the stages that weigh alone pays nothing,
\* unless it makes the claim one that may be sent.
LEMMA Aside ==
    ASSUME TypeOK, TypeOK', NEW a \in AgentSlots, \A r \in Slots \ {a} : slot'[r] = slot[r],
           ~Charged(slot'[a]), slot'[a].pc # "rollback", ~Covers(slot[a]),
           Ready' => Ready, mails' = mails, pending'["dropped"] = pending["dropped"],
           faults' >= faults, Cardinality(Delivered') >= Cardinality(Delivered)
    PROVE  Paid(a)
    <1>1. Open' => Open
        BY MaskStep DEF Open
    <1>2. One(Open') <= One(Open)
        BY <1>1, Bits DEF One
    <1>3. a \notin Charges' /\ a \notin Rolling'
        BY DEF Charges, Rolling
    <1>4. One(a \in Charges') = 0 /\ One(a \in Rolling') = 0
        BY <1>3 DEF One
    <1>5. QED
        BY <1>2, <1>4, Bits, Weights, WeightsAfter DEF Paid

\* A request that has been charged pays for itself while it lasts, and then for
\* whatever it made of the claim.
LEMMA Spend ==
    ASSUME TypeOK, TypeOK', NEW a \in AgentSlots, \A r \in Slots \ {a} : slot'[r] = slot[r],
           Charged(slot[a]), slot'[a].pc # "rollback",
           mails' = mails, pending'["dropped"] = pending["dropped"],
           faults' >= faults, Cardinality(Delivered') >= Cardinality(Delivered)
    PROVE  Paid(a)
    <1>1. a \in Charges /\ a \notin Rolling'
        BY DEF Charges, Rolling
    <1>2. One(a \in Charges) = 1 /\ One(a \in Rolling') = 0
        BY <1>1 DEF One
    <1>3. a \in Charges' => ~Open'
        BY MaskStep DEF Charges, Covers, Open
    <1>4. One(Open') + One(a \in Charges') <= 1
        BY <1>3, Bits DEF One
    <1>5. QED
        BY <1>2, <1>4, Bits, Weights, WeightsAfter DEF Paid

\* A failure pays for one thing more.
LEMMA Fined ==
    ASSUME TypeOK, TypeOK', NEW s \in Slots, faults' = faults + 1,
           mails' + pending'["dropped"] + One(Open') + One(s \in Rolling')
               + One(s \in Charges')
             <= mails + pending["dropped"] + One(Open) + One(s \in Rolling)
               + One(s \in Charges) + 1,
           Cardinality(Delivered') >= Cardinality(Delivered)
    PROVE  Paid(s)
    BY Bits, Weights, WeightsAfter DEF Paid

\* A claim once drafted stays drafted, and only the agent's handlers draft it.
LEMMA DraftedStep ==
    ASSUME TypeOK, [Next]_vars
    PROVE  /\ Drafted => Drafted'
           /\ Drafted' => \/ Drafted
                          \/ \E a \in AgentSlots : PersistDraft(a) \/ AppendRedraft(a)
    <1>1. doc.vers \in Seq([n : Nat, text : Texts])
        BY DEF TypeOK, Claim
    <1>2. CASE doc'.vers = doc.vers
        BY <1>2 DEF Drafted
    <1>3. CASE \E a \in AgentSlots :
                  PersistDraft(a) /\ doc'.vers = <<[n |-> 1, text |-> "agent"]>>
        BY <1>3 DEF Drafted
    <1>4. ASSUME NEW txt, Adds(txt)
          PROVE  /\ Drafted => Drafted'
                 /\ Drafted' => Drafted \/ txt \in {"agent"} \cup RedraftEvents
        <2>1. PICK number : doc'.vers = Append(doc.vers, [n |-> number, text |-> txt])
            BY <1>4 DEF Adds
        <2>2. PICK version : version = [n |-> number, text |-> txt]
            OBVIOUS
        <2>3. /\ \A i \in DOMAIN doc.vers : i \in DOMAIN doc'.vers /\ doc'.vers[i] = doc.vers[i]
              /\ \A i \in DOMAIN doc'.vers : \/ i \in DOMAIN doc.vers /\ doc'.vers[i] = doc.vers[i]
                                             \/ doc'.vers[i] = version
            BY <1>1, <2>1, <2>2
        <2>4. version.text = txt
            BY <2>2
        <2>5. QED
            BY <2>3, <2>4 DEF Drafted
    <1>5. ASSUME NEW txt \in EditTexts
          PROVE  txt \notin {"agent"} \cup RedraftEvents
        BY SlotsAssumption
    <1>6. QED
        BY <1>2, <1>3, <1>4, <1>5, VersionSteps

\* They do draft it.
LEMMA DraftersDraft ==
    ASSUME TypeOK, [Next]_vars, NEW a \in Slots, PersistDraft(a) \/ AppendRedraft(a)
    PROVE  Drafted'
    <1>1. CASE PersistDraft(a)
        <2>1. doc'.vers = <<[n |-> 1, text |-> "agent"]>>
            BY <1>1 DEF PersistDraft, NewDraft, Shell
        <2>2. QED
            BY <2>1 DEF Drafted
    <1>2. CASE AppendRedraft(a)
        <2>1. slot[a].msg \in RedraftEvents
            BY <1>2, SlotFields DEF AppendRedraft, At
        <2>2. doc.vers \in Seq([n : Nat, text : Texts]) /\ doc \in Claim
            BY DEF TypeOK, Claim
        <2>3. PICK e : e = slot[a].msg
            OBVIOUS
        <2>4. PICK number \in Nat : number = Len(doc.vers) + 1
            BY <2>2
        <2>5. PICK version : version = [n |-> number, text |-> e]
            OBVIOUS
        <2>6. doc'.vers = Append(doc.vers, version)
            BY <1>2, <2>2, <2>3, <2>4, <2>5 DEF AppendRedraft, Pushed, Claim
        <2>7. number \in DOMAIN doc'.vers /\ doc'.vers[number] = version
            BY <2>2, <2>4, <2>6
        <2>8. version.text = e
            BY <2>5
        <2>9. QED
            BY <2>1, <2>3, <2>7, <2>8 DEF Drafted
    <1>3. QED
        BY <1>1, <1>2

\* Faults never disappear, and an event once recorded stays recorded.
LEMMA CountsGrow ==
    ASSUME TypeOK, TypeOK', [Next]_vars
    PROVE  faults' >= faults /\ Cardinality(Delivered') >= Cardinality(Delivered)
    <1>1. faults \in Nat
        BY Weights
    <1>2. faults' = faults \/ faults' = faults + 1
        BY DEF Next, UserStep, ApproveLoad, CancelLoad, RecordLoad, EditLoad,
               UpdateSendOverride, RequestRedraft, GatewayStep, ApproveWrite,
               ApprovePublish, ApproveRollback, ApproveNotify, CancelWrite, RecordWrite,
               EditWrite, WriteNotice, AgentReceives, ReceivePriceDropped,
               ReceiveApproved, ReceiveRedraft, AutoSendScan, AgentStep, HandlerGivesUp,
               PersistDraft, NotifyDrafted, ApplyMode, PublishDrafted, NotifyQueued,
               BeginRedraft, AppendRedraft, MarkRedraftDone, AutoSendReread, Send,
               SendTerminal, SendTransient, RecordSubmission, RevertSubmission,
               AutoSendPublish, AutoSendRollback, AutoSendNotify, Environment,
               DelayElapses, CancelWindowCloses, Crash, Redeliver, Fault, Joins, vars
    <1>3. Delivered \subseteq Delivered'
        BY RecordsStay DEF Delivered
    <1>4. Delivered \in SUBSET RedraftEvents /\ Delivered' \in SUBSET RedraftEvents
        BY DEF Delivered
    <1>5. IsFiniteSet(Delivered')
        BY <1>4, EventCount
    <1>6. Cardinality(Delivered) <= Cardinality(Delivered')
        BY <1>3, <1>5, FS_Subset
    <1>7. Cardinality(Delivered) \in Nat /\ Cardinality(Delivered') \in Nat
        BY <1>4, EventCount
    <1>8. QED
        BY <1>1, <1>2, <1>6, <1>7

\* Messages other than price.dropped come and go without it.
LEMMA OtherMessages ==
    ASSUME TypeOK, NEW m \in Messages, m # "dropped", Take(m) \/ Publish(m)
    PROVE  pending'["dropped"] = pending["dropped"]
    BY DEF Take, Publish, TypeOK, Messages

\* The gateway leaves the recipient and the submission of a claim alone, and
\* queues it only when it rolls an approval back.
LEMMA GatewayWrites ==
    ASSUME TypeOK, NEW g \in GatewaySlots, GatewayStep(g)
    PROVE  /\ doc'.to = doc.to /\ doc'.via = doc.via
           /\ ApproveRollback(g) \/ (doc'.outcome = "queued_for_send" =>
                                       doc.outcome = "queued_for_send")
    <1>1. doc \in Claim
        BY DEF TypeOK
    <1>2. CASE ApproveWrite(g)
        BY <1>1, <1>2 DEF ApproveWrite, Approved, Pushed, Claim
    <1>3. CASE ApproveRollback(g)
        BY <1>1, <1>3 DEF ApproveRollback, Restored, Claim
    <1>4. CASE CancelWrite(g)
        BY <1>1, <1>4 DEF CancelWrite, Claim
    <1>5. CASE RecordWrite(g)
        BY <1>1, <1>5 DEF RecordWrite, Claim
    <1>6. CASE EditWrite(g)
        BY <1>1, <1>6 DEF EditWrite, Pushed, Claim
    <1>7. CASE ApprovePublish(g) \/ ApproveNotify(g)
        BY <1>7 DEF ApprovePublish, ApproveNotify
    <1>8. QED
        BY <1>2, <1>3, <1>4, <1>5, <1>6, <1>7 DEF GatewayStep

\* No request of the gateway is one of the agent's.
LEMMA Apart ==
    ASSUME NEW g \in GatewaySlots
    PROVE  g \in Slots /\ \A b \in AgentSlots : b \in Slots \ {g}
    BY SlotsAssumption DEF Slots

\* Nothing that counts for the claim changes unless a request of the agent moves,
\* or the document is queued or loses its submission.
LEMMA AgentsStill ==
    ASSUME TypeOK, [Next]_vars, \A b \in AgentSlots : slot'[b] = slot[b]
    PROVE  /\ Drafted' => Drafted
           /\ doc'.via = doc.via
                 /\ (doc'.outcome = "queued_for_send" => doc.outcome = "queued_for_send")
                 => (Open' => Open)
    <1>1. ASSUME NEW a \in AgentSlots, PersistDraft(a) \/ AppendRedraft(a)
          PROVE  FALSE
        <2>1. slot[a].pc = "generate" /\ a \in Slots
            BY <1>1 DEF PersistDraft, AppendRedraft, At, Slots
        <2>2. CASE PersistDraft(a)
            <3>1. PICK snap : slot' = [slot EXCEPT ![a].pc = "announce", ![a].snap = snap]
                BY <2>2 DEF PersistDraft
            <3>2. slot'[a].pc = "announce"
                BY <2>1, <3>1, RefreshSlot
            <3>3. QED
                BY <2>1, <3>2
        <2>3. CASE AppendRedraft(a)
            <3>1. slot'[a].pc = "markDone"
                BY <2>1, <2>3, GotoSlot DEF AppendRedraft
            <3>2. QED
                BY <2>1, <3>1
        <2>4. QED
            BY <1>1, <2>2, <2>3
    <1>2. Drafted' => Drafted
        BY <1>1, DraftedStep
    <1>3. Masked' <=> Masked
        BY DEF Masked
    <1>4. QED
        BY <1>2, <1>3 DEF Open, Ready

\* A step of no request, or of one of the gateway, weighs by its rollback.
LEMMA AgentsStillPaid ==
    ASSUME TypeOK, NEW s \in Slots, \A b \in AgentSlots : slot'[b] = slot[b]
    PROVE  One(s \in Charges') = One(s \in Charges)
    <1>1. (s \in Charges') <=> (s \in Charges)
        BY DEF Charges
    <1>2. QED
        BY <1>1 DEF One

LEMMA StillStep ==
    ASSUME TypeOK, TypeOK', Owed <= Allowance, UNCHANGED slot,
           mails' + pending'["dropped"] + One(Open') + faults + Cardinality(Delivered)
             <= mails + pending["dropped"] + One(Open) + faults' + Cardinality(Delivered')
    PROVE  (Owed <= Allowance)'
    <1>1. Cardinality(Rolling') = Cardinality(Rolling) /\ Cardinality(Charges') = Cardinality(Charges)
        BY DEF Rolling, Charges
    <1>2. One(Open) \in 0 .. 1 /\ One(Open') \in 0 .. 1
        BY OpenBit
    <1>3. QED
        BY <1>1, <1>2, Weights, WeightsAfter DEF Owed, Allowance

\* Requests that start at the gateway change nothing that counts.
LEMMA LoadsPaid ==
    ASSUME PaidInv, TypeOK', UserStep
    PROVE  (Owed <= Allowance)'
    <1> USE DEF PaidInv
    <1>0. [Next]_vars
        BY DEF Next
    <1>1. /\ doc'.via = doc.via /\ doc'.outcome = doc.outcome
          /\ UNCHANGED <<idem, mails, faults>>
        <2>1. doc \in Claim
            BY DEF TypeOK
        <2>2. ASSUME NEW mode, UpdateSendOverride(mode)
              PROVE  doc'.via = doc.via /\ doc'.outcome = doc.outcome
            BY <2>1, <2>2 DEF UpdateSendOverride, Claim
        <2>3. QED
            BY <2>2 DEF UserStep, ApproveLoad, CancelLoad, RecordLoad, EditLoad,
                        UpdateSendOverride, RequestRedraft
    <1>2. pending'["dropped"] = pending["dropped"]
        <2>1. ASSUME NEW e \in RedraftEvents, RequestRedraft(e)
              PROVE  pending'["dropped"] = pending["dropped"]
            <3>1. e \in Messages /\ e # "dropped"
                BY SlotsAssumption DEF Messages
            <3>2. QED
                BY <2>1, <3>1, OtherMessages DEF RequestRedraft
        <2>2. QED
            BY <2>1 DEF UserStep, ApproveLoad, CancelLoad, RecordLoad, EditLoad,
                        UpdateSendOverride
    <1>3. \/ UNCHANGED slot
          \/ \E g \in GatewaySlots : /\ \A r \in Slots \ {g} : slot'[r] = slot[r]
                                     /\ slot'[g].pc = "write"
        <2>1. ASSUME NEW g \in GatewaySlots, NEW k, NEW md, NEW tx,
                     Begin(g, k, "write", "none", md, tx)
              PROVE  /\ \A r \in Slots \ {g} : slot'[r] = slot[r]
                     /\ slot'[g].pc = "write"
            BY <2>1, BeginSlot, Apart
        <2>2. ASSUME NEW g \in GatewaySlots, NEW mode, NEW txt, ApproveLoad(g, mode, txt)
              PROVE  /\ \A r \in Slots \ {g} : slot'[r] = slot[r]
                     /\ slot'[g].pc = "write"
            BY <2>1, <2>2 DEF ApproveLoad
        <2>3. ASSUME NEW g \in GatewaySlots, CancelLoad(g) \/ RecordLoad(g)
              PROVE  /\ \A r \in Slots \ {g} : slot'[r] = slot[r]
                     /\ slot'[g].pc = "write"
            BY <2>1, <2>3 DEF CancelLoad, RecordLoad
        <2>4. ASSUME NEW g \in GatewaySlots, NEW txt, EditLoad(g, txt)
              PROVE  /\ \A r \in Slots \ {g} : slot'[r] = slot[r]
                     /\ slot'[g].pc = "write"
            BY <2>1, <2>4 DEF EditLoad
        <2>5. QED
            BY <2>2, <2>3, <2>4 DEF UserStep, UpdateSendOverride, RequestRedraft
    <1>4. Cardinality(Delivered') = Cardinality(Delivered)
        BY <1>1, DeliveredSame
    <1>5. \A b \in AgentSlots : slot'[b] = slot[b]
        BY <1>3, Apart DEF Slots
    <1>6. One(Open') <= One(Open)
        <2>1. Open' => Open
            BY <1>0, <1>1, <1>5, AgentsStill
        <2>2. QED
            BY <2>1, Bits DEF One
    <1>7. CASE UNCHANGED slot
        <2>1. mails' + pending'["dropped"] + One(Open') + faults + Cardinality(Delivered)
               <= mails + pending["dropped"] + One(Open) + faults' + Cardinality(Delivered')
            BY <1>1, <1>2, <1>4, <1>6, Weights, WeightsAfter, OpenBit
        <2>2. QED
            BY <1>7, <2>1, StillStep
    <1>8. ASSUME NEW g \in GatewaySlots, \A r \in Slots \ {g} : slot'[r] = slot[r],
                 slot'[g].pc = "write"
          PROVE  (Owed <= Allowance)'
        <2>1. g \in Slots
            BY Apart
        <2>2. One(g \in Rolling') = 0 /\ One(g \in Charges') = One(g \in Charges)
            BY <1>5, <1>8, <2>1, AgentsStillPaid DEF One, Rolling
        <2>3. Paid(g)
            BY <1>1, <1>2, <1>4, <1>6, <2>2, Bits, Weights, WeightsAfter DEF Paid
        <2>4. QED
            BY <1>8, <2>1, <2>3, PaidStep
    <1>9. QED
        BY <1>3, <1>7, <1>8

\* What the gateway's handlers write: a publish that raises pays for its
\* rollback, and the rollback for what it puts back.
LEMMA GatewayPaid ==
    ASSUME PaidInv, TypeOK', NEW g \in GatewaySlots, GatewayStep(g)
    PROVE  (Owed <= Allowance)'
    <1> USE DEF PaidInv
    <1>0. [Next]_vars /\ g \in Slots
        BY DEF Next, Slots
    <1>1. /\ doc'.via = doc.via
          /\ ApproveRollback(g) \/ (doc'.outcome = "queued_for_send" =>
                                      doc.outcome = "queued_for_send")
        BY GatewayWrites
    <1>2. UNCHANGED <<idem, mails>>
        BY DEF GatewayStep, ApproveWrite, ApprovePublish, ApproveRollback,
               ApproveNotify, CancelWrite, RecordWrite, EditWrite
    <1>3. pending'["dropped"] = pending["dropped"]
        <2>1. "approved" \in Messages
            BY DEF Messages
        <2>2. UNCHANGED pending \/ Publish("approved")
            BY DEF GatewayStep, ApproveWrite, ApprovePublish, ApproveRollback,
                   ApproveNotify, CancelWrite, RecordWrite, EditWrite, PublishRaises
        <2>3. QED
            BY <2>1, <2>2, OtherMessages
    <1>4. Finish(g) \/ \E step : Goto(g, step)
        BY DEF GatewayStep, ApproveWrite, ApprovePublish, ApproveRollback,
               ApproveNotify, CancelWrite, RecordWrite, EditWrite
    <1>5. \A r \in Slots \ {g} : slot'[r] = slot[r]
        BY <1>0, <1>4, GotoSlot, FinishSlot
    <1>6. \A b \in AgentSlots : slot'[b] = slot[b]
        BY <1>5, Apart
    <1>7. One(g \in Charges') = One(g \in Charges)
        BY <1>0, <1>6, AgentsStillPaid
    <1>8. Cardinality(Delivered') = Cardinality(Delivered) /\ faults' >= faults
        BY <1>0, <1>2, DeliveredSame, CountsGrow
    <1>9. ApproveRollback(g) \/ One(Open') <= One(Open)
        <2>1. ApproveRollback(g) \/ (Open' => Open)
            BY <1>0, <1>1, <1>6, AgentsStill
        <2>2. QED
            BY <2>1, Bits DEF One
    <1>10. Paid(g)
        <2>1. CASE ApprovePublish(g) /\ Fault("publish")
            <3>1. faults' = faults + 1 /\ ~ApproveRollback(g)
                BY <2>1 DEF Fault, ApprovePublish, ApproveRollback, At
            <3>2. QED
                BY <1>2, <1>3, <1>7, <1>8, <1>9, <3>1, Bits, Weights, WeightsAfter DEF Paid
        <2>2. CASE ApproveRollback(g)
            <3>1. slot[g].pc = "rollback" /\ slot'[g].pc # "rollback"
                BY <1>0, <2>2, FinishSlot DEF ApproveRollback, At
            <3>2. One(g \in Rolling) = 1 /\ One(g \in Rolling') = 0
                BY <1>0, <3>1 DEF One, Rolling
            <3>3. QED
                BY <1>2, <1>3, <1>7, <1>8, <3>2, Bits, Weights, WeightsAfter DEF Paid
        <2>3. CASE /\ ~(ApprovePublish(g) /\ Fault("publish"))
                   /\ ~ApproveRollback(g)
            <3>1. Goto(g, "publish") \/ Goto(g, "notify") \/ Finish(g)
                BY <2>3 DEF GatewayStep, ApproveWrite, ApprovePublish, ApproveNotify,
                   CancelWrite, RecordWrite, EditWrite
            <3>2. slot'[g].pc # "rollback"
                BY <1>0, <3>1, GotoSlot, FinishSlot
            <3>3. One(g \in Rolling') = 0
                BY <3>2 DEF One, Rolling
            <3>4. QED
                BY <1>2, <1>3, <1>7, <1>8, <1>9, <2>3, <3>3, Bits, Weights, WeightsAfter DEF Paid
        <2>4. QED
            BY <2>1, <2>2, <2>3
    <1>11. QED
        BY <1>0, <1>5, <1>10, PaidStep

\* Clocks change nothing that counts; a failure pays for a repeated delivery, and
\* for what a request that dies leaves behind.
LEMMA EnvironmentPaid ==
    ASSUME PaidInv, TypeOK', Environment
    PROVE  (Owed <= Allowance)'
    <1> USE DEF PaidInv
    <1>0. [Next]_vars
        BY DEF Next
    <1>1. CASE DelayElapses \/ CancelWindowCloses
        <2>1. UNCHANGED <<idem, slot, pending, mails, faults>>
            BY <1>1 DEF DelayElapses, CancelWindowCloses
        <2>2. doc'.via = doc.via /\ doc'.outcome = doc.outcome
            BY <1>1 DEF DelayElapses, CancelWindowCloses, TypeOK, Claim
        <2>3. Open' => Open
            BY <1>0, <2>1, <2>2, AgentsStill
        <2>4. One(Open') <= One(Open)
            BY <2>3, Bits DEF One
        <2>5. QED
            BY <2>1, <2>4, DeliveredSame, OpenBit, Weights, WeightsAfter, StillStep
    <1>2. ASSUME NEW s \in Slots, Redeliver(s)
          PROVE  (Owed <= Allowance)'
        <2>1. UNCHANGED <<doc, idem, slot, mails>> /\ faults' = faults + 1
            BY <1>2 DEF Redeliver, Fault
        <2>2. pending'["dropped"] <= pending["dropped"] + 1
            <3>1. slot[s].msg \in Messages
                BY <1>2, SlotFields DEF Redeliver
            <3>2. QED
                BY <1>2, <3>1 DEF Redeliver, Publish, TypeOK, Messages
        <2>3. Open' => Open
            BY <1>0, <2>1, AgentsStill
        <2>4. One(Open') <= One(Open)
            BY <2>3, Bits DEF One
        <2>5. QED
            BY <2>1, <2>2, <2>4, DeliveredSame, OpenBit, Weights, WeightsAfter, StillStep
    <1>3. ASSUME NEW s \in Slots, Crash(s)
          PROVE  (Owed <= Allowance)'
        <2>1. UNCHANGED <<doc, idem, mails>> /\ faults' = faults + 1
            BY <1>3 DEF Crash, Fault
        <2>2. /\ slot'[s].pc = "idle" /\ slot'[s].kind = "idle"
              /\ \A r \in Slots \ {s} : slot'[r] = slot[r]
            BY <1>3, FinishSlot DEF Crash
        <2>3. One(s \in Rolling') = 0 /\ One(s \in Charges') = 0
            BY <2>2 DEF One, Rolling, Charges, Charged
        <2>4. /\ pending'["dropped"] <= pending["dropped"] + 1
              /\ slot[s].msg # "dropped" => pending'["dropped"] = pending["dropped"]
            <3>1. slot[s].msg \in Messages \cup {"none"}
                BY SlotFields
            <3>2. CASE slot[s].msg = "none"
                BY <1>3, <3>2, Weights DEF Crash
            <3>3. CASE slot[s].msg # "none"
                <4>1. slot[s].msg \in Messages /\ Publish(slot[s].msg)
                    BY <1>3, <3>1, <3>3 DEF Crash
                <4>2. QED
                    BY <4>1 DEF Publish, TypeOK, Messages
            <3>4. QED
                BY <3>2, <3>3
        <2>5. slot[s].msg = "dropped" => One(Open') <= One(Open) + One(s \in Charges)
            <3>1. SUFFICES ASSUME slot[s].msg = "dropped", s \notin Charges
                           PROVE  Open' => Open
                BY Bits DEF One
            <3>2. CASE s \in GatewaySlots
                BY <1>0, <2>1, <2>2, <3>2, Apart, AgentsStill
            <3>3. CASE s \in AgentSlots
                <4>1. ~Covers(slot[s])
                    BY <3>1, <3>3 DEF Covers, Charges, DroppedDrafts, Recorders
                <4>2. Masked => Masked'
                    BY <2>2, <3>3, <4>1, MaskStep
                <4>3. QED
                    BY <2>1, <4>2 DEF Open, Ready, Drafted
            <3>4. QED
                BY <3>2, <3>3 DEF Slots
        <2>6. mails' + pending'["dropped"] + One(Open') + One(s \in Rolling')
                 + One(s \in Charges')
               <= mails + pending["dropped"] + One(Open) + One(s \in Rolling)
                 + One(s \in Charges) + 1
            BY <2>1, <2>3, <2>4, <2>5, Bits, Weights, WeightsAfter
        <2>7. Paid(s)
            BY <2>1, <2>6, DeliveredSame, Weights, Fined
        <2>8. QED
            BY <2>2, <2>7, PaidStep
    <1>4. QED
        BY <1>1, <1>2, <1>3 DEF Environment

\* A request that starts for a claim that may be sent takes the place of the claim,
\* or is paid for as an overlap.
LEMMA StartPaid ==
    ASSUME TypeOK, TypeOK', NEW a \in AgentSlots, \A r \in Slots \ {a} : slot'[r] = slot[r],
           Ready, Joins, slot'[a].pc # "rollback",
           mails' = mails, pending'["dropped"] = pending["dropped"],
           Cardinality(Delivered') >= Cardinality(Delivered)
    PROVE  Paid(a)
    <1>1. a \in Charges' => ~Open'
        BY MaskStep DEF Charges, Covers, Open
    <1>2. One(Open') + One(a \in Charges') <= 1 /\ One(a \in Rolling') = 0
        BY <1>1, Bits DEF One, Rolling
    <1>3. CASE \A b \in AgentSlots : slot[b].pc = "idle"
        <2>1. faults' = faults
            BY <1>3 DEF Joins
        <2>2. One(Open) = 1
            <3>1. ASSUME NEW b \in AgentSlots
                  PROVE  ~Covers(slot[b])
                <4>1. slot[b].pc = "idle"
                    BY <1>3
                <4>2. QED
                    BY <4>1 DEF Covers, Charged
            <3>2. Open
                BY <3>1 DEF Open, Masked
            <3>3. QED
                BY <3>2 DEF One
        <2>3. QED
            BY <1>2, <2>1, <2>2, Bits, Weights, WeightsAfter DEF Paid
    <1>4. CASE ~\A b \in AgentSlots : slot[b].pc = "idle"
        <2>1. faults' = faults + 1
            BY <1>4 DEF Joins, Fault
        <2>2. QED
            BY <1>2, <2>1, Bits, Weights, WeightsAfter DEF Paid
    <1>5. QED
        BY <1>3, <1>4

\* A push or a tick that starts a request: price.dropped, once taken, is the
\* draft that replaces the claim.
LEMMA ReceivesPaid ==
    ASSUME PaidInv, TypeOK', NEW a \in AgentSlots, AgentReceives(a)
    PROVE  (Owed <= Allowance)'
    <1> USE DEF PaidInv
    <1>1. [Next]_vars /\ a \in Slots
        BY DEF Next, Slots
    <1>2. UNCHANGED <<doc, idem, mails>>
        BY DEF AgentReceives, ReceivePriceDropped, ReceiveApproved, ReceiveRedraft,
               AutoSendScan
    <1>3. faults' >= faults /\ Cardinality(Delivered') >= Cardinality(Delivered)
        BY <1>1, CountsGrow
    <1>4. Ready' <=> Ready
        BY <1>2 DEF Ready, Drafted
    <1>5. "dropped" \in Messages /\ "approved" \in Messages
        BY DEF Messages
    <1>6. CASE ReceivePriceDropped(a)
        <2>1. /\ slot'[a].kind = "draft" /\ slot'[a].pc = "generate"
              /\ \A r \in Slots \ {a} : slot'[r] = slot[r]
            BY <1>1, <1>6, BeginSlot DEF ReceivePriceDropped
        <2>2. pending'["dropped"] = pending["dropped"] - 1
            BY <1>5, <1>6 DEF ReceivePriceDropped, Take, TypeOK
        <2>3. ~Open'
            BY <2>1, MaskStep DEF Open, Covers, Charged
        <2>4. One(Open') = 0 /\ One(a \in Rolling') = 0
            BY <2>1, <2>3, Bits DEF One, Rolling
        <2>5. Paid(a)
            BY <1>2, <1>3, <2>2, <2>4, Bits, Weights, WeightsAfter DEF Paid
        <2>6. QED
            BY <1>1, <2>1, <2>5, PaidStep
    <1>7. ASSUME NEW e \in RedraftEvents, ReceiveRedraft(a, e)
          PROVE  (Owed <= Allowance)'
        <2>1. /\ slot'[a].kind = "redraft" /\ slot'[a].pc = "begin" /\ slot[a].pc = "idle"
              /\ \A r \in Slots \ {a} : slot'[r] = slot[r]
            BY <1>1, <1>7, BeginSlot DEF ReceiveRedraft
        <2>2. pending'["dropped"] = pending["dropped"]
            <3>1. e \in Messages /\ e # "dropped"
                BY SlotsAssumption DEF Messages
            <3>2. QED
                BY <1>7, <3>1, OtherMessages DEF ReceiveRedraft
        <2>3. ~Charged(slot'[a]) /\ ~Covers(slot[a])
            BY <2>1 DEF Covers, Charged
        <2>4. Paid(a)
            BY <1>2, <1>3, <1>4, <2>1, <2>2, <2>3, Aside
        <2>5. QED
            BY <1>1, <2>1, <2>4, PaidStep
    <1>8. CASE ReceiveApproved(a)
        <2>1. pending'["dropped"] = pending["dropped"]
            BY <1>5, <1>8, OtherMessages DEF ReceiveApproved
        <2>2. CASE UNCHANGED <<slot, faults>>
            <3>1. Open' => Open
                BY <1>1, <1>2, <2>2, AgentsStill
            <3>2. One(Open') <= One(Open)
                BY <3>1, OpenBit DEF One
            <3>3. mails' + pending'["dropped"] + One(Open') + faults + Cardinality(Delivered)
                   <= mails + pending["dropped"] + One(Open) + faults' + Cardinality(Delivered')
                BY <1>2, <1>3, <2>1, <3>2, Weights, WeightsAfter, OpenBit
            <3>4. QED
                BY <2>2, <3>3, StillStep
        <2>3. CASE /\ Submittable(doc) /\ Joins
                   /\ Begin(a, "submit", "send", "approved", "none", "none")
            <3>1. /\ slot'[a].kind = "submit" /\ slot'[a].pc = "send" /\ slot[a].pc = "idle"
                  /\ slot'[a].snap = Copy(doc)
                  /\ \A r \in Slots \ {a} : slot'[r] = slot[r]
                BY <1>1, <2>3, BeginSlot
            <3>2. CASE doc.to
                <4>1. Ready
                    BY <2>3, <3>2 DEF Blank, Ready, Submittable
                <4>2. Paid(a)
                    BY <1>2, <1>3, <2>1, <2>3, <3>1, <4>1, StartPaid
                <4>3. QED
                    BY <1>1, <3>1, <4>2, PaidStep
            <3>3. CASE ~doc.to
                <4>1. ~Charged(slot'[a]) /\ ~Covers(slot[a])
                    BY <3>1, <3>3 DEF Covers, Charged, Copy
                <4>2. Paid(a)
                    BY <1>2, <1>3, <1>4, <2>1, <3>1, <4>1, Aside
                <4>3. QED
                    BY <1>1, <3>1, <4>2, PaidStep
            <3>4. QED
                BY <3>2, <3>3
        <2>4. QED
            BY <1>8, <2>2, <2>3 DEF ReceiveApproved
    <1>9. CASE AutoSendScan(a)
        <2>1. /\ slot'[a].kind = "worker" /\ slot'[a].pc = "reread"
              /\ \A r \in Slots \ {a} : slot'[r] = slot[r]
            BY <1>1, <1>9, BeginSlot DEF AutoSendScan
        <2>2. Ready
            BY <1>9 DEF AutoSendScan, Overdue, Blank, Ready
        <2>3. pending' = pending /\ Joins
            BY <1>9 DEF AutoSendScan
        <2>4. Paid(a)
            BY <1>2, <1>3, <2>1, <2>2, <2>3, StartPaid
        <2>5. QED
            BY <1>1, <2>1, <2>4, PaidStep
    <1>10. QED
        BY <1>6, <1>7, <1>8, <1>9 DEF AgentReceives

\* The drafting stages, and a submission that ends before Gmail takes the message.
LEMMA SpendersPaid ==
    ASSUME PaidInv, TypeOK', NEW a \in AgentSlots,
           \/ PersistDraft(a) \/ NotifyDrafted(a) \/ ApplyMode(a)
           \/ AppendRedraft(a) \/ MarkRedraftDone(a) \/ AutoSendReread(a)
           \/ SendTerminal(a) /\ Charged(slot[a])
           \/ SendTransient(a) /\ UNCHANGED mails
    PROVE  (Owed <= Allowance)'
    <1> USE DEF PaidInv
    <1>1. [Next]_vars /\ a \in Slots
        BY DEF Next, AgentStep, Slots
    <1>2. faults' >= faults /\ Cardinality(Delivered') >= Cardinality(Delivered)
        BY <1>1, CountsGrow
    <1>3. UNCHANGED <<mails, pending>>
        BY DEF PersistDraft, NotifyDrafted, ApplyMode, AppendRedraft, MarkRedraftDone,
               AutoSendReread, SendTerminal, SendTransient
    <1>4. Charged(slot[a])
        <2>1. CASE MarkRedraftDone(a)
            BY <2>1 DEF MarkRedraftDone, At, Charged
        <2>2. CASE PersistDraft(a) \/ NotifyDrafted(a) \/ ApplyMode(a) \/ AppendRedraft(a)
            BY <2>2 DEF PersistDraft, NotifyDrafted, ApplyMode, AppendRedraft, At, Charged
        <2>3. CASE AutoSendReread(a)
            BY <2>3 DEF AutoSendReread, At, Charged
        <2>4. CASE SendTransient(a)
            BY <2>4 DEF SendTransient, At, Charged
        <2>5. QED
            BY <2>1, <2>2, <2>3, <2>4
    <1>5. \/ Finish(a)
          \/ \E step \in {"mode", "publishDrafted", "markDone", "announce", "revert"} :
                Goto(a, step)
          \/ \E step \in {"announce", "send"} : \E snap :
                slot' = [slot EXCEPT ![a].pc = step, ![a].snap = snap]
        BY DEF PersistDraft, NotifyDrafted, ApplyMode, AppendRedraft, MarkRedraftDone,
               AutoSendReread, SendTerminal, SendTransient
    <1>6. slot'[a].pc # "rollback" /\ \A r \in Slots \ {a} : slot'[r] = slot[r]
        <2>1. CASE Finish(a)
            BY <1>1, <2>1, FinishSlot
        <2>2. ASSUME NEW step \in {"mode", "publishDrafted", "markDone", "announce", "revert"},
                     Goto(a, step)
              PROVE  slot'[a].pc # "rollback" /\ \A r \in Slots \ {a} : slot'[r] = slot[r]
            BY <1>1, <2>2, GotoSlot
        <2>3. ASSUME NEW step \in {"announce", "send"}, NEW snap,
                     slot' = [slot EXCEPT ![a].pc = step, ![a].snap = snap]
              PROVE  slot'[a].pc # "rollback" /\ \A r \in Slots \ {a} : slot'[r] = slot[r]
            BY <1>1, <2>3, RefreshSlot
        <2>4. QED
            BY <1>5, <2>1, <2>2, <2>3
    <1>7. Paid(a)
        BY <1>2, <1>3, <1>4, <1>6, Spend
    <1>8. QED
        BY <1>1, <1>6, <1>7, PaidStep

\* The steps that neither send nor change what the claim is worth.
LEMMA AsidesPaid ==
    ASSUME PaidInv, TypeOK', NEW a \in AgentSlots,
           \/ PublishDrafted(a) \/ NotifyQueued(a) \/ AutoSendNotify(a)
           \/ BeginRedraft(a) /\ ~FirstDelivery(slot[a].msg)
           \/ SendTerminal(a) /\ ~Charged(slot[a])
           \/ RevertSubmission(a)
           \/ AutoSendPublish(a) /\ UNCHANGED faults
           \/ AutoSendRollback(a) /\ UNCHANGED doc
    PROVE  (Owed <= Allowance)'
    <1> USE DEF PaidInv
    <1>1. [Next]_vars /\ a \in Slots
        BY DEF Next, AgentStep, Slots
    <1>2. faults' >= faults /\ Cardinality(Delivered') >= Cardinality(Delivered)
        BY <1>1, CountsGrow
    <1>3. UNCHANGED mails /\ pending'["dropped"] = pending["dropped"]
        <2>1. "approved" \in Messages
            BY DEF Messages
        <2>2. /\ UNCHANGED mails
              /\ UNCHANGED pending \/ Publish("approved")
            BY DEF PublishDrafted, NotifyQueued, AutoSendNotify, BeginRedraft,
                   SendTerminal, RevertSubmission, AutoSendPublish, PublishRaises,
                   AutoSendRollback
        <2>3. QED
            BY <2>1, <2>2, OtherMessages
    <1>5. ~Covers(slot[a])
        <2>1. CASE SendTerminal(a) /\ ~Charged(slot[a])
            BY <2>1 DEF SendTerminal, At, Covers
        <2>2. CASE PublishDrafted(a) \/ NotifyQueued(a) \/ AutoSendNotify(a)
            <3>1. slot[a].pc \in {"publishDrafted", "notifyQueued", "notify"}
                BY <2>2 DEF PublishDrafted, NotifyQueued, AutoSendNotify, At
            <3>2. QED
                BY <3>1 DEF Covers, Charged
        <2>3. CASE BeginRedraft(a) \/ RevertSubmission(a)
            <3>1. slot[a].pc \in {"begin", "revert"}
                BY <2>3 DEF BeginRedraft, RevertSubmission, At
            <3>2. QED
                BY <3>1 DEF Covers, Charged
        <2>4. CASE AutoSendPublish(a) \/ AutoSendRollback(a)
            <3>1. slot[a].pc \in {"publish", "rollback"}
                BY <2>4 DEF AutoSendPublish, AutoSendRollback, At
            <3>2. QED
                BY <3>1 DEF Covers, Charged
        <2>5. QED
            BY <2>1, <2>2, <2>3, <2>4
    <1>6. Finish(a) \/ \E step \in {"notifyQueued", "revert", "notify"} : Goto(a, step)
        <2>1. CASE AutoSendPublish(a) /\ UNCHANGED faults
            BY <2>1, Weights DEF AutoSendPublish, Fault
        <2>2. CASE BeginRedraft(a) /\ ~FirstDelivery(slot[a].msg)
            BY <2>2 DEF BeginRedraft
        <2>3. QED
            BY <2>1, <2>2 DEF PublishDrafted, NotifyQueued, AutoSendNotify,
               SendTerminal, RevertSubmission, AutoSendRollback
    <1>7. /\ slot'[a].pc \in {"idle", "notifyQueued", "revert", "notify"}
          /\ \A r \in Slots \ {a} : slot'[r] = slot[r]
        <2>1. CASE Finish(a)
            BY <1>1, <2>1, FinishSlot
        <2>2. ASSUME NEW step \in {"notifyQueued", "revert", "notify"}, Goto(a, step)
              PROVE  /\ slot'[a].pc \in {"idle", "notifyQueued", "revert", "notify"}
                     /\ \A r \in Slots \ {a} : slot'[r] = slot[r]
            BY <1>1, <2>2, GotoSlot
        <2>3. QED
            BY <1>6, <2>1, <2>2
    <1>8. ~Charged(slot'[a]) /\ slot'[a].pc # "rollback"
        BY <1>7 DEF Charged
    <1>9. Ready' => Ready
        <2>1. CASE UNCHANGED doc
            BY <2>1 DEF Ready, Drafted
        <2>2. CASE RevertSubmission(a)
            <3>1. doc \in Claim
                BY DEF TypeOK
            <3>2. doc'.vers = doc.vers /\ doc'.via = doc.via /\ doc'.outcome = "draft_pending"
                BY <2>2, <3>1 DEF RevertSubmission, Claim
            <3>3. QED
                BY <3>2 DEF Ready, Drafted
        <2>3. QED
            BY <2>1, <2>2 DEF PublishDrafted, NotifyQueued, AutoSendNotify, BeginRedraft,
               SendTerminal, AutoSendPublish
    <1>10. Paid(a)
        BY <1>2, <1>3, <1>5, <1>7, <1>8, <1>9, Aside
    <1>11. QED
        BY <1>1, <1>7, <1>10, PaidStep

\* The first delivery of a redraft pays for it.
LEMMA BeginRedraftPaid ==
    ASSUME PaidInv, TypeOK', NEW a \in AgentSlots, BeginRedraft(a), FirstDelivery(slot[a].msg)
    PROVE  (Owed <= Allowance)'
    <1> USE DEF PaidInv
    <1>1. /\ a \in Slots /\ UNCHANGED <<doc, pending, mails, faults>>
          /\ slot[a].kind = "redraft" /\ idem[slot[a].msg] = "none"
          /\ idem' = [idem EXCEPT ![slot[a].msg] = "processing"] /\ Goto(a, "generate")
        BY DEF BeginRedraft, FirstDelivery, At, Slots
    <1>2. /\ slot'[a].kind = "redraft" /\ slot'[a].pc = "generate"
          /\ \A r \in Slots \ {a} : slot'[r] = slot[r]
        BY <1>1, GotoSlot
    <1>3. Cardinality(Delivered') = Cardinality(Delivered) + 1
        <2>1. slot[a].msg \in RedraftEvents
            BY <1>1, SlotFields
        <2>2. Delivered' = Delivered \cup {slot[a].msg} /\ slot[a].msg \notin Delivered
            BY <1>1, <2>1 DEF Delivered, TypeOK
        <2>3. IsFiniteSet(Delivered)
            BY EventCount DEF Delivered
        <2>4. Cardinality(Delivered \cup {slot[a].msg}) = Cardinality(Delivered) + 1
            BY <2>2, <2>3, FS_AddElement
        <2>5. QED
            BY <2>2, <2>4
    <1>4. ~Open'
        BY <1>2, MaskStep DEF Open, Covers, Charged
    <1>5. One(Open') = 0 /\ One(a \in Rolling') = 0
        BY <1>2, <1>4 DEF One, Rolling
    <1>6. Paid(a)
        BY <1>1, <1>3, <1>5, Bits, Weights, WeightsAfter DEF Paid
    <1>7. QED
        BY <1>1, <1>2, <1>6, PaidStep

\* A message that leaves was charged, and its recording covers the claim; one
\* whose acceptance is not heard of is a failure.
LEMMA SendPaid ==
    ASSUME PaidInv, TypeOK', NEW a \in AgentSlots, Send(a) \/ SendTransient(a)
    PROVE  (Owed <= Allowance)'
    <1> USE DEF PaidInv
    <1>1. [Next]_vars /\ a \in Slots
        BY DEF Next, AgentStep, Slots
    <1>2. faults' >= faults /\ Cardinality(Delivered') >= Cardinality(Delivered)
        BY <1>1, CountsGrow
    <1>3. UNCHANGED <<doc, pending>>
        BY DEF Send, SendTransient
    <1>4. CASE Send(a)
        <2>1. /\ slot'[a].pc = "record"
              /\ \A r \in Slots \ {a} : slot'[r] = slot[r]
            BY <1>1, <1>4, GotoSlot DEF Send
        <2>2. ~Open'
            BY <2>1, MaskStep DEF Open, Covers
        <2>3. a \notin Charges' /\ a \notin Rolling'
            BY <2>1 DEF Charges, Charged, Rolling
        <2>4. One(Open') = 0 /\ One(a \in Charges') = 0 /\ One(a \in Rolling') = 0
            BY <2>2, <2>3 DEF One
        <2>5. mails' <= mails + One(a \in Charges)
            <3>1. CASE ClaimType = "email"
                <4>1. Charged(slot[a])
                    BY <1>4, <3>1 DEF Send, At, Charged
                <4>2. One(a \in Charges) = 1
                    BY <4>1 DEF One, Charges
                <4>3. QED
                    BY <1>4, <4>2, Weights DEF Send
            <3>2. CASE ClaimType # "email"
                BY <1>4, <3>2, Bits, Weights DEF Send
            <3>3. QED
                BY <3>1, <3>2
        <2>6. Paid(a)
            BY <1>2, <1>3, <2>4, <2>5, Bits, Weights, WeightsAfter DEF Paid
        <2>7. QED
            BY <1>1, <2>1, <2>6, PaidStep
    <1>5. CASE SendTransient(a) /\ ~UNCHANGED mails
        <2>1. Finish(a) \/ Goto(a, "revert")
            BY <1>5 DEF SendTransient
        <2>2. /\ slot'[a].pc \in {"idle", "revert"}
              /\ \A r \in Slots \ {a} : slot'[r] = slot[r]
            BY <1>1, <2>1, GotoSlot, FinishSlot
        <2>3. a \notin Charges' /\ a \notin Rolling'
            BY <2>2 DEF Charges, Charged, Rolling
        <2>4. One(a \in Charges') = 0 /\ One(a \in Rolling') = 0
            BY <2>3 DEF One
        <2>5. mails' = mails + 1 /\ faults' = faults + 1
            BY <1>5 DEF SendTransient, Fault
        <2>6. One(a \in Charges) = 1
            BY <1>5 DEF SendTransient, At, Charged, Charges, One
        <2>7. Paid(a)
            BY <1>2, <1>3, <2>4, <2>5, <2>6, Bits, Weights, WeightsAfter DEF Paid
        <2>8. QED
            BY <1>1, <2>2, <2>7, PaidStep
    <1>6. QED
        BY <1>4, <1>5, SpendersPaid

\* A recorded submission is not to be sent again.
LEMMA RecordPaid ==
    ASSUME PaidInv, TypeOK', NEW a \in AgentSlots, RecordSubmission(a)
    PROVE  (Owed <= Allowance)'
    <1> USE DEF PaidInv
    <1>1. a \in Slots /\ UNCHANGED <<idem, pending, mails, faults>>
        BY DEF RecordSubmission, Slots
    <1>2. Finish(a) \/ Goto(a, "publish")
        BY DEF RecordSubmission
    <1>3. /\ slot'[a].pc \in {"idle", "publish"}
          /\ \A r \in Slots \ {a} : slot'[r] = slot[r]
        BY <1>1, <1>2, GotoSlot, FinishSlot
    <1>4. a \notin Charges' /\ a \notin Rolling'
        BY <1>3 DEF Charges, Charged, Rolling
    <1>5. ~Open'
        <2>1. doc \in Claim /\ SubmittedVia # "none"
            BY ValuesAssumption DEF TypeOK, SubmittedVia, ClaimTypes
        <2>2. doc'.via # "none" /\ doc'.outcome = "pending"
            BY <2>1 DEF RecordSubmission, Claim
        <2>3. QED
            BY <2>2 DEF Open, Ready
    <1>6. One(Open') = 0 /\ One(a \in Charges') = 0 /\ One(a \in Rolling') = 0
        BY <1>4, <1>5 DEF One
    <1>7. Paid(a)
        BY <1>1, <1>6, DeliveredSame, Bits, Weights, WeightsAfter DEF Paid
    <1>8. QED
        BY <1>1, <1>3, <1>7, PaidStep

\* A publish that fails pays for the rollback, and the rollback for the claim it
\* puts back in the queue.
LEMMA WorkerRollbackPaid ==
    ASSUME PaidInv, TypeOK', NEW a \in AgentSlots,
           \/ AutoSendPublish(a) /\ faults' = faults + 1
           \/ AutoSendRollback(a) /\ UNCHANGED faults
    PROVE  (Owed <= Allowance)'
    <1> USE DEF PaidInv
    <1>1. a \in Slots /\ UNCHANGED <<idem, mails>>
        BY DEF AutoSendPublish, AutoSendRollback, Slots
    <1>2. CASE AutoSendPublish(a) /\ faults' = faults + 1
        <2>1. Goto(a, "notify") \/ Goto(a, "rollback")
            BY <1>2 DEF AutoSendPublish
        <2>2. /\ slot'[a].pc \in {"notify", "rollback"} /\ slot[a].pc = "publish"
              /\ \A r \in Slots \ {a} : slot'[r] = slot[r]
            BY <1>1, <1>2, <2>1, GotoSlot DEF AutoSendPublish, At
        <2>3. a \notin Charges' /\ ~Covers(slot[a])
            BY <2>2 DEF Charges, Charged, Covers
        <2>4. Open' => Open
            <3>1. Masked => Masked'
                BY <2>2, <2>3, MaskStep
            <3>2. doc' = doc
                BY <1>2 DEF AutoSendPublish
            <3>3. QED
                BY <3>1, <3>2 DEF Open, Ready, Drafted
        <2>5. One(a \in Charges') = 0 /\ One(Open') <= One(Open)
            BY <2>3, <2>4, Bits DEF One
        <2>6. pending'["dropped"] = pending["dropped"]
            <3>1. "approved" \in Messages
                BY DEF Messages
            <3>2. UNCHANGED pending \/ Publish("approved")
                BY <1>2 DEF AutoSendPublish, PublishRaises
            <3>3. QED
                BY <3>1, <3>2, OtherMessages
        <2>7. Paid(a)
            BY <1>1, <1>2, <2>5, <2>6, DeliveredSame, Bits, Weights, WeightsAfter DEF Paid
        <2>8. QED
            BY <1>1, <2>2, <2>7, PaidStep
    <1>3. CASE AutoSendRollback(a) /\ UNCHANGED faults
        <2>1. /\ slot'[a].pc = "idle" /\ slot[a].pc = "rollback" /\ UNCHANGED pending
              /\ \A r \in Slots \ {a} : slot'[r] = slot[r]
            BY <1>1, <1>3, FinishSlot DEF AutoSendRollback, At
        <2>2. a \notin Charges' /\ a \in Rolling /\ a \notin Rolling'
            BY <1>1, <2>1 DEF Charges, Charged, Rolling
        <2>3. One(a \in Charges') = 0 /\ One(a \in Rolling) = 1 /\ One(a \in Rolling') = 0
            BY <2>2 DEF One
        <2>4. Paid(a)
            BY <1>1, <1>3, <2>1, <2>3, DeliveredSame, Bits, Weights, WeightsAfter DEF Paid
        <2>5. QED
            BY <1>1, <2>1, <2>4, PaidStep
    <1>4. QED
        BY <1>2, <1>3

\* A handler that gives up has failed, which pays for the claim it leaves.
LEMMA GivesUpPaid ==
    ASSUME PaidInv, TypeOK', NEW a \in AgentSlots, HandlerGivesUp(a)
    PROVE  (Owed <= Allowance)'
    <1> USE DEF PaidInv
    <1>1. /\ a \in Slots /\ UNCHANGED <<idem, mails, pending>> /\ faults' = faults + 1
          /\ Finish(a)
        BY DEF HandlerGivesUp, Fault, Slots
    <1>2. /\ slot'[a].pc = "idle"
          /\ \A r \in Slots \ {a} : slot'[r] = slot[r]
        BY <1>1, FinishSlot
    <1>3. a \notin Charges' /\ a \notin Rolling'
        BY <1>2 DEF Charges, Charged, Rolling
    <1>4. One(a \in Charges') = 0 /\ One(a \in Rolling') = 0
        BY <1>3 DEF One
    <1>5. Paid(a)
        BY <1>1, <1>4, DeliveredSame, Bits, Weights, WeightsAfter DEF Paid
    <1>6. QED
        BY <1>1, <1>2, <1>5, PaidStep

\* Every step leaves the account balanced.
LEMMA BalanceStep ==
    ASSUME PaidInv, TypeOK', [Next]_vars
    PROVE  (Owed <= Allowance)'
    <1>1. CASE UserStep
        BY <1>1, LoadsPaid
    <1>2. ASSUME NEW g \in GatewaySlots, GatewayStep(g)
          PROVE  (Owed <= Allowance)'
        BY <1>2, GatewayPaid
    <1>3. ASSUME NEW a \in AgentSlots, AgentReceives(a)
          PROVE  (Owed <= Allowance)'
        BY <1>3, ReceivesPaid
    <1>4. ASSUME NEW a \in AgentSlots, AgentStep(a)
          PROVE  (Owed <= Allowance)'
        <2>1. CASE HandlerGivesUp(a)
            BY <2>1, GivesUpPaid
        <2>2. CASE \/ PersistDraft(a) \/ NotifyDrafted(a) \/ ApplyMode(a)
                   \/ AppendRedraft(a) \/ MarkRedraftDone(a) \/ AutoSendReread(a)
            BY <2>2, SpendersPaid
        <2>3. CASE \/ PublishDrafted(a) \/ NotifyQueued(a) \/ AutoSendNotify(a)
                   \/ RevertSubmission(a)
            BY <2>3, AsidesPaid
        <2>4. CASE BeginRedraft(a)
            <3>1. CASE FirstDelivery(slot[a].msg)
                BY <2>4, <3>1, BeginRedraftPaid
            <3>2. CASE ~FirstDelivery(slot[a].msg)
                BY <2>4, <3>2, AsidesPaid
            <3>3. QED
                BY <3>1, <3>2
        <2>5. CASE Send(a) \/ SendTransient(a)
            BY <2>5, SendPaid
        <2>6. CASE SendTerminal(a)
            <3>1. CASE Charged(slot[a])
                BY <2>6, <3>1, SpendersPaid
            <3>2. CASE ~Charged(slot[a])
                BY <2>6, <3>2, AsidesPaid
            <3>3. QED
                BY <3>1, <3>2
        <2>7. CASE RecordSubmission(a)
            BY <2>7, RecordPaid
        <2>8. CASE AutoSendPublish(a)
            <3>1. UNCHANGED faults \/ faults' = faults + 1
                BY <2>8 DEF AutoSendPublish, Fault
            <3>2. CASE UNCHANGED faults
                BY <2>8, <3>2, AsidesPaid
            <3>3. CASE faults' = faults + 1
                BY <2>8, <3>3, WorkerRollbackPaid
            <3>4. QED
                BY <3>1, <3>2, <3>3
        <2>9. CASE AutoSendRollback(a)
            <3>1. UNCHANGED faults \/ UNCHANGED doc
                BY <2>9 DEF AutoSendRollback
            <3>2. CASE UNCHANGED doc
                BY <2>9, <3>2, AsidesPaid
            <3>3. CASE UNCHANGED faults
                BY <2>9, <3>3, WorkerRollbackPaid
            <3>4. QED
                BY <3>1, <3>2, <3>3
        <2>10. QED
            BY <1>4, <2>1, <2>2, <2>3, <2>4, <2>5, <2>6, <2>7, <2>8, <2>9 DEF AgentStep
    <1>5. CASE Environment
        BY <1>5, EnvironmentPaid
    <1>6. CASE UNCHANGED vars
        <2>1. UNCHANGED <<doc, idem, slot, pending, mails, faults>> /\ Owed <= Allowance
            BY <1>6 DEF vars, PaidInv
        <2>2. QED
            BY <2>1 DEF Owed, Allowance, Open, Ready, Drafted, Masked, Rolling, Charges,
               Delivered
    <1>7. QED
        BY <1>1, <1>2, <1>3, <1>4, <1>5, <1>6 DEF Next


\* What one step may do to the message, the kind and the stage of a request, as far
\* as the account reads them.
Enters(r) ==
    /\ slot'[r].msg = "dropped" =>
         \/ slot'[r].kind = "draft"
         \/ slot[r].msg = "dropped" /\ slot'[r].kind = slot[r].kind
    /\ slot'[r].pc = "record" =>
         slot'[r].kind = slot[r].kind /\ (slot[r].pc = "record" \/ Send(r))
    /\ slot'[r].kind = "worker" => slot[r].kind = "worker" \/ Overdue(doc)
    /\ slot'[r].pc \in {"markDone", "announce", "mode"} =>
         \/ slot[r].pc \in {"markDone", "announce", "mode"}
         \/ PersistDraft(r) \/ AppendRedraft(r)

\* A request that starts begins before these stages.
LEMMA BeginEnters ==
    ASSUME TypeOK, NEW s \in Slots, NEW k, NEW step, NEW m, NEW md, NEW tx,
           Begin(s, k, step, m, md, tx), step \notin {"record", "markDone", "announce", "mode"},
           m = "dropped" => k = "draft", k = "worker" => Overdue(doc), NEW r \in Slots
    PROVE  Enters(r)
    <1>1. \/ slot'[r] = slot[r]
          \/ slot'[r].kind = k /\ slot'[r].pc = step /\ slot'[r].msg = m
        BY BeginSlot
    <1>2. CASE slot'[r] = slot[r]
        BY <1>2 DEF Enters
    <1>3. CASE slot'[r].kind = k /\ slot'[r].pc = step /\ slot'[r].msg = m
        BY <1>3 DEF Enters
    <1>4. QED
        BY <1>1, <1>2, <1>3

LEMMA GotoEnters ==
    ASSUME TypeOK, NEW s \in Slots, NEW step, Goto(s, step), NEW r \in Slots,
           step = "record" => Send(s),
           step \in {"markDone", "announce", "mode"} =>
             \/ slot[s].pc \in {"markDone", "announce", "mode"}
             \/ PersistDraft(s) \/ AppendRedraft(s)
    PROVE  Enters(r)
    <1>1. CASE r = s
        <2>1. slot'[r].kind = slot[r].kind /\ slot'[r].pc = step /\ slot'[r].msg = slot[r].msg
            BY <1>1, GotoSlot
        <2>2. QED
            BY <1>1, <2>1 DEF Enters
    <1>2. CASE r # s
        <2>1. slot'[r] = slot[r]
            BY <1>2, GotoSlot
        <2>2. QED
            BY <2>1 DEF Enters
    <1>3. QED
        BY <1>1, <1>2

\* Every step treats every slot so.
LEMMA SlotEnters ==
    ASSUME TypeOK, [Next]_vars, NEW r \in Slots
    PROVE  Enters(r)
    <1>1. CASE UNCHANGED slot
        BY <1>1 DEF Enters
    <1>2. ASSUME NEW s \in Slots, Finish(s)
          PROVE  Enters(r)
        <2>1. \/ slot'[r] = slot[r]
              \/ slot'[r].kind = "idle" /\ slot'[r].pc = "idle" /\ slot'[r].msg = "none"
            BY <1>2, FinishSlot
        <2>2. CASE slot'[r] = slot[r]
            BY <2>2 DEF Enters
        <2>3. CASE slot'[r].kind = "idle" /\ slot'[r].pc = "idle" /\ slot'[r].msg = "none"
            BY <2>3 DEF Enters
        <2>4. QED
            BY <2>1, <2>2, <2>3
    <1>3. ASSUME NEW s \in Slots, NEW step, Goto(s, step),
                 step \notin {"record", "markDone", "announce", "mode"}
          PROVE  Enters(r)
        BY <1>3, GotoEnters
    <1>4. CASE UserStep
        <2>1. ASSUME NEW g \in GatewaySlots, NEW mode, NEW txt, ApproveLoad(g, mode, txt)
              PROVE  Enters(r)
            BY <2>1, BeginEnters DEF ApproveLoad, Slots
        <2>2. ASSUME NEW g \in GatewaySlots, CancelLoad(g) \/ RecordLoad(g)
              PROVE  Enters(r)
            BY <2>2, BeginEnters DEF CancelLoad, RecordLoad, Slots
        <2>3. ASSUME NEW g \in GatewaySlots, NEW txt, EditLoad(g, txt)
              PROVE  Enters(r)
            BY <2>3, BeginEnters DEF EditLoad, Slots
        <2>4. QED
            BY <1>1, <1>4, <2>1, <2>2, <2>3 DEF UserStep, UpdateSendOverride, RequestRedraft
    <1>5. ASSUME NEW g \in GatewaySlots, GatewayStep(g)
          PROVE  Enters(r)
        <2>1. \/ Finish(g)
              \/ \E step : /\ step \notin {"record", "markDone", "announce", "mode"}
                           /\ Goto(g, step)
            BY <1>5 DEF GatewayStep, ApproveWrite, ApprovePublish, ApproveRollback,
                        ApproveNotify, CancelWrite, RecordWrite, EditWrite
        <2>2. QED
            BY <1>2, <1>3, <2>1 DEF Slots
    <1>6. ASSUME NEW a \in AgentSlots, AgentReceives(a)
          PROVE  Enters(r)
        <2>1. a \in Slots
            BY DEF Slots
        <2>2. CASE ReceivePriceDropped(a)
            BY <2>1, <2>2, BeginEnters DEF ReceivePriceDropped
        <2>3. CASE ReceiveApproved(a)
            <3>1. UNCHANGED slot \/ Begin(a, "submit", "send", "approved", "none", "none")
                BY <2>3 DEF ReceiveApproved
            <3>2. QED
                BY <1>1, <2>1, <3>1, BeginEnters
        <2>4. ASSUME NEW e \in RedraftEvents, ReceiveRedraft(a, e)
              PROVE  Enters(r)
            <3>1. e # "dropped"
                BY SlotsAssumption
            <3>2. QED
                BY <2>1, <2>4, <3>1, BeginEnters DEF ReceiveRedraft
        <2>5. CASE AutoSendScan(a)
            BY <2>1, <2>5, BeginEnters DEF AutoSendScan
        <2>6. QED
            BY <1>6, <2>2, <2>3, <2>4, <2>5 DEF AgentReceives
    <1>7. ASSUME NEW a \in AgentSlots, NEW step \in {"announce", "send"}, NEW snap,
                 slot' = [slot EXCEPT ![a].pc = step, ![a].snap = snap],
                 step = "announce" => PersistDraft(a)
          PROVE  Enters(r)
        <2>1. a \in Slots
            BY DEF Slots
        <2>2. CASE r = a
            <3>1. slot'[r].kind = slot[r].kind /\ slot'[r].pc = step /\ slot'[r].msg = slot[r].msg
                BY <1>7, <2>1, <2>2, RefreshSlot
            <3>2. QED
                BY <1>7, <2>2, <3>1 DEF Enters
        <2>3. CASE r # a
            <3>1. slot'[r] = slot[r]
                BY <1>7, <2>1, <2>3, RefreshSlot
            <3>2. QED
                BY <3>1 DEF Enters
        <2>4. QED
            BY <2>2, <2>3
    <1>8. ASSUME NEW a \in AgentSlots, AgentStep(a)
          PROVE  Enters(r)
        <2>1. a \in Slots
            BY DEF Slots
        <2>2. CASE PersistDraft(a)
            <3>1. PICK snap : slot' = [slot EXCEPT ![a].pc = "announce", ![a].snap = snap]
                BY <2>2 DEF PersistDraft
            <3>2. QED
                BY <1>7, <2>2, <3>1
        <2>3. CASE AutoSendReread(a)
            BY <1>2, <1>7, <2>1, <2>3 DEF AutoSendReread
        <2>4. CASE AppendRedraft(a)
            <3>1. Goto(a, "markDone")
                BY <2>4 DEF AppendRedraft
            <3>2. QED
                BY <2>1, <2>4, <3>1, GotoEnters
        <2>5. CASE Send(a)
            <3>1. Goto(a, "record")
                BY <2>5 DEF Send
            <3>2. QED
                BY <2>1, <2>5, <3>1, GotoEnters
        <2>6. CASE MarkRedraftDone(a) \/ NotifyDrafted(a)
            <3>1. /\ slot[a].pc \in {"markDone", "announce"}
                  /\ Goto(a, "announce") \/ Goto(a, "mode")
                BY <2>6 DEF MarkRedraftDone, NotifyDrafted, At
            <3>2. QED
                BY <2>1, <3>1, GotoEnters
        <2>7. CASE ~(\/ PersistDraft(a) \/ AutoSendReread(a) \/ AppendRedraft(a)
                     \/ Send(a) \/ MarkRedraftDone(a) \/ NotifyDrafted(a))
            <3>1. \/ Finish(a)
                  \/ \E step : /\ step \notin {"record", "markDone", "announce", "mode"}
                               /\ Goto(a, step)
                BY <1>8, <2>7
                   DEF AgentStep, HandlerGivesUp, ApplyMode, PublishDrafted, NotifyQueued,
                       BeginRedraft, SendTerminal, SendTransient, RecordSubmission,
                       RevertSubmission, AutoSendPublish, AutoSendRollback, AutoSendNotify
            <3>2. QED
                BY <1>2, <1>3, <2>1, <3>1
        <2>8. QED
            BY <2>2, <2>3, <2>4, <2>5, <2>6, <2>7
    <1>9. CASE Environment
        <2>1. UNCHANGED slot \/ \E s \in Slots : Finish(s)
            BY <1>9 DEF Environment, DelayElapses, CancelWindowCloses, Crash, Redeliver
        <2>2. QED
            BY <1>1, <1>2, <2>1
    <1>10. CASE UNCHANGED vars
        BY <1>1, <1>10 DEF vars
    <1>11. QED
        BY <1>4, <1>5, <1>6, <1>8, <1>9, <1>10 DEF Next

LEMMA FactsStep ==
    ASSUME PaidInv, [Next]_vars
    PROVE  DroppedDrafts' /\ Recorders'
    <1> USE DEF PaidInv
    <1>1. ASSUME NEW r \in Slots
          PROVE  /\ slot'[r].msg = "dropped" => slot'[r].kind = "draft"
                 /\ slot'[r].pc = "record" => slot'[r].kind \in {"submit", "worker"}
        <2>1. Enters(r)
            BY SlotEnters
        <2>2. Send(r) => slot[r].kind \in {"submit", "worker"}
            BY DEF Send, At
        <2>3. QED
            BY <2>1, <2>2 DEF Enters, DroppedDrafts, Recorders
    <1>2. QED
        BY <1>1 DEF DroppedDrafts, Recorders

\* Nobody but the drafting handlers gives the claim a recipient, and nobody queues
\* an undrafted one.
LEMMA BlankDoc ==
    ASSUME PaidInv, [Next]_vars, ~Drafted'
    PROVE  ~doc'.to /\ doc'.outcome # "queued_for_send"
    <1> USE DEF PaidInv
    <1>1. ~Drafted /\ \A a \in Slots : ~PersistDraft(a) /\ ~AppendRedraft(a)
        BY DraftedStep, DraftersDraft
    <1>2. /\ ~doc.to /\ doc.outcome # "queued_for_send" /\ doc \in Claim
          /\ \A s \in Slots : Undrafted(slot[s])
        BY <1>1 DEF Blank, TypeOK
    <1>3. CASE UNCHANGED doc
        BY <1>2, <1>3
    <1>4. ASSUME NEW mode, UpdateSendOverride(mode)
          PROVE  doc'.to = doc.to /\ doc'.outcome = doc.outcome
        BY <1>2, <1>4 DEF UpdateSendOverride, Claim
    <1>5. ASSUME NEW g \in GatewaySlots,
                 ApproveWrite(g) \/ ApproveRollback(g) \/ CancelWrite(g)
                 \/ RecordWrite(g) \/ EditWrite(g)
          PROVE  ~doc'.to /\ doc'.outcome # "queued_for_send"
        <2>1. slot[g].snap.outcome # "queued_for_send"
            BY <1>2 DEF Undrafted, Slots
        <2>2. CASE ApproveRollback(g)
            BY <1>2, <2>1, <2>2 DEF ApproveRollback, Restored, Claim
        <2>3. CASE ~ApproveRollback(g)
            BY <1>2, <1>5, <2>3, GatewayWrites DEF GatewayStep
        <2>4. QED
            BY <2>2, <2>3
    <1>6. ASSUME NEW a \in AgentSlots,
                 \/ ApplyMode(a) \/ RecordSubmission(a)
                 \/ RevertSubmission(a) \/ AutoSendRollback(a)
          PROVE  ~doc'.to /\ doc'.outcome # "queued_for_send"
        <2>1. slot[a].pc # "mode" /\ slot[a].kind # "worker"
            BY <1>2 DEF Undrafted, Slots
        <2>2. RecordSubmission(a) \/ RevertSubmission(a)
            BY <1>6, <2>1 DEF ApplyMode, AutoSendRollback, At
        <2>3. QED
            BY <1>2, <2>2 DEF RecordSubmission, RevertSubmission, Claim
    <1>7. CASE DelayElapses \/ CancelWindowCloses
        BY <1>2, <1>7 DEF DelayElapses, CancelWindowCloses, Claim
    <1>8. QED
        BY <1>1, <1>2, <1>3, <1>4, <1>5, <1>6, <1>7, DocWriters DEF Slots

LEMMA BlankStep ==
    ASSUME PaidInv, [Next]_vars
    PROVE  Blank'
    <1> USE DEF PaidInv
    <1>1. SUFFICES ASSUME ~Drafted', NEW r \in Slots
                   PROVE  Undrafted(slot'[r])
        BY BlankDoc DEF Blank
    <1>2. ~Drafted /\ ~PersistDraft(r) /\ ~AppendRedraft(r)
        BY <1>1, DraftedStep, DraftersDraft
    <1>3. ~doc.to /\ doc.outcome # "queued_for_send" /\ Undrafted(slot[r])
        BY <1>2 DEF Blank
    <1>4. ~slot'[r].snap.to /\ slot'[r].snap.outcome # "queued_for_send"
        <2>1. Evolves(r)
            BY SlotEvolves
        <2>2. CASE slot'[r].snap = slot[r].snap
            BY <1>3, <2>2 DEF Undrafted
        <2>3. CASE slot'[r] = Idle
            BY <2>3 DEF Idle, Copy, Shell
        <2>4. CASE slot'[r].snap = Copy(doc)
            BY <1>3, <2>4 DEF Copy
        <2>5. QED
            BY <1>2, <2>1, <2>2, <2>3, <2>4 DEF Evolves
    <1>5. /\ slot'[r].kind # "worker"
          /\ slot'[r].pc \notin {"markDone", "announce", "mode"}
        <2>1. Enters(r)
            BY SlotEnters
        <2>2. ~Overdue(doc)
            BY <1>3 DEF Overdue
        <2>3. QED
            BY <1>2, <1>3, <2>1, <2>2 DEF Enters, Undrafted
    <1>6. QED
        BY <1>4, <1>5 DEF Undrafted

\* What is redrafted was asked for.
AskedInv ==
    /\ TypeOK
    /\ \A e \in RedraftEvents \ asked :
          /\ pending[e] = 0
          /\ idem[e] = "none"
          /\ \A s \in Slots : slot[s].msg # e

\* A slot takes up an event only from what Pub/Sub owes.
LEMMA EventEnters ==
    ASSUME TypeOK, [Next]_vars, NEW e \in RedraftEvents, pending[e] = 0,
           NEW r \in Slots, slot[r].msg # e
    PROVE  slot'[r].msg # e
    <1>1. e \notin {"none", "dropped", "approved"}
        BY SlotsAssumption
    <1>2. ASSUME NEW s \in Slots, NEW k, NEW step, NEW m, NEW md, NEW tx, m # e,
                 Begin(s, k, step, m, md, tx)
          PROVE  slot'[r].msg # e
        BY <1>2, BeginSlot
    <1>3. ASSUME NEW s \in Slots, Finish(s)
          PROVE  slot'[r].msg # e
        BY <1>1, <1>3, FinishSlot
    <1>4. ASSUME NEW s \in Slots, NEW step, Goto(s, step)
          PROVE  slot'[r].msg # e
        BY <1>4, GotoSlot
    <1>5. ASSUME NEW s \in Slots, NEW step, NEW snap,
                 slot' = [slot EXCEPT ![s].pc = step, ![s].snap = snap]
          PROVE  slot'[r].msg # e
        BY <1>5, RefreshSlot
    <1>6. ASSUME NEW g \in GatewaySlots,
                 \/ \E mode \in SendModes \cup {"none"}, txt \in EditTexts \cup {"none"} :
                       ApproveLoad(g, mode, txt)
                 \/ CancelLoad(g) \/ RecordLoad(g) \/ \E txt \in EditTexts : EditLoad(g, txt)
          PROVE  slot'[r].msg # e
        <2>1. g \in Slots
            BY DEF Slots
        <2>2. ASSUME NEW mode, NEW txt, ApproveLoad(g, mode, txt)
              PROVE  slot'[r].msg # e
            BY <1>1, <1>2, <2>1, <2>2 DEF ApproveLoad
        <2>3. ASSUME CancelLoad(g) \/ RecordLoad(g)
              PROVE  slot'[r].msg # e
            BY <1>1, <1>2, <2>1, <2>3 DEF CancelLoad, RecordLoad
        <2>4. ASSUME NEW txt, EditLoad(g, txt)
              PROVE  slot'[r].msg # e
            BY <1>1, <1>2, <2>1, <2>4 DEF EditLoad
        <2>5. QED
            BY <1>6, <2>2, <2>3, <2>4
    <1>7. ASSUME NEW a \in AgentSlots, AgentReceives(a)
          PROVE  slot'[r].msg # e
        <2>1. a \in Slots
            BY DEF Slots
        <2>2. CASE ReceivePriceDropped(a)
            BY <1>1, <1>2, <2>1, <2>2 DEF ReceivePriceDropped
        <2>3. CASE ReceiveApproved(a)
            <3>1. UNCHANGED slot \/ Begin(a, "submit", "send", "approved", "none", "none")
                BY <2>3 DEF ReceiveApproved
            <3>2. QED
                BY <1>1, <1>2, <2>1, <3>1
        <2>4. ASSUME NEW f \in RedraftEvents, ReceiveRedraft(a, f)
              PROVE  slot'[r].msg # e
            <3>1. f # e
                BY <2>4 DEF ReceiveRedraft, Take
            <3>2. QED
                BY <1>2, <2>1, <2>4, <3>1 DEF ReceiveRedraft
        <2>5. CASE AutoSendScan(a)
            BY <1>1, <1>2, <2>1, <2>5 DEF AutoSendScan
        <2>6. QED
            BY <1>7, <2>2, <2>3, <2>4, <2>5 DEF AgentReceives
    <1>8. ASSUME NEW g \in GatewaySlots, GatewayStep(g)
          PROVE  slot'[r].msg # e
        <2>1. Finish(g) \/ \E step : Goto(g, step)
            BY <1>8 DEF GatewayStep, ApproveWrite, ApprovePublish, ApproveRollback,
                        ApproveNotify, CancelWrite, RecordWrite, EditWrite
        <2>2. QED
            BY <1>3, <1>4, <2>1 DEF Slots
    <1>9. ASSUME NEW a \in AgentSlots, AgentStep(a)
          PROVE  slot'[r].msg # e
        <2>1. a \in Slots
            BY DEF Slots
        <2>2. CASE PersistDraft(a)
            <3>1. PICK snap : slot' = [slot EXCEPT ![a].pc = "announce", ![a].snap = snap]
                BY <2>2 DEF PersistDraft
            <3>2. QED
                BY <1>5, <2>1, <3>1
        <2>3. CASE AutoSendReread(a)
            BY <1>3, <1>5, <2>1, <2>3 DEF AutoSendReread
        <2>4. CASE ~(PersistDraft(a) \/ AutoSendReread(a))
            <3>1. Finish(a) \/ \E step : Goto(a, step)
                BY <1>9, <2>4
                   DEF AgentStep, HandlerGivesUp, NotifyDrafted, ApplyMode,
                       PublishDrafted, NotifyQueued, BeginRedraft, AppendRedraft,
                       MarkRedraftDone, Send, SendTerminal, SendTransient,
                       RecordSubmission, RevertSubmission, AutoSendPublish,
                       AutoSendRollback, AutoSendNotify
            <3>2. QED
                BY <1>3, <1>4, <2>1, <3>1
        <2>5. QED
            BY <2>2, <2>3, <2>4
    <1>10. ASSUME NEW s \in Slots, Crash(s)
           PROVE  slot'[r].msg # e
        BY <1>3, <1>10 DEF Crash
    <1>11. CASE UNCHANGED slot
        BY <1>11
    <1>12. QED
        BY <1>6, <1>7, <1>8, <1>9, <1>10, <1>11
           DEF Next, UserStep, Environment, UpdateSendOverride, RequestRedraft,
               DelayElapses, CancelWindowCloses, Redeliver, vars

\* Pub/Sub comes to owe an event when it is asked for, or again when a handler
\* had taken it up.
LEMMA EventOwed ==
    ASSUME TypeOK, [Next]_vars, NEW e \in RedraftEvents, pending[e] = 0,
           \A s \in Slots : slot[s].msg # e
    PROVE  pending'[e] = 0 \/ e \in asked'
    <1>1. e \in Messages /\ e \notin {"none", "dropped", "approved"}
        BY SlotsAssumption DEF Messages
    <1>2. ASSUME NEW m \in Messages, m # e, Take(m) \/ Publish(m)
          PROVE  pending'[e] = 0
        BY <1>1, <1>2 DEF Take, Publish, TypeOK
    <1>3. "dropped" \in Messages /\ "approved" \in Messages
        BY DEF Messages
    <1>4. CASE UserStep
        <2>1. CASE UNCHANGED pending
            BY <2>1
        <2>2. ASSUME NEW f \in RedraftEvents, RequestRedraft(f)
              PROVE  pending'[e] = 0 \/ e \in asked'
            BY <1>2, <2>2 DEF RequestRedraft, Messages
        <2>3. QED
            BY <1>4, <2>1, <2>2 DEF UserStep, ApproveLoad, CancelLoad, RecordLoad,
                                    EditLoad, UpdateSendOverride
    <1>5. ASSUME NEW g \in GatewaySlots, GatewayStep(g)
          PROVE  pending'[e] = 0
        <2>1. UNCHANGED pending \/ Publish("approved")
            BY <1>5 DEF GatewayStep, ApproveWrite, ApprovePublish, ApproveRollback,
                        ApproveNotify, CancelWrite, RecordWrite, EditWrite, PublishRaises
        <2>2. QED
            BY <1>1, <1>2, <1>3, <2>1
    <1>6. ASSUME NEW a \in AgentSlots, AgentReceives(a)
          PROVE  pending'[e] = 0
        <2>1. \/ UNCHANGED pending \/ Take("dropped") \/ Take("approved")
              \/ \E f \in RedraftEvents : Take(f)
            BY <1>6 DEF AgentReceives, ReceivePriceDropped, ReceiveApproved,
                        ReceiveRedraft, AutoSendScan
        <2>2. ASSUME NEW f \in RedraftEvents, Take(f)
              PROVE  pending'[e] = 0
            <3>1. f # e /\ f \in Messages
                BY <2>2 DEF Take, Messages
            <3>2. QED
                BY <1>2, <2>2, <3>1
        <2>3. QED
            BY <1>1, <1>2, <1>3, <2>1, <2>2
    <1>7. ASSUME NEW a \in AgentSlots, AgentStep(a)
          PROVE  pending'[e] = 0
        <2>1. UNCHANGED pending \/ Publish("approved")
            BY <1>7 DEF AgentStep, HandlerGivesUp, PersistDraft, NotifyDrafted, ApplyMode,
                       PublishDrafted, NotifyQueued, BeginRedraft, AppendRedraft,
                       MarkRedraftDone, AutoSendReread, Send, SendTerminal, SendTransient,
                       RecordSubmission, RevertSubmission, AutoSendPublish,
                       AutoSendRollback, AutoSendNotify, PublishRaises
        <2>2. QED
            BY <1>1, <1>2, <1>3, <2>1
    <1>8. ASSUME NEW s \in Slots, Crash(s) \/ Redeliver(s)
          PROVE  pending'[e] = 0
        <2>1. slot[s].msg \in Messages \cup {"none"} /\ slot[s].msg # e
            BY SlotFields
        <2>2. \/ UNCHANGED pending
              \/ slot[s].msg # "none" /\ Publish(slot[s].msg)
            BY <1>8 DEF Crash, Redeliver
        <2>3. QED
            BY <1>2, <2>1, <2>2
    <1>9. CASE DelayElapses \/ CancelWindowCloses \/ UNCHANGED vars
        BY <1>9 DEF DelayElapses, CancelWindowCloses, vars
    <1>10. QED
        BY <1>4, <1>5, <1>6, <1>7, <1>8, <1>9 DEF Next, Environment

LEMMA AskedStep ==
    ASSUME AskedInv, TypeOK', [Next]_vars
    PROVE  AskedInv'
    <1> USE DEF AskedInv
    <1>1. asked \subseteq asked'
        BY DEF Next, UserStep, ApproveLoad, CancelLoad, RecordLoad, EditLoad,
               UpdateSendOverride, RequestRedraft, GatewayStep, ApproveWrite,
               ApprovePublish, ApproveRollback, ApproveNotify, CancelWrite, RecordWrite,
               EditWrite, AgentReceives, ReceivePriceDropped,
               ReceiveApproved, ReceiveRedraft, AutoSendScan, AgentStep, HandlerGivesUp,
               PersistDraft, NotifyDrafted, ApplyMode, PublishDrafted, NotifyQueued,
               BeginRedraft, AppendRedraft, MarkRedraftDone, AutoSendReread, Send,
               SendTerminal, SendTransient, RecordSubmission, RevertSubmission,
               AutoSendPublish, AutoSendRollback, AutoSendNotify, Environment,
               DelayElapses, CancelWindowCloses, Crash, Redeliver, vars
    <1>2. ASSUME NEW e \in RedraftEvents \ asked'
          PROVE  pending'[e] = 0 /\ idem'[e] = "none" /\ \A s \in Slots : slot'[s].msg # e
        <2>1. /\ e \in RedraftEvents /\ pending[e] = 0 /\ idem[e] = "none"
              /\ \A s \in Slots : slot[s].msg # e
            BY <1>1
        <2>2. pending'[e] = 0
            BY <2>1, EventOwed
        <2>3. \A s \in Slots : slot'[s].msg # e
            BY <2>1, EventEnters
        <2>4. idem'[e] = "none"
            <3>1. ASSUME NEW a \in AgentSlots, BeginRedraft(a) \/ MarkRedraftDone(a)
                  PROVE  idem'[e] = "none"
                <4>1. slot[a].msg # e
                    BY <2>1 DEF Slots
                <4>2. QED
                    BY <2>1, <3>1, <4>1 DEF BeginRedraft, MarkRedraftDone, TypeOK
            <3>2. CASE UNCHANGED idem
                BY <2>1, <3>2
            <3>3. UNCHANGED idem
                  \/ \E a \in AgentSlots : BeginRedraft(a) \/ MarkRedraftDone(a)
                BY DEF Next, UserStep, ApproveLoad, CancelLoad, RecordLoad, EditLoad,
               UpdateSendOverride, RequestRedraft, GatewayStep, ApproveWrite,
               ApprovePublish, ApproveRollback, ApproveNotify, CancelWrite, RecordWrite,
               EditWrite, AgentReceives, ReceivePriceDropped,
               ReceiveApproved, ReceiveRedraft, AutoSendScan, AgentStep, HandlerGivesUp,
               PersistDraft, NotifyDrafted, ApplyMode, PublishDrafted, NotifyQueued,
               AppendRedraft, AutoSendReread, Send,
               SendTerminal, SendTransient, RecordSubmission, RevertSubmission,
               AutoSendPublish, AutoSendRollback, AutoSendNotify, Environment,
               DelayElapses, CancelWindowCloses, Crash, Redeliver, vars
            <3>4. QED
                BY <3>1, <3>2, <3>3
        <2>5. QED
            BY <2>2, <2>3, <2>4
    <1>3. QED
        BY <1>2

\* The records of redrafts are among the redrafts asked for.
LEMMA DeliveredAsked ==
    ASSUME AskedInv
    PROVE  Cardinality(Delivered) <= Cardinality(asked)
    <1>1. Delivered \subseteq asked
        BY DEF AskedInv, Delivered
    <1>2. IsFiniteSet(asked)
        BY EventCount DEF AskedInv, TypeOK
    <1>3. QED
        BY <1>1, <1>2, FS_Subset

\* The shell is not drafted, and price.dropped is all that is owed.
LEMMA PaidInit ==
    ASSUME Init
    PROVE  PaidInv /\ AskedInv
    <1> USE DEF Init
    <1>1. TypeOK
        BY InitTypeOK
    <1>2. \A s \in Slots : slot[s] = Idle
        OBVIOUS
    <1>3. AskedInv
        <2>1. \A s \in Slots : slot[s].msg = "none"
            BY <1>2 DEF Idle
        <2>2. QED
            BY <1>1, <2>1, SlotsAssumption DEF AskedInv, Messages
    <1>4. DroppedDrafts /\ Recorders
        BY <1>2 DEF DroppedDrafts, Recorders, Idle
    <1>5. Blank
        <2>1. Undrafted(Idle)
            BY DEF Undrafted, Idle, Copy, Shell
        <2>2. QED
            BY <1>2, <2>1 DEF Blank, Shell
    <1>6. ~Drafted
        <2>1. "shell" \notin {"agent"} \cup RedraftEvents
            BY SlotsAssumption
        <2>2. \A i \in DOMAIN doc.vers : doc.vers[i].text = "shell"
            BY DEF Shell
        <2>3. QED
            BY <2>1, <2>2 DEF Drafted
    <1>7. One(Open) = 0
        BY <1>6 DEF One, Open, Ready
    <1>8. Rolling = {} /\ Charges = {} /\ Delivered = {}
        <2>1. Rolling = {}
            BY <1>2 DEF Rolling, Idle
        <2>2. ~Charged(Idle)
            BY DEF Charged, Idle
        <2>3. Charges = {}
            BY <1>2, <2>2 DEF Charges, Slots
        <2>4. QED
            BY <2>1, <2>3 DEF Delivered
    <1>9. Cardinality(Rolling) = 0 /\ Cardinality(Charges) = 0 /\ Cardinality(Delivered) = 0
        BY <1>8, FS_EmptySet
    <1>10. Owed <= Allowance
        <2>1. pending["dropped"] = 1
            BY DEF Messages
        <2>2. QED
            BY <1>7, <1>9, <2>1 DEF Owed, Allowance
    <1>11. QED
        BY <1>1, <1>3, <1>4, <1>5, <1>10 DEF PaidInv

\* One e-mail per claim, and one more for each redraft asked for, each failure and
\* each request that ran into another: whatever the user, the gateway, the agent's
\* handlers, the worker and Pub/Sub do, in whatever order and however many at once.
THEOREM MailsArePaid == Spec => []MailsPaidByFaults
<1>1. Init => PaidInv /\ AskedInv
    BY PaidInit
<1>2. ASSUME PaidInv, TypeOK', [Next]_vars
      PROVE  PaidInv'
    BY <1>2, BalanceStep, FactsStep, BlankStep DEF PaidInv
<1>3. ASSUME AskedInv, TypeOK', [Next]_vars
      PROVE  AskedInv'
    BY <1>3, AskedStep
<1>4. PaidInv /\ AskedInv => MailsPaidByFaults
    <2> SUFFICES ASSUME PaidInv, AskedInv
                 PROVE  MailsPaidByFaults
        OBVIOUS
    <2>1. TypeOK /\ Owed <= Allowance /\ Cardinality(Delivered) <= Cardinality(asked)
        BY DeliveredAsked DEF PaidInv
    <2>2. Cardinality(asked) \in Nat
        BY <2>1, EventCount DEF TypeOK
    <2>3. QED
        BY <2>1, <2>2, OpenBit, Weights DEF Owed, Allowance, MailsPaidByFaults
<1>5. QED
    BY <1>1, <1>2, <1>3, <1>4, TypeCorrect, PTL DEF Spec

\* What a step does to the account: at most one of the entries, except that an
\* e-mail whose acceptance is not heard of is a failure too.
LEMMA Entries ==
    ASSUME TypeOK, [Next]_vars
    PROVE  \/ UNCHANGED <<mails, asked, faults, consent>>
           \/ /\ UNCHANGED <<mails, asked, faults>>
              /\ \E ways \in SUBSET {"approve", "auto"} : consent' = consent \cup ways
           \/ /\ UNCHANGED <<mails, faults, consent>>
              /\ \E e \in RedraftEvents \ asked : asked' = asked \cup {e}
           \/ UNCHANGED <<mails, asked, consent>> /\ faults' = faults + 1
           \/ UNCHANGED <<asked, faults, consent>> /\ mails' = mails + 1
           \/ UNCHANGED <<asked, consent>> /\ mails' = mails + 1 /\ faults' = faults + 1
    <1>1. CASE UserStep
        <2>1. ASSUME NEW mode \in SendModes \cup {"none"}, UpdateSendOverride(mode)
              PROVE  /\ UNCHANGED <<mails, asked, faults>>
                     /\ \E ways \in SUBSET {"approve", "auto"} : consent' = consent \cup ways
            BY <2>1 DEF UpdateSendOverride, Consents
        <2>2. ASSUME NEW e \in RedraftEvents, RequestRedraft(e)
              PROVE  /\ UNCHANGED <<mails, faults, consent>>
                     /\ e \in RedraftEvents \ asked /\ asked' = asked \cup {e}
            BY <2>2 DEF RequestRedraft
        <2>3. QED
            BY <1>1, <2>1, <2>2 DEF UserStep, ApproveLoad, CancelLoad, RecordLoad, EditLoad
    <1>2. ASSUME NEW g \in GatewaySlots, ApproveWrite(g)
          PROVE  /\ UNCHANGED <<mails, asked, faults>>
                 /\ \E ways \in SUBSET {"approve", "auto"} : consent' = consent \cup ways
        <2>1. /\ UNCHANGED <<mails, asked, faults>>
              /\ consent' = consent \cup {"approve"} \cup
                              (IF slot[g].mode = "auto" THEN {"auto"} ELSE {})
            BY <1>2 DEF ApproveWrite
        <2>2. consent' = consent \cup {"approve"} \/ consent' = consent \cup {"approve", "auto"}
            BY <2>1
        <2>3. QED
            BY <2>1, <2>2
    <1>3. ASSUME NEW g \in GatewaySlots, GatewayStep(g), ~ApproveWrite(g)
          PROVE  /\ UNCHANGED <<mails, asked, consent>>
                 /\ UNCHANGED faults \/ faults' = faults + 1
        BY <1>3 DEF GatewayStep, ApprovePublish, ApproveRollback, ApproveNotify,
                    CancelWrite, RecordWrite, EditWrite, WriteNotice, Fault
    <1>4. ASSUME NEW a \in AgentSlots, AgentReceives(a)
          PROVE  /\ UNCHANGED <<mails, asked, consent>>
                 /\ UNCHANGED faults \/ faults' = faults + 1
        BY <1>4 DEF AgentReceives, ReceivePriceDropped, ReceiveApproved, ReceiveRedraft,
                    AutoSendScan, Joins, Fault
    <1>5. ASSUME NEW a \in AgentSlots, Send(a) \/ SendTransient(a)
          PROVE  \/ UNCHANGED <<mails, asked, faults, consent>>
                 \/ UNCHANGED <<mails, asked, consent>> /\ faults' = faults + 1
                 \/ UNCHANGED <<asked, faults, consent>> /\ mails' = mails + 1
                 \/ UNCHANGED <<asked, consent>> /\ mails' = mails + 1 /\ faults' = faults + 1
        BY <1>5 DEF Send, SendTransient, Fault
    <1>6. ASSUME NEW a \in AgentSlots, AgentStep(a), ~(Send(a) \/ SendTransient(a))
          PROVE  /\ UNCHANGED <<mails, asked, consent>>
                 /\ UNCHANGED faults \/ faults' = faults + 1
        BY <1>6 DEF AgentStep, HandlerGivesUp, PersistDraft, NotifyDrafted, ApplyMode,
                    PublishDrafted, NotifyQueued, BeginRedraft, AppendRedraft,
                    MarkRedraftDone, AutoSendReread, SendTerminal, RecordSubmission,
                    RevertSubmission, AutoSendPublish, AutoSendRollback, AutoSendNotify,
                    WriteNotice, Fault
    <1>7. CASE Environment
        BY <1>7 DEF Environment, DelayElapses, CancelWindowCloses, Crash, Redeliver, Fault
    <1>8. CASE UNCHANGED vars
        BY <1>8 DEF vars
    <1>9. QED
        BY <1>1, <1>2, <1>3, <1>4, <1>5, <1>6, <1>7, <1>8 DEF Next

\* A step of the system is an entry in the account, or none.
LEMMA StepsBalance ==
    ASSUME TypeOK, [Next]_vars, MailNeedsConsent', MailsPaidByFaults'
    PROVE  [Ledger!Next]_Ledger!vars
    <1>1. /\ mails \in Nat /\ faults \in Nat /\ Cardinality(asked) \in Nat
          /\ IsFiniteSet(asked)
        BY Weights, EventCount DEF TypeOK
    <1>2. CASE UNCHANGED <<mails, asked, faults, consent>>
        BY <1>2 DEF Ledger!vars
    <1>3. CASE /\ UNCHANGED <<mails, asked, faults>>
               /\ \E ways \in SUBSET {"approve", "auto"} : consent' = consent \cup ways
        BY <1>3 DEF Ledger!Next, Ledger!Agree
    <1>4. CASE /\ UNCHANGED <<mails, faults, consent>>
               /\ \E e \in RedraftEvents \ asked : asked' = asked \cup {e}
        <2>1. PICK e \in RedraftEvents \ asked : asked' = asked \cup {e}
            BY <1>4
        <2>2. Cardinality(asked \cup {e}) = Cardinality(asked) + 1
            BY <1>1, FS_AddElement
        <2>3. Cardinality(asked') = Cardinality(asked) + 1
            BY <2>1, <2>2
        <2>4. 1 + Cardinality(asked') + faults' = 1 + Cardinality(asked) + faults + 1
            BY <1>1, <1>4, <2>3
        <2>5. QED
            BY <1>4, <2>4 DEF Ledger!Next, Ledger!Grant
    <1>5. CASE UNCHANGED <<mails, asked, consent>> /\ faults' = faults + 1
        <2>1. 1 + Cardinality(asked') + faults' = 1 + Cardinality(asked) + faults + 1
            BY <1>1, <1>5
        <2>2. QED
            BY <1>5, <2>1 DEF Ledger!Next, Ledger!Grant
    <1>6. CASE UNCHANGED <<asked, faults, consent>> /\ mails' = mails + 1
        <2>1. consent # {}
            BY <1>1, <1>6 DEF MailNeedsConsent
        <2>2. mails < 1 + Cardinality(asked) + faults
            BY <1>1, <1>6 DEF MailsPaidByFaults
        <2>3. QED
            BY <1>6, <2>1, <2>2 DEF Ledger!Next, Ledger!Send
    <1>7. CASE /\ UNCHANGED <<asked, consent>>
               /\ mails' = mails + 1 /\ faults' = faults + 1
        <2>1. consent # {}
            BY <1>1, <1>7 DEF MailNeedsConsent
        <2>2. 1 + Cardinality(asked') + faults' = 1 + Cardinality(asked) + faults + 1
            BY <1>1, <1>7
        <2>3. QED
            BY <1>7, <2>1, <2>2 DEF Ledger!Next, Ledger!SendUnheard
    <1>8. QED
        BY <1>2, <1>3, <1>4, <1>5, <1>6, <1>7, Entries

\* The handling of a claim implements the account of SendLedger: its initial state
\* is one of the account's, and every step is an entry or leaves the account alone.
THEOREM KeepsAccount == Spec => KeepsLedger
<1>1. Init => Ledger!Init
    <2> SUFFICES ASSUME Init
                 PROVE  Ledger!Init
        OBVIOUS
    <2>1. Cardinality(asked) = 0 /\ faults = 0 /\ mails = 0
        BY FS_EmptySet DEF Init
    <2>2. consent \in SUBSET {"approve", "auto"}
        BY DEF Init
    <2>3. QED
        BY <2>1, <2>2 DEF Ledger!Init
<1>2. TypeOK /\ [Next]_vars /\ MailNeedsConsent' /\ MailsPaidByFaults'
         => [Ledger!Next]_Ledger!vars
    BY StepsBalance
<1>3. Spec => []MailsPaidByFaults
    BY MailsArePaid
<1>4. QED
    BY <1>1, <1>2, <1>3, TypeCorrect, MailConsent, PTL
       DEF Spec, KeepsLedger, Ledger!Spec
=============================================================================
