------------------------ MODULE ClaimLifecycleProofs ------------------------
(***************************************************************************)
(* Theorems about ClaimLifecycle, for any number of request slots, redraft *)
(* events, budgets and failures.                                           *)
(***************************************************************************)
EXTENDS ClaimLifecycle, TLAPS

\* The vocabulary every typing leaf needs.
USE DEF SendModes, UserOps

\* What a handler keeps of a claim is a snapshot.
LEMMA CopyType ==
    ASSUME NEW claim \in Claim
    PROVE  Copy(claim) \in Snapshot
    BY DEF Copy, Claim, Snapshot

\* A draft can be sent or it cannot.
LEMMA DraftsType == Drafts \subseteq BOOLEAN
    BY DEF Drafts

\* The shell of the monitor and the first draft are claims.
LEMMA ShellType == Shell \in Claim /\ \A to \in Drafts : NewDraft(to) \in Claim
    <1>1. ASSUME NEW txt \in Texts, NEW number \in Nat
          PROVE  <<[n |-> number, text |-> txt]>> \in Seq([n : Nat, text : Texts])
        OBVIOUS
    <1>2. "shell" \in Texts /\ "agent" \in Texts
        BY DEF Texts
    <1>3. Shell \in Claim
        BY <1>1, <1>2 DEF Shell, Claim, Outcomes, Vias
    <1> HIDE DEF SendModes
    <1>5. ASSUME NEW claim \in Claim, NEW to \in BOOLEAN, NEW content \in Texts,
                 NEW vers \in Seq([n : Nat, text : Texts])
          PROVE  [claim EXCEPT !.to = to, !.content = content, !.vers = vers] \in Claim
        BY DEF Claim
    <1>6. ASSUME NEW to \in Drafts
          PROVE  NewDraft(to) \in Claim
        BY <1>1, <1>2, <1>3, <1>5, DraftsType DEF NewDraft
    <1>7. QED
        BY <1>3, <1>6

\* An idle slot is an invocation.
LEMMA IdleType == Idle \in Invocation
    BY ShellType, CopyType DEF Idle, Invocation, Messages, Kinds, Stages

\* Adding a version to a claim gives a claim.
LEMMA PushedType ==
    ASSUME NEW claim \in Claim, NEW number \in Nat, NEW txt \in Texts
    PROVE  Pushed(claim, number, txt) \in Claim
    <1>1. claim.vers \in Seq([n : Nat, text : Texts])
        BY DEF Claim
    <1>2. [n |-> number, text |-> txt] \in [n : Nat, text : Texts]
        OBVIOUS
    <1>3. Append(claim.vers, [n |-> number, text |-> txt]) \in Seq([n : Nat, text : Texts])
        BY <1>1, <1>2
    <1>4. QED
        BY <1>3 DEF Pushed, Claim

\* Every claim type is submitted in a way that has a name.
LEMMA ViaType == SubmittedVia \in Vias
    BY ValuesAssumption DEF SubmittedVia, Vias, ClaimTypes

\* The state in which the monitor has published price.dropped is well typed.
LEMMA InitTypeOK == Init => TypeOK
    BY ShellType, IdleType, ValuesAssumption DEF Init, TypeOK, Messages

\* The bookkeeping helpers keep the types of what they assign.
LEMMA BeginType ==
    ASSUME TypeOK, NEW s \in Slots,
           NEW k \in {"approve", "cancel", "record", "edit", "draft", "redraft",
                      "submit", "worker"},
           NEW step \in {"write", "generate", "begin", "reread", "send"},
           NEW m \in Messages \cup {"none"},
           NEW md \in SendModes \cup {"none"}, NEW tx \in EditTexts \cup {"none"},
           k = "redraft" => m \in RedraftEvents, k = "edit" => tx \in EditTexts,
           Begin(s, k, step, m, md, tx)
    PROVE  slot' \in [Slots -> Invocation]
    <1>1. Copy(doc) \in Snapshot
        BY CopyType DEF TypeOK
    <1>2. [kind |-> k, pc |-> step, msg |-> m, snap |-> Copy(doc),
           mode |-> md, text |-> tx] \in Invocation
        BY <1>1 DEF Invocation, Kinds, Stages
    <1>3. slot \in [Slots -> Invocation]
        BY DEF TypeOK
    <1>4. slot' = [slot EXCEPT ![s] = [kind |-> k, pc |-> step, msg |-> m,
                                       snap |-> Copy(doc), mode |-> md, text |-> tx]]
        BY DEF Begin
    <1> HIDE DEF SendModes
    <1>5. QED
        BY <1>2, <1>3, <1>4

\* Ending a request keeps the slots invocations.
LEMMA FinishType ==
    ASSUME TypeOK, NEW s \in Slots, Finish(s)
    PROVE  slot' \in [Slots -> Invocation]
    BY IdleType DEF Finish, TypeOK

\* Moving on within a request keeps the slots invocations.
LEMMA GotoType ==
    ASSUME TypeOK, NEW s \in Slots,
           NEW step \in {"publish", "rollback", "notify", "generate", "announce",
                         "mode", "publishDrafted", "notifyQueued", "markDone",
                         "send", "record", "revert"},
           Goto(s, step)
    PROVE  slot' \in [Slots -> Invocation]
    <1>1. slot[s] \in Invocation
        BY DEF TypeOK
    <1>2. [slot[s] EXCEPT !.pc = step] \in Invocation
        BY <1>1 DEF Invocation, Stages
    <1>3. slot' = [slot EXCEPT ![s] = [slot[s] EXCEPT !.pc = step]]
        BY DEF Goto
    <1>4. QED
        BY <1>2, <1>3 DEF TypeOK

\* Publishing, taking and redelivering keep delivery counts natural.
LEMMA PendingType ==
    ASSUME TypeOK, NEW m \in Messages, Publish(m) \/ Take(m)
    PROVE  pending' \in [Messages -> Nat]
    BY DEF Publish, Take, TypeOK

\* A user operation keeps the budget natural.
LEMMA LeftType ==
    ASSUME TypeOK, NEW op \in UserOps, UserStarts(op)
    PROVE  left' \in [UserOps -> Nat]
    BY DEF UserStarts, TypeOK

\* A failure is counted only below the bound.
LEMMA FaultType ==
    ASSUME TypeOK, NEW kind, Fault(kind) \/ UNCHANGED faults
    PROVE  faults' \in 0 .. MaxFaults
    BY ValuesAssumption DEF Fault, TypeOK

\* Writing a notification, or failing to, keeps its kinds and the failures typed.
LEMMA NoticeType ==
    ASSUME TypeOK, NEW kind \in {"drafted", "queued", "submitted"}, WriteNotice(kind)
    PROVE  /\ notices' \subseteq {"drafted", "queued", "submitted"}
           /\ faults' \in 0 .. MaxFaults
    BY FaultType DEF WriteNotice, TypeOK, Fault

\* What an invocation gives access to.
LEMMA SlotFields ==
    ASSUME TypeOK, NEW s \in Slots
    PROVE  /\ slot[s].msg \in Messages \cup {"none"}
           /\ slot[s].mode \in SendModes \cup {"none"}
           /\ slot[s].text \in EditTexts \cup {"none"}
           /\ slot[s].text \in Texts \cup {"none"}
           /\ slot[s].snap.outcome \in Outcomes
           /\ slot[s].snap.autoAt \in {"none", "waiting", "due"}
           /\ slot[s].snap.versions \in Nat
           /\ slot[s].kind = "redraft" => slot[s].msg \in RedraftEvents
           /\ slot[s].kind = "edit" => slot[s].text \in EditTexts
    <1>1. slot[s] \in Invocation
        BY DEF TypeOK
    <1>2. EditTexts \subseteq Texts
        BY DEF Texts
    <1>3. QED
        BY <1>1, <1>2 DEF Invocation, Snapshot

\* A handler that refreshes its copy and moves on stays an invocation.
LEMMA RefreshType ==
    ASSUME TypeOK, NEW s \in Slots, NEW claim \in Claim,
           NEW step \in {"announce", "send"},
           slot' = [slot EXCEPT ![s].pc = step, ![s].snap = Copy(claim)]
    PROVE  slot' \in [Slots -> Invocation]
    <1>1. slot[s] \in Invocation /\ Copy(claim) \in Snapshot
        BY CopyType DEF TypeOK
    <1>2. [slot[s] EXCEPT !.pc = step, !.snap = Copy(claim)] \in Invocation
        BY <1>1 DEF Invocation, Stages
    <1>3. slot' = [slot EXCEPT ![s] = [slot[s] EXCEPT !.pc = step, !.snap = Copy(claim)]]
        OBVIOUS
    <1>4. QED
        BY <1>2, <1>3 DEF TypeOK

\* One field written with a value of its type leaves a claim a claim.
LEMMA FieldTypes ==
    ASSUME NEW claim \in Claim
    PROVE  /\ \A o \in Outcomes : [claim EXCEPT !.outcome = o] \in Claim
           /\ \A t \in {"none", "waiting", "due"} : [claim EXCEPT !.autoAt = t] \in Claim
           /\ \A m \in SendModes \cup {"none"} : [claim EXCEPT !.override = m] \in Claim
           /\ \A t \in {"none", "recent", "old"} : [claim EXCEPT !.subAt = t] \in Claim
           /\ \A v \in Vias : [claim EXCEPT !.via = v] \in Claim
           /\ \A b \in BOOLEAN : [claim EXCEPT !.to = b] \in Claim
           /\ \A o \in Outcomes, t \in {"none", "waiting", "due"},
                 u \in {"none", "recent", "old"}, v \in Vias :
                /\ [claim EXCEPT !.outcome = o, !.autoAt = t] \in Claim
                /\ [claim EXCEPT !.outcome = o, !.subAt = u, !.autoAt = t] \in Claim
                /\ [claim EXCEPT !.via = v, !.subAt = u, !.outcome = o] \in Claim
                /\ [claim EXCEPT !.outcome = o, !.subAt = u, !.via = v, !.autoAt = t]
                      \in Claim
    <1>1. ASSUME NEW o \in Outcomes PROVE [claim EXCEPT !.outcome = o] \in Claim
        BY DEF Claim
    <1>2. ASSUME NEW t \in {"none", "waiting", "due"}
          PROVE  [claim EXCEPT !.autoAt = t] \in Claim
        BY DEF Claim
    <1>3. ASSUME NEW m \in SendModes \cup {"none"}
          PROVE  [claim EXCEPT !.override = m] \in Claim
        BY DEF Claim
    <1>4. ASSUME NEW u \in {"none", "recent", "old"}
          PROVE  [claim EXCEPT !.subAt = u] \in Claim
        BY DEF Claim
    <1>5. ASSUME NEW v \in Vias PROVE [claim EXCEPT !.via = v] \in Claim
        BY DEF Claim
    <1>6. ASSUME NEW b \in BOOLEAN PROVE [claim EXCEPT !.to = b] \in Claim
        BY DEF Claim
    <1> HIDE DEF SendModes
    <1>7. ASSUME NEW o \in Outcomes, NEW t \in {"none", "waiting", "due"},
                 NEW u \in {"none", "recent", "old"}, NEW v \in Vias
          PROVE  /\ [claim EXCEPT !.outcome = o, !.autoAt = t] \in Claim
                 /\ [claim EXCEPT !.outcome = o, !.subAt = u, !.autoAt = t] \in Claim
                 /\ [claim EXCEPT !.via = v, !.subAt = u, !.outcome = o] \in Claim
                 /\ [claim EXCEPT !.outcome = o, !.subAt = u, !.via = v, !.autoAt = t]
                       \in Claim
        <2>1. [claim EXCEPT !.outcome = o, !.autoAt = t] \in Claim
            BY DEF Claim
        <2>2. [claim EXCEPT !.outcome = o, !.subAt = u, !.autoAt = t] \in Claim
            BY DEF Claim
        <2>3. [claim EXCEPT !.via = v, !.subAt = u, !.outcome = o] \in Claim
            BY DEF Claim
        <2>4. [claim EXCEPT !.outcome = o, !.subAt = u, !.via = v, !.autoAt = t] \in Claim
            BY DEF Claim
        <2>5. QED
            BY <2>1, <2>2, <2>3, <2>4
    <1>8. QED
        BY <1>1, <1>2, <1>3, <1>4, <1>5, <1>6, <1>7

\* Every variable has its type in every reachable state: no handler writes an
\* outcome, a timer or a version outside what the gates of the others know.
THEOREM TypeCorrect == Spec => []TypeOK
<1>1. ASSUME TypeOK, [Next]_vars
      PROVE  TypeOK'
    <2> USE <1>1
    <2>1. ASSUME NEW g \in GatewaySlots, NEW mode \in SendModes \cup {"none"},
                 NEW txt \in EditTexts \cup {"none"}, ApproveLoad(g, mode, txt)
          PROVE  TypeOK'
        BY <2>1, BeginType, LeftType DEF ApproveLoad, TypeOK, Slots, Texts, Messages
    <2>2. ASSUME NEW g \in GatewaySlots, CancelLoad(g) \/ RecordLoad(g)
          PROVE  TypeOK'
        BY <2>2, BeginType, LeftType DEF CancelLoad, RecordLoad, TypeOK, Slots
    <2>3. ASSUME NEW g \in GatewaySlots, NEW txt \in EditTexts, EditLoad(g, txt)
          PROVE  TypeOK'
        BY <2>3, BeginType, LeftType DEF EditLoad, TypeOK, Slots, Texts
    <2>4. ASSUME NEW mode \in SendModes \cup {"none"}, UpdateSendOverride(mode)
          PROVE  TypeOK'
        BY <2>4, FieldTypes, LeftType DEF UpdateSendOverride, Consents, TypeOK
    <2>5. ASSUME NEW e \in RedraftEvents, RequestRedraft(e)
          PROVE  TypeOK'
        BY <2>5, PendingType, LeftType DEF RequestRedraft, TypeOK, Messages
    <2>6. ASSUME NEW g \in GatewaySlots, ApproveWrite(g)
          PROVE  TypeOK'
        <3>1. ASSUME NEW claim \in Claim, NEW mode \in SendModes \cup {"none"}
              PROVE  Approved(claim, mode) \in Claim
            BY DEF Approved, Claim, Outcomes
        <3>2. doc' \in Claim
            <4>1. /\ slot[g].mode \in SendModes \cup {"none"}
                  /\ slot[g].text \in Texts \cup {"none"}
                  /\ slot[g].snap.versions + 1 \in Nat
                BY SlotFields DEF Slots
            <4>2. Approved(doc, slot[g].mode) \in Claim
                BY <3>1, <4>1 DEF TypeOK
            <4>3. CASE slot[g].text = "none"
                BY <2>6, <4>2, <4>3 DEF ApproveWrite
            <4>4. CASE slot[g].text # "none"
                <5>1. slot[g].text \in Texts
                    BY <4>1, <4>4
                <5>2. doc' = Pushed(Approved(doc, slot[g].mode),
                                    slot[g].snap.versions + 1, slot[g].text)
                    BY <2>6, <4>4 DEF ApproveWrite
                <5>3. QED
                    BY <4>1, <4>2, <5>1, <5>2, PushedType
            <4>5. QED
                BY <4>3, <4>4
        <3>3. slot' \in [Slots -> Invocation]
            BY <2>6, GotoType DEF ApproveWrite, Slots
        <3>4. QED
            BY <2>6, <3>2, <3>3 DEF ApproveWrite, TypeOK
    <2>7. ASSUME NEW g \in GatewaySlots, ApprovePublish(g)
          PROVE  TypeOK'
        <3>1. slot' \in [Slots -> Invocation]
            <4>1. Goto(g, "notify") \/ Goto(g, "rollback")
                BY <2>7 DEF ApprovePublish
            <4>2. QED
                BY <4>1, GotoType DEF Slots
        <3>2. faults' \in 0 .. MaxFaults
            BY <2>7, FaultType DEF ApprovePublish
        <3>3. pending' \in [Messages -> Nat]
            BY <2>7, PendingType DEF ApprovePublish, PublishRaises, Messages, TypeOK
        <3>4. QED
            BY <2>7, <3>1, <3>2, <3>3 DEF ApprovePublish, TypeOK
    <2>8. ASSUME NEW g \in GatewaySlots, ApproveRollback(g)
          PROVE  TypeOK'
        <3>1. doc' \in Claim
            <4>1. g \in Slots /\ doc \in Claim
                BY DEF Slots, TypeOK
            <4>2. Restored(doc, slot[g].snap) \in Claim
                BY <4>1, SlotFields, FieldTypes DEF Restored
            <4>3. QED
                BY <2>8, <4>1, <4>2 DEF ApproveRollback
        <3>2. slot' \in [Slots -> Invocation] /\ faults' \in 0 .. MaxFaults
            BY <2>8, FinishType, FaultType DEF ApproveRollback, Slots
        <3>3. QED
            BY <2>8, <3>1, <3>2 DEF ApproveRollback, TypeOK
    <2>9. ASSUME NEW g \in GatewaySlots, ApproveNotify(g)
          PROVE  TypeOK'
        BY <2>9, NoticeType, FinishType DEF ApproveNotify, TypeOK, Slots
    <2>10. ASSUME NEW g \in GatewaySlots, CancelWrite(g) \/ RecordWrite(g)
           PROVE  TypeOK'
        <3>1. doc' \in Claim
            BY <2>10 DEF CancelWrite, RecordWrite, TypeOK, Claim, Outcomes
        <3>2. QED
            BY <2>10, <3>1, FinishType DEF CancelWrite, RecordWrite, TypeOK, Slots
    <2>11. ASSUME NEW g \in GatewaySlots, EditWrite(g)
           PROVE  TypeOK'
        <3>1. /\ slot[g].text \in Texts
              /\ slot[g].snap.versions + 1 \in Nat
            BY <2>11, SlotFields DEF EditWrite, At, Slots, Texts
        <3>2. doc' \in Claim
            BY <2>11, <3>1, PushedType DEF EditWrite, TypeOK
        <3>3. slot' \in [Slots -> Invocation]
            BY <2>11, FinishType DEF EditWrite, Slots
        <3>4. QED
            BY <2>11, <3>2, <3>3 DEF EditWrite, TypeOK
    <2>12. ASSUME NEW a \in AgentSlots, AgentReceives(a)
           PROVE  TypeOK'
        <3>1. faults' \in 0 .. MaxFaults
            BY <2>12, FaultType
               DEF AgentReceives, ReceivePriceDropped, ReceiveApproved, ReceiveRedraft,
                   AutoSendScan, Joins
        <3>2. slot' \in [Slots -> Invocation] /\ pending' \in [Messages -> Nat]
            BY <2>12, BeginType, PendingType
               DEF AgentReceives, ReceivePriceDropped, ReceiveApproved, ReceiveRedraft,
                   AutoSendScan, TypeOK, Slots, Messages
        <3>3. QED
            BY <2>12, <3>1, <3>2
               DEF AgentReceives, ReceivePriceDropped, ReceiveApproved, ReceiveRedraft,
                   AutoSendScan, TypeOK
    <2>13. ASSUME NEW a \in AgentSlots,
                  HandlerGivesUp(a) \/ NotifyDrafted(a) \/ PublishDrafted(a)
                  \/ NotifyQueued(a)
           PROVE  TypeOK'
        <3>1. slot' \in [Slots -> Invocation]
            <4>1. Finish(a) \/ Goto(a, "mode") \/ Goto(a, "notifyQueued")
                BY <2>13 DEF HandlerGivesUp, NotifyDrafted, PublishDrafted, NotifyQueued
            <4>2. a \in Slots
                BY DEF Slots
            <4>3. QED
                BY <4>1, <4>2, GotoType, FinishType
        <3>2. faults' \in 0 .. MaxFaults /\ notices' \subseteq {"drafted", "queued", "submitted"}
            BY <2>13, NoticeType, FaultType
               DEF HandlerGivesUp, NotifyDrafted, PublishDrafted, NotifyQueued, TypeOK
        <3>3. QED
            BY <2>13, <3>1, <3>2
               DEF HandlerGivesUp, NotifyDrafted, PublishDrafted, NotifyQueued, TypeOK
    <2>14. ASSUME NEW a \in AgentSlots, PersistDraft(a)
           PROVE  TypeOK'
        <3> PICK to \in Drafts :
                /\ doc' = NewDraft(to)
                /\ slot' = [slot EXCEPT ![a].pc = "announce",
                                       ![a].snap = Copy(NewDraft(to))]
            BY <2>14 DEF PersistDraft
        <3>1. NewDraft(to) \in Claim
            BY ShellType
        <3>2. slot' \in [Slots -> Invocation]
            BY <3>1, RefreshType DEF Slots
        <3>3. QED
            BY <2>14, <3>1, <3>2 DEF PersistDraft, TypeOK
    <2>15. ASSUME NEW a \in AgentSlots, ApplyMode(a)
           PROVE  TypeOK'
        <3>1. doc' \in Claim
            BY <2>15 DEF ApplyMode, Dispatched, TypeOK, Claim, Outcomes
        <3>2. QED
            BY <2>15, <3>1, GotoType DEF ApplyMode, TypeOK, Slots
    <2>16. ASSUME NEW a \in AgentSlots, BeginRedraft(a) \/ MarkRedraftDone(a)
           PROVE  TypeOK'
        BY <2>16, GotoType, FinishType DEF BeginRedraft, MarkRedraftDone, TypeOK, Slots
    <2>17. ASSUME NEW a \in AgentSlots, AppendRedraft(a)
           PROVE  TypeOK'
        <3>1. Pushed(doc, Len(doc.vers) + 1, slot[a].msg) \in Claim
            <4>1. slot[a].msg \in RedraftEvents
                BY <2>17, SlotFields DEF AppendRedraft, At, Slots
            <4>2. Len(doc.vers) + 1 \in Nat
                BY DEF TypeOK, Claim
            <4>3. QED
                BY <4>1, <4>2, PushedType DEF TypeOK, Texts
        <3>2. doc' \in Claim
            BY <2>17, <3>1, DraftsType, FieldTypes DEF AppendRedraft
        <3>3. QED
            BY <2>17, <3>2, GotoType DEF AppendRedraft, TypeOK, Slots
    <2>18. ASSUME NEW a \in AgentSlots, AutoSendReread(a)
           PROVE  TypeOK'
        <3>1. slot' \in [Slots -> Invocation]
            <4>1. CASE doc.outcome = "queued_for_send"
                BY <2>18, <4>1, RefreshType DEF AutoSendReread, TypeOK, Slots
            <4>2. CASE doc.outcome # "queued_for_send"
                BY <2>18, <4>2, FinishType DEF AutoSendReread, Slots
            <4>3. QED
                BY <4>1, <4>2
        <3>2. QED
            BY <2>18, <3>1 DEF AutoSendReread, TypeOK
    <2>19. ASSUME NEW a \in AgentSlots, Send(a) \/ SendTerminal(a) \/ SendTransient(a)
           PROVE  TypeOK'
        <3>1. slot' \in [Slots -> Invocation]
            <4>1. Finish(a) \/ Goto(a, "record") \/ Goto(a, "revert")
                BY <2>19 DEF Send, SendTerminal, SendTransient
            <4>2. QED
                BY <4>1, GotoType, FinishType DEF Slots
        <3>2. faults' \in 0 .. MaxFaults
            BY <2>19, FaultType DEF Send, SendTerminal, SendTransient
        <3>3. mails' \in Nat
            BY <2>19 DEF Send, SendTerminal, SendTransient, TypeOK
        <3>4. QED
            BY <2>19, <3>1, <3>2, <3>3 DEF Send, SendTerminal, SendTransient, TypeOK
    <2>20. ASSUME NEW a \in AgentSlots, RecordSubmission(a) \/ RevertSubmission(a)
           PROVE  TypeOK'
        <3>1. slot' \in [Slots -> Invocation]
            <4>1. Finish(a) \/ Goto(a, "publish")
                BY <2>20 DEF RecordSubmission, RevertSubmission
            <4>2. QED
                BY <4>1, GotoType, FinishType DEF Slots
        <3>2. doc' \in Claim
            <4>1. doc \in Claim /\ doc.autoAt \in {"none", "waiting", "due"}
                BY DEF TypeOK, Claim
            <4>2. "pending" \in Outcomes /\ "draft_pending" \in Outcomes
                BY DEF Outcomes
            <4>3. CASE RecordSubmission(a)
                BY <4>1, <4>2, <4>3, ViaType, FieldTypes DEF RecordSubmission
            <4>4. CASE RevertSubmission(a)
                BY <4>1, <4>2, <4>4, FieldTypes DEF RevertSubmission
            <4>5. QED
                BY <2>20, <4>3, <4>4
        <3>3. QED
            BY <2>20, <3>1, <3>2 DEF RecordSubmission, RevertSubmission, TypeOK
    <2>21. ASSUME NEW a \in AgentSlots, AutoSendPublish(a)
           PROVE  TypeOK'
        <3>1. slot' \in [Slots -> Invocation]
            <4>1. Goto(a, "notify") \/ Goto(a, "rollback")
                BY <2>21 DEF AutoSendPublish
            <4>2. QED
                BY <4>1, GotoType DEF Slots
        <3>2. faults' \in 0 .. MaxFaults
            BY <2>21, FaultType DEF AutoSendPublish
        <3>3. pending' \in [Messages -> Nat]
            BY <2>21, PendingType DEF AutoSendPublish, PublishRaises, Messages, TypeOK
        <3>4. QED
            BY <2>21, <3>1, <3>2, <3>3 DEF AutoSendPublish, TypeOK
    <2>22. ASSUME NEW a \in AgentSlots, AutoSendRollback(a) \/ AutoSendNotify(a)
           PROVE  TypeOK'
        <3>1. slot' \in [Slots -> Invocation]
            BY <2>22, FinishType DEF AutoSendRollback, AutoSendNotify, Slots
        <3>2. faults' \in 0 .. MaxFaults /\ notices' \subseteq {"drafted", "queued", "submitted"}
            BY <2>22, FaultType, NoticeType DEF AutoSendRollback, AutoSendNotify, TypeOK
        <3>3. doc' \in Claim
            <4>1. doc \in Claim /\ slot[a].snap.autoAt \in {"none", "waiting", "due"}
                BY SlotFields DEF TypeOK, Slots
            <4>2. "queued_for_send" \in Outcomes /\ "none" \in Vias
                BY DEF Outcomes, Vias
            <4>3. [doc EXCEPT !.outcome = "queued_for_send", !.subAt = "none",
                              !.via = "none", !.autoAt = slot[a].snap.autoAt] \in Claim
                BY <4>1, <4>2, FieldTypes
            <4>4. QED
                BY <2>22, <4>1, <4>3 DEF AutoSendRollback, AutoSendNotify
        <3>4. QED
            BY <2>22, <3>1, <3>2, <3>3 DEF AutoSendRollback, AutoSendNotify, TypeOK
    <2>23. CASE DelayElapses \/ CancelWindowCloses
        BY <2>23, FieldTypes DEF DelayElapses, CancelWindowCloses, TypeOK
    <2>24. ASSUME NEW s \in Slots, Crash(s) \/ Redeliver(s)
           PROVE  TypeOK'
        <3>1. slot' \in [Slots -> Invocation]
            BY <2>24, FinishType DEF Crash, Redeliver, TypeOK
        <3>2. faults' \in 0 .. MaxFaults
            BY <2>24, FaultType DEF Crash, Redeliver
        <3>3. pending' \in [Messages -> Nat]
            BY <2>24, PendingType, SlotFields DEF Crash, Redeliver, TypeOK
        <3>4. QED
            BY <2>24, <3>1, <3>2, <3>3 DEF Crash, Redeliver, TypeOK
    <2>25. CASE UNCHANGED vars
        BY <2>25 DEF vars, TypeOK
    <2>26. QED
        BY <2>1, <2>2, <2>3, <2>4, <2>5, <2>6, <2>7, <2>8, <2>9, <2>10, <2>11, <2>12,
           <2>13, <2>14, <2>15, <2>16, <2>17, <2>18, <2>19, <2>20, <2>21, <2>22,
           <2>23, <2>24, <2>25
           DEF Next, UserStep, GatewayStep, AgentStep, Environment
<1>2. QED
    BY InitTypeOK, <1>1, PTL DEF Spec

=============================================================================
