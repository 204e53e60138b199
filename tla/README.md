# ClaimIt: a verification project

ClaimIt watches what a user has bought, notices when the shop lowers the price
inside its price-protection window, drafts a claim and sends it, after the
user's approval or automatically after a five-minute hold.  The program is a
set of small services around one MongoDB database and a Pub/Sub broker.  Every
service handles each request like this: load a document, test a gate on the
copy, call something slow (a language model, Gmail, a shop), and write the
document by `_id` without looking at it again, often the whole of it.
Deliveries are at-least-once, the scheduler retries, and nothing serialises two
requests about the same document.  That is what this project is about: which
promises survive the interleavings and the failures, and which do not.

Paths below are relative to the repository root, here `src/`.

## 1. Inventory

| Component | Where | State | Operations | Talks to |
| --- | --- | --- | --- | --- |
| Claim handlers | `apps/api-gateway/src/services/claims_service.py` | `claims` | approve, cancel, record outcome, edit draft | publishes `claim.approved`; user |
| Claim agent | `apps/claim-agent/src/main.py`, `submit_claim.py`, `send_mode.py`, `redraft_idempotency.py` | `claims`, `redraft_processed_events` | `price.dropped`, `claim.approved`, `claim.redraft_requested`, auto-send worker | Gmail, Pub/Sub, scheduler (1 min) |
| Assistant's claim tools | `apps/assistant-agent/src/tools/claim_tools.py` | `claims.send_override` | set send mode, ask for a redraft | publishes `claim.redraft_requested` |
| Price monitor | `apps/monitor-agent/src/cron.py`, `cadence.py`, `comparison.py`, `eligibility.py` | `purchases` (cadence, last check, error, expiry), `price_history`, new `claims` | the sweep of `/cron` | shops; publishes `price.dropped`; scheduler (15 min, one retry) |
| Product resolver | `apps/monitor-agent/src/resolver`, `main.py` | `purchases.product_url` | `purchase.ingested`, lazy resolve in the sweep | shops |
| Purchase service | `apps/api-gateway/src/services/purchases.py`, `services/gmail.py` | `purchases`, the Gmail part of `users` | create from an upload, confirm, dismiss, stop, set URL, re-upload, connect and disconnect Gmail | publishes `purchase.ingested` |
| Ingest agent | `apps/ingest-agent/src/main.py`, `dedup.py`, `finalize.py`, `renewal.py` | `purchases` waiting for review, `users.gmail_history_id`, watch expiry | `gmail.inbound` push, daily renewal of the watch | Gmail, language model |
| Notifications | `packages/shared/mongodb/.../notification_helpers.py`, `packages/shared/notifier` | `notification_events` | write, e-mail fan-out | every service; SendGrid |
| Event stream | `apps/api-gateway/src/services/event_stream.py`, `apps/web/src/hooks`, `apps/web/src/lib/sse` | a watermark for each stream; in the tab the last id, what it has shown, what other tabs claimed | connect, poll, resume, claim a toast | the tabs of one user, among each other too |
| Assistant conversations | gateway `routes/conversations.py`, `services/conversation_service.py`; `assistant-agent` `mode_a.py`, `mode_b.py`; the tab's stream hook | `conversations`, the agent engine's sessions | a turn, patch, delete | language model |
| Search sync | `apps/sync-worker/src/sync.py`, the backfill script | resume tokens, the search index | change-stream consumer, backfill | MongoDB, Elasticsearch |
| Accounts, settings, other pages, deployment | gateway routes, `apps/web`, `infra` | users, sessions | single-request reads and writes | |

What is hard in each of them, and what makes it correct:

* **Claims.**  Five services write one document.  Nothing is sent without
  consent; one e-mail per claim unless a failure forces a repeat; what is queued
  is sent or leaves the queue; what is resolved stays resolved; the draft's
  scalar and its history agree; a redraft happens once.
* **Monitor.**  A sweep works on a stale list and a fixed time, may be
  overlapped by the scheduler's retry, and de-duplicates by looking at claims
  other services rewrite.  Checks keep to the cadence, a drop leads to a claim
  but not to a stream of them, a stop and a closed window take effect.
* **Purchases and Gmail.**  Look-ups for duplicates are separated from inserts
  by slow calls; the history cursor is moved by concurrent pushes and rewritten
  by whole-document upserts of the gateway.  A receipt is tracked once, no
  message is passed over.
* **Notifications.**  Ids hold a minute bucket, so a redelivery is the same
  event within the minute and another one after it; e-mails follow from the
  insert.  Streams break, tabs reconnect and share the toasts.
* **Conversations.**  A turn streams for up to two minutes and then stores its
  copy of the whole conversation; the agent's own memory must follow.
* **Search sync.**  The resume token is saved after the write to the index, so
  a crash repeats changes; the index only moves forward and converges.

`PROJECT.json` lists the hazards with the line where each bites and the
properties that cover it.

## 2. Modules

| Module | Models | Extended by |
| --- | --- | --- |
| `ClaimLifecycle` | one claim, from the monitor's shell to its resolution, and everything that writes it | `MCClaim`, `ClaimLifecycleProofs`, `ClaimSafetyProofs` |
| `SendLedger` | abstract: what the handling of a claim promises about its e-mails, an account | |
| `MonitorCron` | the purchases under monitoring, the sweeps and the claims they store | `MCMonitor`, `MonitorProofs` |
| `PurchaseStore` | the purchases of a user with their unique indexes, the Gmail part of the user | the next two |
| `GmailInbound` | the mailbox, the watch, concurrent pushes, the cursor | `PurchaseIntake` |
| `PurchaseReview` | the gateway's requests on the same documents | `PurchaseIntake` |
| `PurchaseIntake` | the composition of both, and what they promise together | `MCIntake`, `IntakeProofs`, `IntakeSafetyProofs` |
| `NotificationWriter` | concurrent writers, minute buckets, e-mails | `EventStream` |
| `EventStream` | streams with watermarks, tabs with resumption and claims | `Notifications` |
| `Notifications` | the composition | `MCNotif`, `NotificationProofs` |
| `SearchIndex` | abstract: an index that follows the documents | |
| `SearchSync` | the worker that implements it | `MCSearch`, `SearchProofs` |
| `Conversations` | one conversation, its turns and the sessions of the agent | `MCConv`, `ConversationProofs` |

The modules meet at documents and messages.  `MonitorCron!StoreShell` and
`PublishDrop` produce the document `Shell` and the message `"dropped"` with
which `ClaimLifecycle` begins, and every step of `ClaimLifecycle` that writes the
claim is a `TouchClaim` of `MonitorCron`.  `MonitorCron` begins with a purchase
that a confirmation of `PurchaseReview` has made active; stop and the product
URL are modelled there, against a running sweep.  Whatever writes a notice calls
the writer of `NotificationWriter`, which takes the calls as given.

In all modules an action stands for the code between two awaits that matter: a
load with its gate, or one write, publish, send or question.  A failure is a
kind in `FaultKinds`, and `MaxFaults` (or `MaxEvents`) bounds how many occur.
Variables marked "history" record what a property needs to remember and feed
nothing back.

### ClaimLifecycle

The claim is `doc`, reduced to the fields a gate or a promise reads: `outcome`,
`submitted_via`, `auto_send_at` (absent, waiting, due), `send_override`,
`submitted_at` (absent, inside or past the cancel window), whether a recipient
is set, the draft and its versions.  `idem` is the collection
`redraft_processed_events`.  `pending` counts the deliveries Pub/Sub owes for
each message; `slot` holds what each request in progress is doing, with the
copy it loaded.  Nothing in the deployment limits the claim-agent to one request
at a time (`infra/terraform/modules/cloud-run-agent/main.tf:22`), so its slots
overlap; a request that joins another counts among `faults` (`Joins`), since
overlaps and failures are what a second e-mail takes.  The recipient of an
e-mail is always found, its subject is what the language model wrote and may be
empty: a draft may therefore be one that `submit_claim` refuses (`Drafts`).
`mails` and `consent` are history variables.

| Code | Actions |
| --- | --- |
| `approve_claim` | `ApproveLoad`, `ApproveWrite`, `ApprovePublish`, `ApproveRollback`, `ApproveNotify` |
| `cancel_claim`, `record_claim_outcome`, `edit_claim_draft` | `CancelLoad`/`Write`, `RecordLoad`/`Write`, `EditLoad`/`Write` |
| `update_send_override`, `request_redraft` | `UpdateSendOverride`, `RequestRedraft` |
| `handle_price_dropped` and `send_mode.py` | `ReceivePriceDropped`, `PersistDraft`, `NotifyDrafted`, `ApplyMode`, `PublishDrafted`, `NotifyQueued` |
| `handle_claim_redraft_requested` | `ReceiveRedraft`, `BeginRedraft`, `AppendRedraft`, `MarkRedraftDone`, then as above |
| `handle_claim_approved`, `submit_claim` | `ReceiveApproved`, `Send`, `SendTerminal`, `SendTransient`, `RecordSubmission`, `RevertSubmission` |
| `handle_auto_send` | `AutoSendScan`, `AutoSendReread`, the sending actions, `AutoSendPublish`, `AutoSendRollback`, `AutoSendNotify` |
| any handler that raises or gives up | `HandlerGivesUp` (the push is answered with 200) |

The refinement is `Ledger == INSTANCE SendLedger WITH agreed <- consent,
credit <- 1 + Cardinality(asked) + faults, sent <- mails`, where `faults` counts
failures and overlaps.  An e-mail is sent in one action (`Send`, or `SendTransient` when Gmail accepts the message and the
answer is lost) and only within the credit; an approval, a request to redraft, each failure and each overlap are
steps of the account too, and everything else the handlers do leaves it alone.

The environment closes the cancel window and lets the hold elapse, crashes an
instance, and repeats a delivery whose deadline passed.

### MonitorCron

`purchase` holds the fields a sweep reads and writes, `sweep` what each request
for `/cron` is doing: the time it started (`now`), the purchases left on the
list it read, and its copies of them.  `price` is what the shop charges, as the
number of the drop that lasts, so that two claims for one drop can be told from
two drops.  Time is counted in units; the ladder of `cadence.py` and the
de-duplication window are constants, of which the model assumes only their
order.

| Code | Actions |
| --- | --- |
| `run_cron`, scan | `StartSweep` |
| expired window; cadence drift and `is_due` | `ExpirePurchase`; `CheckIfDue` |
| lazy resolve, fetch, price history, errors | `ResolveUrl`, `Fetch`, `FetchFails`, `PersistPriceHistory`, `ClearError`, `RecordError`, `CheckRaises` |
| `_handle_eligible_drop` | `CheckDedup`, `StoreShell`, `PublishDrop` |
| the `finally` clause | `MarkChecked` |
| `stop_monitoring`, `update_purchase_product_url`, `handle_purchase_ingested` | `StopLoad`/`StopWrite`, `UpdateProductUrl`, `ReceiveIngested`/`ResolveIngested` |
| writes of the claim components | `TouchClaim` |

### PurchaseStore, GmailInbound, PurchaseReview, PurchaseIntake

A receipt is a model value: the normalised body of a mail, or the bytes of an
upload.  `OrderOf` is the order the extraction reads from it, so that two mails
about one order have different receipts and the same order.  An upload with
several items is confirmed line by line: the line's key is part of the hash and a
field of the purchase, and the index on the order includes it
(`create_indexes.py:40-65`), so an order belongs to as many purchases as its
receipt has lines.  A receipt that replaces another is looked up and hashed as a
whole one and keeps the line of its purchase.  The n-th message of the mailbox has history id n.  A push handler is the request `h` of
`gmail_inbound`: it has the user document it loaded, what remains of the
messages it listed, and the newest id it will write as the cursor.  A request of
the gateway is `q`, with what it loaded and the copy of the user document that
authentication fetched.

| Code | Actions |
| --- | --- |
| the mailbox, the watch and its renewal | `Arrive`, `HistoryExpires`, `RegisterWatch`, `Disconnect` |
| push handler: load, list, cap | `ReceivePush`, `ListHistory`, `ListFails` |
| per message: look-up, classifier, extraction | `Classify`, `StoreSentinel` |
| `finalize`, its rescue, the cursor | `Finalize`, `Rescue`, `AdvanceCursor` |
| an instance dies, Pub/Sub repeats | `Crash`; `ReceivePush` of the same push |
| `confirm_purchase`, `dismiss_purchase`, `stop_monitoring` | `AskConfirm`/`Confirm`, `AskDismiss`/`Dismiss`/`RememberSender`, `AskStop`/`StopMonitoring` |
| `create_purchase`, re-upload | `AskCreate`/`CreatePurchase`, `AskReupload`/`ReplaceReceipt` |
| connecting Gmail | `AskConnect`/`ConnectGmail` |

As it stands the code never awaits the classifier (section 6), so no mail becomes
a purchase.  `AwaitsClassifier` is FALSE for the code and TRUE for what its tests
run, with the classifier replaced by a plain function; everything behind the
classifier is checked with TRUE.

### NotificationWriter, EventStream, Notifications

`events` is the collection, an event being a notice and the tick of its
`created_at`; its id follows from the notice and the minute, so ids are ordered
like the notices and repeat within a minute.  A writer is a call of
`write_notification_event`.  A tab holds the last id it has seen, what it has
shown and what it heard other tabs claim; `connect()` waits for a token, so a tab
may come to hold two connections, each a generator with its watermark.

| Code | Actions |
| --- | --- |
| `write_notification_event`, `upsert_if_new`, the dispatcher | `BeginWrite`, `Upsert`, `SendMail`, `CrashWriter`, `Tick` |
| `connect()`, the token, the reconnect timer | `Connect`, `TokenFails`, `ReconnectTimer`, `Online`, `Reload` |
| the generator: seed, poll, batch | `OpenStream`, `Poll`, `PollFails`, `StreamBreaks` |
| the tab's handler and the broadcast channel | `Receive`, `HearClaim` |

### SearchIndex and SearchSync

The version of a document is the position of its last change in the collection's
log, whose entries carry the operation: the stream looks up only updates, so an
insertion, a replacement and the copy of a batch carry the document as it was, and
a replay may index an older version for a while.  `SearchIndex` says that an entry
shows a version its document had, and none older than the last change that the
saved token has passed, because no restart will deliver that one again; a document
that has lost a change is excused until its current version is indexed.
`SearchSync` has what `sync.py` has: streams opened at the saved token or, without
one, at now, batches, the look-up, the bulk write, the token saved after the
change, its removal when the oplog has rolled over, overlapping instances and the
operator's backfill.  The refinement is `Promise == INSTANCE SearchIndex WITH
versions, passed, entry, excused <- ...`.  Two history variables excuse, each for
its own reason: `doubtful` are documents that a failed or interrupted index
request or an instance next to another one has left behind, `skipped` those that
changed before a stream was opened without a token, later than the first one.
Opening a stream puts nothing in doubt.

| Code | Actions |
| --- | --- |
| the collections | `ChangeDoc`, `DeleteDoc`, `OplogRolls` |
| a watcher's task | `StartWatcher`, `OpenStream`, `FetchChanges`, `HandleChange`, `SaveToken`, `StreamBreaks`, `ClearToken` |
| shutdown and crashes | `StopInChange`, `KillWatcher` |
| backfill, scheduled or by hand | `RunBackfill`, `BackfillScan`, `BulkIndex` |

### Conversations

`doc` is the conversation, a message being a turn and a role.  `turn` is the
request of a question in the gateway: how far it has come, its copy, the session
it holds, and the last frame it has sent.  `bubble` is what the tab shows of it.
The two are apart: the tab reads a frame some time after it was sent, or gives up
by itself (a stop, another question, a closed page, a broken connection with a
done frame on its way) and shows that at once, while the gateway notices late or
never and may finish the answer and save it.  A bubble without a frame for 45
seconds looks finished but still waits.  `engine` and `memory` are the sessions
of the agent engine and the turns each has heard.

| Code | Actions |
| --- | --- |
| `event_generator`: load, question, reply | `Load`, `AppendQuestion`, `AppendFails`, `SaveReply`, `SaveFails` |
| `_ensure_agent_and_session` | `EnsureSession`, `EnsureFails`, `PersistSession` |
| `stream_agent_response` | `Query`, `RecreateSession`, `RecreateFails`, `Chunk`, `StreamFails`, `SetupFails` |
| a conversation about a claim | `AskAboutClaim`, `Finish` |
| the 15-second timeout of the heartbeat | `Pause` |
| the tab: frames, giving up | `Read`, `Leave` |
| sse-starlette cancels the response of a tab that has gone | `Disconnect` |
| patch and delete; a new version of the agent | `Patch`, `Delete`, `Redeploy` |

## 3. Runs

| Run | Question | Instance |
| --- | --- | --- |
| `claim_safety` | Which paths lead to an e-mail, do the handlers implement `SendLedger`, what do concurrent writers do to the draft and to a resolved claim? | two agent slots that may overlap, one gateway slot; six sets of two or three user operations, once each (`Races`); approval as the default; two failures of seven kinds, an overlap being one |
| `claim_live` | Is an approved claim answered, does the queue drain, what does it take to send twice? | one slot each; automatic sending; approve, cancel, record once each; fairness; two redeliveries, publish or Gmail failures |
| `monitor_sweep` | Stop, documentation and expiry under every failure | one sweep that takes time; stop and `purchase.ingested` once; one failure of five kinds; fairness |
| `monitor_punctual` | Do checks keep to the cadence, and does a drop that is found have a claim? | 2 sweeps that may overlap, one purchase over the whole ladder; no failures; one write to a claim and to the URL |
| `intake` | Is a receipt or a line of one tracked once, is any message passed over, is every message dealt with? | 2 push handlers, 2 requests; receipts of one order, one line; three messages, failures (of six kinds) and requests in any mix, at most two of them messages; fairness |
| `notif` | What is mailed twice, shown twice or skipped? | 2 notices, 2 writers, 2 tabs with 2 streams each, 2 failures of nine kinds |
| `search_sync` | Does the worker implement `SearchIndex`? | 2 documents, 3 changes, 2 instances and an operator, 2 failures of eight kinds; fairness |
| `conversations` | What do upserts from a copy lose, does the agent's memory agree with the document? | 2 turns, 2 sessions, patches, deletion and new versions of the agent at any time, one failure of four kinds |
| `claim_v_double`, `monitor_v_repeat`, `intake_v_classifier`, `conv_v_pause` | statements of the repository that the code breaks (section 6) | the smallest instance that shows it |

What the passing runs show:

* `MailNeedsConsent`: on every path to Gmail, redelivery and rollback included,
  the user approved or had chosen automatic sending.
* `QueuedHasTimer`: the rollbacks of `approve_claim` and of the worker restore
  the timer with the outcome, so the auto-send query finds whatever is queued.
* `ResolutionIsFinal`: a late or repeated `claim.approved`, and whoever else loads
  a resolved claim, does not revive it.  The drafting handlers, which have no gate,
  and requests that had loaded the claim before do (section 6).
* `DraftInSync`, `RedraftOnce`: partial writes keep scalar and history
  together; the insert-once record keeps a redraft from being applied twice.
* `MailsPaidByFaults`: each e-mail after the first is paid for by one failure, by
  one request of the claim-agent that ran into another, or by a redraft the user
  asked for; the worker's own `claim.approved` is recognised as done.
* `KeepsLedger`: the same as a refinement, with overlaps in the run.  An e-mail is agreed to and within
  the credit at the step that sends it, not only in the end, and no step of a
  handler takes an agreement or a credit back.
* `ApprovedIsAnswered`, `QueueDrains`: liveness of the claim agent.
* `OneClaimPerRunningSweep`: de-duplication limits the claims of a window to
  the number of concurrent sweeps, even across a crash between check and store.
* `StopTakesEffect`, `StoppedStaysOff`: the only claim a stopped purchase can
  still get comes from a sweep that started before; partial writes never bring
  it back to monitoring.
* `ClaimIsDocumented`: a live platform's claim has its price-history row, since
  a failed insert abandons the check.
* `ChecksKeepUp`, `CheckedDropHasClaim`: the cadence is corrected before it is
  used, and de-duplication only suppresses a claim in favour of a current one.
* `ClosedWindowLeaves`: the expiry write is retried by later sweeps.
* `ReceiptTrackedOnce`: the unique indexes hold what the look-ups, stale by the
  time of the insert, cannot, for two confirmations of one upload as for two
  deliveries of a push: one purchase for a receipt or a line of one, and for a line
  of an order.
* `CursorPassesNothing`: no message below the cursor of a connection is left
  out, however pushes overtake each other and whoever writes the user document,
  except one whose failure the handler counted, and what was not watched.
* `MessageIsDealtWith`: every message is in the end a purchase, known, or given
  up for a failure, as long as its connection lasts.
* `MailedOncePerMinute`: the e-mail follows from the insert of an id, and an id
  is inserted once.
* `ShownOnce`, `NothingSkipped`: of one notification a toast is shown in one tab,
  but for the named races; a stream that keeps its position misses only what is
  stored behind it.
* `StaleMeansPending`: an entry that is behind has its change ahead of every open
  stream and of the saved token, or nobody follows and there is no token, or it is
  excused for a named reason.  Crashes, reconnects, replays and batches leave
  nothing else behind.
* `IndexPromise`, `IndexConverges`: the worker implements `SearchIndex`, and what is
  not excused catches up.
* `ReplyFollowsQuestion`: whatever order the upserts of overlapping turns come
  in, the document reads as a dialogue.
* `OnlyOverlapLoses`: what a whole-document upsert undoes had run beside it.
* `MemoryMatches`: the session id is stored three times (in the copy, by a
  partial update that may fail, with the reply); one that dies is replaced in
  the middle of the turn; still document and memory agree.
* `ErrorStoresNothing`: of an answer the gateway reported as failed nothing is
  stored, however late the tab reads it.  One that the tab gave up by itself may
  be (section 6).

Every property is paired, in `PROJECT.json`, with a variant of one definition
that a plausible mistake in the code would produce (several are bugs the
repository's comments say it once had) and under which the run fails.

### Bounds, and why they are enough

* `MaxFaults`: at most 2.  A failure and the recovery from it is one; two let the
  recovery fail.  It stays below Pub/Sub's dead-letter limit of five attempts,
  which is therefore not modelled.
* Slots, handlers, writers, sweeps, tabs, turns: the races are pairwise, so two
  of those that race and one of the others.  Two slots of the agent occur in
  `claim_safety` and `claim_v_double`; `claim_live` has one, as its properties say
  nothing of overlaps that `KeepsLedger` does not (section 4 has both for any
  number of slots).
* `Budgets`: sets of operations of the user, of which a behaviour has one.  Each
  race is between one instance of an operation and another actor, so two operations
  meet, with a third where it takes one to get there.  Approval as the default makes
  a queued claim rare in `claim_safety`; `claim_live` has automatic sending.
* `MaxEvents = 3` in `intake` counts messages, failures and requests alike: two
  mails and a failure, a mail and two requests, three requests.
* Time: `Short < Mid < Long` and `Day <= Week` scaled to 1, 2, 3 and 2, 3, with
  `Dedup = Mid` as in the code (one hour both).  The window is long enough to
  pass every step of the ladder (`monitor_punctual`), `Horizon` reaches its end,
  `MaxLag` is how many units a slow sweep may take.  In `notif` a minute has two
  ticks, so that an event may be stored in its minute with an older time.
* `MaxMail = 2` with `Cap = 1`: a push finds more than it may handle.  `Batch = 1`
  with two events: a poll leaves one behind.  `MaxLog = 3` with `Batch = 2`: a
  document is written, changed and deleted across a batch's end.
* Two sessions for two turns: each may need one of its own, or one replaces the
  other, and the replacement dies too.  What bounds new versions of the agent is
  that a session has to be left for them to end.
* Symmetry is used in runs without liveness only.

Deadlock is not checked: a claim that is resolved, a clock at its horizon, a
mailbox that has been read and a conversation without questions are legitimate
ends.

### Fairness

* `ClaimLifecycle!FairSpec`: a running request continues (weak fairness on the
  steps of each slot), Pub/Sub keeps delivering until it is answered (strong
  fairness, because a busy slot disables the delivery; `price.dropped` needs weak
  fairness only), the scheduler ticks every minute (strong fairness on the scan,
  for the same reason), and the hold elapses.  Nothing is assumed of the user.
  The failures in `claim_live` are those the handlers are written to survive.  A
  rollback write that fails, or an exception after the gate in the
  `claim.approved` handler, leaves the claim in `pending` with no message on its
  way, since the push is answered with 200: `ApprovedIsAnswered` is false of
  them, and the run excludes them rather than hide this.
* `MonitorCron!FairSpec`: the scheduler goes on starting sweeps, a sweep goes
  on, time passes.
* `PurchaseIntake!FairSpec`: weak fairness on the steps of each handler, which
  take up what Pub/Sub repeats until it is acknowledged.  The user, the mailbox
  and the failures owe nothing.
* `SearchSync!FairSpec`: weak fairness on a watcher's steps, on starting one, and
  on the end of an instance whose task has died, which the platform's minimum of
  one instance and its liveness probe enforce.

## 4. Proofs

The theorems hold for every value of the constants: any number of slots,
purchases, sweeps, handlers, tabs, documents, turns, operations and failures,
under the named assumptions on their types (slots, redrafts, sweeps and tabs are
finite sets).  Two theorems have a premise of their own, which the table
names and without which the property is false: a check whose fetch fails counts as
a check, and a sweep that dies, cannot write or is late leaves purchases unchecked.  Each safety theorem has an inductive
invariant, most of them checked with TLC before they were proved; one
step per action, and lemmas for what several actions share.

| Theorem | Says | Invariant and argument |
| --- | --- | --- |
| `ClaimLifecycleProofs!TypeCorrect` | `[]TypeOK` | the lemmas say what the bookkeeping helpers keep |
| `ClaimSafetyProofs!QueuedTimer` | `[]QueuedHasTimer` | `TimerInv`: a rollback writes a timer that was read long ago, so a copy of a queued claim carries its timer, and each request still satisfies the gate it passed |
| `ClaimSafetyProofs!MailConsent` | `[]MailNeedsConsent` | `ConsentInv`: a claim that is pending or queued, and every request about to queue or send, already has consent, which never shrinks |
| `ClaimSafetyProofs!ResolvedStays` | `ResolutionIsFinal` | an action property: by cases on the writers of the claim, with the gates their copies passed |
| `ClaimSafetyProofs!DraftsAgree` | `[]DraftInSync` | `DraftInv`: the history is nonempty and each writer pushes what it sets |
| `ClaimSafetyProofs!OneDraftPerRedraft` | `[]RedraftOnce` | `RedraftInv`: the idempotency record of an event is inserted before its text, and one handler at a time has an event |
| `ClaimSafetyProofs!MailsArePaid` | `[]MailsPaidByFaults`, for any number of overlapping requests | `PaidInv`, a potential: the mails sent and what may still lead to one (a `price.dropped` to deliver, a claim that can be sent, rollbacks under way, each request that was charged for a mail it may still cause) stay within one plus the failures, overlaps and delivered redrafts; a request that joins another is charged for itself, an undrafted claim has no recipient (`Blank`), and a redraft that is delivered was asked for (`AskedInv`) |
| `ClaimSafetyProofs!KeepsAccount` | `Spec => KeepsLedger` | each step adds to the account what its entry says (`Entries`), and `PaidInv` and `ConsentInv` give a send its credit and its agreement |
| `MonitorProofs!TypeCorrect` | `[]TypeOK` | a sweep past its scan has a purchase in hand, and the claim it will publish exists (`InHand`) |
| `MonitorProofs!StoppedStays` | `StoppedStaysOff` | an action property, by cases on the writers of the status |
| `MonitorProofs!StopHolds` | `[]StopTakesEffect` | `StopInv`: a stopped purchase is on no list read later, a list it is on was read before the stop, no time lies in the future, and a sweep stores claims only for what it listed |
| `MonitorProofs!ClaimsDocumented` | `[]ClaimIsDocumented` | `HistoryInv`: a sweep past its insert into the history has the row of the drop it saw |
| `MonitorProofs!OneClaimPerSlot` | `[]OneClaimPerRunningSweep` | `OwnerInv`: each claim has a sweep slot that stored it; the claims of one slot for a purchase are further apart than the window, and so are they from the claim it is about to store (a pigeonhole then bounds their number) |
| `MonitorProofs!CheckedDropsAreClaimed` | `[]CheckedDropHasClaim`, if no fetch fails and no check raises | `DropInv`: a sweep past the fetch saw the drop that has lasted since before it began, and past the store there is a claim current for it (`Judged`) |
| `MonitorProofs!ChecksAreInTime` | `[]ChecksKeepUp`, if sweeps are punctual, none crashes and no write fails | `KeepInv`: a monitored purchase is settled (inside its window, checked within the cadence of what is left) or on the list of a sweep that runs, and such a sweep began at this moment |
| `IntakeProofs!TypeCorrect` | `[]TypeOK` | what a handler has in hand belongs to a purchase that exists |
| `IntakeProofs!TrackedOnce` | `[]ReceiptTrackedOnce` | `IntakeInv`: every step that sets a hash, a line or an order, the inserts, the finalisation, a corrected order and a replaced receipt, meets both unique indexes |
| `IntakeSafetyProofs!CursorIsSafe` | `[]CursorPassesNothing` | `CursorInv`: what is below any cursor, in the document or in a copy that may be written back, is settled; a handler's batch covers the gap from its cursor to the id it will write; what is stored is settled |
| `NotificationProofs!MailedOnce` | `[]MailedOncePerMinute` | `MailInv`: a mail sent or about to be sent belongs to one insert of its id |
| `NotificationProofs!TypeCorrect` | `[]TypeOK` | a tab knows of nothing that is not stored |
| `NotificationProofs!PositionIsHonest` | `[]NothingSkipped` | what is behind the watermark of a connection was received, is excused or is on its way, in order |
| `NotificationProofs!SurfacedOnce` | `[]ShownOnce` | a tab that surfaces an event was not done with it, is from then on, and stays so; every other tab has the claim coming or is excused |
| `SearchProofs!Implements` | `Spec => IndexPromise` | `SyncInv`: what a process has in hand is a version its document had, and for a document that is not excused none older than what the token it will save passes (`Covers`, `Leads`); each step is a step of `SearchIndex` or a stutter |
| `SearchProofs!BehindForAReason` | `[]StaleMeansPending` | `PendingInv`: the token and every open stream are before the last change of a document whose entry is behind and not excused; what an instance holds is the log past its position |
| `SearchProofs!TypeCorrect` | `[]TypeOK` | with what `SyncInv` says of an instance's buffer |
| `ConversationProofs!TypeCorrect` | `[]TypeOK` | a request under way has a copy |
| `ConversationProofs!DialogueKept` | `[]ReplyFollowsQuestion` | `DialogueInv`: it holds of every copy too, a copy ends with the question of its turn, and what a conversation holds of a turn follows from how far that turn is |
| `ConversationProofs!NothingElseLost` | `[]OnlyOverlapLoses` | `LossInv`: turns that run together are on record, and every copy holds what is stored of the others |
| `ConversationProofs!MemoryKept` | `[]MemoryMatches` | `MemInv`: a request is `Apt` to store only what a session heard: its id is the one in its copy, and a dead session's turns are excused; a write of the id into a document that has grown needs `LossInv` |
| `ConversationProofs!ErrorsStoreNothing` | `[]ErrorStoresNothing` | `ErrorInv`: a request that has sent an error is over and has stored no reply; `FailedInv`: a bubble that shows one has read it from such a request, which is never taken up again |

The proofs about conversations treat the many steps that neither write a message
nor take a copy as one (`Quiet`).

Every invariant, action property and refinement a run checks is a theorem.  Only
model-checked is liveness, since fairness and ENABLED are out of the prover's
reach: `ApprovedIsAnswered`, `QueueDrains`, `ClosedWindowLeaves`,
`MessageIsDealtWith`, `IndexConverges`.  There is no recursion in the models.

## 5. Plan

Done: the claim lifecycle, the monitor, the intake of purchases, notifications,
the search index and the ledger of sends with their refinements, conversations,
and the theorems above.  Left, in this order:

1. An abstract specification of the monitor (a drop in the window is claimed,
   a stopped purchase is not), implemented by `MonitorCron`, and the ledger
   credited by it through `price.dropped`.
2. An abstract mailbox (each message is settled once, in any order, before the
   cursor passes it), implemented by `PurchaseIntake`.
3. The acknowledgement of notifications with its optimistic counterpart in the
   web application.

## 6. Where the repository and the code disagree

With a run that shows it:

* `claim_v_double`: the worker's re-read guard does not prevent duplicate
  submits; two runs pass it before either writes.
* `monitor_v_repeat`: a drop that lasts is claimed again at nearly every check,
  because the de-duplication window (one hour) is no longer than the cadence
  (one or six hours); with automatic sending the merchant gets all of them.
* `intake_v_classifier`: `apps/ingest-agent/src/main.py:481` uses the answer of a
  coroutine function without awaiting it; the catch-all counts every message as
  failed and the cursor moves on.
* `conv_v_pause`: the 15-second heartbeat cancels the answer it waits for.  The
  stream ends without a done frame, and half an answer may be saved as a whole.

Seen in the code, without a run of their own:

* Claims.  A cancel between the worker's re-read and the send is answered with
  success and the e-mail leaves (`claims_service.py:852` and `:818`); a claim that
  was cancelled or whose outcome was recorded comes back to life by the write of
  `submit_claim`, its revert or the gateway's rollback, when they had loaded it
  before, and by the drafting of a redelivered `price.dropped` or of a redraft, which
  look at no outcome; claims that
  are not e-mails are auto-submitted (`send_mode.py:42`) although
  `docs/reference/claim_agent.md:122` says they never are; a crash after the
  idempotency record loses the redraft (`claim-agent/src/main.py:883`) that
  `claim_tools.py:251` calls durable.  `submit_claim` leaves `auto_send_at` set,
  which `claims_service.py:861` says is only set while queued; the re-read does
  not look at `auto_send_at`, so a redraft that re-queues the claim after the
  scan loses its hold; an override set to approval while queued is not read by
  the worker; an edit loaded from a draft may be appended after the submission
  (`claims_service.py:967` says 409); a shell whose publish failed is never
  drafted, since nothing republishes it; what `submit_claim` refuses for want of a
  subject goes back to the user, or round the queue for ever.
* Monitor.  A claim that another handler has rewritten counts as recent and may
  hide a new drop for an hour (`cron.py:489`).  The sweep's expiry write replaces a dismissal (`cron.py:185`); the
  scan reads at most 1000 purchases without an order (`cron.py:146`); the resolver
  writes the URL it found over one the user set meanwhile
  (`resolver/service.py:135`).
* Intake.  A second mail of an order fails at finalize with a duplicate key, and
  its sentinel stays at `overall_min` 0.0 (`ingest-agent/src/main.py:571`, against
  the comment at 524); finalize overwrites a confirmation or dismissal made
  meanwhile with pending; a dismissal's upsert of the whole user document brings
  an ended Gmail connection back (`purchases.py:664`, against `gmail.py:229`); the
  receipt of a stopped or dismissed purchase cannot be added again, since the
  unique indexes (`create_indexes.py:50-65`) exempt no status, although the dialogue
  that stops one says "You can re-upload a receipt later to start over."
  (`stop-monitoring-dialog.tsx:90`) and `purchases.py:965` that dismissed ones do not
  block; the skiplist is written
  with the hash of sender and body (`main.py:515`) and looked up by subject and
  body (`classifier.py:165`); connecting another account keeps the old cursor
  (`routes/gmail.py:186`); an expired history leaves the cursor where it was;
  the renewal skips users whose watch expiry is null.
* Notifications.  A first connection without a position starts at now after every
  break, so events of the gap are lost, although the docstring of
  `event_stream.py` and `last-event-id.ts` say otherwise; an event stored late,
  behind the watermark of an open connection or behind the position one that is
  opening carries in its URL, is skipped; a redelivery in the next minute writes and
  mails again, and a crash after the insert loses the e-mail; overlapping calls
  of `connect()` leave an orphan stream.  Two tabs that show one toast are a
  limitation the code documents.
* Conversations.  Overlapping turns lose each other's messages and patches, and a
  turn in flight undoes a deletion; an answer that the tab shows as cancelled may
  still be finished and saved (`useAssistantStream.ts:252`, `conversations.py:265`); a reply that cannot be saved is only logged;
  a failed answer about a claim is shown as complete, because the `finally` of
  `mode_b.py:254` sends a done frame before the error
  (`docs/reference/assistant_agent.md:127` promises one with the error).
* Search.  `sync.py:5` says that a restart picks up exactly where the previous
  process left off.  Cancelling the task saves the token of a change that was not
  indexed (`sync.py:187`); an instance that ends before it has handled a change
  leaves no token, and the next stream starts from now (`sync.py:160`).  After the
  loss of the oplog the backfill reads the collection first and the stream opens
  afterwards: what changes in between is in neither, although `sync.py:16` says that
  the backfill closes the gap, and deletions meanwhile stay in the index.  Of two
  overlapping instances the slower may write an older version last, which stays
  until the document changes again.

## 7. Not modelled

* Language-model calls and their texts (a draft, an answer is a model value),
  Gmail's, the shops' and SendGrid's protocols, price arithmetic and the policy
  rules of `eligibility.py` (the constant `Covered`), extraction's confidence.
* `resolved_at`, `reclaimed_amount` and notes of a recorded outcome, deletion of
  documents and of users, logging and tracing, authentication of pushes,
  documents the sweep skips as degraded, the failure flags of the watch,
  titles and renaming of conversations, the list of notifications and its unread count, the 50
  minute refresh and the 500-id memory of a tab, projections of the index.
* The `purchase.uploaded` handler: nothing publishes that topic any more.
* Accounts, sign-in, settings and public forms: single requests without a
  concurrent partner.  Deployment: its schedules, deadlines and retry policy
  justify the failures and the fairness above.

The map covers about a twelfth of the implementation's lines.  Two thirds of
them are the web application, landing pages and a demo video, whose components
render what a request returned and keep no protocol state; of the services,
prompts, templates, response shapes, shop adapters and seeds are large and change
nothing that another actor sees.  What remains, the code that reads and writes
shared documents, is what the modules are about.
