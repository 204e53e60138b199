------------------------------ MODULE SearchSync ------------------------------
(***************************************************************************)
(* The sync worker: a task per collection that tails MongoDB's change      *)
(* stream, writes the document that comes with every change to the search  *)
(* index, and saves the stream's resume token after each change.           *)
(*                                                                         *)
(* Collections do not interact, so one is modelled.  Besides the instance  *)
(* that serves, a deployment may start the next one before it stops the    *)
(* old one, and an operator may run the backfill script.  The version of a *)
(* document is the position of its last change in the collection's log;    *)
(* ids are random, so a deleted document does not come back.               *)
(***************************************************************************)
EXTENDS Integers, Sequences, FiniteSets, FiniteSetsExt

CONSTANTS
    Docs,
    Watchers,    \* instances of the worker
    Operator,    \* whoever runs the backfill script
    Batch,       \* how many changes the server hands out at a time
    MaxLog,      \* bound: changes of the collection
    FaultKinds,  \* which failures the environment produces
    MaxFaults    \* bound: how many failures in a behaviour

AllFaults == {"kill", "stop", "network", "elastic", "mongo", "oplog", "deploy",
              "manual"}

ASSUME SyncAssumption ==
    /\ Operator \notin Watchers
    /\ Batch \in Nat \ {0}
    /\ {MaxLog, MaxFaults} \subseteq Nat
    /\ FaultKinds \subseteq AllFaults

VARIABLES
    log,       \* the collection's changes
    gone,      \* the documents whose last change is their deletion
    index,     \* the version of each document that the index shows
    token,     \* sync_state: the saved position, None before the first
    oldest,    \* positions up to this one have left the oplog
    proc,      \* what each instance and the operator are doing
    doubtful,  \* history: documents that a failure may have left behind
    skipped,   \* history: documents that a stream opened without a token left behind
    first,     \* history: where the first stream was opened, None before
    faults     \* bound: failures so far

vars == <<log, gone, index, token, oldest, proc, doubtful, skipped, first, faults>>

None  == -1
Ops   == {"insert", "update", "replace", "delete"}
Procs == Watchers \cup {Operator}

\* alone is FALSE for a process that has run next to another.
Down == [pc |-> "down", pos |-> 0, buffer |-> <<>>, copy |-> [d \in Docs |-> 0],
         alone |-> TRUE]

Init ==
    /\ log = <<>> /\ gone = {}
    /\ index = [d \in Docs |-> 0]
    /\ token = None /\ oldest = 0
    /\ proc = [w \in Procs |-> Down]
    /\ doubtful = {} /\ skipped = {} /\ first = None
    /\ faults = 0

-----------------------------------------------------------------------------
(* Helpers *)

\* 0 for a document that was never written.
Version(d) == Max({0} \cup {i \in DOMAIN log : log[i].doc = d})

\* The entry shows the last change; after a deletion, that there is none.
Fresh(d) == index[d] = Version(d)

\* What changed since the first stream was opened and is not what the index shows.
Behind == {d \in Docs : Version(d) > first /\ ~Fresh(d)}

At(w, step)   == proc[w].pc = step
Goto(w, step) == proc' = [proc EXCEPT ![w].pc = step]

\* Leaving the stream: buffer and position are lost, the token is not.
Left(w, step) == [Down EXCEPT !.pc = step, !.alone = proc[w].alone]

Fault(kind) == kind \in FaultKinds /\ faults < MaxFaults /\ faults' = faults + 1

Others(w) == {u \in Procs \ {w} : ~At(u, "down")}

\* A process starts, alone or next to others.
Started(w, step) ==
    [u \in Procs |->
        IF u = w THEN [Down EXCEPT !.pc = step, !.alone = Others(w) = {}]
        ELSE IF At(u, "down") THEN proc[u] ELSE [proc[u] EXCEPT !.alone = FALSE]]

Current(D, v) == {d \in D : v[d] = Version(d)}

\* What is in doubt after w has written the documents of D in version v[d]: the
\* current version settles a doubt, and one that is older than what a process
\* next to it wrote brings doubt.
Judged(w, D, v) ==
    (doubtful \ Current(D, v)) \cup {d \in D : ~proc[w].alone /\ v[d] < index[d]}

-----------------------------------------------------------------------------
(* The database *)

\* An upsert replaces the document or inserts it; partial writes update it.
ChangeDoc(d) ==
    /\ Len(log) < MaxLog /\ d \notin gone
    /\ \E op \in IF Version(d) = 0 THEN {"insert"} ELSE {"replace", "update"} :
         log' = Append(log, [doc |-> d, op |-> op])
    /\ UNCHANGED <<gone, index, token, oldest, proc, doubtful, skipped, first, faults>>

DeleteDoc(d) ==
    /\ Len(log) < MaxLog /\ d \notin gone /\ Version(d) # 0
    /\ log' = Append(log, [doc |-> d, op |-> "delete"])
    /\ gone' = gone \cup {d}
    /\ UNCHANGED <<index, token, oldest, proc, doubtful, skipped, first, faults>>

\* The oplog is a ring: what is old enough can no longer be resumed from.
OplogRolls ==
    /\ Fault("oplog")
    /\ oldest' \in oldest + 1 .. Len(log)
    /\ UNCHANGED <<log, gone, index, token, proc, doubtful, skipped, first>>

-----------------------------------------------------------------------------
(* The instances *)

\* An instance starts when none runs, or next to the one it is to replace.
StartWatcher(w) ==
    /\ At(w, "down")
    /\ IF \A v \in Watchers : At(v, "down") THEN UNCHANGED faults ELSE Fault("deploy")
    /\ proc' = Started(w, "closed")
    /\ UNCHANGED <<log, gone, index, token, oldest, doubtful, skipped, first>>

\* Killed anywhere; a watcher that a failure ended is restarted by the probe.
KillWatcher(w) ==
    /\ ~At(w, "down")
    /\ IF At(w, "dead") THEN UNCHANGED faults ELSE Fault("kill")
    /\ proc' = [proc EXCEPT ![w] = Down]
    /\ UNCHANGED <<log, gone, index, token, oldest, doubtful, skipped, first>>

-----------------------------------------------------------------------------
(* watch_collection *)

\* Mutant: the first start is not told apart.
AlwaysToken == token

\* Mutant: the token is loaded and not passed on.
FromNow == Len(log)

OpenPosition == IF token = None THEN Len(log) ELSE token

\* Without a token the stream starts now.  What changed before the very first one is
\* the operator's to backfill; what a later one finds behind is skipped.
OpenStream(w) ==
    /\ At(w, "closed")
    /\ IF token # None /\ token < oldest
       THEN Goto(w, "lost") /\ UNCHANGED <<skipped, first>>
       ELSE /\ proc' = [proc EXCEPT ![w].pc = "stream", ![w].pos = OpenPosition]
            /\ IF first = None
               THEN first' = Len(log) /\ UNCHANGED skipped
               ELSE /\ skipped' = IF token = None THEN skipped \cup Behind ELSE skipped
                    /\ UNCHANGED first
    /\ UNCHANGED <<log, gone, index, token, oldest, doubtful, faults>>

\* full_document = updateLookup: the server adds the current document to an update.
\* An insertion and a replacement carry the document of the change.
LookedUp(i) == IF log[i].op = "update" THEN Version(log[i].doc) ELSE i

\* The next changes, each with its document.
FetchChanges(w) ==
    LET from == proc[w].pos IN
    /\ At(w, "stream") /\ proc[w].buffer = <<>> /\ from < Len(log)
    /\ IF from < oldest
       THEN proc' = [proc EXCEPT ![w] = Left(w, "lost")]
       ELSE \E n \in 1 .. Min({Batch, Len(log) - from}) :
              proc' = [proc EXCEPT ![w].buffer =
                         [i \in 1 .. n |-> [doc  |-> log[from + i].doc,
                                            full |-> LookedUp(from + i)]]]
    /\ UNCHANGED <<log, gone, index, token, oldest, doubtful, skipped, first, faults>>

\* The connection to the database breaks while the stream waits.
StreamBreaks(w) ==
    /\ At(w, "stream") /\ proc[w].buffer = <<>>
    /\ Fault("network")
    /\ proc' = [proc EXCEPT ![w] = Left(w, "closed")]
    /\ UNCHANGED <<log, gone, index, token, oldest, doubtful, skipped, first>>

\* _handle_change: the entry is rewritten, or removed when the document is
\* gone.  A failure is logged and no more; Elasticsearch may have obeyed.
HandleChange(w) ==
    LET change == proc[w].buffer[1]
        d == change.doc
    IN
    /\ At(w, "stream") /\ proc[w].buffer # <<>>
    /\ \/ /\ index' = [index EXCEPT ![d] = change.full]
          /\ doubtful' = Judged(w, {d}, index')
          /\ skipped' = skipped \ Current({d}, index')
          /\ UNCHANGED faults
       \/ /\ Fault("elastic")
          /\ index' \in {index, [index EXCEPT ![d] = change.full]}
          /\ doubtful' = doubtful \cup {d}
          /\ UNCHANGED skipped
    /\ Goto(w, "handled")
    /\ UNCHANGED <<log, gone, token, oldest, first>>

\* Mutant: the end of the batch.
BatchEnd(w) == proc[w].pos + Len(proc[w].buffer)

Handled(w) == proc[w].pos + 1

\* The finally clause; a failure in it leads out of the stream.
SaveToken(w) ==
    /\ At(w, "handled")
    /\ \/ /\ token' = Handled(w)
          /\ proc' = [proc EXCEPT ![w].pc = "stream", ![w].pos = @ + 1,
                                  ![w].buffer = Tail(@)]
          /\ UNCHANGED faults
       \/ /\ Fault("mongo") /\ token' \in {token, Handled(w)}
          /\ proc' = [proc EXCEPT ![w] = Left(w, "closed")]
    /\ UNCHANGED <<log, gone, index, oldest, doubtful, skipped, first>>

\* Shutdown cancels the task.  When that interrupts _handle_change, the finally
\* clause still saves the token of the change, indexed or not.
StopInChange(w) ==
    LET change == proc[w].buffer[1] IN
    /\ At(w, "stream") /\ proc[w].buffer # <<>>
    /\ Fault("stop")
    /\ index' \in {index, [index EXCEPT ![change.doc] = change.full]}
    /\ doubtful' = doubtful \cup {change.doc}
    /\ token' = Handled(w)
    /\ proc' = [proc EXCEPT ![w] = Down]
    /\ UNCHANGED <<log, gone, oldest, skipped, first>>

\* Mutant: the token that can no longer be resumed from stays.
Kept == token

Cleared == None

\* ChangeStreamHistoryLost: the token is dropped.  If that fails, the exception
\* leaves the loop and the task has died.
ClearToken(w) ==
    /\ At(w, "lost")
    /\ \/ token' = Cleared /\ Goto(w, "scan") /\ UNCHANGED faults
       \/ Fault("mongo") /\ Goto(w, "dead") /\ UNCHANGED token
    /\ UNCHANGED <<log, gone, index, oldest, doubtful, skipped, first>>

-----------------------------------------------------------------------------
(* backfill_collection, by a watcher or by the operator *)

RunBackfill ==
    /\ At(Operator, "down") /\ Fault("manual")
    /\ proc' = Started(Operator, "scan")
    /\ UNCHANGED <<log, gone, index, token, oldest, doubtful, skipped, first>>

AfterBackfill(w) == IF w = Operator THEN Down ELSE Left(w, "closed")

Snapshot == [d \in Docs |-> IF d \in gone THEN 0 ELSE Version(d)]

\* Every document that exists is read; a failure ends the backfill.
BackfillScan(w) ==
    /\ At(w, "scan")
    /\ \/ /\ proc' = [proc EXCEPT ![w].pc = "bulk", ![w].copy = Snapshot]
          /\ UNCHANGED faults
       \/ Fault("mongo") /\ proc' = [proc EXCEPT ![w] = AfterBackfill(w)]
    /\ UNCHANGED <<log, gone, index, token, oldest, doubtful, skipped, first>>

\* What was read is written; the errors of single documents are only counted.
BulkIndex(w) ==
    LET read == {d \in Docs : proc[w].copy[d] # 0} IN
    /\ At(w, "bulk")
    /\ \E ok \in SUBSET read :
         /\ IF ok = read THEN UNCHANGED faults ELSE Fault("elastic")
         /\ index' = [d \in Docs |-> IF d \in ok THEN proc[w].copy[d] ELSE index[d]]
         /\ doubtful' = Judged(w, ok, index') \cup (read \ ok)
         /\ skipped' = skipped \ Current(ok, index')
    /\ proc' = [proc EXCEPT ![w] = AfterBackfill(w)]
    /\ UNCHANGED <<log, gone, token, oldest, first>>

-----------------------------------------------------------------------------

WatcherStep(w) ==
    \/ OpenStream(w) \/ FetchChanges(w) \/ HandleChange(w) \/ SaveToken(w)
    \/ ClearToken(w) \/ BackfillScan(w) \/ BulkIndex(w)

Disturbance(w) == StreamBreaks(w) \/ StopInChange(w)

Next ==
    \/ \E d \in Docs : ChangeDoc(d) \/ DeleteDoc(d)
    \/ OplogRolls
    \/ \E w \in Watchers : \/ StartWatcher(w) \/ KillWatcher(w)
                           \/ WatcherStep(w) \/ Disturbance(w)
    \/ RunBackfill \/ BackfillScan(Operator) \/ BulkIndex(Operator)

Spec == Init /\ [][Next]_vars

\* An instance is kept running (min_instances = 1 and the liveness probe), and
\* its task goes on.
FairSpec ==
    /\ Spec
    /\ \A w \in Watchers : /\ WF_vars(WatcherStep(w))
                           /\ WF_vars(StartWatcher(w))
                           /\ WF_vars(At(w, "dead") /\ KillWatcher(w))

-----------------------------------------------------------------------------
(* Safety *)

Change == [doc : Docs, full : Nat]

Proc == [pc : {"down", "closed", "stream", "handled", "lost", "scan", "bulk", "dead"},
         pos : Nat, buffer : Seq(Change), copy : [Docs -> Nat], alone : BOOLEAN]

\* Every variable has its type, and no version is from the future.
TypeOK ==
    /\ log \in Seq([doc : Docs, op : Ops]) /\ gone \subseteq Docs
    /\ index \in [Docs -> 0 .. Len(log)]
    /\ {token, first} \subseteq {None} \cup 0 .. Len(log)
    /\ oldest \in 0 .. Len(log)
    /\ proc \in [Procs -> Proc]
    /\ \A w \in Procs : proc[w].pos \in 0 .. Len(log)
    /\ doubtful \subseteq Docs /\ skipped \subseteq Docs
    /\ faults \in 0 .. MaxFaults

\* The position from which instance w goes on in its stream.
Resume(w) == IF At(w, "handled") THEN Handled(w) ELSE proc[w].pos

Streaming == {w \in Watchers : At(w, "stream") \/ At(w, "handled")}

\* Every open stream has the last change of d ahead, and so has the saved token,
\* from which the others go on; until one is saved, a stream has to be open.
Ahead(d) ==
    /\ \A w \in Streaming : Resume(w) < Version(d)
    /\ IF token = None THEN Streaming # {} ELSE token < Version(d)

\* Nobody follows the collection and there is no position to go on from: before the
\* first start, after the end of an instance that had handled no change yet, and from
\* the loss of the oplog to the opening of the next stream.
Unfollowed == token = None /\ Streaming = {}

\* An entry is behind its document only while the document's last change is still
\* ahead of everybody, or nobody follows; or when a failed request, a shutdown or an
\* instance that ran next to another one has left it behind, or a stream that was
\* opened anew without a token.  Crashes, reconnects, replays and batches leave
\* nothing else behind.
StaleMeansPending ==
    \A d \in Behind : Ahead(d) \/ Unfollowed \/ d \in doubtful \cup skipped

-----------------------------------------------------------------------------
(* Refinement and liveness *)

Versions(d) == {0} \cup {i \in DOMAIN log : log[i].doc = d}

\* The last version since the first stream that the saved position has passed.
Passed(d) == Max({v \in Versions(d) : v = 0 \/ v \in first + 1 .. token})

Promise == INSTANCE SearchIndex WITH
    versions <- [d \in Docs |-> Versions(d)], passed <- [d \in Docs |-> Passed(d)],
    entry <- index, excused <- doubtful \cup skipped

\* The worker implements the promise: an entry may go back to an older version of its
\* document, with a replay or a batch, but not to one from before the saved token.
IndexPromise == Promise!Spec

\* Under FairSpec every entry catches up with its document, unless a failure has put it
\* in doubt or a stream opened without a token has skipped it.
IndexConverges == \A d \in Docs : []<>(d \notin Behind \/ d \in doubtful \cup skipped)

=============================================================================
