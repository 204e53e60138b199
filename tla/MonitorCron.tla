----------------------------- MODULE MonitorCron -----------------------------
(***************************************************************************)
(* The price monitor: the sweep that Cloud Scheduler starts every quarter  *)
(* of an hour, which checks the monitored purchases that are due, stores a *)
(* claim shell for an eligible price drop and publishes price.dropped.     *)
(*                                                                         *)
(* A sweep works on the list it read when it started and on the time of    *)
(* that moment.  Meanwhile the user may stop a purchase or set its product *)
(* URL, the handler of purchase.ingested may resolve that URL, the claim   *)
(* components write the claims, and the scheduler's retry may start a      *)
(* second sweep.  A clock counts units of time; what happens within one    *)
(* unit has the same timestamp.                                            *)
(***************************************************************************)
EXTENDS Integers, Sequences, FiniteSets

CONSTANTS
    Purchases,
    Live,          \* those whose platform is scraped through a product URL
    Covered,       \* those whose policy and member tier allow a claim
    Sweeps,        \* concurrent requests for /cron
    Window,        \* purchase.window_expires
    Short, Mid, Long,  \* the cadence ladder of cadence.py
    Day, Week,     \* ... and the distances to the window at which it changes
    Dedup,         \* _DEDUP_WINDOW
    Punctual,      \* whether every sweep starts and ends on time
    MaxLag,        \* bound: how long a sweep that is not punctual may take
    Horizon,       \* bound: where the clock stops
    MaxDrops,      \* bound: price drops of a purchase
    Budget,        \* bound: how often the others act
    FaultKinds,    \* which failures the environment produces
    MaxFaults      \* bound: how many failures in a behaviour

Others    == {"stop", "url", "ingested", "touch"}
AllFaults == {"crash", "write", "fetch", "publish", "raise"}

ASSUME LadderAssumption ==
    /\ {Short, Mid, Long, Day, Week, Dedup} \subseteq Nat
    /\ 0 < Short /\ Short < Mid /\ Mid < Long
    /\ Day <= Week

ASSUME InstanceAssumption ==
    /\ Live \subseteq Purchases /\ Covered \subseteq Purchases
    /\ "none" \notin Purchases
    /\ IsFiniteSet(Sweeps)
    /\ Window \in [Purchases -> Nat]
    /\ Punctual \in BOOLEAN
    /\ {MaxLag, Horizon, MaxDrops, MaxFaults} \subseteq Nat
    /\ Budget \in [Others -> Nat]
    /\ FaultKinds \subseteq AllFaults

VARIABLES
    purchase,   \* the purchase documents
    claims,     \* the claims the monitor stored, oldest first
    history,    \* price_history: the drops for which a row was inserted
    sweep,      \* what each sweep is doing
    handling,   \* requests of others that have loaded a purchase
    price,      \* what the shop charges: the current drop and when it began
    clock,
    swept,      \* when the last sweep started
    stopped,    \* history: when the user stopped the purchase
    left,       \* bound: what the others may still do
    faults      \* bound: failures so far

vars == <<purchase, claims, history, sweep, handling, price, clock, swept,
          stopped, left, faults>>

Never == -1

Purchase == [status  : {"monitoring", "dismissed", "expired"},
             cadence : {Short, Mid, Long},
             checked : Nat \cup {Never},
             error   : {"none", "missing_url", "adapter"},
             url     : {"none", "user", "found"}]

\* by is the time of the sweep that stored the claim, at the time it did so.
Claim == [p : Purchases, drop : Nat, by : Nat, at : Nat, updated : Nat,
          event : BOOLEAN]

\* What a slot holds for a purchase that its sweep does not list.
Blank == [status |-> "expired", cadence |-> Long, checked |-> Never,
          error |-> "none", url |-> "none"]

Idle == [pc |-> "idle", now |-> 0, todo |-> {}, copy |-> [p \in Purchases |-> Blank],
         cur |-> "none", seen |-> 0, claim |-> 0]

\* Confirmed purchases that were never checked; the user may have given a URL,
\* which only matters to the live platforms.
Init ==
    /\ purchase \in [Purchases -> {[status |-> "monitoring", cadence |-> Long,
                                    checked |-> Never, error |-> "none",
                                    url |-> u] : u \in {"none", "user"}}]
    /\ \A p \in Purchases \ Live : purchase[p].url = "none"
    /\ claims = <<>>
    /\ history = {}
    /\ sweep = [s \in Sweeps |-> Idle]
    /\ handling = {}
    /\ price = [p \in Purchases |-> [drop |-> 0, drops |-> 0, since |-> 0]]
    /\ clock = 0
    /\ swept = Never
    /\ stopped = [p \in Purchases |-> Never]
    /\ left = Budget
    /\ faults = 0

-----------------------------------------------------------------------------
(* Helpers *)

At(s, step) == sweep[s].pc = step

Goto(s, step) == sweep' = [sweep EXCEPT ![s].pc = step]

Copied(s)  == sweep[s].copy[sweep[s].cur]
Current(s) == sweep[s].cur

\* The sweep is done with p: it looks at the next purchase of its list, or ends.
Without(me, p) ==
    [me EXCEPT !.pc = "next", !.todo = @ \ {p}, !.copy[p] = Blank,
               !.cur = "none", !.seen = 0, !.claim = 0]

Done(s, p) ==
    sweep' = [sweep EXCEPT ![s] = IF @.todo = {p} THEN Idle ELSE Without(@, p)]

Fault(kind) == kind \in FaultKinds /\ faults < MaxFaults /\ faults' = faults + 1

Acts(who) == left[who] > 0 /\ left' = [left EXCEPT ![who] = @ - 1]

\* Mutant: the time that is left, without the ladder.
RemainingTime(expires, now) == expires - now

\* compute_target_cadence_minutes
TargetCadence(expires, now) ==
    CASE expires - now < Day   -> Short
      [] expires - now \in Day .. Week -> Mid
      [] OTHER                 -> Long

\* Mutant: the cadence that was stored, not the one that fits the window.
IsDueStored(d, cadence, now) == d.checked = Never \/ now - d.checked >= d.cadence

IsDue(d, cadence, now) == d.checked = Never \/ now - d.checked >= cadence

-----------------------------------------------------------------------------
(* run_cron: the scan and the decision what to do with each purchase *)

\* Mutant: every purchase that has not expired is listed.
ListedUnlessExpired == {p \in Purchases : purchase[p].status # "expired"}

Listed == {p \in Purchases : purchase[p].status = "monitoring"}

StartSweep(s) ==
    /\ At(s, "idle")
    /\ sweep' = IF Listed = {} THEN sweep ELSE [sweep EXCEPT ![s] =
                   [Idle EXCEPT !.pc = "next", !.now = clock, !.todo = Listed,
                                !.copy = [p \in Purchases |->
                                            IF p \in Listed THEN purchase[p] ELSE Blank]]]
    /\ swept' = clock
    /\ UNCHANGED <<purchase, claims, history, handling, price, clock, stopped, left, faults>>

\* Mutant: the closed window is skipped and the status stays.
NotFlipped(d) == d

Flipped(d) == [d EXCEPT !.status = "expired"]

ExpirePurchase(s, p) ==
    /\ At(s, "next") /\ p \in sweep[s].todo
    /\ Window[p] <= sweep[s].now
    /\ \/ purchase' = [purchase EXCEPT ![p] = Flipped(@)] /\ UNCHANGED faults
       \/ Fault("write") /\ UNCHANGED purchase
    /\ Done(s, p)
    /\ UNCHANGED <<claims, history, handling, price, clock, swept, stopped, left>>

\* The cadence is written when it drifted; a purchase that is due is taken up.
CheckIfDue(s, p) ==
    LET me     == sweep[s]
        target == TargetCadence(Window[p], me.now)
        drift  == target # me.copy[p].cadence
    IN
    /\ At(s, "next") /\ p \in me.todo
    /\ Window[p] > me.now
    /\ \/ /\ purchase' = IF drift THEN [purchase EXCEPT ![p].cadence = target] ELSE purchase
          /\ IF IsDue(me.copy[p], target, me.now)
             THEN sweep' = [sweep EXCEPT ![s].cur = p, ![s].pc =
                              IF p \in Live /\ me.copy[p].url = "none"
                              THEN "resolve" ELSE "fetch"]
             ELSE Done(s, p)
          /\ UNCHANGED faults
       \/ drift /\ Fault("write") /\ Done(s, p) /\ UNCHANGED purchase
    /\ UNCHANGED <<claims, history, handling, price, clock, swept, stopped, left>>

-----------------------------------------------------------------------------
(* run_cron: one purchase that is due *)

Resolved(d) == [d EXCEPT !.url = "found", !.error = "none"]

\* The lazy resolution; whatever goes wrong in it is swallowed.
ResolveUrl(s) ==
    /\ At(s, "resolve")
    /\ \/ /\ purchase' = [purchase EXCEPT ![Current(s)] = Resolved(@)]
          /\ sweep' = [sweep EXCEPT ![s].pc = "fetch",
                                    ![s].copy[Current(s)].url = "found"]
       \/ Goto(s, "fetch") /\ UNCHANGED purchase
    /\ UNCHANGED <<claims, history, handling, price, clock, swept, stopped, left, faults>>

UrlMissing(s) == Current(s) \in Live /\ Copied(s).url = "none"

FetchFails(s) ==
    /\ At(s, "fetch")
    /\ IF UrlMissing(s) THEN UNCHANGED faults ELSE Fault("fetch")
    /\ Goto(s, "error")
    /\ UNCHANGED <<purchase, claims, history, handling, price, clock, swept, stopped, left>>

\* After a successful fetch: clear a stale error, compare, decide.
AfterFetch(s, drop) ==
    CASE Copied(s).error # "none"                 -> "clear"
      [] drop # 0 /\ Current(s) \in Covered -> "dedup"
      [] OTHER                                    -> "checked"

Fetch(s) ==
    LET drop == price[Current(s)].drop IN
    /\ At(s, "fetch") /\ ~UrlMissing(s)
    /\ sweep' = [sweep EXCEPT ![s].seen = drop, ![s].pc =
                   IF Current(s) \in Live THEN "history" ELSE AfterFetch(s, drop)]
    /\ UNCHANGED <<purchase, claims, history, handling, price, clock, swept,
                   stopped, left, faults>>

\* Mutant: the live adapters' source is not a member of PriceSource either.
NoRows(p, drop) == {}

Rows(p, drop) == IF drop = 0 THEN {} ELSE {<<p, drop>>}

\* Only the sources of the live adapters are members of PriceSource.
PersistPriceHistory(s) ==
    /\ At(s, "history")
    /\ history' = history \cup Rows(Current(s), sweep[s].seen)
    /\ Goto(s, AfterFetch(s, sweep[s].seen))
    /\ UNCHANGED <<purchase, claims, handling, price, clock, swept, stopped, left, faults>>

ClearError(s) ==
    /\ At(s, "clear")
    /\ \/ purchase' = [purchase EXCEPT ![Current(s)].error = "none"] /\ UNCHANGED faults
       \/ Fault("write") /\ UNCHANGED purchase
    /\ Goto(s, IF sweep[s].seen # 0 /\ Current(s) \in Covered THEN "dedup" ELSE "checked")
    /\ UNCHANGED <<claims, history, handling, price, clock, swept, stopped, left>>

RecordError(s) ==
    /\ At(s, "error")
    /\ \/ /\ purchase' = [purchase EXCEPT ![Current(s)].error =
                            IF UrlMissing(s) THEN "missing_url" ELSE "adapter"]
          /\ UNCHANGED faults
       \/ Fault("write") /\ UNCHANGED purchase
    /\ Goto(s, "checked")
    /\ UNCHANGED <<claims, history, handling, price, clock, swept, stopped, left>>

\* Mutant: the finally clause rewrites the document from the copy.
CheckedWhole(d, old, now) == [old EXCEPT !.checked = now]

Checked(d, old, now) == [d EXCEPT !.checked = now]

\* The finally clause: the time of the sweep, after a failure too.
MarkChecked(s) ==
    /\ At(s, "checked")
    /\ \/ /\ purchase' = [purchase EXCEPT ![Current(s)] =
                            Checked(@, Copied(s), sweep[s].now)]
          /\ UNCHANGED faults
       \/ Fault("write") /\ UNCHANGED purchase
    /\ Done(s, Current(s))
    /\ UNCHANGED <<claims, history, handling, price, clock, swept, stopped, left>>

\* Any other exception in the try block.
CheckRaises(s) ==
    /\ sweep[s].pc \in {"fetch", "history", "dedup", "store"}
    /\ Fault("raise")
    /\ Goto(s, "checked")
    /\ UNCHANGED <<purchase, claims, history, handling, price, clock, swept, stopped, left>>

-----------------------------------------------------------------------------
(* _handle_eligible_drop *)

ClaimsOf(p) == {i \in DOMAIN claims : claims[i].p = p}

\* Mutants: the first claim in place of the last; a claim of any age.
OldestIsRecent(p, now) ==
    \E i \in ClaimsOf(p) : /\ claims[i].updated >= now - Dedup
                           /\ \A j \in ClaimsOf(p) : claims[i].updated <= claims[j].updated
EverClaimed(p, now) == ClaimsOf(p) # {}

\* The claim that was updated last is within the window.
RecentlyClaimed(p, now) ==
    \E i \in ClaimsOf(p) : claims[i].updated >= now - Dedup

CheckDedup(s) ==
    /\ At(s, "dedup")
    /\ Goto(s, IF RecentlyClaimed(Current(s), sweep[s].now) THEN "checked" ELSE "store")
    /\ UNCHANGED <<purchase, claims, history, handling, price, clock, swept,
                   stopped, left, faults>>

StoreShell(s) ==
    /\ At(s, "store")
    /\ claims' = Append(claims, [p |-> Current(s), drop |-> sweep[s].seen,
                                 by |-> sweep[s].now, at |-> clock,
                                 updated |-> clock, event |-> FALSE])
    /\ sweep' = [sweep EXCEPT ![s].pc = "publish", ![s].claim = Len(claims) + 1]
    /\ UNCHANGED <<purchase, history, handling, price, clock, swept, stopped, left, faults>>

\* A publish that raises leaves the shell; the broker may have the event.
PublishDrop(s) ==
    LET announced == [claims EXCEPT ![sweep[s].claim].event = TRUE] IN
    /\ At(s, "publish")
    /\ \/ claims' = announced /\ UNCHANGED faults
       \/ Fault("publish") /\ claims' \in {claims, announced}
    /\ Goto(s, "checked")
    /\ UNCHANGED <<purchase, history, handling, price, clock, swept, stopped, left>>

-----------------------------------------------------------------------------
(* The other writers *)

\* stop_monitoring loads the purchase and tests its status ...
StopLoad(p) ==
    /\ purchase[p].status = "monitoring"
    /\ <<"stop", p>> \notin handling
    /\ Acts("stop")
    /\ handling' = handling \cup {<<"stop", p>>}
    /\ UNCHANGED <<purchase, claims, history, sweep, price, clock, swept, stopped, faults>>

\* ... and writes by _id: what expired in between is dismissed all the same.
StopWrite(p) ==
    /\ <<"stop", p>> \in handling
    /\ handling' = handling \ {<<"stop", p>>}
    /\ purchase' = [purchase EXCEPT ![p].status = "dismissed"]
    /\ stopped' = [stopped EXCEPT ![p] = clock]
    /\ UNCHANGED <<claims, history, sweep, price, clock, swept, left, faults>>

\* update_purchase_product_url, whatever the status.
UpdateProductUrl(p) ==
    /\ Acts("url")
    /\ \E u \in {"none", "user"} :
         purchase' = [purchase EXCEPT ![p].url = u, ![p].error = "none"]
    /\ UNCHANGED <<claims, history, sweep, handling, price, clock, swept, stopped, faults>>

\* handle_purchase_ingested: load and gate; a valid URL is left alone ...
ReceiveIngested(p) ==
    /\ p \in Live /\ <<"ingested", p>> \notin handling
    /\ purchase[p].status = "monitoring" /\ purchase[p].url = "none"
    /\ Acts("ingested")
    /\ handling' = handling \cup {<<"ingested", p>>}
    /\ UNCHANGED <<purchase, claims, history, sweep, price, clock, swept, stopped, faults>>

\* ... and write what the search found, if it found anything.
ResolveIngested(p) ==
    /\ <<"ingested", p>> \in handling
    /\ handling' = handling \ {<<"ingested", p>>}
    /\ \/ purchase' = [purchase EXCEPT ![p] = Resolved(@)]
       \/ UNCHANGED purchase
    /\ UNCHANGED <<claims, history, sweep, price, clock, swept, stopped, left, faults>>

\* Any write to a claim by the claim components moves its updated_at.
TouchClaim(i) ==
    /\ Acts("touch")
    /\ claims' = [claims EXCEPT ![i].updated = clock]
    /\ UNCHANGED <<purchase, history, sweep, handling, price, clock, swept, stopped, faults>>

-----------------------------------------------------------------------------
(* The environment *)

DropBegins(p) ==
    /\ price[p].drop = 0 /\ price[p].drops < MaxDrops
    /\ price' = [price EXCEPT ![p] = [drop |-> @.drops + 1, drops |-> @.drops + 1,
                                      since |-> clock]]
    /\ UNCHANGED <<purchase, claims, history, sweep, handling, clock, swept,
                   stopped, left, faults>>

DropEnds(p) ==
    /\ price[p].drop # 0
    /\ price' = [price EXCEPT ![p].drop = 0]
    /\ UNCHANGED <<purchase, claims, history, sweep, handling, clock, swept,
                   stopped, left, faults>>

Tick ==
    /\ clock < Horizon
    /\ IF Punctual
       THEN swept = clock /\ \A s \in Sweeps : At(s, "idle")
       ELSE \A s \in Sweeps : At(s, "idle") \/ clock - sweep[s].now < MaxLag
    /\ clock' = clock + 1
    /\ UNCHANGED <<purchase, claims, history, sweep, handling, price, swept,
                   stopped, left, faults>>

\* The instance dies in the middle of a sweep; nothing resumes it.
Crash(s) ==
    /\ ~At(s, "idle")
    /\ Fault("crash")
    /\ sweep' = [sweep EXCEPT ![s] = Idle]
    /\ UNCHANGED <<purchase, claims, history, handling, price, clock, swept, stopped, left>>

-----------------------------------------------------------------------------

SweepStep(s) ==
    \/ \E p \in Purchases : ExpirePurchase(s, p) \/ CheckIfDue(s, p)
    \/ ResolveUrl(s) \/ FetchFails(s) \/ Fetch(s) \/ PersistPriceHistory(s)
    \/ ClearError(s) \/ RecordError(s) \/ MarkChecked(s) \/ CheckRaises(s)
    \/ CheckDedup(s) \/ StoreShell(s) \/ PublishDrop(s)

OtherStep ==
    \/ \E p \in Purchases : \/ StopLoad(p) \/ StopWrite(p) \/ UpdateProductUrl(p)
                            \/ ReceiveIngested(p) \/ ResolveIngested(p)
    \/ \E i \in DOMAIN claims : TouchClaim(i)

Environment ==
    \/ \E p \in Purchases : DropBegins(p) \/ DropEnds(p)
    \/ Tick
    \/ \E s \in Sweeps : Crash(s)

Next ==
    \/ \E s \in Sweeps : StartSweep(s) \/ SweepStep(s)
    \/ OtherStep
    \/ Environment

Spec == Init /\ [][Next]_vars

\* The scheduler keeps starting sweeps, a sweep goes on, time passes.
FairSpec ==
    /\ Spec
    /\ \A s \in Sweeps : WF_vars(StartSweep(s)) /\ WF_vars(SweepStep(s))
    /\ WF_vars(Tick)

-----------------------------------------------------------------------------
(* Safety *)

Steps == {"idle", "next", "resolve", "fetch", "history", "clear", "error",
          "dedup", "store", "publish", "checked"}

Sweep == [pc : Steps, now : Nat, todo : SUBSET Purchases,
          copy : [Purchases -> Purchase], cur : Purchases \cup {"none"},
          seen : Nat, claim : Nat]

\* A sweep past its scan has a purchase in hand, one about to publish a claim.
InHand(s) ==
    /\ sweep[s].pc \notin {"idle", "next"} => sweep[s].cur \in Purchases
    /\ At(s, "publish") => sweep[s].claim \in DOMAIN claims

\* Every variable has its type.
TypeOK ==
    /\ purchase \in [Purchases -> Purchase]
    /\ claims \in Seq(Claim)
    /\ history \subseteq Purchases \X Nat
    /\ sweep \in [Sweeps -> Sweep]
    /\ \A s \in Sweeps : InHand(s)
    /\ handling \subseteq {"stop", "ingested"} \X Purchases
    /\ price \in [Purchases -> [drop : Nat, drops : Nat, since : Nat]]
    /\ clock \in Nat
    /\ swept \in Nat \cup {Never}
    /\ stopped \in [Purchases -> Nat \cup {Never}]
    /\ left \in [Others -> Nat]
    /\ faults \in 0 .. MaxFaults

\* Within one de-duplication window a purchase gets at most one claim for each
\* sweep that runs at the same time, so one when sweeps do not overlap,
\* whatever crashes and whoever else writes the claims.
OneClaimPerRunningSweep ==
    \A j \in DOMAIN claims :
        Cardinality({i \in ClaimsOf(claims[j].p) :
                       claims[i].at \in claims[j].at - Dedup .. claims[j].at})
            <= Cardinality(Sweeps)

\* A stop takes effect with the next sweep: no claim is stored for the purchase
\* by a sweep that started later.
StopTakesEffect ==
    \A i \in DOMAIN claims : stopped[claims[i].p] # Never =>
                                claims[i].by <= stopped[claims[i].p]

\* No sweep that still holds the purchase as monitored brings a stopped one
\* back.
StoppedStaysOff ==
    [][\A p \in Purchases : purchase[p].status = "dismissed" =>
                              purchase'[p].status # "monitoring"]_vars

\* The claim of a live platform is backed by the price-history row of the drop.
ClaimIsDocumented ==
    \A i \in DOMAIN claims : claims[i].p \in Live =>
                                <<claims[i].p, claims[i].drop>> \in history

\* When sweeps are punctual, no monitored purchase goes unchecked for longer
\* than the cadence of what is left of its window, although the cadence that is
\* stored changes only when a sweep passes.
ChecksKeepUp ==
    (swept = clock /\ \A s \in Sweeps : At(s, "idle")) =>
        \A p \in Purchases : purchase[p].status = "monitoring" =>
            /\ clock < Window[p]
            /\ purchase[p].checked # Never
            /\ clock - purchase[p].checked < TargetCadence(Window[p], clock)

\* A check that finds a lasting drop leaves the purchase with a claim that was
\* current at that check, unless the check failed: de-duplication suppresses a
\* claim only in favour of a current one.
CheckedDropHasClaim ==
    \A p \in Covered \ Live :
        (price[p].drop # 0 /\ price[p].since < purchase[p].checked) =>
            \E i \in ClaimsOf(p) : claims[i].updated >= purchase[p].checked - Dedup

-----------------------------------------------------------------------------
(* Liveness, under FairSpec *)

\* A purchase whose window has closed leaves monitoring, although the write
\* that says so may fail and sweeps may die.
ClosedWindowLeaves ==
    \A p \in Purchases : clock >= Window[p] ~> purchase[p].status # "monitoring"

-----------------------------------------------------------------------------
(* What the repository says and the code does not do *)

\* cron.py says the claim agent needs only one event per drop event and that
\* the de-duplication window provides it.
OneEventPerDrop ==
    \A i, j \in DOMAIN claims :
        (/\ claims[i].p = claims[j].p /\ claims[i].drop = claims[j].drop
         /\ claims[i].event /\ claims[j].event) => i = j

=============================================================================
