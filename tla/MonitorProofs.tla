---------------------------- MODULE MonitorProofs ----------------------------
(***************************************************************************)
(* Theorems about MonitorCron, for any purchases, windows, cadence ladder, *)
(* sweeps that overlap in any way, and failures: that a stop takes effect  *)
(* and lasts (StoppedStays, StopHolds), that claims are documented         *)
(* (ClaimsDocumented) and few (OneClaimPerSlot); that a lasting drop has   *)
(* one, if no check fails (CheckedDropsAreClaimed), and that checks keep   *)
(* to the cadence, if sweeps are punctual and do not die (ChecksAreInTime).*)
(***************************************************************************)
EXTENDS MonitorCron, FiniteSetTheorems, TLAPS

-----------------------------------------------------------------------------
(* Types *)

\* A blank copy is a purchase, an idle slot is a sweep.
LEMMA IdleType == Blank \in Purchase /\ Idle \in Sweep
    <1>1. Blank \in Purchase
        BY DEF Blank, Purchase, Never
    <1>2. [p \in Purchases |-> Blank] \in [Purchases -> Purchase]
        BY <1>1
    <1>3. QED
        BY <1>1, <1>2 DEF Idle, Sweep, Steps

\* The ladder has three rungs.
LEMMA LadderType ==
    ASSUME NEW expires \in Nat, NEW now \in Nat
    PROVE  TargetCadence(expires, now) \in {Short, Mid, Long}
    BY DEF TargetCadence

\* A write of one field with a value of its type leaves a purchase a purchase.
LEMMA WriteType ==
    ASSUME NEW d \in Purchase
    PROVE  /\ Flipped(d) \in Purchase
           /\ Resolved(d) \in Purchase
           /\ [d EXCEPT !.status = "dismissed"] \in Purchase
           /\ \A c \in {Short, Mid, Long} : [d EXCEPT !.cadence = c] \in Purchase
           /\ \A e \in {"none", "missing_url", "adapter"} :
                [d EXCEPT !.error = e] \in Purchase
           /\ \A u \in {"none", "user", "found"} :
                [d EXCEPT !.url = u, !.error = "none"] \in Purchase
           /\ \A old, now \in Nat : Checked(d, old, now) \in Purchase
    BY DEF Flipped, Resolved, Checked, Purchase

\* Moving on within a check keeps the sweeps typed, and whatever has a purchase
\* in hand keeps it.
LEMMA GotoType ==
    ASSUME TypeOK, NEW s \in Sweeps, sweep[s].pc \notin {"idle", "next"},
           NEW step \in Steps \ {"publish"}, Goto(s, step),
           DOMAIN claims \subseteq DOMAIN claims'
    PROVE  /\ sweep' \in [Sweeps -> Sweep]
           /\ \A r \in Sweeps : InHand(r)'
    <1>1. sweep[s] \in Sweep
        BY DEF TypeOK
    <1>2. [sweep[s] EXCEPT !.pc = step] \in Sweep
        BY <1>1 DEF Sweep
    <1>3. sweep' = [sweep EXCEPT ![s] = [sweep[s] EXCEPT !.pc = step]]
        BY DEF Goto
    <1>4. sweep' \in [Sweeps -> Sweep]
        BY <1>2, <1>3 DEF TypeOK
    <1>5. ASSUME NEW r \in Sweeps
          PROVE  InHand(r)'
        <2>1. CASE r = s
            <3>1. sweep'[s].pc = step /\ sweep'[s].cur = sweep[s].cur
                BY <1>1, <1>3 DEF TypeOK, Sweep
            <3>2. QED
                BY <2>1, <3>1 DEF InHand, At, TypeOK
        <2>2. CASE r # s
            <3>1. sweep'[r] = sweep[r]
                BY <1>3, <2>2 DEF TypeOK
            <3>2. QED
                BY <3>1 DEF InHand, At, TypeOK
        <2>3. QED
            BY <2>1, <2>2
    <1>6. QED
        BY <1>4, <1>5

\* So does finishing with a purchase.
LEMMA DoneType ==
    ASSUME TypeOK, NEW s \in Sweeps, NEW p \in Purchases, Done(s, p), UNCHANGED claims
    PROVE  /\ sweep' \in [Sweeps -> Sweep]
           /\ \A r \in Sweeps : InHand(r)'
    <1>1. sweep[s] \in Sweep
        BY DEF TypeOK
    <1>2. Without(sweep[s], p) \in Sweep
        BY <1>1, IdleType DEF Without, Sweep, Steps
    <1>3. Without(sweep[s], p).pc = "next"
        BY <1>1 DEF Without, Sweep
    <1>4. Idle.pc = "idle"
        BY DEF Idle
    <1>5. PICK new \in {Idle, Without(sweep[s], p)} : sweep' = [sweep EXCEPT ![s] = new]
        BY DEF Done
    <1>6. new \in Sweep /\ new.pc \in {"idle", "next"}
        BY <1>2, <1>3, <1>4, <1>5, IdleType
    <1>7. sweep' \in [Sweeps -> Sweep]
        BY <1>5, <1>6 DEF TypeOK
    <1>8. ASSUME NEW r \in Sweeps
          PROVE  InHand(r)'
        <2>1. CASE r = s
            <3>1. sweep'[s] = new
                BY <1>5 DEF TypeOK
            <3>2. QED
                BY <1>6, <2>1, <3>1 DEF InHand, At
        <2>2. CASE r # s
            <3>1. sweep'[r] = sweep[r]
                BY <1>5, <2>2 DEF TypeOK
            <3>2. QED
                BY <3>1 DEF InHand, At, TypeOK
        <2>3. QED
            BY <2>1, <2>2
    <1>9. QED
        BY <1>7, <1>8

\* A step that leaves sweeps alone leaves what they have in hand alone.
LEMMA HandsKept ==
    ASSUME TypeOK, UNCHANGED sweep, DOMAIN claims \subseteq DOMAIN claims'
    PROVE  \A r \in Sweeps : InHand(r)'
    BY DEF InHand, At, TypeOK

\* A failure is counted only below the bound.
LEMMA FaultType ==
    ASSUME TypeOK, NEW kind, Fault(kind) \/ UNCHANGED faults
    PROVE  faults' \in 0 .. MaxFaults
    BY InstanceAssumption DEF Fault, TypeOK

\* An action of the others keeps the budget natural.
LEMMA ActsType ==
    ASSUME TypeOK, NEW who \in Others, Acts(who)
    PROVE  left' \in [Others -> Nat]
    BY DEF Acts, TypeOK

\* What a sweep past its scan gives access to.
LEMMA SweepFields ==
    ASSUME TypeOK, NEW s \in Sweeps
    PROVE  /\ sweep[s] \in Sweep
           /\ sweep[s].now \in Nat /\ sweep[s].seen \in Nat
           /\ sweep[s].copy \in [Purchases -> Purchase]
           /\ sweep[s].pc \notin {"idle", "next"} =>
                /\ Current(s) \in Purchases
                /\ Copied(s) \in Purchase
                /\ purchase[Current(s)] \in Purchase
    BY DEF TypeOK, Sweep, InHand, Current, Copied

\* Every claim in the list is typed.
LEMMA ClaimFields ==
    ASSUME TypeOK, NEW i \in DOMAIN claims
    PROVE  claims[i] \in Claim
    BY DEF TypeOK

\* The initial state is well typed.
LEMMA InitTypeOK == Init => TypeOK
<1> SUFFICES ASSUME Init PROVE TypeOK
    OBVIOUS
<1>1. purchase \in [Purchases -> Purchase]
    <2>1. ASSUME NEW u \in {"none", "user"}
          PROVE  [status |-> "monitoring", cadence |-> Long, checked |-> Never,
                  error |-> "none", url |-> u] \in Purchase
        BY DEF Purchase, Never
    <2>2. QED
        BY <2>1 DEF Init
<1>2. sweep \in [Sweeps -> Sweep] /\ \A s \in Sweeps : InHand(s)
    BY IdleType DEF Init, InHand, At, Idle
<1>3. claims \in Seq(Claim)
    BY DEF Init
<1>4. QED
    BY <1>1, <1>2, <1>3, InstanceAssumption DEF Init, TypeOK, Never

\* Every step keeps the types: one case per action.
LEMMA StepTypeOK == TypeOK /\ [Next]_vars => TypeOK'
<1> SUFFICES ASSUME TypeOK, [Next]_vars PROVE TypeOK'
    OBVIOUS
<1>1. ASSUME NEW s \in Sweeps, StartSweep(s)
      PROVE  TypeOK'
    <2> DEFINE begun == [Idle EXCEPT !.pc = "next", !.now = clock, !.todo = Listed,
                           !.copy = [p \in Purchases |->
                                       IF p \in Listed THEN purchase[p] ELSE Blank]]
    <2>1. [p \in Purchases |-> IF p \in Listed THEN purchase[p] ELSE Blank]
              \in [Purchases -> Purchase]
        BY IdleType DEF TypeOK
    <2>2. begun \in Sweep /\ begun.pc = "next"
        BY <2>1, IdleType DEF Sweep, Steps, Listed, TypeOK
    <2>3. sweep' = sweep \/ sweep' = [sweep EXCEPT ![s] = begun]
        BY <1>1 DEF StartSweep
    <2> HIDE DEF begun
    <2>4. sweep' \in [Sweeps -> Sweep]
        BY <2>2, <2>3 DEF TypeOK
    <2>5. \A r \in Sweeps : InHand(r)'
        BY <1>1, <2>2, <2>3 DEF InHand, At, TypeOK, StartSweep
    <2>6. QED
        BY <1>1, <2>4, <2>5 DEF StartSweep, TypeOK
<1>2. ASSUME NEW s \in Sweeps, NEW p \in Purchases, ExpirePurchase(s, p)
      PROVE  TypeOK'
    <2>1. Flipped(purchase[p]) \in Purchase
        BY WriteType DEF TypeOK
    <2>2. purchase' \in [Purchases -> Purchase]
        BY <1>2, <2>1 DEF ExpirePurchase, TypeOK
    <2>3. sweep' \in [Sweeps -> Sweep] /\ \A r \in Sweeps : InHand(r)'
        BY <1>2, DoneType DEF ExpirePurchase
    <2>4. faults' \in 0 .. MaxFaults
        BY <1>2, FaultType DEF ExpirePurchase
    <2>5. QED
        BY <1>2, <2>2, <2>3, <2>4 DEF ExpirePurchase, TypeOK
<1>3. ASSUME NEW s \in Sweeps, NEW p \in Purchases, CheckIfDue(s, p)
      PROVE  TypeOK'
    <2> DEFINE target == TargetCadence(Window[p], sweep[s].now)
    <2>1. target \in {Short, Mid, Long}
        BY SweepFields, LadderType, InstanceAssumption
    <2> HIDE DEF target
    <2>2. purchase' \in [Purchases -> Purchase]
        <3>1. [purchase[p] EXCEPT !.cadence = target] \in Purchase
            BY <2>1, WriteType DEF TypeOK
        <3>2. purchase' = purchase \/ purchase' = [purchase EXCEPT ![p].cadence = target]
            BY <1>3 DEF CheckIfDue, target
        <3>3. QED
            BY <3>1, <3>2 DEF TypeOK
    <2>3. sweep' \in [Sweeps -> Sweep] /\ \A r \in Sweeps : InHand(r)'
        <3>1. CASE Done(s, p)
            BY <1>3, <3>1, DoneType DEF CheckIfDue
        <3>2. ASSUME NEW step \in {"resolve", "fetch"},
                     sweep' = [sweep EXCEPT ![s].cur = p, ![s].pc = step]
              PROVE  sweep' \in [Sweeps -> Sweep] /\ \A r \in Sweeps : InHand(r)'
            <4>1. [sweep[s] EXCEPT !.cur = p, !.pc = step] \in Sweep
                BY SweepFields DEF Sweep, Steps
            <4>2. sweep' = [sweep EXCEPT ![s] = [sweep[s] EXCEPT !.cur = p, !.pc = step]]
                BY <3>2 DEF TypeOK
            <4>3. sweep'[s].pc = step /\ sweep'[s].cur = p
                BY <4>2, SweepFields DEF TypeOK, Sweep
            <4>4. \A r \in Sweeps \ {s} : sweep'[r] = sweep[r]
                BY <4>2 DEF TypeOK
            <4>5. QED
                BY <1>3, <4>1, <4>2, <4>3, <4>4 DEF CheckIfDue, InHand, At, TypeOK
        <3>3. QED
            BY <1>3, <3>1, <3>2 DEF CheckIfDue
    <2>4. QED
        BY <1>3, <2>2, <2>3, FaultType DEF CheckIfDue, TypeOK
<1>4. ASSUME NEW s \in Sweeps, ResolveUrl(s)
      PROVE  TypeOK'
    <2>1. CASE Goto(s, "fetch") /\ UNCHANGED purchase
        BY <1>4, <2>1, GotoType DEF ResolveUrl, At, Steps, TypeOK
    <2>2. CASE /\ purchase' = [purchase EXCEPT ![Current(s)] = Resolved(@)]
               /\ sweep' = [sweep EXCEPT ![s].pc = "fetch",
                                         ![s].copy[Current(s)].url = "found"]
        <3> DEFINE found == [sweep[s] EXCEPT !.pc = "fetch",
                                             !.copy[Current(s)].url = "found"]
        <3>1. sweep[s].pc = "resolve"
            BY <1>4 DEF ResolveUrl, At
        <3>2. [Copied(s) EXCEPT !.url = "found"] \in Purchase
            BY <3>1, SweepFields DEF Purchase
        <3>3. [sweep[s].copy EXCEPT ![Current(s)].url = "found"]
                  \in [Purchases -> Purchase]
            BY <3>1, <3>2, SweepFields DEF Copied, Current
        <3>4. found \in Sweep /\ found.pc = "fetch" /\ found.cur = sweep[s].cur
            BY <3>3, SweepFields DEF Sweep, Steps
        <3>5. sweep' = [sweep EXCEPT ![s] = found]
            BY <2>2 DEF TypeOK
        <3> HIDE DEF found
        <3>6. sweep' \in [Sweeps -> Sweep]
            BY <3>4, <3>5 DEF TypeOK
        <3>7. ASSUME NEW r \in Sweeps
              PROVE  InHand(r)'
            BY <1>4, <3>1, <3>4, <3>5 DEF ResolveUrl, InHand, At, TypeOK
        <3>8. purchase' \in [Purchases -> Purchase]
            BY <2>2, <3>1, SweepFields, WriteType DEF TypeOK
        <3>9. QED
            BY <1>4, <3>6, <3>7, <3>8 DEF ResolveUrl, TypeOK
    <2>3. QED
        BY <1>4, <2>1, <2>2 DEF ResolveUrl
<1>5. ASSUME NEW s \in Sweeps, FetchFails(s) \/ CheckRaises(s)
      PROVE  TypeOK'
    BY <1>5, GotoType, FaultType DEF FetchFails, CheckRaises, At, Steps, TypeOK
<1>6. ASSUME NEW s \in Sweeps, Fetch(s)
      PROVE  TypeOK'
    <2> DEFINE drop == price[Current(s)].drop
               step == IF Current(s) \in Live THEN "history" ELSE AfterFetch(s, drop)
    <2>1. sweep[s].pc = "fetch"
        BY <1>6 DEF Fetch, At
    <2>2. drop \in Nat
        BY <2>1, SweepFields DEF TypeOK
    <2>3. step \in {"history", "clear", "dedup", "checked"}
        BY DEF AfterFetch
    <2>4. sweep' = [sweep EXCEPT ![s] = [sweep[s] EXCEPT !.seen = drop, !.pc = step]]
        BY <1>6 DEF Fetch, TypeOK
    <2> HIDE DEF drop, step
    <2>5. [sweep[s] EXCEPT !.seen = drop, !.pc = step] \in Sweep
        BY <2>2, <2>3, SweepFields DEF Sweep, Steps
    <2>6. sweep' \in [Sweeps -> Sweep]
        BY <2>4, <2>5 DEF TypeOK
    <2>7. sweep'[s].pc = step /\ sweep'[s].cur = sweep[s].cur
        BY <2>4, SweepFields DEF TypeOK, Sweep
    <2>8. \A r \in Sweeps \ {s} : sweep'[r] = sweep[r]
        BY <2>4 DEF TypeOK
    <2>9. \A r \in Sweeps : InHand(r)'
        BY <1>6, <2>1, <2>3, <2>7, <2>8 DEF Fetch, InHand, At, TypeOK
    <2>10. QED
        BY <1>6, <2>6, <2>9 DEF Fetch, TypeOK
<1>7. ASSUME NEW s \in Sweeps, PersistPriceHistory(s)
      PROVE  TypeOK'
    <2>1. sweep[s].pc = "history"
        BY <1>7 DEF PersistPriceHistory, At
    <2>2. AfterFetch(s, sweep[s].seen) \in Steps \ {"publish"}
        BY DEF AfterFetch, Steps
    <2>3. sweep' \in [Sweeps -> Sweep] /\ \A r \in Sweeps : InHand(r)'
        BY <1>7, <2>1, <2>2, GotoType DEF PersistPriceHistory
    <2>4. history' \subseteq Purchases \X Nat
        <3>1. <<Current(s), sweep[s].seen>> \in Purchases \X Nat
            BY <2>1, SweepFields
        <3>2. Rows(Current(s), sweep[s].seen) \subseteq Purchases \X Nat
            BY <3>1 DEF Rows
        <3>3. QED
            BY <1>7, <3>2 DEF PersistPriceHistory, TypeOK
    <2>5. QED
        BY <1>7, <2>3, <2>4 DEF PersistPriceHistory, TypeOK
<1>8. ASSUME NEW s \in Sweeps, ClearError(s) \/ RecordError(s)
      PROVE  TypeOK'
    <2>1. sweep[s].pc \notin {"idle", "next"}
        BY <1>8 DEF ClearError, RecordError, At
    <2>2. PICK step \in Steps \ {"publish"} : Goto(s, step)
        BY <1>8 DEF ClearError, RecordError, Steps
    <2>3. sweep' \in [Sweeps -> Sweep] /\ \A r \in Sweeps : InHand(r)'
        BY <1>8, <2>1, <2>2, GotoType DEF ClearError, RecordError
    <2>4. \A e \in {"none", "missing_url", "adapter"} :
            [purchase EXCEPT ![Current(s)].error = e] \in [Purchases -> Purchase]
        <3>1. \A e \in {"none", "missing_url", "adapter"} :
                [purchase[Current(s)] EXCEPT !.error = e] \in Purchase
            BY <2>1, SweepFields, WriteType
        <3>2. QED
            BY <2>1, <3>1, SweepFields DEF TypeOK
    <2>5. purchase' \in [Purchases -> Purchase]
        BY <1>8, <2>4 DEF ClearError, RecordError, TypeOK
    <2>6. QED
        BY <1>8, <2>3, <2>5, FaultType DEF ClearError, RecordError, TypeOK
<1>9. ASSUME NEW s \in Sweeps, MarkChecked(s)
      PROVE  TypeOK'
    <2>1. sweep[s].pc = "checked"
        BY <1>9 DEF MarkChecked, At
    <2>2. Checked(purchase[Current(s)], Copied(s), sweep[s].now) \in Purchase
        BY <2>1, SweepFields DEF Checked, Purchase
    <2>3. purchase' \in [Purchases -> Purchase]
        BY <1>9, <2>2 DEF MarkChecked, TypeOK
    <2>4. sweep' \in [Sweeps -> Sweep] /\ \A r \in Sweeps : InHand(r)'
        BY <1>9, <2>1, SweepFields, DoneType DEF MarkChecked
    <2>5. QED
        BY <1>9, <2>3, <2>4, FaultType DEF MarkChecked, TypeOK
<1>10. ASSUME NEW s \in Sweeps, CheckDedup(s)
       PROVE  TypeOK'
    <2>1. PICK step \in {"checked", "store"} : Goto(s, step)
        BY <1>10 DEF CheckDedup
    <2>2. QED
        BY <1>10, <2>1, GotoType DEF CheckDedup, At, Steps, TypeOK
<1>11. ASSUME NEW s \in Sweeps, StoreShell(s)
       PROVE  TypeOK'
    <2> DEFINE claim == [p |-> Current(s), drop |-> sweep[s].seen,
                         by |-> sweep[s].now, at |-> clock,
                         updated |-> clock, event |-> FALSE]
    <2>1. sweep[s].pc = "store"
        BY <1>11 DEF StoreShell, At
    <2>2. claim \in Claim
        BY <2>1, SweepFields DEF Claim, TypeOK
    <2>3. claims' = Append(claims, claim)
        BY <1>11 DEF StoreShell
    <2> HIDE DEF claim
    <2>4. /\ claims' \in Seq(Claim)
          /\ Len(claims) + 1 \in DOMAIN claims'
          /\ DOMAIN claims \subseteq DOMAIN claims'
          /\ Len(claims) + 1 \in Nat
        BY <2>2, <2>3 DEF TypeOK
    <2>5. sweep' = [sweep EXCEPT ![s] = [sweep[s] EXCEPT !.pc = "publish",
                                                         !.claim = Len(claims) + 1]]
        BY <1>11 DEF StoreShell, TypeOK
    <2>6. [sweep[s] EXCEPT !.pc = "publish", !.claim = Len(claims) + 1] \in Sweep
        BY <2>4, SweepFields DEF Sweep, Steps
    <2>7. sweep' \in [Sweeps -> Sweep]
        BY <2>5, <2>6 DEF TypeOK
    <2>8. /\ sweep'[s].cur = sweep[s].cur
          /\ sweep'[s].claim = Len(claims) + 1
        BY <2>5, SweepFields DEF TypeOK, Sweep
    <2>9. \A r \in Sweeps \ {s} : sweep'[r] = sweep[r]
        BY <2>5 DEF TypeOK
    <2>10. \A r \in Sweeps : InHand(r)'
        BY <2>1, <2>4, <2>8, <2>9 DEF InHand, At, TypeOK
    <2>11. QED
        BY <1>11, <2>4, <2>7, <2>10 DEF StoreShell, TypeOK
<1>12. ASSUME NEW s \in Sweeps, PublishDrop(s)
       PROVE  TypeOK'
    <2>1. sweep[s].pc = "publish" /\ sweep[s].claim \in DOMAIN claims
        BY <1>12 DEF PublishDrop, At, InHand, TypeOK
    <2>2. [claims[sweep[s].claim] EXCEPT !.event = TRUE] \in Claim
        BY <2>1, ClaimFields DEF Claim
    <2>3. /\ [claims EXCEPT ![sweep[s].claim].event = TRUE] \in Seq(Claim)
          /\ DOMAIN [claims EXCEPT ![sweep[s].claim].event = TRUE] = DOMAIN claims
        BY <2>1, <2>2 DEF TypeOK
    <2>4. claims' \in Seq(Claim) /\ DOMAIN claims' = DOMAIN claims
        BY <1>12, <2>3 DEF PublishDrop, TypeOK
    <2>5. sweep' \in [Sweeps -> Sweep] /\ \A r \in Sweeps : InHand(r)'
        BY <1>12, <2>1, <2>4, GotoType DEF PublishDrop, Steps
    <2>6. QED
        BY <1>12, <2>4, <2>5, FaultType DEF PublishDrop, TypeOK
<1>13. ASSUME NEW p \in Purchases, StopLoad(p) \/ ReceiveIngested(p)
       PROVE  TypeOK'
    <2>1. PICK who \in {"stop", "ingested"} :
            Acts(who) /\ handling' = handling \cup {<<who, p>>}
        BY <1>13 DEF StopLoad, ReceiveIngested
    <2>2. left' \in [Others -> Nat]
        BY <2>1, ActsType DEF Others
    <2>3. handling' \subseteq {"stop", "ingested"} \X Purchases
        BY <2>1 DEF TypeOK
    <2>4. UNCHANGED <<purchase, claims, history, sweep, price, clock, swept,
                      stopped, faults>>
        BY <1>13 DEF StopLoad, ReceiveIngested
    <2>5. QED
        BY <2>2, <2>3, <2>4, HandsKept DEF TypeOK
<1>14. ASSUME NEW p \in Purchases, StopWrite(p)
       PROVE  TypeOK'
    <2>1. [purchase[p] EXCEPT !.status = "dismissed"] \in Purchase
        BY WriteType DEF TypeOK
    <2>2. purchase' \in [Purchases -> Purchase]
        BY <1>14, <2>1 DEF StopWrite, TypeOK
    <2>3. QED
        BY <1>14, <2>2, HandsKept DEF StopWrite, TypeOK
<1>15. ASSUME NEW p \in Purchases, UpdateProductUrl(p)
       PROVE  TypeOK'
    <2>1. PICK u \in {"none", "user"} :
            purchase' = [purchase EXCEPT ![p].url = u, ![p].error = "none"]
        BY <1>15 DEF UpdateProductUrl
    <2>2. [purchase[p] EXCEPT !.url = u, !.error = "none"] \in Purchase
        BY WriteType DEF TypeOK
    <2>3. purchase' = [purchase EXCEPT ![p] = [purchase[p] EXCEPT !.url = u,
                                                                  !.error = "none"]]
        BY <2>1 DEF TypeOK
    <2>4. purchase' \in [Purchases -> Purchase]
        BY <2>2, <2>3 DEF TypeOK
    <2>5. QED
        BY <1>15, <2>4, HandsKept, ActsType DEF UpdateProductUrl, Others, TypeOK
<1>16. ASSUME NEW p \in Purchases, ResolveIngested(p)
       PROVE  TypeOK'
    <2>1. Resolved(purchase[p]) \in Purchase
        BY WriteType DEF TypeOK
    <2>2. purchase' \in [Purchases -> Purchase]
        BY <1>16, <2>1 DEF ResolveIngested, TypeOK
    <2>3. QED
        BY <1>16, <2>2, HandsKept DEF ResolveIngested, TypeOK
<1>17. ASSUME NEW i \in DOMAIN claims, TouchClaim(i)
       PROVE  TypeOK'
    <2>1. [claims[i] EXCEPT !.updated = clock] \in Claim
        BY <1>17, ClaimFields DEF Claim, TypeOK
    <2>2. /\ [claims EXCEPT ![i].updated = clock] \in Seq(Claim)
          /\ DOMAIN [claims EXCEPT ![i].updated = clock] = DOMAIN claims
        BY <2>1 DEF TypeOK
    <2>3. QED
        BY <1>17, <2>2, HandsKept, ActsType DEF TouchClaim, Others, TypeOK
<1>18. ASSUME NEW p \in Purchases, DropBegins(p) \/ DropEnds(p)
       PROVE  TypeOK'
    <2>1. price[p] \in [drop : Nat, drops : Nat, since : Nat] /\ clock \in Nat
        BY DEF TypeOK
    <2>2. PICK new \in [drop : Nat, drops : Nat, since : Nat] :
            price' = [price EXCEPT ![p] = new]
        <3>1. CASE DropBegins(p)
            <4>1. [drop |-> price[p].drops + 1, drops |-> price[p].drops + 1,
                   since |-> clock] \in [drop : Nat, drops : Nat, since : Nat]
                BY <2>1
            <4>2. QED
                BY <3>1, <4>1 DEF DropBegins
        <3>2. CASE DropEnds(p)
            <4>1. [price[p] EXCEPT !.drop = 0] \in [drop : Nat, drops : Nat, since : Nat]
                BY <2>1
            <4>2. price' = [price EXCEPT ![p] = [price[p] EXCEPT !.drop = 0]]
                BY <3>2 DEF DropEnds, TypeOK
            <4>3. QED
                BY <4>1, <4>2
        <3>3. QED
            BY <1>18, <3>1, <3>2
    <2>3. price' \in [Purchases -> [drop : Nat, drops : Nat, since : Nat]]
        BY <2>2 DEF TypeOK
    <2>4. UNCHANGED <<purchase, claims, history, sweep, handling, clock, swept,
                      stopped, left, faults>>
        BY <1>18 DEF DropBegins, DropEnds
    <2>5. QED
        BY <2>3, <2>4, HandsKept DEF TypeOK
<1>19. CASE Tick
    <2>1. clock' \in Nat
        BY <1>19 DEF Tick, TypeOK
    <2>2. UNCHANGED <<purchase, claims, history, sweep, handling, price, swept,
                      stopped, left, faults>>
        BY <1>19 DEF Tick
    <2>3. QED
        BY <2>1, <2>2, HandsKept DEF TypeOK
<1>20. ASSUME NEW s \in Sweeps, Crash(s)
       PROVE  TypeOK'
    <2>1. sweep' \in [Sweeps -> Sweep]
        BY <1>20, IdleType DEF Crash, TypeOK
    <2>2. \A r \in Sweeps : InHand(r)'
        BY <1>20 DEF Crash, InHand, At, Idle, TypeOK
    <2>3. QED
        BY <1>20, <2>1, <2>2, FaultType DEF Crash, TypeOK
<1>21. CASE UNCHANGED vars
    <2>1. \A r \in Sweeps : InHand(r)'
        BY <1>21, HandsKept DEF vars
    <2>2. QED
        BY <1>21, <2>1 DEF vars, TypeOK
<1>22. QED
    BY <1>1, <1>2, <1>3, <1>4, <1>5, <1>6, <1>7, <1>8, <1>9, <1>10, <1>11, <1>12,
       <1>13, <1>14, <1>15, <1>16, <1>17, <1>18, <1>19, <1>20, <1>21
       DEF Next, SweepStep, OtherStep, Environment

\* Every variable has its type in every reachable state: the cadence stays on
\* its ladder, a sweep past its scan always has a purchase in hand, and the
\* claim it publishes is one it stored.
THEOREM TypeCorrect == Spec => []TypeOK
    BY InitTypeOK, StepTypeOK, PTL DEF Spec

-----------------------------------------------------------------------------
(* That a stop takes effect, however sweeps overlap, fail and die.  A      *)
(* sweep lists a purchase once and works on the list to its end, so what   *)
(* matters is how the list of a sweep and the time it was read relate to   *)
(* the time of the stop.                                                   *)

\* Whatever a sweep has in hand it has listed.
HandListed(s) == sweep[s].pc \notin {"idle", "next"} => sweep[s].cur \in sweep[s].todo

\* No recorded time lies in the future.
NothingLater ==
    /\ \A s \in Sweeps : sweep[s].now <= clock
    /\ \A i \in DOMAIN claims : claims[i].by <= clock

\* A stopped purchase is not monitored.
StoppedIsOff == \A p \in Purchases : stopped[p] # Never => purchase[p].status # "monitoring"

\* A sweep that lists a stopped purchase had started when it was stopped.
ListedBeforeStop ==
    \A s \in Sweeps, p \in Purchases :
        (stopped[p] # Never /\ p \in sweep[s].todo) => sweep[s].now <= stopped[p]

StopInv ==
    /\ TypeOK
    /\ \A s \in Sweeps : HandListed(s)
    /\ NothingLater
    /\ StoppedIsOff
    /\ ListedBeforeStop
    /\ StopTakesEffect

-----------------------------------------------------------------------------
(* What a step does to a sweep *)

Begins(s) == /\ sweep'[s].pc = "next" /\ sweep'[s].now = clock
             /\ sweep'[s].todo = Listed /\ UNCHANGED <<clock, stopped>>

GoesOn(s) == /\ sweep'[s].now = sweep[s].now
             /\ sweep'[s].todo \subseteq sweep[s].todo
             /\ HandListed(s)'

Ends(s) == sweep'[s] = Idle

\* Moving on within a check keeps the list and the purchase in hand.
LEMMA GotoGoesOn ==
    ASSUME TypeOK, NEW s \in Sweeps, HandListed(s), NEW step, Goto(s, step),
           sweep[s].pc \notin {"idle", "next"}
    PROVE  GoesOn(s)
    <1>1. sweep'[s] = [sweep[s] EXCEPT !.pc = step]
        BY DEF Goto, TypeOK
    <1>2. QED
        BY <1>1, SweepFields DEF GoesOn, HandListed, Sweep

\* Finishing with a purchase takes it off the list, or ends the sweep.
LEMMA DoneGoesOn ==
    ASSUME TypeOK, NEW s \in Sweeps, NEW p, Done(s, p)
    PROVE  GoesOn(s) \/ Ends(s)
    <1>1. CASE sweep'[s] = Idle
        BY <1>1 DEF Ends
    <1>2. CASE sweep'[s] = Without(sweep[s], p)
        <2>1. /\ sweep'[s].pc = "next" /\ sweep'[s].now = sweep[s].now
              /\ sweep'[s].todo = sweep[s].todo \ {p}
            BY <1>2, SweepFields DEF Without, Sweep
        <2>2. QED
            BY <2>1 DEF GoesOn, HandListed
    <1>3. sweep'[s] \in {Idle, Without(sweep[s], p)}
        BY DEF Done, TypeOK
    <1>4. QED
        BY <1>1, <1>2, <1>3

\* A step of a sweep touches no other sweep.
LEMMA OthersKept ==
    ASSUME TypeOK, NEW s \in Sweeps, NEW r \in Sweeps \ {s},
           StartSweep(s) \/ SweepStep(s) \/ Crash(s)
    PROVE  sweep'[r] = sweep[r]
    BY DEF StartSweep, SweepStep, Crash, ExpirePurchase, CheckIfDue, ResolveUrl,
           FetchFails, Fetch, PersistPriceHistory, ClearError, RecordError, MarkChecked,
           CheckRaises, CheckDedup, StoreShell, PublishDrop, Done, Goto, TypeOK

\* A sweep keeps the time it started at, and its list only shrinks.
LEMMA StepGoesOn ==
    ASSUME TypeOK, NEW s \in Sweeps, HandListed(s), SweepStep(s)
    PROVE  GoesOn(s) \/ Ends(s)
    <1>1. ASSUME NEW p \in Purchases, ExpirePurchase(s, p)
          PROVE  GoesOn(s) \/ Ends(s)
        BY <1>1, DoneGoesOn DEF ExpirePurchase
    <1>2. ASSUME NEW p \in Purchases, CheckIfDue(s, p)
          PROVE  GoesOn(s) \/ Ends(s)
        <2>1. CASE Done(s, p)
            BY <2>1, DoneGoesOn
        <2>2. ASSUME NEW step \in {"resolve", "fetch"},
                     sweep' = [sweep EXCEPT ![s].cur = p, ![s].pc = step]
              PROVE  GoesOn(s)
            <3>1. sweep'[s] = [sweep[s] EXCEPT !.cur = p, !.pc = step]
                BY <2>2 DEF TypeOK
            <3>2. sweep'[s].cur = p /\ p \in sweep[s].todo
                BY <1>2, <3>1, SweepFields DEF CheckIfDue, Sweep
            <3>3. sweep'[s].now = sweep[s].now /\ sweep'[s].todo = sweep[s].todo
                BY <3>1, SweepFields DEF Sweep
            <3>4. QED
                BY <3>2, <3>3 DEF GoesOn, HandListed
        <2>3. QED
            BY <1>2, <2>1, <2>2 DEF CheckIfDue
    <1>3. CASE ResolveUrl(s)
        <2>1. sweep[s].pc = "resolve"
            BY <1>3 DEF ResolveUrl, At
        <2>2. CASE Goto(s, "fetch")
            BY <2>1, <2>2, GotoGoesOn
        <2>3. CASE sweep' = [sweep EXCEPT ![s].pc = "fetch",
                                          ![s].copy[Current(s)].url = "found"]
            <3>1. sweep'[s] = [sweep[s] EXCEPT !.pc = "fetch",
                                               !.copy[Current(s)].url = "found"]
                BY <2>3 DEF TypeOK
            <3>2. /\ sweep'[s].now = sweep[s].now /\ sweep'[s].todo = sweep[s].todo
                  /\ sweep'[s].cur = sweep[s].cur
                BY <3>1, SweepFields DEF Sweep
            <3>3. QED
                BY <2>1, <3>2 DEF GoesOn, HandListed
        <2>4. QED
            BY <1>3, <2>2, <2>3 DEF ResolveUrl
    <1>4. CASE Fetch(s)
        <2>1. sweep[s].pc = "fetch"
            BY <1>4 DEF Fetch, At
        <2>2. PICK seen, step : sweep'[s] = [sweep[s] EXCEPT !.seen = seen, !.pc = step]
            BY <1>4 DEF Fetch, TypeOK
        <2>3. /\ sweep'[s].now = sweep[s].now /\ sweep'[s].todo = sweep[s].todo
              /\ sweep'[s].cur = sweep[s].cur
            BY <2>2, SweepFields DEF Sweep
        <2>4. QED
            BY <2>1, <2>3 DEF GoesOn, HandListed
    <1>5. CASE MarkChecked(s)
        BY <1>5, DoneGoesOn DEF MarkChecked
    <1>6. CASE StoreShell(s)
        <2>1. sweep[s].pc = "store"
            BY <1>6 DEF StoreShell, At
        <2>2. sweep'[s] = [sweep[s] EXCEPT !.pc = "publish", !.claim = Len(claims) + 1]
            BY <1>6 DEF StoreShell, TypeOK
        <2>3. /\ sweep'[s].now = sweep[s].now /\ sweep'[s].todo = sweep[s].todo
              /\ sweep'[s].cur = sweep[s].cur
            BY <2>2, SweepFields DEF Sweep
        <2>4. QED
            BY <2>1, <2>3 DEF GoesOn, HandListed
    <1>7. CASE \/ FetchFails(s) \/ PersistPriceHistory(s) \/ ClearError(s)
               \/ RecordError(s) \/ CheckRaises(s) \/ CheckDedup(s) \/ PublishDrop(s)
        <2>1. sweep[s].pc \notin {"idle", "next"}
            BY <1>7 DEF FetchFails, PersistPriceHistory, ClearError, RecordError,
                        CheckRaises, CheckDedup, PublishDrop, At
        <2>2. PICK step : Goto(s, step)
            BY <1>7 DEF FetchFails, PersistPriceHistory, ClearError, RecordError,
                        CheckRaises, CheckDedup, PublishDrop
        <2>3. QED
            BY <2>1, <2>2, GotoGoesOn
    <1>8. QED
        BY <1>1, <1>2, <1>3, <1>4, <1>5, <1>6, <1>7 DEF SweepStep

\* In any step a sweep reads its list, works on it, ends or stays as it is.
LEMMA SweepSteps ==
    ASSUME TypeOK, \A s \in Sweeps : HandListed(s), [Next]_vars, NEW r \in Sweeps
    PROVE  Begins(r) \/ GoesOn(r) \/ Ends(r) \/ sweep'[r] = sweep[r]
    <1>1. ASSUME NEW s \in Sweeps, StartSweep(s)
          PROVE  Begins(r) \/ sweep'[r] = sweep[r]
        <2>1. CASE r # s
            BY <1>1, <2>1, OthersKept
        <2>2. CASE r = s /\ Listed # {}
            <3> DEFINE copy == [p \in Purchases |-> IF p \in Listed THEN purchase[p] ELSE Blank]
            <3>1. sweep'[r] = [Idle EXCEPT !.pc = "next", !.now = clock, !.todo = Listed,
                                           !.copy = copy]
                BY <1>1, <2>2 DEF StartSweep, TypeOK
            <3> HIDE DEF copy
            <3>2. sweep'[r].pc = "next" /\ sweep'[r].now = clock /\ sweep'[r].todo = Listed
                BY <3>1 DEF Idle
            <3>3. QED
                BY <1>1, <3>2 DEF Begins, StartSweep
        <2>3. CASE r = s /\ Listed = {}
            BY <1>1, <2>3 DEF StartSweep
        <2>4. QED
            BY <2>1, <2>2, <2>3
    <1>2. ASSUME NEW s \in Sweeps, SweepStep(s)
          PROVE  GoesOn(r) \/ Ends(r) \/ sweep'[r] = sweep[r]
        BY <1>2, OthersKept, StepGoesOn
    <1>3. ASSUME NEW s \in Sweeps, Crash(s)
          PROVE  Ends(r) \/ sweep'[r] = sweep[r]
        <2>1. CASE r = s
            BY <1>3, <2>1 DEF Crash, Ends, TypeOK
        <2>2. QED
            BY <1>3, <2>1, OthersKept
    <1>4. CASE OtherStep \/ UNCHANGED vars
        BY <1>4 DEF OtherStep, StopLoad, StopWrite, UpdateProductUrl, ReceiveIngested,
                    ResolveIngested, TouchClaim, vars
    <1>5. CASE Tick \/ \E p \in Purchases : DropBegins(p) \/ DropEnds(p)
        BY <1>5 DEF Tick, DropBegins, DropEnds
    <1>6. QED
        BY <1>1, <1>2, <1>3, <1>4, <1>5 DEF Next, Environment

\* No step writes "monitoring" into a status: every writer sets single fields,
\* and none of them sets the status to that.
LEMMA StatusSteps ==
    ASSUME TypeOK, [Next]_vars, NEW p \in Purchases,
           purchase'[p].status = "monitoring"
    PROVE  purchase[p].status = "monitoring"
    <1>1. purchase \in [Purchases -> Purchase] /\ purchase[p] \in Purchase
        BY DEF TypeOK
    <1>2. ASSUME NEW q \in Purchases, NEW new,
                 purchase' = [purchase EXCEPT ![q] = new],
                 new.status \in {purchase[q].status, "expired", "dismissed"}
          PROVE  purchase[p].status = "monitoring"
        BY <1>1, <1>2
    <1>3. ASSUME NEW s \in Sweeps, NEW q \in Purchases, ExpirePurchase(s, q)
          PROVE  purchase[p].status = "monitoring"
        <2>1. Flipped(purchase[q]).status = "expired"
            BY DEF Flipped, TypeOK, Purchase
        <2>2. QED
            BY <1>2, <1>3, <2>1 DEF ExpirePurchase
    <1>4. ASSUME NEW s \in Sweeps, NEW q \in Purchases, CheckIfDue(s, q)
          PROVE  purchase[p].status = "monitoring"
        <2>1. ASSUME NEW c, purchase' = [purchase EXCEPT ![q].cadence = c]
              PROVE  purchase[p].status = "monitoring"
            <3>1. [purchase[q] EXCEPT !.cadence = c].status = purchase[q].status
                BY DEF TypeOK, Purchase
            <3>2. purchase' = [purchase EXCEPT ![q] = [purchase[q] EXCEPT !.cadence = c]]
                BY <2>1
            <3>3. QED
                BY <1>2, <3>1, <3>2
        <2>2. QED
            BY <1>4, <2>1 DEF CheckIfDue
    <1>5. ASSUME NEW q \in Purchases, purchase' = [purchase EXCEPT ![q] = Resolved(@)]
          PROVE  purchase[p].status = "monitoring"
        <2>1. Resolved(purchase[q]).status = purchase[q].status
            BY DEF Resolved, TypeOK, Purchase
        <2>2. purchase' = [purchase EXCEPT ![q] = Resolved(purchase[q])]
            BY <1>5
        <2>3. QED
            BY <1>2, <2>1, <2>2
    <1>6. ASSUME NEW q \in Purchases, NEW e, purchase' = [purchase EXCEPT ![q].error = e]
          PROVE  purchase[p].status = "monitoring"
        <2>1. [purchase[q] EXCEPT !.error = e].status = purchase[q].status
            BY DEF TypeOK, Purchase
        <2>2. purchase' = [purchase EXCEPT ![q] = [purchase[q] EXCEPT !.error = e]]
            BY <1>6
        <2>3. QED
            BY <1>2, <2>1, <2>2
    <1>7. ASSUME NEW s \in Sweeps,
                 ResolveUrl(s) \/ ClearError(s) \/ RecordError(s)
          PROVE  purchase[p].status = "monitoring"
        <2>1. Current(s) \in Purchases
            BY <1>7, SweepFields DEF ResolveUrl, ClearError, RecordError, At
        <2>2. QED
            BY <1>5, <1>6, <1>7, <2>1 DEF ResolveUrl, ClearError, RecordError
    <1>8. ASSUME NEW s \in Sweeps, MarkChecked(s)
          PROVE  purchase[p].status = "monitoring"
        <2> DEFINE marked == Checked(purchase[Current(s)], Copied(s), sweep[s].now)
        <2>1. Current(s) \in Purchases
            BY <1>8, SweepFields DEF MarkChecked, At
        <2>2. marked.status = purchase[Current(s)].status
            BY <2>1 DEF Checked, TypeOK, Purchase
        <2>3. CASE purchase' = [purchase EXCEPT ![Current(s)] = marked]
            <3> HIDE DEF marked
            <3>1. QED
                BY <1>2, <2>1, <2>2, <2>3
        <2>4. QED
            BY <1>8, <2>3 DEF MarkChecked
    <1>9. ASSUME NEW q \in Purchases, StopWrite(q)
          PROVE  purchase[p].status = "monitoring"
        <2>1. [purchase[q] EXCEPT !.status = "dismissed"].status = "dismissed"
            BY DEF TypeOK, Purchase
        <2>2. purchase' = [purchase EXCEPT ![q] = [purchase[q] EXCEPT !.status = "dismissed"]]
            BY <1>9 DEF StopWrite
        <2>3. QED
            BY <1>2, <2>1, <2>2
    <1>10. ASSUME NEW q \in Purchases, UpdateProductUrl(q)
           PROVE  purchase[p].status = "monitoring"
        <2>1. PICK u : purchase' = [purchase EXCEPT ![q].url = u, ![q].error = "none"]
            BY <1>10 DEF UpdateProductUrl
        <2>2. [purchase[q] EXCEPT !.url = u, !.error = "none"].status = purchase[q].status
            BY DEF TypeOK, Purchase
        <2>3. purchase' = [purchase EXCEPT ![q] = [purchase[q] EXCEPT !.url = u,
                                                                      !.error = "none"]]
            BY <1>1, <2>1
        <2>4. QED
            BY <1>2, <2>2, <2>3
    <1>11. ASSUME NEW q \in Purchases, ResolveIngested(q)
           PROVE  purchase[p].status = "monitoring"
        BY <1>5, <1>11 DEF ResolveIngested
    <1>12. CASE UNCHANGED purchase
        BY <1>12
    <1>13. QED
        <2>1. ASSUME NEW s \in Sweeps, StartSweep(s) \/ SweepStep(s)
              PROVE  purchase[p].status = "monitoring"
            BY <1>3, <1>4, <1>7, <1>8, <1>12, <2>1
               DEF StartSweep, SweepStep, FetchFails, Fetch, PersistPriceHistory,
                   CheckRaises, CheckDedup, StoreShell, PublishDrop
        <2>2. CASE OtherStep
            BY <1>9, <1>10, <1>11, <1>12, <2>2
               DEF OtherStep, StopLoad, ReceiveIngested, TouchClaim
        <2>3. CASE Environment \/ UNCHANGED vars
            BY <1>12, <2>3 DEF Environment, DropBegins, DropEnds, Tick, Crash, vars
        <2>4. QED
            BY <2>1, <2>2, <2>3 DEF Next

\* Only the purchase that is stopped changes its history of stops, and time
\* does not run backwards.
LEMMA StopSteps ==
    ASSUME TypeOK, [Next]_vars
    PROVE  \/ UNCHANGED stopped /\ clock <= clock'
           \/ \E p \in Purchases : StopWrite(p)
    <1>1. clock \in Nat
        BY DEF TypeOK
    <1>2. CASE \/ \E s \in Sweeps : StartSweep(s) \/ SweepStep(s)
               \/ UNCHANGED vars
        <2>1. UNCHANGED <<stopped, clock>>
            BY <1>2 DEF StartSweep, SweepStep, ExpirePurchase, CheckIfDue, ResolveUrl,
                        FetchFails, Fetch, PersistPriceHistory, ClearError, RecordError,
                        MarkChecked, CheckRaises, CheckDedup, StoreShell, PublishDrop, vars
        <2>2. QED
            BY <1>1, <2>1
    <1>3. CASE OtherStep
        <2>1. UNCHANGED <<stopped, clock>> \/ \E p \in Purchases : StopWrite(p)
            BY <1>3 DEF OtherStep, StopLoad, UpdateProductUrl, ReceiveIngested,
                        ResolveIngested, TouchClaim
        <2>2. QED
            BY <1>1, <2>1
    <1>4. CASE Environment
        <2>1. UNCHANGED stopped /\ clock' \in {clock, clock + 1}
            BY <1>4 DEF Environment, DropBegins, DropEnds, Tick, Crash
        <2>2. QED
            BY <1>1, <2>1
    <1>5. QED
        BY <1>2, <1>3, <1>4 DEF Next

\* A claim keeps its purchase, its drop and the time of its sweep; a new one is
\* stored for the purchase its sweep has in hand and the drop it has seen.
LEMMA ClaimSteps ==
    ASSUME TypeOK, [Next]_vars, NEW i \in DOMAIN claims'
    PROVE  \/ /\ i \in DOMAIN claims
              /\ claims'[i].p = claims[i].p /\ claims'[i].by = claims[i].by
              /\ claims'[i].drop = claims[i].drop
           \/ \E s \in Sweeps : /\ At(s, "store") /\ UNCHANGED <<stopped, clock>>
                                /\ claims'[i].p = Current(s)
                                /\ claims'[i].by = sweep[s].now
                                /\ claims'[i].drop = sweep[s].seen
    <1>1. CASE UNCHANGED claims
        BY <1>1
    <1>2. ASSUME NEW s \in Sweeps, StoreShell(s)
          PROVE  \/ i \in DOMAIN claims /\ claims'[i] = claims[i]
                 \/ /\ claims'[i].p = Current(s) /\ claims'[i].by = sweep[s].now
                    /\ claims'[i].drop = sweep[s].seen
        <2> DEFINE claim == [p |-> Current(s), drop |-> sweep[s].seen,
                             by |-> sweep[s].now, at |-> clock,
                             updated |-> clock, event |-> FALSE]
        <2>1. claims \in Seq(Claim) /\ claims' = Append(claims, claim)
            BY <1>2 DEF StoreShell, TypeOK
        <2>2. claim.p = Current(s) /\ claim.by = sweep[s].now /\ claim.drop = sweep[s].seen
            OBVIOUS
        <2> HIDE DEF claim
        <2>3. \/ i \in DOMAIN claims /\ claims'[i] = claims[i]
              \/ claims'[i] = claim
            BY <2>1
        <2>4. QED
            BY <2>2, <2>3
    <1>3. ASSUME NEW j \in DOMAIN claims, NEW new,
                 new.p = claims[j].p, new.by = claims[j].by, new.drop = claims[j].drop,
                 claims' = [claims EXCEPT ![j] = new]
          PROVE  /\ i \in DOMAIN claims
                 /\ claims'[i].p = claims[i].p /\ claims'[i].by = claims[i].by
                 /\ claims'[i].drop = claims[i].drop
        BY <1>3 DEF TypeOK
    <1>4. ASSUME NEW s \in Sweeps, PublishDrop(s)
          PROVE  /\ i \in DOMAIN claims
                 /\ claims'[i].p = claims[i].p /\ claims'[i].by = claims[i].by
                 /\ claims'[i].drop = claims[i].drop
        <2> DEFINE j == sweep[s].claim
        <2>1. j \in DOMAIN claims
            BY <1>4 DEF PublishDrop, At, InHand, TypeOK
        <2>2. /\ [claims[j] EXCEPT !.event = TRUE].p = claims[j].p
              /\ [claims[j] EXCEPT !.event = TRUE].by = claims[j].by
              /\ [claims[j] EXCEPT !.event = TRUE].drop = claims[j].drop
            BY <2>1, ClaimFields DEF Claim
        <2>3. claims' = claims \/ claims' = [claims EXCEPT ![j] = [claims[j] EXCEPT !.event = TRUE]]
            BY <1>4, <2>1 DEF PublishDrop, TypeOK
        <2> HIDE DEF j
        <2>4. QED
            BY <1>3, <2>1, <2>2, <2>3
    <1>5. ASSUME NEW j \in DOMAIN claims, TouchClaim(j)
          PROVE  /\ i \in DOMAIN claims
                 /\ claims'[i].p = claims[i].p /\ claims'[i].by = claims[i].by
                 /\ claims'[i].drop = claims[i].drop
        <2>1. /\ [claims[j] EXCEPT !.updated = clock].p = claims[j].p
              /\ [claims[j] EXCEPT !.updated = clock].by = claims[j].by
              /\ [claims[j] EXCEPT !.updated = clock].drop = claims[j].drop
            BY ClaimFields DEF Claim
        <2>2. claims' = [claims EXCEPT ![j] = [claims[j] EXCEPT !.updated = clock]]
            BY <1>5 DEF TouchClaim, TypeOK
        <2>3. QED
            BY <1>3, <2>1, <2>2
    <1>6. QED
        <2>1. ASSUME NEW s \in Sweeps, StartSweep(s) \/ SweepStep(s)
              PROVE  \/ UNCHANGED claims
                     \/ StoreShell(s) \/ PublishDrop(s)
            BY <2>1 DEF StartSweep, SweepStep, ExpirePurchase, CheckIfDue, ResolveUrl,
                        FetchFails, Fetch, PersistPriceHistory, ClearError, RecordError,
                        MarkChecked, CheckRaises, CheckDedup
        <2>2. CASE OtherStep
            BY <1>1, <1>5, <2>2 DEF OtherStep, StopLoad, StopWrite, UpdateProductUrl,
                                    ReceiveIngested, ResolveIngested
        <2>3. CASE Environment \/ UNCHANGED vars
            BY <1>1, <2>3 DEF Environment, DropBegins, DropEnds, Tick, Crash, vars
        <2>4. ASSUME NEW s \in Sweeps, StoreShell(s)
              PROVE  At(s, "store") /\ UNCHANGED <<stopped, clock>>
            BY <2>4 DEF StoreShell
        <2>5. QED
            BY <1>1, <1>2, <1>4, <2>1, <2>2, <2>3, <2>4 DEF Next

-----------------------------------------------------------------------------
(* Stops *)

\* A stopped purchase is never monitored again, although sweeps go on writing
\* to it from the copy they read before: they write single fields, and none
\* writes the status back.
THEOREM StoppedStays == Spec => StoppedStaysOff
<1>1. ASSUME TypeOK, [Next]_vars
      PROVE  [\A p \in Purchases : purchase[p].status = "dismissed" =>
                                     purchase'[p].status # "monitoring"]_vars
    BY <1>1, StatusSteps
<1>2. QED
    BY <1>1, TypeCorrect, PTL DEF Spec, StoppedStaysOff

\* The initial state has no stops, no claims and no sweeps.
LEMMA InitStop == Init => StopInv
    <1>1. SUFFICES ASSUME Init PROVE StopInv
        OBVIOUS
    <1>2. Idle.pc = "idle" /\ Idle.now = 0 /\ Idle.todo = {}
        BY DEF Idle
    <1>3. \A s \in Sweeps : sweep[s] = Idle
        BY <1>1 DEF Init
    <1>4. claims = <<>> /\ clock = 0 /\ \A p \in Purchases : stopped[p] = Never
        BY <1>1 DEF Init
    <1>5. QED
        BY <1>1, <1>2, <1>3, <1>4, InitTypeOK
           DEF StopInv, HandListed, NothingLater, StoppedIsOff, ListedBeforeStop,
               StopTakesEffect

\* A sweep lists no stopped purchase, and keeps its list and its time; so a
\* claim it stores for a purchase that is stopped is older than the stop.
LEMMA NextStop == StopInv /\ [Next]_vars => StopInv'
<1> SUFFICES ASSUME StopInv, [Next]_vars PROVE StopInv'
    OBVIOUS
<1> USE DEF StopInv
<1>1. TypeOK'
    BY StepTypeOK
<1>2. clock \in Nat /\ clock' \in Nat /\ clock <= clock'
    <2>1. clock \in Nat /\ clock' \in Nat
        BY <1>1 DEF TypeOK
    <2>2. ASSUME NEW p \in Purchases, StopWrite(p)
          PROVE  clock' = clock
        BY <2>2 DEF StopWrite
    <2>3. QED
        BY <2>1, <2>2, StopSteps
<1>3. \A s \in Sweeps : sweep[s].now \in Nat /\ sweep[s].now <= clock
    BY SweepFields DEF NothingLater
<1>4. \A i \in DOMAIN claims : claims[i].by \in Nat /\ claims[i].by <= clock
    BY ClaimFields DEF NothingLater, Claim
<1>5. Idle.pc = "idle" /\ Idle.now = 0 /\ Idle.todo = {}
    BY DEF Idle
<1>6. \A s \in Sweeps : HandListed(s)'
    <2>1. TAKE s \in Sweeps
    <2>2. CASE Begins(s) \/ GoesOn(s)
        BY <2>2 DEF Begins, GoesOn, HandListed
    <2>3. CASE Ends(s)
        BY <1>5, <2>3 DEF Ends, HandListed
    <2>4. CASE sweep'[s] = sweep[s]
        BY <2>4 DEF HandListed
    <2>5. QED
        BY <2>2, <2>3, <2>4, SweepSteps
<1>7. NothingLater'
    <2>1. ASSUME NEW s \in Sweeps
          PROVE  sweep'[s].now <= clock'
        <3>1. sweep'[s].now \in {clock, sweep[s].now, 0}
            BY <1>5, SweepSteps DEF Begins, GoesOn, Ends
        <3>2. QED
            BY <1>2, <1>3, <3>1
    <2>2. ASSUME NEW i \in DOMAIN claims'
          PROVE  claims'[i].by <= clock'
        BY <1>2, <1>3, <1>4, ClaimSteps
    <2>3. QED
        BY <2>1, <2>2 DEF NothingLater
<1>8. StoppedIsOff'
    <2>1. ASSUME NEW p \in Purchases, stopped'[p] # Never
          PROVE  purchase'[p].status # "monitoring"
        <3>1. CASE stopped'[p] = stopped[p]
            BY <2>1, <3>1, StatusSteps DEF StoppedIsOff
        <3>2. CASE stopped'[p] # stopped[p]
            <4>1. StopWrite(p)
                BY <3>2, StopSteps DEF StopWrite, TypeOK
            <4>2. purchase'[p] = [purchase[p] EXCEPT !.status = "dismissed"]
                BY <4>1 DEF StopWrite, TypeOK
            <4>3. QED
                BY <4>2 DEF TypeOK, Purchase
        <3>3. QED
            BY <3>1, <3>2
    <2>2. QED
        BY <2>1 DEF StoppedIsOff
<1>9. ListedBeforeStop'
    <2>1. ASSUME NEW s \in Sweeps, NEW p \in Purchases,
                 stopped'[p] # Never, p \in sweep'[s].todo
          PROVE  sweep'[s].now <= stopped'[p]
        <3>1. CASE Begins(s)
            <4>1. purchase[p].status = "monitoring" /\ stopped'[p] = stopped[p]
                BY <2>1, <3>1 DEF Begins, Listed
            <4>2. QED
                BY <2>1, <4>1 DEF StoppedIsOff
        <3>2. CASE Ends(s)
            BY <1>5, <2>1, <3>2 DEF Ends
        <3>3. CASE sweep'[s].now = sweep[s].now /\ sweep'[s].todo \subseteq sweep[s].todo
            <4>1. CASE stopped'[p] = stopped[p]
                BY <2>1, <3>3, <4>1 DEF ListedBeforeStop
            <4>2. CASE stopped'[p] # stopped[p]
                <5>1. stopped'[p] = clock
                    BY <4>2, StopSteps DEF StopWrite, TypeOK
                <5>2. QED
                    BY <1>3, <3>3, <5>1
            <4>3. QED
                BY <4>1, <4>2
        <3>4. QED
            BY <3>1, <3>2, <3>3, SweepSteps DEF GoesOn
    <2>2. QED
        BY <2>1 DEF ListedBeforeStop
<1>10. StopTakesEffect'
    <2>1. ASSUME NEW i \in DOMAIN claims', stopped'[claims'[i].p] # Never
          PROVE  claims'[i].by <= stopped'[claims'[i].p]
        <3> DEFINE p == claims'[i].p
        <3>1. CASE /\ i \in DOMAIN claims
                   /\ p = claims[i].p /\ claims'[i].by = claims[i].by
            <4>1. p \in Purchases
                BY <3>1, ClaimFields DEF Claim
            <4>2. CASE stopped'[p] = stopped[p]
                BY <2>1, <3>1, <4>2 DEF StopTakesEffect
            <4>3. CASE stopped'[p] # stopped[p]
                <5> HIDE DEF p
                <5>1. stopped'[p] = clock
                    BY <4>1, <4>3, StopSteps DEF StopWrite, TypeOK
                <5>2. QED
                    BY <1>4, <3>1, <5>1 DEF p
            <4>4. QED
                BY <4>2, <4>3
        <3>2. ASSUME NEW s \in Sweeps, At(s, "store"), UNCHANGED stopped,
                     p = Current(s), claims'[i].by = sweep[s].now
              PROVE  claims'[i].by <= stopped'[p]
            <4>1. p \in Purchases /\ p \in sweep[s].todo
                BY <3>2, SweepFields DEF At, HandListed, Current
            <4>2. QED
                BY <2>1, <3>2, <4>1 DEF ListedBeforeStop
        <3>3. QED
            BY <3>1, <3>2, ClaimSteps
    <2>2. QED
        BY <2>1 DEF StopTakesEffect
<1>11. QED
    BY <1>1, <1>6, <1>7, <1>8, <1>9, <1>10

\* No claim is stored for a purchase by a sweep that started after the user
\* had stopped it, however many sweeps were running at the time.
THEOREM StopHolds == Spec => []StopTakesEffect
<1>1. StopInv => StopTakesEffect
    BY DEF StopInv
<1>2. QED
    BY <1>1, InitStop, NextStop, PTL DEF Spec

-----------------------------------------------------------------------------
(* Price history                                                           *)
(*                                                                         *)
(* A sweep writes the row of a drop before it clears an error, looks for   *)
(* recent claims and stores a new one, and it reads the drop only once.    *)

\* A sweep past the insert of a live platform has the row of what it saw; one
\* that is about to claim saw a drop.
Documented(s) ==
    /\ sweep[s].pc \in {"dedup", "store"} => sweep[s].seen # 0
    /\ (/\ sweep[s].pc \in {"clear", "dedup", "store"}
        /\ sweep[s].cur \in Live /\ sweep[s].seen # 0) =>
          <<sweep[s].cur, sweep[s].seen>> \in history

HistoryInv ==
    /\ TypeOK
    /\ \A s \in Sweeps : Documented(s)
    /\ ClaimIsDocumented

\* A sweep that moves on keeps its purchase and what it saw.
LEMMA GotoKeeps ==
    ASSUME TypeOK, NEW s \in Sweeps, NEW step, Goto(s, step)
    PROVE  /\ sweep'[s].pc = step
           /\ sweep'[s].cur = sweep[s].cur /\ sweep'[s].seen = sweep[s].seen
    <1>1. sweep'[s] = [sweep[s] EXCEPT !.pc = step]
        BY DEF Goto, TypeOK
    <1>2. QED
        BY <1>1, SweepFields DEF Sweep

\* A sweep that is done with a purchase is not about to claim.
LEMMA DoneClaimsNothing ==
    ASSUME TypeOK, NEW s \in Sweeps, NEW p, Done(s, p)
    PROVE  sweep'[s].pc \in {"idle", "next"}
    <1>1. CASE sweep'[s] = Idle
        BY <1>1 DEF Idle
    <1>2. CASE sweep'[s] = Without(sweep[s], p)
        BY <1>2, SweepFields DEF Without, Sweep
    <1>3. QED
        BY <1>1, <1>2 DEF Done, TypeOK

\* No row is ever deleted.
LEMMA HistoryGrows ==
    ASSUME [Next]_vars
    PROVE  history \subseteq history'
    <1>1. ASSUME NEW s \in Sweeps, StartSweep(s) \/ SweepStep(s)
          PROVE  history \subseteq history'
        BY <1>1 DEF StartSweep, SweepStep, ExpirePurchase, CheckIfDue, ResolveUrl,
                    FetchFails, Fetch, PersistPriceHistory, ClearError, RecordError,
                    MarkChecked, CheckRaises, CheckDedup, StoreShell, PublishDrop
    <1>2. CASE OtherStep
        BY <1>2 DEF OtherStep, StopLoad, StopWrite, UpdateProductUrl, ReceiveIngested,
                    ResolveIngested, TouchClaim
    <1>3. CASE Environment \/ UNCHANGED vars
        BY <1>3 DEF Environment, DropBegins, DropEnds, Tick, Crash, vars
    <1>4. QED
        BY <1>1, <1>2, <1>3 DEF Next

\* A step of a sweep keeps it documented.
LEMMA StepDocuments ==
    ASSUME TypeOK, NEW s \in Sweeps, Documented(s), SweepStep(s)
    PROVE  Documented(s)'
    <1> DEFINE Claims == {"clear", "dedup", "store"}
    <1>1. CASE sweep'[s].pc \notin Claims
        BY <1>1 DEF Documented
    <1>2. CASE \E p \in Purchases : ExpirePurchase(s, p) \/ CheckIfDue(s, p)
        <2>1. PICK p \in Purchases : ExpirePurchase(s, p) \/ CheckIfDue(s, p)
            BY <1>2
        <2>2. CASE Done(s, p)
            BY <1>1, <2>2, DoneClaimsNothing
        <2>3. ASSUME NEW step \in {"resolve", "fetch"},
                     sweep' = [sweep EXCEPT ![s].cur = p, ![s].pc = step]
              PROVE  Documented(s)'
            <3>1. sweep'[s] = [sweep[s] EXCEPT !.cur = p, !.pc = step]
                BY <2>3 DEF TypeOK
            <3>2. sweep'[s].pc = step
                BY <3>1, SweepFields DEF Sweep
            <3>3. QED
                BY <1>1, <3>2
        <2>4. QED
            BY <2>1, <2>2, <2>3 DEF ExpirePurchase, CheckIfDue
    <1>3. CASE ResolveUrl(s)
        <2>1. CASE Goto(s, "fetch")
            BY <1>1, <2>1, GotoKeeps
        <2>2. CASE sweep' = [sweep EXCEPT ![s].pc = "fetch",
                                          ![s].copy[Current(s)].url = "found"]
            <3>1. sweep'[s] = [sweep[s] EXCEPT !.pc = "fetch",
                                               !.copy[Current(s)].url = "found"]
                BY <2>2 DEF TypeOK
            <3>2. sweep'[s].pc = "fetch"
                BY <3>1, SweepFields DEF Sweep
            <3>3. QED
                BY <1>1, <3>2
        <2>3. QED
            BY <1>3, <2>1, <2>2 DEF ResolveUrl
    <1>4. CASE Fetch(s)
        <2> DEFINE drop == price[Current(s)].drop
        <2>1. PICK step : /\ sweep'[s] = [sweep[s] EXCEPT !.seen = drop, !.pc = step]
                          /\ step = IF Current(s) \in Live THEN "history"
                                    ELSE AfterFetch(s, drop)
            BY <1>4 DEF Fetch, TypeOK
        <2>2. sweep'[s].pc = step /\ sweep'[s].seen = drop /\ sweep'[s].cur = sweep[s].cur
            BY <2>1, SweepFields DEF Sweep
        <2>3. step \in {"dedup", "store"} => drop # 0
            BY <2>1 DEF AfterFetch
        <2>4. step \in Claims => sweep[s].cur \notin Live
            BY <2>1 DEF Current
        <2>5. QED
            BY <2>2, <2>3, <2>4 DEF Documented
    <1>5. CASE PersistPriceHistory(s)
        <2>1. /\ sweep'[s].pc = AfterFetch(s, sweep[s].seen)
              /\ sweep'[s].cur = sweep[s].cur /\ sweep'[s].seen = sweep[s].seen
            BY <1>5, GotoKeeps DEF PersistPriceHistory
        <2>2. sweep'[s].pc \in {"dedup", "store"} => sweep[s].seen # 0
            BY <2>1 DEF AfterFetch
        <2>3. sweep[s].seen # 0 => <<sweep[s].cur, sweep[s].seen>> \in history'
            BY <1>5 DEF PersistPriceHistory, Rows, Current
        <2>4. QED
            BY <2>1, <2>2, <2>3 DEF Documented
    <1>6. CASE ClearError(s)
        <2>1. /\ sweep[s].pc = "clear" /\ UNCHANGED history
              /\ Goto(s, IF sweep[s].seen # 0 /\ Current(s) \in Covered
                         THEN "dedup" ELSE "checked")
            BY <1>6 DEF ClearError, At
        <2>2. /\ sweep'[s].cur = sweep[s].cur /\ sweep'[s].seen = sweep[s].seen
              /\ sweep'[s].pc \in {"dedup", "checked"}
              /\ sweep'[s].pc = "dedup" => sweep[s].seen # 0
            BY <2>1, GotoKeeps
        <2>3. QED
            BY <2>1, <2>2 DEF Documented
    <1>7. CASE CheckDedup(s)
        <2>1. /\ sweep[s].pc = "dedup" /\ UNCHANGED history
              /\ sweep'[s].cur = sweep[s].cur /\ sweep'[s].seen = sweep[s].seen
            BY <1>7, GotoKeeps DEF CheckDedup, At
        <2>2. QED
            BY <2>1 DEF Documented
    <1>8. CASE StoreShell(s)
        <2>1. sweep'[s] = [sweep[s] EXCEPT !.pc = "publish", !.claim = Len(claims) + 1]
            BY <1>8 DEF StoreShell, TypeOK
        <2>2. sweep'[s].pc = "publish"
            BY <2>1, SweepFields DEF Sweep
        <2>3. QED
            BY <1>1, <2>2
    <1>9. CASE FetchFails(s) \/ RecordError(s) \/ CheckRaises(s) \/ PublishDrop(s)
        BY <1>1, <1>9, GotoKeeps DEF FetchFails, RecordError, CheckRaises, PublishDrop
    <1>10. CASE MarkChecked(s)
        BY <1>1, <1>10, DoneClaimsNothing DEF MarkChecked
    <1>11. QED
        BY <1>2, <1>3, <1>4, <1>5, <1>6, <1>7, <1>8, <1>9, <1>10 DEF SweepStep

\* In the initial state no sweep runs and there is no claim.
LEMMA InitHistory == Init => HistoryInv
    <1>1. SUFFICES ASSUME Init PROVE HistoryInv
        OBVIOUS
    <1>2. \A s \in Sweeps : sweep[s].pc = "idle"
        BY <1>1 DEF Init, Idle
    <1>3. claims = <<>>
        BY <1>1 DEF Init
    <1>4. QED
        BY <1>1, <1>2, <1>3, InitTypeOK DEF HistoryInv, Documented, ClaimIsDocumented

\* Every step keeps the sweeps documented, and a claim that is stored carries
\* the drop whose row its sweep has inserted.
LEMMA NextHistory == HistoryInv /\ [Next]_vars => HistoryInv'
<1> SUFFICES ASSUME HistoryInv, [Next]_vars PROVE HistoryInv'
    OBVIOUS
<1> USE DEF HistoryInv
<1>1. TypeOK'
    BY StepTypeOK
<1>2. history \subseteq history'
    BY HistoryGrows
<1>3. ASSUME NEW r \in Sweeps
      PROVE  Documented(r)'
    <2>1. CASE sweep'[r] = sweep[r]
        BY <1>2, <2>1 DEF Documented
    <2>2. CASE sweep'[r].pc \in {"idle", "next"}
        BY <2>2 DEF Documented
    <2>3. ASSUME NEW s \in Sweeps, StartSweep(s)
          PROVE  Documented(r)'
        <3>1. CASE r # s
            BY <2>1, <2>3, <3>1, OthersKept
        <3>2. CASE r = s /\ Listed # {}
            <4>1. PICK copy : sweep'[r] = [Idle EXCEPT !.pc = "next", !.now = clock,
                                                       !.todo = Listed, !.copy = copy]
                BY <2>3, <3>2 DEF StartSweep, TypeOK
            <4>2. sweep'[r].pc = "next"
                BY <4>1 DEF Idle
            <4>3. QED
                BY <2>2, <4>2
        <3>3. CASE r = s /\ Listed = {}
            BY <2>1, <2>3, <3>3 DEF StartSweep
        <3>4. QED
            BY <3>1, <3>2, <3>3
    <2>4. ASSUME NEW s \in Sweeps, SweepStep(s)
          PROVE  Documented(r)'
        BY <2>1, <2>4, OthersKept, StepDocuments
    <2>5. ASSUME NEW s \in Sweeps, Crash(s)
          PROVE  Documented(r)'
        <3>1. CASE r = s
            BY <2>2, <2>5, <3>1 DEF Crash, Idle, TypeOK
        <3>2. QED
            BY <2>1, <2>5, <3>1, OthersKept
    <2>6. CASE OtherStep \/ UNCHANGED vars
        BY <2>1, <2>6 DEF OtherStep, StopLoad, StopWrite, UpdateProductUrl,
                          ReceiveIngested, ResolveIngested, TouchClaim, vars
    <2>7. CASE Tick \/ \E p \in Purchases : DropBegins(p) \/ DropEnds(p)
        BY <2>1, <2>7 DEF Tick, DropBegins, DropEnds
    <2>8. QED
        BY <2>3, <2>4, <2>5, <2>6, <2>7 DEF Next, Environment
<1>4. ClaimIsDocumented'
    <2>1. ASSUME NEW i \in DOMAIN claims', claims'[i].p \in Live
          PROVE  <<claims'[i].p, claims'[i].drop>> \in history'
        <3>1. CASE /\ i \in DOMAIN claims
                   /\ claims'[i].p = claims[i].p /\ claims'[i].drop = claims[i].drop
            BY <1>2, <2>1, <3>1 DEF ClaimIsDocumented
        <3>2. ASSUME NEW s \in Sweeps, At(s, "store"), claims'[i].p = Current(s),
                     claims'[i].drop = sweep[s].seen
              PROVE  <<claims'[i].p, claims'[i].drop>> \in history'
            BY <1>2, <2>1, <3>2 DEF Documented, At, Current
        <3>3. QED
            BY <3>1, <3>2, ClaimSteps
    <2>2. QED
        BY <2>1 DEF ClaimIsDocumented
<1>5. QED
    BY <1>1, <1>3, <1>4

\* The claim of a live platform always has the price-history row of its drop,
\* although the shop's price changes while sweeps work, fail and die.
THEOREM ClaimsDocumented == Spec => []ClaimIsDocumented
<1>1. HistoryInv => ClaimIsDocumented
    BY DEF HistoryInv
<1>2. QED
    BY <1>1, InitHistory, NextHistory, PTL DEF Spec

-----------------------------------------------------------------------------
(* One claim per running sweep                                             *)
(*                                                                         *)
(* A sweep that stores a claim has looked, since it last stored one for    *)
(* the purchase, and found none that was current.  So the claims of one    *)
(* sweep slot are further apart than the window, and of those within a     *)
(* window each is another slot's.                                          *)

\* A step that stores no claim keeps what a claim is about and may touch it.
Carried ==
    /\ DOMAIN claims' = DOMAIN claims
    /\ \A i \in DOMAIN claims : /\ claims'[i].p = claims[i].p /\ claims'[i].at = claims[i].at
                                /\ claims'[i].updated \in {claims[i].updated, clock}

LEMMA ClaimKinds ==
    ASSUME TypeOK, [Next]_vars
    PROVE  Carried \/ \E s \in Sweeps : StoreShell(s)
    <1>1. ASSUME claims' = claims PROVE Carried
        BY <1>1 DEF Carried
    <1>2. ASSUME NEW j \in DOMAIN claims, NEW new,
                 new.p = claims[j].p, new.at = claims[j].at,
                 new.updated \in {claims[j].updated, clock},
                 claims' = [claims EXCEPT ![j] = new]
          PROVE  Carried
        <2>1. claims \in Seq(Claim)
            BY DEF TypeOK
        <2>2. DOMAIN claims' = DOMAIN claims /\ claims'[j] = new
              /\ \A i \in DOMAIN claims : i # j => claims'[i] = claims[i]
            BY <1>2, <2>1
        <2>3. ASSUME NEW i \in DOMAIN claims
              PROVE  /\ claims'[i].p = claims[i].p /\ claims'[i].at = claims[i].at
                     /\ claims'[i].updated \in {claims[i].updated, clock}
            BY <1>2, <2>2
        <2>4. QED
            BY <2>2, <2>3 DEF Carried
    <1>3. ASSUME NEW s \in Sweeps, PublishDrop(s)
          PROVE  Carried
        <2> DEFINE j   == sweep[s].claim
                   new == [claims[j] EXCEPT !.event = TRUE]
        <2>1. j \in DOMAIN claims
            BY <1>3 DEF PublishDrop, At, InHand, TypeOK
        <2>2. new.p = claims[j].p /\ new.at = claims[j].at /\ new.updated = claims[j].updated
            BY <2>1, ClaimFields DEF Claim
        <2>3. claims' = claims \/ claims' = [claims EXCEPT ![j] = new]
            BY <1>3, <2>1 DEF PublishDrop, TypeOK
        <2> HIDE DEF j, new
        <2>4. CASE claims' = [claims EXCEPT ![j] = new]
            BY <1>2, <2>1, <2>2, <2>4, Zenon
        <2>5. QED
            BY <1>1, <2>3, <2>4, Zenon
    <1>4. ASSUME NEW j \in DOMAIN claims, TouchClaim(j)
          PROVE  Carried
        <2>1. /\ [claims[j] EXCEPT !.updated = clock].p = claims[j].p
              /\ [claims[j] EXCEPT !.updated = clock].at = claims[j].at
              /\ [claims[j] EXCEPT !.updated = clock].updated = clock
            BY ClaimFields DEF Claim
        <2>2. claims' = [claims EXCEPT ![j] = [claims[j] EXCEPT !.updated = clock]]
            BY <1>4 DEF TouchClaim, TypeOK
        <2>3. QED
            BY <1>2, <2>1, <2>2
    <1>5. ASSUME NEW s \in Sweeps, StartSweep(s) \/ SweepStep(s)
          PROVE  UNCHANGED claims \/ StoreShell(s) \/ PublishDrop(s)
        BY <1>5 DEF StartSweep, SweepStep, ExpirePurchase, CheckIfDue, ResolveUrl,
                    FetchFails, Fetch, PersistPriceHistory, ClearError, RecordError,
                    MarkChecked, CheckRaises, CheckDedup
    <1>6. CASE OtherStep
        BY <1>1, <1>4, <1>6 DEF OtherStep, StopLoad, StopWrite, UpdateProductUrl,
                                ReceiveIngested, ResolveIngested
    <1>7. CASE Environment \/ UNCHANGED vars
        BY <1>1, <1>7 DEF Environment, DropBegins, DropEnds, Tick, Crash, vars
    <1>8. QED
        BY <1>1, <1>3, <1>5, <1>6, <1>7 DEF Next

\* A claim that is stored comes last.
LEMMA Appended ==
    ASSUME TypeOK, NEW s \in Sweeps, StoreShell(s)
    PROVE  /\ Len(claims) \in Nat /\ DOMAIN claims = 1..Len(claims)
           /\ DOMAIN claims' = DOMAIN claims \cup {Len(claims) + 1}
           /\ \A i \in DOMAIN claims : claims'[i] = claims[i]
           /\ claims'[Len(claims) + 1].p = Current(s)
           /\ claims'[Len(claims) + 1].at = clock
           /\ claims'[Len(claims) + 1].updated = clock
           /\ sweep'[s].pc = "publish" /\ sweep'[s].cur = sweep[s].cur
           /\ sweep'[s].now = sweep[s].now
           /\ UNCHANGED clock
    <1> DEFINE claim == [p |-> Current(s), drop |-> sweep[s].seen, by |-> sweep[s].now,
                         at |-> clock, updated |-> clock, event |-> FALSE]
    <1>1. claims \in Seq(Claim) /\ claims' = Append(claims, claim)
        BY DEF StoreShell, TypeOK
    <1>2. claim.p = Current(s) /\ claim.at = clock /\ claim.updated = clock
        OBVIOUS
    <1> HIDE DEF claim
    <1>3. /\ Len(claims) \in Nat /\ DOMAIN claims = 1..Len(claims)
          /\ DOMAIN claims' = DOMAIN claims \cup {Len(claims) + 1}
          /\ \A i \in DOMAIN claims : claims'[i] = claims[i]
          /\ claims'[Len(claims) + 1] = claim
        BY <1>1
    <1>4. sweep'[s] = [sweep[s] EXCEPT !.pc = "publish", !.claim = Len(claims) + 1]
        BY DEF StoreShell, TypeOK
    <1>5. sweep'[s].pc = "publish" /\ sweep'[s].cur = sweep[s].cur /\ sweep'[s].now = sweep[s].now
        BY <1>4, SweepFields DEF Sweep
    <1>6. QED
        BY <1>2, <1>3, <1>5 DEF StoreShell

\* A claim is not touched before it is stored, nor in the future.
Aged == \A i \in DOMAIN claims : claims[i].at <= claims[i].updated /\ claims[i].updated <= clock

AgeInv == StopInv /\ Aged

LEMMA ClockGrows ==
    ASSUME TypeOK, [Next]_vars PROVE clock \in Nat /\ clock' \in Nat /\ clock <= clock'
    <1>1. TypeOK'
        BY StepTypeOK
    <1>2. ASSUME NEW p \in Purchases, StopWrite(p) PROVE clock' = clock
        BY <1>2 DEF StopWrite
    <1>3. QED
        <2>1. clock \in Nat /\ clock' \in Nat
            BY <1>1 DEF TypeOK
        <2>2. QED
            BY <1>2, <2>1, StopSteps

LEMMA InitAge == Init => AgeInv
    BY InitStop DEF AgeInv, Aged, Init

LEMMA NextAge == AgeInv /\ [Next]_vars => AgeInv'
    <1> SUFFICES ASSUME AgeInv, [Next]_vars PROVE AgeInv'
        OBVIOUS
    <1>1. TypeOK /\ StopInv'
        BY NextStop DEF AgeInv, StopInv
    <1>2. clock \in Nat /\ clock' \in Nat /\ clock <= clock'
        BY <1>1, ClockGrows
    <1>3. \A i \in DOMAIN claims : /\ claims[i].at \in Nat /\ claims[i].updated \in Nat
                                   /\ claims[i].at <= claims[i].updated
                                   /\ claims[i].updated <= clock
        BY <1>1, ClaimFields DEF AgeInv, Aged, Claim
    <1>4. CASE Carried
        <2>1. ASSUME NEW i \in DOMAIN claims'
              PROVE  claims'[i].at <= claims'[i].updated /\ claims'[i].updated <= clock'
            <3>1. /\ i \in DOMAIN claims /\ claims'[i].at = claims[i].at
                  /\ claims'[i].updated \in {claims[i].updated, clock}
                BY <1>4 DEF Carried
            <3>2. QED
                BY <1>2, <1>3, <3>1
        <2>2. QED
            BY <1>1, <2>1 DEF AgeInv, Aged
    <1>5. ASSUME NEW s \in Sweeps, StoreShell(s) PROVE AgeInv'
        BY <1>1, <1>2, <1>3, <1>5, Appended DEF AgeInv, Aged
    <1>6. QED
        BY <1>1, <1>4, <1>5, ClaimKinds

\* A sweep comes to the store only past the look at the other claims.
LEMMA ComesToStore ==
    ASSUME TypeOK, [Next]_vars, NEW r \in Sweeps, sweep'[r].pc = "store"
    PROVE  sweep'[r] = sweep[r] \/ CheckDedup(r)
    <1>1. ASSUME NEW s \in Sweeps, StartSweep(s)
          PROVE  sweep'[r] = sweep[r]
        <2>1. CASE r # s
            BY <1>1, <2>1, OthersKept
        <2>2. CASE r = s /\ Listed # {}
            <3>1. PICK copy : sweep'[r] = [Idle EXCEPT !.pc = "next", !.now = clock,
                                                       !.todo = Listed, !.copy = copy]
                BY <1>1, <2>2 DEF StartSweep, TypeOK
            <3>2. sweep'[r].pc = "next"
                BY <3>1 DEF Idle
            <3>3. QED
                BY <3>2
        <2>3. CASE r = s /\ Listed = {}
            BY <1>1, <2>3 DEF StartSweep
        <2>4. QED
            BY <2>1, <2>2, <2>3
    <1>2. ASSUME NEW s \in Sweeps, SweepStep(s)
          PROVE  sweep'[r] = sweep[r] \/ CheckDedup(r)
        <2>1. CASE r # s
            BY <1>2, <2>1, OthersKept
        <2>2. CASE r = s
            <3>1. ASSUME NEW p \in Purchases, ExpirePurchase(r, p) \/ CheckIfDue(r, p)
                  PROVE  FALSE
                <4>1. CASE Done(r, p)
                    BY <4>1, DoneClaimsNothing
                <4>2. ASSUME NEW step \in {"resolve", "fetch"},
                             sweep' = [sweep EXCEPT ![r].cur = p, ![r].pc = step]
                      PROVE  FALSE
                    <5>1. sweep'[r] = [sweep[r] EXCEPT !.cur = p, !.pc = step]
                        BY <4>2 DEF TypeOK
                    <5>2. sweep'[r].pc = step
                        BY <5>1, SweepFields DEF Sweep
                    <5>3. QED
                        BY <5>2
                <4>3. QED
                    BY <3>1, <4>1, <4>2 DEF ExpirePurchase, CheckIfDue
            <3>2. CASE ResolveUrl(r)
                <4>1. CASE Goto(r, "fetch")
                    BY <4>1, GotoKeeps
                <4>2. CASE sweep' = [sweep EXCEPT ![r].pc = "fetch",
                                                  ![r].copy[Current(r)].url = "found"]
                    <5>1. sweep'[r] = [sweep[r] EXCEPT !.pc = "fetch",
                                                       !.copy[Current(r)].url = "found"]
                        BY <4>2 DEF TypeOK
                    <5>2. sweep'[r].pc = "fetch"
                        BY <5>1, SweepFields DEF Sweep
                    <5>3. QED
                        BY <5>2
                <4>3. QED
                    BY <3>2, <4>1, <4>2 DEF ResolveUrl
            <3>3. CASE Fetch(r)
                <4> DEFINE drop == price[Current(r)].drop
                           step == IF Current(r) \in Live THEN "history" ELSE AfterFetch(r, drop)
                <4>1. sweep'[r] = [sweep[r] EXCEPT !.seen = drop, !.pc = step]
                    BY <3>3 DEF Fetch, TypeOK
                <4>1a. step # "store"
                    BY DEF AfterFetch
                <4> HIDE DEF drop, step
                <4>2. sweep'[r].pc = step
                    BY <4>1, SweepFields DEF Sweep
                <4>3. QED
                    BY <4>1a, <4>2
            <3>4. CASE PersistPriceHistory(r)
                BY <3>4, GotoKeeps DEF PersistPriceHistory, AfterFetch
            <3>5. CASE MarkChecked(r)
                BY <3>5, DoneClaimsNothing DEF MarkChecked
            <3>6. CASE StoreShell(r)
                BY <3>6, Appended
            <3>7. CASE FetchFails(r) \/ ClearError(r) \/ RecordError(r) \/ CheckRaises(r)
                       \/ PublishDrop(r)
                <4>1. PICK step \in {"error", "dedup", "checked"} : Goto(r, step)
                    BY <3>7 DEF FetchFails, ClearError, RecordError, CheckRaises, PublishDrop
                <4>2. QED
                    BY <4>1, GotoKeeps
            <3>8. QED
                BY <1>2, <2>2, <3>1, <3>2, <3>3, <3>4, <3>5, <3>6, <3>7 DEF SweepStep
        <2>3. QED
            BY <2>1, <2>2
    <1>3. ASSUME NEW s \in Sweeps, Crash(s) PROVE sweep'[r] = sweep[r]
        <2>1. CASE r = s
            BY <1>3, <2>1 DEF Crash, Idle, TypeOK
        <2>2. QED
            BY <1>3, <2>1, OthersKept
    <1>4. CASE OtherStep \/ UNCHANGED vars
        BY <1>4 DEF OtherStep, StopLoad, StopWrite, UpdateProductUrl, ReceiveIngested,
                    ResolveIngested, TouchClaim, vars
    <1>5. CASE Tick \/ \E p \in Purchases : DropBegins(p) \/ DropEnds(p)
        BY <1>5 DEF Tick, DropBegins, DropEnds
    <1>6. QED
        BY <1>1, <1>2, <1>3, <1>4, <1>5 DEF Next, Environment

\* Who may have stored which claim: the claims of a slot for a purchase are
\* further apart than the window, and from what it is about to store.
Owns(owner) ==
    /\ \A i, k \in DOMAIN claims :
          (i < k /\ owner[i] = owner[k] /\ claims[i].p = claims[k].p)
             => claims[i].at < claims[k].at - Dedup
    /\ \A s \in Sweeps : At(s, "store") =>
          \A i \in ClaimsOf(Current(s)) : owner[i] = s => claims[i].at < sweep[s].now - Dedup

OwnerInv == AgeInv /\ \E owner \in [DOMAIN claims -> Sweeps] : Owns(owner)

LEMMA NextOwner == OwnerInv /\ [Next]_vars => OwnerInv'
    <1> SUFFICES ASSUME OwnerInv, [Next]_vars PROVE OwnerInv'
        OBVIOUS
    <1>1. AgeInv /\ AgeInv' /\ TypeOK /\ clock \in Nat /\ Dedup \in Nat
        BY NextAge, LadderAssumption DEF OwnerInv, AgeInv, StopInv, TypeOK
    <1>2. PICK owner \in [DOMAIN claims -> Sweeps] : Owns(owner)
        BY DEF OwnerInv
    <1>3. \A i \in DOMAIN claims : claims[i].at \in Nat /\ claims[i].updated \in Nat
        BY <1>1, ClaimFields DEF Claim
    <1>4. \A s \in Sweeps : sweep[s].now \in Nat /\ sweep[s].now <= clock
        BY <1>1, SweepFields DEF AgeInv, StopInv, NothingLater
    <1>5. CASE Carried
        <2>1. ASSUME NEW s \in Sweeps, sweep'[s].pc = "store",
                     NEW i \in DOMAIN claims, claims[i].p = sweep'[s].cur, owner[i] = s
              PROVE  claims[i].at < sweep'[s].now - Dedup
            <3>1. CASE sweep'[s] = sweep[s]
                BY <1>2, <2>1, <3>1 DEF Owns, At, ClaimsOf, Current
            <3>2. CASE CheckDedup(s)
                <4>1. ~RecentlyClaimed(sweep[s].cur, sweep[s].now)
                    BY <1>1, <2>1, <3>2, GotoKeeps DEF CheckDedup, Current
                <4>2. sweep'[s].cur = sweep[s].cur /\ sweep'[s].now = sweep[s].now
                    <5>1. PICK step : sweep'[s] = [sweep[s] EXCEPT !.pc = step]
                        BY <1>1, <3>2 DEF CheckDedup, Goto, TypeOK
                    <5>2. QED
                        BY <1>1, <5>1, SweepFields DEF Sweep
                <4>3. ~(claims[i].updated >= sweep[s].now - Dedup)
                    BY <2>1, <4>1, <4>2 DEF RecentlyClaimed, ClaimsOf
                <4>4. claims[i].at <= claims[i].updated
                    BY <1>1 DEF AgeInv, Aged
                <4>5. QED
                    BY <1>1, <1>3, <1>4, <4>2, <4>3, <4>4
            <3>3. QED
                BY <1>1, <2>1, <3>1, <3>2, ComesToStore
        <2>2. Owns(owner)'
            BY <1>2, <1>5, <2>1 DEF Owns, Carried, At, ClaimsOf, Current
        <2>3. QED
            BY <1>1, <1>2, <1>5, <2>2 DEF OwnerInv, Carried
    <1>6. ASSUME NEW s \in Sweeps, StoreShell(s) PROVE OwnerInv'
        <2> DEFINE n == Len(claims) + 1
        <2>1. PICK new : new = [i \in DOMAIN claims' |-> IF i = n THEN s ELSE owner[i]]
            OBVIOUS
        <2>2. /\ DOMAIN claims' = DOMAIN claims \cup {n} /\ n \notin DOMAIN claims
              /\ \A i \in DOMAIN claims : claims'[i] = claims[i] /\ i \in Nat /\ i < n
              /\ n \in Nat /\ claims'[n].p = Current(s) /\ claims'[n].at = clock
              /\ sweep'[s].pc = "publish"
            <3>1. /\ Len(claims) \in Nat /\ DOMAIN claims = 1..Len(claims)
                  /\ DOMAIN claims' = DOMAIN claims \cup {n}
                  /\ \A i \in DOMAIN claims : claims'[i] = claims[i]
                  /\ claims'[n].p = Current(s) /\ claims'[n].at = clock
                  /\ sweep'[s].pc = "publish"
                BY <1>1, <1>6, Appended
            <3>2. n \in Nat /\ n \notin DOMAIN claims /\ \A i \in DOMAIN claims : i \in Nat /\ i < n
                BY <3>1
            <3>3. QED
                BY <3>1, <3>2
        <2>3. new \in [DOMAIN claims' -> Sweeps]
            BY <1>2, <2>1, <2>2
        <2>4. new[n] = s /\ \A i \in DOMAIN claims : new[i] = owner[i]
            BY <2>1, <2>2
        <2>5. \A r \in Sweeps \ {s} : sweep'[r] = sweep[r]
            BY <1>1, <1>6, OthersKept DEF SweepStep
        <2> HIDE DEF n
        <2>6. ASSUME NEW i \in DOMAIN claims', NEW k \in DOMAIN claims',
                     i < k, new[i] = new[k], claims'[i].p = claims'[k].p
              PROVE  claims'[i].at < claims'[k].at - Dedup
            <3>1. i \in DOMAIN claims
                BY <2>2, <2>6
            <3>2. CASE k \in DOMAIN claims
                BY <1>2, <2>2, <2>4, <2>6, <3>1, <3>2 DEF Owns
            <3>3. CASE k = n
                <4>1. claims[i].at < sweep[s].now - Dedup
                    BY <1>2, <1>6, <2>2, <2>4, <2>6, <3>1, <3>3
                       DEF Owns, StoreShell, ClaimsOf
                <4>2. QED
                    BY <1>1, <1>3, <1>4, <2>2, <3>1, <3>3, <4>1
            <3>4. QED
                BY <2>2, <3>2, <3>3
        <2>7. ASSUME NEW r \in Sweeps, sweep'[r].pc = "store",
                     NEW i \in DOMAIN claims', claims'[i].p = sweep'[r].cur, new[i] = r
              PROVE  claims'[i].at < sweep'[r].now - Dedup
            <3>1. r # s /\ sweep'[r] = sweep[r] /\ i \in DOMAIN claims
                BY <2>2, <2>4, <2>5, <2>7
            <3>2. QED
                BY <1>2, <2>2, <2>4, <2>7, <3>1 DEF Owns, At, ClaimsOf, Current
        <2>8. Owns(new)'
            BY <2>6, <2>7 DEF Owns, At, ClaimsOf, Current
        <2>9. QED
            BY <1>1, <2>3, <2>8 DEF OwnerInv
    <1>7. QED
        BY <1>1, <1>5, <1>6, ClaimKinds

\* Within one window a purchase gets at most one claim per slot for sweeps.
THEOREM OneClaimPerSlot == Spec => []OneClaimPerRunningSweep
    <1>1. Init => OwnerInv
        <2> SUFFICES ASSUME Init PROVE OwnerInv
            OBVIOUS
        <2>1. DOMAIN claims = {} /\ \A s \in Sweeps : ~At(s, "store")
            BY DEF Init, At, Idle
        <2> DEFINE owner == [i \in {} |-> i]
        <2>2. owner \in [{} -> Sweeps]
            OBVIOUS
        <2>3. Owns(owner)
            BY <2>1 DEF Owns
        <2>4. QED
            BY <2>1, <2>2, <2>3, InitAge DEF OwnerInv
    <1>2. ASSUME OwnerInv PROVE OneClaimPerRunningSweep
        <2> SUFFICES ASSUME NEW j \in DOMAIN claims
                     PROVE  Cardinality({i \in ClaimsOf(claims[j].p) :
                                claims[i].at \in claims[j].at - Dedup .. claims[j].at})
                              <= Cardinality(Sweeps)
            BY DEF OneClaimPerRunningSweep
        <2>1. PICK owner \in [DOMAIN claims -> Sweeps] : Owns(owner)
            BY <1>2 DEF OwnerInv
        <2> DEFINE W == {i \in ClaimsOf(claims[j].p) :
                           claims[i].at \in claims[j].at - Dedup .. claims[j].at}
                   f == [i \in W |-> owner[i]]
        <2>2. /\ \A i \in DOMAIN claims : claims[i].at \in Nat
              /\ Dedup \in Nat /\ DOMAIN claims \subseteq Nat
            <3>1. TypeOK
                BY <1>2 DEF OwnerInv, AgeInv, StopInv
            <3>2. \A i \in DOMAIN claims : claims[i].at \in Nat
                BY <3>1, ClaimFields DEF Claim
            <3>3. claims \in Seq(Claim) /\ Dedup \in Nat
                BY <3>1, LadderAssumption DEF TypeOK
            <3>4. DOMAIN claims \subseteq Nat
                BY <3>3
            <3>5. QED
                BY <3>2, <3>3, <3>4
        <2>3. ASSUME NEW i \in W, NEW k \in W, owner[i] = owner[k], i < k PROVE FALSE
            <3>1. claims[i].at < claims[k].at - Dedup
                BY <2>1, <2>3 DEF Owns, ClaimsOf
            <3>2. QED
                BY <2>2, <2>3, <3>1 DEF ClaimsOf
        <2>4. \A i, k \in W : owner[i] = owner[k] => i = k
            BY <2>2, <2>3 DEF ClaimsOf
        <2>5. W \subseteq DOMAIN claims
            BY DEF ClaimsOf
        <2> HIDE DEF W
        <2>6. f \in Injection(W, Sweeps)
            BY <2>1, <2>4, <2>5 DEF Injection, IsInjective
        <2>7. Cardinality(W) <= Cardinality(Sweeps)
            BY <2>6, FS_Injection, InstanceAssumption
        <2>8. QED
            BY <2>7 DEF W
    <1>3. QED
        BY <1>1, <1>2, NextOwner, PTL DEF Spec

-----------------------------------------------------------------------------
(* A check that finds a lasting drop leaves a current claim               *)
(*                                                                         *)
(* The theorem is about the checks that come to their end: a fetch that    *)
(* fails and any other exception in the check are the failures after which *)
(* the finally clause marks a purchase as checked although nothing was     *)
(* compared.  Crashes, writes and publishes may fail as they like.         *)

\* The time of the last check is the time of a sweep that took the purchase to
\* its end: no other step writes it.
LEMMA CheckedSteps ==
    ASSUME TypeOK, [Next]_vars, NEW p \in Purchases
    PROVE  \/ purchase'[p].checked = purchase[p].checked
           \/ \E s \in Sweeps : /\ MarkChecked(s) /\ Current(s) = p
                                /\ purchase'[p].checked = sweep[s].now
    <1> DEFINE Kept == purchase'[p].checked = purchase[p].checked
    <1>1. purchase \in [Purchases -> Purchase] /\ purchase[p] \in Purchase
        BY DEF TypeOK
    <1>2. ASSUME NEW q \in Purchases, NEW new,
                 purchase' = [purchase EXCEPT ![q] = new],
                 new.checked = purchase[q].checked
          PROVE  Kept
        BY <1>1, <1>2
    <1>3. ASSUME NEW s \in Sweeps, NEW q \in Purchases, ExpirePurchase(s, q)
          PROVE  Kept
        <2>1. Flipped(purchase[q]).checked = purchase[q].checked
            BY DEF Flipped, TypeOK, Purchase
        <2>2. QED
            BY <1>2, <1>3, <2>1 DEF ExpirePurchase
    <1>4. ASSUME NEW s \in Sweeps, NEW q \in Purchases, CheckIfDue(s, q)
          PROVE  Kept
        <2>1. ASSUME NEW c, purchase' = [purchase EXCEPT ![q].cadence = c]
              PROVE  Kept
            <3>1. [purchase[q] EXCEPT !.cadence = c].checked = purchase[q].checked
                BY DEF TypeOK, Purchase
            <3>2. purchase' = [purchase EXCEPT ![q] = [purchase[q] EXCEPT !.cadence = c]]
                BY <2>1
            <3>3. QED
                BY <1>2, <3>1, <3>2
        <2>2. QED
            BY <1>4, <2>1 DEF CheckIfDue
    <1>5. ASSUME NEW q \in Purchases, purchase' = [purchase EXCEPT ![q] = Resolved(@)]
          PROVE  Kept
        <2>1. Resolved(purchase[q]).checked = purchase[q].checked
            BY DEF Resolved, TypeOK, Purchase
        <2>2. purchase' = [purchase EXCEPT ![q] = Resolved(purchase[q])]
            BY <1>5
        <2>3. QED
            BY <1>2, <2>1, <2>2
    <1>6. ASSUME NEW q \in Purchases, NEW e, purchase' = [purchase EXCEPT ![q].error = e]
          PROVE  Kept
        <2>1. [purchase[q] EXCEPT !.error = e].checked = purchase[q].checked
            BY DEF TypeOK, Purchase
        <2>2. purchase' = [purchase EXCEPT ![q] = [purchase[q] EXCEPT !.error = e]]
            BY <1>6
        <2>3. QED
            BY <1>2, <2>1, <2>2
    <1>7. ASSUME NEW s \in Sweeps,
                 ResolveUrl(s) \/ ClearError(s) \/ RecordError(s)
          PROVE  Kept
        <2>1. Current(s) \in Purchases
            BY <1>7, SweepFields DEF ResolveUrl, ClearError, RecordError, At
        <2>2. QED
            BY <1>5, <1>6, <1>7, <2>1 DEF ResolveUrl, ClearError, RecordError
    <1>8. ASSUME NEW s \in Sweeps, MarkChecked(s)
          PROVE  Kept \/ (Current(s) = p /\ purchase'[p].checked = sweep[s].now)
        <2> DEFINE marked == Checked(purchase[Current(s)], Copied(s), sweep[s].now)
        <2>1. Current(s) \in Purchases
            BY <1>8, SweepFields DEF MarkChecked, At
        <2>2. marked.checked = sweep[s].now
            BY <2>1 DEF Checked, TypeOK, Purchase
        <2>3. CASE purchase' = [purchase EXCEPT ![Current(s)] = marked]
            <3> HIDE DEF marked
            <3>1. QED
                BY <1>1, <2>1, <2>2, <2>3
        <2>4. QED
            BY <1>8, <2>3 DEF MarkChecked
    <1>9. ASSUME NEW q \in Purchases, StopWrite(q)
          PROVE  Kept
        <2>1. [purchase[q] EXCEPT !.status = "dismissed"].checked = purchase[q].checked
            BY DEF TypeOK, Purchase
        <2>2. purchase' = [purchase EXCEPT ![q] = [purchase[q] EXCEPT !.status = "dismissed"]]
            BY <1>9 DEF StopWrite
        <2>3. QED
            BY <1>2, <2>1, <2>2
    <1>10. ASSUME NEW q \in Purchases, UpdateProductUrl(q)
           PROVE  Kept
        <2>1. PICK u : purchase' = [purchase EXCEPT ![q].url = u, ![q].error = "none"]
            BY <1>10 DEF UpdateProductUrl
        <2>2. [purchase[q] EXCEPT !.url = u, !.error = "none"].checked = purchase[q].checked
            BY DEF TypeOK, Purchase
        <2>3. purchase' = [purchase EXCEPT ![q] = [purchase[q] EXCEPT !.url = u,
                                                                      !.error = "none"]]
            BY <1>1, <2>1
        <2>4. QED
            BY <1>2, <2>2, <2>3
    <1>11. ASSUME NEW q \in Purchases, ResolveIngested(q)
           PROVE  Kept
        BY <1>5, <1>11 DEF ResolveIngested
    <1>12. CASE UNCHANGED purchase
        BY <1>12
    <1>13. QED
        <2>1. ASSUME NEW s \in Sweeps, StartSweep(s) \/ SweepStep(s)
              PROVE  Kept \/ MarkChecked(s)
            BY <1>3, <1>4, <1>7, <1>12, <2>1
               DEF StartSweep, SweepStep, FetchFails, Fetch, PersistPriceHistory,
                   CheckRaises, CheckDedup, StoreShell, PublishDrop
        <2>2. CASE OtherStep
            BY <1>9, <1>10, <1>11, <1>12, <2>2
               DEF OtherStep, StopLoad, ReceiveIngested, TouchClaim
        <2>3. CASE Environment \/ UNCHANGED vars
            BY <1>12, <2>3 DEF Environment, DropBegins, DropEnds, Tick, Crash, vars
        <2>4. QED
            BY <1>8, <2>1, <2>2, <2>3 DEF Next

\* The shop's price changes on its own: a drop begins now, or ends.
LEMMA PriceSteps ==
    ASSUME TypeOK, [Next]_vars, NEW p \in Purchases
    PROVE  \/ price'[p] = price[p]
           \/ /\ price'[p].drop = 0 \/ price'[p].since = clock
              /\ UNCHANGED <<purchase, sweep, claims, clock>>
    <1>1. price \in [Purchases -> [drop : Nat, drops : Nat, since : Nat]]
        BY DEF TypeOK
    <1>2. ASSUME NEW q \in Purchases, DropBegins(q) \/ DropEnds(q)
          PROVE  /\ price'[p] = price[p] \/ price'[p].drop = 0 \/ price'[p].since = clock
                 /\ UNCHANGED <<purchase, sweep, claims, clock>>
        <2>1. CASE DropBegins(q)
            BY <1>1, <2>1 DEF DropBegins
        <2>2. CASE DropEnds(q)
            <3>1. [price[q] EXCEPT !.drop = 0].drop = 0
                BY <1>1
            <3>2. price' = [price EXCEPT ![q] = [price[q] EXCEPT !.drop = 0]]
                BY <2>2 DEF DropEnds
            <3>3. price'[p] = price[p] \/ price'[p].drop = 0
                BY <1>1, <3>1, <3>2
            <3>4. QED
                BY <2>2, <3>3 DEF DropEnds
        <2>3. QED
            BY <1>2, <2>1, <2>2
    <1>3. ASSUME NEW s \in Sweeps, StartSweep(s) \/ SweepStep(s) PROVE UNCHANGED price
        BY <1>3 DEF StartSweep, SweepStep, ExpirePurchase, CheckIfDue, ResolveUrl,
                    FetchFails, Fetch, PersistPriceHistory, ClearError, RecordError,
                    MarkChecked, CheckRaises, CheckDedup, StoreShell, PublishDrop
    <1>4. CASE OtherStep
        BY <1>4 DEF OtherStep, StopLoad, StopWrite, UpdateProductUrl, ReceiveIngested,
                    ResolveIngested, TouchClaim
    <1>5. CASE UNCHANGED vars
        BY <1>5 DEF vars
    <1>6. QED
        BY <1>2, <1>3, <1>4, <1>5 DEF Next, Environment, Tick, Crash

\* A claim that is current stays so: writes only move its time forward.
LEMMA ClaimsLast ==
    ASSUME AgeInv, [Next]_vars, NEW p, NEW n \in Int,
           NEW i \in ClaimsOf(p), claims[i].updated >= n
    PROVE  i \in DOMAIN claims' /\ claims'[i].p = p /\ claims'[i].updated >= n
    <1>1. TypeOK /\ i \in DOMAIN claims /\ claims[i].p = p
        BY DEF AgeInv, StopInv, ClaimsOf
    <1>2. claims[i].updated \in Nat /\ clock \in Nat /\ claims[i].updated <= clock
        <2>1. claims[i].updated \in Nat
            BY <1>1, ClaimFields DEF Claim
        <2>2. QED
            BY <1>1, <2>1 DEF AgeInv, Aged, TypeOK
    <1>3. CASE Carried
        BY <1>1, <1>2, <1>3 DEF Carried
    <1>4. ASSUME NEW s \in Sweeps, StoreShell(s)
          PROVE  i \in DOMAIN claims' /\ claims'[i] = claims[i]
        BY <1>1, <1>4, Appended
    <1>5. QED
        BY <1>1, <1>3, <1>4, ClaimKinds

\* What a sweep past the fetch knows of a covered purchase whose drop began
\* before the sweep: it saw that drop, and once it is past the store there is a
\* claim that is current for it.
Judged(s) ==
    (sweep[s].pc \notin {"idle", "next", "resolve", "fetch"} /\ Current(s) \in Covered \ Live) =>
        /\ sweep[s].pc \notin {"error", "history"}
        /\ (price[Current(s)].drop # 0 /\ price[Current(s)].since < sweep[s].now) =>
              /\ sweep[s].seen = price[Current(s)].drop
              /\ sweep[s].pc \in {"publish", "checked"} =>
                    RecentlyClaimed(Current(s), sweep[s].now)

DropInv ==
    /\ AgeInv
    /\ \A p \in Purchases : purchase[p].checked <= clock
    /\ \A s \in Sweeps : Judged(s)
    /\ CheckedDropHasClaim

\* A step of a sweep keeps it judged, when no check fails.
LEMMA StepJudges ==
    ASSUME {"fetch", "raise"} \cap FaultKinds = {},
           AgeInv, [Next]_vars, NEW s \in Sweeps, Judged(s), SweepStep(s)
    PROVE  Judged(s)'
    <1>1. TypeOK /\ sweep[s].now \in Nat /\ clock \in Nat /\ sweep[s].now <= clock
        BY SweepFields DEF AgeInv, StopInv, NothingLater, TypeOK
    <1>2. Dedup \in Nat /\ sweep[s].now - Dedup \in Int
        BY <1>1, LadderAssumption
    <1>3. CASE sweep'[s].pc \in {"idle", "next", "resolve", "fetch"}
        BY <1>3 DEF Judged
    <1>4. CASE \E p \in Purchases : ExpirePurchase(s, p) \/ CheckIfDue(s, p)
        <2>1. PICK p \in Purchases : ExpirePurchase(s, p) \/ CheckIfDue(s, p)
            BY <1>4
        <2>2. CASE Done(s, p)
            BY <1>1, <1>3, <2>2, DoneClaimsNothing
        <2>3. ASSUME NEW step \in {"resolve", "fetch"},
                     sweep' = [sweep EXCEPT ![s].cur = p, ![s].pc = step]
              PROVE  Judged(s)'
            <3>1. sweep'[s] = [sweep[s] EXCEPT !.cur = p, !.pc = step]
                BY <1>1, <2>3 DEF TypeOK
            <3>2. sweep'[s].pc = step
                BY <1>1, <3>1, SweepFields DEF Sweep
            <3>3. QED
                BY <1>3, <3>2
        <2>4. QED
            BY <2>1, <2>2, <2>3 DEF ExpirePurchase, CheckIfDue
    <1>5. CASE ResolveUrl(s)
        <2>1. CASE Goto(s, "fetch")
            BY <1>1, <1>3, <2>1, GotoKeeps
        <2>2. CASE sweep' = [sweep EXCEPT ![s].pc = "fetch",
                                          ![s].copy[Current(s)].url = "found"]
            <3>1. sweep'[s] = [sweep[s] EXCEPT !.pc = "fetch",
                                               !.copy[Current(s)].url = "found"]
                BY <1>1, <2>2 DEF TypeOK
            <3>2. sweep'[s].pc = "fetch"
                BY <1>1, <3>1, SweepFields DEF Sweep
            <3>3. QED
                BY <1>3, <3>2
        <2>3. QED
            BY <1>5, <2>1, <2>2 DEF ResolveUrl
    <1>6. CASE Fetch(s)
        <2> DEFINE drop == price[Current(s)].drop
        <2>1. PICK step : /\ sweep'[s] = [sweep[s] EXCEPT !.seen = drop, !.pc = step]
                          /\ step = IF Current(s) \in Live THEN "history"
                                    ELSE AfterFetch(s, drop)
            BY <1>1, <1>6 DEF Fetch, TypeOK
        <2>2. /\ sweep'[s].pc = step /\ sweep'[s].seen = drop
              /\ sweep'[s].cur = sweep[s].cur /\ sweep'[s].now = sweep[s].now
            BY <1>1, <2>1, SweepFields DEF Sweep
        <2>3. UNCHANGED price
            BY <1>6 DEF Fetch
        <2>4. CASE Current(s) \in Covered \ Live
            <3>1. step \in {"clear", "dedup", "checked"} /\ (step = "checked" => drop = 0)
                BY <2>1, <2>4 DEF AfterFetch
            <3>2. QED
                BY <2>2, <2>3, <3>1 DEF Judged, Current
        <2>5. QED
            BY <2>2, <2>4 DEF Judged, Current
    <1>7. ASSUME NEW step, Goto(s, step), UNCHANGED <<price, claims>>,
                 sweep[s].pc \notin {"idle", "next", "resolve", "fetch"},
                 Current(s) \in Covered \ Live => step \notin {"error", "history", "publish"},
                 step = "checked" /\ Current(s) \in Covered \ Live
                    /\ price[Current(s)].drop # 0 /\ price[Current(s)].since < sweep[s].now
                    => RecentlyClaimed(Current(s), sweep[s].now)
          PROVE  Judged(s)'
        <2>1. sweep'[s] = [sweep[s] EXCEPT !.pc = step]
            BY <1>1, <1>7 DEF Goto, TypeOK
        <2>2. /\ sweep'[s].pc = step /\ sweep'[s].cur = sweep[s].cur
              /\ sweep'[s].seen = sweep[s].seen /\ sweep'[s].now = sweep[s].now
            BY <1>1, <2>1, SweepFields DEF Sweep
        <2>3. QED
            BY <1>7, <2>2 DEF Judged, Current, RecentlyClaimed, ClaimsOf
    <1>8. CASE FetchFails(s)
        <2>1. Current(s) \in Live /\ Goto(s, "error")
            BY <1>8 DEF FetchFails, UrlMissing, Fault
        <2>2. sweep'[s].cur = sweep[s].cur
            BY <1>1, <2>1, GotoKeeps
        <2>3. QED
            BY <2>1, <2>2 DEF Judged, Current
    <1>9. CASE PersistPriceHistory(s)
        <2>1. Goto(s, AfterFetch(s, sweep[s].seen)) /\ sweep[s].pc = "history"
            BY <1>9 DEF PersistPriceHistory, At
        <2>2. sweep'[s].cur = sweep[s].cur /\ Current(s) \notin Covered \ Live
            BY <1>1, <2>1, GotoKeeps DEF Judged
        <2>3. QED
            BY <2>2 DEF Judged, Current
    <1>10. CASE ClearError(s)
        <2>1. PICK step : /\ Goto(s, step)
                          /\ step = IF sweep[s].seen # 0 /\ Current(s) \in Covered
                                    THEN "dedup" ELSE "checked"
            BY <1>10 DEF ClearError
        <2>2. sweep[s].pc = "clear" /\ UNCHANGED <<price, claims>>
            BY <1>10 DEF ClearError, At
        <2>3. QED
            BY <1>7, <2>1, <2>2 DEF Judged
    <1>11. CASE RecordError(s)
        <2>1. Goto(s, "checked") /\ sweep[s].pc = "error"
            BY <1>11 DEF RecordError, At
        <2>2. sweep'[s].cur = sweep[s].cur /\ Current(s) \notin Covered \ Live
            BY <1>1, <2>1, GotoKeeps DEF Judged
        <2>3. QED
            BY <2>2 DEF Judged, Current
    <1>12. CASE MarkChecked(s)
        BY <1>1, <1>3, <1>12, DoneClaimsNothing DEF MarkChecked
    <1>13. ~CheckRaises(s)
        BY DEF CheckRaises, Fault
    <1>14. CASE CheckDedup(s)
        <2>1. PICK step : /\ Goto(s, step) /\ step \in {"checked", "store"}
                          /\ step = "checked" => RecentlyClaimed(Current(s), sweep[s].now)
            BY <1>14 DEF CheckDedup
        <2>2. sweep[s].pc = "dedup" /\ UNCHANGED <<price, claims>>
            BY <1>14 DEF CheckDedup, At
        <2>3. QED
            BY <1>7, <2>1, <2>2
    <1>15. CASE StoreShell(s)
        <2>1. sweep'[s] = [sweep[s] EXCEPT !.pc = "publish", !.claim = Len(claims) + 1]
            BY <1>1, <1>15 DEF StoreShell, TypeOK
        <2>2. /\ sweep'[s].pc = "publish" /\ sweep'[s].cur = sweep[s].cur
              /\ sweep'[s].seen = sweep[s].seen /\ sweep'[s].now = sweep[s].now
            BY <1>1, <2>1, SweepFields DEF Sweep
        <2>3. sweep[s].pc = "store" /\ UNCHANGED price
            BY <1>15 DEF StoreShell, At
        <2>4. PICK i \in DOMAIN claims' : claims'[i].p = Current(s) /\ claims'[i].updated = clock
            BY <1>1, <1>15, Appended
        <2>5. claims'[i].updated >= sweep[s].now - Dedup
            BY <1>1, <1>2, <2>4
        <2>6. QED
            BY <2>2, <2>3, <2>4, <2>5 DEF Judged, Current, RecentlyClaimed, ClaimsOf
    <1>16. CASE PublishDrop(s)
        <2>1. /\ sweep[s].pc = "publish" /\ UNCHANGED price /\ Goto(s, "checked")
            BY <1>16 DEF PublishDrop, At
        <2>2. sweep'[s] = [sweep[s] EXCEPT !.pc = "checked"]
            BY <1>1, <2>1 DEF Goto, TypeOK
        <2>3. /\ sweep'[s].pc = "checked" /\ sweep'[s].cur = sweep[s].cur
              /\ sweep'[s].seen = sweep[s].seen /\ sweep'[s].now = sweep[s].now
            BY <1>1, <2>2, SweepFields DEF Sweep
        <2>4. ASSUME RecentlyClaimed(Current(s), sweep[s].now)
              PROVE  \E i \in DOMAIN claims' : /\ claims'[i].p = Current(s)
                                               /\ claims'[i].updated >= sweep[s].now - Dedup
            BY <1>2, <2>4, ClaimsLast DEF RecentlyClaimed
        <2>5. QED
            BY <2>1, <2>3, <2>4 DEF Judged, Current, RecentlyClaimed, ClaimsOf
    <1>17. QED
        BY <1>4, <1>5, <1>6, <1>8, <1>9, <1>10, <1>11, <1>12, <1>13, <1>14, <1>15, <1>16
           DEF SweepStep

\* Neither the clock, nor the shop's price, nor what others do to the claims
\* makes a judged sweep wrong: a drop that begins meanwhile is not older than it.
LEMMA JudgedStays ==
    ASSUME AgeInv, [Next]_vars, NEW s \in Sweeps, Judged(s), sweep'[s] = sweep[s]
    PROVE  Judged(s)'
    <1> DEFINE p == Current(s)
    <1>1. /\ TypeOK /\ sweep[s].now \in Nat /\ clock \in Nat /\ sweep[s].now <= clock
          /\ sweep[s].now - Dedup \in Int
        <2>1. TypeOK /\ sweep[s].now \in Nat /\ clock \in Nat /\ sweep[s].now <= clock
            BY SweepFields DEF AgeInv, StopInv, NothingLater, TypeOK
        <2>2. QED
            BY <2>1, LadderAssumption
    <1>2. CASE sweep[s].pc \in {"idle", "next", "resolve", "fetch"}
        BY <1>2 DEF Judged
    <1>3. CASE sweep[s].pc \notin {"idle", "next", "resolve", "fetch"}
        <2>1. p \in Purchases /\ p = sweep[s].cur
            BY <1>1, <1>3, SweepFields DEF Current
        <2>2. ASSUME RecentlyClaimed(p, sweep[s].now)
              PROVE  \E i \in DOMAIN claims' : /\ claims'[i].p = p
                                               /\ claims'[i].updated >= sweep[s].now - Dedup
            BY <1>1, <2>2, ClaimsLast DEF RecentlyClaimed
        <2>3. CASE price'[p] = price[p]
            BY <2>1, <2>2, <2>3 DEF Judged, Current, RecentlyClaimed, ClaimsOf
        <2>4. CASE price'[p].drop = 0 \/ price'[p].since = clock
            <3>1. ~(price'[p].drop # 0 /\ price'[p].since < sweep[s].now)
                BY <1>1, <2>4
            <3>2. QED
                BY <2>1, <3>1 DEF Judged, Current
        <2>5. QED
            BY <1>1, <2>1, <2>3, <2>4, PriceSteps
    <1>4. QED
        BY <1>2, <1>3

LEMMA NextDrop ==
    ASSUME {"fetch", "raise"} \cap FaultKinds = {}, DropInv, [Next]_vars
    PROVE  DropInv'
    <1>1. AgeInv /\ AgeInv' /\ TypeOK /\ TypeOK'
        BY NextAge DEF DropInv, AgeInv, StopInv
    <1>2. /\ clock \in Nat /\ clock' \in Nat /\ clock <= clock'
          /\ \A s \in Sweeps : sweep[s].now \in Nat /\ sweep[s].now <= clock
          /\ Dedup \in Nat
        BY <1>1, ClockGrows, SweepFields, LadderAssumption DEF AgeInv, StopInv, NothingLater
    <1>3. ASSUME NEW p \in Purchases
          PROVE  purchase'[p].checked <= clock'
        <2>1. purchase[p].checked \in Int /\ purchase[p].checked <= clock
            BY <1>1 DEF DropInv, TypeOK, Purchase, Never
        <2>2. QED
            BY <1>1, <1>2, <2>1, CheckedSteps
    <1>4. ASSUME NEW r \in Sweeps
          PROVE  Judged(r)'
        <2>1. CASE sweep'[r] = sweep[r]
            BY <1>1, <2>1, JudgedStays DEF DropInv
        <2>2. CASE sweep'[r].pc \in {"idle", "next"}
            BY <2>2 DEF Judged
        <2>3. ASSUME NEW s \in Sweeps, StartSweep(s)
              PROVE  Judged(r)'
            <3>1. CASE r # s
                BY <1>1, <2>1, <2>3, <3>1, OthersKept
            <3>2. CASE r = s /\ Listed # {}
                <4>1. PICK copy : sweep'[r] = [Idle EXCEPT !.pc = "next", !.now = clock,
                                                           !.todo = Listed, !.copy = copy]
                    BY <1>1, <2>3, <3>2 DEF StartSweep, TypeOK
                <4>2. sweep'[r].pc = "next"
                    BY <4>1 DEF Idle
                <4>3. QED
                    BY <2>2, <4>2
            <3>3. CASE r = s /\ Listed = {}
                BY <2>1, <2>3, <3>3 DEF StartSweep
            <3>4. QED
                BY <3>1, <3>2, <3>3
        <2>4. ASSUME NEW s \in Sweeps, SweepStep(s)
              PROVE  Judged(r)'
            BY <1>1, <2>1, <2>4, OthersKept, StepJudges DEF DropInv
        <2>5. ASSUME NEW s \in Sweeps, Crash(s)
              PROVE  Judged(r)'
            <3>1. CASE r = s
                BY <1>1, <2>2, <2>5, <3>1 DEF Crash, Idle, TypeOK
            <3>2. QED
                BY <1>1, <2>1, <2>5, <3>1, OthersKept
        <2>6. CASE OtherStep \/ UNCHANGED vars
            BY <2>1, <2>6 DEF OtherStep, StopLoad, StopWrite, UpdateProductUrl,
                              ReceiveIngested, ResolveIngested, TouchClaim, vars
        <2>7. CASE Tick \/ \E p \in Purchases : DropBegins(p) \/ DropEnds(p)
            BY <2>1, <2>7 DEF Tick, DropBegins, DropEnds
        <2>8. QED
            BY <2>3, <2>4, <2>5, <2>6, <2>7 DEF Next, Environment
    <1>5. ASSUME NEW p \in Covered \ Live, price'[p].drop # 0,
                 price'[p].since < purchase'[p].checked
          PROVE  \E i \in DOMAIN claims' : /\ claims'[i].p = p
                                           /\ claims'[i].updated >= purchase'[p].checked - Dedup
        <2>1. p \in Purchases /\ purchase[p].checked \in Int /\ purchase[p].checked <= clock
              /\ purchase[p].checked - Dedup \in Int
            <3>1. p \in Purchases
                BY InstanceAssumption
            <3>2. purchase[p].checked \in Int
                BY <1>1, <3>1 DEF TypeOK, Purchase, Never
            <3>3. QED
                BY <1>2, <3>1, <3>2 DEF DropInv
        <2>2. CASE purchase'[p].checked = purchase[p].checked
            <3>1. price'[p] = price[p]
                <4>1. ~(price'[p].since = clock)
                    BY <1>2, <1>5, <2>1, <2>2
                <4>2. QED
                    BY <1>1, <1>5, <2>1, <4>1, PriceSteps
            <3>2. PICK i \in ClaimsOf(p) : claims[i].updated >= purchase[p].checked - Dedup
                BY <1>5, <2>2, <3>1 DEF DropInv, CheckedDropHasClaim
            <3>3. QED
                BY <1>1, <2>1, <2>2, <3>2, ClaimsLast
        <2>3. ASSUME NEW s \in Sweeps, MarkChecked(s), Current(s) = p,
                     purchase'[p].checked = sweep[s].now
              PROVE  \E i \in DOMAIN claims' :
                        /\ claims'[i].p = p
                        /\ claims'[i].updated >= purchase'[p].checked - Dedup
            <3>1. UNCHANGED <<price, claims>> /\ sweep[s].pc = "checked" /\ Judged(s)
                BY <2>3 DEF MarkChecked, At, DropInv
            <3>2. RecentlyClaimed(p, sweep[s].now)
                BY <1>5, <2>3, <3>1 DEF Judged
            <3>3. QED
                BY <2>3, <3>1, <3>2 DEF RecentlyClaimed, ClaimsOf
        <2>4. QED
            BY <1>1, <2>1, <2>2, <2>3, CheckedSteps
    <1>6. CheckedDropHasClaim'
        BY <1>5 DEF CheckedDropHasClaim, ClaimsOf
    <1>7. QED
        BY <1>1, <1>3, <1>4, <1>6 DEF DropInv

\* When no check is cut short, a check that finds a lasting drop leaves the
\* purchase with a claim that was current at that check, whatever crashes, which
\* writes and publishes fail, and whatever other sweeps and users do meanwhile.
THEOREM CheckedDropsAreClaimed ==
    ASSUME {"fetch", "raise"} \cap FaultKinds = {}
    PROVE  Spec => []CheckedDropHasClaim
    <1>1. Init => DropInv
        <2> SUFFICES ASSUME Init PROVE DropInv
            OBVIOUS
        <2>1. \A s \in Sweeps : Judged(s)
            BY DEF Init, Judged, Idle
        <2>2. \A p \in Purchases : purchase[p].checked = Never /\ price[p].drop = 0 /\ clock = 0
            BY DEF Init
        <2>3. CheckedDropHasClaim
            BY <2>2, InstanceAssumption DEF CheckedDropHasClaim
        <2>4. QED
            BY <2>1, <2>2, <2>3, InitAge DEF DropInv, Never
    <1>2. DropInv /\ [Next]_vars => DropInv'
        BY NextDrop
    <1>3. DropInv => CheckedDropHasClaim
        BY DEF DropInv
    <1>4. QED
        BY <1>1, <1>2, <1>3, PTL DEF Spec

-----------------------------------------------------------------------------
(* Checks keep up                                                          *)
(*                                                                         *)
(* When sweeps start and end on time, and neither die nor fail to write,   *)
(* a monitored purchase is either settled - inside its window and checked  *)
(* within the cadence of what is left of it - or still on the list of a    *)
(* sweep that runs.  Fetches, publishes and the check itself may fail.     *)

Settled(p) ==
    /\ clock < Window[p]
    /\ purchase[p].checked # Never
    /\ clock - purchase[p].checked < TargetCadence(Window[p], clock)

\* A sweep that runs started now and takes up what is inside its window; the
\* time of the last check in its copy is outdated only by a check of this moment.
InTime(s) ==
    /\ At(s, "idle") => sweep[s].todo = {}
    /\ ~At(s, "idle") => sweep[s].now = clock /\ swept = clock
    /\ sweep[s].pc \notin {"idle", "next"} => clock < Window[sweep[s].cur]
    /\ \A p \in sweep[s].todo : purchase[p].checked \in {sweep[s].copy[p].checked, clock}

KeptUp ==
    /\ \A s \in Sweeps : InTime(s)
    /\ swept <= clock
    /\ swept = clock => \A p \in Listed : Settled(p) \/ \E s \in Sweeps : p \in sweep[s].todo

KeepInv == StopInv /\ KeptUp

\* What a step of a sweep does to its list: the check goes on ...
CheckGoesOn(s) ==
    /\ sweep[s].pc # "idle" /\ sweep'[s].pc # "idle"
    /\ sweep'[s].now = sweep[s].now /\ sweep'[s].todo = sweep[s].todo
    /\ \A p \in Purchases : sweep'[s].copy[p].checked = sweep[s].copy[p].checked
    /\ sweep'[s].pc # "next" =>
          \/ sweep'[s].cur = sweep[s].cur /\ sweep[s].pc # "next"
          \/ sweep'[s].cur \in Purchases /\ sweep[s].now < Window[sweep'[s].cur]

\* ... or it is done with a purchase, whose window has closed, which is not due,
\* or which it has checked.
CheckEnds(s, p) ==
    /\ sweep[s].pc # "idle" /\ p \in sweep[s].todo /\ Done(s, p)
    /\ \/ purchase'[p].status = "expired"
       \/ /\ sweep[s].now < Window[p]
          /\ ~IsDue(sweep[s].copy[p], TargetCadence(Window[p], sweep[s].now), sweep[s].now)
       \/ MarkChecked(s) /\ p = Current(s) /\ purchase'[p].checked = sweep[s].now

LEMMA CheckGoto ==
    ASSUME TypeOK, NEW s \in Sweeps, NEW step, step \notin {"idle", "next"}, Goto(s, step),
           sweep[s].pc \notin {"idle", "next"}
    PROVE  CheckGoesOn(s)
    <1>1. sweep'[s] = [sweep[s] EXCEPT !.pc = step]
        BY DEF Goto, TypeOK
    <1>2. /\ sweep'[s].pc = step /\ sweep'[s].cur = sweep[s].cur /\ sweep'[s].now = sweep[s].now
          /\ sweep'[s].todo = sweep[s].todo /\ sweep'[s].copy = sweep[s].copy
        BY <1>1, SweepFields DEF Sweep
    <1>3. QED
        BY <1>2 DEF CheckGoesOn

LEMMA CheckStep ==
    ASSUME "write" \notin FaultKinds, TypeOK, NEW s \in Sweeps, HandListed(s), SweepStep(s)
    PROVE  CheckGoesOn(s) \/ \E p \in Purchases : CheckEnds(s, p)
    <1>1. ASSUME NEW p \in Purchases, ExpirePurchase(s, p)
          PROVE  CheckEnds(s, p)
        <2>1. purchase' = [purchase EXCEPT ![p] = Flipped(purchase[p])]
            BY <1>1 DEF ExpirePurchase, Fault
        <2>2. Flipped(purchase[p]).status = "expired"
            BY DEF Flipped, TypeOK, Purchase
        <2>3. purchase'[p].status = "expired"
            BY <2>1, <2>2 DEF TypeOK
        <2>4. QED
            BY <1>1, <2>3 DEF CheckEnds, ExpirePurchase, At
    <1>2. ASSUME NEW p \in Purchases, CheckIfDue(s, p)
          PROVE  CheckGoesOn(s) \/ CheckEnds(s, p)
        <2>1. sweep[s].pc = "next" /\ p \in sweep[s].todo /\ sweep[s].now < Window[p]
            <3>1. sweep[s].now \in Nat /\ Window[p] \in Nat
                BY SweepFields, InstanceAssumption
            <3>2. QED
                BY <1>2, <3>1 DEF CheckIfDue, At
        <2>2. CASE /\ Done(s, p)
                   /\ ~IsDue(sweep[s].copy[p], TargetCadence(Window[p], sweep[s].now), sweep[s].now)
            BY <2>1, <2>2 DEF CheckEnds
        <2>3. ASSUME NEW step \in {"resolve", "fetch"},
                     sweep' = [sweep EXCEPT ![s].cur = p, ![s].pc = step]
              PROVE  CheckGoesOn(s)
            <3>1. sweep'[s] = [sweep[s] EXCEPT !.cur = p, !.pc = step]
                BY <2>3 DEF TypeOK
            <3>2. /\ sweep'[s].pc = step /\ sweep'[s].cur = p
                  /\ sweep'[s].now = sweep[s].now /\ sweep'[s].todo = sweep[s].todo
                  /\ sweep'[s].copy = sweep[s].copy
                BY <3>1, SweepFields DEF Sweep
            <3>3. QED
                BY <2>1, <3>2 DEF CheckGoesOn
        <2>4. QED
            BY <1>2, <2>2, <2>3 DEF CheckIfDue, Fault
    <1>3. CASE ResolveUrl(s)
        <2>1. sweep[s].pc = "resolve"
            BY <1>3 DEF ResolveUrl, At
        <2>2. CASE Goto(s, "fetch")
            BY <2>1, <2>2, CheckGoto
        <2>3. CASE sweep' = [sweep EXCEPT ![s].pc = "fetch",
                                          ![s].copy[Current(s)].url = "found"]
            <3>1. sweep'[s] = [sweep[s] EXCEPT !.pc = "fetch",
                                               !.copy[Current(s)].url = "found"]
                BY <2>3 DEF TypeOK
            <3>2. /\ sweep'[s].pc = "fetch" /\ sweep'[s].cur = sweep[s].cur
                  /\ sweep'[s].now = sweep[s].now /\ sweep'[s].todo = sweep[s].todo
                  /\ sweep'[s].copy = [sweep[s].copy EXCEPT ![Current(s)].url = "found"]
                BY <3>1, SweepFields DEF Sweep
            <3>3. ASSUME NEW p \in Purchases
                  PROVE  sweep'[s].copy[p].checked = sweep[s].copy[p].checked
                <4>1. sweep[s].copy \in [Purchases -> Purchase] /\ sweep[s].copy[p] \in Purchase
                    BY SweepFields
                <4>2. [sweep[s].copy[p] EXCEPT !.url = "found"].checked = sweep[s].copy[p].checked
                    BY <4>1 DEF Purchase
                <4>3. sweep'[s].copy[p] \in {sweep[s].copy[p], [sweep[s].copy[p] EXCEPT !.url = "found"]}
                    BY <3>2, <4>1
                <4>4. QED
                    BY <4>2, <4>3
            <3>4. QED
                BY <2>1, <3>2, <3>3 DEF CheckGoesOn
        <2>4. QED
            BY <1>3, <2>2, <2>3 DEF ResolveUrl
    <1>4. CASE Fetch(s)
        <2> DEFINE drop == price[Current(s)].drop
        <2>1. PICK step : /\ sweep'[s] = [sweep[s] EXCEPT !.seen = drop, !.pc = step]
                          /\ step = IF Current(s) \in Live THEN "history"
                                    ELSE AfterFetch(s, drop)
            BY <1>4 DEF Fetch, TypeOK
        <2>1a. step \notin {"idle", "next"}
            BY <2>1 DEF AfterFetch
        <2> HIDE DEF drop
        <2>2. /\ sweep'[s].pc = step /\ sweep'[s].cur = sweep[s].cur
              /\ sweep'[s].now = sweep[s].now /\ sweep'[s].todo = sweep[s].todo
              /\ sweep'[s].copy = sweep[s].copy
            BY <2>1, SweepFields DEF Sweep
        <2>3. QED
            BY <1>4, <2>1a, <2>2 DEF CheckGoesOn, Fetch, At
    <1>5. CASE MarkChecked(s)
        <2> DEFINE p      == Current(s)
                   marked == Checked(purchase[p], Copied(s), sweep[s].now)
        <2>1. sweep[s].pc = "checked" /\ Done(s, p) /\ purchase' = [purchase EXCEPT ![p] = marked]
            BY <1>5 DEF MarkChecked, At, Fault
        <2>2. p \in Purchases /\ p \in sweep[s].todo
            BY <2>1, SweepFields DEF HandListed, Current
        <2>3. marked.checked = sweep[s].now
            BY <2>2 DEF Checked, TypeOK, Purchase
        <2> HIDE DEF marked
        <2>4. purchase'[p].checked = sweep[s].now
            BY <2>1, <2>2, <2>3 DEF TypeOK
        <2>5. QED
            BY <1>5, <2>1, <2>2, <2>4 DEF CheckEnds
    <1>6. CASE StoreShell(s)
        <2>1. sweep'[s] = [sweep[s] EXCEPT !.pc = "publish", !.claim = Len(claims) + 1]
            BY <1>6 DEF StoreShell, TypeOK
        <2>2. /\ sweep'[s].pc = "publish" /\ sweep'[s].cur = sweep[s].cur
              /\ sweep'[s].now = sweep[s].now /\ sweep'[s].todo = sweep[s].todo
              /\ sweep'[s].copy = sweep[s].copy
            BY <2>1, SweepFields DEF Sweep
        <2>3. QED
            BY <1>6, <2>2 DEF CheckGoesOn, StoreShell, At
    <1>7. CASE \/ FetchFails(s) \/ PersistPriceHistory(s) \/ ClearError(s)
               \/ RecordError(s) \/ CheckRaises(s) \/ CheckDedup(s) \/ PublishDrop(s)
        <2>1. sweep[s].pc \notin {"idle", "next"}
            BY <1>7 DEF FetchFails, PersistPriceHistory, ClearError, RecordError,
                        CheckRaises, CheckDedup, PublishDrop, At
        <2>2. PICK step : Goto(s, step) /\ step \notin {"idle", "next"}
            BY <1>7 DEF FetchFails, PersistPriceHistory, ClearError, RecordError,
                        CheckRaises, CheckDedup, PublishDrop, AfterFetch
        <2>3. QED
            BY <2>1, <2>2, CheckGoto
    <1>8. QED
        BY <1>1, <1>2, <1>3, <1>4, <1>5, <1>6, <1>7 DEF SweepStep

\* A sweep that is done with p keeps the rest of its list, with what it copied.
LEMMA DoneKeepsOthers ==
    ASSUME TypeOK, NEW s \in Sweeps, NEW p \in sweep[s].todo, Done(s, p)
    PROVE  /\ sweep'[s].todo = sweep[s].todo \ {p}
           /\ sweep'[s].pc \in {"idle", "next"}
           /\ sweep'[s].pc = "idle" => sweep'[s].todo = {}
           /\ sweep'[s].pc # "idle" => sweep'[s].now = sweep[s].now
           /\ \A q \in sweep'[s].todo : sweep'[s].copy[q] = sweep[s].copy[q]
    <1>1. CASE sweep[s].todo = {p} /\ sweep'[s] = Idle
        BY <1>1 DEF Idle
    <1>2. CASE sweep[s].todo # {p} /\ sweep'[s] = Without(sweep[s], p)
        <2>1. /\ sweep'[s].pc = "next" /\ sweep'[s].now = sweep[s].now
              /\ sweep'[s].todo = sweep[s].todo \ {p}
              /\ sweep'[s].copy = [sweep[s].copy EXCEPT ![p] = Blank]
            BY <1>2, SweepFields DEF Without, Sweep
        <2>2. sweep[s].todo \subseteq Purchases /\ sweep[s].copy \in [Purchases -> Purchase]
            BY SweepFields DEF Sweep
        <2>3. \A q \in sweep'[s].todo : sweep'[s].copy[q] = sweep[s].copy[q]
            BY <2>1, <2>2
        <2>4. QED
            BY <2>1, <2>3
    <1>3. QED
        BY <1>1, <1>2 DEF Done, TypeOK

\* The rungs of the ladder are positive.
LEMMA LadderPositive ==
    ASSUME NEW expires \in Nat, NEW now \in Nat
    PROVE  TargetCadence(expires, now) \in Nat /\ 0 < TargetCadence(expires, now)
    <1>1. \A c \in {Short, Mid, Long} : c \in Nat /\ 0 < c
        BY LadderAssumption
    <1>2. QED
        BY <1>1, LadderType

\* A step of a sweep keeps every sweep in time and leaves no purchase behind.
LEMMA StepKeeps ==
    ASSUME "write" \notin FaultKinds, KeepInv, [Next]_vars, NEW s \in Sweeps, SweepStep(s)
    PROVE  KeptUp'
    <1>1. /\ TypeOK /\ TypeOK' /\ clock \in Nat /\ HandListed(s)
          /\ InTime(s) /\ UNCHANGED <<clock, swept>>
        <2>1. UNCHANGED <<clock, swept>>
            BY DEF SweepStep, ExpirePurchase, CheckIfDue, ResolveUrl, FetchFails, Fetch,
                   PersistPriceHistory, ClearError, RecordError, MarkChecked, CheckRaises,
                   CheckDedup, StoreShell, PublishDrop
        <2>2. QED
            BY <2>1, StepTypeOK DEF KeepInv, KeptUp, StopInv, TypeOK
    <1>2. CheckGoesOn(s) \/ \E p \in Purchases : CheckEnds(s, p)
        BY <1>1, CheckStep
    <1>3. sweep[s].pc # "idle" /\ sweep[s].now = clock /\ swept = clock
        BY <1>1, <1>2 DEF CheckGoesOn, CheckEnds, InTime, At
    <1>4. ASSUME NEW p \in Purchases, NEW r \in Sweeps, MarkChecked(r), Current(r) = p,
                 purchase'[p].checked = sweep[r].now
          PROVE  purchase'[p].checked = clock /\ Settled(p)'
        <2>1. sweep[r].pc = "checked" /\ InTime(r)
            BY <1>4 DEF MarkChecked, At, KeepInv, KeptUp
        <2>2. purchase'[p].checked = clock /\ clock < Window[p]
            BY <1>4, <2>1 DEF InTime, At, Current
        <2>3. /\ TargetCadence(Window[p], clock) \in Nat
              /\ 0 < TargetCadence(Window[p], clock)
            BY <1>1, LadderPositive, InstanceAssumption
        <2>4. clock - purchase'[p].checked = 0 /\ purchase'[p].checked # Never
            BY <1>1, <2>2 DEF Never
        <2>5. Settled(p)'
            BY <1>1, <2>2, <2>3, <2>4 DEF Settled
        <2>6. QED
            BY <2>2, <2>5
    <1>4a. ASSUME NEW p \in Purchases
           PROVE  /\ purchase'[p].checked \in {purchase[p].checked, clock}
                  /\ purchase'[p].checked = purchase[p].checked \/ Settled(p)'
        BY <1>1, <1>4, CheckedSteps
    <1>5. ASSUME NEW r \in Sweeps, sweep'[r] = sweep[r]
          PROVE  InTime(r)'
        <2>1. InTime(r) /\ sweep[r].todo \subseteq Purchases
            BY <1>1, SweepFields DEF KeepInv, KeptUp, Sweep
        <2>2. \A p \in sweep[r].todo : purchase'[p].checked \in {sweep[r].copy[p].checked, clock}
            BY <1>4a, <2>1 DEF InTime
        <2>3. QED
            BY <1>1, <1>5, <2>1, <2>2 DEF InTime, At
    <1>6. ASSUME NEW r \in Sweeps
          PROVE  InTime(r)'
        <2>1. CASE r # s
            BY <1>1, <1>5, <2>1, OthersKept
        <2>2. CASE r = s /\ CheckGoesOn(s)
            <3>1. sweep[s].todo \subseteq Purchases
                BY <1>1, SweepFields DEF Sweep
            <3>2. \A p \in sweep'[s].todo : purchase'[p].checked \in {sweep'[s].copy[p].checked, clock}
                BY <1>1, <1>4a, <2>2, <3>1 DEF InTime, CheckGoesOn
            <3>3. sweep'[s].pc \notin {"idle", "next"} => clock < Window[sweep'[s].cur]
                BY <1>1, <1>3, <2>2 DEF InTime, CheckGoesOn
            <3>4. QED
                BY <1>1, <1>3, <2>2, <3>2, <3>3 DEF InTime, At, CheckGoesOn
        <2>3. ASSUME r = s, NEW p \in Purchases, CheckEnds(s, p)
              PROVE  InTime(r)'
            <3>1. /\ p \in sweep[s].todo /\ Done(s, p) /\ sweep[s].todo \subseteq Purchases
                BY <1>1, <2>3, SweepFields DEF CheckEnds, Sweep
            <3>2. /\ sweep'[s].todo = sweep[s].todo \ {p}
                  /\ sweep'[s].pc \in {"idle", "next"}
                  /\ sweep'[s].pc = "idle" => sweep'[s].todo = {}
                  /\ sweep'[s].pc # "idle" => sweep'[s].now = sweep[s].now
                  /\ \A q \in sweep'[s].todo : sweep'[s].copy[q] = sweep[s].copy[q]
                BY <1>1, <3>1, DoneKeepsOthers
            <3>3. \A q \in sweep'[s].todo : purchase'[q].checked \in {sweep'[s].copy[q].checked, clock}
                BY <1>1, <1>4a, <3>1, <3>2 DEF InTime
            <3>4. QED
                BY <1>1, <1>3, <2>3, <3>2, <3>3 DEF InTime, At
        <2>4. QED
            BY <1>2, <2>1, <2>2, <2>3
    <1>7. ASSUME NEW p \in Listed'
          PROVE  Settled(p)' \/ \E r \in Sweeps : p \in sweep'[r].todo
        <2>1. p \in Purchases /\ purchase'[p].status = "monitoring"
            BY <1>7 DEF Listed
        <2>2. p \in Listed
            BY <1>1, <2>1, StatusSteps DEF Listed
        <2>3. ASSUME Settled(p) PROVE Settled(p)'
            BY <1>1, <1>4a, <2>1, <2>3 DEF Settled
        <2>4. ASSUME NEW r \in Sweeps \ {s}, p \in sweep[r].todo
              PROVE  p \in sweep'[r].todo
            BY <1>1, <2>4, OthersKept
        <2>5. ASSUME p \in sweep[s].todo
              PROVE  Settled(p)' \/ p \in sweep'[s].todo
            <3>1. CASE CheckGoesOn(s)
                BY <2>5, <3>1 DEF CheckGoesOn
            <3>2. ASSUME NEW q \in Purchases, CheckEnds(s, q)
                  PROVE  Settled(p)' \/ p \in sweep'[s].todo
                <4>1. q \in sweep[s].todo /\ sweep'[s].todo = sweep[s].todo \ {q}
                    BY <1>1, <3>2, DoneKeepsOthers DEF CheckEnds
                <4>2. CASE p # q
                    BY <2>5, <4>1, <4>2
                <4>3. CASE /\ p = q /\ sweep[s].now < Window[q]
                           /\ ~IsDue(sweep[s].copy[q], TargetCadence(Window[q], sweep[s].now),
                                     sweep[s].now)
                    <5> DEFINE cadence == TargetCadence(Window[p], clock)
                               copied  == sweep[s].copy[p].checked
                    <5>1. cadence \in Nat /\ 0 < cadence /\ Window[p] \in Nat
                        BY <1>1, <2>1, LadderPositive, InstanceAssumption
                    <5>2. copied # Never /\ copied \in Nat \cup {Never} /\ ~(clock - copied >= cadence)
                        <6>1. copied \in Nat \cup {Never}
                            BY <1>1, <2>1, SweepFields DEF Purchase
                        <6>2. QED
                            BY <1>3, <4>3, <6>1 DEF IsDue
                    <5>3. purchase'[p].checked \in {copied, clock}
                        BY <1>1, <1>4a, <2>1, <2>5 DEF InTime
                    <5>4. clock < Window[p]
                        BY <1>3, <4>3
                    <5>5. purchase'[p].checked # Never /\ clock - purchase'[p].checked < cadence
                        BY <1>1, <5>1, <5>2, <5>3 DEF Never
                    <5>6. QED
                        BY <1>1, <5>4, <5>5 DEF Settled
                <4>4. CASE p = q /\ MarkChecked(s) /\ q = Current(s) /\ purchase'[q].checked = sweep[s].now
                    BY <1>4, <2>1, <4>4
                <4>5. CASE p = q /\ purchase'[q].status = "expired"
                    BY <2>1, <4>5
                <4>6. QED
                    BY <3>2, <4>2, <4>3, <4>4, <4>5 DEF CheckEnds
            <3>3. QED
                BY <1>2, <3>1, <3>2
        <2>6. QED
            BY <1>3, <2>2, <2>3, <2>4, <2>5 DEF KeepInv, KeptUp
    <1>8. QED
        BY <1>1, <1>6, <1>7 DEF KeepInv, KeptUp

\* A sweep that starts lists everything that is monitored.
LEMMA StartKeeps ==
    ASSUME KeepInv, NEW s \in Sweeps, StartSweep(s)
    PROVE  KeptUp'
    <1>1. /\ TypeOK /\ clock \in Nat /\ At(s, "idle") /\ UNCHANGED <<purchase, clock>>
          /\ swept' = clock
        BY DEF KeepInv, KeptUp, StopInv, TypeOK, StartSweep
    <1>2. ASSUME NEW r \in Sweeps, sweep'[r] = sweep[r]
          PROVE  InTime(r)'
        BY <1>1, <1>2 DEF KeepInv, KeptUp, InTime, At
    <1>3. CASE Listed = {}
        <2>1. sweep' = sweep
            BY <1>3 DEF StartSweep
        <2>2. Listed' = {}
            BY <1>1, <1>3 DEF Listed
        <2>3. QED
            BY <1>1, <1>2, <2>1, <2>2 DEF KeptUp
    <1>4. CASE Listed # {}
        <2> DEFINE copy == [p \in Purchases |-> IF p \in Listed THEN purchase[p] ELSE Blank]
        <2>1. sweep'[s] = [Idle EXCEPT !.pc = "next", !.now = clock, !.todo = Listed,
                                       !.copy = copy]
            BY <1>1, <1>4 DEF StartSweep, TypeOK
        <2>2. \A p \in Listed : copy[p] = purchase[p]
            BY DEF Listed
        <2> HIDE DEF copy
        <2>3. /\ sweep'[s].pc = "next" /\ sweep'[s].now = clock /\ sweep'[s].todo = Listed
              /\ sweep'[s].copy = copy
            BY <2>1 DEF Idle
        <2>4. InTime(s)'
            BY <1>1, <2>2, <2>3 DEF InTime, At
        <2>5. \A r \in Sweeps \ {s} : sweep'[r] = sweep[r]
            BY <1>1, OthersKept
        <2>6. Listed' = Listed
            BY <1>1 DEF Listed
        <2>7. QED
            BY <1>1, <1>2, <2>3, <2>4, <2>5, <2>6 DEF KeptUp
    <1>5. QED
        BY <1>3, <1>4

\* What others write is not the time of a check, and takes nothing up again.
LEMMA OtherKeeps ==
    ASSUME KeepInv, [Next]_vars, UNCHANGED <<sweep, clock, swept>>,
           \A s \in Sweeps : ~MarkChecked(s)
    PROVE  KeptUp'
    <1>1. TypeOK
        BY DEF KeepInv, StopInv
    <1>2. \A p \in Purchases : purchase'[p].checked = purchase[p].checked
        BY <1>1, CheckedSteps
    <1>3. ASSUME NEW r \in Sweeps
          PROVE  InTime(r)'
        <2>1. sweep[r].todo \subseteq Purchases
            BY <1>1, SweepFields DEF Sweep
        <2>2. QED
            BY <1>2, <2>1 DEF KeepInv, KeptUp, InTime, At
    <1>4. ASSUME NEW p \in Listed', swept = clock
          PROVE  Settled(p)' \/ \E r \in Sweeps : p \in sweep'[r].todo
        <2>1. p \in Purchases /\ p \in Listed
            BY <1>1, <1>4, StatusSteps DEF Listed
        <2>2. Settled(p) => Settled(p)'
            BY <1>2, <2>1 DEF Settled
        <2>3. QED
            BY <1>4, <2>1, <2>2 DEF KeepInv, KeptUp
    <1>5. QED
        BY <1>3, <1>4 DEF KeepInv, KeptUp

\* Time passes only when the sweep of this moment is over, so no check is left.
LEMMA TickKeeps ==
    ASSUME Punctual, KeepInv, Tick
    PROVE  KeptUp'
    <1>1. /\ clock \in Nat /\ swept = clock /\ swept' = clock /\ clock' = clock + 1
          /\ UNCHANGED <<sweep, purchase>> /\ \A s \in Sweeps : At(s, "idle")
        BY DEF Tick, KeepInv, KeptUp, StopInv, TypeOK
    <1>2. swept' <= clock' /\ swept' # clock'
        BY <1>1
    <1>3. \A r \in Sweeps : InTime(r)'
        BY <1>1 DEF KeepInv, KeptUp, InTime, At
    <1>4. QED
        BY <1>2, <1>3 DEF KeptUp

LEMMA NextKeep ==
    ASSUME Punctual, {"crash", "write"} \cap FaultKinds = {}, KeepInv, [Next]_vars
    PROVE  KeepInv'
    <1>1. TypeOK /\ StopInv' /\ "write" \notin FaultKinds
        BY NextStop DEF KeepInv, StopInv
    <1>2. ASSUME NEW s \in Sweeps, StartSweep(s) PROVE KeptUp'
        BY <1>2, StartKeeps
    <1>3. ASSUME NEW s \in Sweeps, SweepStep(s) PROVE KeptUp'
        BY <1>1, <1>3, StepKeeps
    <1>4. ASSUME Tick PROVE KeptUp'
        BY <1>4, TickKeeps
    <1>5. \A s \in Sweeps : ~Crash(s)
        BY DEF Crash, Fault
    <1>6. ASSUME OtherStep \/ UNCHANGED vars \/ \E p \in Purchases : DropBegins(p) \/ DropEnds(p)
          PROVE  KeptUp'
        <2>1. UNCHANGED <<sweep, clock, swept>>
            BY <1>6 DEF OtherStep, StopLoad, StopWrite, UpdateProductUrl, ReceiveIngested,
                        ResolveIngested, TouchClaim, DropBegins, DropEnds, vars
        <2>2. CASE \A s \in Sweeps : ~MarkChecked(s)
            BY <2>1, <2>2, OtherKeeps
        <2>3. ASSUME NEW s \in Sweeps, MarkChecked(s) PROVE KeptUp'
            <3>1. SweepStep(s)
                BY <2>3 DEF SweepStep
            <3>2. QED
                BY <1>3, <3>1
        <2>4. QED
            BY <2>2, <2>3
    <1>7. KeptUp'
        BY <1>2, <1>3, <1>4, <1>5, <1>6 DEF Next, Environment
    <1>8. QED
        BY <1>1, <1>7 DEF KeepInv, KeptUp

\* When every sweep starts and ends on time, none dies and no write of one
\* fails, no monitored purchase goes unchecked for longer than the cadence of
\* what is left of its window, and none stays monitored past it, whatever
\* fetches, publishes and checks fail, however sweeps overlap, and whatever
\* users do to the purchases meanwhile.
THEOREM ChecksAreInTime ==
    ASSUME Punctual, {"crash", "write"} \cap FaultKinds = {}
    PROVE  Spec => []ChecksKeepUp
    <1>1. Init => KeepInv
        <2> SUFFICES ASSUME Init PROVE KeepInv
            OBVIOUS
        <2>1. \A s \in Sweeps : InTime(s)
            BY DEF Init, InTime, At, Idle
        <2>2. swept <= clock /\ swept # clock
            BY DEF Init, Never
        <2>3. QED
            BY <2>1, <2>2, InitStop DEF KeepInv, KeptUp
    <1>2. KeepInv /\ [Next]_vars => KeepInv'
        BY NextKeep
    <1>3. KeepInv => ChecksKeepUp
        BY DEF KeepInv, KeptUp, InTime, Settled, ChecksKeepUp, Listed
    <1>4. QED
        BY <1>1, <1>2, <1>3, PTL DEF Spec
=============================================================================
