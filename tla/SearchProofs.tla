----------------------------- MODULE SearchProofs ----------------------------
(***************************************************************************)
(* That the sync worker implements the promise of SearchIndex, for any     *)
(* documents, instances, batches and failures, and that an entry is behind *)
(* only for a named reason.  Both follow from one invariant: every entry   *)
(* that is not excused is at least as new as any open stream's position    *)
(* and the saved token say.  A process that has not run next to another    *)
(* one may write an old version, but not one from before the token.        *)
(***************************************************************************)
EXTENDS SearchSync, SequenceTheorems, WellFoundedInduction, TLAPS

-----------------------------------------------------------------------------
(* Versions *)

\* Every set of positions has a lowest ...
LEMMA LeastExists ==
    ASSUME NEW S, S \subseteq Nat, S # {}
    PROVE  \E n \in S : \A m \in S : n <= m
    <1>1. PICK n \in S : \A m \in S : ~(<<m, n>> \in OpToRel(<, Nat))
        BY NatLessThanWellFounded, WFMin, Zenon
    <1>2. ASSUME NEW m \in S
          PROVE  n <= m
        <2>1. m \in Nat /\ n \in Nat
            OBVIOUS
        <2>2. ~(m < n)
            BY <1>1, <2>1 DEF OpToRel
        <2>3. QED
            BY <2>1, <2>2
    <1>3. QED
        BY <1>2

\* ... and, below a bound, a highest.
LEMMA MaxExists ==
    ASSUME NEW b \in Nat, NEW S, S \subseteq 0..b, S # {}
    PROVE  Max(S) \in S /\ \A y \in S : y <= Max(S)
    <1> DEFINE T == {k \in Nat : \A y \in S : y <= k}
    <1>1. T \subseteq Nat /\ b \in T
        OBVIOUS
    <1>2. PICK k \in T : \A j \in T : k <= j
        BY <1>1, LeastExists
    <1>3. k \in S
        <2>1. SUFFICES ASSUME k \notin S PROVE FALSE
            OBVIOUS
        <2>2. PICK y \in S : TRUE
            OBVIOUS
        <2>3. y \in Nat /\ k \in Nat /\ y < k
            BY <2>1, <2>2, <1>2
        <2>4. k - 1 \in Nat /\ \A z \in S : z <= k - 1
            BY <2>1, <2>3, <1>2
        <2>5. QED
            BY <2>3, <2>4, <1>2
    <1>4. \E x \in S : \A y \in S : x >= y
        BY <1>2, <1>3
    <1>5. Max(S) \in S /\ \A y \in S : Max(S) >= y
        BY <1>4 DEF Max
    <1>6. QED
        BY <1>5

Entry == [doc : Docs, op : Ops]

\* The versions of a document are positions of the log, and the current one is the
\* highest.
LEMMA VersionIs ==
    ASSUME log \in Seq(Entry), NEW d \in Docs
    PROVE  /\ Versions(d) \subseteq 0..Len(log) /\ Len(log) \in Nat /\ 0 \in Versions(d)
           /\ Version(d) \in Versions(d) /\ Version(d) \in Nat
           /\ \A v \in Versions(d) : v \in Nat /\ v <= Version(d)
    <1>1. Len(log) \in Nat /\ DOMAIN log = 1..Len(log)
        BY LenProperties
    <1>2. Versions(d) \subseteq 0..Len(log) /\ 0 \in Versions(d)
        BY <1>1 DEF Versions
    <1>3. Max(Versions(d)) \in Versions(d) /\ \A y \in Versions(d) : y <= Max(Versions(d))
        BY <1>1, <1>2, MaxExists
    <1>4. Version(d) = Max(Versions(d))
        BY DEF Version, Versions
    <1>5. QED
        BY <1>1, <1>2, <1>3, <1>4

\* A change is the new version of its document and of no other.
LEMMA LogGrows ==
    ASSUME log \in Seq(Entry), NEW d \in Docs, NEW op \in Ops,
           log' = Append(log, [doc |-> d, op |-> op])
    PROVE  /\ log' \in Seq(Entry) /\ Len(log') = Len(log) + 1 /\ Len(log) \in Nat
           /\ \A i \in 1..Len(log) : log'[i] = log[i]
           /\ Versions(d)' = Versions(d) \cup {Len(log) + 1}
           /\ \A e \in Docs \ {d} : Versions(e)' = Versions(e)
    <1> DEFINE new == [doc |-> d, op |-> op]
    <1>1. new \in Entry /\ new.doc = d
        BY DEF Entry
    <1> HIDE DEF new
    <1>2. log' = Append(log, new)
        BY DEF new
    <1>3. /\ log' \in Seq(Entry) /\ Len(log') = Len(log) + 1 /\ Len(log) \in Nat
          /\ DOMAIN log = 1..Len(log) /\ DOMAIN log' = 1..(Len(log) + 1)
          /\ log'[Len(log) + 1] = new /\ \A i \in 1..Len(log) : log'[i] = log[i]
        BY <1>1, <1>2, AppendProperties, LenProperties
    <1>4. DOMAIN log' = DOMAIN log \cup {Len(log) + 1}
        BY <1>3
    <1>5. Versions(d)' = Versions(d) \cup {Len(log) + 1}
        BY <1>1, <1>3, <1>4 DEF Versions
    <1>6. ASSUME NEW e \in Docs \ {d}
          PROVE  Versions(e)' = Versions(e)
        BY <1>1, <1>3, <1>4, <1>6 DEF Versions
    <1>7. QED
        BY <1>3, <1>5, <1>6

-----------------------------------------------------------------------------
(* The invariant *)

Streams(r) == r.pc \in {"stream", "handled"}

\* The position of a process in its stream.
Point(r) == IF r.pc = "handled" THEN r.pos + 1 ELSE r.pos

\* A buffer holds the changes that follow the position, each with the document as of
\* the change or a later one.
Held(r) ==
    /\ ~Streams(r) => r.buffer = <<>>
    /\ r.pc = "handled" => r.buffer # <<>>
    /\ r.pos + Len(r.buffer) <= Len(log)
    /\ \A i \in DOMAIN r.buffer :
          /\ r.buffer[i].doc = log[r.pos + i].doc
          /\ r.buffer[i].full \in Versions(r.buffer[i].doc)
          /\ r.buffer[i].full >= r.pos + i
    /\ \A d \in Docs : r.copy[d] \in Versions(d)

\* What a process that has had no other next to it will write is not from before the
\* saved position t.
Leads(r, t) ==
    /\ Streams(r) => t <= r.pos
    /\ r.pc = "bulk" =>
          \A d \in Docs : r.copy[d] = 0 \/ \A v \in Versions(d) : v <= t => v <= r.copy[d]

Alone(w) == proc[w].pc # "down" /\ proc[w].alone

\* An entry in version v misses no change of d from after f up to p.
Covers(d, v, f, p) == \A n \in Versions(d) : n > f /\ n <= p => n <= v

Excused == doubtful \cup skipped

SyncInv ==
    /\ log \in Seq(Entry)
    /\ index \in [Docs -> Nat] /\ \A d \in Docs : index[d] \in Versions(d)
    /\ token \in {None} \cup Nat /\ token <= Len(log)
    /\ first \in {None} \cup Nat /\ first <= Len(log)
    /\ proc \in [Procs -> Proc]
    /\ first = None => token = None /\ \A w \in Procs : ~Streams(proc[w])
    /\ \A w \in Procs : Held(proc[w])
    /\ \A w \in Procs : Alone(w) =>
          Leads(proc[w], token) /\ \A u \in Procs \ {w} : proc[u].pc = "down"
    /\ \A d \in Docs : d \in Excused \/
          /\ Covers(d, index[d], first, token)
          /\ \A w \in Procs :
                Streams(proc[w]) => Covers(d, index[d], first, Point(proc[w]))

\* The numbers that the arguments below compare.
LEMMA Types ==
    ASSUME SyncInv
    PROVE  /\ Len(log) \in Nat /\ DOMAIN log = 1..Len(log)
           /\ token \in Int /\ first \in Int
           /\ \A d \in Docs :
                /\ Versions(d) \subseteq 0..Len(log) /\ 0 \in Versions(d)
                /\ Version(d) \in Versions(d) /\ Version(d) \in Nat /\ index[d] \in Nat
                /\ \A v \in Versions(d) : v \in Nat /\ v <= Version(d)
           /\ \A w \in Procs : proc[w] \in Proc /\ Held(proc[w])
    <1>1. \A d \in Docs : index[d] \in Nat
        BY DEF SyncInv
    <1>2. token \in Int /\ first \in Int
        BY DEF SyncInv, None
    <1>3. \A w \in Procs : proc[w] \in Proc /\ Held(proc[w])
        BY DEF SyncInv
    <1>4. QED
        BY <1>1, <1>2, <1>3, VersionIs, LenProperties DEF SyncInv

\* What a process is made of.
LEMMA ProcType ==
    ASSUME NEW r \in Proc
    PROVE  /\ r.pos \in Nat /\ r.alone \in BOOLEAN /\ r.buffer \in Seq(Change)
           /\ Len(r.buffer) \in Nat /\ DOMAIN r.buffer = 1..Len(r.buffer)
           /\ \A i \in DOMAIN r.buffer :
                 r.buffer[i].doc \in Docs /\ r.buffer[i].full \in Nat
           /\ r.copy \in [Docs -> Nat] /\ Point(r) \in Nat
    <1>1. /\ r.pos \in Nat /\ r.alone \in BOOLEAN /\ r.buffer \in Seq(Change)
          /\ r.copy \in [Docs -> Nat]
        BY DEF Proc
    <1>2. Len(r.buffer) \in Nat /\ DOMAIN r.buffer = 1..Len(r.buffer)
        BY <1>1, LenProperties
    <1>3. \A i \in DOMAIN r.buffer : r.buffer[i] \in Change
        BY <1>1, <1>2, ElementOfSeq
    <1>4. QED
        BY <1>1, <1>2, <1>3 DEF Change, Point

LEMMA DownType ==
    /\ Down \in Proc /\ Down.pc = "down" /\ Down.buffer = <<>>
    /\ Down.copy = [d \in Docs |-> 0] /\ Down.pos = 0
    <1>1. [d \in Docs |-> 0] \in [Docs -> Nat] /\ <<>> \in Seq(Change)
        OBVIOUS
    <1>2. QED
        BY <1>1 DEF Down, Proc

\* Whatever a process leaves its stream for, it begins that empty.
LEMMA LeftType ==
    ASSUME NEW s \in {"closed", "scan", "lost"}, NEW b \in BOOLEAN, NEW r,
           r = [Down EXCEPT !.pc = s, !.alone = b]
    PROVE  /\ r \in Proc /\ r.pc = s /\ r.alone = b /\ r.buffer = <<>>
           /\ r.copy = [d \in Docs |-> 0] /\ r.pos = 0
    <1>1. /\ Down \in Proc /\ Down.buffer = <<>> /\ Down.pos = 0
          /\ Down.copy = [d \in Docs |-> 0]
        BY DownType
    <1>2. QED
        BY <1>1 DEF Proc

\* A process that has left its stream holds nothing.
LEMMA Empty ==
    ASSUME SyncInv, NEW r \in Proc, r.pc \notin {"stream", "handled", "bulk"},
           r.buffer = <<>>, r.pos = 0, r.copy = [d \in Docs |-> 0]
    PROVE  Held(r) /\ ~Streams(r) /\ \A t : Leads(r, t)
    <1>1. DOMAIN r.buffer = {} /\ Len(r.buffer) = 0 /\ \A d \in Docs : r.copy[d] = 0
        OBVIOUS
    <1>2. ~Streams(r)
        BY DEF Streams
    <1>3. Held(r)
        BY <1>1, <1>2, Types DEF Held, Streams
    <1>4. QED
        BY <1>2, <1>3 DEF Leads

-----------------------------------------------------------------------------
(* The moves of a process *)

\* A running process moves, and may write the index, the token and first.
LEMMA Moves ==
    ASSUME SyncInv, NEW w \in Procs, NEW r \in Proc, Held(r),
           proc[w].pc # "down", r.pc = "down" \/ r.alone = proc[w].alone,
           proc' = [proc EXCEPT ![w] = r], UNCHANGED log,
           token' \in {None} \cup Nat, token' <= Len(log),
           first' \in {None} \cup Nat, first' <= Len(log),
           first' = None => token' = None /\ first = None /\ ~Streams(r),
           index' \in [Docs -> Nat], \A d \in Docs : index'[d] \in Versions(d),
           r.pc # "down" /\ r.alone => Leads(r, token'),
           \A d \in Docs : d \in Excused' \/
              /\ Covers(d, index'[d], first', token')
              /\ Streams(r) => Covers(d, index'[d], first', Point(r))
              /\ \A u \in Procs \ {w} :
                    Streams(proc[u]) => Covers(d, index'[d], first', Point(proc[u]))
    PROVE  SyncInv'
    <1>1. \A u \in Procs : proc'[u] = IF u = w THEN r ELSE proc[u]
        BY DEF SyncInv
    <1>2. proc' \in [Procs -> Proc]
        BY DEF SyncInv
    <1>3. \A d : Versions(d)' = Versions(d)
        BY DEF Versions
    <1>4. \A u \in Procs : proc'[u] \in Proc /\ Held(proc'[u])
        BY <1>1, Types
    <1>5. ASSUME NEW u \in Procs
          PROVE  Held(proc[u])'
        <2>1. PICK x \in Proc : x = proc'[u] /\ Held(x)
            BY <1>4
        <2>2. QED
            BY <1>3, <2>1 DEF Held, Streams
    <1>6. ASSUME NEW u \in Procs, Alone(u)'
          PROVE  Leads(proc[u], token)' /\ \A v \in Procs \ {u} : proc'[v].pc = "down"
        <2>1. u = w
            <3>1. SUFFICES ASSUME u # w PROVE FALSE
                OBVIOUS
            <3>2. Alone(u)
                BY <1>1, <1>6, <3>1 DEF Alone
            <3>3. QED
                BY <3>1, <3>2 DEF SyncInv
        <2>2. r.pc # "down" /\ r.alone /\ proc[w].alone
            BY <1>1, <1>6, <2>1 DEF Alone
        <2>3. \A v \in Procs \ {w} : proc[v].pc = "down"
            BY <2>2 DEF SyncInv, Alone
        <2>4. Leads(proc[u], token)'
            BY <1>1, <1>3, <2>1, <2>2 DEF Leads, Streams
        <2>5. QED
            BY <1>1, <2>1, <2>3, <2>4
    <1>7. ASSUME NEW d \in Docs, d \notin Excused'
          PROVE  /\ Covers(d, index[d], first, token)'
                 /\ \A u \in Procs :
                       Streams(proc[u])' => Covers(d, index[d], first, Point(proc[u]))'
        <2>1. Covers(d, index[d], first, token)'
            BY <1>3, <1>7 DEF Covers
        <2>2. ASSUME NEW u \in Procs, Streams(proc[u])'
              PROVE  Covers(d, index[d], first, Point(proc[u]))'
            <3>1. PICK x \in Proc : x = proc'[u] /\ (u = w => x = r) /\ (u # w => x = proc[u])
                BY <1>1, <1>4
            <3>2. Streams(x)
                BY <2>2, <3>1 DEF Streams
            <3>3. Covers(d, index'[d], first', Point(x))
                BY <1>7, <3>1, <3>2
            <3>4. QED
                BY <1>3, <3>1, <3>3 DEF Covers, Point
        <2>3. QED
            BY <2>1, <2>2
    <1>8. first' = None => token' = None /\ \A u \in Procs : ~Streams(proc[u])'
        BY <1>1 DEF SyncInv, Streams
    <1>9. \A d \in Docs : index'[d] \in Versions(d)'
        BY <1>3
    <1>10. log' \in Seq(Entry) /\ token' <= Len(log') /\ first' <= Len(log')
        BY DEF SyncInv
    <1>11. QED
        BY <1>2, <1>5, <1>6, <1>7, <1>8, <1>9, <1>10 DEF SyncInv

\* A move that writes nothing but a token, with nobody's excuse withdrawn: no more is
\* passed than was.
LEMMA QuietMoves ==
    ASSUME SyncInv, NEW w \in Procs, NEW r \in Proc, Held(r),
           proc[w].pc # "down", r.pc = "down" \/ r.alone = proc[w].alone,
           proc' = [proc EXCEPT ![w] = r], UNCHANGED <<log, index, first, doubtful, skipped>>,
           \/ token' \in {token, None}
           \/ Streams(proc[w]) /\ token' = Point(proc[w]) /\ token' <= Len(log),
           Streams(r) => /\ first # None
                         /\ \/ Point(r) = token
                            \/ Streams(proc[w]) /\ Point(r) = Point(proc[w]),
           r.pc # "down" /\ r.alone => Leads(r, token')
    PROVE  SyncInv'
    <1>1. token' \in {None} \cup Nat /\ token' <= Len(log)
        BY Types, ProcType DEF SyncInv, None
    <1>2. \A d \in Docs : \A f : Covers(d, index[d], f, None) \/ ~(f \in Int)
        BY Types DEF Covers, None
    <1>3. ASSUME NEW d \in Docs, d \notin Excused'
          PROVE  /\ Covers(d, index'[d], first', token')
                 /\ Streams(r) => Covers(d, index'[d], first', Point(r))
                 /\ \A u \in Procs \ {w} :
                       Streams(proc[u]) => Covers(d, index'[d], first', Point(proc[u]))
        <2>1. /\ Covers(d, index[d], first, token)
              /\ \A u \in Procs :
                    Streams(proc[u]) => Covers(d, index[d], first, Point(proc[u]))
            BY <1>3 DEF SyncInv, Excused
        <2>2. Covers(d, index[d], first, None)
            BY <1>2, Types
        <2>3. QED
            BY <2>1, <2>2
    <1>4. first' = None => token' = None /\ first = None /\ ~Streams(r)
        BY DEF SyncInv
    <1>5. /\ index' \in [Docs -> Nat] /\ \A d \in Docs : index'[d] \in Versions(d)
          /\ first' \in {None} \cup Nat /\ first' <= Len(log) /\ UNCHANGED log
        BY DEF SyncInv
    <1>6. QED
        BY <1>1, <1>3, <1>4, <1>5, Moves

\* A process that leaves its stream, or stops.
LEMMA Leaves ==
    ASSUME SyncInv, NEW w \in Procs, NEW r,
           r = Down \/ \E s \in {"closed", "scan", "lost"} : r = Left(w, s)
    PROVE  /\ r \in Proc /\ Held(r) /\ ~Streams(r) /\ \A t : Leads(r, t)
           /\ r.pc = "down" \/ r.alone = proc[w].alone
    <1>1. /\ r \in Proc /\ r.buffer = <<>> /\ r.copy = [d \in Docs |-> 0] /\ r.pos = 0
          /\ r.pc = "down" \/ r.alone = proc[w].alone
          /\ r.pc \notin {"bulk", "stream", "handled"}
        <2>1. CASE r = Down
            BY <2>1, DownType
        <2>2. ASSUME NEW s \in {"closed", "scan", "lost"}, r = Left(w, s)
              PROVE  /\ r \in Proc /\ r.buffer = <<>> /\ r.copy = [d \in Docs |-> 0]
                     /\ r.pos = 0 /\ r.alone = proc[w].alone
                     /\ r.pc \notin {"bulk", "stream", "handled"}
            <3>1. PICK b \in BOOLEAN : b = proc[w].alone
                BY Types, ProcType
            <3>2. r = [Down EXCEPT !.pc = s, !.alone = b]
                BY <2>2, <3>1 DEF Left
            <3>3. QED
                BY <3>1, <3>2, LeftType
        <2>3. QED
            BY <2>1, <2>2
    <1>2. QED
        BY <1>1, Empty

-----------------------------------------------------------------------------
(* Every step keeps the invariant *)

\* The database changes: the new version is ahead of every position.
LEMMA LogStep ==
    ASSUME SyncInv, NEW d \in Docs, NEW op \in Ops,
           log' = Append(log, [doc |-> d, op |-> op]),
           UNCHANGED <<index, token, proc, doubtful, skipped, first>>
    PROVE  SyncInv'
    <1>1. /\ log' \in Seq(Entry) /\ Len(log') = Len(log) + 1 /\ Len(log) \in Nat
          /\ \A i \in 1..Len(log) : log'[i] = log[i]
          /\ Versions(d)' = Versions(d) \cup {Len(log) + 1}
          /\ \A e \in Docs \ {d} : Versions(e)' = Versions(e)
        BY LogGrows DEF SyncInv
    <1>2. \A e \in Docs : /\ Versions(e) \subseteq Versions(e)'
                          /\ Versions(e)' \subseteq Versions(e) \cup {Len(log) + 1}
        BY <1>1
    <1>3. \A e \in Docs, v, f, p \in Int :
             p <= Len(log) /\ Covers(e, v, f, p) => Covers(e, v, f, p)'
        BY <1>1, <1>2 DEF Covers
    <1>4. ASSUME NEW w \in Procs
          PROVE  Held(proc[w])' /\ (Streams(proc[w]) => Point(proc[w]) <= Len(log))
        <2>1. PICK x \in Proc : x = proc[w] /\ Held(x)
            BY Types
        <2>2. /\ x.pos \in Nat /\ Len(x.buffer) \in Nat /\ DOMAIN x.buffer = 1..Len(x.buffer)
              /\ \A i \in DOMAIN x.buffer : x.buffer[i].doc \in Docs
            BY ProcType
        <2>3. x.pos + Len(x.buffer) <= Len(log)
            BY <2>1 DEF Held
        <2>4. \A i \in DOMAIN x.buffer : log'[x.pos + i] = log[x.pos + i]
            BY <1>1, <2>2, <2>3
        <2>5. x.pos + Len(x.buffer) <= Len(log')
            BY <1>1, <2>2, <2>3
        <2>6. Held(x)'
            BY <1>2, <2>1, <2>2, <2>4, <2>5 DEF Held, Streams
        <2>7. x.pc = "handled" => Len(x.buffer) # 0
            BY <2>1, ProcType, EmptySeq DEF Held
        <2>8. Point(x) <= Len(log)
            BY <1>1, <2>2, <2>3, <2>7 DEF Point
        <2>9. QED
            BY <2>1, <2>6, <2>8
    <1>5. ASSUME NEW w \in Procs, Alone(w)'
          PROVE  Leads(proc[w], token)' /\ \A u \in Procs \ {w} : proc'[u].pc = "down"
        <2>1. Leads(proc[w], token) /\ \A u \in Procs \ {w} : proc[u].pc = "down"
            BY <1>5 DEF SyncInv, Alone
        <2>2. token \in Int /\ token <= Len(log)
            BY Types DEF SyncInv
        <2>3. Leads(proc[w], token)'
            BY <1>1, <1>2, <2>1, <2>2 DEF Leads, Streams
        <2>4. QED
            BY <2>1, <2>3
    <1>6. ASSUME NEW e \in Docs, e \notin Excused'
          PROVE  /\ Covers(e, index[e], first, token)'
                 /\ \A w \in Procs :
                       Streams(proc[w])' => Covers(e, index[e], first, Point(proc[w]))'
        <2>1. index[e] \in Int /\ first \in Int /\ token \in Int /\ token <= Len(log)
            BY Types DEF SyncInv
        <2>2. /\ Covers(e, index[e], first, token)
              /\ \A w \in Procs :
                    Streams(proc[w]) => Covers(e, index[e], first, Point(proc[w]))
            BY <1>6 DEF SyncInv, Excused
        <2>3. ASSUME NEW w \in Procs, Streams(proc[w])
              PROVE  Covers(e, index[e], first, Point(proc[w]))'
            <3>1. Point(proc[w]) \in Int /\ Point(proc[w]) <= Len(log)
                BY <1>4, <2>3, Types, ProcType
            <3>2. PICK p \in Int : p = Point(proc[w])
                BY <3>1
            <3>3. Covers(e, index[e], first, p)'
                BY <1>3, <2>1, <2>2, <2>3, <3>1, <3>2
            <3>4. QED
                BY <3>2, <3>3 DEF Covers, Point
        <2>4. Covers(e, index[e], first, token)'
            BY <1>3, <2>1, <2>2 DEF Covers
        <2>5. QED
            BY <2>3, <2>4 DEF Streams
    <1>7. token <= Len(log') /\ first <= Len(log')
        BY <1>1, Types DEF SyncInv
    <1>8. \A e \in Docs : index[e] \in Versions(e)'
        BY <1>2 DEF SyncInv
    <1>9. QED
        BY <1>1, <1>4, <1>5, <1>6, <1>7, <1>8 DEF SyncInv, Streams

\* A process starts: whoever runs already is not alone any more.
LEMMA Starts ==
    ASSUME SyncInv, NEW w \in Procs, proc[w].pc = "down", NEW s \in {"closed", "scan"},
           proc' = Started(w, s), UNCHANGED <<log, index, token, doubtful, skipped, first>>
    PROVE  SyncInv'
    <1>1. PICK b \in BOOLEAN : b = (Others(w) = {})
        OBVIOUS
    <1>2. PICK r : r = [Down EXCEPT !.pc = s, !.alone = b]
        OBVIOUS
    <1>3. /\ r \in Proc /\ r.pc = s /\ r.alone = b /\ r.buffer = <<>>
          /\ r.copy = [d \in Docs |-> 0] /\ r.pos = 0
        BY <1>2, LeftType
    <1>4. Held(r) /\ ~Streams(r) /\ \A t : Leads(r, t)
        BY <1>3, Empty
    <1>5. ASSUME NEW u \in Procs \ {w}
          PROVE  /\ proc'[u] \in Proc /\ proc'[u].pc = proc[u].pc /\ proc'[u].pos = proc[u].pos
                 /\ proc'[u].buffer = proc[u].buffer /\ proc'[u].copy = proc[u].copy
                 /\ proc[u].pc # "down" => proc'[u].alone = FALSE
        <2>1. proc[u] \in Proc
            BY DEF SyncInv
        <2>2. proc'[u] = IF proc[u].pc = "down" THEN proc[u]
                         ELSE [proc[u] EXCEPT !.alone = FALSE]
            BY DEF Started, At
        <2>3. QED
            BY <2>1, <2>2 DEF Proc
    <1>6. proc'[w] = r
        BY <1>1, <1>2 DEF Started
    <1>7. proc' \in [Procs -> Proc]
        <2>1. \A u \in Procs : proc'[u] \in Proc
            BY <1>3, <1>5, <1>6
        <2>2. proc' = [u \in Procs |-> proc'[u]]
            BY DEF Started
        <2>3. QED
            BY <2>1, <2>2
    <1>8. \A d : Versions(d)' = Versions(d)
        BY DEF Versions
    <1>9. ASSUME NEW u \in Procs
          PROVE  Held(proc[u])'
        <2>1. CASE u = w
            BY <1>4, <1>6, <1>8, <2>1 DEF Held, Streams
        <2>2. CASE u # w
            <3>1. Held(proc[u])
                BY Types
            <3>2. QED
                BY <1>5, <1>8, <2>2, <3>1 DEF Held, Streams
        <2>3. QED
            BY <2>1, <2>2
    <1>10. ASSUME NEW u \in Procs, Alone(u)'
           PROVE  Leads(proc[u], token)' /\ \A v \in Procs \ {u} : proc'[v].pc = "down"
        <2>1. u = w
            BY <1>5, <1>10 DEF Alone
        <2>2. b
            BY <1>3, <1>6, <1>10, <2>1 DEF Alone
        <2>3. \A v \in Procs \ {w} : proc'[v].pc = "down"
            BY <1>1, <1>5, <2>2 DEF Others, At
        <2>4. Leads(proc[u], token)'
            BY <1>3, <1>6, <2>1 DEF Leads, Streams
        <2>5. QED
            BY <2>1, <2>3, <2>4
    <1>11. \A u \in Procs : Streams(proc[u])' => /\ u # w /\ Streams(proc[u])
                                                 /\ Point(proc[u])' = Point(proc[u])
        BY <1>4, <1>5, <1>6 DEF Streams, Point
    <1>12. ASSUME NEW d \in Docs, d \notin Excused'
           PROVE  /\ Covers(d, index[d], first, token)'
                  /\ \A u \in Procs :
                        Streams(proc[u])' => Covers(d, index[d], first, Point(proc[u]))'
        <2>1. /\ Covers(d, index[d], first, token)
              /\ \A u \in Procs :
                    Streams(proc[u]) => Covers(d, index[d], first, Point(proc[u]))
            BY <1>12 DEF SyncInv, Excused
        <2>2. QED
            BY <1>8, <1>11, <2>1 DEF Covers
    <1>13. \A d \in Docs : index[d] \in Versions(d)'
        BY <1>8 DEF SyncInv
    <1>14. QED
        BY <1>7, <1>9, <1>10, <1>11, <1>12, <1>13 DEF SyncInv

\* Nothing the invariant speaks of changes.
LEMMA Stutters ==
    ASSUME SyncInv, UNCHANGED <<log, index, token, proc, doubtful, skipped, first>>
    PROVE  SyncInv'
    <1>1. \A d : Versions(d)' = Versions(d)
        BY DEF Versions
    <1>2. \A w \in Procs : Held(proc[w])' <=> Held(proc[w])
        BY <1>1 DEF Held, Streams
    <1>3. \A w \in Procs : /\ Streams(proc[w])' <=> Streams(proc[w])
                           /\ Point(proc[w])' = Point(proc[w])
                           /\ Alone(w)' <=> Alone(w)
                           /\ Leads(proc[w], token)' <=> Leads(proc[w], token)
        BY <1>1 DEF Streams, Point, Alone, Leads
    <1>4. \A d \in Docs : Covers(d, index[d], first, token)' <=> Covers(d, index[d], first, token)
        BY <1>1 DEF Covers
    <1>5. \A d \in Docs, w \in Procs : Covers(d, index[d], first, Point(proc[w]))'
                                          <=> Covers(d, index[d], first, Point(proc[w]))
        BY <1>1, <1>3 DEF Covers
    <1>6. Excused' = Excused
        BY DEF Excused
    <1>7. QED
        BY <1>1, <1>2, <1>3, <1>4, <1>5, <1>6 DEF SyncInv

-----------------------------------------------------------------------------
(* Each step of a process keeps it *)

\* A stream goes on from the token; the first one starts the account, and a later one
\* without a token excuses what is behind.
LEMMA OpenKeeps ==
    ASSUME SyncInv, NEW w \in Procs, OpenStream(w)
    PROVE  SyncInv'
    <1>1. /\ proc[w] \in Proc /\ Held(proc[w]) /\ proc[w].pc = "closed"
          /\ UNCHANGED <<log, index, token, doubtful>>
        BY Types DEF OpenStream, At
    <1>2. CASE Goto(w, "lost") /\ UNCHANGED <<skipped, first>>
        <2>1. PICK r : r = [proc[w] EXCEPT !.pc = "lost"]
            OBVIOUS
        <2>2. /\ r \in Proc /\ r.pc = "lost" /\ r.alone = proc[w].alone /\ r.pos = proc[w].pos
              /\ r.buffer = proc[w].buffer /\ r.copy = proc[w].copy
            BY <1>1, <2>1 DEF Proc
        <2>3. Held(r) /\ ~Streams(r) /\ Leads(r, token')
            BY <1>1, <2>2 DEF Held, Streams, Leads
        <2>4. proc' = [proc EXCEPT ![w] = r]
            BY <1>2, <2>1 DEF Goto
        <2>5. QED
            BY <1>1, <1>2, <2>2, <2>3, <2>4, QuietMoves
    <1>3. CASE /\ proc' = [proc EXCEPT ![w].pc = "stream", ![w].pos = OpenPosition]
               /\ IF first = None
                  THEN first' = Len(log) /\ UNCHANGED skipped
                  ELSE /\ skipped' = IF token = None THEN skipped \cup Behind ELSE skipped
                       /\ UNCHANGED first
        <2>1. PICK p \in Nat : p = OpenPosition
            BY Types DEF OpenPosition, SyncInv
        <2>2. PICK r : r = [proc[w] EXCEPT !.pc = "stream", !.pos = p]
            OBVIOUS
        <2>3. /\ r \in Proc /\ r.pc = "stream" /\ r.alone = proc[w].alone /\ r.pos = p
              /\ r.buffer = proc[w].buffer /\ r.copy = proc[w].copy /\ Point(r) = p
            BY <1>1, <2>2 DEF Proc, Point
        <2>4. p <= Len(log) /\ token <= p
            BY <2>1, Types DEF OpenPosition, SyncInv, None
        <2>5. Held(r)
            <3>1. r.buffer = <<>>
                BY <1>1, <2>3 DEF Held, Streams
            <3>2. Len(r.buffer) = 0 /\ DOMAIN r.buffer = {}
                BY <3>1
            <3>3. QED
                BY <1>1, <2>3, <2>4, <3>1, <3>2, Types DEF Held
        <2>6. Leads(r, token')
            BY <1>1, <2>3, <2>4 DEF Leads
        <2>7. proc' = [proc EXCEPT ![w] = r]
            BY <1>3, <2>1, <2>2
        <2>8. ASSUME NEW d \in Docs, d \notin Excused'
              PROVE  /\ Covers(d, index'[d], first', token')
                     /\ Streams(r) => Covers(d, index'[d], first', Point(r))
                     /\ \A u \in Procs \ {w} :
                           Streams(proc[u]) => Covers(d, index'[d], first', Point(proc[u]))
            <3>1. CASE first = None
                <4>1. token = None /\ (\A u \in Procs : ~Streams(proc[u])) /\ first' = Len(log)
                    BY <1>3, <3>1 DEF SyncInv
                <4>2. Covers(d, index'[d], first', token') /\ Covers(d, index'[d], first', p)
                    BY <1>1, <2>4, <4>1, Types DEF Covers, None
                <4>3. QED
                    BY <2>3, <4>1, <4>2
            <3>2. CASE first # None /\ token # None
                <4>1. first' = first /\ p = token /\ d \notin Excused
                    BY <1>1, <1>3, <2>1, <2>8, <3>2 DEF OpenPosition, Excused
                <4>2. QED
                    BY <1>1, <2>3, <4>1 DEF SyncInv
            <3>3. CASE first # None /\ token = None
                <4>1. first' = first /\ d \notin Excused /\ d \notin Behind
                    BY <1>1, <1>3, <2>8, <3>3 DEF Excused
                <4>2. Version(d) <= first \/ index[d] = Version(d)
                    BY <4>1, Types DEF Behind, Fresh
                <4>3. Covers(d, index'[d], first', p)
                    BY <1>1, <4>1, <4>2, Types DEF Covers
                <4>4. QED
                    BY <1>1, <2>3, <4>1, <4>3 DEF SyncInv
            <3>4. QED
                BY <3>1, <3>2, <3>3
        <2>9. first' \in {None} \cup Nat /\ first' <= Len(log) /\ first' # None
            BY <1>3, Types DEF SyncInv, None
        <2>10. /\ index' \in [Docs -> Nat] /\ \A d \in Docs : index'[d] \in Versions(d)
               /\ UNCHANGED log /\ token' \in {None} \cup Nat /\ token' <= Len(log)
            BY <1>1 DEF SyncInv
        <2>11. QED
            BY <1>1, <2>3, <2>5, <2>6, <2>7, <2>8, <2>9, <2>10, Moves
    <1>4. QED
        BY <1>2, <1>3 DEF OpenStream

LEMMA MinBound == ASSUME NEW a \in Nat, NEW b \in Nat PROVE Min({a, b}) <= b /\ Min({a, b}) \in Nat
    <1>1. \E x \in {a, b} : \A y \in {a, b} : x =< y
        OBVIOUS
    <1>2. Min({a, b}) \in {a, b} /\ \A y \in {a, b} : Min({a, b}) =< y
        BY <1>1 DEF Min
    <1>3. QED
        BY <1>2

\* What comes with a change is its document as of the change or a later one.
LEMMA FetchKeeps ==
    ASSUME SyncInv, NEW w \in Procs, FetchChanges(w)
    PROVE  SyncInv'
    <1> DEFINE from == proc[w].pos
    <1>1. /\ proc[w] \in Proc /\ Held(proc[w]) /\ proc[w].pc = "stream" /\ from \in Nat
          /\ from < Len(log) /\ UNCHANGED <<log, index, token, doubtful, skipped, first>>
        BY Types, ProcType DEF FetchChanges, At
    <1>2. first # None
        BY <1>1 DEF SyncInv, Streams
    <1>3. CASE proc' = [proc EXCEPT ![w] = Left(w, "lost")]
        BY <1>1, <1>3, Leaves, QuietMoves
    <1>4. ASSUME NEW n \in 1 .. Min({Batch, Len(log) - from}),
                 proc' = [proc EXCEPT ![w].buffer =
                            [i \in 1 .. n |-> [doc  |-> log[from + i].doc,
                                               full |-> LookedUp(from + i)]]]
          PROVE  SyncInv'
        <2>1. Len(log) \in Nat /\ DOMAIN log = 1..Len(log)
            BY Types
        <2>2. Len(log) - from \in Nat /\ Batch \in Nat
            BY <1>1, <2>1, SyncAssumption
        <2>3. n \in Nat /\ n <= Len(log) - from
            <3>1. PICK k : k = Len(log) - from
                OBVIOUS
            <3>2. Min({Batch, k}) <= k /\ Min({Batch, k}) \in Nat
                BY <2>2, <3>1, MinBound
            <3>3. n \in 1 .. Min({Batch, k})
                BY <1>4, <3>1
            <3>4. QED
                BY <2>2, <3>1, <3>2, <3>3
        <2>4. ASSUME NEW i \in 1..n
              PROVE  /\ log[from + i].doc \in Docs
                     /\ LookedUp(from + i) \in Versions(log[from + i].doc)
                     /\ LookedUp(from + i) >= from + i /\ LookedUp(from + i) \in Nat
            <3>1. PICK k \in DOMAIN log : k = from + i
                BY <1>1, <2>1, <2>3
            <3>2. log[k] \in Entry
                BY <2>1, ElementOfSeq DEF SyncInv
            <3>3. log[k].doc \in Docs
                BY <3>2 DEF Entry
            <3>4. k \in Versions(log[k].doc) /\ k \in Nat
                BY <2>1 DEF Versions
            <3>5. /\ Version(log[k].doc) \in Versions(log[k].doc)
                  /\ k <= Version(log[k].doc) /\ Version(log[k].doc) \in Nat
                BY <3>3, <3>4, Types
            <3>6. QED
                BY <3>1, <3>3, <3>4, <3>5 DEF LookedUp
        <2> DEFINE b == [i \in 1 .. n |-> [doc  |-> log[from + i].doc,
                                           full |-> LookedUp(from + i)]]
        <2>5. b \in Seq(Change)
            <3>1. b \in [1..n -> Change]
                BY <2>4 DEF Change
            <3>2. QED
                BY <2>3, <3>1, IsASeq
        <2>6. /\ DOMAIN b = 1..n /\ Len(b) = n
              /\ \A i \in 1..n : /\ b[i].doc = log[from + i].doc
                                 /\ b[i].full = LookedUp(from + i)
            BY <2>3, <2>4, <2>5, LenProperties
        <2>7. PICK c : c = b
            OBVIOUS
        <2>8. PICK r : r = [proc[w] EXCEPT !.buffer = c]
            OBVIOUS
        <2>9. proc' = [proc EXCEPT ![w] = r]
            BY <1>4, <2>7, <2>8
        <2> HIDE DEF b
        <2>10. /\ r \in Proc /\ r.pc = "stream" /\ r.alone = proc[w].alone
               /\ r.buffer = c /\ r.copy = proc[w].copy /\ r.pos = from
               /\ Point(r) = Point(proc[w])
            BY <1>1, <2>5, <2>7, <2>8 DEF Proc, Point
        <2>11. Held(r)
            <3>1. \A d \in Docs : r.copy[d] \in Versions(d)
                BY <1>1, <2>10 DEF Held
            <3>2. r.pos + Len(r.buffer) <= Len(log)
                BY <1>1, <2>1, <2>3, <2>6, <2>7, <2>10
            <3>3. ASSUME NEW i \in DOMAIN r.buffer
                  PROVE  /\ r.buffer[i].doc = log[r.pos + i].doc
                         /\ r.buffer[i].full \in Versions(r.buffer[i].doc)
                         /\ r.buffer[i].full >= r.pos + i
                BY <2>4, <2>6, <2>7, <2>10
            <3>4. QED
                BY <2>10, <3>1, <3>2, <3>3 DEF Held, Streams
        <2>12. r.alone => Leads(r, token')
            BY <1>1, <2>10 DEF SyncInv, Alone, Leads, Streams
        <2>13. Streams(proc[w])
            BY <1>1 DEF Streams
        <2>14. QED
            BY <1>1, <1>2, <2>9, <2>10, <2>11, <2>12, <2>13, QuietMoves
    <1>5. QED
        BY <1>3, <1>4 DEF FetchChanges

\* The change in hand is the next one of the log.
LEMMA InHand ==
    ASSUME SyncInv, NEW w \in Procs, proc[w].buffer # <<>>
    PROVE  /\ Streams(proc[w]) /\ proc[w].pos + 1 \in DOMAIN log
           /\ proc[w].pos + 1 <= Len(log) /\ proc[w].pos \in Nat
           /\ proc[w].buffer[1].doc \in Docs /\ proc[w].buffer[1].full \in Nat
           /\ proc[w].buffer[1].full \in Versions(proc[w].buffer[1].doc)
           /\ proc[w].buffer[1].full >= proc[w].pos + 1
           /\ \A e \in Docs :
                proc[w].pos + 1 \in Versions(e) => e = proc[w].buffer[1].doc
    <1>1. PICK x \in Proc : x = proc[w] /\ Held(x)
        BY Types
    <1>2. /\ x.pos \in Nat /\ Len(x.buffer) \in Nat /\ DOMAIN x.buffer = 1..Len(x.buffer)
          /\ x.buffer \in Seq(Change)
        BY ProcType
    <1>3. Len(x.buffer) # 0
        BY <1>1, <1>2, EmptySeq
    <1>4. 1 \in DOMAIN x.buffer
        BY <1>2, <1>3
    <1>5. x.buffer[1].doc \in Docs /\ x.buffer[1].full \in Nat
        BY <1>4, ProcType
    <1>6. /\ x.buffer[1].doc = log[x.pos + 1].doc
          /\ x.buffer[1].full \in Versions(x.buffer[1].doc) /\ x.buffer[1].full >= x.pos + 1
          /\ x.pos + Len(x.buffer) <= Len(log) /\ Streams(x)
        BY <1>1, <1>4 DEF Held
    <1>7. x.pos + 1 \in DOMAIN log /\ x.pos + 1 <= Len(log)
        BY <1>2, <1>3, <1>6, Types
    <1>8. ASSUME NEW e \in Docs, x.pos + 1 \in Versions(e)
          PROVE  e = x.buffer[1].doc
        <2>1. x.pos + 1 # 0
            BY <1>2
        <2>2. log[x.pos + 1].doc = e
            BY <1>8, <2>1 DEF Versions
        <2>3. QED
            BY <1>6, <2>2
    <1>9. QED
        BY <1>1, <1>2, <1>5, <1>6, <1>7, <1>8

\* What one process has written of d, others need not fear: it has had nobody next to it,
\* the entry has not gone back, or d is in doubt.
LEMMA Written ==
    ASSUME SyncInv, NEW w \in Procs, proc[w].pc # "down", NEW d \in Docs, d \notin Excused,
           NEW v \in Nat, proc[w].alone \/ v >= index[d],
           proc[w].alone => Covers(d, v, first, token)
    PROVE  /\ Covers(d, v, first, token)
           /\ \A u \in Procs \ {w} :
                 Streams(proc[u]) => Covers(d, v, first, Point(proc[u]))
    <1>1. /\ Covers(d, index[d], first, token)
          /\ \A u \in Procs : Streams(proc[u]) => Covers(d, index[d], first, Point(proc[u]))
        BY DEF SyncInv, Excused
    <1>2. \A n \in Versions(d) : n \in Nat
        BY Types
    <1>3. CASE proc[w].alone
        <2>1. \A u \in Procs \ {w} : proc[u].pc = "down"
            BY <1>3 DEF SyncInv, Alone
        <2>2. QED
            BY <1>3, <2>1 DEF Streams
    <1>4. CASE ~proc[w].alone
        <2>1. v >= index[d] /\ index[d] \in Nat
            BY <1>4, Types
        <2>2. QED
            BY <1>1, <1>2, <2>1 DEF Covers
    <1>5. QED
        BY <1>3, <1>4

\* What was current is no older than anything.
LEMMA CurrentCovers ==
    ASSUME SyncInv, NEW d \in Docs, NEW f, NEW p
    PROVE  Covers(d, Version(d), f, p)
    BY Types DEF Covers

\* Whether a change at hand is indexed, in vain or interrupted: w has passed it then.
LEMMA ChangePassed ==
    ASSUME SyncInv, NEW w \in Procs, HandleChange(w) \/ StopInChange(w),
           NEW e \in Docs, e \notin Excused'
    PROVE  /\ Covers(e, index'[e], first, token)
           /\ Covers(e, index'[e], first, proc[w].pos + 1)
           /\ \A u \in Procs \ {w} :
                 Streams(proc[u]) => Covers(e, index'[e], first, Point(proc[u]))
    <1> DEFINE d == proc[w].buffer[1].doc
               v == proc[w].buffer[1].full
    <1>1. /\ proc[w].pc = "stream" /\ proc[w].buffer # <<>> /\ proc[w] \in Proc
          /\ index' \in {index, [index EXCEPT ![d] = v]}
        BY Types DEF HandleChange, StopInChange, At
    <1>2. /\ Streams(proc[w]) /\ proc[w].pos \in Nat /\ d \in Docs /\ v \in Nat
          /\ v \in Versions(d) /\ v >= proc[w].pos + 1
          /\ \A x \in Docs : proc[w].pos + 1 \in Versions(x) => x = d
        BY <1>1, InHand
    <1>3. Point(proc[w]) = proc[w].pos
        BY <1>1 DEF Point
    <1>4. index'[e] = IF e = d /\ index' # index THEN v ELSE index[e]
        BY <1>1, <1>2 DEF SyncInv
    <1>5. CASE e # d
        <2>1. e \notin Excused /\ index'[e] = index[e]
            BY <1>2, <1>4, <1>5 DEF HandleChange, StopInChange, Judged, Current, Excused
        <2>2. /\ Covers(e, index[e], first, token)
              /\ \A u \in Procs :
                    Streams(proc[u]) => Covers(e, index[e], first, Point(proc[u]))
            BY <2>1 DEF SyncInv, Excused
        <2>3. proc[w].pos + 1 \notin Versions(e)
            BY <1>2, <1>5
        <2>4. Covers(e, index[e], first, proc[w].pos + 1)
            BY <1>2, <1>3, <2>2, <2>3, Types DEF Covers
        <2>5. QED
            BY <2>1, <2>2, <2>4
    <1>6. CASE e = d
        <2>1. /\ HandleChange(w) /\ index' = [index EXCEPT ![d] = v]
              /\ doubtful' = Judged(w, {d}, index')
              /\ skipped' = skipped \ Current({d}, index')
            BY <1>6 DEF HandleChange, StopInChange, Excused
        <2>2. index'[d] = v /\ index[d] \in Nat
            BY <1>2, <2>1, Types DEF SyncInv
        <2>3. Covers(d, v, first, proc[w].pos + 1)
            BY <1>2, Types DEF Covers
        <2>4. CASE v = Version(d)
            BY <1>6, <2>2, <2>4, CurrentCovers
        <2>5. CASE v # Version(d)
            <3>a. d \notin doubtful' /\ d \notin skipped'
                BY <1>6 DEF Excused
            <3>b. d \notin Current({d}, index')
                BY <2>2, <2>5 DEF Current
            <3>c. d \notin doubtful /\ ~(~proc[w].alone /\ index'[d] < index[d])
                BY <2>1, <3>a, <3>b DEF Judged
            <3>d. d \notin skipped
                BY <2>1, <3>a, <3>b
            <3>e. proc[w].alone \/ v >= index[d]
                BY <1>2, <2>2, <3>c
            <3>1. d \notin Excused /\ (proc[w].alone \/ v >= index[d])
                BY <3>c, <3>d, <3>e DEF Excused
            <3>2. proc[w].alone => token <= proc[w].pos
                BY <1>1, <1>2 DEF SyncInv, Alone, Leads
            <3>3. proc[w].alone => Covers(d, v, first, token)
                BY <1>2, <3>2, Types DEF Covers
            <3>4. proc[w].pc # "down"
                BY <1>1
            <3> HIDE DEF d, v
            <3>5. QED
                BY <1>2, <1>6, <2>2, <2>3, <3>1, <3>3, <3>4, Written
        <2>6. QED
            BY <2>4, <2>5
    <1>7. QED
        BY <1>5, <1>6

\* The index holds versions of its documents.
LEMMA IndexHad ==
    ASSUME SyncInv, NEW w \in Procs, HandleChange(w) \/ StopInChange(w)
    PROVE  index' \in [Docs -> Nat] /\ \A e \in Docs : index'[e] \in Versions(e)
    <1>1. /\ proc[w].buffer # <<>>
          /\ index' \in {index, [index EXCEPT ![proc[w].buffer[1].doc]
                                                  = proc[w].buffer[1].full]}
        BY DEF HandleChange, StopInChange
    <1>2. QED
        BY <1>1, InHand DEF SyncInv

LEMMA HandleKeeps ==
    ASSUME SyncInv, NEW w \in Procs, HandleChange(w)
    PROVE  SyncInv'
    <1>1. /\ proc[w] \in Proc /\ Held(proc[w]) /\ proc[w].pc = "stream"
          /\ proc[w].buffer # <<>> /\ UNCHANGED <<log, token, first>>
        BY Types DEF HandleChange, At
    <1>2. first # None
        BY <1>1 DEF SyncInv, Streams
    <1>3. PICK r : r = [proc[w] EXCEPT !.pc = "handled"]
        OBVIOUS
    <1>4. /\ r \in Proc /\ r.pc = "handled" /\ r.alone = proc[w].alone
          /\ r.buffer = proc[w].buffer /\ r.copy = proc[w].copy /\ r.pos = proc[w].pos
          /\ Point(r) = proc[w].pos + 1
        BY <1>1, <1>3 DEF Proc, Point
    <1>5. proc' = [proc EXCEPT ![w] = r]
        BY <1>3 DEF HandleChange, Goto
    <1>6. Held(r)
        BY <1>1, <1>4 DEF Held, Streams
    <1>7. r.alone => Leads(r, token')
        BY <1>1, <1>4 DEF SyncInv, Alone, Leads, Streams
    <1>8. index' \in [Docs -> Nat] /\ \A e \in Docs : index'[e] \in Versions(e)
        BY IndexHad
    <1>9. \A e \in Docs : e \in Excused' \/
             /\ Covers(e, index'[e], first', token')
             /\ Covers(e, index'[e], first', Point(r))
             /\ \A u \in Procs \ {w} :
                   Streams(proc[u]) => Covers(e, index'[e], first', Point(proc[u]))
        BY <1>1, <1>4, ChangePassed
    <1>10. /\ token' \in {None} \cup Nat /\ token' <= Len(log)
           /\ first' \in {None} \cup Nat /\ first' <= Len(log) /\ first' # None
        BY <1>1, <1>2 DEF SyncInv
    <1>11. QED
        BY <1>1, <1>4, <1>5, <1>6, <1>7, <1>8, <1>9, <1>10, Moves

\* A shutdown that comes in between passes the change too, and leaves it in doubt.
LEMMA StopKeeps ==
    ASSUME SyncInv, NEW w \in Procs, StopInChange(w)
    PROVE  SyncInv'
    <1>1. /\ proc[w].pc = "stream" /\ proc[w].buffer # <<>> /\ UNCHANGED <<log, first>>
          /\ token' = proc[w].pos + 1 /\ proc' = [proc EXCEPT ![w] = Down]
        BY DEF StopInChange, At, Handled
    <1>2. first # None
        BY <1>1 DEF SyncInv, Streams
    <1>3. proc[w].pos \in Nat /\ proc[w].pos + 1 <= Len(log)
        BY <1>1, InHand
    <1>4. Down \in Proc /\ Held(Down) /\ ~Streams(Down) /\ Down.pc = "down"
        BY Leaves, DownType
    <1>5. index' \in [Docs -> Nat] /\ \A e \in Docs : index'[e] \in Versions(e)
        BY IndexHad
    <1>6. \A e \in Docs : e \in Excused' \/
             /\ Covers(e, index'[e], first', token')
             /\ \A u \in Procs \ {w} :
                   Streams(proc[u]) => Covers(e, index'[e], first', Point(proc[u]))
        BY <1>1, ChangePassed
    <1>7. /\ token' \in {None} \cup Nat /\ token' <= Len(log)
          /\ first' \in {None} \cup Nat /\ first' <= Len(log) /\ first' # None
        BY <1>1, <1>2, <1>3 DEF SyncInv
    <1>8. QED
        BY <1>1, <1>4, <1>5, <1>6, <1>7, Moves

LEMMA SaveKeeps ==
    ASSUME SyncInv, NEW w \in Procs, SaveToken(w)
    PROVE  SyncInv'
    <1>1. /\ proc[w] \in Proc /\ Held(proc[w]) /\ proc[w].pc = "handled"
          /\ UNCHANGED <<log, index, first, doubtful, skipped>>
          /\ token' \in {token, proc[w].pos + 1}
        BY Types DEF SaveToken, At, Handled
    <1>2. Streams(proc[w]) /\ Point(proc[w]) = proc[w].pos + 1 /\ proc[w].buffer # <<>>
        BY <1>1 DEF Streams, Point, Held
    <1>3. proc[w].pos \in Nat /\ proc[w].pos + 1 <= Len(log) /\ first # None
        BY <1>2, InHand DEF SyncInv
    <1>4. CASE proc' = [proc EXCEPT ![w] = Left(w, "closed")]
        BY <1>1, <1>2, <1>3, <1>4, Leaves, QuietMoves
    <1>5. CASE /\ token' = Handled(w)
               /\ proc' = [proc EXCEPT ![w].pc = "stream", ![w].pos = @ + 1,
                                       ![w].buffer = Tail(@)]
        <2>1. PICK p \in Nat : p = proc[w].pos + 1
            BY <1>3
        <2>2. PICK t : t = Tail(proc[w].buffer)
            OBVIOUS
        <2>3. proc[w].buffer \in Seq(Change)
            BY <1>1, ProcType
        <2>4. /\ t \in Seq(Change) /\ DOMAIN t = 1..Len(t) /\ Len(t) \in Nat
              /\ Len(proc[w].buffer) = Len(t) + 1
              /\ \A i \in DOMAIN t :
                    i + 1 \in DOMAIN proc[w].buffer /\ t[i] = proc[w].buffer[i + 1]
            BY <1>2, <2>2, <2>3, HeadTailProperties, LenProperties
        <2>5. PICK r : r = [proc[w] EXCEPT !.pc = "stream", !.pos = p, !.buffer = t]
            OBVIOUS
        <2>6. proc' = [proc EXCEPT ![w] = r]
            BY <1>5, <2>1, <2>2, <2>5
        <2>7. /\ r \in Proc /\ r.pc = "stream" /\ r.pos = p /\ r.buffer = t
              /\ r.alone = proc[w].alone /\ r.copy = proc[w].copy /\ Point(r) = p
            BY <1>1, <2>4, <2>5 DEF Proc, Point
        <2>8. Held(r)
            <3>a. PICK n \in Nat : n = Len(t)
                BY <2>4
            <3>b. PICK m \in Nat : m = proc[w].pos
                BY <1>3
            <3>c. Len(r.buffer) = n /\ r.pos = m + 1 /\ Len(proc[w].buffer) = n + 1
                BY <2>1, <2>4, <2>7, <3>a, <3>b
            <3>1. r.pos + Len(r.buffer) = proc[w].pos + Len(proc[w].buffer)
                BY <3>b, <3>c
            <3>2. ASSUME NEW i \in DOMAIN t
                  PROVE  /\ t[i].doc = log[r.pos + i].doc
                         /\ t[i].full \in Versions(t[i].doc) /\ t[i].full >= r.pos + i
                <4>1. PICK k \in DOMAIN proc[w].buffer : k = i + 1 /\ t[i] = proc[w].buffer[k]
                    BY <2>4
                <4>a. i \in Nat
                    BY <2>4
                <4>2. r.pos + i = proc[w].pos + k
                    BY <2>1, <2>7, <3>b, <4>1, <4>a
                <4>3. QED
                    BY <1>1, <4>1, <4>2 DEF Held
            <3>3. QED
                BY <1>1, <2>7, <3>1, <3>2 DEF Held, Streams
        <2>9. token' = p /\ Leads(r, token')
            BY <1>5, <2>1, <2>7 DEF Leads, Handled
        <2>10. QED
            BY <1>1, <1>2, <1>3, <2>1, <2>6, <2>7, <2>8, <2>9, QuietMoves
    <1>6. QED
        BY <1>4, <1>5 DEF SaveToken

\* A process that does not stream moves on, ends or is killed, and the token is
\* dropped or stays.
LEMMA RestKeeps ==
    ASSUME SyncInv, NEW w \in Procs,
           \/ KillWatcher(w) \/ StreamBreaks(w) \/ ClearToken(w) \/ BackfillScan(w)
    PROVE  SyncInv'
    <1>1. /\ proc[w] \in Proc /\ Held(proc[w]) /\ proc[w].pc # "down"
          /\ UNCHANGED <<log, index, first, doubtful, skipped>> /\ token' \in {token, None}
        BY Types DEF KillWatcher, StreamBreaks, ClearToken, BackfillScan, At, Cleared
    <1>2. ASSUME NEW r, r = Down \/ r = Left(w, "closed"), proc' = [proc EXCEPT ![w] = r]
          PROVE  SyncInv'
        BY <1>1, <1>2, Leaves, QuietMoves
    <1>3. ASSUME NEW step \in {"scan", "dead"}, Goto(w, step), ClearToken(w)
          PROVE  SyncInv'
        <2>1. PICK r : r = [proc[w] EXCEPT !.pc = step]
            OBVIOUS
        <2>2. /\ r \in Proc /\ r.pc = step /\ r.pos = proc[w].pos /\ r.alone = proc[w].alone
              /\ r.buffer = proc[w].buffer /\ r.copy = proc[w].copy
            BY <1>1, <2>1 DEF Proc
        <2>3. proc' = [proc EXCEPT ![w] = r]
            BY <1>3, <2>1 DEF Goto
        <2>4. Held(r) /\ ~Streams(r) /\ Leads(r, token')
            BY <1>1, <1>3, <2>2 DEF Held, Streams, Leads, ClearToken, At
        <2>5. QED
            BY <1>1, <2>2, <2>3, <2>4, QuietMoves
    <1>4. CASE BackfillScan(w) /\ proc' = [proc EXCEPT ![w].pc = "bulk", ![w].copy = Snapshot]
        <2>a. \A d \in Docs : Version(d) \in Nat
            BY Types
        <2>b. Snapshot \in [Docs -> Nat] /\ \A d \in Docs : Snapshot[d] \in {0, Version(d)}
            BY <2>a DEF Snapshot
        <2>1. PICK c \in [Docs -> Nat] : c = Snapshot /\ \A d \in Docs : c[d] \in {0, Version(d)}
            BY <2>b
        <2>2. PICK r : r = [proc[w] EXCEPT !.pc = "bulk", !.copy = c]
            OBVIOUS
        <2>3. /\ r \in Proc /\ r.pc = "bulk" /\ r.pos = proc[w].pos /\ r.alone = proc[w].alone
              /\ r.buffer = proc[w].buffer /\ r.copy = c
            BY <1>1, <2>2 DEF Proc
        <2>4. proc' = [proc EXCEPT ![w] = r]
            BY <1>4, <2>1, <2>2
        <2>5. Held(r) /\ ~Streams(r)
            BY <1>1, <1>4, <2>1, <2>3, Types DEF Held, Streams, BackfillScan, At
        <2>6. Leads(r, token')
            BY <2>1, <2>3, <2>5, Types DEF Leads
        <2>7. QED
            BY <1>1, <2>3, <2>4, <2>5, <2>6, QuietMoves
    <1>5. QED
        BY <1>2, <1>3, <1>4 DEF KillWatcher, StreamBreaks, ClearToken, BackfillScan,
                                AfterBackfill

\* A backfill writes what was current when it read it, and so no older than the token, or
\* next to others.
LEMMA BulkKeeps ==
    ASSUME SyncInv, NEW w \in Procs, BulkIndex(w)
    PROVE  SyncInv'
    <1>1. /\ proc[w] \in Proc /\ proc[w].pc = "bulk" /\ Held(proc[w])
          /\ UNCHANGED <<log, token, first>> /\ proc' = [proc EXCEPT ![w] = AfterBackfill(w)]
        BY Types DEF BulkIndex, At
    <1>2. PICK ok \in SUBSET {d \in Docs : proc[w].copy[d] # 0} :
             /\ index' = [d \in Docs |-> IF d \in ok THEN proc[w].copy[d] ELSE index[d]]
             /\ Judged(w, ok, index') \subseteq doubtful'
             /\ skipped' = skipped \ Current(ok, index')
        BY <1>1 DEF BulkIndex
    <1>3. \A d \in Docs : proc[w].copy[d] \in Versions(d) /\ proc[w].copy[d] \in Nat
        BY <1>1, ProcType DEF Held
    <1>4. ASSUME NEW d \in Docs, d \notin Excused'
          PROVE  /\ Covers(d, index'[d], first, token)
                 /\ \A u \in Procs \ {w} :
                       Streams(proc[u]) => Covers(d, index'[d], first, Point(proc[u]))
        <2>1. d \notin doubtful' /\ d \notin skipped'
            BY <1>4 DEF Excused
        <2>2. CASE d \in ok /\ proc[w].copy[d] = Version(d)
            BY <1>2, <2>2, CurrentCovers
        <2>3. CASE d \in ok /\ proc[w].copy[d] # Version(d)
            <3>1. index'[d] = proc[w].copy[d] /\ proc[w].copy[d] # 0
                BY <1>2, <2>3
            <3>2. d \notin Excused /\ (proc[w].alone \/ proc[w].copy[d] >= index[d])
                BY <1>2, <1>3, <2>1, <2>3, <3>1, Types DEF Excused, Judged, Current
            <3>3. proc[w].alone => Leads(proc[w], token)
                BY <1>1 DEF SyncInv, Alone
            <3>4. proc[w].alone => Covers(d, proc[w].copy[d], first, token)
                BY <1>1, <3>1, <3>3 DEF Leads, Covers
            <3>5. PICK v \in Nat : v = proc[w].copy[d]
                BY <1>3
            <3>6. QED
                BY <1>1, <3>1, <3>2, <3>4, <3>5, Written
        <2>4. CASE d \notin ok
            <3>1. index'[d] = index[d] /\ d \notin Excused
                BY <1>2, <2>1, <2>4 DEF Excused, Judged, Current
            <3>2. QED
                BY <3>1 DEF SyncInv, Excused
        <2>5. QED
            BY <2>2, <2>3, <2>4
    <1>5. index' \in [Docs -> Nat] /\ \A d \in Docs : index'[d] \in Versions(d)
        BY <1>2, <1>3 DEF SyncInv
    <1>6. PICK r : r = AfterBackfill(w)
        OBVIOUS
    <1>7. /\ r \in Proc /\ Held(r) /\ ~Streams(r) /\ Leads(r, token')
          /\ r.pc = "down" \/ r.alone = proc[w].alone
        BY <1>6, Leaves DEF AfterBackfill
    <1>8. /\ token' \in {None} \cup Nat /\ token' <= Len(log)
          /\ first' \in {None} \cup Nat /\ first' <= Len(log)
          /\ first' = None => token' = None /\ first = None
        BY <1>1 DEF SyncInv
    <1>9. QED
        BY <1>1, <1>4, <1>5, <1>6, <1>7, <1>8, Moves

LEMMA SyncInit == Init => SyncInv
    <1> SUFFICES ASSUME Init PROVE SyncInv
        OBVIOUS
    <1>1. log = <<>> /\ log \in Seq(Entry) /\ Len(log) = 0 /\ DOMAIN log = {}
        BY DEF Init
    <1>2. \A d \in Docs : Versions(d) = {0}
        BY <1>1 DEF Versions
    <1>3. \A w \in Procs : proc[w] = Down
        BY DEF Init
    <1>4. proc \in [Procs -> Proc] /\ \A w \in Procs : ~Alone(w) /\ ~Streams(proc[w])
        BY <1>3, DownType DEF Init, Alone, Streams
    <1>5. Held(Down)
        <2>1. /\ DOMAIN Down.buffer = {} /\ Down.pc = "down" /\ Down.pos = 0
              /\ Down.buffer = <<>> /\ Len(Down.buffer) = 0
              /\ \A d \in Docs : Down.copy[d] = 0
            BY DownType
        <2>2. QED
            BY <1>1, <1>2, <2>1 DEF Held, Streams
    <1>6. \A d \in Docs : Covers(d, index[d], first, token)
        BY <1>2 DEF Init, Covers
    <1>7. QED
        BY <1>1, <1>2, <1>3, <1>4, <1>5, <1>6 DEF Init, SyncInv, None

\* One case per action of Next.
LEMMA SyncStep == SyncInv /\ [Next]_vars => SyncInv'
    <1> SUFFICES ASSUME SyncInv, [Next]_vars PROVE SyncInv'
        OBVIOUS
    <1>1. ASSUME NEW d \in Docs, ChangeDoc(d) \/ DeleteDoc(d) PROVE SyncInv'
        <2>1. \E op \in Ops : log' = Append(log, [doc |-> d, op |-> op])
            BY <1>1 DEF ChangeDoc, DeleteDoc, Ops
        <2>2. UNCHANGED <<index, token, proc, doubtful, skipped, first>>
            BY <1>1 DEF ChangeDoc, DeleteDoc
        <2>3. QED
            BY <2>1, <2>2, LogStep
    <1>2. CASE OplogRolls \/ UNCHANGED vars
        BY <1>2, Stutters DEF OplogRolls, vars
    <1>3. CASE (\E w \in Watchers : StartWatcher(w)) \/ RunBackfill
        <2>1. PICK w \in Procs, s \in {"closed", "scan"} :
                 /\ proc[w].pc = "down" /\ proc' = Started(w, s)
                 /\ UNCHANGED <<log, index, token, doubtful, skipped, first>>
            BY <1>3 DEF StartWatcher, RunBackfill, At, Procs
        <2>2. QED
            BY <2>1, Starts
    <1>4. ASSUME NEW w \in Procs, WatcherStep(w) \/ Disturbance(w) PROVE SyncInv'
        BY <1>4, OpenKeeps, FetchKeeps, HandleKeeps, SaveKeeps, RestKeeps, BulkKeeps,
           StopKeeps DEF WatcherStep, Disturbance
    <1>5. ASSUME NEW w \in Watchers, KillWatcher(w) PROVE SyncInv'
        BY <1>5, RestKeeps DEF Procs
    <1>6. ASSUME BackfillScan(Operator) \/ BulkIndex(Operator) PROVE SyncInv'
        BY <1>6, RestKeeps, BulkKeeps DEF Procs
    <1>7. QED
        BY <1>1, <1>2, <1>3, <1>4, <1>5, <1>6 DEF Next, Procs

-----------------------------------------------------------------------------
(* What is behind, and why *)

\* An entry is behind its document only while the last change is ahead of every open
\* stream and of the saved token, or while nobody follows and there is no token, or
\* when the document is in doubt or was skipped.
THEOREM BehindForAReason == Spec => []StaleMeansPending
    <1>1. ASSUME SyncInv, NEW d \in Behind, ~Unfollowed, d \notin doubtful \cup skipped
          PROVE  Ahead(d)
        <2>1. /\ d \in Docs /\ Version(d) > first /\ index[d] # Version(d)
              /\ d \notin Excused
            BY <1>1 DEF Behind, Fresh, Excused
        <2>2. index[d] < Version(d) /\ index[d] \in Nat /\ Version(d) \in Versions(d)
            BY <1>1, <2>1, Types DEF SyncInv
        <2>3. ASSUME NEW p \in Int, Covers(d, index[d], first, p)
              PROVE  p < Version(d)
            BY <1>1, <2>1, <2>2, <2>3, Types DEF Covers
        <2>4. ASSUME NEW w \in Streaming
              PROVE  Resume(w) < Version(d)
            <3>1. w \in Procs /\ Streams(proc[w]) /\ Resume(w) = Point(proc[w])
                BY <2>4 DEF Streaming, Procs, Streams, Resume, Point, At, Handled
            <3>2. Covers(d, index[d], first, Point(proc[w]))
                BY <1>1, <2>1, <3>1 DEF SyncInv
            <3>3. Point(proc[w]) \in Nat
                BY <1>1, <3>1, Types, ProcType
            <3>4. QED
                BY <2>3, <3>1, <3>2, <3>3
        <2>5. token < Version(d)
            BY <1>1, <2>1, <2>3, Types DEF SyncInv
        <2>6. token = None => Streaming # {}
            BY <1>1 DEF Unfollowed
        <2>7. QED
            BY <2>4, <2>5, <2>6 DEF Ahead
    <1>2. SyncInv => StaleMeansPending
        BY <1>1 DEF StaleMeansPending
    <1>3. QED
        BY <1>2, SyncInit, SyncStep, PTL DEF Spec

-----------------------------------------------------------------------------
(* The refinement *)

\* The highest of the versions V between two positions.
LEMMA HighestPassed ==
    ASSUME NEW b \in Nat, NEW V, V \subseteq 0..b, 0 \in V, NEW f \in Int, NEW t \in Int,
           NEW m, m = Max({v \in V : v = 0 \/ v \in f + 1 .. t})
    PROVE  m \in V /\ m \in Nat /\ (m = 0 \/ (m > f /\ m <= t))
    <1> DEFINE S == {v \in V : v = 0 \/ v \in f + 1 .. t}
    <1>1. S \subseteq 0..b /\ 0 \in S
        OBVIOUS
    <1>2. Max(S) \in S
        BY <1>1, MaxExists
    <1>3. m \in S
        BY <1>2
    <1>4. QED
        BY <1>3

\* A change is ahead of the token, and so not passed.
LEMMA PassedStays ==
    ASSUME SyncInv, NEW d \in Docs, NEW op \in Ops,
           log' = Append(log, [doc |-> d, op |-> op]), UNCHANGED <<token, first>>,
           NEW e \in Docs
    PROVE  Passed(e)' = Passed(e)
    <1> DEFINE S(V) == {v \in V : v = 0 \/ v \in first + 1 .. token}
    <1>1. Versions(e)' = Versions(e) \/ Versions(e)' = Versions(e) \cup {Len(log) + 1}
        BY LogGrows DEF SyncInv
    <1>2. Len(log) + 1 # 0 /\ Len(log) + 1 \notin first + 1 .. token
        BY Types DEF SyncInv
    <1>3. S(Versions(e)') = S(Versions(e))
        BY <1>1, <1>2
    <1>4. Passed(e) = Max(S(Versions(e))) /\ Passed(e)' = Max(S(Versions(e)'))
        BY DEF Passed
    <1>5. QED
        BY <1>3, <1>4

LEMMA WriteMaps ==
    ASSUME SyncInv, NEW d \in Docs, ChangeDoc(d) \/ DeleteDoc(d)
    PROVE  Promise!Write(d)
    <1>1. PICK op \in Ops : log' = Append(log, [doc |-> d, op |-> op])
        BY DEF ChangeDoc, DeleteDoc, Ops
    <1>2. UNCHANGED <<token, first, index, doubtful, skipped>>
        BY DEF ChangeDoc, DeleteDoc
    <1>3. /\ Versions(d)' = Versions(d) \cup {Len(log) + 1}
          /\ \A e \in Docs \ {d} : Versions(e)' = Versions(e)
        BY <1>1, LogGrows DEF SyncInv
    <1>4. \A v \in Versions(d) : v < Len(log) + 1
        BY Types
    <1>5. \A e \in Docs : Passed(e)' = Passed(e)
        BY <1>1, <1>2, PassedStays
    <1> DEFINE V == [e \in Docs |-> Versions(e)]
               W == [e \in Docs |-> Versions(e)']
    <1>6. W = [V EXCEPT ![d] = @ \cup {Len(log) + 1}]
        BY <1>3
    <1>7. V[d] = Versions(d) /\ W[d] = Versions(d)'
        OBVIOUS
    <1>8. \E new \in W[d] : /\ \A v \in V[d] : v < new
                            /\ W = [V EXCEPT ![d] = @ \cup {new}]
        BY <1>3, <1>4, <1>6, <1>7
    <1>9. [e \in Docs |-> Passed(e)'] = [e \in Docs |-> Passed(e)]
        BY <1>5
    <1>10. QED
        BY <1>2, <1>8, <1>9 DEF Promise!Write

\* An excuse is withdrawn when the current version is indexed.
LEMMA SettledIsCurrent ==
    ASSUME SyncInv, NEW d \in Docs, d \in Excused, d \notin Excused',
           [Next]_vars
    PROVE  index'[d] = Version(d)
    <1>1. ASSUME NEW D, \/ d \in doubtful /\ d \notin doubtful \ Current(D, index')
                        \/ d \in skipped /\ d \notin skipped \ Current(D, index')
          PROVE  index'[d] = Version(d)
        BY <1>1 DEF Current
    <1>2. ASSUME NEW w \in Procs, HandleChange(w)
          PROVE  index'[d] = Version(d)
        <2>1. PICK e : e = proc[w].buffer[1].doc
            OBVIOUS
        <2>2. \/ doubtful' = Judged(w, {e}, index') /\ skipped' = skipped \ Current({e}, index')
              \/ doubtful \subseteq doubtful' /\ skipped' = skipped
            BY <1>2, <2>1 DEF HandleChange
        <2>3. QED
            BY <1>1, <2>2 DEF Excused, Judged
    <1>3. ASSUME NEW w \in Procs, BulkIndex(w)
          PROVE  index'[d] = Version(d)
        <2>1. PICK ok : /\ Judged(w, ok, index') \subseteq doubtful'
                        /\ skipped' = skipped \ Current(ok, index')
            BY <1>3 DEF BulkIndex
        <2>2. QED
            BY <1>1, <2>1 DEF Excused, Judged
    <1>4. CASE doubtful \subseteq doubtful' /\ skipped \subseteq skipped'
        BY <1>4 DEF Excused
    <1>5. ASSUME NEW w \in Procs, WatcherStep(w) \/ Disturbance(w)
          PROVE  index'[d] = Version(d)
        BY <1>2, <1>3, <1>4, <1>5 DEF WatcherStep, Disturbance, OpenStream, FetchChanges,
           SaveToken, ClearToken, BackfillScan, StreamBreaks, StopInChange
    <1>6. ASSUME NEW w \in Watchers, StartWatcher(w) \/ KillWatcher(w)
          PROVE  index'[d] = Version(d)
        BY <1>4, <1>6 DEF StartWatcher, KillWatcher
    <1>7. ASSUME NEW e \in Docs, ChangeDoc(e) \/ DeleteDoc(e)
          PROVE  index'[d] = Version(d)
        BY <1>4, <1>7 DEF ChangeDoc, DeleteDoc
    <1>8. CASE OplogRolls \/ RunBackfill \/ UNCHANGED vars
        BY <1>4, <1>8 DEF OplogRolls, RunBackfill, vars
    <1>9. CASE BackfillScan(Operator)
        BY <1>4, <1>9 DEF BackfillScan
    <1>10. QED
        BY <1>3, <1>5, <1>6, <1>7, <1>8, <1>9 DEF Next, Procs

LEMMA IndexMaps ==
    ASSUME SyncInv, SyncInv', [Next]_vars, UNCHANGED log
    PROVE  Promise!Index
    <1>1. \A d : Versions(d)' = Versions(d)
        BY DEF Versions
    <1>2. ASSUME NEW d \in Docs
          PROVE  /\ {Passed(d)', index'[d]} \subseteq Versions(d)
                 /\ d \in Excused' \/ Passed(d)' <= index'[d]
                 /\ d \in Excused \ Excused' => \A v \in Versions(d) : v <= index'[d]
        <2>1. /\ Passed(d)' \in Versions(d) /\ Passed(d)' \in Nat
              /\ Passed(d)' = 0 \/ (Passed(d)' > first' /\ Passed(d)' <= token')
            <3>1. Passed(d)' = Max({v \in Versions(d) : v = 0 \/ v \in first' + 1 .. token'})
                BY <1>1 DEF Passed
            <3>2. /\ Versions(d) \subseteq 0..Len(log) /\ 0 \in Versions(d) /\ Len(log) \in Nat
                  /\ first' \in Int /\ token' \in Int
                BY Types DEF SyncInv, None
            <3>3. QED
                BY <3>1, <3>2, HighestPassed
        <2>2. index'[d] \in Versions(d) /\ index'[d] \in Nat
            BY <1>1 DEF SyncInv
        <2>3. ASSUME d \notin Excused'
              PROVE  Passed(d)' <= index'[d]
            <3>1. \A n \in Versions(d) : n > first' /\ n <= token' => n <= index'[d]
                BY <1>1, <2>3 DEF SyncInv, Covers
            <3>2. QED
                BY <2>1, <2>2, <3>1
        <2>4. ASSUME d \in Excused, d \notin Excused'
              PROVE  \A v \in Versions(d) : v <= index'[d]
            BY <2>4, SettledIsCurrent, Types
        <2>5. QED
            BY <2>1, <2>2, <2>3, <2>4
    <1>3. [d \in Docs |-> Versions(d)'] = [d \in Docs |-> Versions(d)]
        BY <1>1
    <1>4. QED
        BY <1>2, <1>3 DEF Promise!Index, Promise!Newest, Excused

\* The worker implements the promise: the index shows versions that the documents had,
\* and none from before the position that a restart goes on from, except of the
\* documents that are in doubt or were skipped; those stay so until their current
\* version is indexed.
THEOREM Implements == Spec => IndexPromise
    <1>1. Init => Promise!Init
        <2> SUFFICES ASSUME Init PROVE Promise!Init
            OBVIOUS
        <2>1. \A d \in Docs : Versions(d) = {0}
            BY DEF Init, Versions
        <2>2. ASSUME NEW d \in Docs
              PROVE  Passed(d) = 0
            <3>1. Passed(d) = Max({v \in {0} : v = 0 \/ v \in first + 1 .. token})
                BY <2>1 DEF Passed
            <3>2. first \in Int /\ token \in Int
                BY DEF Init, None
            <3>3. PICK m : m = Passed(d)
                OBVIOUS
            <3>4. PICK V : V = {0}
                OBVIOUS
            <3>5. V \subseteq 0..0 /\ 0 \in V /\ 0 \in Nat
                BY <3>4
            <3>6. m = Max({v \in V : v = 0 \/ v \in first + 1 .. token})
                BY <3>1, <3>3, <3>4
            <3>7. m \in V
                BY <3>2, <3>5, <3>6, HighestPassed
            <3>8. QED
                BY <3>3, <3>4, <3>7
        <2>3. [d \in Docs |-> Versions(d)] = [d \in Docs |-> {0}]
              /\ [d \in Docs |-> Passed(d)] = [d \in Docs |-> 0]
            BY <2>1, <2>2
        <2>4. QED
            BY <2>3 DEF Init, Promise!Init
    <1>2. SyncInv /\ SyncInv' /\ [Next]_vars => [Promise!Next]_Promise!vars
        <2> SUFFICES ASSUME SyncInv, SyncInv', [Next]_vars
                     PROVE  Promise!Next
            OBVIOUS
        <2>1. CASE \E d \in Docs : ChangeDoc(d) \/ DeleteDoc(d)
            BY <2>1, WriteMaps DEF Promise!Next
        <2>2. ASSUME ~\E d \in Docs : ChangeDoc(d) \/ DeleteDoc(d)
              PROVE  Promise!Next
            <3>1. ASSUME NEW w \in Procs, \/ StartWatcher(w) \/ KillWatcher(w)
                                          \/ WatcherStep(w) \/ Disturbance(w)
                  PROVE  UNCHANGED log
                BY <3>1 DEF StartWatcher, KillWatcher, WatcherStep, Disturbance, OpenStream,
                    FetchChanges, HandleChange, SaveToken, ClearToken, BackfillScan,
                    BulkIndex, StreamBreaks, StopInChange
            <3>2. ASSUME OplogRolls \/ RunBackfill \/ UNCHANGED vars
                  PROVE  UNCHANGED log
                BY <3>2 DEF OplogRolls, RunBackfill, vars
            <3>3. ASSUME BackfillScan(Operator) \/ BulkIndex(Operator)
                  PROVE  UNCHANGED log
                BY <3>3 DEF BackfillScan, BulkIndex
            <3>4. UNCHANGED log
                BY <2>2, <3>1, <3>2, <3>3 DEF Next, Procs
            <3>5. QED
                BY <3>4, IndexMaps DEF Promise!Next
        <2>3. QED
            BY <2>1, <2>2
    <1>3. QED
        BY <1>1, <1>2, SyncInit, SyncStep, PTL DEF Spec, IndexPromise, Promise!Spec

-----------------------------------------------------------------------------
(* Types, with the bounds that SyncInv gives *)

\* What SyncInv does not speak of.
RestOK ==
    /\ gone \subseteq Docs /\ doubtful \subseteq Docs /\ skipped \subseteq Docs
    /\ oldest \in 0 .. Len(log)
    /\ faults \in 0 .. MaxFaults

LEMMA FaultCounted ==
    ASSUME faults \in 0 .. MaxFaults, UNCHANGED faults \/ \E kind \in AllFaults : Fault(kind)
    PROVE  faults' \in 0 .. MaxFaults
    BY SyncAssumption DEF Fault

\* Only documents come into doubt or are skipped.
LEMMA ExcusedAreDocs ==
    ASSUME SyncInv, RestOK, [Next]_vars
    PROVE  doubtful' \subseteq Docs /\ skipped' \subseteq Docs
    <1>1. doubtful \subseteq Docs /\ skipped \subseteq Docs
        BY DEF RestOK
    <1>2. ASSUME NEW w \in Procs, HandleChange(w) \/ StopInChange(w)
          PROVE  doubtful' \subseteq Docs /\ skipped' \subseteq Docs
        <2>1. PICK d \in Docs : d = proc[w].buffer[1].doc
            BY <1>2, InHand DEF HandleChange, StopInChange
        <2>2. /\ doubtful' \subseteq doubtful \cup {d}
              /\ skipped' \subseteq skipped
            BY <1>2, <2>1 DEF HandleChange, StopInChange, Judged
        <2>3. QED
            BY <1>1, <2>2
    <1>3. ASSUME NEW w \in Procs, OpenStream(w)
          PROVE  doubtful' \subseteq Docs /\ skipped' \subseteq Docs
        BY <1>1, <1>3 DEF OpenStream, Behind
    <1>4. ASSUME NEW w \in Procs, BulkIndex(w)
          PROVE  doubtful' \subseteq Docs /\ skipped' \subseteq Docs
        BY <1>1, <1>4 DEF BulkIndex, Judged
    <1>5. CASE UNCHANGED <<doubtful, skipped>>
        BY <1>1, <1>5
    <1>6. ASSUME NEW w \in Procs, \/ FetchChanges(w) \/ SaveToken(w) \/ ClearToken(w)
                                  \/ BackfillScan(w) \/ StreamBreaks(w)
          PROVE  UNCHANGED <<doubtful, skipped>>
        BY <1>6 DEF FetchChanges, SaveToken, ClearToken, BackfillScan, StreamBreaks
    <1>7. ASSUME NEW w \in Procs, WatcherStep(w) \/ Disturbance(w)
          PROVE  doubtful' \subseteq Docs /\ skipped' \subseteq Docs
        BY <1>2, <1>3, <1>4, <1>5, <1>6, <1>7 DEF WatcherStep, Disturbance
    <1>8. ASSUME NEW w \in Watchers, StartWatcher(w) \/ KillWatcher(w)
          PROVE  UNCHANGED <<doubtful, skipped>>
        BY <1>8 DEF StartWatcher, KillWatcher
    <1>9. ASSUME NEW d \in Docs, ChangeDoc(d) \/ DeleteDoc(d)
          PROVE  UNCHANGED <<doubtful, skipped>>
        BY <1>9 DEF ChangeDoc, DeleteDoc
    <1>10. CASE OplogRolls \/ RunBackfill \/ UNCHANGED vars
        BY <1>5, <1>10 DEF OplogRolls, RunBackfill, vars
    <1>11. QED
        BY <1>4, <1>5, <1>6, <1>7, <1>8, <1>9, <1>10 DEF Next, Procs

\* The oplog forgets no more than was written.
LEMMA RestStep ==
    ASSUME SyncInv, RestOK, [Next]_vars
    PROVE  RestOK'
    <1>1. gone \subseteq Docs /\ oldest \in 0 .. Len(log) /\ faults \in 0 .. MaxFaults
        BY DEF RestOK
    <1>2. ASSUME NEW d \in Docs, ChangeDoc(d) \/ DeleteDoc(d)
          PROVE  gone' \subseteq Docs /\ oldest' \in 0 .. Len(log') /\ UNCHANGED faults
        <2>1. \E op \in Ops : log' = Append(log, [doc |-> d, op |-> op])
            BY <1>2 DEF ChangeDoc, DeleteDoc, Ops
        <2>2. Len(log') = Len(log) + 1 /\ Len(log) \in Nat
            BY <2>1, LogGrows DEF SyncInv
        <2>3. QED
            BY <1>1, <1>2, <2>2 DEF ChangeDoc, DeleteDoc
    <1>3. CASE OplogRolls
        <2>1. /\ UNCHANGED <<gone, log>> /\ oldest' \in 0 .. Len(log')
              /\ \E kind \in AllFaults : Fault(kind)
            BY <1>1, <1>3, Types DEF OplogRolls, AllFaults
        <2>2. QED
            BY <1>1, <2>1, FaultCounted, ExcusedAreDocs DEF RestOK
    <1>4. CASE UNCHANGED <<gone, log, oldest>> /\
               (UNCHANGED faults \/ \E kind \in AllFaults : Fault(kind))
        BY <1>1, <1>4, FaultCounted, ExcusedAreDocs DEF RestOK
    <1>5. ASSUME NEW w \in Procs, \/ StartWatcher(w) \/ KillWatcher(w)
                                  \/ WatcherStep(w) \/ Disturbance(w)
          PROVE  UNCHANGED <<gone, log, oldest>> /\
                 (UNCHANGED faults \/ \E kind \in AllFaults : Fault(kind))
        BY <1>5 DEF StartWatcher, KillWatcher, WatcherStep, Disturbance, OpenStream,
                    FetchChanges, HandleChange, SaveToken, ClearToken, BackfillScan,
                    BulkIndex, StreamBreaks, StopInChange, AllFaults
    <1>6. CASE RunBackfill \/ UNCHANGED vars
        BY <1>4, <1>6 DEF RunBackfill, AllFaults, vars
    <1>7. CASE BackfillScan(Operator) \/ BulkIndex(Operator)
        BY <1>4, <1>5, <1>7 DEF WatcherStep, Procs
    <1>8. CASE \E d \in Docs : ChangeDoc(d) \/ DeleteDoc(d)
        BY <1>1, <1>2, <1>8, FaultCounted, ExcusedAreDocs DEF RestOK
    <1>9. QED
        BY <1>3, <1>4, <1>5, <1>6, <1>7, <1>8 DEF Next, Procs

\* Every variable has its type; no entry shows a version, and no token and no
\* position is, from the future.
THEOREM TypeCorrect == Spec => []TypeOK
    <1>1. Init => RestOK
        BY SyncAssumption DEF Init, RestOK
    <1>2. SyncInv /\ RestOK /\ [Next]_vars => RestOK'
        BY RestStep
    <1>3. ASSUME SyncInv, RestOK
          PROVE  TypeOK
        <2>1. index \in [Docs -> 0 .. Len(log)]
            <3>1. \A d \in Docs : index[d] \in 0 .. Len(log)
                BY <1>3, Types DEF SyncInv
            <3>2. QED
                BY <1>3, <3>1 DEF SyncInv
        <2>2. {token, first} \subseteq {None} \cup 0 .. Len(log)
            BY <1>3, Types DEF SyncInv, None
        <2>3. ASSUME NEW w \in Procs
              PROVE  proc[w].pos \in 0 .. Len(log)
            <3>1. PICK r \in Proc : r = proc[w] /\ Held(r)
                BY <1>3, Types
            <3>2. r.pos \in Nat /\ Len(r.buffer) \in Nat /\ r.pos + Len(r.buffer) <= Len(log)
                BY <3>1, ProcType DEF Held
            <3>3. QED
                BY <1>3, <3>1, <3>2, Types
        <2>4. QED
            BY <1>3, <2>1, <2>2, <2>3 DEF TypeOK, RestOK, SyncInv, Entry
    <1>4. QED
        BY <1>1, <1>2, <1>3, SyncInit, SyncStep, PTL DEF Spec

=============================================================================
