----------------------- MODULE CodexTranscriptQueueProofs -----------------------
(***************************************************************************)
(* What CodexTranscriptQueue guarantees for any number of hooks and drains    *)
(* and any bounds: nothing written without consent is sent, what the cursor    *)
(* covers is kept, and a record stands once, in order.                       *)
(***************************************************************************)
EXTENDS CodexTranscriptQueue, FiniteSetTheorems, SequenceTheorems, TLAPS

(* The inductive invariant, in parts.                                        *)

ViewType  == [on : BOOLEAN, token : Nat, boundary : Nat]
PlanType  == [lines : Seq(Chunk), next : Cursor, boundary : Nat]
Group     == [lines : Seq(Chunk), next : Cursor, ready : BOOLEAN]

\* Where a drain holds the queue lock.
Holding == {"publish", "cursor", "mark", "next", "post", "ack", "reset", "close"}
Places  == Holding \cup {"idle", "dead", "purge", "stage", "observe", "take", "purge1", "open", "purge2", "recheck"}

HookType  == [pc : {"idle", "observe"}, view : ViewType \cup {None}]
DrainType == [pc : Places, again : BOOLEAN, view : ViewType \cup JournalType \cup {None}, plan : PlanType \cup {None}]

\* What a drain needs at hand where it stands.
DrainOK(r) ==
  /\ r \in DrainType
  /\ r.pc = "observe" => r.view \in ViewType
  /\ r.pc = "take" => r.view \in JournalType
  /\ r.pc \in {"publish", "cursor"} => r.plan \in PlanType
HookOK(r) == r \in HookType /\ (r.pc = "observe" => r.view \in ViewType)

JournalOK(j) == j # None => j \in JournalType /\ j.excluded \subseteq 1 .. j.observed

Types ==
  /\ Constants
  /\ src \in [id : Nat, recs : Seq(Nat)] /\ consented \subseteq Nat
  /\ repo \in [on : BOOLEAN, token : Nat] /\ repo.token >= 1 /\ pause \in [on : BOOLEAN, boundary : Nat]
  /\ revoked \subseteq 1 .. repo.token - 1
  /\ JournalOK(journal) /\ cursor \in Cursor \cup {None} /\ groups \in Seq(Group)
  /\ request \in Nat /\ hint \in Nat \cup {None} /\ lock \in Drain \cup {None}
  /\ hook \in [Hook -> HookType] /\ \A h \in Hook : HookOK(hook[h])
  /\ drain \in [Drain -> DrainType]
  /\ \A d \in Drain : DrainOK(drain[d]) /\ (drain[d].again => cursor # None)
  /\ store \in StoreType \cup {None} /\ arrived \subseteq Chunk /\ straddled \in BOOLEAN
  /\ left \in [Bounds \cup {"slice"} -> Nat \cup {None}]
  /\ left["records"] \in Nat /\ left["slice"] \in Nat

\* A record is written once: what is left to write is smaller than all that stands.
Fresh ==
  /\ \A i \in DOMAIN src.recs : src.recs[i] > left["records"]
  /\ \A i, k \in DOMAIN src.recs : src.recs[i] = src.recs[k] => i = k

\* Whoever stands between taking and leaving the lock owns it, and has made good what a
\* dead owner left, but for the one step between publication and cursor.
Held(d) ==
  drain[d].pc \in Holding =>
    /\ lock = d
    /\ IF drain[d].pc = "cursor" THEN Recovered = drain[d].plan.next ELSE cursor = Recovered
    /\ drain[d].pc \in {"post", "ack", "reset"} => Pending # {}
    /\ drain[d].pc = "ack" => NextChunk \in arrived
Locked == \A d \in Drain : Held(d)

\* Batches are numbered upwards, and but for the last they are behind the cursor.
Numbered ==
  /\ \A i, k \in DOMAIN groups : i < k => groups[i].next.seq < groups[k].next.seq
  /\ \A k \in DOMAIN groups : k < Len(groups) => cursor # None /\ groups[k].next.seq <= cursor.seq

\* The chunks of a batch are numbered upwards, above the batches before it.
ChunksNumbered == \A k \in DOMAIN groups :
  /\ \A m, n \in DOMAIN groups[k].lines : m < n => groups[k].lines[m].seq < groups[k].lines[n].seq
  /\ \A n \in DOMAIN groups[k].lines :
       /\ groups[k].lines[n].seq <= groups[k].next.seq
       /\ groups[k].lines[n].line.gen = groups[k].next.gen
       /\ \A i \in DOMAIN groups : i < k => groups[i].next.seq < groups[k].lines[n].seq

\* How what is behind the cursor in force relates to it: the batches ...
Kin(n, r) ==
  /\ n.gen <= r.gen /\ n.baseline <= r.baseline
  /\ n.gen = r.gen <=> n.baseline = r.baseline
  /\ n.gen = r.gen => n.token = r.token
Generations ==
  /\ Recovered # None => /\ Recovered.baseline <= Recovered.seq
                         /\ journal # None /\ Recovered.epoch <= journal.epoch
                         /\ DOMAIN Recovered.prefix = 1 .. Recovered.offset
                         /\ \A i, k \in DOMAIN Recovered.prefix : Recovered.prefix[i] = Recovered.prefix[k] => i = k
  /\ cursor # None => /\ Kin(cursor, Recovered) /\ journal # None /\ cursor.epoch <= journal.epoch
                      /\ DOMAIN cursor.prefix = 1 .. cursor.offset
  /\ \A k \in DOMAIN groups : Kin(groups[k].next, Recovered)
  /\ \A i, k \in DOMAIN groups : groups[i].next.gen = groups[k].next.gen => groups[i].next.token = groups[k].next.token
  /\ cursor # None =>
       \A k \in DOMAIN groups : groups[k].next.gen = cursor.gen => groups[k].next.token = cursor.token

\* ... what has arrived, ...
Lines == {c.line : c \in arrived \cup Queued}
Arrivals ==
  /\ arrived # {} => Recovered # None
  /\ \A b \in arrived : b.seq <= Recovered.seq /\ b.line.gen <= Recovered.gen
  /\ \A a \in Queued : \A b \in arrived : a # b => a.seq # b.seq /\ (a.line.gen = b.line.gen => b.seq < a.seq)
  /\ \A a, b \in arrived : a.seq = b.seq => a = b

\* ... the lines of either, ...
OnePlace ==
  /\ \A x, y \in Lines : x.gen = y.gen /\ x.rec = y.rec => x = y
  /\ \A x \in Lines : x.gen = Recovered.gen => x.at \in DOMAIN Recovered.prefix /\ x.rec = Recovered.prefix[x.at]

\* ... and the collector's object.
Stored ==
  store # None =>
    /\ Recovered # None /\ store.baseline <= Recovered.baseline
    /\ store.lines \subseteq {c.line : c \in arrived}
    /\ \A x, y \in store.lines : x.gen = y.gen
    /\ store.baseline = Recovered.baseline => \A x \in store.lines : x.gen = Recovered.gen

\* What a cursor stands for is kept in its generation, beside what the journal excludes.
Covers(n, L) ==
  n.epoch = journal.epoch /\ n.token \notin revoked =>
    \A i \in 1 .. n.offset : i \in journal.excluded \/ [gen |-> n.gen, at |-> i, rec |-> n.prefix[i]] \in L
Covering == \A n \in {cursor, Recovered} : n # None => Covers(n, Lines)

\* What the journal does not exclude was written under consent: up to its boundary in the
\* source it is about, and past it as long as the consent is the one it was noted under.
Noted ==
  journal # None =>
    /\ journal.id <= src.id
    /\ journal.token <= repo.token /\ journal.boundary <= pause.boundary
    /\ journal.id = src.id =>
         /\ journal.observed <= Len(src.recs)
         /\ \A i \in 1 .. journal.observed : i \in journal.excluded \/ src.recs[i] \in consented
    /\ journal.on /\ journal.token = repo.token /\ journal.boundary = pause.boundary =>
         /\ Allowed
         /\ \A i \in DOMAIN src.recs : i > journal.observed => src.recs[i] \in consented

\* So was what a cursor of the journal's epoch has committed, and all that is queued.
Committed(n) ==
  n.epoch = journal.epoch => \A i \in 1 .. n.offset : i \in journal.excluded \/ n.prefix[i] \in consented
Consented ==
  ~ straddled =>
    /\ Noted
    /\ \A n \in {cursor, Recovered} : n # None => Committed(n)
    /\ \A x \in Lines : x.rec \in consented

\* A plan continues the cursor it was made from, or begins a generation.
Continues(n, r) ==
  IF r = None THEN n.gen = 1 /\ n.baseline = 1
  ELSE \/ /\ n.gen = r.gen /\ n.baseline = r.baseline /\ n.token = r.token
          /\ r.offset <= n.offset /\ \A i \in 1 .. r.offset : n.prefix[i] = r.prefix[i]
       \/ n.gen = r.gen + 1 /\ n.baseline = r.seq + 1

PlanLines(p) == {p.lines[i].line : i \in DOMAIN p.lines}
PlanFits(p, r) ==
  /\ LastSeq(r) < p.next.seq
  /\ Continues(p.next, r)
  /\ p.next.baseline <= p.next.seq
  /\ DOMAIN p.next.prefix = 1 .. p.next.offset
  /\ \A i, k \in DOMAIN p.next.prefix : p.next.prefix[i] = p.next.prefix[k] => i = k
  /\ \A m, n \in DOMAIN p.lines : m < n => p.lines[m].seq < p.lines[n].seq
  /\ \A n \in DOMAIN p.lines :
       /\ LastSeq(r) < p.lines[n].seq /\ p.lines[n].seq <= p.next.seq
       /\ p.lines[n].line.gen = p.next.gen
       /\ p.lines[n].line.at \in DOMAIN p.next.prefix
       /\ p.lines[n].line.rec = p.next.prefix[p.lines[n].line.at]
PlanStands(p) ==
  /\ PlanFits(p, Recovered)
  /\ journal # None /\ p.next.epoch <= journal.epoch
  /\ Covers(p.next, Lines \cup PlanLines(p))
  /\ ~ straddled => Committed(p.next) /\ \A x \in PlanLines(p) : x.rec \in consented
Planned == \A d \in Drain : drain[d].pc = "publish" => PlanStands(drain[d].plan)

QueueInvariant ==
  /\ Types /\ Fresh /\ Locked /\ Numbered /\ ChunksNumbered /\ Generations /\ Arrivals
  /\ OnePlace /\ Stored /\ Covering /\ Consented /\ Planned

-----------------------------------------------------------------------------
(* Positions, least elements and selections.                                 *)

\* Ascending lists a finite set of numbers upwards, and all of it.
LEMMA AscendingLists ==
  ASSUME NEW S \in SUBSET Nat, IsFiniteSet(S)
  PROVE  /\ Cardinality(S) \in Nat
         /\ Ascending(S) \in [1 .. Cardinality(S) -> S]
         /\ \A x \in S : \E i \in 1 .. Cardinality(S) : Ascending(S)[i] = x
         /\ \A i, k \in 1 .. Cardinality(S) : i < k => Ascending(S)[i] < Ascending(S)[k]
<1> DEFINE n == Cardinality(S)
           Below(x) == {y \in S : y < x}
           rank == [x \in S |-> Cardinality(Below(x)) + 1]
<1>1. n \in Nat BY FS_CardinalityType
<1>2. ASSUME NEW x \in S
      PROVE  IsFiniteSet(Below(x)) /\ Cardinality(Below(x)) \in 0 .. n - 1
  <2>1. Below(x) \in SUBSET (S \ {x}) BY SMT
  <2>2. IsFiniteSet(S \ {x}) /\ Cardinality(S \ {x}) = n - 1 BY FS_RemoveElement
  <2> HIDE DEF Below
  <2>3. IsFiniteSet(Below(x)) /\ Cardinality(Below(x)) <= n - 1 BY <2>1, <2>2, FS_Subset
  <2>4. Cardinality(Below(x)) \in Nat BY <2>3, FS_CardinalityType
  <2> HIDE DEF n
  <2> QED BY <1>1, <2>3, <2>4, SMT
<1>3. ASSUME NEW x \in S, NEW y \in S, x < y
      PROVE  Cardinality(Below(x)) < Cardinality(Below(y))
  <2>0. x \in Nat /\ y \in Nat /\ \A z \in S : z \in Nat OBVIOUS
  <2>1. \A z \in S : z < x => z < y
    <3> SUFFICES ASSUME NEW z \in S, z < x PROVE z < y OBVIOUS
    <3>1. z \in Nat BY <2>0
    <3> QED BY <1>3, <2>0, <3>1, SMT
  <2>6. Below(x) \in SUBSET Below(y) BY <2>1
  <2>2. x \in Below(y) /\ x \notin Below(x) BY <1>3, SMT
  <2>3. IsFiniteSet(Below(y)) /\ Cardinality(Below(y)) \in Nat /\ Cardinality(Below(x)) \in Nat BY <1>2, SMT
  <2> HIDE DEF Below
  <2>4. Cardinality(Below(x)) <= Cardinality(Below(y)) /\ Cardinality(Below(x)) # Cardinality(Below(y))
    BY <2>6, <2>2, <2>3, FS_Subset
  <2> QED BY <2>3, <2>4, SMT
<1>4. /\ rank \in [S -> 1 .. n]
      /\ \A x, y \in S : x < y => rank[x] < rank[y]
  <2>1. \A x \in S : Cardinality(Below(x)) \in 0 .. n - 1 BY <1>2
  <2>2. \A x, y \in S : x < y => Cardinality(Below(x)) < Cardinality(Below(y)) BY <1>3
  <2> HIDE DEF Below, n
  <2> QED BY <1>1, <2>1, <2>2, SMT
<1>5. \A x, y \in S : rank[x] = rank[y] => x = y
  <2> SUFFICES ASSUME NEW x \in S, NEW y \in S, rank[x] = rank[y], x # y PROVE FALSE OBVIOUS
  <2>1. x < y \/ y < x BY SMT
  <2>2. rank[x] \in Nat /\ rank[y] \in Nat
    <3> HIDE DEF rank, n
    <3> QED BY <1>4, <1>1, SMT
  <2> HIDE DEF rank
  <2> QED BY <1>4, <2>1, <2>2, SMT
<1>6. rank \in Injection(S, 1 .. n)
  <2> HIDE DEF rank, n
  <2> QED BY <1>4, <1>5 DEF Injection, IsInjective
<1>7. IsFiniteSet(1 .. n) /\ Cardinality(1 .. n) = n
  <2> HIDE DEF n
  <2> QED BY <1>1, FS_Interval, SMT
<1>8. \A i \in 1 .. n : \E x \in S : rank[x] = i
  <2>1. rank \in Surjection(S, 1 .. n)
    <3> HIDE DEF rank
    <3> QED BY <1>6, <1>7, FS_Injection
  <2> HIDE DEF rank, n
  <2> QED BY <2>1 DEF Surjection
<1>9. ASSUME NEW i \in 1 .. n
      PROVE  Ascending(S)[i] \in S /\ rank[Ascending(S)[i]] = i
  <2> DEFINE at == CHOOSE x \in S : Cardinality(Below(x)) = i - 1
  <2>1. PICK x \in S : rank[x] = i BY <1>8
  <2>2. Cardinality(Below(x)) = i - 1
    <3>1. Cardinality(Below(x)) + 1 = i BY <2>1
    <3>2. Cardinality(Below(x)) \in 0 .. n - 1 BY <1>2
    <3> HIDE DEF Below, n, rank
    <3> QED BY <1>1, <3>1, <3>2, SMT
  <2>3. at \in S /\ Cardinality(Below(at)) = i - 1
    <3> HIDE DEF Below
    <3> QED BY <2>2, Zenon
  <2>4. Ascending(S)[i] = at BY DEF Ascending
  <2>5. rank[at] = (i - 1) + 1 BY <2>3
  <2>6. (i - 1) + 1 = i
    <3> HIDE DEF n
    <3> QED BY <1>1, SMT
  <2> QED BY <2>3, <2>4, <2>5, <2>6
<1>10. Ascending(S) \in [1 .. n -> S] BY <1>9 DEF Ascending
<1>11. ASSUME NEW x \in S PROVE \E i \in 1 .. n : Ascending(S)[i] = x
  <2>1. rank[x] \in 1 .. n BY <1>4
  <2> HIDE DEF rank, n
  <2> QED BY <1>5, <1>9, <2>1
<1>12. ASSUME NEW i \in 1 .. n, NEW k \in 1 .. n, i < k PROVE Ascending(S)[i] < Ascending(S)[k]
  <2> DEFINE x == Ascending(S)[i]
             y == Ascending(S)[k]
  <2>1. x \in S /\ y \in S /\ rank[x] = i /\ rank[y] = k BY <1>9
  <2>2. x \in Nat /\ y \in Nat BY <2>1
  <2>3. ~ (y < x)
    <3>1. y < x => rank[y] < rank[x] BY <1>4, <2>1
    <3> HIDE DEF rank, n
    <3> QED BY <1>12, <1>1, <2>1, <3>1, SMT
  <2>4. x # y
    <3> HIDE DEF rank, n
    <3> QED BY <1>12, <1>1, <2>1, SMT
  <2>5. x < y
    <3> HIDE DEF x, y
    <3> QED BY <2>2, <2>3, <2>4, SMT
  <2> QED BY <2>5
<1> QED BY <1>1, <1>10, <1>11, <1>12

\* A set of numbers that is finite and not empty has a least one.
LEMMA LeastExists ==
  ASSUME NEW S \in SUBSET Nat, IsFiniteSet(S), S # {}
  PROVE  \E i \in S : \A k \in S : i <= k
<1>1. PICK x \in S : TRUE OBVIOUS
<1>2. /\ Cardinality(S) \in Nat
      /\ Ascending(S) \in [1 .. Cardinality(S) -> S]
      /\ \A y \in S : \E i \in 1 .. Cardinality(S) : Ascending(S)[i] = y
      /\ \A i, k \in 1 .. Cardinality(S) : i < k => Ascending(S)[i] < Ascending(S)[k]
  BY AscendingLists
<1>3. 1 \in 1 .. Cardinality(S)
  <2>1. PICK i \in 1 .. Cardinality(S) : Ascending(S)[i] = x BY <1>2
  <2> QED BY <1>2, <2>1, SMT
<1>4. ASSUME NEW k \in S PROVE Ascending(S)[1] <= k
  <2>1. PICK i \in 1 .. Cardinality(S) : Ascending(S)[i] = k BY <1>2
  <2>2. i = 1 \/ 1 < i BY <1>2, SMT
  <2>3. Ascending(S)[1] \in Nat /\ k \in Nat BY <1>2, <1>3
  <2>4. 1 < i => Ascending(S)[1] < Ascending(S)[i] BY <1>2, <1>3
  <2> QED BY <2>1, <2>2, <2>3, <2>4, SMT
<1> QED BY <1>2, <1>3, <1>4

\* What is picked from a sequence keeps its order.
LEMMA PickedKeepsOrder ==
  ASSUME NEW T, NEW s \in Seq(T), NEW S \in SUBSET (DOMAIN s)
  PROVE  /\ Picked(s, S) \in Seq(T)
         /\ \A i \in DOMAIN Picked(s, S) : Ascending(S)[i] \in S /\ Picked(s, S)[i] = s[Ascending(S)[i]]
         /\ \A k \in S : \E i \in DOMAIN Picked(s, S) : Ascending(S)[i] = k
         /\ \A i, k \in DOMAIN Picked(s, S) : i < k => Ascending(S)[i] < Ascending(S)[k]
<1>1. DOMAIN s = 1 .. Len(s) /\ Len(s) \in Nat OBVIOUS
<1>2. IsFiniteSet(1 .. Len(s)) BY <1>1, FS_Interval, SMT
<1>3. IsFiniteSet(S) BY <1>1, <1>2, FS_Subset
<1>4. S \in SUBSET Nat BY <1>1, SMT
<1>5. /\ Cardinality(S) \in Nat
      /\ Ascending(S) \in [1 .. Cardinality(S) -> S]
      /\ \A x \in S : \E i \in 1 .. Cardinality(S) : Ascending(S)[i] = x
      /\ \A i, k \in 1 .. Cardinality(S) : i < k => Ascending(S)[i] < Ascending(S)[k]
  BY <1>3, <1>4, AscendingLists
<1>6. DOMAIN Picked(s, S) = 1 .. Cardinality(S) BY DEF Picked
<1>7. \A i \in 1 .. Cardinality(S) : Ascending(S)[i] \in S /\ Picked(s, S)[i] = s[Ascending(S)[i]]
  BY <1>5 DEF Picked
<1>8. Picked(s, S) \in Seq(T)
  <2>1. \A i \in 1 .. Cardinality(S) : s[Ascending(S)[i]] \in T BY <1>1, <1>7
  <2>2. Picked(s, S) \in [1 .. Cardinality(S) -> T] BY <2>1 DEF Picked
  <2> HIDE DEF Picked
  <2> QED BY <1>5, <2>2, SeqDef
<1> QED BY <1>5, <1>6, <1>7, <1>8

-----------------------------------------------------------------------------
(* Types.                                                                    *)

\* What is in force is a cursor, and there is one as soon as there is a batch.
LEMMA RecoveredTyped ==
  ASSUME Types
  PROVE  /\ Recovered \in Cursor \cup {None}
         /\ groups # << >> => Recovered \in Cursor /\ Recovered # None
         /\ cursor # None => Recovered \in Cursor /\ Recovered # None
         /\ Recovered # None => Recovered \in Cursor
         /\ \A k \in DOMAIN groups : groups[k] \in Group /\ groups[k].next \in Cursor /\ groups[k].lines \in Seq(Chunk)
<1>1. /\ groups \in Seq(Group) /\ cursor \in Cursor \cup {None} /\ None \notin Cursor
  BY DEF Types, Constants
<1>2. \A k \in DOMAIN groups : groups[k] \in Group BY <1>1
<1>3. \A g \in Group : g.next \in Cursor /\ g.lines \in Seq(Chunk) BY DEF Group
<1>4. groups # << >> => Len(groups) \in DOMAIN groups BY <1>1
<1>5. groups # << >> => Last(groups).next \in Cursor
  BY <1>2, <1>3, <1>4 DEF Last
<1> QED BY <1>1, <1>2, <1>3, <1>5 DEF Recovered

\* A ready mark changes nothing else.
LEMMA MarkedTyped ==
  ASSUME Types
  PROVE  /\ Marked \in Seq(Group) /\ DOMAIN Marked = DOMAIN groups /\ Len(Marked) = Len(groups)
         /\ \A k \in DOMAIN groups : Marked[k].lines = groups[k].lines /\ Marked[k].next = groups[k].next
<1>1. groups \in Seq(Group) BY DEF Types
<1>2. \A k \in DOMAIN groups : groups[k] \in Group BY <1>1
<1>3. \A g \in Group : /\ [g EXCEPT !.ready = TRUE] \in Group
                       /\ [g EXCEPT !.ready = TRUE].lines = g.lines
                       /\ [g EXCEPT !.ready = TRUE].next = g.next
  BY DEF Group
<1>4. /\ DOMAIN groups = 1 .. Len(groups) /\ Len(groups) \in Nat BY <1>1
<1>5. Marked = [k \in 1 .. Len(groups) |-> [groups[k] EXCEPT !.ready = TRUE]] BY <1>4 DEF Marked
<1>6. Marked \in [1 .. Len(groups) -> Group] BY <1>2, <1>3, <1>4, <1>5
<1>7. Marked \in Seq(Group) BY <1>4, <1>6, SeqDef
<1>8. DOMAIN Marked = 1 .. Len(groups) BY <1>5
<1>9. Len(Marked) = Len(groups) BY <1>4, <1>7, <1>8
<1> QED BY <1>2, <1>3, <1>4, <1>5, <1>7, <1>8, <1>9

\* What is pending has a first batch, and that a first chunk.
LEMMA FirstIsPending ==
  ASSUME Types, Pending # {}
  PROVE  /\ FirstPending \in Pending /\ FirstPending \in DOMAIN groups
         /\ \A k \in Pending : FirstPending <= k
         /\ groups[FirstPending].lines # << >>
         /\ groups[FirstPending].next.baseline >= cursor.baseline
         /\ NextChunk \in Chunk /\ NextChunk = groups[FirstPending].lines[1]
         /\ 1 \in DOMAIN groups[FirstPending].lines
<1>1. groups \in Seq(Group) BY DEF Types
<1>2. DOMAIN groups = 1 .. Len(groups) /\ Len(groups) \in Nat BY <1>1
<1>3. Pending \in SUBSET (1 .. Len(groups)) BY <1>2 DEF Pending
<1>4. IsFiniteSet(1 .. Len(groups)) BY <1>2, FS_Interval, SMT
<1>5. IsFiniteSet(Pending) BY <1>3, <1>4, FS_Subset
<1>6. Pending \in SUBSET Nat BY <1>2, <1>3, SMT
<1>7. \E i \in Pending : \A k \in Pending : i <= k BY <1>5, <1>6, LeastExists
<1>8. FirstPending \in Pending /\ \A k \in Pending : FirstPending <= k
  <2> HIDE DEF Pending
  <2> QED BY <1>7, Zenon DEF FirstPending
<1>9. /\ FirstPending \in DOMAIN groups /\ groups[FirstPending].lines # << >>
      /\ groups[FirstPending].next.baseline >= cursor.baseline
  <2> HIDE DEF FirstPending
  <2> QED BY <1>8 DEF Pending
<1>10. groups[FirstPending].lines \in Seq(Chunk)
  <2> HIDE DEF FirstPending
  <2> QED BY <1>9, RecoveredTyped
<1>11. NextChunk \in Chunk /\ NextChunk = groups[FirstPending].lines[1] /\ 1 \in DOMAIN groups[FirstPending].lines
  <2> DEFINE s == groups[FirstPending].lines
  <2>1. s \in Seq(Chunk) /\ s # << >> BY <1>9, <1>10
  <2>2. Head(s) \in Chunk /\ Head(s) = s[1] /\ 1 \in DOMAIN s
    <3> HIDE DEF s
    <3> QED BY <2>1
  <2> QED BY <2>2 DEF NextChunk
<1> QED BY <1>8, <1>9, <1>11

\* A bound that is spent leaves the others.
LEMMA SpendTyped ==
  ASSUME Types, NEW k \in Bounds, Spend(k)
  PROVE  /\ left' \in [Bounds \cup {"slice"} -> Nat \cup {None}]
         /\ left'["slice"] = left["slice"]
         /\ k # "records" => left'["records"] = left["records"]
         /\ k = "records" => left'["records"] \in Nat /\ left["records"] \in Nat /\ left'["records"] = left["records"] - 1
<1>1. left \in [Bounds \cup {"slice"} -> Nat \cup {None}] /\ left["records"] \in Nat BY DEF Types
<1>2. k # "slice" /\ "records" \in Bounds BY DEF Bounds
<1>3. None \notin Nat BY DEF Types, Constants
<1>4. CASE left[k] = None
  <2>1. left' = left /\ k # "records" BY <1>1, <1>3, <1>4 DEF Spend
  <2> QED BY <1>1, <2>1
<1>5. CASE left[k] # None
  <2>1. left[k] \in Nat /\ left[k] # 0 BY <1>1, <1>5 DEF Spend
  <2>2. left' = [left EXCEPT ![k] = left[k] - 1] BY <1>5 DEF Spend
  <2>3. left[k] - 1 \in Nat BY <2>1, SMT
  <2> QED BY <1>1, <1>2, <2>1, <2>2, <2>3
<1> QED BY <1>4, <1>5

\* A drain that goes on from where it stands.
LEMMA DrainMoves ==
  ASSUME Types, NEW d \in Drain, NEW r, DrainOK(r), drain' = [drain EXCEPT ![d] = r],
         cursor # None => cursor' # None, r.again => cursor' # None
  PROVE  /\ drain' \in [Drain -> DrainType] /\ drain'[d] = r
         /\ \A e \in Drain \ {d} : drain'[e] = drain[e]
         /\ \A e \in Drain : DrainOK(drain'[e]) /\ (drain'[e].again => cursor' # None)
<1>1. drain \in [Drain -> DrainType] /\ \A e \in Drain : DrainOK(drain[e]) /\ (drain[e].again => cursor # None)
  BY DEF Types
<1>2. r \in DrainType BY DEF DrainOK
<1>3. drain' \in [Drain -> DrainType] /\ drain'[d] = r /\ \A e \in Drain \ {d} : drain'[e] = drain[e]
  BY <1>1, <1>2
<1>4. ASSUME NEW e \in Drain PROVE DrainOK(drain'[e]) /\ (drain'[e].again => cursor' # None)
  <2>1. CASE e = d BY <1>3, <2>1
  <2>2. CASE e # d BY <1>1, <1>3, <2>2
  <2> QED BY <2>1, <2>2
<1> QED BY <1>3, <1>4

LEMMA DrainGoes ==
  ASSUME Types, NEW d \in Drain, NEW pc \in Places, To(d, pc),
         pc \notin {"observe", "take"}, pc \in {"publish", "cursor"} => drain[d].pc = "publish",
         cursor # None => cursor' # None
  PROVE  /\ drain' \in [Drain -> DrainType]
         /\ drain'[d].pc = pc /\ drain'[d].plan = drain[d].plan /\ drain'[d].again = drain[d].again
         /\ \A e \in Drain \ {d} : drain'[e] = drain[e]
         /\ \A e \in Drain : DrainOK(drain'[e]) /\ (drain'[e].again => cursor' # None)
<1> DEFINE r == [drain[d] EXCEPT !.pc = pc]
<1>1. drain \in [Drain -> DrainType] /\ DrainOK(drain[d]) /\ (drain[d].again => cursor # None) BY DEF Types
<1>2. drain' = [drain EXCEPT ![d] = r] BY <1>1 DEF To
<1>3. /\ r \in DrainType /\ r.pc = pc /\ r.plan = drain[d].plan /\ r.again = drain[d].again
  BY <1>1 DEF DrainType
<1>4. DrainOK(r) BY <1>1, <1>3 DEF DrainOK
<1> HIDE DEF r
<1>5. r.again => cursor' # None BY <1>1, <1>3
<1>6. /\ drain' \in [Drain -> DrainType] /\ drain'[d] = r
      /\ \A e \in Drain \ {d} : drain'[e] = drain[e]
      /\ \A e \in Drain : DrainOK(drain'[e]) /\ (drain'[e].again => cursor' # None)
  BY <1>2, <1>4, <1>5, DrainMoves
<1> QED BY <1>3, <1>6

LEMMA DrainLooks ==
  ASSUME Types, NEW d \in Drain, Look(d), cursor # None => cursor' # None
  PROVE  /\ drain' \in [Drain -> DrainType] /\ drain'[d].pc = "observe"
         /\ \A e \in Drain \ {d} : drain'[e] = drain[e]
         /\ \A e \in Drain : DrainOK(drain'[e]) /\ (drain'[e].again => cursor' # None)
<1> DEFINE r == [drain[d] EXCEPT !.pc = "observe", !.view = View]
<1>1. drain \in [Drain -> DrainType] /\ DrainOK(drain[d]) /\ (drain[d].again => cursor # None) BY DEF Types
<1>2. drain' = [drain EXCEPT ![d] = r] BY <1>1 DEF Look
<1>3. View \in ViewType BY DEF Types, View, ViewType, Allowed
<1>4. /\ r \in DrainType /\ r.pc = "observe" /\ r.view = View /\ r.again = drain[d].again
  BY <1>1, <1>3 DEF DrainType, Places
<1>5. DrainOK(r) BY <1>3, <1>4 DEF DrainOK
<1> HIDE DEF r
<1>6. r.again => cursor' # None BY <1>1, <1>4
<1>7. /\ drain' \in [Drain -> DrainType] /\ drain'[d] = r
      /\ \A e \in Drain \ {d} : drain'[e] = drain[e]
      /\ \A e \in Drain : DrainOK(drain'[e]) /\ (drain'[e].again => cursor' # None)
  BY <1>2, <1>5, <1>6, DrainMoves
<1> QED BY <1>4, <1>7

LEMMA DrainIdles ==
  ASSUME Types, NEW d \in Drain, Idle(d), cursor # None => cursor' # None
  PROVE  /\ drain' \in [Drain -> DrainType] /\ drain'[d].pc = "idle"
         /\ \A e \in Drain \ {d} : drain'[e] = drain[e]
         /\ \A e \in Drain : DrainOK(drain'[e]) /\ (drain'[e].again => cursor' # None)
<1> DEFINE r == [pc |-> "idle", again |-> FALSE, view |-> None, plan |-> None]
<1>1. drain' = [drain EXCEPT ![d] = r] BY DEF Idle
<1>2. DrainOK(r) /\ r.pc = "idle" /\ ~ r.again BY DEF DrainOK, DrainType, Places
<1> HIDE DEF r
<1>3. /\ drain' \in [Drain -> DrainType] /\ drain'[d] = r
      /\ \A e \in Drain \ {d} : drain'[e] = drain[e]
      /\ \A e \in Drain : DrainOK(drain'[e]) /\ (drain'[e].again => cursor' # None)
  BY <1>1, <1>2, DrainMoves
<1> QED BY <1>2, <1>3

\* A drain that stops staging holds nothing.
LEMMA DrainStops ==
  ASSUME Types, NEW d \in Drain, Staged(d), cursor # None => cursor' # None
  PROVE  /\ drain' \in [Drain -> DrainType] /\ drain'[d].pc \in {"idle", "purge1"}
         /\ \A e \in Drain \ {d} : drain'[e] = drain[e]
         /\ \A e \in Drain : DrainOK(drain'[e]) /\ (drain'[e].again => cursor' # None)
<1>1. CASE drain[d].again
  <2>1. Idle(d) BY <1>1 DEF Staged
  <2> QED BY <2>1, DrainIdles
<1>2. CASE ~ drain[d].again
  <2>1. To(d, "purge1") /\ "purge1" \in Places BY <1>2 DEF Staged, Places
  <2> QED BY <2>1, DrainGoes
<1> QED BY <1>1, <1>2

\* What a view makes of the journal.
LEMMA ObservedTyped ==
  ASSUME Types, NEW view \in ViewType, NEW verify \in BOOLEAN
  PROVE  /\ Observed(view, verify) \in JournalType
         /\ Observed(view, verify).excluded \subseteq 1 .. Observed(view, verify).observed
<1> DEFINE j == Observed(view, verify)
           moved == journal # None /\ journal.id # src.id /\ view.on /\ journal.on /\ SameStamp(view)
           kept  == journal # None /\ journal.token = view.token /\ Len(src.recs) >= journal.observed
                     /\ (journal.id = src.id \/ (moved /\ Proven))
           k == [journal EXCEPT !.id = src.id, !.observed = Len(src.recs),
                   !.excluded = @ \cup Interval(view), !.on = view.on, !.boundary = view.boundary]
<1>1. /\ src.id \in Nat /\ src.recs \in Seq(Nat) /\ Len(src.recs) \in Nat
      /\ journal # None => journal \in JournalType /\ journal.excluded \subseteq 1 .. journal.observed
      /\ view.on \in BOOLEAN /\ view.token \in Nat /\ view.boundary \in Nat
  BY DEF Types, ViewType, JournalOK
<1>2. j = IF moved /\ ~ verify THEN journal ELSE IF ~ kept THEN FreshJournal(view) ELSE k
  BY DEF Observed
<1>3. CASE moved /\ ~ verify BY <1>1, <1>2, <1>3
<1>4. FreshJournal(view) \in JournalType /\ FreshJournal(view).excluded \subseteq 1 .. FreshJournal(view).observed
  <2>1. (IF journal = None THEN 1 ELSE journal.epoch + 1) \in Nat BY <1>1, SMT DEF JournalType
  <2>2. 1 .. Len(src.recs) \in SUBSET Nat BY <1>1, SMT
  <2> QED BY <1>1, <2>1, <2>2 DEF FreshJournal, JournalType
<1>5. CASE kept /\ ~ (moved /\ ~ verify)
  <2>1. journal \in JournalType /\ Len(src.recs) >= journal.observed /\ journal.excluded \subseteq 1 .. journal.observed
    BY <1>1, <1>5
  <2>2. journal.observed \in Nat /\ journal.excluded \in SUBSET Nat BY <2>1 DEF JournalType
  <2>3. Interval(view) \subseteq journal.observed + 1 .. Len(src.recs) BY DEF Interval
  <2>4. journal.excluded \cup Interval(view) \subseteq 1 .. Len(src.recs)
    <3>1. \A i \in journal.observed + 1 .. Len(src.recs) : i \in 1 .. Len(src.recs) BY <1>1, <2>2, SMT
    <3>2. \A i \in 1 .. journal.observed : i \in 1 .. Len(src.recs) BY <1>1, <2>1, <2>2, SMT
    <3> QED BY <2>1, <2>3, <3>1, <3>2
  <2>5. journal.excluded \cup Interval(view) \in SUBSET Nat
    <3>1. 1 .. Len(src.recs) \in SUBSET Nat BY <1>1, SMT
    <3> QED BY <2>4, <3>1
  <2>6. k \in JournalType /\ k.observed = Len(src.recs) /\ k.excluded = journal.excluded \cup Interval(view)
    BY <1>1, <2>1, <2>5 DEF JournalType
  <2>7. j = k BY <1>2, <1>5
  <2> HIDE DEF k
  <2> QED BY <2>4, <2>6, <2>7
<1> QED BY <1>2, <1>3, <1>4, <1>5

-----------------------------------------------------------------------------
(* Plans.                                                                    *)

From(c, r) == IF Resets(c, r) THEN 0 ELSE r.offset
Size(c)    == IF Len(src.recs) < c.observed THEN Len(src.recs) ELSE c.observed
End(c, r)  == BatchEnd(c, From(c, r), Size(c))
Spots(c, r) == {i \in From(c, r) + 1 .. End(c, r) : Included(c, i)}

\* The records behind the cursor that are not excluded, each numbered and at its place, up
\* to the end that the next cursor names.
PlanShape(p, r) ==
  LET c == journal
      from == From(c, r)
      to == End(c, r)
  IN  /\ p \in PlanType
      /\ from \in Nat /\ to \in Nat /\ from <= to /\ to <= Len(src.recs) /\ to <= c.observed
      /\ p.next.offset = to /\ p.next.epoch = c.epoch /\ p.next.token = repo.token
      /\ p.next.id = src.id /\ p.boundary = c.boundary
      /\ p.next.gen = (IF r = None THEN 1 ELSE IF Resets(c, r) THEN r.gen + 1 ELSE r.gen)
      /\ p.next.baseline = NextBaseline(r, Resets(c, r))
      /\ LastSeq(r) \in Nat /\ LastSeq(r) < p.next.seq
      /\ DOMAIN p.next.prefix = 1 .. to
      /\ \A i \in 1 .. to : i \in DOMAIN src.recs /\ p.next.prefix[i] = src.recs[i]
      /\ \A m \in DOMAIN p.lines :
           /\ p.lines[m].seq = LastSeq(r) + m /\ m \in Nat /\ 1 <= m
           /\ p.lines[m].seq <= p.next.seq
           /\ p.lines[m].line.gen = p.next.gen
           /\ p.lines[m].line.at \in from + 1 .. to
           /\ p.lines[m].line.at \notin c.excluded
           /\ p.lines[m].line.rec = src.recs[p.lines[m].line.at]
      /\ \A i \in from + 1 .. to :
           i \in c.excluded \/ \E m \in DOMAIN p.lines :
                                 p.lines[m].line = [gen |-> p.next.gen, at |-> i, rec |-> src.recs[i]]

LEMMA BatchEndBounded ==
  ASSUME NEW c, NEW from \in Nat, NEW size \in Nat, from <= size
  PROVE  BatchEnd(c, from, size) \in from .. size
<1> DEFINE full == {i \in from + 1 .. size : i >= from + Slice /\ \E k \in from + 1 .. i : Included(c, k)}
           at == CHOOSE i \in full : \A k \in full : i <= k
<1>1. CASE full = {}
  <2>1. BatchEnd(c, from, size) = size BY <1>1 DEF BatchEnd
  <2> QED BY <2>1, SMT
<1>2. CASE full # {}
  <2>1. full \in SUBSET (from + 1 .. size) OBVIOUS
  <2>2. IsFiniteSet(from + 1 .. size) BY FS_Interval, SMT
  <2>3. from + 1 .. size \in SUBSET Nat BY SMT
  <2> HIDE DEF full
  <2>4. IsFiniteSet(full) /\ full \in SUBSET Nat BY <2>1, <2>2, <2>3, FS_Subset
  <2>5. \E i \in full : \A k \in full : i <= k BY <1>2, <2>4, LeastExists
  <2>6. at \in full BY <2>5, Zenon
  <2>7. at \in from + 1 .. size BY <2>1, <2>6
  <2>8. BatchEnd(c, from, size) = at BY <1>2 DEF BatchEnd, full
  <2> HIDE DEF at
  <2> QED BY <2>7, <2>8, SMT
<1> QED BY <1>1, <1>2

\* What is staged has this shape.
LEMMA PlanMade ==
  ASSUME Types, journal # None, NEW r \in Cursor \cup {None}, ~ Rewritten(journal, r),
         Plan(journal, r).lines # << >>
  PROVE  PlanShape(Plan(journal, r), r)
<1> DEFINE c == journal
           p == Plan(c, r)
           from == From(c, r)
           to == End(c, r)
           S == Spots(c, r)
           at == Ascending(S)
           n == Cardinality(S)
           seq == LastSeq(r)
           gen == IF r = None THEN 1 ELSE IF Resets(c, r) THEN r.gen + 1 ELSE r.gen
           base == NextBaseline(r, Resets(c, r))
           chunk(i) == [seq |-> seq + i, line |-> [gen |-> gen, at |-> at[i], rec |-> src.recs[at[i]]]]
           next == [seq |-> seq + Len(at), baseline |-> base, gen |-> gen, offset |-> to,
                    epoch |-> c.epoch, token |-> repo.token, id |-> src.id, prefix |-> SubSeq(src.recs, 1, to)]
<1>1. /\ c \in JournalType /\ src.recs \in Seq(Nat) /\ Len(src.recs) \in Nat /\ src.id \in Nat
      /\ repo.token \in Nat /\ c.epoch \in Nat /\ c.observed \in Nat /\ c.boundary \in Nat
  BY DEF Types, JournalOK, JournalType
<1>2. /\ r # None => /\ r.seq \in Nat /\ r.baseline \in Nat /\ r.gen \in Nat /\ r.offset \in Nat
                     /\ r.epoch \in Nat /\ r.token \in Nat
      /\ r = None => Resets(c, r)
  BY DEF Cursor, Resets
<1>3. seq \in Nat /\ gen \in Nat /\ base \in Nat
  <2>1. seq \in Nat BY <1>2 DEF LastSeq
  <2>2. gen \in Nat BY <1>2, SMT
  <2>3. base \in Nat BY <1>2, <2>1 DEF NextBaseline
  <2> QED BY <2>1, <2>2, <2>3
<1>4. Size(c) \in Nat /\ Size(c) <= Len(src.recs) /\ Size(c) <= c.observed
  BY <1>1, SMT DEF Size
<1>5. from \in Nat /\ from <= Size(c)
  <2>1. CASE Resets(c, r) BY <2>1, <1>4, SMT DEF From
  <2>2. CASE ~ Resets(c, r)
    <3>1. r # None /\ r.epoch = c.epoch BY <2>2 DEF Resets
    <3>2. ~ (r.offset > c.observed) /\ ~ (r.offset > Len(src.recs)) BY <3>1 DEF Rewritten
    <3>3. from = r.offset BY <2>2 DEF From
    <3> QED BY <1>1, <1>2, <3>1, <3>2, <3>3, SMT DEF Size
  <2> QED BY <2>1, <2>2
<1>6. to \in from .. Size(c) BY <1>4, <1>5, BatchEndBounded DEF End
<1>7. to \in Nat /\ from <= to /\ to <= Len(src.recs) /\ to <= c.observed
  <2> HIDE DEF from, to
  <2> QED BY <1>1, <1>4, <1>5, <1>6, SMT
<1>8. /\ S \in SUBSET (from + 1 .. to)
      /\ \A i \in from + 1 .. to : i \in S <=> i \notin c.excluded
  BY DEF Spots, Included
<1>9. from + 1 .. to \in SUBSET (1 .. to) /\ 1 .. to \in SUBSET (1 .. Len(src.recs)) /\ from + 1 .. to \in SUBSET Nat
  <2> HIDE DEF from, to
  <2> QED BY <1>1, <1>5, <1>7, SMT
<1>10. IsFiniteSet(S)
  <2>1. IsFiniteSet(from + 1 .. to)
    <3> HIDE DEF from, to
    <3> QED BY <1>5, <1>7, FS_Interval, SMT
  <2> HIDE DEF S, from, to
  <2> QED BY <1>8, <2>1, FS_Subset
<1>11. /\ n \in Nat /\ at \in [1 .. n -> S]
       /\ \A x \in S : \E i \in 1 .. n : at[i] = x
  <2>1. S \in SUBSET Nat BY <1>8, <1>9
  <2> HIDE DEF S
  <2> QED BY <1>10, <2>1, AscendingLists
<1>12. DOMAIN at = 1 .. n /\ Len(at) = n
  <2> HIDE DEF S
  <2>1. at \in Seq(S) BY <1>11, SeqDef
  <2> QED BY <1>11, <2>1
<1>13. p = [lines |-> [i \in 1 .. n |-> chunk(i)], next |-> next, boundary |-> c.boundary]
  <2>1. S = {i \in from + 1 .. to : Included(c, i)} BY DEF Spots
  <2>2. p = [lines |-> [i \in DOMAIN at |-> chunk(i)], next |-> next, boundary |-> c.boundary]
    BY <2>1 DEF Plan, From, End, Size
  <2> QED BY <1>12, <2>2
<1>14. /\ p.lines = [i \in 1 .. n |-> chunk(i)] /\ p.next = next /\ p.boundary = c.boundary
       /\ DOMAIN p.lines = 1 .. n
  BY <1>13
<1>15. \A i \in 1 .. n : at[i] \in S /\ at[i] \in from + 1 .. to /\ at[i] \in Nat /\ src.recs[at[i]] \in Nat
  <2>1. \A i \in 1 .. n : at[i] \in S BY <1>11
  <2>2. \A i \in 1 .. Len(src.recs) : src.recs[i] \in Nat BY <1>1
  <2> HIDE DEF S, at, n, from, to
  <2> QED BY <2>1, <2>2, <1>8, <1>9
<1>16. \A i \in 1 .. n : i \in Nat /\ 1 <= i /\ i <= n /\ seq + i \in Nat /\ seq + i <= seq + n
  <2> HIDE DEF n, seq
  <2> QED BY <1>3, <1>11, SMT
<1>17. n # 0
  <2>1. ASSUME n = 0 PROVE FALSE
    <3>1. p.lines \in Seq({1})
      <4>1. p.lines = [i \in 1 .. 0 |-> chunk(i)] BY <1>14, <2>1
      <4>2. 1 .. 0 = {} BY SMT
      <4>3. p.lines = << >> BY <4>1, <4>2
      <4> QED BY <4>3
    <3>2. p.lines = << >>
      <4>1. p.lines = [i \in 1 .. 0 |-> chunk(i)] BY <1>14, <2>1
      <4>2. 1 .. 0 = {} BY SMT
      <4> QED BY <4>1, <4>2
    <3> QED BY <3>2
  <2> QED BY <2>1
<1>18. next.seq = seq + n /\ seq < next.seq /\ next.seq \in Nat
  <2>1. next.seq = seq + n BY <1>12
  <2> HIDE DEF n, seq, next
  <2> QED BY <1>3, <1>11, <1>17, <2>1, SMT
<1>19. /\ SubSeq(src.recs, 1, to) \in Seq(Nat) /\ DOMAIN SubSeq(src.recs, 1, to) = 1 .. to
       /\ \A i \in 1 .. to : i \in DOMAIN src.recs /\ SubSeq(src.recs, 1, to)[i] = src.recs[i]
  <2>1. \A i \in 1 .. to : i \in 1 .. Len(src.recs) /\ src.recs[i] \in Nat BY <1>1, <1>9
  <2>2. DOMAIN src.recs = 1 .. Len(src.recs) BY <1>1
  <2>3. SubSeq(src.recs, 1, to) = [i \in 1 .. to |-> src.recs[i]]
    <3>1. 1 \in Nat /\ to \in Nat /\ 1 <= to + 1 BY <1>7, SMT
    <3> HIDE DEF to
    <3> QED BY <1>1, <1>7, <2>1, <2>2, <3>1, SMT
  <2> HIDE DEF to
  <2>4. SubSeq(src.recs, 1, to) \in Seq(Nat) BY <1>7, <2>1, <2>3, SeqDef
  <2> QED BY <2>1, <2>2, <2>3, <2>4
<1>20. next \in Cursor
  <2> HIDE DEF seq, gen, base, at, to
  <2> QED BY <1>1, <1>3, <1>7, <1>18, <1>19 DEF Cursor
<1>21. p.lines \in Seq(Chunk)
  <2>1. \A i \in 1 .. n : chunk(i) \in Chunk
    <3> HIDE DEF seq, gen, at, n
    <3> QED BY <1>3, <1>15, <1>16 DEF Chunk, Line
  <2>2. p.lines \in [1 .. n -> Chunk]
    <3> HIDE DEF chunk, n, p
    <3> QED BY <1>14, <2>1
  <2> HIDE DEF n, p
  <2> QED BY <1>11, <2>2, SeqDef
<1>22. p \in PlanType
  <2> HIDE DEF next, chunk, n
  <2> QED BY <1>1, <1>13, <1>14, <1>20, <1>21 DEF PlanType
<1>23. \A m \in 1 .. n : /\ p.lines[m].seq = seq + m
                         /\ p.lines[m].line = [gen |-> gen, at |-> at[m], rec |-> src.recs[at[m]]]
  <2> HIDE DEF seq, gen, at, n, p
  <2> QED BY <1>14
<1>24. ASSUME NEW m \in DOMAIN p.lines
       PROVE  /\ p.lines[m].seq = seq + m /\ m \in Nat /\ 1 <= m
              /\ p.lines[m].seq <= p.next.seq
              /\ p.lines[m].line.gen = p.next.gen
              /\ p.lines[m].line.at \in from + 1 .. to
              /\ p.lines[m].line.at \notin c.excluded
              /\ p.lines[m].line.rec = src.recs[p.lines[m].line.at]
  <2>1. m \in 1 .. n BY <1>14
  <2>2. p.next.seq = seq + n /\ p.next.gen = gen BY <1>14, <1>18
  <2>3. at[m] \in S /\ at[m] \in from + 1 .. to BY <1>15, <2>1
  <2>4. at[m] \notin c.excluded BY <1>8, <2>3
  <2> HIDE DEF p, seq, gen, at, n, S, from, to
  <2>5. /\ p.lines[m].seq = seq + m
        /\ p.lines[m].line.gen = gen /\ p.lines[m].line.at = at[m] /\ p.lines[m].line.rec = src.recs[at[m]]
    <3> DEFINE l == p.lines[m].line
               x == at[m]
               y == src.recs[x]
    <3>1. p.lines[m].seq = seq + m /\ l = [gen |-> gen, at |-> x, rec |-> y] BY <1>23, <2>1
    <3>2. l.gen = gen /\ l.at = x /\ l.rec = y
      <4> HIDE DEF l, x, y
      <4> QED BY <3>1
    <3> QED BY <3>1, <3>2
  <2> QED BY <1>16, <2>1, <2>2, <2>3, <2>4, <2>5
<1>25. ASSUME NEW i \in from + 1 .. to, i \notin c.excluded
       PROVE  \E m \in DOMAIN p.lines : p.lines[m].line = [gen |-> p.next.gen, at |-> i, rec |-> src.recs[i]]
  <2>1. i \in S BY <1>8, <1>25
  <2>2. PICK m \in 1 .. n : at[m] = i BY <1>11, <2>1
  <2>3. p.next.gen = gen BY <1>14
  <2> HIDE DEF p, seq, gen, at, n, S, from, to
  <2> QED BY <1>14, <1>23, <2>2, <2>3
<1>26. /\ p.next.offset = to /\ p.next.epoch = c.epoch /\ p.next.token = repo.token /\ p.next.id = src.id
       /\ p.next.gen = gen /\ p.next.baseline = base /\ seq < p.next.seq
       /\ p.next.prefix = SubSeq(src.recs, 1, to)
  <2>1. /\ next.offset = to /\ next.epoch = c.epoch /\ next.token = repo.token /\ next.id = src.id
        /\ next.gen = gen /\ next.baseline = base /\ next.prefix = SubSeq(src.recs, 1, to)
    OBVIOUS
  <2> HIDE DEF p, seq, gen, base, next, to
  <2> QED BY <1>14, <1>18, <2>1
<1>27. /\ DOMAIN p.next.prefix = 1 .. to
       /\ \A i \in 1 .. to : i \in DOMAIN src.recs /\ p.next.prefix[i] = src.recs[i]
  <2> HIDE DEF p, to
  <2> QED BY <1>19, <1>26
<1>28. p.boundary = c.boundary BY <1>14
<1> HIDE DEF p, from, to
<1>29. PlanShape(p, r) BY <1>3, <1>5, <1>7, <1>22, <1>24, <1>25, <1>26, <1>27, <1>28 DEF PlanShape, from, to
<1> QED BY <1>29 DEF p

-----------------------------------------------------------------------------
(* Type correctness.                                                         *)

\* Nobody else holds the lock when it is free to take.
LEMMA FreeMeansNobody ==
  ASSUME Types, Locked, Free
  PROVE  \A d \in Drain : drain[d].pc \notin Holding
<1> SUFFICES ASSUME NEW d \in Drain, drain[d].pc \in Holding PROVE FALSE OBVIOUS
<1>1. lock = d BY DEF Locked, Held
<1>2. drain[d].pc # "dead" BY DEF Holding
<1> QED BY <1>1, <1>2 DEF Free

\* Whoever holds the lock holds it alone, and others find it taken.
LEMMA OneHolder ==
  ASSUME Types, Locked, NEW d \in Drain, drain[d].pc \in Holding
  PROVE  /\ lock = d /\ ~ Free
         /\ \A e \in Drain \ {d} : drain[e].pc \notin Holding
<1>1. lock = d BY DEF Locked, Held
<1>2. drain[d].pc # "dead" BY DEF Holding
<1> QED BY <1>1, <1>2 DEF Locked, Held, Free

LEMMA PurgeTyped ==
  ASSUME Types, Purge
  PROVE  /\ revoked' \subseteq 1 .. repo.token - 1 /\ cursor' \in Cursor \cup {None} /\ groups' \in Seq(Group)
         /\ cursor # None => cursor' # None
<1>1. CASE Free
  <2> DEFINE S == {i \in DOMAIN groups : groups[i].next.token \notin Revokes}
  <2>1. revoked' = Revokes /\ cursor' = Recovered /\ groups' = Picked(Marked, S) BY <1>1 DEF Purge
  <2>2. Marked \in Seq(Group) /\ S \in SUBSET (DOMAIN Marked) BY MarkedTyped
  <2>3. groups' \in Seq(Group)
    <3> HIDE DEF S
    <3> QED BY <2>1, <2>2, PickedKeepsOrder
  <2>4. Revokes \subseteq 1 .. repo.token - 1 BY DEF Revokes, Types
  <2> QED BY <2>1, <2>3, <2>4, RecoveredTyped
<1>2. CASE ~ Free BY <1>2 DEF Purge, Types
<1> QED BY <1>1, <1>2

LEMMA TypesHook ==
  ASSUME Types, NEW h \in Hook, HookRead(h) \/ HookObserve(h)
  PROVE  Types'
<1>1. CASE HookRead(h)
  <2>1. View \in ViewType BY DEF Types, View, ViewType, Allowed
  <2>2. [pc |-> "observe", view |-> View] \in HookType BY <2>1 DEF HookType
  <2>3. hook' \in [Hook -> HookType] /\ \A g \in Hook : HookOK(hook'[g])
    BY <1>1, <2>1, <2>2 DEF HookRead, HookOK, Types
  <2>4. "hooks" \in Bounds /\ Spend("hooks") BY <1>1 DEF HookRead, Bounds
  <2>5. /\ left' \in [Bounds \cup {"slice"} -> Nat \cup {None}]
        /\ left'["slice"] = left["slice"] /\ left'["records"] = left["records"]
    BY <2>4, SpendTyped
  <2> QED BY <1>1, <2>3, <2>5 DEF HookRead, Types, truth, queue, ends
<1>2. CASE HookObserve(h)
  <2>1. hook[h] \in HookType /\ hook[h].view \in ViewType BY <1>2 DEF HookObserve, Types, HookOK
  <2>2. [pc |-> "idle", view |-> None] \in HookType BY DEF HookType
  <2>3. hook' \in [Hook -> HookType] /\ \A g \in Hook : HookOK(hook'[g])
    BY <1>2, <2>2 DEF HookObserve, HookOK, Types
  <2>4. JournalOK(journal') /\ hint' \in Nat \cup {None} /\ straddled' \in BOOLEAN
    <3>1. CASE Free
      <4>1. journal' = Observed(hook[h].view, FALSE) BY <1>2, <3>1 DEF HookObserve
      <4>2. JournalOK(journal') BY <2>1, <4>1, ObservedTyped DEF JournalOK
      <4>3. hook[h].view.token \in Nat BY <2>1 DEF ViewType
      <4> QED BY <1>2, <3>1, <4>2, <4>3 DEF HookObserve, Types
    <3>2. CASE ~ Free BY <1>2, <3>2 DEF HookObserve, Types
    <3> QED BY <3>1, <3>2
  <2> QED BY <1>2, <2>3, <2>4 DEF HookObserve, Types, truth, ends
<1> QED BY <1>1, <1>2

LEMMA TypesUser ==
  ASSUME Types, Write \/ Replace \/ Lose \/ SetConsent \/ SetPause \/ CommandPurge \/ CommandObserve \/ CommandDies
  PROVE  Types'
<1>0. /\ src.id \in Nat /\ src.recs \in Seq(Nat) /\ repo.on \in BOOLEAN /\ repo.token \in Nat
      /\ pause.on \in BOOLEAN /\ pause.boundary \in Nat /\ left["records"] \in Nat
  BY DEF Types
<1>1. CASE Write
  <2>1. Spend("records") /\ "records" \in Bounds BY <1>1 DEF Write, Bounds
  <2>2. /\ left' \in [Bounds \cup {"slice"} -> Nat \cup {None}]
        /\ left'["slice"] = left["slice"] /\ left'["records"] \in Nat
    BY <2>1, SpendTyped
  <2>3. src' \in [id : Nat, recs : Seq(Nat)]
    <3>1. Append(src.recs, left["records"]) \in Seq(Nat) BY <1>0
    <3> QED BY <1>0, <1>1, <3>1 DEF Write, Types
  <2>4. consented' \subseteq Nat BY <1>0, <1>1 DEF Write, Types
  <2> QED BY <1>1, <2>2, <2>3, <2>4 DEF Write, Types, queue, ends
<1>2. CASE Replace
  <2>1. Spend("replaced") /\ "replaced" \in Bounds BY <1>2 DEF Replace, Bounds
  <2>2. /\ left' \in [Bounds \cup {"slice"} -> Nat \cup {None}]
        /\ left'["slice"] = left["slice"] /\ left'["records"] = left["records"]
    BY <2>1, SpendTyped
  <2>3. src' \in [id : Nat, recs : Seq(Nat)]
    <3>1. PICK k \in 0 .. Len(src.recs) : src' = [id |-> src.id + 1, recs |-> SubSeq(src.recs, 1, k)]
      BY <1>2 DEF Replace
    <3>2. SubSeq(src.recs, 1, k) \in Seq(Nat)
      <4>1. src.recs \in Seq(Nat) /\ Len(src.recs) \in Nat BY <1>0
      <4>2. k \in Nat /\ k <= Len(src.recs) BY <3>1, <4>1
      <4>3. \A i \in 1 .. k : i \in 1 .. Len(src.recs) BY <4>1, <4>2
      <4>4. \A i \in 1 .. k : src.recs[i] \in Nat BY <4>1, <4>3, ElementOfSeq
      <4> QED BY <4>2, <4>4, SubSeqProperties
    <3> QED BY <1>0, <3>1, <3>2
  <2> QED BY <1>2, <2>2, <2>3 DEF Replace, Types, queue, ends
<1>3. CASE Lose
  <2>1. Spend("losses") /\ "losses" \in Bounds BY <1>3 DEF Lose, Bounds
  <2>2. /\ left' \in [Bounds \cup {"slice"} -> Nat \cup {None}]
        /\ left'["slice"] = left["slice"] /\ left'["records"] = left["records"]
    BY <2>1, SpendTyped
  <2> QED BY <1>3, <2>2 DEF Lose, Types, truth, queue
<1>4. CASE SetConsent
  <2>1. Spend("consents") /\ "consents" \in Bounds BY <1>4 DEF SetConsent, Bounds
  <2>2. /\ left' \in [Bounds \cup {"slice"} -> Nat \cup {None}]
        /\ left'["slice"] = left["slice"] /\ left'["records"] = left["records"]
    BY <2>1, SpendTyped
  <2>3. repo' = [on |-> ~ repo.on, token |-> repo.token + 1] BY <1>4 DEF SetConsent
  <2>4. repo' \in [on : BOOLEAN, token : Nat] /\ repo'.token >= 1 /\ repo'.token = repo.token + 1 BY <1>0, <2>3
  <2>5. 1 .. repo.token - 1 \subseteq 1 .. repo'.token - 1 BY <1>0, <2>4, SMT
  <2>6. revoked' \subseteq 1 .. repo'.token - 1 BY <1>4, <2>5 DEF SetConsent, Types
  <2> QED BY <1>4, <2>2, <2>4, <2>6 DEF SetConsent, Types, queue, ends
<1>5. CASE SetPause
  <2>1. Spend("pauses") /\ "pauses" \in Bounds BY <1>5 DEF SetPause, Bounds
  <2>2. /\ left' \in [Bounds \cup {"slice"} -> Nat \cup {None}]
        /\ left'["slice"] = left["slice"] /\ left'["records"] = left["records"]
    BY <2>1, SpendTyped
  <2>3. pause' = [on |-> ~ pause.on, boundary |-> pause.boundary + 1] BY <1>5 DEF SetPause
  <2>4. pause' \in [on : BOOLEAN, boundary : Nat] BY <1>0, <2>3
  <2> QED BY <1>5, <2>2, <2>4 DEF SetPause, Types, queue, ends
<1>6. CASE CommandPurge
  <2>1. Purge /\ UNCHANGED <<truth, journal, request, hint, lock, hook, drain, ends, straddled, left>>
    BY <1>6 DEF CommandPurge
  <2>2. /\ revoked' \subseteq 1 .. repo.token - 1 /\ cursor' \in Cursor \cup {None} /\ groups' \in Seq(Group)
        /\ cursor # None => cursor' # None
    BY <2>1, PurgeTyped
  <2> QED BY <2>1, <2>2 DEF Types, truth, ends
<1>7. CASE CommandObserve
  <2>1. View \in ViewType BY DEF Types, View, ViewType, Allowed
  <2>2. JournalOK(journal')
    <3>1. CASE journal # None /\ Free
      <4>1. journal' = Observed(View, FALSE) BY <1>7, <3>1 DEF CommandObserve
      <4> QED BY <2>1, <4>1, ObservedTyped DEF JournalOK
    <3>2. CASE ~ (journal # None /\ Free) BY <1>7, <3>2 DEF CommandObserve, Types
    <3> QED BY <3>1, <3>2
  <2> QED BY <1>7, <2>2 DEF CommandObserve, Types, truth, ends
<1>8. CASE CommandDies
  <2>1. Spend("crashes") /\ "crashes" \in Bounds BY <1>8 DEF CommandDies, Bounds
  <2>2. /\ left' \in [Bounds \cup {"slice"} -> Nat \cup {None}]
        /\ left'["slice"] = left["slice"] /\ left'["records"] = left["records"]
    BY <2>1, SpendTyped
  <2> QED BY <1>8, <2>2 DEF CommandDies, Types, truth, queue, ends
<1> QED BY <1>1, <1>2, <1>3, <1>4, <1>5, <1>6, <1>7, <1>8

\* The cursor stays one when it is recovered, and the batches when they are marked.
LEMMA RecoveryTyped ==
  ASSUME Types
  PROVE  /\ Recovered \in Cursor \cup {None} /\ (cursor # None => Recovered # None) /\ Marked \in Seq(Group)
BY RecoveredTyped, MarkedTyped DEF Types

LEMMA TypesDrain ==
  ASSUME Types, Locked, NEW d \in Drain, DrainStart(d) \/ DrainStep(d) \/ Crash(d)
  PROVE  Types'
<1>0. cursor \in Cursor \cup {None} /\ None \notin Cursor /\ drain \in [Drain -> DrainType] /\ DrainOK(drain[d])
      /\ "idle" \in Places /\ "dead" \in Places /\ "purge" \in Places /\ "stage" \in Places /\ "purge1" \in Places
      /\ "open" \in Places /\ "purge2" \in Places /\ "recheck" \in Places /\ "cursor" \in Places /\ "mark" \in Places
      /\ "next" \in Places /\ "post" \in Places /\ "ack" \in Places /\ "reset" \in Places /\ "close" \in Places
      /\ "publish" \in Places
  BY DEF Types, Constants, Places, Holding
<1>1. CASE DrainStart(d)
  <2>1. Spend("drains") /\ "drains" \in Bounds BY <1>1 DEF DrainStart, Bounds
  <2>2. /\ left' \in [Bounds \cup {"slice"} -> Nat \cup {None}]
        /\ left'["slice"] = left["slice"] /\ left'["records"] = left["records"]
    BY <2>1, SpendTyped
  <2>3. cursor' = cursor /\ To(d, "purge") BY <1>1 DEF DrainStart, queue
  <2>4. /\ drain' \in [Drain -> DrainType]
        /\ \A e \in Drain : DrainOK(drain'[e]) /\ (drain'[e].again => cursor' # None)
    BY <1>0, <2>3, DrainGoes
  <2> QED BY <1>1, <2>2, <2>4 DEF DrainStart, Types, truth, queue, ends
<1>2. CASE DrainPurge(d)
  <2>1. Purge /\ UNCHANGED <<truth, journal, request, hint, lock, hook, ends, straddled, left, command>>
    BY <1>2 DEF DrainPurge
  <2>2. /\ revoked' \subseteq 1 .. repo.token - 1 /\ cursor' \in Cursor \cup {None} /\ groups' \in Seq(Group)
        /\ cursor # None => cursor' # None
    BY <2>1, PurgeTyped
  <2>3. To(d, "stage") \/ To(d, "open") \/ To(d, "recheck") BY <1>2 DEF DrainPurge
  <2>4. /\ drain' \in [Drain -> DrainType]
        /\ \A e \in Drain : DrainOK(drain'[e]) /\ (drain'[e].again => cursor' # None)
    BY <1>0, <2>2, <2>3, DrainGoes
  <2> QED BY <2>1, <2>2, <2>4 DEF Types, truth, ends
<1>3. CASE StageRequested(d)
  <2>1. cursor' = cursor /\ (Idle(d) \/ Look(d) \/ To(d, "purge1")) BY <1>3 DEF StageRequested, queue
  <2>4. /\ drain' \in [Drain -> DrainType]
        /\ \A e \in Drain : DrainOK(drain'[e]) /\ (drain'[e].again => cursor' # None)
    BY <1>0, <2>1, DrainGoes, DrainIdles, DrainLooks
  <2> QED BY <1>3, <2>4 DEF StageRequested, Types, truth, queue, ends
<1>4. CASE DrainObserve(d)
  <2>1. cursor' = cursor /\ drain[d].pc = "observe" /\ drain[d].view \in ViewType BY <1>0, <1>4 DEF DrainObserve, At, DrainOK
  <2>2. CASE Free
    <3>1. /\ journal' = Observed(drain[d].view, TRUE)
          /\ drain' = [drain EXCEPT ![d].pc = "take", ![d].view = journal'] /\ straddled' \in BOOLEAN
      BY <1>4, <2>2 DEF DrainObserve, Types
    <3>2. journal' \in JournalType /\ JournalOK(journal') BY <2>1, <3>1, ObservedTyped DEF JournalOK
    <3> DEFINE r == [drain[d] EXCEPT !.pc = "take", !.view = journal']
    <3>3. drain' = [drain EXCEPT ![d] = r] BY <1>0, <3>1
    <3>4. r \in DrainType /\ r.pc = "take" /\ r.view = journal' /\ r.again = drain[d].again
      BY <1>0, <3>2 DEF DrainType, Places
    <3>5. DrainOK(r) BY <3>2, <3>4 DEF DrainOK
    <3>6. r.again => cursor' # None BY <2>1, <3>4 DEF Types
    <3> HIDE DEF r
    <3>7. /\ drain' \in [Drain -> DrainType]
        /\ \A e \in Drain : DrainOK(drain'[e]) /\ (drain'[e].again => cursor' # None)
      BY <2>1, <3>3, <3>5, <3>6, DrainMoves
    <3> QED BY <1>4, <3>1, <3>2, <3>7 DEF DrainObserve, Types, truth, ends
  <2>3. CASE ~ Free
    <3>1. Staged(d) /\ journal' = journal /\ straddled' = straddled BY <1>4, <2>3 DEF DrainObserve
    <3>2. /\ drain' \in [Drain -> DrainType]
        /\ \A e \in Drain : DrainOK(drain'[e]) /\ (drain'[e].again => cursor' # None)
      BY <2>1, <3>1, DrainStops
    <3> QED BY <1>4, <3>1, <3>2 DEF DrainObserve, Types, truth, ends
  <2> QED BY <2>2, <2>3
<1>5. CASE StageTake(d)
  <2> DEFINE c == drain[d].view
  <2>1. \/ /\ Staged(d) /\ UNCHANGED <<cursor, groups, lock>>
        \/ /\ cursor' = Recovered /\ groups' = Marked /\ Staged(d) /\ lock' = None
        \/ /\ cursor' = Recovered /\ groups' = Marked /\ Stageable(c, Recovered) /\ lock' = d
           /\ drain' = [drain EXCEPT ![d].pc = "publish", ![d].plan = Plan(c, Recovered)]
    BY <1>5 DEF StageTake
  <2>2. UNCHANGED <<truth, revoked, journal, request, hint, hook, ends, straddled, left, command>>
    BY <1>5 DEF StageTake
  <2>3. CASE Staged(d) /\ UNCHANGED <<cursor, groups, lock>>
    <3>1. /\ drain' \in [Drain -> DrainType]
        /\ \A e \in Drain : DrainOK(drain'[e]) /\ (drain'[e].again => cursor' # None)
      BY <2>3, DrainStops
    <3> QED BY <2>2, <2>3, <3>1 DEF Types, truth, ends
  <2>4. CASE cursor' = Recovered /\ groups' = Marked /\ Staged(d) /\ lock' = None
    <3>1. cursor # None => cursor' # None BY <2>4, RecoveryTyped
    <3>2. /\ drain' \in [Drain -> DrainType]
        /\ \A e \in Drain : DrainOK(drain'[e]) /\ (drain'[e].again => cursor' # None)
      BY <2>4, <3>1, DrainStops
    <3> QED BY <2>2, <2>4, <3>2, RecoveryTyped DEF Types, truth, ends
  <2>5. CASE /\ cursor' = Recovered /\ groups' = Marked /\ Stageable(c, Recovered) /\ lock' = d
             /\ drain' = [drain EXCEPT ![d].pc = "publish", ![d].plan = Plan(c, Recovered)]
    <3>1. cursor # None => cursor' # None BY <2>5, RecoveryTyped
    <3>2. /\ journal # None /\ c = journal /\ ~ Rewritten(c, Recovered) /\ Plan(c, Recovered).lines # << >>
          /\ Recovered \in Cursor \cup {None}
      BY <2>5, RecoveryTyped DEF Stageable
    <3>3. PlanShape(Plan(journal, Recovered), Recovered)
      <4> HIDE DEF c
      <4> QED BY <3>2, PlanMade
    <3>4. Plan(c, Recovered) \in PlanType BY <3>2, <3>3 DEF PlanShape
    <3> DEFINE p == Plan(c, Recovered)
               r == [drain[d] EXCEPT !.pc = "publish", !.plan = p]
    <3> HIDE DEF p
    <3>5. p \in PlanType BY <3>4 DEF p
    <3>6. drain' = [drain EXCEPT ![d] = r] BY <1>0, <2>5 DEF p
    <3>7. r \in DrainType /\ r.pc = "publish" /\ r.plan = p /\ r.again = drain[d].again
      BY <1>0, <3>5 DEF DrainType
    <3>8. DrainOK(r) BY <3>5, <3>7 DEF DrainOK
    <3>9. r.again => cursor' # None BY <3>1, <3>7 DEF Types
    <3> HIDE DEF r
    <3>10. /\ drain' \in [Drain -> DrainType]
        /\ \A e \in Drain : DrainOK(drain'[e]) /\ (drain'[e].again => cursor' # None)
      BY <3>1, <3>6, <3>8, <3>9, DrainMoves
    <3> QED BY <2>2, <2>5, <3>10, RecoveryTyped DEF Types, truth, ends
  <2> QED BY <2>1, <2>3, <2>4, <2>5
<1>6. CASE Publish(d)
  <2> DEFINE plan == drain[d].plan
             g == [lines |-> plan.lines, next |-> plan.next, ready |-> FALSE]
  <2>1. drain[d].pc = "publish" /\ plan \in PlanType BY <1>0, <1>6 DEF Publish, At, DrainOK
  <2>2. UNCHANGED <<truth, revoked, journal, cursor, request, hint, hook, ends, straddled, left, command>>
    BY <1>6 DEF Publish
  <2>3. CASE Authorized(plan)
    <3>1. groups' = Append(groups, g) /\ To(d, "cursor") /\ lock' = lock BY <1>6, <2>3 DEF Publish
    <3>2. g \in Group BY <2>1 DEF PlanType, Group
    <3>3. groups' \in Seq(Group)
      <4> HIDE DEF g
      <4> QED BY <3>1, <3>2 DEF Types
    <3>4. /\ drain' \in [Drain -> DrainType]
        /\ \A e \in Drain : DrainOK(drain'[e]) /\ (drain'[e].again => cursor' # None)
      BY <1>0, <2>1, <2>2, <3>1, DrainGoes
    <3> QED BY <2>2, <3>1, <3>3, <3>4 DEF Types, truth, ends
  <2>4. CASE ~ Authorized(plan)
    <3>1. Staged(d) /\ lock' = None /\ groups' = groups BY <1>6, <2>4 DEF Publish
    <3>2. /\ drain' \in [Drain -> DrainType]
        /\ \A e \in Drain : DrainOK(drain'[e]) /\ (drain'[e].again => cursor' # None)
      BY <2>2, <3>1, DrainStops
    <3> QED BY <2>2, <3>1, <3>2 DEF Types, truth, ends
  <2> QED BY <2>3, <2>4
<1>7. CASE WriteCursor(d)
  <2>1. drain[d].plan \in PlanType /\ To(d, "mark") /\ cursor' = drain[d].plan.next
    BY <1>0, <1>7 DEF WriteCursor, At, DrainOK
  <2>2. cursor' \in Cursor /\ cursor' # None BY <1>0, <2>1 DEF PlanType
  <2>3. /\ drain' \in [Drain -> DrainType]
        /\ \A e \in Drain : DrainOK(drain'[e]) /\ (drain'[e].again => cursor' # None)
    BY <1>0, <2>1, <2>2, DrainGoes
  <2> QED BY <1>7, <2>2, <2>3 DEF WriteCursor, Types, truth, ends
<1>8. CASE Mark(d)
  <2>1. cursor' = cursor /\ groups' = Marked /\ lock' = None /\ (To(d, "open") \/ Look(d)) BY <1>8 DEF Mark
  <2>2. /\ drain' \in [Drain -> DrainType]
        /\ \A e \in Drain : DrainOK(drain'[e]) /\ (drain'[e].again => cursor' # None)
    BY <1>0, <2>1, DrainGoes, DrainLooks
  <2> QED BY <1>8, <2>1, <2>2, RecoveryTyped DEF Mark, Types, truth, ends
<1>9. CASE Open(d)
  <2>1. \/ lock' = d /\ cursor' = Recovered /\ groups' = Marked /\ To(d, "next")
        \/ (Idle(d) \/ To(d, "purge2")) /\ UNCHANGED <<lock, cursor, groups>>
    BY <1>9 DEF Open
  <2>2. cursor' \in Cursor \cup {None} /\ groups' \in Seq(Group) /\ lock' \in Drain \cup {None}
        /\ (cursor # None => cursor' # None)
    BY <2>1, RecoveryTyped DEF Types
  <2>3. /\ drain' \in [Drain -> DrainType]
        /\ \A e \in Drain : DrainOK(drain'[e]) /\ (drain'[e].again => cursor' # None)
    BY <1>0, <2>1, <2>2, DrainGoes, DrainIdles
  <2> QED BY <1>9, <2>2, <2>3 DEF Open, Types, truth, ends
<1>10. CASE CheckChunk(d)
  <2>1. cursor' = cursor /\ (To(d, "post") \/ To(d, "close")) BY <1>10 DEF CheckChunk, queue
  <2>2. /\ drain' \in [Drain -> DrainType]
        /\ \A e \in Drain : DrainOK(drain'[e]) /\ (drain'[e].again => cursor' # None)
    BY <1>0, <2>1, DrainGoes
  <2> QED BY <1>10, <2>2 DEF CheckChunk, Types, truth, queue, ends
<1>11. CASE Post(d)
  <2> DEFINE base == groups[FirstPending].next.baseline
  <2>1. drain[d].pc = "post" /\ Pending # {} BY <1>11 DEF Post, At, Locked, Held, Holding
  <2>2. FirstPending \in DOMAIN groups /\ NextChunk \in Chunk BY <2>1, FirstIsPending
  <2>3. base \in Nat /\ NextChunk.line \in Line
    <3>1. groups[FirstPending].next \in Cursor BY <2>2, RecoveredTyped
    <3> HIDE DEF FirstPending, NextChunk
    <3> QED BY <2>2, <3>1 DEF Cursor, Chunk
  <2>4. /\ store' \in {store, Merged(base, NextChunk.line)} /\ arrived' \in {arrived, arrived \cup {NextChunk}}
        /\ (left' = left \/ Spend("unanswered")) /\ (To(d, "ack") \/ To(d, "close") \/ To(d, "reset"))
        /\ UNCHANGED <<truth, revoked, queue, lock, hook, straddled, command>>
    BY <1>11 DEF Post
  <2>5. Merged(base, NextChunk.line) \in StoreType
    <3> HIDE DEF base, NextChunk
    <3>1. store # None => store \in StoreType BY DEF Types
    <3> QED BY <2>3, <3>1 DEF Merged, StoreType
  <2>6. arrived' \subseteq Chunk /\ store' \in StoreType \cup {None}
    <3> HIDE DEF base, NextChunk
    <3> QED BY <2>2, <2>4, <2>5 DEF Types
  <2>7. /\ left' \in [Bounds \cup {"slice"} -> Nat \cup {None}]
        /\ left'["slice"] = left["slice"] /\ left'["records"] = left["records"]
    <3>1. "unanswered" \in Bounds BY DEF Bounds
    <3>2. left' = left \/ Spend("unanswered") BY <2>4
    <3> QED BY <3>1, <3>2, SpendTyped DEF Types
  <2>8. cursor' = cursor BY <2>4 DEF queue
  <2>9. /\ drain' \in [Drain -> DrainType]
        /\ \A e \in Drain : DrainOK(drain'[e]) /\ (drain'[e].again => cursor' # None)
    BY <1>0, <2>4, <2>8, DrainGoes
  <2> HIDE DEF base, NextChunk
  <2> QED BY <2>4, <2>6, <2>7, <2>9 DEF Types, truth, queue
<1>12. CASE Acknowledge(d)
  <2> DEFINE k == FirstPending
  <2>1. drain[d].pc = "ack" /\ Pending # {} BY <1>12 DEF Acknowledge, At, Locked, Held, Holding
  <2>2. k \in DOMAIN groups /\ groups[k].lines # << >> BY <2>1, FirstIsPending
  <2> HIDE DEF k
  <2>3. groups[k] \in Group /\ groups[k].lines \in Seq(Chunk) BY <2>2, RecoveredTyped
  <2>4. Tail(groups[k].lines) \in Seq(Chunk) BY <2>2, <2>3
  <2>5. groups' = [groups EXCEPT ![k].lines = Tail(@)] BY <1>12 DEF Acknowledge, k
  <2>6. groups' = [groups EXCEPT ![k] = [groups[k] EXCEPT !.lines = Tail(groups[k].lines)]]
    BY <2>5
  <2>7. [groups[k] EXCEPT !.lines = Tail(groups[k].lines)] \in Group BY <2>3, <2>4 DEF Group
  <2>8. groups' \in Seq(Group)
    <3> DEFINE g == [groups[k] EXCEPT !.lines = Tail(groups[k].lines)]
    <3>1. g \in Group /\ groups' = [groups EXCEPT ![k] = g] /\ groups \in Seq(Group) BY <2>6, <2>7 DEF Types
    <3> HIDE DEF g
    <3> QED BY <2>2, <3>1
  <2>9. cursor' = cursor /\ To(d, "next") BY <1>12 DEF Acknowledge
  <2>10. /\ drain' \in [Drain -> DrainType]
        /\ \A e \in Drain : DrainOK(drain'[e]) /\ (drain'[e].again => cursor' # None)
    BY <1>0, <2>9, DrainGoes
  <2> QED BY <1>12, <2>8, <2>10 DEF Acknowledge, Types, truth, ends
<1>13. CASE RequestReset(d)
  <2>1. drain[d].pc = "reset" /\ Pending # {} BY <1>13 DEF RequestReset, At, Locked, Held, Holding
  <2>2. FirstPending \in DOMAIN groups BY <2>1, FirstIsPending
  <2>3. groups[FirstPending].next.baseline \in Nat
    <3>1. groups[FirstPending].next \in Cursor BY <2>2, RecoveredTyped
    <3> HIDE DEF FirstPending
    <3> QED BY <3>1 DEF Cursor
  <2>4. request' \in Nat /\ cursor' = cursor /\ To(d, "close") BY <1>13, <2>3 DEF RequestReset
  <2>5. /\ drain' \in [Drain -> DrainType]
        /\ \A e \in Drain : DrainOK(drain'[e]) /\ (drain'[e].again => cursor' # None)
    BY <1>0, <2>4, DrainGoes
  <2> QED BY <1>13, <2>4, <2>5 DEF RequestReset, Types, truth, ends
<1>14. CASE Close(d)
  <2> DEFINE S == {i \in DOMAIN groups : groups[i].lines # << >>}
  <2>1. groups' = Picked(groups, S) /\ lock' = None /\ cursor' = cursor /\ (Idle(d) \/ To(d, "purge2"))
    BY <1>14 DEF Close
  <2>2. groups' \in Seq(Group)
    <3>1. groups \in Seq(Group) /\ S \in SUBSET (DOMAIN groups) BY DEF Types
    <3> HIDE DEF S
    <3> QED BY <2>1, <3>1, PickedKeepsOrder
  <2>3. /\ drain' \in [Drain -> DrainType]
        /\ \A e \in Drain : DrainOK(drain'[e]) /\ (drain'[e].again => cursor' # None)
    BY <1>0, <2>1, DrainGoes, DrainIdles
  <2> HIDE DEF S
  <2> QED BY <1>14, <2>1, <2>2, <2>3 DEF Close, Types, truth, ends
<1>15. CASE Recheck(d)
  <2> DEFINE r == [pc |-> "observe", again |-> TRUE, view |-> View, plan |-> None]
  <2>1. cursor' = cursor /\ (Idle(d) \/ (cursor # None /\ drain' = [drain EXCEPT ![d] = r])) BY <1>15 DEF Recheck, queue
  <2>2. View \in ViewType BY DEF Types, View, ViewType, Allowed
  <2>3. DrainOK(r) BY <2>2 DEF DrainOK, DrainType, Places
  <2> HIDE DEF r
  <2>4. /\ drain' \in [Drain -> DrainType]
        /\ \A e \in Drain : DrainOK(drain'[e]) /\ (drain'[e].again => cursor' # None)
    BY <2>1, <2>3, DrainIdles, DrainMoves
  <2> QED BY <1>15, <2>4 DEF Recheck, Types, truth, queue, ends
<1>16. CASE Crash(d)
  <2>1. Spend("crashes") /\ "crashes" \in Bounds BY <1>16 DEF Crash, Bounds
  <2>2. /\ left' \in [Bounds \cup {"slice"} -> Nat \cup {None}]
        /\ left'["slice"] = left["slice"] /\ left'["records"] = left["records"]
    BY <2>1, SpendTyped
  <2>3. cursor' = cursor /\ To(d, "dead") BY <1>16 DEF Crash, queue
  <2>4. /\ drain' \in [Drain -> DrainType]
        /\ \A e \in Drain : DrainOK(drain'[e]) /\ (drain'[e].again => cursor' # None)
    BY <1>0, <2>3, DrainGoes
  <2> QED BY <1>16, <2>2, <2>4 DEF Crash, Types, truth, queue, ends
<1> QED BY <1>1, <1>2, <1>3, <1>4, <1>5, <1>6, <1>7, <1>8, <1>9, <1>10, <1>11, <1>12, <1>13, <1>14, <1>15, <1>16 DEF DrainStep

\* Every step keeps the types.
LEMMA TypesKept ==
  ASSUME Types, Locked, [Next]_vars
  PROVE  Types'
<1>1. CASE UNCHANGED vars BY <1>1 DEF vars, truth, queue, ends, Types
<1>2. CASE Next BY <1>2, TypesHook, TypesUser, TypesDrain DEF Next
<1> QED BY <1>1, <1>2

-----------------------------------------------------------------------------
(* What a step does to the queue.                                            *)

\* No batch is past what is in force.
LEMMA NothingPastRecovered ==
  ASSUME Types, Numbered
  PROVE  /\ \A k \in DOMAIN groups : Recovered # None /\ groups[k].next.seq <= Recovered.seq
         /\ cursor # None => cursor.seq <= Recovered.seq
<1>1. /\ groups \in Seq(Group) /\ DOMAIN groups = 1 .. Len(groups) /\ Len(groups) \in Nat
      /\ \A k \in DOMAIN groups : groups[k].next \in Cursor
      /\ cursor # None => cursor \in Cursor
  BY RecoveredTyped DEF Types
<1>2. \A c \in Cursor : c.seq \in Nat BY DEF Cursor
<1> DEFINE l == Len(groups)
<1>3. CASE groups # << >> /\ (cursor = None \/ Last(groups).next.seq > cursor.seq)
  <2>1. l \in DOMAIN groups BY <1>1, <1>3
  <2>2. Recovered = groups[l].next BY <1>3 DEF Recovered, Last
  <2>3. Recovered # None /\ Recovered \in Cursor BY <1>3, RecoveredTyped
  <2>4. ASSUME NEW k \in DOMAIN groups PROVE groups[k].next.seq <= Recovered.seq
    <3>1. k = l \/ k < l BY <1>1, SMT
    <3>2. k < l => groups[k].next.seq < groups[l].next.seq BY <2>1 DEF Numbered
    <3>3. groups[k].next.seq \in Nat /\ groups[l].next.seq \in Nat BY <1>1, <1>2, <2>1
    <3> HIDE DEF l
    <3> QED BY <2>2, <3>1, <3>2, <3>3, SMT
  <2>5. cursor # None => groups[l].next.seq > cursor.seq BY <1>3 DEF Last
  <2>6. cursor # None => cursor.seq \in Nat /\ Recovered.seq \in Nat BY <1>1, <1>2, <2>3
  <2>7. cursor # None => cursor.seq <= Recovered.seq
    <3> HIDE DEF l
    <3> QED BY <2>2, <2>5, <2>6, SMT
  <2> QED BY <2>3, <2>4, <2>7
<1>4. CASE ~ (groups # << >> /\ (cursor = None \/ Last(groups).next.seq > cursor.seq))
  <2>1. Recovered = cursor BY <1>4 DEF Recovered
  <2>2. ASSUME NEW k \in DOMAIN groups PROVE cursor # None /\ groups[k].next.seq <= cursor.seq
    <3>1. groups # << >> /\ l \in DOMAIN groups BY <1>1, SMT
    <3>2. cursor # None /\ ~ (groups[l].next.seq > cursor.seq) BY <1>4, <3>1 DEF Last
    <3>3. k = l \/ k < l BY <1>1, SMT
    <3>4. k < l => groups[k].next.seq <= cursor.seq BY DEF Numbered
    <3>5. groups[l].next.seq \in Nat /\ cursor.seq \in Nat BY <1>1, <1>2, <3>1, <3>2
    <3> HIDE DEF l
    <3> QED BY <3>2, <3>3, <3>4, <3>5, SMT
  <2>3. cursor # None => cursor.seq \in Nat BY <1>1, <1>2
  <2> QED BY <2>1, <2>2, <2>3, SMT
<1> QED BY <1>3, <1>4

\* Nothing happens to the queue, but the collector may lose its object; ...
Still == UNCHANGED <<groups, cursor, arrived, revoked>> /\ store' \in {store, None}

\* ... it is put in order, where a batch goes that is empty or under a consent that is revoked; ...
Selects(f) ==
  /\ f \in [DOMAIN groups' -> DOMAIN groups]
  /\ \A i, k \in DOMAIN groups' : i < k => f[i] < f[k]
  /\ \A k \in DOMAIN groups' : groups'[k].lines = groups[f[k]].lines /\ groups'[k].next = groups[f[k]].next
  /\ \A n \in DOMAIN groups :
       (\E k \in DOMAIN groups' : f[k] = n) \/ groups[n].lines = << >> \/ groups[n].next.token \in revoked'
Tidied ==
  /\ cursor' = Recovered /\ UNCHANGED <<journal, arrived, store, straddled, truth>>
  /\ revoked \subseteq revoked' /\ \E f : Selects(f)

\* ... a batch is added, ...
Adds(p) == groups' = Append(groups, [lines |-> p.lines, next |-> p.next, ready |-> FALSE])
Published == \E d \in Drain :
  /\ drain[d].pc = "publish" /\ Authorized(drain[d].plan) /\ Adds(drain[d].plan)
  /\ UNCHANGED <<journal, cursor, arrived, store, revoked, straddled, truth>>

\* ... its first chunk is deleted, ...
Acknowledged == \E d \in Drain :
  /\ drain[d].pc = "ack" /\ groups' = [groups EXCEPT ![FirstPending].lines = Tail(@)]
  /\ UNCHANGED <<journal, cursor, arrived, store, revoked, straddled, truth>>

\* ... or accepted.
Posted == \E d \in Drain :
  /\ drain[d].pc = "post"
  /\ Knows(groups[FirstPending].next.baseline, NextChunk.seq)
  /\ store' = Merged(groups[FirstPending].next.baseline, NextChunk.line)
  /\ arrived' = arrived \cup {NextChunk}
  /\ UNCHANGED <<journal, cursor, groups, revoked, straddled, truth>>

LEMMA PickingTidies ==
  ASSUME Types, NEW s \in Seq(Group), DOMAIN s = DOMAIN groups,
         \A k \in DOMAIN groups : s[k].lines = groups[k].lines /\ s[k].next = groups[k].next,
         NEW S \in SUBSET (DOMAIN groups), groups' = Picked(s, S),
         \A n \in (DOMAIN groups) \ S : groups[n].lines = << >> \/ groups[n].next.token \in revoked'
  PROVE  \E f : Selects(f)
<1> DEFINE f == [i \in DOMAIN groups' |-> Ascending(S)[i]]
<1>1. /\ \A i \in DOMAIN groups' : Ascending(S)[i] \in S /\ groups'[i] = s[Ascending(S)[i]]
      /\ \A k \in S : \E i \in DOMAIN groups' : Ascending(S)[i] = k
      /\ \A i, k \in DOMAIN groups' : i < k => Ascending(S)[i] < Ascending(S)[k]
  BY PickedKeepsOrder
<1>2. f \in [DOMAIN groups' -> DOMAIN groups] BY <1>1
<1>3. \A i \in DOMAIN groups' : f[i] = Ascending(S)[i] OBVIOUS
<1> HIDE DEF f
<1>4. \A i, k \in DOMAIN groups' : i < k => f[i] < f[k] BY <1>1, <1>3
<1>5. \A k \in DOMAIN groups' : groups'[k].lines = groups[f[k]].lines /\ groups'[k].next = groups[f[k]].next
  BY <1>1, <1>3
<1>6. \A n \in DOMAIN groups :
        (\E k \in DOMAIN groups' : f[k] = n) \/ groups[n].lines = << >> \/ groups[n].next.token \in revoked'
  BY <1>1, <1>3
<1>7. Selects(f) BY <1>2, <1>4, <1>5, <1>6 DEF Selects
<1> QED BY <1>7

LEMMA MarkingTidies ==
  ASSUME Types, groups' = Marked \/ groups' = groups
  PROVE  \E f : Selects(f)
<1> DEFINE f == [i \in DOMAIN groups |-> i]
<1>1. /\ DOMAIN groups' = DOMAIN groups
      /\ \A k \in DOMAIN groups : groups'[k].lines = groups[k].lines /\ groups'[k].next = groups[k].next
  BY MarkedTyped
<1>2. f \in [DOMAIN groups -> DOMAIN groups] /\ \A k \in DOMAIN groups : f[k] = k OBVIOUS
<1> HIDE DEF f
<1>3. Selects(f) BY <1>1, <1>2 DEF Selects
<1> QED BY <1>3

LEMMA PurgingTidies ==
  ASSUME Types, Purge, UNCHANGED <<journal, arrived, store, straddled, truth>>
  PROVE  Still \/ Tidied
<1>1. CASE Free
  <2> DEFINE S == {i \in DOMAIN groups : groups[i].next.token \notin Revokes}
  <2>1. revoked' = Revokes /\ cursor' = Recovered /\ groups' = Picked(Marked, S) BY <1>1 DEF Purge
  <2>2. \A n \in (DOMAIN groups) \ S : groups[n].next.token \in revoked' BY <2>1
  <2>3. \E f : Selects(f)
    <3>1. S \in SUBSET (DOMAIN groups) OBVIOUS
    <3> HIDE DEF S
    <3> QED BY <2>1, <2>2, <3>1, MarkedTyped, PickingTidies
  <2>4. revoked \subseteq revoked' BY <2>1 DEF Revokes
  <2> QED BY <2>1, <2>3, <2>4 DEF Tidied
<1>2. CASE ~ Free BY <1>2 DEF Purge, Still
<1> QED BY <1>1, <1>2

\* Every step is one of these.
LEMMA StepKinds ==
  ASSUME Types, Locked, [Next]_vars
  PROVE  Still \/ Tidied \/ Published \/ Acknowledged \/ Posted
<1>1. ASSUME NEW d \in Drain, drain[d].pc \in Holding, drain[d].pc # "cursor"
      PROVE  cursor = Recovered
  BY <1>1 DEF Locked, Held
<1>2. CASE UNCHANGED vars BY <1>2 DEF vars, queue, ends, Still
<1>3. CASE Write \/ Replace \/ Lose \/ SetConsent \/ SetPause \/ CommandObserve \/ CommandDies
  BY <1>3 DEF Write, Replace, Lose, SetConsent, SetPause, CommandObserve, CommandDies, Still, queue, ends
<1>4. CASE CommandPurge BY <1>4, PurgingTidies DEF CommandPurge, ends
<1>5. ASSUME NEW h \in Hook, HookRead(h) \/ HookObserve(h) PROVE Still
  BY <1>5 DEF HookRead, HookObserve, Still, queue, ends
<1>6. ASSUME NEW d \in Drain, DrainStart(d) \/ Crash(d) PROVE Still
  BY <1>6 DEF DrainStart, Crash, Still, queue, ends
<1>7. ASSUME NEW d \in Drain, DrainStep(d)
      PROVE  Still \/ Tidied \/ Published \/ Acknowledged \/ Posted
  <2>1. CASE DrainPurge(d) BY <2>1, PurgingTidies DEF DrainPurge, ends
  <2>2. CASE StageRequested(d) \/ DrainObserve(d) \/ CheckChunk(d) \/ Recheck(d)
    BY <2>2 DEF StageRequested, DrainObserve, CheckChunk, Recheck, Still, queue, ends
  <2>3. CASE StageTake(d)
    <3>1. \/ UNCHANGED <<cursor, groups>>
          \/ cursor' = Recovered /\ groups' = Marked
      BY <2>3 DEF StageTake
    <3>2. UNCHANGED <<truth, revoked, journal, ends, straddled>> BY <2>3 DEF StageTake
    <3>3. CASE UNCHANGED <<cursor, groups>> BY <3>2, <3>3 DEF Still, ends
    <3>4. CASE cursor' = Recovered /\ groups' = Marked BY <3>2, <3>4, MarkingTidies DEF Tidied, ends
    <3> QED BY <3>1, <3>3, <3>4
  <2>4. CASE Publish(d)
    <3>1. CASE Authorized(drain[d].plan)
      BY <2>4, <3>1 DEF Publish, At, Published, Adds, ends
    <3>2. CASE ~ Authorized(drain[d].plan) BY <2>4, <3>2 DEF Publish, Still, ends
    <3> QED BY <3>1, <3>2
  <2>5. CASE WriteCursor(d)
    <3>1. Recovered = drain[d].plan.next BY <2>5 DEF WriteCursor, At, Locked, Held, Holding
    <3>2. groups' = groups /\ cursor' = Recovered BY <2>5, <3>1 DEF WriteCursor
    <3> QED BY <2>5, <3>2, MarkingTidies DEF WriteCursor, Tidied, ends
  <2>6. CASE Mark(d)
    <3>1. cursor = Recovered BY <2>6, <1>1 DEF Mark, At, Holding
    <3> QED BY <2>6, <3>1, MarkingTidies DEF Mark, Tidied, ends
  <2>7. CASE Open(d)
    <3>1. CASE Free BY <2>7, <3>1, MarkingTidies DEF Open, Tidied, ends
    <3>2. CASE ~ Free BY <2>7, <3>2 DEF Open, Still, ends
    <3> QED BY <3>1, <3>2
  <2>8. CASE Post(d) BY <2>8 DEF Post, At, Posted, Still, queue, ends
  <2>9. CASE Acknowledge(d) BY <2>9 DEF Acknowledge, At, Acknowledged, ends
  <2>10. CASE RequestReset(d) BY <2>10 DEF RequestReset, Still, ends
  <2>11. CASE Close(d)
    <3> DEFINE S == {i \in DOMAIN groups : groups[i].lines # << >>}
    <3>1. cursor = Recovered BY <2>11, <1>1 DEF Close, At, Holding
    <3>2. groups' = Picked(groups, S) BY <2>11 DEF Close
    <3>3. \A n \in (DOMAIN groups) \ S : groups[n].lines = << >> OBVIOUS
    <3>4. S \in SUBSET (DOMAIN groups) /\ groups \in Seq(Group) BY DEF Types
    <3>5. \E f : Selects(f)
      <4> HIDE DEF S
      <4> QED BY <3>2, <3>3, <3>4, PickingTidies
    <3> QED BY <2>11, <3>1, <3>5 DEF Close, Tidied, ends
  <2> QED BY <1>7, <2>1, <2>2, <2>3, <2>4, <2>5, <2>6, <2>7, <2>8, <2>9, <2>10, <2>11 DEF DrainStep
<1> QED BY <1>2, <1>3, <1>4, <1>5, <1>6, <1>7 DEF Next

\* The batches after one is added, ...
LEMMA AddedShape ==
  ASSUME Types, NEW p \in PlanType, Adds(p)
  PROVE  /\ Len(groups) \in Nat /\ DOMAIN groups = 1 .. Len(groups)
         /\ DOMAIN groups' = 1 .. Len(groups) + 1 /\ Len(groups') = Len(groups) + 1 /\ groups' # << >>
         /\ \A k \in DOMAIN groups : k \in DOMAIN groups' /\ groups'[k] = groups[k] /\ k < Len(groups) + 1
         /\ groups'[Len(groups) + 1].lines = p.lines /\ groups'[Len(groups) + 1].next = p.next
         /\ Last(groups') = groups'[Len(groups) + 1]
         /\ \A k \in DOMAIN groups' : k \in DOMAIN groups \/ k = Len(groups) + 1
<1> DEFINE g == [lines |-> p.lines, next |-> p.next, ready |-> FALSE]
           n == Len(groups)
<1>1. groups \in Seq(Group) /\ g \in Group BY DEF Types, PlanType, Group
<1>2. n \in Nat /\ DOMAIN groups = 1 .. n BY <1>1
<1>3. groups' = Append(groups, g) BY DEF Adds
<1>4. g.lines = p.lines /\ g.next = p.next OBVIOUS
<1> HIDE DEF g
<1>5. groups' \in Seq(Group) /\ Len(groups') = n + 1 /\ DOMAIN groups' = 1 .. n + 1 BY <1>1, <1>3
<1>6. groups'[n + 1] = g /\ \A k \in 1 .. n : groups'[k] = groups[k] BY <1>1, <1>3
<1>7. Last(groups') = groups'[n + 1] BY <1>5 DEF Last
<1>8. groups' # << >>
  <2> HIDE DEF n
  <2>1. Len(groups') # 0 BY <1>2, <1>5, SMT
  <2>2. Len(<< >>) = 0 OBVIOUS
  <2> QED BY <2>1, <2>2
<1> HIDE DEF n
<1>9. \A k \in 1 .. n : k \in 1 .. n + 1 /\ k < n + 1 BY <1>2, SMT
<1>10. \A k \in 1 .. n + 1 : k \in 1 .. n \/ k = n + 1 BY <1>2, SMT
<1> QED BY <1>2, <1>4, <1>5, <1>6, <1>7, <1>8, <1>9, <1>10 DEF n

\* ... and after a chunk is deleted.
LEMMA AcknowledgedShape ==
  ASSUME Types, Locked, Acknowledged
  PROVE  /\ Pending # {} /\ NextChunk \in arrived
         /\ DOMAIN groups' = DOMAIN groups /\ Len(groups') = Len(groups) /\ FirstPending \in DOMAIN groups
         /\ \A k \in DOMAIN groups : groups'[k].next = groups[k].next
         /\ \A k \in DOMAIN groups : k # FirstPending => groups'[k].lines = groups[k].lines
         /\ \A n \in DOMAIN groups'[FirstPending].lines :
              n \in Nat /\ n + 1 \in DOMAIN groups[FirstPending].lines
              /\ groups'[FirstPending].lines[n] = groups[FirstPending].lines[n + 1]
         /\ \A n \in DOMAIN groups[FirstPending].lines :
              \/ groups[FirstPending].lines[n] = NextChunk
              \/ \E m \in DOMAIN groups'[FirstPending].lines :
                   groups'[FirstPending].lines[m] = groups[FirstPending].lines[n]
<1> DEFINE f == FirstPending
           s == groups[f].lines
           g == [groups[f] EXCEPT !.lines = Tail(@)]
<1>1. PICK d \in Drain : drain[d].pc = "ack" /\ groups' = [groups EXCEPT ![FirstPending].lines = Tail(@)]
  BY DEF Acknowledged
<1>2. Pending # {} /\ NextChunk \in arrived BY <1>1 DEF Locked, Held, Holding
<1>3. f \in DOMAIN groups /\ s # << >> /\ NextChunk = s[1] BY <1>2, FirstIsPending
<1>4. groups \in Seq(Group) /\ groups[f] \in Group /\ s \in Seq(Chunk)
  <2> HIDE DEF f
  <2> QED BY <1>3, RecoveredTyped DEF Types
<1>5. groups' = [groups EXCEPT ![f] = g]
  <2> HIDE DEF f
  <2> QED BY <1>1, <1>3, <1>4 DEF f
<1>6. g.lines = Tail(s) /\ g.next = groups[f].next BY <1>4 DEF Group
<1>7. Tail(s) \in Seq(Chunk) /\ Len(Tail(s)) = Len(s) - 1 /\ Len(s) \in Nat /\ Len(s) # 0
      /\ DOMAIN s = 1 .. Len(s) /\ DOMAIN Tail(s) = 1 .. Len(s) - 1
      /\ \A n \in 1 .. Len(s) - 1 : Tail(s)[n] = s[n + 1]
  <2> HIDE DEF s
  <2> QED BY <1>3, <1>4
<1>8. \A n \in 1 .. Len(s) - 1 : n \in Nat /\ n + 1 \in 1 .. Len(s)
  <2> HIDE DEF s
  <2> QED BY <1>7, SMT
<1>9. \A n \in 1 .. Len(s) : n = 1 \/ (n - 1 \in 1 .. Len(s) - 1 /\ (n - 1) + 1 = n)
  <2> HIDE DEF s
  <2> QED BY <1>7, SMT
<1> HIDE DEF f, g
<1>10. DOMAIN groups' = DOMAIN groups /\ groups'[f] = g /\ \A k \in DOMAIN groups \ {f} : groups'[k] = groups[k]
  BY <1>3, <1>5
<1>11. Len(groups') = Len(groups) BY <1>4, <1>5
<1> HIDE DEF s
<1>12. \A n \in DOMAIN groups'[f].lines : n \in Nat /\ n + 1 \in DOMAIN s /\ groups'[f].lines[n] = s[n + 1]
  BY <1>6, <1>7, <1>8, <1>10
<1>13. \A n \in DOMAIN s : s[n] = NextChunk \/ \E m \in DOMAIN groups'[f].lines : groups'[f].lines[m] = s[n]
  <2> SUFFICES ASSUME NEW n \in DOMAIN s, n # 1
               PROVE  \E m \in DOMAIN groups'[f].lines : groups'[f].lines[m] = s[n]
    BY <1>3
  <2>1. n - 1 \in 1 .. Len(s) - 1 /\ (n - 1) + 1 = n BY <1>7, <1>9
  <2>2. Tail(s)[n - 1] = s[n] BY <1>7, <2>1
  <2> QED BY <1>6, <1>7, <1>10, <2>1, <2>2
<1> QED BY <1>2, <1>3, <1>6, <1>10, <1>11, <1>12, <1>13 DEF f, s

\* What is in force changes by the publication of a batch only.
LEMMA RecoveredMoves ==
  ASSUME Types, Types', Locked, Numbered, Planned
  PROVE  /\ Still \/ Posted \/ Acknowledged => Recovered' = Recovered
         /\ Tidied => Recovered' = Recovered /\ cursor' = Recovered
         /\ \A p \in PlanType : Adds(p) /\ cursor' = cursor /\ cursor = Recovered /\ PlanStands(p) =>
              Recovered' = p.next
<1>1. Still \/ Posted => Recovered' = Recovered BY DEF Still, Posted, Recovered
<1>2. ASSUME Acknowledged PROVE Recovered' = Recovered
  <2>1. /\ DOMAIN groups' = DOMAIN groups /\ Len(groups') = Len(groups)
        /\ \A k \in DOMAIN groups : groups'[k].next = groups[k].next
    BY <1>2, AcknowledgedShape
  <2>2. cursor' = cursor BY <1>2 DEF Acknowledged
  <2>3. groups \in Seq(Group) /\ groups' \in Seq(Group) BY DEF Types
  <2>4. groups' = << >> <=> groups = << >> BY <2>1, <2>3
  <2>5. groups # << >> => Last(groups').next = Last(groups).next
    <3>1. groups # << >> => Len(groups) \in DOMAIN groups BY <2>3
    <3> QED BY <2>1, <2>4, <3>1 DEF Last
  <2> QED BY <2>2, <2>4, <2>5 DEF Recovered
<1>3. ASSUME Tidied PROVE Recovered' = Recovered /\ cursor' = Recovered
  <2>1. cursor' = Recovered BY <1>3 DEF Tidied
  <2>2. PICK f : Selects(f) BY <1>3 DEF Tidied
  <2>3. groups' \in Seq(Group) BY DEF Types
  <2>4. CASE groups' = << >> BY <2>1, <2>4 DEF Recovered
  <2>5. CASE groups' # << >>
    <3> DEFINE l == Len(groups')
    <3>1. l \in DOMAIN groups' /\ Last(groups') = groups'[l] BY <2>3, <2>5 DEF Last
    <3>2. f[l] \in DOMAIN groups /\ Last(groups').next = groups[f[l]].next BY <2>2, <3>1 DEF Selects
    <3>3. Recovered # None /\ Last(groups').next.seq <= Recovered.seq BY <3>2, NothingPastRecovered
    <3>4. Recovered.seq \in Nat /\ Last(groups').next.seq \in Nat
      <4>1. Recovered \in Cursor /\ groups[f[l]].next \in Cursor BY <3>2, <3>3, RecoveredTyped
      <4> QED BY <3>2, <4>1 DEF Cursor
    <3>5. ~ (Last(groups').next.seq > Recovered.seq)
      <4> DEFINE a == Last(groups').next.seq
                 b == Recovered.seq
      <4> HIDE DEF a, b
      <4>1. a \in Nat /\ b \in Nat /\ a <= b BY <3>3, <3>4 DEF a, b
      <4>2. ~ (a > b) BY <4>1, SMT
      <4> QED BY <4>2 DEF a, b
    <3>6. ~ (cursor' = None \/ Last(groups').next.seq > cursor'.seq) BY <2>1, <3>3, <3>5
    <3>7. Recovered' = cursor'
      <4>1. Recovered' = IF groups' # << >> /\ (cursor' = None \/ Last(groups').next.seq > cursor'.seq)
                         THEN Last(groups').next ELSE cursor'
        BY DEF Recovered
      <4> QED BY <3>6, <4>1
    <3> QED BY <2>1, <3>7
  <2> QED BY <2>1, <2>4, <2>5
<1>4. ASSUME NEW p \in PlanType, Adds(p), cursor' = cursor, cursor = Recovered, PlanStands(p)
      PROVE  Recovered' = p.next
  <2>1. groups' # << >> /\ Last(groups').next = p.next BY <1>4, AddedShape
  <2>2. cursor = None \/ p.next.seq > cursor.seq
    <3> SUFFICES ASSUME cursor # None PROVE p.next.seq > cursor.seq OBVIOUS
    <3>1. cursor \in Cursor /\ p.next \in Cursor BY DEF Types, PlanType
    <3>2. cursor.seq \in Nat /\ p.next.seq \in Nat BY <3>1 DEF Cursor
    <3>3. cursor.seq < p.next.seq BY <1>4 DEF PlanStands, PlanFits, LastSeq
    <3> QED BY <3>2, <3>3, SMT
  <2> QED BY <1>4, <2>1, <2>2 DEF Recovered
<1> QED BY <1>1, <1>2, <1>3, <1>4

\* What a publication adds.
LEMMA PublishedShape ==
  ASSUME Types, Types', Locked, Numbered, Planned, Published
  PROVE  \E p \in PlanType :
           /\ PlanStands(p) /\ Authorized(p) /\ Adds(p) /\ cursor = Recovered /\ Recovered' = p.next
           /\ UNCHANGED <<journal, cursor, arrived, store, revoked, straddled, truth>>
<1>1. PICK d \in Drain : /\ drain[d].pc = "publish" /\ Authorized(drain[d].plan) /\ Adds(drain[d].plan)
                         /\ UNCHANGED <<journal, cursor, arrived, store, revoked, straddled, truth>>
  BY DEF Published
<1>2. drain[d].plan \in PlanType BY <1>1 DEF Types, DrainOK
<1>3. PlanStands(drain[d].plan) BY <1>1 DEF Planned
<1>4. cursor = Recovered BY <1>1 DEF Locked, Held, Holding
<1> QED BY <1>1, <1>2, <1>3, <1>4, RecoveredMoves

-----------------------------------------------------------------------------
(* Numbers go upwards.                                                       *)

LEMMA NumberedKept ==
  ASSUME Types, Types', Locked, Numbered, Planned, Still \/ Tidied \/ Published \/ Acknowledged \/ Posted
  PROVE  Numbered'
<1>1. CASE Still \/ Posted BY <1>1 DEF Still, Posted, Numbered
<1>2. CASE Acknowledged
  <2>1. cursor' = cursor BY <1>2 DEF Acknowledged
  <2> QED BY <1>2, <2>1, AcknowledgedShape DEF Numbered
<1>3. CASE Tidied
  <2>1. PICK f : Selects(f) BY <1>3 DEF Tidied
  <2>2. cursor' = Recovered BY <1>3 DEF Tidied
  <2>3. ASSUME NEW i \in DOMAIN groups', NEW k \in DOMAIN groups', i < k
        PROVE  groups'[i].next.seq < groups'[k].next.seq
    <3>1. f[i] \in DOMAIN groups /\ f[k] \in DOMAIN groups /\ f[i] < f[k] BY <2>1, <2>3 DEF Selects
    <3>2. groups'[i].next = groups[f[i]].next /\ groups'[k].next = groups[f[k]].next BY <2>1 DEF Selects
    <3> QED BY <3>1, <3>2 DEF Numbered
  <2>4. ASSUME NEW k \in DOMAIN groups'
        PROVE  cursor' # None /\ groups'[k].next.seq <= cursor'.seq
    <3>1. f[k] \in DOMAIN groups /\ groups'[k].next = groups[f[k]].next BY <2>1 DEF Selects
    <3> QED BY <2>2, <3>1, NothingPastRecovered
  <2> QED BY <2>3, <2>4 DEF Numbered
<1>4. CASE Published
  <2>1. PICK p \in PlanType : PlanStands(p) /\ Adds(p) /\ cursor = Recovered /\ cursor' = cursor
    BY <1>4, PublishedShape
  <2> DEFINE n == Len(groups)
  <2>2. /\ DOMAIN groups = 1 .. n /\ n \in Nat
        /\ DOMAIN groups' = 1 .. n + 1 /\ Len(groups') = n + 1
        /\ \A k \in DOMAIN groups : groups'[k] = groups[k]
        /\ groups'[n + 1].next = p.next
        /\ \A k \in DOMAIN groups' : k \in DOMAIN groups \/ k = n + 1
    BY <2>1, AddedShape
  <2> HIDE DEF n
  <2>3. ASSUME NEW k \in DOMAIN groups
        PROVE  cursor # None /\ groups[k].next.seq <= cursor.seq /\ groups[k].next.seq < p.next.seq
    <3>1. cursor # None /\ groups[k].next.seq <= cursor.seq BY <2>1, NothingPastRecovered
    <3>2. cursor.seq < p.next.seq BY <2>1, <3>1 DEF PlanStands, PlanFits, LastSeq
    <3>3. cursor \in Cursor /\ p.next \in Cursor /\ groups[k].next \in Cursor
      BY <3>1, RecoveredTyped DEF Types, PlanType
    <3>4. cursor.seq \in Nat /\ p.next.seq \in Nat /\ groups[k].next.seq \in Nat BY <3>3 DEF Cursor
    <3> QED BY <3>1, <3>2, <3>4, SMT
  <2>4. ASSUME NEW i \in DOMAIN groups', NEW k \in DOMAIN groups', i < k
        PROVE  groups'[i].next.seq < groups'[k].next.seq
    <3>1. i \in DOMAIN groups
      <4>1. i \in 1 .. n + 1 /\ k \in 1 .. n + 1 BY <2>2
      <4>2. i \in 1 .. n BY <2>2, <2>4, <4>1, SMT
      <4> QED BY <2>2, <4>2
    <3>2. CASE k \in DOMAIN groups BY <2>2, <2>4, <3>1, <3>2 DEF Numbered
    <3>3. CASE k = n + 1 BY <2>2, <2>3, <3>1, <3>3
    <3> QED BY <2>2, <3>2, <3>3
  <2>5. ASSUME NEW k \in DOMAIN groups', k < Len(groups')
        PROVE  cursor' # None /\ groups'[k].next.seq <= cursor'.seq
    <3>1. k \in 1 .. n + 1 /\ k < n + 1 BY <2>2, <2>5
    <3>2. k \in DOMAIN groups BY <2>2, <3>1, SMT
    <3> QED BY <2>1, <2>2, <2>3, <3>2
  <2> QED BY <2>4, <2>5 DEF Numbered
<1> QED BY <1>1, <1>2, <1>3, <1>4

LEMMA ChunksNumberedKept ==
  ASSUME Types, Types', Locked, Numbered, ChunksNumbered, Planned,
         Still \/ Tidied \/ Published \/ Acknowledged \/ Posted
  PROVE  ChunksNumbered'
<1>1. CASE Still \/ Posted BY <1>1 DEF Still, Posted, ChunksNumbered
<1>2. CASE Acknowledged
  <2> DEFINE f == FirstPending
  <2>1. /\ DOMAIN groups' = DOMAIN groups /\ f \in DOMAIN groups
        /\ \A k \in DOMAIN groups : groups'[k].next = groups[k].next
        /\ \A k \in DOMAIN groups : k # f => groups'[k].lines = groups[k].lines
        /\ \A n \in DOMAIN groups'[f].lines :
             n \in Nat /\ n + 1 \in DOMAIN groups[f].lines /\ groups'[f].lines[n] = groups[f].lines[n + 1]
    BY <1>2, AcknowledgedShape
  <2> HIDE DEF f
  <2>2. ASSUME NEW k \in DOMAIN groups, NEW m \in DOMAIN groups'[k].lines, NEW n \in DOMAIN groups'[k].lines, m < n
        PROVE  groups'[k].lines[m].seq < groups'[k].lines[n].seq
    <3>1. CASE k = f
      <4>1. /\ m \in Nat /\ n \in Nat /\ m + 1 \in DOMAIN groups[f].lines /\ n + 1 \in DOMAIN groups[f].lines
            /\ groups'[f].lines[m] = groups[f].lines[m + 1] /\ groups'[f].lines[n] = groups[f].lines[n + 1]
        BY <2>1, <3>1
      <4>2. m + 1 < n + 1 BY <2>2, <4>1, SMT
      <4> QED BY <2>1, <3>1, <4>1, <4>2 DEF ChunksNumbered
    <3>2. CASE k # f BY <2>1, <2>2, <3>2 DEF ChunksNumbered
    <3> QED BY <3>1, <3>2
  <2>3. ASSUME NEW k \in DOMAIN groups, NEW n \in DOMAIN groups'[k].lines
        PROVE  \E m \in DOMAIN groups[k].lines : groups'[k].lines[n] = groups[k].lines[m]
    BY <2>1
  <2>4. ASSUME NEW k \in DOMAIN groups, NEW n \in DOMAIN groups'[k].lines
        PROVE  /\ groups'[k].lines[n].seq <= groups'[k].next.seq
               /\ groups'[k].lines[n].line.gen = groups'[k].next.gen
               /\ \A i \in DOMAIN groups : i < k => groups'[i].next.seq < groups'[k].lines[n].seq
    <3>1. PICK m \in DOMAIN groups[k].lines : groups'[k].lines[n] = groups[k].lines[m] BY <2>3
    <3> QED BY <2>1, <3>1 DEF ChunksNumbered
  <2> QED BY <2>1, <2>2, <2>4 DEF ChunksNumbered
<1>3. CASE Tidied
  <2>1. PICK f : Selects(f) BY <1>3 DEF Tidied
  <2>2. ASSUME NEW k \in DOMAIN groups'
        PROVE  /\ f[k] \in DOMAIN groups /\ groups'[k].next = groups[f[k]].next /\ groups'[k].lines = groups[f[k]].lines
               /\ \A i \in DOMAIN groups' : i < k => f[i] < f[k]
    BY <2>1 DEF Selects
  <2>3. ASSUME NEW k \in DOMAIN groups', NEW n \in DOMAIN groups'[k].lines,
               NEW i \in DOMAIN groups', i < k
        PROVE  groups'[i].next.seq < groups'[k].lines[n].seq
    BY <2>2, <2>3 DEF ChunksNumbered
  <2> QED BY <2>2, <2>3 DEF ChunksNumbered
<1>4. CASE Published
  <2>1. PICK p \in PlanType : PlanStands(p) /\ Adds(p) /\ cursor = Recovered
    BY <1>4, PublishedShape
  <2> DEFINE n == Len(groups)
  <2>2. /\ DOMAIN groups = 1 .. n /\ n \in Nat
        /\ DOMAIN groups' = 1 .. n + 1
        /\ \A k \in DOMAIN groups : groups'[k] = groups[k]
        /\ groups'[n + 1].next = p.next /\ groups'[n + 1].lines = p.lines
        /\ \A k \in DOMAIN groups' : k \in DOMAIN groups \/ k = n + 1
    BY <2>1, AddedShape
  <2> HIDE DEF n
  <2>3. ASSUME NEW k \in DOMAIN groups, NEW i \in DOMAIN groups', i < k
        PROVE  i \in DOMAIN groups
    <3>1. i \in 1 .. n + 1 /\ k \in 1 .. n BY <2>2
    <3>2. i \in 1 .. n BY <2>2, <2>3, <3>1, SMT
    <3> QED BY <2>2, <3>2
  <2>4. ASSUME NEW i \in DOMAIN groups', i < n + 1
        PROVE  i \in DOMAIN groups
    <3>1. i \in 1 .. n + 1 BY <2>2
    <3>2. i \in 1 .. n BY <2>2, <2>4, <3>1, SMT
    <3> QED BY <2>2, <3>2
  <2>5. ASSUME NEW i \in DOMAIN groups, NEW m \in DOMAIN p.lines
        PROVE  groups[i].next.seq < p.lines[m].seq
    <3>1. Recovered # None /\ groups[i].next.seq <= Recovered.seq BY NothingPastRecovered
    <3>2. Recovered.seq < p.lines[m].seq BY <2>1, <3>1 DEF PlanStands, PlanFits, LastSeq
    <3>3. Recovered \in Cursor /\ groups[i].next \in Cursor /\ p.lines[m] \in Chunk
      BY <3>1, RecoveredTyped DEF PlanType
    <3>4. Recovered.seq \in Nat /\ groups[i].next.seq \in Nat /\ p.lines[m].seq \in Nat
      BY <3>3 DEF Cursor, Chunk
    <3> QED BY <3>1, <3>2, <3>4, SMT
  <2>6. ASSUME NEW k \in DOMAIN groups'
        PROVE  /\ \A a, b \in DOMAIN groups'[k].lines : a < b => groups'[k].lines[a].seq < groups'[k].lines[b].seq
               /\ \A a \in DOMAIN groups'[k].lines :
                    /\ groups'[k].lines[a].seq <= groups'[k].next.seq
                    /\ groups'[k].lines[a].line.gen = groups'[k].next.gen
                    /\ \A i \in DOMAIN groups' : i < k => groups'[i].next.seq < groups'[k].lines[a].seq
    <3>1. CASE k \in DOMAIN groups BY <2>2, <2>3, <3>1 DEF ChunksNumbered
    <3>2. CASE k = n + 1
      <4>1. \A a, b \in DOMAIN p.lines : a < b => p.lines[a].seq < p.lines[b].seq BY <2>1 DEF PlanStands, PlanFits
      <4>2. \A a \in DOMAIN p.lines : p.lines[a].seq <= p.next.seq /\ p.lines[a].line.gen = p.next.gen
        BY <2>1 DEF PlanStands, PlanFits
      <4>3. \A a \in DOMAIN p.lines : \A i \in DOMAIN groups' : i < k => groups'[i].next.seq < p.lines[a].seq
        BY <2>2, <2>4, <2>5, <3>2
      <4> QED BY <2>2, <3>2, <4>1, <4>2, <4>3
    <3> QED BY <2>2, <3>1, <3>2
  <2> QED BY <2>6 DEF ChunksNumbered
<1> QED BY <1>1, <1>2, <1>3, <1>4

-----------------------------------------------------------------------------
(* Generations.                                                              *)

\* An observation, by whom and of what.
Observes == \E view \in ViewType, verify \in BOOLEAN :
  /\ journal' = Observed(view, verify)
  /\ straddled => straddled'
  /\ view # View => straddled'
  /\ UNCHANGED <<groups, cursor, arrived, store, revoked, truth>>

LEMMA JournalSteps ==
  ASSUME Types, [Next]_vars
  PROVE  (journal' = journal /\ straddled' = straddled) \/ Observes
<1>0. View \in ViewType /\ straddled \in BOOLEAN BY DEF Types, View, ViewType, Allowed
<1>1. CASE UNCHANGED vars BY <1>1 DEF vars, queue
<1>2. CASE Write \/ Replace \/ Lose \/ SetConsent \/ SetPause \/ CommandDies \/ CommandPurge
  BY <1>2 DEF Write, Replace, Lose, SetConsent, SetPause, CommandDies, CommandPurge, queue
<1>3. CASE CommandObserve
  <2>1. CASE journal # None /\ Free
    <3>1. journal' = Observed(View, FALSE) BY <1>3, <2>1 DEF CommandObserve
    <3>2. UNCHANGED <<groups, cursor, arrived, store, revoked, truth>> /\ straddled' = straddled
      BY <1>3 DEF CommandObserve, ends
    <3>3. FALSE \in BOOLEAN OBVIOUS
    <3> HIDE DEF Observed, View
    <3> QED BY <1>0, <3>1, <3>2, <3>3, Zenon DEF Observes
  <2>2. CASE ~ (journal # None /\ Free) BY <1>3, <2>2 DEF CommandObserve
  <2> QED BY <2>1, <2>2
<1>4. ASSUME NEW h \in Hook, HookRead(h) \/ HookObserve(h)
      PROVE  (journal' = journal /\ straddled' = straddled) \/ Observes
  <2>1. CASE HookRead(h) BY <2>1 DEF HookRead, queue
  <2>2. CASE HookObserve(h) /\ Free
    <3>1. hook[h].view \in ViewType BY <2>2 DEF HookObserve, Types, HookOK
    <3>2. journal' = Observed(hook[h].view, FALSE) /\ straddled' = (straddled \/ hook[h].view # View)
      BY <2>2 DEF HookObserve
    <3>3. UNCHANGED <<groups, cursor, arrived, store, revoked, truth>> BY <2>2 DEF HookObserve, ends
    <3>4. FALSE \in BOOLEAN OBVIOUS
    <3> DEFINE v == hook[h].view
    <3>5. journal' = Observed(v, FALSE) /\ (straddled => straddled') /\ (v # View => straddled') /\ v \in ViewType
      BY <3>1, <3>2
    <3> HIDE DEF v
    <3> QED BY <3>3, <3>4, <3>5, Zenon DEF Observes
  <2>3. CASE HookObserve(h) /\ ~ Free BY <2>3 DEF HookObserve
  <2> QED BY <1>4, <2>1, <2>2, <2>3
<1>5. ASSUME NEW d \in Drain, DrainStart(d) \/ DrainStep(d) \/ Crash(d)
      PROVE  (journal' = journal /\ straddled' = straddled) \/ Observes
  <2>1. CASE DrainObserve(d) /\ Free
    <3> DEFINE v == drain[d].view
    <3>1. v \in ViewType BY <2>1 DEF DrainObserve, At, Types, DrainOK
    <3>2. journal' = Observed(v, TRUE) /\ straddled' = (straddled \/ v # View) BY <2>1 DEF DrainObserve
    <3>3. UNCHANGED <<groups, cursor, arrived, store, revoked, truth>> BY <2>1 DEF DrainObserve, ends
    <3>4. TRUE \in BOOLEAN OBVIOUS
    <3>5. (straddled => straddled') /\ (v # View => straddled') BY <3>2
    <3> HIDE DEF v
    <3> QED BY <3>1, <3>2, <3>3, <3>4, <3>5, Zenon DEF Observes
  <2>2. CASE DrainObserve(d) /\ ~ Free BY <2>2 DEF DrainObserve
  <2>3. CASE DrainStart(d) \/ Crash(d) BY <2>3 DEF DrainStart, Crash, queue
  <2>4. CASE StageRequested(d) \/ CheckChunk(d) \/ Recheck(d) \/ Post(d) \/ DrainPurge(d) \/ StageTake(d)
    BY <2>4 DEF StageRequested, CheckChunk, Recheck, Post, DrainPurge, StageTake, queue
  <2>5. CASE Publish(d) \/ WriteCursor(d) \/ Mark(d) \/ Open(d) \/ Acknowledge(d) \/ RequestReset(d) \/ Close(d)
    BY <2>5 DEF Publish, WriteCursor, Mark, Open, Acknowledge, RequestReset, Close
  <2> QED BY <1>5, <2>1, <2>2, <2>3, <2>4, <2>5 DEF DrainStep
<1> QED BY <1>1, <1>2, <1>3, <1>4, <1>5 DEF Next

\* The journal keeps an epoch with all it excludes, or begins a later one.
LEMMA JournalMoves ==
  ASSUME Types, [Next]_vars, journal # None
  PROVE  /\ journal' # None /\ journal'.epoch \in Nat /\ journal.epoch \in Nat /\ journal.epoch <= journal'.epoch
         /\ journal'.epoch = journal.epoch => journal.excluded \subseteq journal'.excluded
<1>0. journal \in JournalType /\ None \notin JournalType /\ journal.epoch \in Nat
  BY DEF Types, Constants, JournalOK, JournalType
<1>1. CASE journal' = journal BY <1>0, <1>1
<1>2. CASE Observes
  <2>1. PICK view \in ViewType, verify \in BOOLEAN : journal' = Observed(view, verify)
    BY <1>2 DEF Observes
  <2>2. journal' \in JournalType /\ journal'.epoch \in Nat BY <2>1, ObservedTyped DEF JournalType
  <2> DEFINE k == [journal EXCEPT !.id = src.id, !.observed = Len(src.recs),
                    !.excluded = @ \cup Interval(view), !.on = view.on, !.boundary = view.boundary]
  <2>3. journal' \in {journal, FreshJournal(view), k} BY <2>1 DEF Observed
  <2>4. FreshJournal(view).epoch = journal.epoch + 1 BY DEF FreshJournal
  <2>5. k.epoch = journal.epoch /\ journal.excluded \subseteq k.excluded BY <1>0 DEF JournalType
  <2> HIDE DEF k
  <2> QED BY <1>0, <2>2, <2>3, <2>4, <2>5
<1> QED BY <1>1, <1>2, JournalSteps

\* What was behind the cursor stays behind the one that continues it.
LEMMA KinStays ==
  ASSUME NEW r \in Cursor, NEW n \in Cursor, NEW x \in Cursor, None \notin Cursor,
         r.baseline <= r.seq, Continues(n, r), Kin(x, r)
  PROVE  Kin(x, n)
<1>1. /\ r.gen \in Nat /\ r.baseline \in Nat /\ r.seq \in Nat /\ x.gen \in Nat /\ x.baseline \in Nat
      /\ n.gen \in Nat /\ n.baseline \in Nat
  BY DEF Cursor
<1>2. CASE n.gen = r.gen /\ n.baseline = r.baseline /\ n.token = r.token
  BY <1>2 DEF Kin
<1>3. CASE n.gen = r.gen + 1 /\ n.baseline = r.seq + 1
  <2>1. x.gen < n.gen /\ x.baseline < n.baseline BY <1>1, <1>3, SMT DEF Kin
  <2> QED BY <1>1, <2>1, SMT DEF Kin
<1> QED BY <1>2, <1>3 DEF Continues

LEMMA GenerationsKept ==
  ASSUME Types, Types', Locked, Numbered, Generations, Planned, [Next]_vars
  PROVE  Generations'
<1>0. /\ None \notin Cursor /\ \A c \in Cursor : c.gen \in Nat /\ c.baseline \in Nat
      /\ Recovered # None => Recovered \in Cursor
      /\ cursor # None => Recovered # None
      /\ groups # << >> => Recovered # None
      /\ cursor # None => cursor \in Cursor
      /\ \A k \in DOMAIN groups : groups[k].next \in Cursor
  BY RecoveredTyped DEF Types, Constants, Cursor
<1>1. \A r \in Cursor : Kin(r, r) BY <1>0 DEF Kin
<1>2. Still \/ Tidied \/ Published \/ Acknowledged \/ Posted BY StepKinds
<1>3. ASSUME NEW c, c \in Nat, journal # None, c <= journal.epoch
      PROVE  journal' # None /\ c <= journal'.epoch
  <2>1. journal' # None /\ journal'.epoch \in Nat /\ journal.epoch \in Nat /\ journal.epoch <= journal'.epoch
    BY <1>3, JournalMoves
  <2> QED BY <1>3, <2>1, SMT
<1>3a. \A c \in Cursor : c.epoch \in Nat BY DEF Cursor
<1>4. CASE Still \/ Posted \/ Acknowledged
  <2>1. Recovered' = Recovered BY <1>4, RecoveredMoves
  <2>2. cursor' = cursor BY <1>4 DEF Still, Posted, Acknowledged
  <2>3. DOMAIN groups' = DOMAIN groups /\ \A k \in DOMAIN groups : groups'[k].next = groups[k].next
    BY <1>4, AcknowledgedShape DEF Still, Posted
  <2>4. Recovered # None => journal' # None /\ Recovered.epoch <= journal'.epoch
    BY <1>0, <1>3, <1>3a DEF Generations
  <2>5. cursor # None => journal' # None /\ cursor.epoch <= journal'.epoch
    BY <1>0, <1>3, <1>3a DEF Generations
  <2> QED BY <2>1, <2>2, <2>3, <2>4, <2>5 DEF Generations
<1>5. CASE Tidied
  <2>1. Recovered' = Recovered /\ cursor' = Recovered /\ journal' = journal
    BY <1>5, RecoveredMoves DEF Tidied
  <2>2. PICK f : Selects(f) BY <1>5 DEF Tidied
  <2>3. \A k \in DOMAIN groups' : f[k] \in DOMAIN groups /\ groups'[k].next = groups[f[k]].next
    BY <2>2 DEF Selects
  <2>4. \A k \in DOMAIN groups' : Kin(groups'[k].next, Recovered) BY <2>3 DEF Generations
  <2>5. \A i, k \in DOMAIN groups' : groups'[i].next.gen = groups'[k].next.gen => groups'[i].next.token = groups'[k].next.token
    BY <2>3 DEF Generations
  <2>6. \A k \in DOMAIN groups' : groups'[k].next.gen = Recovered.gen => groups'[k].next.token = Recovered.token
    BY <2>4 DEF Kin
  <2> QED BY <1>0, <1>1, <2>1, <2>4, <2>5, <2>6 DEF Generations
<1>6. CASE Published
  <2>1. PICK p \in PlanType : /\ PlanStands(p) /\ Adds(p) /\ cursor = Recovered /\ Recovered' = p.next
                              /\ cursor' = cursor /\ journal' = journal
    BY <1>6, PublishedShape
  <2> DEFINE n == Len(groups)
  <2>2. /\ \A k \in DOMAIN groups : groups'[k] = groups[k]
        /\ groups'[n + 1].next = p.next
        /\ \A k \in DOMAIN groups' : k \in DOMAIN groups \/ k = n + 1
    BY <2>1, AddedShape
  <2>3. p.next \in Cursor BY DEF PlanType
  <2> HIDE DEF n
  <2>4. ASSUME NEW x \in Cursor, Recovered # None, Kin(x, Recovered) PROVE Kin(x, p.next)
    <3>1. Recovered.baseline <= Recovered.seq BY <2>4 DEF Generations
    <3>2. Continues(p.next, Recovered) BY <2>1 DEF PlanStands, PlanFits
    <3> QED BY <1>0, <2>3, <2>4, <3>1, <3>2, KinStays
  <2>5. \A k \in DOMAIN groups : Kin(groups[k].next, p.next)
    <3>1. DOMAIN groups # {} => groups # << >> OBVIOUS
    <3> QED BY <1>0, <2>4, <3>1 DEF Generations
  <2>6. cursor # None => Kin(cursor, p.next) BY <1>0, <2>4 DEF Generations
  <2>7. \A k \in DOMAIN groups' : Kin(groups'[k].next, p.next) BY <1>1, <2>2, <2>3, <2>5
  <2>8. ASSUME NEW i \in DOMAIN groups', NEW k \in DOMAIN groups', groups'[i].next.gen = groups'[k].next.gen
        PROVE  groups'[i].next.token = groups'[k].next.token
    <3>1. CASE i \in DOMAIN groups /\ k \in DOMAIN groups BY <2>2, <2>8, <3>1 DEF Generations
    <3>2. CASE i = n + 1 BY <2>2, <2>7, <2>8, <3>2 DEF Kin
    <3>3. CASE k = n + 1 BY <2>2, <2>7, <2>8, <3>3 DEF Kin
    <3> QED BY <2>2, <3>1, <3>2, <3>3
  <2>9. ASSUME cursor # None, NEW k \in DOMAIN groups', groups'[k].next.gen = cursor.gen
        PROVE  groups'[k].next.token = cursor.token
    <3>1. CASE k \in DOMAIN groups BY <2>2, <2>9, <3>1 DEF Generations
    <3>2. CASE k = n + 1 BY <2>2, <2>6, <2>9, <3>2 DEF Kin
    <3> QED BY <2>2, <3>1, <3>2
  <2>10. /\ p.next.baseline <= p.next.seq /\ journal # None /\ p.next.epoch <= journal.epoch
         /\ DOMAIN p.next.prefix = 1 .. p.next.offset
         /\ \A i, k \in DOMAIN p.next.prefix : p.next.prefix[i] = p.next.prefix[k] => i = k
    BY <2>1 DEF PlanStands, PlanFits
  <2>11. cursor # None => journal # None /\ cursor.epoch <= journal.epoch /\ DOMAIN cursor.prefix = 1 .. cursor.offset
    BY DEF Generations
  <2> QED BY <2>1, <2>6, <2>7, <2>8, <2>9, <2>10, <2>11 DEF Generations
<1> QED BY <1>2, <1>4, <1>5, <1>6

-----------------------------------------------------------------------------
(* What is queued and what has arrived.                                      *)

\* Each chunk that is queued has its place.
LEMMA QueuedAre ==
  /\ \A x : x \in Queued <=> \E k \in DOMAIN groups : \E n \in DOMAIN groups[k].lines : x = groups[k].lines[n]
  /\ \A x : x \in Queued' <=> \E k \in DOMAIN groups' : \E n \in DOMAIN groups'[k].lines : x = groups'[k].lines[n]
<1>0. \A s, x : x \in ToSet(s) <=> \E n \in DOMAIN s : x = s[n] BY Zenon DEF ToSet
<1>1. \A x : x \in Queued <=> \E k \in DOMAIN groups : x \in ToSet(groups[k].lines) BY Zenon DEF Queued
<1>2. \A x : x \in Queued' <=> \E k \in DOMAIN groups' : x \in ToSet(groups'[k].lines) BY Zenon DEF Queued
<1>3. \A x : x \in Queued <=> \E k \in DOMAIN groups : \E n \in DOMAIN groups[k].lines : x = groups[k].lines[n]
  <2> SUFFICES ASSUME NEW x
               PROVE  x \in Queued <=> \E k \in DOMAIN groups : \E n \in DOMAIN groups[k].lines : x = groups[k].lines[n]
    OBVIOUS
  <2>1. \A s : x \in ToSet(s) <=> \E n \in DOMAIN s : x = s[n] BY <1>0
  <2>2. \A k : x \in ToSet(groups[k].lines) <=> \E n \in DOMAIN groups[k].lines : x = groups[k].lines[n] BY <2>1
  <2>3. x \in Queued <=> \E k \in DOMAIN groups : x \in ToSet(groups[k].lines) BY <1>1
  <2> QED BY <2>2, <2>3
<1>4. \A x : x \in Queued' <=> \E k \in DOMAIN groups' : \E n \in DOMAIN groups'[k].lines : x = groups'[k].lines[n]
  <2> SUFFICES ASSUME NEW x
               PROVE  x \in Queued' <=> \E k \in DOMAIN groups' : \E n \in DOMAIN groups'[k].lines : x = groups'[k].lines[n]
    OBVIOUS
  <2>1. \A s : x \in ToSet(s) <=> \E n \in DOMAIN s : x = s[n] BY <1>0
  <2>2. \A k : x \in ToSet(groups'[k].lines) <=> \E n \in DOMAIN groups'[k].lines : x = groups'[k].lines[n] BY <2>1
  <2>3. x \in Queued' <=> \E k \in DOMAIN groups' : x \in ToSet(groups'[k].lines) BY <1>2
  <2> QED BY <2>2, <2>3
<1> QED BY <1>3, <1>4

LEMMA QueuedFacts ==
  ASSUME Types, Numbered, ChunksNumbered, Generations, NEW a \in Queued
  PROVE  /\ a \in Chunk /\ a.seq \in Nat /\ a.line.gen \in Nat
         /\ Recovered # None /\ Recovered \in Cursor
         /\ a.seq <= Recovered.seq /\ a.line.gen <= Recovered.gen
<1>1. PICK k \in DOMAIN groups : \E n \in DOMAIN groups[k].lines : a = groups[k].lines[n] BY QueuedAre
<1>2. PICK n \in DOMAIN groups[k].lines : a = groups[k].lines[n] BY <1>1
<1>3. groups[k].lines \in Seq(Chunk) /\ groups[k].next \in Cursor BY RecoveredTyped
<1>4. a \in Chunk BY <1>2, <1>3
<1>5. a.seq \in Nat /\ a.line.gen \in Nat BY <1>4 DEF Chunk, Line
<1>6. a.seq <= groups[k].next.seq /\ a.line.gen = groups[k].next.gen BY <1>2 DEF ChunksNumbered
<1>7. Recovered # None /\ groups[k].next.seq <= Recovered.seq BY NothingPastRecovered
<1>8. Recovered \in Cursor BY <1>7, RecoveredTyped
<1>9. groups[k].next.gen <= Recovered.gen BY DEF Generations, Kin
<1>10. Recovered.seq \in Nat /\ groups[k].next.seq \in Nat BY <1>3, <1>8 DEF Cursor
<1>11. a.seq <= Recovered.seq BY <1>5, <1>6, <1>7, <1>10, SMT
<1> QED BY <1>4, <1>5, <1>6, <1>7, <1>8, <1>9, <1>11

\* The next chunk is the first of its generation, which is the last there is.
LEMMA NextIsFirst ==
  ASSUME Types, Numbered, ChunksNumbered, Generations, cursor = Recovered, Pending # {}
  PROVE  /\ NextChunk \in Queued /\ NextChunk \in Chunk /\ Recovered # None
         /\ NextChunk.line.gen = Recovered.gen /\ groups[FirstPending].next.baseline = Recovered.baseline
         /\ \A a \in Queued : a # NextChunk =>
              a.seq # NextChunk.seq /\ (a.line.gen = NextChunk.line.gen => NextChunk.seq < a.seq)
<1> DEFINE f == FirstPending
           c == NextChunk
<1>1. /\ f \in DOMAIN groups /\ f \in Pending /\ \A k \in Pending : f <= k
      /\ groups[f].next.baseline >= cursor.baseline
      /\ c \in Chunk /\ c = groups[f].lines[1] /\ 1 \in DOMAIN groups[f].lines
  BY FirstIsPending
<1> HIDE DEF f, c
<1>2. /\ DOMAIN groups = 1 .. Len(groups) /\ Len(groups) \in Nat
      /\ \A k \in DOMAIN groups : groups[k].next \in Cursor /\ groups[k].lines \in Seq(Chunk)
  BY RecoveredTyped DEF Types
<1>3. \A x \in Cursor : x.seq \in Nat /\ x.baseline \in Nat /\ x.gen \in Nat BY DEF Cursor
<1>4. \A x \in Chunk : x.seq \in Nat BY DEF Chunk
<1>5. c \in Queued BY <1>1, QueuedAre
<1>6. Recovered # None /\ Recovered \in Cursor BY <1>5, QueuedFacts
<1>7. groups[f].next.baseline = Recovered.baseline /\ groups[f].next.gen = Recovered.gen
  <2>1. Kin(groups[f].next, Recovered) BY <1>1 DEF Generations
  <2>2. groups[f].next.baseline <= Recovered.baseline /\ groups[f].next.baseline >= Recovered.baseline
    BY <1>1, <2>1 DEF Kin
  <2>3. groups[f].next.baseline \in Nat /\ Recovered.baseline \in Nat BY <1>1, <1>2, <1>3, <1>6
  <2>4. groups[f].next.baseline = Recovered.baseline BY <2>2, <2>3, SMT
  <2> QED BY <2>1, <2>4 DEF Kin
<1>8. c.line.gen = Recovered.gen BY <1>1, <1>7 DEF ChunksNumbered
<1>9. ASSUME NEW a \in Queued, a # c
      PROVE  a.seq # c.seq /\ (a.line.gen = c.line.gen => c.seq < a.seq)
  <2>1. PICK k \in DOMAIN groups : \E n \in DOMAIN groups[k].lines : a = groups[k].lines[n] BY QueuedAre
  <2>2. PICK n \in DOMAIN groups[k].lines : a = groups[k].lines[n] BY <2>1
  <2>3. a \in Chunk /\ a.seq \in Nat /\ c.seq \in Nat BY <1>1, <1>2, <1>4, <2>2
  <2>4. CASE k = f
    <3>1. n # 1 /\ n \in 1 .. Len(groups[f].lines) /\ groups[f].lines \in Seq(Chunk) BY <1>1, <1>2, <1>9, <2>2, <2>4
    <3>2. 1 < n BY <3>1, SMT
    <3>3. c.seq < a.seq BY <1>1, <2>2, <2>4, <3>2 DEF ChunksNumbered
    <3> QED BY <2>3, <3>3, SMT
  <2>5. CASE f < k
    <3>1. groups[f].next.seq < a.seq /\ c.seq <= groups[f].next.seq BY <1>1, <2>2, <2>5 DEF ChunksNumbered
    <3>2. groups[f].next.seq \in Nat BY <1>1, <1>2, <1>3
    <3> QED BY <2>3, <3>1, <3>2, SMT
  <2>6. CASE k < f
    <3>1. groups[k].next.seq < c.seq /\ a.seq <= groups[k].next.seq BY <1>1, <2>2, <2>6 DEF ChunksNumbered
    <3>2. groups[k].next.seq \in Nat BY <1>2, <1>3
    <3>3. a.seq < c.seq BY <2>3, <3>1, <3>2, SMT
    <3>4. a.line.gen # c.line.gen
      <4> SUFFICES ASSUME a.line.gen = c.line.gen PROVE FALSE OBVIOUS
      <4>1. groups[k].next.gen = Recovered.gen BY <1>8, <2>2 DEF ChunksNumbered
      <4>2. Kin(groups[k].next, Recovered) BY DEF Generations
      <4>3. groups[k].next.baseline = Recovered.baseline BY <4>1, <4>2 DEF Kin
      <4>4. groups[k].next.baseline >= cursor.baseline
        <5>1. Recovered.baseline \in Nat BY <1>3, <1>6
        <5> QED BY <4>3, <5>1, SMT
      <4>5. groups[k].lines # << >> BY <2>2
      <4>6. k \in Pending BY <4>4, <4>5 DEF Pending
      <4>7. f <= k BY <1>1, <4>6
      <4>8. f \in Nat /\ k \in Nat BY <1>1, <1>2, SMT
      <4> QED BY <2>6, <4>7, <4>8, SMT
    <3> QED BY <2>3, <3>3, <3>4, SMT
  <2>7. k = f \/ f < k \/ k < f
    <3>1. k \in 1 .. Len(groups) /\ f \in 1 .. Len(groups) BY <1>1, <1>2
    <3> QED BY <1>2, <3>1, SMT
  <2> QED BY <2>4, <2>5, <2>6, <2>7
<1> QED BY <1>1, <1>5, <1>6, <1>7, <1>8, <1>9 DEF c, f

LEMMA QueueMoves ==
  ASSUME Types, Types', Locked
  PROVE  /\ Still \/ Posted => Queued' = Queued
         /\ Acknowledged => /\ NextChunk \in arrived /\ Queued' \subseteq Queued
                            /\ Queued \subseteq Queued' \cup {NextChunk}
         /\ Tidied => /\ Queued' \subseteq Queued
                      /\ \A x \in Queued \ Queued' : \E k \in DOMAIN groups :
                           groups[k].next.token \in revoked' /\ \E n \in DOMAIN groups[k].lines : x = groups[k].lines[n]
         /\ \A p \in PlanType : Adds(p) => Queued' = Queued \cup {p.lines[i] : i \in DOMAIN p.lines}
<1>1. Still \/ Posted => Queued' = Queued BY DEF Still, Posted, Queued
<1>2. ASSUME Acknowledged
      PROVE  NextChunk \in arrived /\ Queued' \subseteq Queued /\ Queued \subseteq Queued' \cup {NextChunk}
  <2> DEFINE f == FirstPending
  <2>1. /\ NextChunk \in arrived
        /\ DOMAIN groups' = DOMAIN groups /\ f \in DOMAIN groups
        /\ \A k \in DOMAIN groups : k # f => groups'[k].lines = groups[k].lines
        /\ \A n \in DOMAIN groups'[f].lines : n + 1 \in DOMAIN groups[f].lines /\ groups'[f].lines[n] = groups[f].lines[n + 1]
        /\ \A n \in DOMAIN groups[f].lines :
             \/ groups[f].lines[n] = NextChunk
             \/ \E m \in DOMAIN groups'[f].lines : groups'[f].lines[m] = groups[f].lines[n]
    BY <1>2, AcknowledgedShape
  <2> HIDE DEF f
  <2>2. ASSUME NEW x \in Queued' PROVE x \in Queued
    <3>1. PICK k \in DOMAIN groups' : \E n \in DOMAIN groups'[k].lines : x = groups'[k].lines[n] BY QueuedAre
    <3>2. \E n \in DOMAIN groups[k].lines : x = groups[k].lines[n]
      <4>1. CASE k = f BY <2>1, <3>1, <4>1
      <4>2. CASE k # f BY <2>1, <3>1, <4>2
      <4> QED BY <4>1, <4>2
    <3> QED BY <2>1, <3>2, QueuedAre
  <2>3. ASSUME NEW x \in Queued PROVE x \in Queued' \/ x = NextChunk
    <3>1. PICK k \in DOMAIN groups : \E n \in DOMAIN groups[k].lines : x = groups[k].lines[n] BY QueuedAre
    <3>2. x = NextChunk \/ \E n \in DOMAIN groups'[k].lines : x = groups'[k].lines[n]
      <4>1. CASE k = f BY <2>1, <3>1, <4>1
      <4>2. CASE k # f BY <2>1, <3>1, <4>2
      <4> QED BY <4>1, <4>2
    <3> QED BY <2>1, <3>2, QueuedAre
  <2> QED BY <2>1, <2>2, <2>3
<1>3. ASSUME Tidied
      PROVE  /\ Queued' \subseteq Queued
             /\ \A x \in Queued \ Queued' : \E k \in DOMAIN groups :
                  groups[k].next.token \in revoked' /\ \E n \in DOMAIN groups[k].lines : x = groups[k].lines[n]
  <2>1. PICK f : Selects(f) BY <1>3 DEF Tidied
  <2>2. ASSUME NEW x \in Queued' PROVE x \in Queued
    <3>1. PICK k \in DOMAIN groups' : \E n \in DOMAIN groups'[k].lines : x = groups'[k].lines[n] BY QueuedAre
    <3>2. f[k] \in DOMAIN groups /\ groups'[k].lines = groups[f[k]].lines BY <2>1 DEF Selects
    <3> QED BY <3>1, <3>2, QueuedAre
  <2>3. ASSUME NEW x \in Queued, x \notin Queued'
        PROVE  \E k \in DOMAIN groups :
                  groups[k].next.token \in revoked' /\ \E n \in DOMAIN groups[k].lines : x = groups[k].lines[n]
    <3>1. PICK k \in DOMAIN groups : \E n \in DOMAIN groups[k].lines : x = groups[k].lines[n] BY QueuedAre
    <3>2. CASE \E m \in DOMAIN groups' : f[m] = k
      <4>1. PICK m \in DOMAIN groups' : f[m] = k BY <3>2
      <4>2. groups'[m].lines = groups[k].lines BY <2>1, <4>1 DEF Selects
      <4>3. x \in Queued' BY <3>1, <4>2, QueuedAre
      <4> QED BY <2>3, <4>3
    <3>3. groups[k].lines # << >> BY <3>1
    <3> QED BY <2>1, <3>1, <3>2, <3>3 DEF Selects
  <2> QED BY <2>2, <2>3
<1>4. ASSUME NEW p \in PlanType, Adds(p)
      PROVE  Queued' = Queued \cup {p.lines[i] : i \in DOMAIN p.lines}
  <2> DEFINE n == Len(groups)
  <2>1. /\ \A k \in DOMAIN groups : k \in DOMAIN groups' /\ groups'[k] = groups[k]
        /\ n + 1 \in DOMAIN groups' /\ groups'[n + 1].lines = p.lines
        /\ \A k \in DOMAIN groups' : k \in DOMAIN groups \/ k = n + 1
    BY <1>4, AddedShape, SMT
  <2> HIDE DEF n
  <2>2. ASSUME NEW x \in Queued' PROVE x \in Queued \cup {p.lines[i] : i \in DOMAIN p.lines}
    <3>1. PICK k \in DOMAIN groups' : \E m \in DOMAIN groups'[k].lines : x = groups'[k].lines[m] BY QueuedAre
    <3>2. CASE k \in DOMAIN groups BY <2>1, <3>1, <3>2, QueuedAre
    <3>3. CASE k = n + 1 BY <2>1, <3>1, <3>3
    <3> QED BY <2>1, <3>2, <3>3
  <2>3. ASSUME NEW x \in Queued PROVE x \in Queued' BY <2>1, QueuedAre
  <2>4. ASSUME NEW i \in DOMAIN p.lines PROVE p.lines[i] \in Queued' BY <2>1, QueuedAre
  <2> QED BY <2>2, <2>3, <2>4
<1> QED BY <1>1, <1>2, <1>3, <1>4

LEMMA ArrivalsKept ==
  ASSUME Types, Types', Locked, Numbered, ChunksNumbered, Generations, Arrivals, Planned,
         Still \/ Tidied \/ Published \/ Acknowledged \/ Posted
  PROVE  Arrivals'
<1>0. \A b \in arrived : b.seq \in Nat /\ b.line.gen \in Nat BY DEF Types, Chunk, Line
<1>1. CASE Still \/ Tidied \/ Acknowledged
  <2>1. Recovered' = Recovered BY <1>1, RecoveredMoves
  <2>2. arrived' = arrived BY <1>1 DEF Still, Tidied, Acknowledged
  <2>3. Queued' \subseteq Queued BY <1>1, QueueMoves
  <2> QED BY <2>1, <2>2, <2>3 DEF Arrivals
<1>2. CASE Published
  <2>1. PICK p \in PlanType : PlanStands(p) /\ Adds(p) /\ Recovered' = p.next /\ arrived' = arrived
    BY <1>2, PublishedShape
  <2>2. Queued' = Queued \cup {p.lines[i] : i \in DOMAIN p.lines} BY <2>1, QueueMoves
  <2>3. p.next \in Cursor /\ p.next # None /\ p.next.seq \in Nat /\ p.next.gen \in Nat
    BY DEF PlanType, Cursor, Types, Constants
  <2>6. \A i \in DOMAIN p.lines : p.lines[i].seq \in Nat
    <3>1. p.lines \in Seq(Chunk) BY DEF PlanType
    <3>2. \A i \in DOMAIN p.lines : p.lines[i] \in Chunk BY <3>1
    <3> QED BY <3>2 DEF Chunk
  <2>4. ASSUME NEW b \in arrived
        PROVE  /\ b.seq <= p.next.seq /\ b.line.gen <= p.next.gen
               /\ \A i \in DOMAIN p.lines : b.seq < p.lines[i].seq
    <3>1. Recovered # None /\ b.seq <= Recovered.seq /\ b.line.gen <= Recovered.gen BY DEF Arrivals
    <3>2. Recovered \in Cursor BY <3>1, RecoveredTyped
    <3>3. Recovered.seq \in Nat /\ Recovered.gen \in Nat BY <3>2 DEF Cursor
    <3>4. Recovered.seq < p.next.seq /\ \A i \in DOMAIN p.lines : Recovered.seq < p.lines[i].seq
      BY <2>1, <3>1 DEF PlanStands, PlanFits, LastSeq
    <3>5. Recovered.gen <= p.next.gen
      <4>1. p.next.gen = Recovered.gen \/ p.next.gen = Recovered.gen + 1
        BY <2>1, <3>1 DEF PlanStands, PlanFits, Continues
      <4> QED BY <2>3, <3>3, <4>1, SMT
    <3>6. \A i \in DOMAIN p.lines : p.lines[i].seq \in Nat BY <2>6
    <3>7. b.seq <= p.next.seq BY <1>0, <2>3, <3>1, <3>3, <3>4, SMT
    <3>8. b.line.gen <= p.next.gen BY <1>0, <2>3, <3>1, <3>3, <3>5, SMT
    <3>9. ASSUME NEW i \in DOMAIN p.lines PROVE b.seq < p.lines[i].seq
      <4>1. Recovered.seq < p.lines[i].seq /\ p.lines[i].seq \in Nat BY <3>4, <3>6
      <4> QED BY <1>0, <3>1, <3>3, <4>1, SMT
    <3> QED BY <3>7, <3>8, <3>9
  <2>5. ASSUME NEW a \in Queued', NEW b \in arrived, a # b
        PROVE  a.seq # b.seq /\ (a.line.gen = b.line.gen => b.seq < a.seq)
    <3>1. CASE a \in Queued BY <2>5, <3>1 DEF Arrivals
    <3>2. CASE \E i \in DOMAIN p.lines : a = p.lines[i]
      <4>1. PICK i \in DOMAIN p.lines : a = p.lines[i] BY <3>2
      <4>2. b.seq < a.seq /\ a.seq \in Nat BY <2>4, <2>6, <4>1
      <4> QED BY <1>0, <4>2, SMT
    <3> QED BY <2>2, <3>1, <3>2
  <2> QED BY <2>1, <2>3, <2>4, <2>5 DEF Arrivals
<1>3. CASE Posted
  <2> DEFINE c == NextChunk
  <2>1. Recovered' = Recovered /\ Queued' = Queued /\ arrived' = arrived \cup {c}
    BY <1>3, RecoveredMoves, QueueMoves DEF Posted
  <2>2. Pending # {} /\ cursor = Recovered BY <1>3 DEF Posted, Locked, Held, Holding
  <2>3. /\ c \in Queued /\ Recovered # None
        /\ \A a \in Queued : a # c => a.seq # c.seq /\ (a.line.gen = c.line.gen => c.seq < a.seq)
    BY <2>2, NextIsFirst
  <2>4. c.seq <= Recovered.seq /\ c.line.gen <= Recovered.gen BY <2>3, QueuedFacts
  <2> HIDE DEF c
  <2>5. \A b \in arrived : c # b => c.seq # b.seq BY <2>3 DEF Arrivals
  <2>6. \A a, b \in arrived \cup {c} : a.seq = b.seq => a = b BY <2>5 DEF Arrivals
  <2>7. \A a \in Queued : \A b \in arrived \cup {c} : a # b => a.seq # b.seq /\ (a.line.gen = b.line.gen => b.seq < a.seq)
    BY <2>3 DEF Arrivals
  <2>8. \A b \in arrived \cup {c} : b.seq <= Recovered.seq /\ b.line.gen <= Recovered.gen BY <2>4 DEF Arrivals
  <2> QED BY <2>1, <2>3, <2>6, <2>7, <2>8 DEF Arrivals
<1> QED BY <1>1, <1>2, <1>3

\* The lines that stand somewhere: a plan adds its own, and only a revoked consent takes some away.
LEMMA LinesMove ==
  ASSUME Types, Types', Locked, Numbered, ChunksNumbered, Generations, Planned
  PROVE  /\ Still \/ Acknowledged \/ Posted => Lines' = Lines
         /\ Tidied => /\ Lines' \subseteq Lines
                      /\ \A x \in Lines \ Lines' : \E k \in DOMAIN groups :
                           x.gen = groups[k].next.gen /\ groups[k].next.token \in revoked'
         /\ \A p \in PlanType : Adds(p) /\ arrived' = arrived => Lines' = Lines \cup PlanLines(p)
<1>1. ASSUME Still \/ Acknowledged \/ Posted PROVE Lines' = Lines
  <2>1. arrived' \cup Queued' = arrived \cup Queued
    <3>1. CASE Still BY <3>1, QueueMoves DEF Still
    <3>2. CASE Acknowledged
      <4>1. NextChunk \in arrived /\ Queued' \subseteq Queued /\ Queued \subseteq Queued' \cup {NextChunk} /\ arrived' = arrived
        BY <3>2, QueueMoves DEF Acknowledged
      <4> QED BY <4>1
    <3>3. CASE Posted
      <4>1. Queued' = Queued /\ arrived' = arrived \cup {NextChunk} BY <3>3, QueueMoves DEF Posted
      <4>2. Pending # {} /\ cursor = Recovered BY <3>3 DEF Posted, Locked, Held, Holding
      <4>3. NextChunk \in Queued BY <4>2, NextIsFirst
      <4> QED BY <4>1, <4>3
    <3> QED BY <1>1, <3>1, <3>2, <3>3
  <2> QED BY <2>1 DEF Lines
<1>2. ASSUME Tidied
      PROVE  /\ Lines' \subseteq Lines
             /\ \A x \in Lines \ Lines' : \E k \in DOMAIN groups :
                  x.gen = groups[k].next.gen /\ groups[k].next.token \in revoked'
  <2>1. /\ Queued' \subseteq Queued /\ arrived' = arrived
        /\ \A c \in Queued \ Queued' : \E k \in DOMAIN groups :
             groups[k].next.token \in revoked' /\ \E n \in DOMAIN groups[k].lines : c = groups[k].lines[n]
    BY <1>2, QueueMoves DEF Tidied
  <2>2. Lines' \subseteq Lines BY <2>1 DEF Lines
  <2>3. ASSUME NEW x \in Lines, x \notin Lines'
        PROVE  \E k \in DOMAIN groups : x.gen = groups[k].next.gen /\ groups[k].next.token \in revoked'
    <3>1. PICK c \in arrived \cup Queued : x = c.line BY DEF Lines
    <3>2. c \in Queued /\ c \notin Queued' BY <2>1, <2>3, <3>1 DEF Lines
    <3>3. PICK k \in DOMAIN groups :
             groups[k].next.token \in revoked' /\ \E n \in DOMAIN groups[k].lines : c = groups[k].lines[n]
      BY <2>1, <3>2
    <3>4. c.line.gen = groups[k].next.gen BY <3>3 DEF ChunksNumbered
    <3> QED BY <3>1, <3>3, <3>4
  <2> QED BY <2>2, <2>3
<1>3. ASSUME NEW p \in PlanType, Adds(p), arrived' = arrived PROVE Lines' = Lines \cup PlanLines(p)
  <2>1. Queued' = Queued \cup {p.lines[i] : i \in DOMAIN p.lines} BY <1>3, QueueMoves
  <2>2. ASSUME NEW x \in Lines' PROVE x \in Lines \cup PlanLines(p)
    <3>1. PICK c \in arrived' \cup Queued' : x = c.line BY DEF Lines
    <3>2. CASE c \in arrived \cup Queued BY <3>1, <3>2 DEF Lines
    <3>3. CASE \E i \in DOMAIN p.lines : c = p.lines[i] BY <3>1, <3>3 DEF PlanLines
    <3> QED BY <1>3, <2>1, <3>2, <3>3
  <2>3. ASSUME NEW x \in Lines PROVE x \in Lines'
    <3>1. PICK c \in arrived \cup Queued : x = c.line BY DEF Lines
    <3>2. c \in arrived' \cup Queued' BY <1>3, <2>1
    <3> QED BY <3>1, <3>2 DEF Lines
  <2>4. ASSUME NEW x \in PlanLines(p) PROVE x \in Lines'
    <3>1. PICK i \in DOMAIN p.lines : x = p.lines[i].line BY DEF PlanLines
    <3>2. p.lines[i] \in arrived' \cup Queued' BY <2>1
    <3> QED BY <3>1, <3>2 DEF Lines
  <2> QED BY <2>2, <2>3, <2>4
<1> QED BY <1>1, <1>2, <1>3

LEMMA LineFacts ==
  ASSUME Types, Numbered, ChunksNumbered, Generations, Arrivals, NEW x \in Lines
  PROVE  x \in Line /\ Recovered # None /\ Recovered \in Cursor /\ x.gen <= Recovered.gen
<1>1. PICK c \in arrived \cup Queued : x = c.line BY DEF Lines
<1>2. CASE c \in Queued BY <1>1, <1>2, QueuedFacts DEF Chunk
<1>3. CASE c \in arrived
  <2>1. Recovered # None /\ c.line.gen <= Recovered.gen BY <1>3 DEF Arrivals
  <2>2. c \in Chunk BY <1>3 DEF Types
  <2> QED BY <1>1, <2>1, <2>2, RecoveredTyped DEF Chunk
<1> QED BY <1>2, <1>3

LEMMA OnePlaceKept ==
  ASSUME Types, Types', Locked, Numbered, ChunksNumbered, Generations, Arrivals, OnePlace, Planned,
         Still \/ Tidied \/ Published \/ Acknowledged \/ Posted
  PROVE  OnePlace'
<1>1. CASE Still \/ Tidied \/ Acknowledged \/ Posted
  <2>1. Recovered' = Recovered /\ Lines' \subseteq Lines BY <1>1, RecoveredMoves, LinesMove
  <2> QED BY <2>1 DEF OnePlace
<1>2. CASE Published
  <2>1. PICK p \in PlanType : PlanStands(p) /\ Adds(p) /\ Recovered' = p.next /\ arrived' = arrived
    BY <1>2, PublishedShape
  <2> DEFINE n == p.next
  <2>2. Lines' = Lines \cup PlanLines(p) BY <2>1, LinesMove
  <2>3. n \in Cursor /\ n.gen \in Nat /\ n.offset \in Nat /\ DOMAIN n.prefix = 1 .. n.offset
        /\ \A i, k \in DOMAIN n.prefix : n.prefix[i] = n.prefix[k] => i = k
    BY <2>1 DEF PlanStands, PlanFits, PlanType, Cursor
  <2>4. ASSUME NEW x \in PlanLines(p)
        PROVE  x \in Line /\ x.gen = n.gen /\ x.at \in DOMAIN n.prefix /\ x.rec = n.prefix[x.at]
    <3>1. PICK i \in DOMAIN p.lines : x = p.lines[i].line BY DEF PlanLines
    <3>2. p.lines[i] \in Chunk BY DEF PlanType
    <3> QED BY <2>1, <3>1, <3>2 DEF PlanStands, PlanFits, Chunk
  <2>5. ASSUME NEW x \in Lines, x.gen = n.gen
        PROVE  x.at \in DOMAIN n.prefix /\ x.rec = n.prefix[x.at]
    <3>1. x \in Line /\ Recovered # None /\ Recovered \in Cursor /\ x.gen <= Recovered.gen BY LineFacts
    <3>2. Recovered.gen \in Nat /\ Recovered.offset \in Nat /\ DOMAIN Recovered.prefix = 1 .. Recovered.offset
      BY <3>1 DEF Cursor, Generations
    <3>3. n.gen # Recovered.gen + 1 BY <2>3, <2>5, <3>1, <3>2, SMT
    <3>4. /\ n.gen = Recovered.gen /\ Recovered.offset <= n.offset
          /\ \A i \in 1 .. Recovered.offset : n.prefix[i] = Recovered.prefix[i]
      BY <2>1, <3>1, <3>3 DEF PlanStands, PlanFits, Continues
    <3>5. x.at \in 1 .. Recovered.offset /\ x.rec = Recovered.prefix[x.at] BY <2>5, <3>2, <3>4 DEF OnePlace
    <3>6. x.at \in 1 .. n.offset
      <4> HIDE DEF n
      <4> QED BY <2>3, <3>2, <3>4, <3>5, SMT
    <3> QED BY <2>3, <3>4, <3>5, <3>6
  <2> HIDE DEF n
  <2>6. \A x \in Lines' : x \in Line BY <2>2, <2>4, LineFacts
  <2>7. \A x \in Lines' : x.gen = n.gen => x.at \in DOMAIN n.prefix /\ x.rec = n.prefix[x.at] BY <2>2, <2>4, <2>5
  <2>8. ASSUME NEW x \in Lines', NEW y \in Lines', x.gen = y.gen, x.rec = y.rec
        PROVE  x = y
    <3>1. CASE x \in Lines /\ y \in Lines BY <2>8, <3>1 DEF OnePlace
    <3>2. CASE x.gen = n.gen
      <4>1. x.at = y.at BY <2>3, <2>7, <2>8, <3>2
      <4> QED BY <2>6, <2>8, <4>1 DEF Line
    <3> QED BY <2>2, <2>4, <2>8, <3>1, <3>2
  <2> QED BY <2>1, <2>7, <2>8 DEF OnePlace, n
<1> QED BY <1>1, <1>2

LEMMA StoredKept ==
  ASSUME Types, Types', Locked, Numbered, ChunksNumbered, Generations, Arrivals, Stored, Planned,
         Still \/ Tidied \/ Published \/ Acknowledged \/ Posted
  PROVE  Stored'
<1>0. /\ store # None => store \in StoreType /\ store.baseline \in Nat
      /\ Recovered # None => Recovered \in Cursor /\ Recovered.baseline \in Nat /\ Recovered.seq \in Nat
  BY RecoveredTyped DEF Types, StoreType, Cursor
<1>1. CASE Still \/ Tidied \/ Acknowledged
  <2>1. Recovered' = Recovered /\ arrived' = arrived /\ store' \in {store, None}
    BY <1>1, RecoveredMoves DEF Still, Tidied, Acknowledged
  <2> QED BY <2>1 DEF Stored
<1>2. CASE Published
  <2>1. PICK p \in PlanType : PlanStands(p) /\ Recovered' = p.next /\ arrived' = arrived /\ store' = store
    BY <1>2, PublishedShape
  <2>2. p.next \in Cursor /\ p.next # None /\ p.next.baseline \in Nat BY DEF PlanType, Cursor, Types, Constants
  <2> SUFFICES ASSUME store # None PROVE Stored' BY <2>1 DEF Stored
  <2>3. Recovered # None /\ store.baseline <= Recovered.baseline /\ Recovered.baseline <= Recovered.seq
    BY DEF Stored, Generations
  <2>4. CASE p.next.gen = Recovered.gen /\ p.next.baseline = Recovered.baseline
    BY <2>1, <2>2, <2>3, <2>4 DEF Stored
  <2>5. CASE p.next.baseline = Recovered.seq + 1
    <3>1. store.baseline <= p.next.baseline /\ store.baseline # p.next.baseline BY <1>0, <2>2, <2>3, <2>5, SMT
    <3> QED BY <2>1, <2>2, <2>3, <3>1 DEF Stored
  <2> QED BY <2>1, <2>3, <2>4, <2>5 DEF PlanStands, PlanFits, Continues
<1>3. CASE Posted
  <2> DEFINE l == NextChunk.line
             b == Recovered.baseline
  <2>1. Pending # {} /\ cursor = Recovered BY <1>3 DEF Posted, Locked, Held, Holding
  <2>2. Recovered # None /\ l.gen = Recovered.gen /\ groups[FirstPending].next.baseline = b
    BY <2>1, NextIsFirst
  <2>3. Recovered' = Recovered /\ store' = Merged(b, l) /\ arrived' = arrived \cup {NextChunk}
    BY <1>3, <2>2, RecoveredMoves DEF Posted
  <2>4. l \in {c.line : c \in arrived'} /\ {c.line : c \in arrived} \subseteq {c.line : c \in arrived'}
    BY <2>3
  <2>5. CASE store # None /\ store.baseline = b
    <3>1. store' = [store EXCEPT !.lines = @ \cup {l}] BY <2>3, <2>5 DEF Merged
    <3> HIDE DEF l, b
    <3>2. store'.lines = store.lines \cup {l} /\ store'.baseline = b BY <1>0, <2>5, <3>1 DEF StoreType
    <3>3. \A x \in store.lines : x.gen = Recovered.gen BY <2>5 DEF Stored, b
    <3>4. store.lines \subseteq {c.line : c \in arrived} BY <2>5 DEF Stored
    <3>5. \A x, y \in store'.lines : x.gen = y.gen BY <2>2, <3>2, <3>3
    <3>6. store'.lines \subseteq {c.line : c \in arrived'} BY <2>4, <3>2, <3>4
    <3>7. \A x \in store'.lines : x.gen = Recovered.gen BY <2>2, <3>2, <3>3
    <3>8. b <= b BY <1>0, <2>2, SMT DEF b
    <3> QED BY <2>2, <2>3, <3>2, <3>5, <3>6, <3>7, <3>8 DEF Stored, b
  <2>6. CASE store = None \/ store.baseline # b
    <3>1. store # None => ~ (store.baseline > b)
      <4> SUFFICES ASSUME store # None PROVE ~ (store.baseline > b) OBVIOUS
      <4>1. store.baseline <= b BY DEF Stored
      <4> QED BY <1>0, <2>2, <4>1, SMT
    <3>2. store' = [baseline |-> b, lines |-> {l}] BY <2>3, <2>6, <3>1 DEF Merged
    <3> HIDE DEF l, b
    <3>3. store'.baseline = b /\ store'.lines = {l} BY <3>2
    <3>4. b <= b BY <1>0, <2>2, SMT DEF b
    <3> QED BY <2>2, <2>3, <2>4, <3>3, <3>4 DEF Stored, b
  <2> QED BY <2>5, <2>6
<1> QED BY <1>1, <1>2, <1>3

\* Only a revocation takes lines away, and what it takes is behind no cursor that counts.
LEMMA CoveringKept ==
  ASSUME Types, Types', Locked, Numbered, ChunksNumbered, Generations, Arrivals, Covering, Planned, [Next]_vars
  PROVE  Covering'
<1>0. /\ \A c \in Cursor : c.epoch \in Nat
      /\ cursor # None => cursor \in Cursor
      /\ Recovered # None => Recovered \in Cursor
  BY RecoveredTyped DEF Types, Cursor
<1>1. Still \/ Tidied \/ Published \/ Acknowledged \/ Posted BY StepKinds
<1>2. ASSUME NEW n \in Cursor, journal # None, n.epoch <= journal.epoch, n.epoch = journal'.epoch
      PROVE  n.epoch = journal.epoch /\ journal.excluded \subseteq journal'.excluded
  <2>1. /\ journal'.epoch \in Nat /\ journal.epoch \in Nat /\ journal.epoch <= journal'.epoch
        /\ journal'.epoch = journal.epoch => journal.excluded \subseteq journal'.excluded
    BY <1>2, JournalMoves
  <2>2. n.epoch = journal.epoch BY <1>0, <1>2, <2>1, SMT
  <2> QED BY <1>2, <2>1, <2>2
<1>3. \A n \in {cursor, Recovered} : n # None => n \in Cursor /\ journal # None /\ n.epoch <= journal.epoch
  BY <1>0 DEF Generations
<1>4. CASE Still \/ Acknowledged \/ Posted
  <2>1. Recovered' = Recovered /\ cursor' = cursor /\ revoked' = revoked /\ Lines' = Lines
    BY <1>4, RecoveredMoves, LinesMove DEF Still, Acknowledged, Posted
  <2>2. ASSUME NEW n \in {cursor, Recovered}, n # None, n.epoch = journal'.epoch, n.token \notin revoked,
               NEW i \in 1 .. n.offset
        PROVE  i \in journal'.excluded \/ [gen |-> n.gen, at |-> i, rec |-> n.prefix[i]] \in Lines
    <3>1. n.epoch = journal.epoch /\ journal.excluded \subseteq journal'.excluded BY <1>2, <1>3, <2>2
    <3>2. i \in journal.excluded \/ [gen |-> n.gen, at |-> i, rec |-> n.prefix[i]] \in Lines
      BY <2>2, <3>1 DEF Covering, Covers
    <3> QED BY <3>1, <3>2
  <2> QED BY <2>1, <2>2 DEF Covering, Covers
<1>5. CASE Tidied
  <2>1. Recovered' = Recovered /\ cursor' = Recovered /\ journal' = journal /\ revoked \subseteq revoked'
    BY <1>5, RecoveredMoves DEF Tidied
  <2>2. \A x \in Lines \ Lines' : \E k \in DOMAIN groups :
          x.gen = groups[k].next.gen /\ groups[k].next.token \in revoked'
    BY <1>5, LinesMove
  <2> DEFINE n == Recovered
             x(i) == [gen |-> n.gen, at |-> i, rec |-> n.prefix[i]]
  <2>3. ASSUME n # None, n.epoch = journal.epoch, n.token \notin revoked', NEW i \in 1 .. n.offset
        PROVE  i \in journal.excluded \/ x(i) \in Lines'
    <3>1. n.token \notin revoked BY <2>1, <2>3
    <3>2. i \in journal.excluded \/ x(i) \in Lines BY <2>3, <3>1 DEF Covering, Covers
    <3>3. x(i) \in Lines => x(i) \in Lines'
      <4> SUFFICES ASSUME x(i) \in Lines, x(i) \notin Lines' PROVE FALSE OBVIOUS
      <4>1. x(i).gen = n.gen OBVIOUS
      <4>2. PICK k \in DOMAIN groups : x(i).gen = groups[k].next.gen /\ groups[k].next.token \in revoked'
        <5> HIDE DEF x, n
        <5> QED BY <2>2
      <4>3. groups[k].next.gen = n.gen BY <4>1, <4>2
      <4>4. groups[k].next.token = n.token BY <4>3 DEF Generations, Kin
      <4> QED BY <2>3, <4>2, <4>4
    <3> QED BY <3>2, <3>3
  <2> QED BY <2>1, <2>3 DEF Covering, Covers
<1>6. CASE Published
  <2>1. PICK p \in PlanType : /\ PlanStands(p) /\ Adds(p) /\ cursor = Recovered /\ Recovered' = p.next
                              /\ UNCHANGED <<journal, cursor, arrived, revoked>>
    BY <1>6, PublishedShape
  <2>2. Lines' = Lines \cup PlanLines(p) BY <2>1, LinesMove
  <2>3. Covers(p.next, Lines \cup PlanLines(p)) BY <2>1 DEF PlanStands, PlanFits
  <2>4. ASSUME cursor # None, cursor.epoch = journal.epoch, cursor.token \notin revoked, NEW i \in 1 .. cursor.offset
        PROVE  i \in journal.excluded \/ [gen |-> cursor.gen, at |-> i, rec |-> cursor.prefix[i]] \in Lines'
    <3>1. i \in journal.excluded \/ [gen |-> cursor.gen, at |-> i, rec |-> cursor.prefix[i]] \in Lines
      BY <2>4 DEF Covering, Covers
    <3> QED BY <2>2, <3>1
  <2> QED BY <2>1, <2>2, <2>3, <2>4 DEF Covering, Covers
<1> QED BY <1>1, <1>4, <1>5, <1>6

-----------------------------------------------------------------------------
(* The lock.                                                                 *)

\* While somebody holds the lock, nobody else touches the queue.
LEMMA HolderAlone ==
  ASSUME Types, Locked, NEW e \in Drain, drain[e].pc \in Holding,
         \/ UNCHANGED vars
         \/ Write \/ Replace \/ Lose \/ SetConsent \/ SetPause \/ CommandPurge \/ CommandObserve \/ CommandDies
         \/ \E h \in Hook : HookRead(h) \/ HookObserve(h)
         \/ \E d \in Drain \ {e} : DrainStart(d) \/ DrainStep(d) \/ Crash(d)
  PROVE  UNCHANGED <<groups, cursor, lock, arrived, journal, revoked, straddled>>
<1>1. ~ Free /\ \A d \in Drain \ {e} : drain[d].pc \notin Holding BY OneHolder
<1>2. CASE UNCHANGED vars BY <1>2 DEF vars, queue, ends
<1>3. CASE Write \/ Replace \/ Lose \/ SetConsent \/ SetPause \/ CommandObserve \/ CommandDies
  BY <1>1, <1>3 DEF Write, Replace, Lose, SetConsent, SetPause, CommandObserve, CommandDies, queue, ends
<1>4. CASE CommandPurge BY <1>1, <1>4 DEF CommandPurge, Purge, ends
<1>5. ASSUME NEW h \in Hook, HookRead(h) \/ HookObserve(h) PROVE UNCHANGED <<groups, cursor, lock, arrived, journal, revoked, straddled>>
  BY <1>1, <1>5 DEF HookRead, HookObserve, queue, ends
<1>6. ASSUME NEW d \in Drain \ {e}, DrainStart(d) \/ DrainStep(d) \/ Crash(d)
      PROVE  UNCHANGED <<groups, cursor, lock, arrived, journal, revoked, straddled>>
  <2>1. CASE DrainStart(d) \/ Crash(d) BY <2>1 DEF DrainStart, Crash, queue, ends
  <2>2. CASE DrainPurge(d) BY <1>1, <2>2 DEF DrainPurge, Purge, ends
  <2>3. CASE StageRequested(d) \/ DrainObserve(d) \/ Recheck(d)
    BY <1>1, <2>3 DEF StageRequested, DrainObserve, Recheck, queue, ends
  <2>4. CASE StageTake(d) BY <1>1, <2>4 DEF StageTake, ends
  <2>5. CASE Open(d) BY <1>1, <2>5 DEF Open, ends
  <2>6. ~ (Publish(d) \/ WriteCursor(d) \/ Mark(d) \/ CheckChunk(d) \/ Post(d) \/ Acknowledge(d) \/ RequestReset(d) \/ Close(d))
    BY <1>1 DEF Publish, WriteCursor, Mark, CheckChunk, Post, Acknowledge, RequestReset, Close, At, Holding
  <2> QED BY <1>6, <2>1, <2>2, <2>3, <2>4, <2>5, <2>6 DEF DrainStep
<1> QED BY <1>2, <1>3, <1>4, <1>5, <1>6

LEMMA HeldByOthers ==
  ASSUME Types, Locked, NEW e \in Drain, drain'[e] = drain[e],
         UNCHANGED <<groups, cursor, lock, arrived>> \/ drain[e].pc \notin Holding
  PROVE  Held(e)'
<1>1. Held(e) BY DEF Locked
<1>2. CASE drain[e].pc \notin Holding BY <1>2 DEF Held
<1>3. CASE UNCHANGED <<groups, cursor, lock, arrived>>
  BY <1>1, <1>3 DEF Held, Recovered, Pending, NextChunk, FirstPending
<1> QED BY <1>2, <1>3

LEMMA WhereDrainsGo ==
  ASSUME Types, NEW d \in Drain
  PROVE  /\ \A pc : To(d, pc) => drain'[d].pc = pc /\ drain'[d].plan = drain[d].plan
         /\ Look(d) => drain'[d].pc = "observe"
         /\ Idle(d) => drain'[d].pc = "idle"
         /\ Staged(d) => drain'[d].pc \in {"idle", "purge1"}
<1>1. drain \in [Drain -> DrainType] /\ drain[d] \in DrainType BY DEF Types
<1>2. ASSUME NEW pc, To(d, pc) PROVE drain'[d].pc = pc /\ drain'[d].plan = drain[d].plan
  <2> DEFINE r == [drain[d] EXCEPT !.pc = pc]
  <2>1. drain' = [drain EXCEPT ![d] = r] BY <1>1, <1>2 DEF To
  <2>2. r.pc = pc /\ r.plan = drain[d].plan BY <1>1 DEF DrainType
  <2> HIDE DEF r
  <2>3. drain'[d] = r BY <1>1, <2>1
  <2> QED BY <2>2, <2>3
<1>3. ASSUME Look(d) PROVE drain'[d].pc = "observe"
  <2> DEFINE r == [drain[d] EXCEPT !.pc = "observe", !.view = View]
  <2>1. drain' = [drain EXCEPT ![d] = r] BY <1>1, <1>3 DEF Look
  <2>2. r.pc = "observe" BY <1>1 DEF DrainType
  <2> HIDE DEF r
  <2>3. drain'[d] = r BY <1>1, <2>1
  <2> QED BY <2>2, <2>3
<1>4. ASSUME Idle(d) PROVE drain'[d].pc = "idle"
  <2>1. drain'[d] = [pc |-> "idle", again |-> FALSE, view |-> None, plan |-> None] BY <1>1, <1>4 DEF Idle
  <2> QED BY <2>1
<1>5. Staged(d) => drain'[d].pc \in {"idle", "purge1"} BY <1>2, <1>4 DEF Staged
<1> QED BY <1>2, <1>3, <1>4, <1>5

\* A step of a drain moves no other one.
LEMMA OthersStay ==
  ASSUME Types, NEW d \in Drain, DrainStart(d) \/ DrainStep(d) \/ Crash(d)
  PROVE  \A e \in Drain \ {d} : drain'[e] = drain[e]
<1>1. drain \in [Drain -> DrainType] BY DEF Types
<1>2. \A pc : To(d, pc) => \A e \in Drain \ {d} : drain'[e] = drain[e] BY <1>1 DEF To
<1>3. Look(d) => \A e \in Drain \ {d} : drain'[e] = drain[e] BY <1>1 DEF Look
<1>4. Idle(d) => \A e \in Drain \ {d} : drain'[e] = drain[e] BY <1>1 DEF Idle
<1>5. Staged(d) => \A e \in Drain \ {d} : drain'[e] = drain[e] BY <1>2, <1>4 DEF Staged
<1>6. CASE DrainStart(d) \/ Crash(d) BY <1>6, <1>2 DEF DrainStart, Crash
<1>7. CASE DrainPurge(d) BY <1>7, <1>2 DEF DrainPurge
<1>8. CASE StageRequested(d) BY <1>8, <1>2, <1>3, <1>4 DEF StageRequested
<1>9. CASE DrainObserve(d)
  <2>1. \/ drain' = [drain EXCEPT ![d].pc = "take", ![d].view = journal']
        \/ Staged(d)
    BY <1>9 DEF DrainObserve
  <2> QED BY <1>1, <1>5, <2>1
<1>10. CASE StageTake(d)
  <2>1. \/ \E p : drain' = [drain EXCEPT ![d].pc = "publish", ![d].plan = p]
        \/ Staged(d)
    BY <1>10 DEF StageTake
  <2> QED BY <1>1, <1>5, <2>1
<1>11. CASE Publish(d) BY <1>11, <1>2, <1>5 DEF Publish
<1>12. CASE WriteCursor(d) \/ CheckChunk(d) \/ Acknowledge(d) \/ RequestReset(d)
  BY <1>12, <1>2 DEF WriteCursor, CheckChunk, Acknowledge, RequestReset
<1>13. CASE Mark(d) BY <1>13, <1>2, <1>3 DEF Mark
<1>14. CASE Open(d) BY <1>14, <1>2, <1>4 DEF Open
<1>15. CASE Post(d) BY <1>15, <1>2 DEF Post
<1>16. CASE Close(d) BY <1>16, <1>2, <1>4 DEF Close
<1>17. CASE Recheck(d)
  <2>1. \/ drain' = [drain EXCEPT ![d] = [pc |-> "observe", again |-> TRUE, view |-> View, plan |-> None]]
        \/ Idle(d)
    BY <1>17 DEF Recheck
  <2> QED BY <1>1, <1>4, <2>1
<1> QED BY <1>6, <1>7, <1>8, <1>9, <1>10, <1>11, <1>12, <1>13, <1>14, <1>15, <1>16, <1>17 DEF DrainStep

\* A drain holds what it has come to hold.
LEMMA HeldByItself ==
  ASSUME Types, Types', Locked, Numbered, Planned, NEW d \in Drain, DrainStart(d) \/ DrainStep(d) \/ Crash(d)
  PROVE  Held(d)'
<1>0. drain \in [Drain -> DrainType] /\ drain[d] \in DrainType BY DEF Types
<1>1. CASE DrainStart(d) BY <1>1, WhereDrainsGo DEF DrainStart, Held, Holding
<1>2. CASE Crash(d) BY <1>2, WhereDrainsGo DEF Crash, Held, Holding
<1>3. CASE DrainPurge(d)
  <2>1. drain'[d].pc \in {"stage", "open", "recheck"} BY <1>3, WhereDrainsGo DEF DrainPurge
  <2> QED BY <2>1 DEF Held, Holding
<1>4. CASE StageRequested(d)
  <2>1. drain'[d].pc \in {"idle", "observe", "purge1"} BY <1>4, WhereDrainsGo DEF StageRequested
  <2> QED BY <2>1 DEF Held, Holding
<1>5. CASE DrainObserve(d)
  <2>1. CASE Free
    <3> DEFINE r == [drain[d] EXCEPT !.pc = "take", !.view = journal']
    <3>1. drain' = [drain EXCEPT ![d] = r] BY <1>0, <1>5, <2>1 DEF DrainObserve
    <3>2. r.pc = "take" BY <1>0 DEF DrainType
    <3> HIDE DEF r
    <3>3. drain'[d].pc = "take" BY <1>0, <3>1, <3>2
    <3> QED BY <3>3 DEF Held, Holding
  <2>2. CASE ~ Free
    <3>1. drain'[d].pc \in {"idle", "purge1"} BY <1>5, <2>2, WhereDrainsGo DEF DrainObserve
    <3> QED BY <3>1 DEF Held, Holding
  <2> QED BY <2>1, <2>2
<1>6. CASE StageTake(d)
  <2>1. \/ Staged(d)
        \/ /\ cursor' = Recovered /\ groups' = Marked /\ lock' = d
           /\ \E p : drain' = [drain EXCEPT ![d].pc = "publish", ![d].plan = p]
    BY <1>6 DEF StageTake
  <2>2. CASE Staged(d)
    <3>1. drain'[d].pc \in {"idle", "purge1"} BY <2>2, WhereDrainsGo
    <3> QED BY <3>1 DEF Held, Holding
  <2>3. CASE /\ cursor' = Recovered /\ groups' = Marked /\ lock' = d
             /\ \E p : drain' = [drain EXCEPT ![d].pc = "publish", ![d].plan = p]
    <3>1. PICK p : drain' = [drain EXCEPT ![d].pc = "publish", ![d].plan = p] BY <2>3
    <3> DEFINE r == [drain[d] EXCEPT !.pc = "publish", !.plan = p]
    <3>2. drain' = [drain EXCEPT ![d] = r] BY <1>0, <3>1
    <3>3. r.pc = "publish" BY <1>0 DEF DrainType
    <3> HIDE DEF r
    <3>4. drain'[d].pc = "publish" BY <1>0, <3>2, <3>3
    <3>5. Tidied BY <1>6, <2>3, MarkingTidies DEF StageTake, Tidied, ends
    <3>6. cursor' = Recovered' BY <2>3, <3>5, RecoveredMoves
    <3> QED BY <2>3, <3>4, <3>6 DEF Held
  <2> QED BY <2>1, <2>2, <2>3
<1>7. CASE Publish(d)
  <2>1. CASE Authorized(drain[d].plan)
    <3>1. /\ drain[d].pc = "publish" /\ Adds(drain[d].plan) /\ cursor' = cursor /\ lock' = lock /\ To(d, "cursor")
      BY <1>7, <2>1 DEF Publish, At, Adds
    <3>2. drain[d].plan \in PlanType /\ PlanStands(drain[d].plan) BY <3>1 DEF Types, DrainOK, Planned
    <3>3. lock = d /\ cursor = Recovered BY <3>1 DEF Locked, Held, Holding
    <3>4. Recovered' = drain[d].plan.next BY <3>1, <3>2, <3>3, RecoveredMoves
    <3>5. drain'[d].pc = "cursor" /\ drain'[d].plan = drain[d].plan BY <3>1, WhereDrainsGo
    <3> QED BY <3>1, <3>3, <3>4, <3>5 DEF Held
  <2>2. CASE ~ Authorized(drain[d].plan)
    <3>1. drain'[d].pc \in {"idle", "purge1"} BY <1>7, <2>2, WhereDrainsGo DEF Publish
    <3> QED BY <3>1 DEF Held, Holding
  <2> QED BY <2>1, <2>2
<1>8. CASE WriteCursor(d)
  <2>1. drain[d].pc = "cursor" /\ cursor' = drain[d].plan.next /\ groups' = groups /\ lock' = lock /\ To(d, "mark")
    BY <1>8 DEF WriteCursor, At
  <2>2. lock = d /\ Recovered = drain[d].plan.next BY <2>1 DEF Locked, Held, Holding
  <2>3. Tidied BY <1>8, <2>1, <2>2, MarkingTidies DEF WriteCursor, Tidied, ends
  <2>4. cursor' = Recovered' BY <2>3, RecoveredMoves
  <2>5. drain'[d].pc = "mark" BY <2>1, WhereDrainsGo
  <2> QED BY <2>1, <2>2, <2>4, <2>5 DEF Held
<1>9. CASE Mark(d)
  <2>1. drain'[d].pc \in {"open", "observe"} BY <1>9, WhereDrainsGo DEF Mark
  <2> QED BY <2>1 DEF Held, Holding
<1>10. CASE Open(d)
  <2>1. CASE Free
    <3>1. lock' = d /\ cursor' = Recovered /\ groups' = Marked /\ To(d, "next") BY <1>10, <2>1 DEF Open
    <3>2. Tidied BY <1>10, <3>1, MarkingTidies DEF Open, Tidied, ends
    <3>3. cursor' = Recovered' BY <3>2, RecoveredMoves
    <3>4. drain'[d].pc = "next" BY <3>1, WhereDrainsGo
    <3> QED BY <3>1, <3>3, <3>4 DEF Held
  <2>2. CASE ~ Free
    <3>1. drain'[d].pc \in {"idle", "purge2"} BY <1>10, <2>2, WhereDrainsGo DEF Open
    <3> QED BY <3>1 DEF Held, Holding
  <2> QED BY <2>1, <2>2
<1>11. CASE CheckChunk(d)
  <2>1. drain[d].pc = "next" /\ groups' = groups /\ cursor' = cursor /\ lock' = lock BY <1>11 DEF CheckChunk, At, queue
  <2>2. lock = d /\ cursor = Recovered BY <2>1 DEF Locked, Held, Holding
  <2>3. drain'[d].pc = "close" \/ (drain'[d].pc = "post" /\ Pending # {}) BY <1>11, WhereDrainsGo DEF CheckChunk
  <2>4. Recovered' = Recovered /\ Pending' = Pending BY <2>1 DEF Recovered, Pending
  <2> QED BY <2>1, <2>2, <2>3, <2>4 DEF Held
<1>12. CASE Post(d)
  <2>1. drain[d].pc = "post" /\ groups' = groups /\ cursor' = cursor /\ lock' = lock BY <1>12 DEF Post, At, queue
  <2>2. lock = d /\ cursor = Recovered /\ Pending # {} BY <2>1 DEF Locked, Held, Holding
  <2>3. \/ drain'[d].pc \in {"close", "reset"}
        \/ drain'[d].pc = "ack" /\ NextChunk \in arrived'
    BY <1>12, WhereDrainsGo DEF Post
  <2>4. Recovered' = Recovered /\ Pending' = Pending /\ NextChunk' = NextChunk
    BY <2>1 DEF Recovered, Pending, NextChunk, FirstPending
  <2> QED BY <2>1, <2>2, <2>3, <2>4 DEF Held
<1>13. CASE Acknowledge(d)
  <2>1. drain[d].pc = "ack" /\ cursor' = cursor /\ lock' = lock /\ To(d, "next") BY <1>13 DEF Acknowledge, At
  <2>2. lock = d /\ cursor = Recovered BY <2>1 DEF Locked, Held, Holding
  <2>3. Acknowledged BY <1>13 DEF Acknowledge, At, Acknowledged, ends
  <2>4. Recovered' = Recovered BY <2>3, RecoveredMoves
  <2>5. drain'[d].pc = "next" BY <2>1, WhereDrainsGo
  <2> QED BY <2>1, <2>2, <2>4, <2>5 DEF Held
<1>14. CASE RequestReset(d)
  <2>1. drain[d].pc = "reset" /\ groups' = groups /\ cursor' = cursor /\ lock' = lock /\ To(d, "close")
    BY <1>14 DEF RequestReset, At
  <2>2. lock = d /\ cursor = Recovered BY <2>1 DEF Locked, Held, Holding
  <2>3. Recovered' = Recovered BY <2>1 DEF Recovered
  <2>4. drain'[d].pc = "close" BY <2>1, WhereDrainsGo
  <2> QED BY <2>1, <2>2, <2>3, <2>4 DEF Held
<1>15. CASE Close(d)
  <2>1. drain'[d].pc \in {"idle", "purge2"} BY <1>15, WhereDrainsGo DEF Close
  <2> QED BY <2>1 DEF Held, Holding
<1>16. CASE Recheck(d)
  <2>1. drain'[d].pc \in {"observe", "idle"}
    <3>1. \/ drain' = [drain EXCEPT ![d] = [pc |-> "observe", again |-> TRUE, view |-> View, plan |-> None]]
          \/ Idle(d)
      BY <1>16 DEF Recheck
    <3>2. CASE Idle(d) BY <3>2, WhereDrainsGo
    <3>3. CASE drain' = [drain EXCEPT ![d] = [pc |-> "observe", again |-> TRUE, view |-> View, plan |-> None]]
      <4>1. drain'[d] = [pc |-> "observe", again |-> TRUE, view |-> View, plan |-> None] BY <1>0, <3>3
      <4> QED BY <4>1
    <3> QED BY <3>1, <3>2, <3>3
  <2> QED BY <2>1 DEF Held, Holding
<1> QED BY <1>1, <1>2, <1>3, <1>4, <1>5, <1>6, <1>7, <1>8, <1>9, <1>10, <1>11, <1>12, <1>13, <1>14, <1>15, <1>16
        DEF DrainStep

LEMMA LockedKept ==
  ASSUME Types, Types', Locked, Numbered, Planned, [Next]_vars
  PROVE  Locked'
<1> SUFFICES ASSUME NEW e \in Drain PROVE Held(e)' BY DEF Locked
<1>1. CASE \/ UNCHANGED vars
           \/ Write \/ Replace \/ Lose \/ SetConsent \/ SetPause \/ CommandPurge \/ CommandObserve \/ CommandDies
           \/ \E h \in Hook : HookRead(h) \/ HookObserve(h)
  <2>1. drain' = drain
    BY <1>1 DEF vars, Write, Replace, Lose, SetConsent, SetPause, CommandPurge, CommandObserve, CommandDies,
                HookRead, HookObserve
  <2>2. drain[e].pc \in Holding => UNCHANGED <<groups, cursor, lock, arrived>> BY <1>1, HolderAlone
  <2>3. drain'[e] = drain[e] BY <2>1
  <2> QED BY <2>2, <2>3, HeldByOthers
<1>2. ASSUME NEW d \in Drain, DrainStart(d) \/ DrainStep(d) \/ Crash(d) PROVE Held(e)'
  <2>1. CASE e = d BY <1>2, <2>1, HeldByItself
  <2>2. CASE e # d
    <3>1. drain'[e] = drain[e] BY <1>2, <2>2, OthersStay
    <3>2. d \in Drain \ {e} BY <2>2
    <3>3. drain[e].pc \in Holding => UNCHANGED <<groups, cursor, lock, arrived>> BY <1>2, <3>2, HolderAlone
    <3> QED BY <3>1, <3>3, HeldByOthers
  <2> QED BY <2>1, <2>2
<1> QED BY <1>1, <1>2 DEF Next

-----------------------------------------------------------------------------
(* Records and consent.                                                      *)

\* The truth changes by the user's hand only, and then nothing else does.
LEMMA TruthSteps ==
  ASSUME [Next]_vars
  PROVE  \/ UNCHANGED truth
         \/ (Write \/ Replace \/ SetConsent \/ SetPause) /\ UNCHANGED <<queue, revoked, ends, straddled>>
<1>1. CASE UNCHANGED vars BY <1>1 DEF vars
<1>2. CASE Write \/ Replace \/ SetConsent \/ SetPause BY <1>2 DEF Write, Replace, SetConsent, SetPause
<1>3. CASE Lose \/ CommandObserve \/ CommandDies \/ CommandPurge
  BY <1>3 DEF Lose, CommandObserve, CommandDies, CommandPurge
<1>4. ASSUME NEW h \in Hook, HookRead(h) \/ HookObserve(h) PROVE UNCHANGED truth
  BY <1>4 DEF HookRead, HookObserve
<1>5. ASSUME NEW d \in Drain, DrainStart(d) \/ DrainStep(d) \/ Crash(d) PROVE UNCHANGED truth
  <2>1. CASE DrainStart(d) \/ Crash(d) \/ DrainPurge(d) \/ StageRequested(d) \/ DrainObserve(d)
    BY <2>1 DEF DrainStart, Crash, DrainPurge, StageRequested, DrainObserve
  <2>2. CASE StageTake(d) \/ Publish(d) \/ WriteCursor(d) \/ Mark(d) \/ Open(d)
    BY <2>2 DEF StageTake, Publish, WriteCursor, Mark, Open
  <2>3. CASE CheckChunk(d) \/ Post(d) \/ Acknowledge(d) \/ RequestReset(d) \/ Close(d) \/ Recheck(d)
    BY <2>3 DEF CheckChunk, Post, Acknowledge, RequestReset, Close, Recheck
  <2> QED BY <1>5, <2>1, <2>2, <2>3 DEF DrainStep
<1> QED BY <1>1, <1>2, <1>3, <1>4, <1>5 DEF Next

LEMMA RecordsLeft ==
  ASSUME Types, [Next]_vars
  PROVE  Write \/ left'["records"] = left["records"]
<1>0. /\ "replaced" \in Bounds /\ "consents" \in Bounds /\ "pauses" \in Bounds /\ "hooks" \in Bounds
      /\ "drains" \in Bounds /\ "crashes" \in Bounds /\ "losses" \in Bounds /\ "unanswered" \in Bounds
  BY DEF Bounds
<1>1. \A k \in Bounds : k # "records" /\ Spend(k) => left'["records"] = left["records"] BY SpendTyped
<1>2. CASE UNCHANGED vars BY <1>2 DEF vars
<1>3. CASE Replace \/ SetConsent \/ SetPause \/ Lose \/ CommandDies
  BY <1>0, <1>1, <1>3 DEF Replace, SetConsent, SetPause, Lose, CommandDies
<1>4. CASE CommandObserve \/ CommandPurge BY <1>4 DEF CommandObserve, CommandPurge
<1>5. ASSUME NEW h \in Hook, HookRead(h) \/ HookObserve(h) PROVE left'["records"] = left["records"]
  BY <1>0, <1>1, <1>5 DEF HookRead, HookObserve
<1>6. ASSUME NEW d \in Drain, DrainStart(d) \/ DrainStep(d) \/ Crash(d) PROVE left'["records"] = left["records"]
  <2>1. CASE DrainStart(d) \/ Crash(d) BY <1>0, <1>1, <2>1 DEF DrainStart, Crash
  <2>2. CASE Post(d) BY <1>0, <1>1, <2>2 DEF Post
  <2>3. CASE DrainPurge(d) \/ StageRequested(d) \/ DrainObserve(d) \/ StageTake(d) \/ Publish(d) \/ WriteCursor(d)
    BY <2>3 DEF DrainPurge, StageRequested, DrainObserve, StageTake, Publish, WriteCursor
  <2>4. CASE Mark(d) \/ Open(d) \/ CheckChunk(d) \/ Acknowledge(d) \/ RequestReset(d) \/ Close(d) \/ Recheck(d)
    BY <2>4 DEF Mark, Open, CheckChunk, Acknowledge, RequestReset, Close, Recheck
  <2> QED BY <1>6, <2>1, <2>2, <2>3, <2>4 DEF DrainStep
<1> QED BY <1>2, <1>3, <1>4, <1>5, <1>6 DEF Next

\* What Codex and a restored copy make of the source.
LEMMA SourceMoves ==
  ASSUME Types
  PROVE  /\ Write => /\ src'.id = src.id /\ Len(src'.recs) = Len(src.recs) + 1 /\ Len(src.recs) \in Nat
                     /\ DOMAIN src.recs = 1 .. Len(src.recs) /\ DOMAIN src'.recs = 1 .. Len(src.recs) + 1
                     /\ \A i \in 1 .. Len(src.recs) : src'.recs[i] = src.recs[i]
                     /\ src'.recs[Len(src.recs) + 1] = left["records"]
         /\ Replace => /\ src'.id = src.id + 1
                       /\ \A i \in DOMAIN src'.recs : i \in DOMAIN src.recs /\ src'.recs[i] = src.recs[i]
<1> DEFINE s == src.recs
<1>1. src \in [id : Nat, recs : Seq(Nat)] /\ s \in Seq(Nat) /\ left["records"] \in Nat BY DEF Types
<1>2. ASSUME Write
      PROVE  /\ src'.id = src.id /\ Len(src'.recs) = Len(s) + 1 /\ Len(s) \in Nat
             /\ DOMAIN s = 1 .. Len(s) /\ DOMAIN src'.recs = 1 .. Len(s) + 1
             /\ \A i \in 1 .. Len(s) : src'.recs[i] = s[i]
             /\ src'.recs[Len(s) + 1] = left["records"]
  <2>1. src' = [src EXCEPT !.recs = Append(@, left["records"])] BY <1>2 DEF Write
  <2>2. src'.id = src.id /\ src'.recs = Append(s, left["records"]) BY <1>1, <2>1
  <2> HIDE DEF s
  <2> QED BY <1>1, <2>2
<1>3. ASSUME Replace
      PROVE  /\ src'.id = src.id + 1
             /\ \A i \in DOMAIN src'.recs : i \in DOMAIN s /\ src'.recs[i] = s[i]
  <2>1. PICK k \in 0 .. Len(s) : src' = [id |-> src.id + 1, recs |-> SubSeq(s, 1, k)] BY <1>3 DEF Replace
  <2>2. src'.id = src.id + 1 /\ src'.recs = SubSeq(s, 1, k) BY <2>1
  <2> HIDE DEF s
  <2>3. k \in Nat /\ k <= Len(s) /\ DOMAIN s = 1 .. Len(s) /\ Len(s) \in Nat BY <1>1, <2>1, SMT
  <2>4. \A i \in 1 .. k : i \in 1 .. Len(s) BY <2>3, SMT
  <2>5. DOMAIN SubSeq(s, 1, k) = 1 .. k /\ \A i \in 1 .. k : SubSeq(s, 1, k)[i] = s[i]
    BY <1>1, <2>3, <2>4, SMT
  <2> QED BY <2>2, <2>3, <2>4, <2>5
<1> QED BY <1>2, <1>3

LEMMA FreshKept ==
  ASSUME Types, Types', Fresh, [Next]_vars
  PROVE  Fresh'
<1>1. src.recs \in Seq(Nat) /\ left["records"] \in Nat /\ \A i \in DOMAIN src.recs : src.recs[i] \in Nat
  <2>1. src.recs \in Seq(Nat) /\ left["records"] \in Nat BY DEF Types
  <2>2. DOMAIN src.recs = 1 .. Len(src.recs) BY <2>1
  <2> QED BY <2>1, <2>2, ElementOfSeq
<1>2. CASE Write
  <2> DEFINE n == Len(src.recs)
             l == left["records"]
  <2>1. /\ DOMAIN src.recs = 1 .. n /\ DOMAIN src'.recs = 1 .. n + 1 /\ n \in Nat
        /\ \A i \in 1 .. n : src'.recs[i] = src.recs[i]
        /\ src'.recs[n + 1] = l
    BY <1>2, SourceMoves
  <2>2. left'["records"] \in Nat /\ l \in Nat /\ left'["records"] = l - 1
    <3>1. Spend("records") /\ "records" \in Bounds BY <1>2 DEF Write, Bounds
    <3> QED BY <3>1, SpendTyped
  <2>3. \A i \in 1 .. n : src.recs[i] > l /\ src.recs[i] \in Nat BY <1>1, <2>1 DEF Fresh
  <2>6. \A i, k \in 1 .. n : src.recs[i] = src.recs[k] => i = k BY <2>1 DEF Fresh
  <2> HIDE DEF n, l
  <2>4. ASSUME NEW i \in 1 .. n + 1 PROVE src'.recs[i] > left'["records"]
    <3>1. i \in 1 .. n \/ i = n + 1 BY <2>1, SMT
    <3>2. CASE i \in 1 .. n
      <4>1. src.recs[i] > l /\ src.recs[i] \in Nat BY <2>3, <3>2
      <4>2. src.recs[i] > left'["records"] BY <2>2, <4>1, SMT
      <4> QED BY <2>1, <3>2, <4>2
    <3>3. CASE i = n + 1
      <4>1. l > left'["records"] BY <2>2, SMT
      <4> QED BY <2>1, <3>3, <4>1
    <3> QED BY <3>1, <3>2, <3>3
  <2>5. ASSUME NEW i \in 1 .. n + 1, NEW k \in 1 .. n + 1, src'.recs[i] = src'.recs[k] PROVE i = k
    <3>1. (i \in 1 .. n \/ i = n + 1) /\ (k \in 1 .. n \/ k = n + 1) BY <2>1, SMT
    <3>2. \A m \in 1 .. n : src'.recs[m] # src'.recs[n + 1]
      <4> SUFFICES ASSUME NEW m \in 1 .. n PROVE src'.recs[m] # src'.recs[n + 1] OBVIOUS
      <4>1. src.recs[m] > l /\ src.recs[m] \in Nat BY <2>3
      <4>2. src.recs[m] # l BY <2>2, <4>1, SMT
      <4> QED BY <2>1, <4>2
    <3> QED BY <2>1, <2>5, <2>6, <3>1, <3>2
  <2> QED BY <2>1, <2>4, <2>5 DEF Fresh
<1>3. CASE Replace
  <2>1. left'["records"] = left["records"]
    <3>1. Spend("replaced") /\ "replaced" \in Bounds BY <1>3 DEF Replace, Bounds
    <3> QED BY <3>1, SpendTyped
  <2> QED BY <1>3, <2>1, SourceMoves DEF Fresh
<1>4. CASE ~ Write /\ src' = src BY <1>4, RecordsLeft DEF Fresh
<1>5. Write \/ Replace \/ src' = src
  BY TruthSteps DEF truth, SetConsent, SetPause
<1> QED BY <1>2, <1>3, <1>4, <1>5

LEMMA ConsentedGrows ==
  ASSUME Types, [Next]_vars
  PROVE  consented \subseteq consented'
BY TruthSteps DEF truth, Write, Replace, SetConsent, SetPause

\* A plan that is made from what is in force stands.
LEMMA PlanStandsWhenMade ==
  ASSUME Types, Fresh, Generations, Covering, Consented, Stageable(journal, Recovered)
  PROVE  PlanStands(Plan(journal, Recovered))
<1> DEFINE c == journal
           r == Recovered
           p == Plan(journal, Recovered)
           n == p.next
           from == From(c, r)
           to == End(c, r)
<1>1. /\ c # None /\ c.id = src.id /\ ~ Rewritten(c, r) /\ p.lines # << >> /\ r \in Cursor \cup {None}
  BY RecoveryTyped DEF Stageable
<1>2. PlanShape(p, r) BY <1>1, PlanMade
<1> HIDE DEF p
<1>3. /\ p \in PlanType
      /\ from \in Nat /\ to \in Nat /\ from <= to /\ to <= Len(src.recs) /\ to <= c.observed
      /\ n.offset = to /\ n.epoch = c.epoch /\ n.token = repo.token /\ n.id = src.id
      /\ n.gen = (IF r = None THEN 1 ELSE IF Resets(c, r) THEN r.gen + 1 ELSE r.gen)
      /\ n.baseline = NextBaseline(r, Resets(c, r))
      /\ LastSeq(r) \in Nat /\ LastSeq(r) < n.seq
      /\ DOMAIN n.prefix = 1 .. to
      /\ \A i \in 1 .. to : i \in DOMAIN src.recs /\ n.prefix[i] = src.recs[i]
  BY <1>2 DEF PlanShape
<1>4. \A m \in DOMAIN p.lines :
         /\ p.lines[m].seq = LastSeq(r) + m /\ m \in Nat /\ 1 <= m
         /\ p.lines[m].seq <= n.seq
         /\ p.lines[m].line.gen = n.gen
         /\ p.lines[m].line.at \in from + 1 .. to
         /\ p.lines[m].line.at \notin c.excluded
         /\ p.lines[m].line.rec = src.recs[p.lines[m].line.at]
  BY <1>2 DEF PlanShape
<1>5. \A i \in from + 1 .. to :
         i \in c.excluded \/ \E m \in DOMAIN p.lines :
                               p.lines[m].line = [gen |-> n.gen, at |-> i, rec |-> src.recs[i]]
  BY <1>2 DEF PlanShape
<1>6. /\ r # None => /\ r \in Cursor /\ r.seq \in Nat /\ r.baseline \in Nat /\ r.gen \in Nat /\ r.offset \in Nat
                     /\ r.baseline <= r.seq
                     /\ DOMAIN r.prefix = 1 .. r.offset
      /\ n \in Cursor /\ n.seq \in Nat /\ n.baseline \in Nat
  BY <1>1, <1>3 DEF Cursor, Generations, PlanType
<1>7. ASSUME ~ Resets(c, r)
      PROVE  /\ r # None /\ r.epoch = c.epoch /\ r.token = repo.token /\ from = r.offset
             /\ \A i \in 1 .. r.offset : r.prefix[i] = src.recs[i] /\ i \in 1 .. to
  <2>1. r # None /\ r.epoch = c.epoch /\ r.token = repo.token BY <1>7 DEF Resets
  <2>2. from = r.offset BY <1>7 DEF From
  <2>3. ~ (r.offset > Len(src.recs)) /\ SubSeq(src.recs, 1, r.offset) = r.prefix BY <1>1, <2>1 DEF Rewritten
  <2> DEFINE k == r.offset
             s == src.recs
  <2>4. k \in Nat /\ k <= to /\ k <= Len(s) /\ s \in Seq(Nat) /\ DOMAIN s = 1 .. Len(s) /\ Len(s) \in Nat
    <3>1. s \in Seq(Nat) /\ k \in Nat /\ k <= to BY <1>3, <1>6, <2>1, <2>2 DEF Types
    <3> HIDE DEF k, s
    <3>2. ~ (k > Len(s)) BY <2>3 DEF k, s
    <3>3. Len(s) \in Nat /\ DOMAIN s = 1 .. Len(s) BY <3>1
    <3> QED BY <3>1, <3>2, <3>3, SMT
  <2> HIDE DEF k, s, from, to
  <2>5. \A i \in 1 .. k : i \in 1 .. to /\ i \in 1 .. Len(s) BY <1>3, <2>4, SMT
  <2>6. \A i \in 1 .. k : SubSeq(s, 1, k)[i] = s[i] BY <2>4, <2>5, SMT
  <2> QED BY <2>1, <2>2, <2>3, <2>5, <2>6 DEF k, s
<1>8. \A i \in 1 .. to : i \in from + 1 .. to \/ i \in 1 .. from
  <2> HIDE DEF from, to
  <2> QED BY <1>3, SMT
<1>9. \A i \in from + 1 .. to : i \in 1 .. to
  <2> HIDE DEF from, to
  <2> QED BY <1>3, SMT
<1>10. Continues(n, r)
  <2>1. CASE r = None
    <3>1. Resets(c, r) /\ LastSeq(r) = 0 BY <2>1 DEF Resets, LastSeq
    <3>2. n.baseline = 0 + 1 BY <1>3, <3>1 DEF NextBaseline
    <3> QED BY <1>3, <2>1, <3>2 DEF Continues
  <2>2. CASE r # None /\ Resets(c, r)
    <3>1. n.gen = r.gen + 1 /\ n.baseline = r.seq + 1 BY <1>3, <2>2 DEF NextBaseline, LastSeq
    <3> QED BY <2>2, <3>1 DEF Continues
  <2>3. CASE ~ Resets(c, r)
    <3>1. n.gen = r.gen /\ n.baseline = r.baseline /\ n.token = r.token BY <1>3, <1>7, <2>3 DEF NextBaseline
    <3>2. \A i \in 1 .. r.offset : n.prefix[i] = r.prefix[i] BY <1>3, <1>7, <2>3
    <3>3. r.offset <= n.offset BY <1>3, <1>7, <2>3
    <3> HIDE DEF n, r
    <3> QED BY <1>7, <2>3, <3>1, <3>2, <3>3 DEF Continues
  <2> QED BY <2>1, <2>2, <2>3
<1>11. n.baseline <= n.seq
  <2>1. CASE Resets(c, r)
    <3>1. n.baseline = LastSeq(r) + 1 BY <1>3, <2>1 DEF NextBaseline
    <3> QED BY <1>3, <1>6, <3>1, SMT
  <2>2. CASE ~ Resets(c, r)
    <3>1. n.baseline = r.baseline /\ r # None /\ LastSeq(r) = r.seq BY <1>3, <1>7, <2>2 DEF NextBaseline, LastSeq
    <3> QED BY <1>3, <1>6, <3>1, SMT
  <2> QED BY <2>1, <2>2
<1>12. \A i, k \in DOMAIN n.prefix : n.prefix[i] = n.prefix[k] => i = k
  BY <1>3 DEF Fresh
<1>13. \A m, k \in DOMAIN p.lines : m < k => p.lines[m].seq < p.lines[k].seq
  <2> SUFFICES ASSUME NEW m \in DOMAIN p.lines, NEW k \in DOMAIN p.lines, m < k
               PROVE  p.lines[m].seq < p.lines[k].seq
    OBVIOUS
  <2>1. p.lines[m].seq = LastSeq(r) + m /\ p.lines[k].seq = LastSeq(r) + k /\ m \in Nat /\ k \in Nat BY <1>4
  <2> QED BY <1>3, <2>1, SMT
<1>14. ASSUME NEW m \in DOMAIN p.lines
       PROVE  /\ LastSeq(r) < p.lines[m].seq /\ p.lines[m].seq <= n.seq
              /\ p.lines[m].line.gen = n.gen
              /\ p.lines[m].line.at \in DOMAIN n.prefix
              /\ p.lines[m].line.rec = n.prefix[p.lines[m].line.at]
  <2>1. p.lines[m].seq = LastSeq(r) + m /\ m \in Nat /\ 1 <= m BY <1>4
  <2>2. LastSeq(r) < p.lines[m].seq BY <1>3, <2>1, SMT
  <2>3. p.lines[m].line.at \in 1 .. to BY <1>4, <1>9
  <2> QED BY <1>3, <1>4, <2>2, <2>3
<1>15. Covers(n, Lines \cup PlanLines(p))
  <2> SUFFICES ASSUME n.token \notin revoked, NEW i \in 1 .. n.offset, i \notin c.excluded
               PROVE  [gen |-> n.gen, at |-> i, rec |-> n.prefix[i]] \in Lines \cup PlanLines(p)
    BY DEF Covers
  <2>0. i \in 1 .. to /\ n.prefix[i] = src.recs[i] BY <1>3
  <2>1. CASE i \in from + 1 .. to
    <3>1. PICK m \in DOMAIN p.lines : p.lines[m].line = [gen |-> n.gen, at |-> i, rec |-> src.recs[i]]
      BY <1>5, <2>1
    <3>2. p.lines[m].line \in PlanLines(p) BY DEF PlanLines
    <3> QED BY <2>0, <3>1, <3>2
  <2>2. CASE i \in 1 .. from
    <3>1. ~ Resets(c, r)
      <4> SUFFICES ASSUME Resets(c, r) PROVE FALSE OBVIOUS
      <4>1. i \in 1 .. 0 BY <2>2 DEF From
      <4> QED BY <4>1, SMT
    <3>2. /\ r # None /\ r.epoch = c.epoch /\ r.token = repo.token /\ from = r.offset
          /\ r.prefix[i] = src.recs[i]
      BY <1>7, <2>2, <3>1
    <3>3. r.token \notin revoked
      <4>1. repo.token \in Nat /\ revoked \subseteq 1 .. repo.token - 1 BY DEF Types
      <4>2. repo.token \notin 1 .. repo.token - 1 BY <4>1, SMT
      <4> QED BY <3>2, <4>1, <4>2
    <3>4. [gen |-> r.gen, at |-> i, rec |-> r.prefix[i]] \in Lines
      BY <2>2, <3>2, <3>3 DEF Covering, Covers
    <3>5. n.gen = r.gen BY <1>3, <3>1, <3>2
    <3> QED BY <2>0, <3>2, <3>4, <3>5
  <2> QED BY <1>8, <2>0, <2>1, <2>2
<1>16. ASSUME ~ straddled
       PROVE  Committed(n) /\ \A x \in PlanLines(p) : x.rec \in consented
  <2>1. \A i \in 1 .. c.observed : i \in c.excluded \/ src.recs[i] \in consented
    BY <1>1, <1>16 DEF Consented, Noted
  <2>2. \A i \in 1 .. to : i \in 1 .. c.observed
    <3>1. c.observed \in Nat BY <1>1 DEF Types, JournalOK, JournalType
    <3> HIDE DEF to, c
    <3> QED BY <1>3, <3>1, SMT
  <2>3. Committed(n) BY <1>3, <2>1, <2>2 DEF Committed
  <2>4. ASSUME NEW x \in PlanLines(p) PROVE x.rec \in consented
    <3>1. PICK m \in DOMAIN p.lines : x = p.lines[m].line BY DEF PlanLines
    <3>2. x.at \in 1 .. to /\ x.at \notin c.excluded /\ x.rec = src.recs[x.at] BY <1>4, <1>9, <3>1
    <3> QED BY <2>1, <2>2, <3>2
  <2> QED BY <2>3, <2>4
<1>17. journal # None /\ n.epoch <= journal.epoch
  <2>1. journal.epoch \in Nat BY <1>1 DEF Types, JournalOK, JournalType
  <2> QED BY <1>1, <1>3, <2>1, SMT
<1> HIDE DEF from, to
<1>18. PlanStands(p) BY <1>3, <1>10, <1>11, <1>12, <1>13, <1>14, <1>15, <1>16, <1>17 DEF PlanStands, PlanFits
<1> QED BY <1>18 DEF p

\* Plans are made where the lock is taken.
LEMMA PlansAreTaken ==
  ASSUME Types, NEW d \in Drain, DrainStart(d) \/ DrainStep(d) \/ Crash(d), drain'[d].pc = "publish"
  PROVE  /\ cursor' = Recovered /\ groups' = Marked
         /\ Stageable(journal, Recovered) /\ drain'[d].plan = Plan(journal, Recovered)
         /\ UNCHANGED <<journal, revoked, arrived, store, straddled, truth>>
<1>0. drain \in [Drain -> DrainType] /\ drain[d] \in DrainType BY DEF Types
<1>1. CASE DrainStart(d) \/ Crash(d) \/ DrainPurge(d) \/ StageRequested(d)
  BY <1>1, WhereDrainsGo DEF DrainStart, Crash, DrainPurge, StageRequested
<1>2. CASE DrainObserve(d)
  <2>1. CASE Free
    <3> DEFINE r == [drain[d] EXCEPT !.pc = "take", !.view = journal']
    <3>1. drain' = [drain EXCEPT ![d] = r] BY <1>0, <1>2, <2>1 DEF DrainObserve
    <3>2. r.pc = "take" BY <1>0 DEF DrainType
    <3> HIDE DEF r
    <3> QED BY <1>0, <3>1, <3>2
  <2>2. CASE ~ Free BY <1>2, <2>2, WhereDrainsGo DEF DrainObserve
  <2> QED BY <2>1, <2>2
<1>3. CASE StageTake(d)
  <2> DEFINE c == drain[d].view
  <2>1. \/ Staged(d)
        \/ /\ cursor' = Recovered /\ groups' = Marked /\ Stageable(c, Recovered)
           /\ drain' = [drain EXCEPT ![d].pc = "publish", ![d].plan = Plan(c, Recovered)]
    BY <1>3 DEF StageTake
  <2>2. ~ Staged(d) BY WhereDrainsGo
  <2>3. c = journal BY <2>1, <2>2 DEF Stageable
  <2> HIDE DEF c
  <2> DEFINE p == Plan(c, Recovered)
             r == [drain[d] EXCEPT !.pc = "publish", !.plan = p]
  <2> HIDE DEF p
  <2>4. drain' = [drain EXCEPT ![d] = r] BY <1>0, <2>1, <2>2 DEF p
  <2>5. r.plan = p BY <1>0 DEF DrainType
  <2> HIDE DEF r
  <2>6. drain'[d].plan = p BY <1>0, <2>4, <2>5
  <2>7. UNCHANGED <<journal, revoked, arrived, store, straddled, truth>> BY <1>3 DEF StageTake, ends
  <2> QED BY <2>1, <2>2, <2>3, <2>6, <2>7 DEF p
<1>4. CASE Publish(d) \/ WriteCursor(d) \/ Mark(d) \/ Open(d) \/ CheckChunk(d) \/ Post(d)
  BY <1>4, WhereDrainsGo DEF Publish, WriteCursor, Mark, Open, CheckChunk, Post
<1>5. CASE Acknowledge(d) \/ RequestReset(d) \/ Close(d)
  BY <1>5, WhereDrainsGo DEF Acknowledge, RequestReset, Close
<1>6. CASE Recheck(d)
  <2>1. CASE Idle(d) BY <2>1, WhereDrainsGo
  <2>2. CASE drain' = [drain EXCEPT ![d] = [pc |-> "observe", again |-> TRUE, view |-> View, plan |-> None]]
    <3>1. drain'[d] = [pc |-> "observe", again |-> TRUE, view |-> View, plan |-> None] BY <1>0, <2>2
    <3> QED BY <3>1
  <2> QED BY <1>6, <2>1, <2>2 DEF Recheck
<1> QED BY <1>1, <1>2, <1>3, <1>4, <1>5, <1>6 DEF DrainStep

LEMMA PlannedKept ==
  ASSUME Types, Types', Fresh, Locked, Numbered, ChunksNumbered, Generations, Covering, Consented, Planned, [Next]_vars
  PROVE  Planned'
<1> SUFFICES ASSUME NEW e \in Drain, drain'[e].pc = "publish" PROVE PlanStands(drain[e].plan)'
  BY DEF Planned
<1>0. consented \subseteq consented' BY ConsentedGrows
<1>1. ASSUME drain'[e] = drain[e],
             drain[e].pc \in Holding => UNCHANGED <<groups, cursor, lock, arrived, journal, revoked, straddled>>
      PROVE  PlanStands(drain[e].plan)'
  <2>1. drain[e].pc = "publish" BY <1>1
  <2>2. UNCHANGED <<groups, cursor, arrived, journal, revoked, straddled>> BY <1>1, <2>1 DEF Holding
  <2>3. Recovered' = Recovered /\ Lines' = Lines BY <2>2 DEF Recovered, Lines, Queued
  <2> DEFINE p == drain[e].plan
  <2>4. PlanStands(p) /\ drain'[e].plan = p BY <1>1, <2>1 DEF Planned
  <2>5. p' = p BY <1>1
  <2> HIDE DEF p
  <2>6. PlanFits(p, Recovered)' BY <2>3, <2>4, <2>5 DEF PlanStands
  <2>7. (journal # None /\ p.next.epoch <= journal.epoch)' BY <2>2, <2>4, <2>5 DEF PlanStands
  <2>8. Covers(p.next, Lines \cup PlanLines(p))'
    BY <2>2, <2>3, <2>4, <2>5 DEF PlanStands, PlanLines, Covers
  <2>9. (~ straddled => Committed(p.next) /\ \A x \in PlanLines(p) : x.rec \in consented)'
    BY <1>0, <2>2, <2>4, <2>5 DEF PlanStands, PlanLines, Committed
  <2>10. PlanStands(p)' BY <2>6, <2>7, <2>8, <2>9 DEF PlanStands
  <2> QED BY <2>10 DEF p
<1>2. CASE \/ UNCHANGED vars
           \/ Write \/ Replace \/ Lose \/ SetConsent \/ SetPause \/ CommandPurge \/ CommandObserve \/ CommandDies
           \/ \E h \in Hook : HookRead(h) \/ HookObserve(h)
  <2>1. drain' = drain
    BY <1>2 DEF vars, Write, Replace, Lose, SetConsent, SetPause, CommandPurge, CommandObserve, CommandDies,
                HookRead, HookObserve
  <2>2. drain[e].pc \in Holding => UNCHANGED <<groups, cursor, lock, arrived, journal, revoked, straddled>>
    BY <1>2, HolderAlone
  <2>3. drain'[e] = drain[e] BY <2>1
  <2> QED BY <1>1, <2>2, <2>3
<1>3. ASSUME NEW d \in Drain, DrainStart(d) \/ DrainStep(d) \/ Crash(d), d # e
      PROVE  PlanStands(drain[e].plan)'
  <2>1. drain'[e] = drain[e] BY <1>3, OthersStay
  <2>2. d \in Drain \ {e} BY <1>3
  <2>3. drain[e].pc \in Holding => UNCHANGED <<groups, cursor, lock, arrived, journal, revoked, straddled>>
    BY <1>3, <2>2, HolderAlone
  <2> QED BY <1>1, <2>1, <2>3
<1>4. CASE DrainStart(e) \/ DrainStep(e) \/ Crash(e)
  <2> DEFINE p == Plan(journal, Recovered)
  <2>1. /\ cursor' = Recovered /\ groups' = Marked
        /\ Stageable(journal, Recovered) /\ drain'[e].plan = p
        /\ UNCHANGED <<journal, revoked, arrived, store, straddled, truth>>
    BY <1>4, PlansAreTaken
  <2>2. PlanStands(p) BY <2>1, PlanStandsWhenMade
  <2>3. Tidied BY <2>1, MarkingTidies DEF Tidied
  <2>4. Recovered' = Recovered BY <2>3, RecoveredMoves
  <2>5. Lines' = Lines
    <3>1. DOMAIN groups' = DOMAIN groups /\ \A k \in DOMAIN groups : groups'[k].lines = groups[k].lines
      BY <2>1, MarkedTyped
    <3>2. Queued' = Queued BY <3>1 DEF Queued
    <3> QED BY <2>1, <3>2 DEF Lines
  <2> HIDE DEF p
  <2> DEFINE q == drain[e].plan
  <2>6. q' = p BY <2>1
  <2> HIDE DEF q
  <2>7. PlanFits(q, Recovered)' BY <2>2, <2>4, <2>6 DEF PlanStands
  <2>8. (journal # None /\ q.next.epoch <= journal.epoch)' BY <2>1, <2>2, <2>6 DEF PlanStands
  <2>9. Covers(q.next, Lines \cup PlanLines(q))'
    BY <2>1, <2>2, <2>5, <2>6 DEF PlanStands, PlanLines, Covers
  <2>10. (~ straddled => Committed(q.next) /\ \A x \in PlanLines(q) : x.rec \in consented)'
    BY <1>0, <2>1, <2>2, <2>6 DEF PlanStands, PlanLines, Committed
  <2>11. PlanStands(q)' BY <2>7, <2>8, <2>9, <2>10 DEF PlanStands
  <2> QED BY <2>11 DEF q
<1> QED BY <1>2, <1>3, <1>4 DEF Next

\* An observation under the consent of the moment notes what was written under it.
LEMMA NotedByObservation ==
  ASSUME Types, Generations, Noted, cursor # None => Committed(cursor), UNCHANGED truth, NEW verify \in BOOLEAN,
         journal' = Observed(View, verify)
  PROVE  Noted'
<1> DEFINE n == Len(src.recs)
           moved == journal # None /\ journal.id # src.id /\ View.on /\ journal.on /\ SameStamp(View)
           kept  == journal # None /\ journal.token = View.token /\ Len(src.recs) >= journal.observed
                     /\ (journal.id = src.id \/ (moved /\ Proven))
           k == [journal EXCEPT !.id = src.id, !.observed = n,
                   !.excluded = @ \cup Interval(View), !.on = View.on, !.boundary = View.boundary]
           new == 1 .. n
<1>1. /\ src' = src /\ consented' = consented /\ repo' = repo /\ pause' = pause
      /\ View.on = Allowed /\ View.token = repo.token /\ View.boundary = pause.boundary
      /\ src.id \in Nat /\ repo.token \in Nat /\ pause.boundary \in Nat
      /\ src.recs \in Seq(Nat) /\ n \in Nat /\ DOMAIN src.recs = 1 .. n
  BY DEF truth, View, Types
<1>2. Allowed' = Allowed BY <1>1 DEF Allowed
<1>3. journal' = IF moved /\ ~ verify THEN journal ELSE IF ~ kept THEN FreshJournal(View) ELSE k
  BY DEF Observed
<1>4. src.id <= src.id /\ repo.token <= repo.token /\ pause.boundary <= pause.boundary /\ n <= n BY <1>1, SMT
<1>5. \A i \in 1 .. n : ~ (i > n) BY <1>1, SMT
<1>6. CASE journal' = journal BY <1>1, <1>2, <1>6 DEF Noted
<1>7. CASE journal' = FreshJournal(View)
  <2> DEFINE f == FreshJournal(View)
  <2>1. /\ f.id = src.id /\ f.observed = n /\ f.excluded = 1 .. n
        /\ f.on = View.on /\ f.token = View.token /\ f.boundary = View.boundary
    BY DEF FreshJournal
  <2> HIDE DEF f, n
  <2>2. journal' = f BY <1>7 DEF f
  <2> QED BY <1>1, <1>2, <1>4, <1>5, <2>1, <2>2 DEF Noted, n
<1>8. CASE kept /\ journal' = k
  <2>1. /\ journal # None /\ journal \in JournalType /\ journal.observed \in Nat /\ journal.token = repo.token
        /\ journal.observed <= n
    <3>1. journal # None /\ journal \in JournalType /\ Len(src.recs) >= journal.observed BY <1>8 DEF Types, JournalOK
    <3>2. journal.observed \in Nat BY <3>1 DEF JournalType
    <3>3. journal.observed <= n BY <1>1, <3>1, <3>2, SMT
    <3> QED BY <1>1, <1>8, <3>1, <3>2, <3>3
  <2>2. /\ k.id = src.id /\ k.observed = n /\ k.excluded = journal.excluded \cup Interval(View)
        /\ k.on = View.on /\ k.token = journal.token /\ k.boundary = View.boundary
    BY <2>1 DEF JournalType
  <2>3. ASSUME NEW i \in 1 .. n, i \notin journal.excluded, i \notin Interval(View)
        PROVE  src.recs[i] \in consented
    <3>1. i \in 1 .. journal.observed \/ i \in journal.observed + 1 .. n
      <4> HIDE DEF n
      <4> QED BY <1>1, <2>1, SMT
    <3>2. CASE i \in 1 .. journal.observed
      <4>1. CASE journal.id = src.id BY <2>1, <2>3, <3>2, <4>1 DEF Noted
      <4>2. CASE moved /\ Proven
        <5>1. /\ cursor # None /\ cursor.epoch = journal.epoch /\ journal.observed <= cursor.offset
              /\ cursor.offset <= Len(src.recs) /\ SubSeq(src.recs, 1, cursor.offset) = cursor.prefix
          BY <4>2 DEF Proven
        <5>2. cursor \in Cursor /\ cursor.offset \in Nat BY <5>1 DEF Types, Cursor
        <5> DEFINE o == cursor.offset
                   s == src.recs
        <5>3. i \in 1 .. o /\ o <= n /\ o \in Nat
          <6>1. o <= n /\ o \in Nat /\ journal.observed <= o BY <5>1, <5>2
          <6> HIDE DEF n, o
          <6> QED BY <2>1, <3>2, <6>1, SMT
        <5>4. SubSeq(s, 1, o)[i] = s[i]
          <6>1. s \in Seq(Nat) /\ DOMAIN s = 1 .. n /\ n = Len(s) /\ n \in Nat BY <1>1
          <6> HIDE DEF n, o, s
          <6>2. \A m \in 1 .. o : m \in 1 .. n BY <5>3, <6>1, SMT
          <6> QED BY <5>3, <6>1, <6>2, SMT
        <5>5. cursor.prefix[i] \in consented BY <2>3, <5>1, <5>3 DEF Committed
        <5> QED BY <5>1, <5>4, <5>5
      <4> QED BY <1>8, <4>1, <4>2
    <3>3. CASE i \in journal.observed + 1 .. n
      <4>1. View.on /\ journal.on /\ SameStamp(View) BY <2>3, <3>3 DEF Interval
      <4>2. journal.token = repo.token /\ journal.boundary = pause.boundary BY <1>1, <4>1 DEF SameStamp
      <4>3. i > journal.observed
        <5> HIDE DEF n
        <5> QED BY <1>1, <2>1, <3>3, SMT
      <4>4. i \in DOMAIN src.recs BY <1>1
      <4> QED BY <2>1, <4>1, <4>2, <4>3, <4>4 DEF Noted
    <3> QED BY <3>1, <3>2, <3>3
  <2>4. \A i \in 1 .. n : i \in k.excluded \/ src.recs[i] \in consented BY <2>2, <2>3
  <2> HIDE DEF k, n
  <2>5. journal' = k BY <1>8
  <2>6. k.id <= src.id /\ k.token <= repo.token /\ k.boundary <= pause.boundary BY <1>1, <1>4, <2>1, <2>2
  <2>7. k.observed <= Len(src.recs) BY <1>4, <2>2 DEF n
  <2>8. \A i \in DOMAIN src.recs : ~ (i > k.observed) BY <1>1, <1>5, <2>2
  <2>9. k.on => Allowed BY <1>1, <2>2
  <2> QED BY <1>1, <1>2, <2>2, <2>4, <2>5, <2>6, <2>7, <2>8, <2>9 DEF Noted
<1> QED BY <1>3, <1>6, <1>7, <1>8

\* What the user and Codex do makes nothing of the journal wrong.
LEMMA NotedByTruth ==
  ASSUME Types, Types', Noted, journal' = journal, Write \/ Replace \/ SetConsent \/ SetPause
  PROVE  Noted'
<1> SUFFICES ASSUME journal # None PROVE Noted' BY DEF Noted
<1>0. /\ journal \in JournalType /\ journal.id \in Nat /\ journal.observed \in Nat /\ journal.token \in Nat
      /\ journal.boundary \in Nat /\ src.id \in Nat /\ repo.token \in Nat /\ pause.boundary \in Nat
      /\ journal.id <= src.id /\ journal.token <= repo.token /\ journal.boundary <= pause.boundary
  BY DEF Types, JournalOK, JournalType, Noted
<1>1. CASE Write
  <2> DEFINE n == Len(src.recs)
             l == left["records"]
  <2>1. /\ src'.id = src.id /\ Len(src'.recs) = n + 1 /\ n \in Nat
        /\ DOMAIN src.recs = 1 .. n /\ DOMAIN src'.recs = 1 .. n + 1
        /\ \A i \in 1 .. n : src'.recs[i] = src.recs[i]
        /\ src'.recs[n + 1] = l
    BY <1>1, SourceMoves
  <2>2. /\ repo' = repo /\ pause' = pause /\ consented \subseteq consented'
        /\ Allowed => l \in consented'
    BY <1>1 DEF Write
  <2>3. journal.id = src.id =>
          /\ journal.observed <= n
          /\ \A i \in 1 .. journal.observed : i \in journal.excluded \/ src.recs[i] \in consented
    BY DEF Noted
  <2>4. journal.on /\ journal.token = repo.token /\ journal.boundary = pause.boundary =>
          /\ Allowed
          /\ \A i \in 1 .. n : i > journal.observed => src.recs[i] \in consented
    BY <2>1 DEF Noted
  <2>5. Allowed' = Allowed BY <2>2 DEF Allowed
  <2> HIDE DEF n, l
  <2>6. \A i \in 1 .. n + 1 : i \in 1 .. n \/ i = n + 1 BY <2>1, SMT
  <2>7. journal.id = src.id =>
          /\ journal.observed <= n + 1
          /\ \A i \in 1 .. journal.observed : i \in journal.excluded \/ src'.recs[i] \in consented'
    <3> SUFFICES ASSUME journal.id = src.id
                 PROVE  /\ journal.observed <= n + 1
                        /\ \A i \in 1 .. journal.observed : i \in journal.excluded \/ src'.recs[i] \in consented'
      OBVIOUS
    <3>1. journal.observed <= n + 1 /\ \A i \in 1 .. journal.observed : i \in 1 .. n BY <1>0, <2>1, <2>3, SMT
    <3> QED BY <2>1, <2>2, <2>3, <3>1
  <2>8. journal.on /\ journal.token = repo.token /\ journal.boundary = pause.boundary =>
          /\ Allowed
          /\ \A i \in 1 .. n + 1 : i > journal.observed => src'.recs[i] \in consented'
    BY <2>1, <2>2, <2>4, <2>6
  <2> QED BY <1>0, <2>1, <2>2, <2>5, <2>7, <2>8 DEF Noted
<1>2. CASE Replace
  <2>1. src'.id = src.id + 1 /\ \A i \in DOMAIN src'.recs : i \in DOMAIN src.recs /\ src'.recs[i] = src.recs[i]
    BY <1>2, SourceMoves
  <2>2. repo' = repo /\ pause' = pause /\ consented' = consented /\ Allowed' = Allowed BY <1>2 DEF Replace, Allowed
  <2>3. journal.id <= src'.id /\ journal.id # src'.id BY <1>0, <2>1, SMT
  <2> QED BY <1>0, <2>1, <2>2, <2>3 DEF Noted
<1>3. CASE SetConsent
  <2>1. repo'.token = repo.token + 1 /\ UNCHANGED <<src, consented, pause>> BY <1>3 DEF SetConsent
  <2>2. journal.token <= repo'.token /\ journal.token # repo'.token BY <1>0, <2>1, SMT
  <2> QED BY <1>0, <2>1, <2>2 DEF Noted
<1>4. CASE SetPause
  <2>1. pause'.boundary = pause.boundary + 1 /\ UNCHANGED <<src, consented, repo>> BY <1>4 DEF SetPause
  <2>2. journal.boundary <= pause'.boundary /\ journal.boundary # pause'.boundary BY <1>0, <2>1, SMT
  <2> QED BY <1>0, <2>1, <2>2 DEF Noted
<1> QED BY <1>1, <1>2, <1>3, <1>4

LEMMA ConsentedKept ==
  ASSUME Types, Types', Locked, Numbered, ChunksNumbered, Generations, Consented, Planned, [Next]_vars
  PROVE  Consented'
<1> SUFFICES ASSUME ~ straddled' PROVE Consented' BY DEF Consented
<1>0. /\ \A c \in Cursor : c.epoch \in Nat
      /\ cursor # None => cursor \in Cursor
      /\ Recovered # None => Recovered \in Cursor
  BY RecoveredTyped DEF Types, Cursor
<1>1. ~ straddled BY JournalSteps DEF Observes
<1>2. /\ Noted
      /\ \A n \in {cursor, Recovered} : n # None => Committed(n)
      /\ \A x \in Lines : x.rec \in consented
  BY <1>1 DEF Consented
<1>3. consented \subseteq consented' BY ConsentedGrows
<1>4. Still \/ Tidied \/ Published \/ Acknowledged \/ Posted BY StepKinds
<1>5. Noted'
  <2>1. CASE (Write \/ Replace \/ SetConsent \/ SetPause) /\ UNCHANGED <<queue, revoked, ends, straddled>>
    BY <1>2, <2>1, NotedByTruth DEF queue
  <2>2. CASE UNCHANGED truth
    <3>1. CASE journal' = journal BY <1>2, <2>2, <3>1 DEF Noted, truth, Allowed
    <3>2. CASE Observes
      <4>1. PICK view \in ViewType, verify \in BOOLEAN : journal' = Observed(view, verify) /\ (view # View => straddled')
        BY <3>2 DEF Observes
      <4>2. view = View BY <4>1
      <4> HIDE DEF Observed, View
      <4> QED BY <1>2, <2>2, <4>1, <4>2, NotedByObservation
    <3> QED BY <3>1, <3>2, JournalSteps
  <2> QED BY <2>1, <2>2, TruthSteps
<1>6. ASSUME NEW n \in Cursor, journal # None, n.epoch <= journal.epoch, Committed(n), n.epoch = journal'.epoch,
             NEW i \in 1 .. n.offset
      PROVE  i \in journal'.excluded \/ n.prefix[i] \in consented'
  <2>1. /\ journal'.epoch \in Nat /\ journal.epoch \in Nat /\ journal.epoch <= journal'.epoch
        /\ journal'.epoch = journal.epoch => journal.excluded \subseteq journal'.excluded
    BY <1>6, JournalMoves
  <2>2. n.epoch = journal.epoch BY <1>0, <1>6, <2>1, SMT
  <2> QED BY <1>3, <1>6, <2>1, <2>2 DEF Committed
<1>7. \A n \in {cursor, Recovered} : n # None => n \in Cursor /\ journal # None /\ n.epoch <= journal.epoch
  BY <1>0 DEF Generations
<1>8. CASE Still \/ Tidied \/ Acknowledged \/ Posted
  <2>1. Recovered' = Recovered /\ cursor' \in {cursor, Recovered} /\ Lines' \subseteq Lines
    BY <1>8, RecoveredMoves, LinesMove DEF Still, Acknowledged, Posted
  <2>2. \A x \in Lines' : x.rec \in consented' BY <1>2, <1>3, <2>1
  <2>3. ASSUME NEW n \in {cursor, Recovered}, n # None, n.epoch = journal'.epoch, NEW i \in 1 .. n.offset
        PROVE  i \in journal'.excluded \/ n.prefix[i] \in consented'
    BY <1>2, <1>6, <1>7, <2>3
  <2> QED BY <1>5, <2>1, <2>2, <2>3 DEF Consented, Committed
<1>9. CASE Published
  <2>1. PICK p \in PlanType : /\ PlanStands(p) /\ Adds(p) /\ Recovered' = p.next
                              /\ UNCHANGED <<journal, cursor, arrived, straddled>>
    BY <1>9, PublishedShape
  <2>2. Lines' = Lines \cup PlanLines(p) BY <2>1, LinesMove
  <2>3. Committed(p.next) /\ \A x \in PlanLines(p) : x.rec \in consented BY <1>1, <2>1 DEF PlanStands
  <2>4. \A x \in Lines' : x.rec \in consented' BY <1>2, <1>3, <2>2, <2>3
  <2>5. ASSUME NEW n \in {cursor, p.next}, n # None, n.epoch = journal'.epoch, NEW i \in 1 .. n.offset
        PROVE  i \in journal'.excluded \/ n.prefix[i] \in consented'
    <3>1. Committed(n) BY <1>2, <2>3, <2>5
    <3> QED BY <1>3, <2>1, <2>5, <3>1 DEF Committed
  <2> QED BY <1>5, <2>1, <2>4, <2>5 DEF Consented, Committed
<1> QED BY <1>4, <1>8, <1>9

-----------------------------------------------------------------------------
(* The invariant and what it means.                                          *)

LEMMA QueueInvariantInitially ==
  ASSUME Constants, Init
  PROVE  QueueInvariant
<1>1. /\ left \in [Bounds \cup {"slice"} -> Nat \cup {None}] /\ left["records"] \in Nat /\ left["slice"] \in Nat
  BY DEF Init, Constants
<1>2. /\ src = [id |-> 1, recs |-> << >>] /\ consented = {} /\ repo = [on |-> TRUE, token |-> 1]
      /\ pause = [on |-> FALSE, boundary |-> 0] /\ revoked = {} /\ journal = None /\ cursor = None /\ groups = << >>
      /\ request = 0 /\ hint = None /\ lock = None /\ store = None /\ arrived = {} /\ straddled = FALSE
  BY DEF Init
<1>3. Types
  <2>1. src \in [id : Nat, recs : Seq(Nat)] BY <1>2
  <2>2. repo \in [on : BOOLEAN, token : Nat] /\ repo.token >= 1 /\ pause \in [on : BOOLEAN, boundary : Nat] BY <1>2
  <2>3. hook \in [Hook -> HookType] /\ \A h \in Hook : HookOK(hook[h])
    <3> DEFINE r == [pc |-> "idle", view |-> None]
    <3>1. HookOK(r) /\ r \in HookType BY DEF HookOK, HookType
    <3>2. hook = [h \in Hook |-> r] BY DEF Init
    <3> HIDE DEF r
    <3> QED BY <3>1, <3>2
  <2>4. drain \in [Drain -> DrainType] /\ \A d \in Drain : DrainOK(drain[d]) /\ ~ drain[d].again
    <3> DEFINE r == [pc |-> "idle", again |-> FALSE, view |-> None, plan |-> None]
    <3>1. DrainOK(r) /\ r \in DrainType /\ ~ r.again BY DEF DrainOK, DrainType, Places
    <3>2. drain = [d \in Drain |-> r] BY DEF Init
    <3> HIDE DEF r
    <3> QED BY <3>1, <3>2
  <2>5. groups \in Seq(Group) /\ cursor \in Cursor \cup {None} /\ JournalOK(journal) BY <1>2 DEF JournalOK
  <2>6. request \in Nat /\ hint \in Nat \cup {None} /\ lock \in Drain \cup {None} BY <1>2
  <2>7. store \in StoreType \cup {None} /\ arrived \subseteq Chunk /\ straddled \in BOOLEAN BY <1>2
  <2>8. consented \subseteq Nat /\ revoked \subseteq 1 .. repo.token - 1 BY <1>2
  <2> QED BY <1>1, <2>1, <2>2, <2>3, <2>4, <2>5, <2>6, <2>7, <2>8 DEF Types
<1>4. Recovered = None /\ Queued = {} /\ Lines = {} BY <1>2 DEF Recovered, Queued, Lines
<1>5. \A d \in Drain : drain[d].pc = "idle" BY DEF Init
<1>6. Fresh /\ Numbered /\ ChunksNumbered BY <1>2 DEF Fresh, Numbered, ChunksNumbered
<1>7. Locked BY <1>5 DEF Locked, Held, Holding
<1>8. Generations /\ Arrivals /\ OnePlace /\ Stored /\ Covering /\ Consented
  BY <1>2, <1>4 DEF Generations, Arrivals, OnePlace, Stored, Covering, Consented, Noted
<1>9. Planned BY <1>5 DEF Planned
<1> QED BY <1>3, <1>6, <1>7, <1>8, <1>9 DEF QueueInvariant

LEMMA QueueInvariantKept ==
  ASSUME QueueInvariant, [Next]_vars
  PROVE  QueueInvariant'
<1>1. Types /\ Fresh /\ Locked /\ Numbered /\ ChunksNumbered /\ Generations /\ Arrivals /\ OnePlace /\ Stored
      /\ Covering /\ Consented /\ Planned
  BY DEF QueueInvariant
<1>2. Types' BY <1>1, TypesKept
<1>3. Still \/ Tidied \/ Published \/ Acknowledged \/ Posted BY <1>1, StepKinds
<1>4. Fresh' BY <1>1, <1>2, FreshKept
<1>5. Locked' BY <1>1, <1>2, LockedKept
<1>6. Numbered' BY <1>1, <1>2, <1>3, NumberedKept
<1>7. ChunksNumbered' BY <1>1, <1>2, <1>3, ChunksNumberedKept
<1>8. Generations' BY <1>1, <1>2, GenerationsKept
<1>9. Arrivals' BY <1>1, <1>2, <1>3, ArrivalsKept
<1>10. OnePlace' BY <1>1, <1>2, <1>3, OnePlaceKept
<1>11. Stored' BY <1>1, <1>2, <1>3, StoredKept
<1>12. Covering' BY <1>1, <1>2, CoveringKept
<1>13. Consented' BY <1>1, <1>2, ConsentedKept
<1>14. Planned' BY <1>1, <1>2, PlannedKept
<1> QED BY <1>2, <1>4, <1>5, <1>6, <1>7, <1>8, <1>9, <1>10, <1>11, <1>12, <1>13, <1>14 DEF QueueInvariant

LEMMA QueueInvariantMeans ==
  ASSUME QueueInvariant
  PROVE  TypeOK /\ OnlyConsented /\ CursorCovers /\ StoredOnce /\ NumbersUnique
<1>0. /\ Types /\ ChunksNumbered /\ Numbered /\ Generations /\ Arrivals /\ OnePlace /\ Stored /\ Covering /\ Consented
  BY DEF QueueInvariant
<1>1. TypeOK
  <2>1. src.id \in Nat /\ src.recs \in Seq(Nat) /\ consented \subseteq Nat /\ repo.token \in Nat BY <1>0 DEF Types
  <2>2. revoked \subseteq 1 .. repo.token
    <3>1. 1 .. repo.token - 1 \subseteq 1 .. repo.token BY <2>1, SMT
    <3> QED BY <1>0, <3>1 DEF Types
  <2>3. journal # None => journal.observed \in Nat /\ journal.excluded \subseteq 1 .. journal.observed
    BY <1>0 DEF Types, JournalOK, JournalType
  <2>4. store # None => store.lines \subseteq Line BY <1>0 DEF Types, StoreType
  <2>5. groups \in Seq([lines : Seq(Chunk), next : Cursor, ready : BOOLEAN]) BY <1>0 DEF Types, Group
  <2> QED BY <1>0, <2>1, <2>2, <2>3, <2>4, <2>5 DEF TypeOK, Types
<1>2. OnlyConsented
  <2> SUFFICES ASSUME ~ straddled, NEW c \in arrived PROVE c.line.rec \in consented BY DEF OnlyConsented
  <2>1. c.line \in Lines BY DEF Lines
  <2> QED BY <1>0, <2>1 DEF Consented
<1>3. CursorCovers
  <2> SUFFICES ASSUME cursor # None, journal # None, cursor.epoch = journal.epoch, cursor.token \notin Revokes,
                      NEW i \in 1 .. cursor.offset, i \notin journal.excluded
               PROVE  LET line == [gen |-> cursor.gen, at |-> i, rec |-> cursor.prefix[i]]
                      IN  \/ \E c \in arrived : c.line = line
                          \/ \E k \in DOMAIN groups : \E n \in DOMAIN groups[k].lines : groups[k].lines[n].line = line
    BY DEF CursorCovers
  <2> DEFINE line == [gen |-> cursor.gen, at |-> i, rec |-> cursor.prefix[i]]
  <2>1. cursor.token \notin revoked BY DEF Revokes
  <2>2. line \in Lines BY <1>0, <2>1 DEF Covering, Covers
  <2> HIDE DEF line
  <2>3. PICK c \in arrived \cup Queued : line = c.line BY <2>2 DEF Lines
  <2>4. (\E x \in arrived : x.line = line)
        \/ \E k \in DOMAIN groups : \E n \in DOMAIN groups[k].lines : groups[k].lines[n].line = line
    BY <2>3, QueuedAre
  <2> QED BY <2>4 DEF line
<1>4. StoredOnce
  <2> SUFFICES ASSUME store # None, NEW a \in store.lines, NEW b \in store.lines, a.rec = b.rec PROVE a = b
    BY DEF StoredOnce
  <2>1. a.gen = b.gen /\ store.lines \subseteq {c.line : c \in arrived} BY <1>0 DEF Stored
  <2>2. a \in Lines /\ b \in Lines BY <2>1 DEF Lines
  <2> QED BY <1>0, <2>1, <2>2 DEF OnePlace
<1>5. NumbersUnique
  <2>1. ASSUME NEW i \in DOMAIN groups, NEW k \in DOMAIN groups,
               NEW m \in DOMAIN groups[i].lines, NEW n \in DOMAIN groups[k].lines,
               i < k \/ (i = k /\ m < n)
        PROVE  groups[i].lines[m].seq < groups[k].lines[n].seq
    <3>1. CASE i = k /\ m < n BY <1>0, <3>1 DEF ChunksNumbered
    <3>2. CASE i < k
      <4>1. groups[i].lines[m].seq <= groups[i].next.seq /\ groups[i].next.seq < groups[k].lines[n].seq
        BY <1>0, <3>2 DEF ChunksNumbered
      <4>2. /\ groups[i].lines \in Seq(Chunk) /\ groups[k].lines \in Seq(Chunk) /\ groups[i].next \in Cursor
        BY <1>0, RecoveredTyped
      <4>3. groups[i].lines[m] \in Chunk /\ groups[k].lines[n] \in Chunk BY <4>2
      <4>4. groups[i].lines[m].seq \in Nat /\ groups[k].lines[n].seq \in Nat /\ groups[i].next.seq \in Nat
        BY <4>2, <4>3 DEF Chunk, Cursor
      <4> QED BY <4>1, <4>4, SMT
    <3> QED BY <2>1, <3>1, <3>2
  <2>2. ASSUME NEW a \in arrived \cup Queued, NEW b \in arrived, a.seq = b.seq PROVE a = b
    BY <1>0, <2>2 DEF Arrivals
  <2> QED BY <2>1, <2>2 DEF NumbersUnique
<1> QED BY <1>1, <1>2, <1>3, <1>4, <1>5

\* A chunk arrives after all of its generation that have, and after no later generation.
LEMMA OrderKept ==
  ASSUME QueueInvariant, [Next]_vars
  PROVE  ArrivesInOrder
<1>0. Types /\ Locked /\ Numbered /\ ChunksNumbered /\ Generations /\ Arrivals BY DEF QueueInvariant
<1>1. CASE arrived' = arrived BY <1>1 DEF ArrivesInOrder
<1>2. CASE Posted
  <2> DEFINE c == NextChunk
  <2>1. Pending # {} /\ cursor = Recovered /\ arrived' = arrived \cup {c} BY <1>0, <1>2 DEF Posted, Locked, Held, Holding
  <2>2. c \in Queued /\ c.line.gen = Recovered.gen BY <1>0, <2>1, NextIsFirst
  <2> HIDE DEF c
  <2>3. ASSUME NEW x \in arrived' \ arrived
        PROVE  /\ \A b \in arrived : b.line.gen <= x.line.gen
               /\ \A b \in arrived : b.line.gen = x.line.gen => b.seq < x.seq
    <3>1. x = c BY <2>1
    <3>2. \A b \in arrived : b.line.gen <= Recovered.gen BY <1>0 DEF Arrivals
    <3>3. \A b \in arrived : c # b BY <2>1, <2>3, <3>1
    <3> QED BY <1>0, <2>2, <3>1, <3>2, <3>3 DEF Arrivals
  <2> QED BY <2>3 DEF ArrivesInOrder
<1>3. Still \/ Tidied \/ Published \/ Acknowledged \/ Posted BY <1>0, StepKinds
<1> QED BY <1>1, <1>2, <1>3 DEF Still, Tidied, Published, Acknowledged

-----------------------------------------------------------------------------
(* The theorems.                                                             *)

\* In every behaviour the queue, the journal, the cursor and what has arrived fit together.
THEOREM QueueInvariantHolds == ASSUME Constants PROVE Spec => []QueueInvariant
<1>1. Init => QueueInvariant BY QueueInvariantInitially
<1>2. QueueInvariant /\ [Next]_vars => QueueInvariant' BY QueueInvariantKept
<1> QED BY <1>1, <1>2, PTL DEF Spec

\* The files of the queue always hold what their readers expect.
THEOREM QueueTypesHold == ASSUME Constants PROVE Spec => []TypeOK
<1>1. QueueInvariant => TypeOK BY QueueInvariantMeans
<1> QED BY <1>1, QueueInvariantHolds, PTL

\* Nothing written while collection was off or paused reaches the collector, unless a
\* boundary was noted with a consent that had changed meanwhile.
THEOREM OnlyConsentedArrives == ASSUME Constants PROVE Spec => []OnlyConsented
<1>1. QueueInvariant => OnlyConsented BY QueueInvariantMeans
<1> QED BY <1>1, QueueInvariantHolds, PTL

\* What the cursor covers is queued or has arrived, whoever died in between.
THEOREM CursorCoversAlways == ASSUME Constants PROVE Spec => []CursorCovers
<1>1. QueueInvariant => CursorCovers BY QueueInvariantMeans
<1> QED BY <1>1, QueueInvariantHolds, PTL

\* A record stands once in the collector's object, a number for one line only, ...
THEOREM StoredOnceAlways == ASSUME Constants PROVE Spec => [](StoredOnce /\ NumbersUnique)
<1>1. QueueInvariant => StoredOnce /\ NumbersUnique BY QueueInvariantMeans
<1> QED BY <1>1, QueueInvariantHolds, PTL

\* ... and chunks arrive in the order of their numbers, baseline after baseline.
THEOREM ArrivesInOrderAlways == ASSUME Constants PROVE Spec => [][ArrivesInOrder]_vars
<1>1. QueueInvariant /\ [Next]_vars => ArrivesInOrder BY OrderKept
<1>2. QueueInvariant /\ [Next]_vars => [ArrivesInOrder]_vars BY <1>1
<1> QED BY <1>2, QueueInvariantHolds, PTL DEF Spec
=============================================================================
