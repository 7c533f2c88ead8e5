---------------------- MODULE TranscriptDeliveryProofs ----------------------
(***************************************************************************)
(* What TranscriptDelivery guarantees for any number of hooks and drains and *)
(* any bounds on what may happen: every state is well typed; a chunk is      *)
(* given up on only when the collector refused it often enough; and, on two   *)
(* conditions, no line behind the cursor is lost.                            *)
(***************************************************************************)
EXTENDS TranscriptDelivery, FiniteSetTheorems, SequenceTheorems, TLAPS

(* What the operators of the model compute.                                  *)

\* A set of numbers that is not empty has a least one.
LEMMA Least == ASSUME NEW S \in SUBSET Nat, S # {} PROVE \E n \in S : \A m \in S : n <= m
<1> PICK top \in S : TRUE OBVIOUS
<1> DEFINE Upto == {1 .. n : n \in {m \in S : m <= top}}
           All == 1 .. top
<1>1. IsFiniteSet(All) BY FS_Interval
<1>2. Upto \subseteq FiniteSubsetsOf(All)
  <2>1. ASSUME NEW n \in S, n <= top PROVE 1 .. n \subseteq All /\ IsFiniteSet(1 .. n)
    BY <2>1, FS_Interval, SMT
  <2> QED BY <2>1 DEF FiniteSubsetsOf
<1>3. IsWellFoundedOn(StrictSubsetOrdering(All), FiniteSubsetsOf(All))
  BY FS_StrictSubsetOrderingWellFounded
<1>4. Upto # {} OBVIOUS
<1>5. PICK x \in Upto : \A y \in Upto : ~ (<<y, x>> \in StrictSubsetOrdering(All))
  <2> HIDE DEF Upto, All
  <2> QED BY <1>2, <1>3, <1>4, WFMin
<1>6. PICK n \in S : n <= top /\ x = 1 .. n BY <1>5
<1>7. ASSUME NEW m \in S, m < n PROVE FALSE
  <2>1. 1 .. m \in Upto BY <1>6, <1>7, SMT
  <2>2. 1 .. m \subseteq 1 .. n /\ 1 .. m # 1 .. n /\ 1 .. n \subseteq All BY <1>6, <1>7, SMT
  <2> QED BY <1>5, <1>6, <2>1, <2>2 DEF StrictSubsetOrdering
<1> QED BY <1>6, <1>7, SMT

\* A function from 1 .. n is a sequence of n elements.
LEMMA FunctionIsSeq ==
  ASSUME NEW S, NEW n \in Nat, NEW f \in [1 .. n -> S]
  PROVE  f \in Seq(S) /\ Len(f) = n /\ DOMAIN f = 1 .. n
<1>1. f \in Seq(S) BY SeqDef
<1> QED BY <1>1, SMT

\* A part of a sequence.
LEMMA PartOfSeq ==
  ASSUME NEW S, NEW s \in Seq(S), NEW a \in 0 .. Len(s), NEW b \in a .. Len(s)
  PROVE  /\ SubSeq(s, a + 1, b) \in Seq(S)
         /\ Len(SubSeq(s, a + 1, b)) = b - a
         /\ \A k \in 1 .. b - a : SubSeq(s, a + 1, b)[k] = s[a + k]
<1>1. Len(s) \in Nat /\ \A i \in 1 .. Len(s) : s[i] \in S OBVIOUS
<1>2. \A i \in a + 1 .. b : s[i] \in S BY <1>1, SMT
<1>3. /\ SubSeq(s, a + 1, b) \in Seq(S)
      /\ Len(SubSeq(s, a + 1, b)) = IF a + 1 <= b THEN b - (a + 1) + 1 ELSE 0
      /\ \A k \in 1 .. b - (a + 1) + 1 : SubSeq(s, a + 1, b)[k] = s[a + 1 + k - 1]
  <2>1. a + 1 \in Int /\ b \in Int BY <1>1, SMT
  <2> DEFINE m == a + 1
  <2>2. m \in Int BY <2>1
  <2>3. \A i \in m .. b : s[i] \in S BY <1>2
  <2> HIDE DEF m
  <2>4. /\ SubSeq(s, m, b) \in Seq(S)
        /\ Len(SubSeq(s, m, b)) = IF m <= b THEN b - m + 1 ELSE 0
        /\ \A k \in 1 .. b - m + 1 : SubSeq(s, m, b)[k] = s[m + k - 1]
    BY <2>1, <2>2, <2>3, SubSeqProperties
  <2> QED BY <2>4 DEF m
<1>4. \A k \in 1 .. b - a : k \in 1 .. b - (a + 1) + 1 /\ a + 1 + k - 1 = a + k BY <1>1, SMT
<1>5. b - a = IF a + 1 <= b THEN b - (a + 1) + 1 ELSE 0 BY <1>1, SMT
<1> QED BY <1>3, <1>4, <1>5

\* InOrder lists every element of a finite set that a strict total order sorts.
LEMMA InOrderLists ==
  ASSUME NEW S, IsFiniteSet(S), NEW R,
         \A x \in S : <<x, x>> \notin R,
         \A x, y, z \in S : <<x, y>> \in R /\ <<y, z>> \in R => <<x, z>> \in R,
         \A x, y \in S : x # y => <<x, y>> \in R \/ <<y, x>> \in R
  PROVE  /\ Cardinality(S) \in Nat
         /\ InOrder(S, R) \in [1 .. Cardinality(S) -> S]
         /\ \A x \in S : \E i \in 1 .. Cardinality(S) : InOrder(S, R)[i] = x
<1> DEFINE n == Cardinality(S)
           Below(x) == {y \in S : <<y, x>> \in R}
           rank == [x \in S |-> Cardinality(Below(x)) + 1]
<1>1. n \in Nat BY FS_CardinalityType
<1>2. ASSUME NEW x \in S
      PROVE  IsFiniteSet(Below(x)) /\ Cardinality(Below(x)) \in 0 .. n - 1
  <2>1. Below(x) \in SUBSET (S \ {x}) OBVIOUS
  <2>2. IsFiniteSet(S \ {x}) /\ Cardinality(S \ {x}) = n - 1 BY FS_RemoveElement
  <2> HIDE DEF Below
  <2>3. IsFiniteSet(Below(x)) /\ Cardinality(Below(x)) <= n - 1 BY <2>1, <2>2, FS_Subset
  <2>4. Cardinality(Below(x)) \in Nat BY <2>3, FS_CardinalityType
  <2> HIDE DEF n
  <2> QED BY <1>1, <2>3, <2>4, SMT
<1>3. ASSUME NEW x \in S, NEW y \in S, <<x, y>> \in R
      PROVE  Cardinality(Below(x)) # Cardinality(Below(y))
  <2>1. Below(x) \in SUBSET Below(y) BY <1>3
  <2>2. x \in Below(y) /\ x \notin Below(x) BY <1>3
  <2>3. IsFiniteSet(Below(y)) BY <1>2
  <2> HIDE DEF Below
  <2> QED BY <2>1, <2>2, <2>3, FS_Subset
<1>4. rank \in [S -> 1 .. n]
  <2> HIDE DEF Below, n
  <2> QED BY <1>1, <1>2, SMT
<1>5. \A x, y \in S : rank[x] = rank[y] => x = y
  <2> SUFFICES ASSUME NEW x \in S, NEW y \in S, rank[x] = rank[y], x # y PROVE FALSE OBVIOUS
  <2>1. Cardinality(Below(x)) = Cardinality(Below(y))
    <3>1. Cardinality(Below(x)) \in 0 .. n - 1 /\ Cardinality(Below(y)) \in 0 .. n - 1 BY <1>2
    <3>2. Cardinality(Below(x)) + 1 = Cardinality(Below(y)) + 1 OBVIOUS
    <3> HIDE DEF Below, n, rank
    <3> QED BY <1>1, <3>1, <3>2, SMT
  <2>2. <<x, y>> \in R \/ <<y, x>> \in R OBVIOUS
  <2> HIDE DEF Below
  <2> QED BY <1>3, <2>1, <2>2
<1>6. rank \in Injection(S, 1 .. n)
  <2> HIDE DEF rank, n
  <2> QED BY <1>4, <1>5 DEF Injection, IsInjective
<1>7. IsFiniteSet(1 .. n) /\ Cardinality(1 .. n) = n
  <2> HIDE DEF n
  <2> QED BY <1>1, FS_Interval, SMT
<1>8. \A i \in 1 .. n : \E x \in S : rank[x] = i
  <2>1. rank \in Surjection(S, 1 .. n)
    <3> HIDE DEF rank
    <3> QED BY <1>6, <1>7, FS_Injection
  <2> HIDE DEF rank, n
  <2> QED BY <2>1 DEF Surjection
<1>9. ASSUME NEW i \in 1 .. n
      PROVE  InOrder(S, R)[i] \in S /\ rank[InOrder(S, R)[i]] = i
  <2> DEFINE at == CHOOSE x \in S : Cardinality(Below(x)) = i - 1
  <2>1. PICK x \in S : rank[x] = i BY <1>8
  <2>2. Cardinality(Below(x)) = i - 1
    <3>1. Cardinality(Below(x)) + 1 = i BY <2>1
    <3>2. Cardinality(Below(x)) \in 0 .. n - 1 BY <1>2
    <3> HIDE DEF Below, n, rank
    <3> QED BY <1>1, <3>1, <3>2, SMT
  <2>3. at \in S /\ Cardinality(Below(at)) = i - 1
    <3> HIDE DEF Below
    <3> QED BY <2>2, Zenon
  <2>4. InOrder(S, R)[i] = at BY DEF InOrder
  <2>5. rank[at] = (i - 1) + 1 BY <2>3
  <2>6. (i - 1) + 1 = i
    <3> HIDE DEF n
    <3> QED BY <1>1, SMT
  <2> QED BY <2>3, <2>4, <2>5, <2>6
<1>10. InOrder(S, R) \in [1 .. n -> S] BY <1>9 DEF InOrder
<1>11. ASSUME NEW x \in S PROVE \E i \in 1 .. n : InOrder(S, R)[i] = x
  <2>1. rank[x] \in 1 .. n BY <1>4
  <2> HIDE DEF rank, n
  <2> QED BY <1>5, <1>9, <2>1
<1> QED BY <1>1, <1>10, <1>11

\* Without drops what the collector has, and nothing else.
LEMMA WithoutKeeps ==
  ASSUME NEW T, NEW lines \in Seq(T), NEW have
  PROVE  /\ Without(lines, have) \in Seq(T)
         /\ Range(Without(lines, have)) = Range(lines) \ have
<1> DEFINE S == {i \in DOMAIN lines : lines[i] \notin have}
           R == {p \in S \X S : p[1] < p[2]}
           at == InOrder(S, R)
           n == Cardinality(S)
<1>1. DOMAIN lines = 1 .. Len(lines) /\ Len(lines) \in Nat OBVIOUS
<1>2. S \in SUBSET (1 .. Len(lines)) /\ IsFiniteSet(1 .. Len(lines))
  BY <1>1, FS_Interval
<1>3. IsFiniteSet(S)
  <2> HIDE DEF S
  <2> QED BY <1>2, FS_Subset
<1>4. /\ \A x \in S : <<x, x>> \notin R
      /\ \A x, y, z \in S : <<x, y>> \in R /\ <<y, z>> \in R => <<x, z>> \in R
      /\ \A x, y \in S : x # y => <<x, y>> \in R \/ <<y, x>> \in R
  <2>1. S \subseteq Nat BY <1>2, SMT
  <2> HIDE DEF S
  <2> QED BY <2>1, SMT
<1>5. n \in Nat /\ at \in [1 .. n -> S] /\ \A x \in S : \E i \in 1 .. n : at[i] = x
  <2> HIDE DEF S, R
  <2> QED BY <1>3, <1>4, InOrderLists
<1>6. Without(lines, have) = [i \in 1 .. n |-> lines[at[i]]]
  <2>1. DOMAIN at = 1 .. n BY <1>5
  <2> QED BY <2>1 DEF Without
<1>7. \A i \in 1 .. n : at[i] \in 1 .. Len(lines) /\ lines[at[i]] \notin have
  <2>1. \A x \in S : x \in 1 .. Len(lines) /\ lines[x] \notin have BY <1>1
  <2> HIDE DEF S, at, n
  <2> QED BY <1>5, <2>1
<1>8. \A i \in 1 .. Len(lines) : lines[i] \in T OBVIOUS
<1>9. Without(lines, have) \in Seq(T)
  <2> HIDE DEF S, at, n
  <2>1. Without(lines, have) \in [1 .. n -> T] BY <1>6, <1>7, <1>8
  <2> QED BY <1>5, <2>1, FunctionIsSeq
<1>10. ASSUME NEW l \in Range(lines) \ have
       PROVE  l \in Range(Without(lines, have))
  <2>1. PICK i \in DOMAIN lines : lines[i] = l BY DEF Range
  <2>2. i \in S BY <2>1, <1>10
  <2>3. PICK k \in 1 .. n : at[k] = i BY <1>5, <2>2
  <2> HIDE DEF S, at, n
  <2> QED BY <1>6, <2>1, <2>3 DEF Range
<1>11. ASSUME NEW l \in Range(Without(lines, have))
       PROVE  l \in Range(lines) \ have
  <2> HIDE DEF S, at, n
  <2> QED BY <1>1, <1>6, <1>7, <1>11 DEF Range
<1> QED BY <1>9, <1>10, <1>11

\* However a delta is cut, each of its lines is in a piece.
LEMMA SplitsCover ==
  ASSUME NEW T, NEW lines \in Seq(T), NEW split \in Splits(lines)
  PROVE  /\ split \in Seq(Seq(T)) /\ Len(split) >= 1
         /\ \A l \in Range(lines) : \E i \in DOMAIN split : l \in Range(split[i])
<1>0. PICK n \in 1 .. Len(lines) :
        \E e \in [0 .. n -> 0 .. Len(lines)] :
          /\ e[0] = 0 /\ e[n] = Len(lines) /\ \A i \in 1 .. n : e[i - 1] < e[i]
          /\ split = [i \in 1 .. n |-> SubSeq(lines, e[i - 1] + 1, e[i])]
  <2> DEFINE Ends(n) == {e \in [0 .. n -> 0 .. Len(lines)] :
                           e[0] = 0 /\ e[n] = Len(lines) /\ \A i \in 1 .. n : e[i - 1] < e[i]}
             Cut(n, e) == [i \in 1 .. n |-> SubSeq(lines, e[i - 1] + 1, e[i])]
  <2>1. Splits(lines) = UNION {{Cut(n, e) : e \in Ends(n)} : n \in 1 .. Len(lines)} BY DEF Splits
  <2> HIDE DEF Cut
  <2>2. PICK n \in 1 .. Len(lines) : \E e \in Ends(n) : split = Cut(n, e)
    <3> HIDE DEF Ends
    <3> QED BY <2>1
  <2>3. \E e \in [0 .. n -> 0 .. Len(lines)] :
          /\ e[0] = 0 /\ e[n] = Len(lines) /\ \A i \in 1 .. n : e[i - 1] < e[i]
          /\ split = Cut(n, e)
    BY <2>2, Zenon
  <2> QED BY <2>2, <2>3 DEF Cut
<1>1. PICK ends \in [0 .. n -> 0 .. Len(lines)] :
        /\ ends[0] = 0 /\ ends[n] = Len(lines)
        /\ \A i \in 1 .. n : ends[i - 1] < ends[i]
        /\ split = [i \in 1 .. n |-> SubSeq(lines, ends[i - 1] + 1, ends[i])]
  BY <1>0
<1>2. Len(lines) \in Nat /\ DOMAIN lines = 1 .. Len(lines) OBVIOUS
<1>3. n \in Nat \ {0} BY <1>2, SMT
<1>4. ASSUME NEW i \in 1 .. n
      PROVE  /\ ends[i - 1] \in 0 .. Len(lines) /\ ends[i] \in 0 .. Len(lines) /\ ends[i - 1] < ends[i]
             /\ split[i] \in Seq(T) /\ Len(split[i]) = ends[i] - ends[i - 1]
             /\ \A k \in 1 .. ends[i] - ends[i - 1] : split[i][k] = lines[ends[i - 1] + k]
  <2>1. i - 1 \in 0 .. n /\ i \in 0 .. n BY <1>3, SMT
  <2>2. /\ ends[i - 1] \in 0 .. Len(lines) /\ ends[i] \in 0 .. Len(lines) /\ ends[i - 1] < ends[i]
        /\ split[i] = SubSeq(lines, ends[i - 1] + 1, ends[i])
    BY <1>1, <2>1
  <2> DEFINE a == ends[i - 1]
             b == ends[i]
  <2>3. a \in 0 .. Len(lines) /\ b \in a .. Len(lines) BY <1>2, <2>2, SMT
  <2>4. split[i] = SubSeq(lines, a + 1, b) /\ a \in 0 .. Len(lines) /\ b \in 0 .. Len(lines) /\ a < b
    BY <2>2
  <2> HIDE DEF a, b
  <2>5. /\ a \in 0 .. Len(lines) /\ b \in 0 .. Len(lines) /\ a < b
        /\ split[i] \in Seq(T) /\ Len(split[i]) = b - a
        /\ \A k \in 1 .. b - a : split[i][k] = lines[a + k]
    BY <2>3, <2>4, PartOfSeq
  <2> QED BY <2>5 DEF a, b
<1>5. split \in Seq(Seq(T)) /\ Len(split) = n /\ DOMAIN split = 1 .. n
  <2>1. \A i \in 1 .. n : split[i] \in Seq(T) BY <1>4
  <2>2. DOMAIN split = 1 .. n /\ split = [i \in 1 .. n |-> split[i]] BY <1>1
  <2>3. split \in [1 .. n -> Seq(T)] BY <2>1, <2>2
  <2> QED BY <1>3, <2>3, FunctionIsSeq
<1>6. ASSUME NEW l \in Range(lines)
      PROVE  \E i \in DOMAIN split : l \in Range(split[i])
  <2>1. PICK p \in 1 .. Len(lines) : lines[p] = l BY <1>2, <1>6 DEF Range
  <2> DEFINE S == {i \in 0 .. n : p <= ends[i]}
  <2>2. n \in S BY <1>1, <1>3, <2>1, SMT
  <2>3. PICK i \in S : \A m \in S : i <= m
    <3>1. S \in SUBSET Nat /\ S # {} BY <1>3, <2>2, SMT
    <3> HIDE DEF S
    <3> QED BY <3>1, Least
  <2>4. i # 0 BY <1>1, <2>1, <2>3, SMT
  <2>5. i \in 1 .. n /\ i - 1 \in 0 .. n BY <1>3, <2>3, <2>4, SMT
  <2>6. p <= ends[i] /\ ~ (p <= ends[i - 1])
    <3>1. i - 1 \notin S BY <2>3, <2>5, <1>3, SMT
    <3> QED BY <2>3, <2>5, <3>1
  <2> DEFINE a == ends[i - 1]
             b == ends[i]
  <2>7. /\ a \in Nat /\ b \in Nat /\ p \in Nat /\ p <= b /\ ~ (p <= a)
        /\ split[i] \in Seq(T) /\ Len(split[i]) = b - a
        /\ \A k \in 1 .. b - a : split[i][k] = lines[a + k]
    <3>1. a \in 0 .. Len(lines) /\ b \in 0 .. Len(lines) BY <1>4, <2>5
    <3>2. a \in Nat /\ b \in Nat /\ p \in Nat
      <4> HIDE DEF a, b
      <4> QED BY <1>2, <3>1
    <3> QED BY <1>4, <2>5, <2>6, <3>2
  <2> HIDE DEF a, b
  <2>8. p - a \in 1 .. b - a /\ a + (p - a) = p BY <2>7, SMT
  <2>9. split[i][p - a] = l BY <2>1, <2>7, <2>8
  <2>10. DOMAIN split[i] = 1 .. b - a BY <2>7, LenProperties
  <2> QED BY <1>5, <2>5, <2>8, <2>9, <2>10 DEF Range
<1> QED BY <1>3, <1>5, <1>6, SMT

-----------------------------------------------------------------------------
(* Types.  TypeOK is not inductive: a hook's and a drain's record need a shape, *)
(* ids and refusals belong together, and the bounds must cover the lines.      *)

\* The cursor a hook is about to write.
NextCursor == [last : Line, seq : Nat, baseline : Nat \cup {None}, discarded : BOOLEAN]

\* A hook's record.
HookOK(k) ==
  /\ DOMAIN k = DOMAIN IdleHook
  /\ k.pc \in {"idle", "read", "plan", "seal", "check", "write"} /\ k.kind \in {"stage", "hide", "import"}
  /\ k.raw \in Seq(Line) /\ k.todo \in Seq(Piece) /\ k.short \in BOOLEAN
  /\ k.seen \in Cursor \cup {None} /\ k.next \in NextCursor \cup {None}
  /\ k.pc = "seal" => k.next \in NextCursor
  /\ k.pc \in {"check", "write"} => k.raw # << >>

\* A drain's record, where n chunks have been sealed.
DrainOK(k, n) ==
  /\ DOMAIN k = DOMAIN IdleDrain
  /\ k.pc \in {"idle", "unlink", "open", "list", "next", "waiting"}
  /\ k.todo \in Seq(1 .. n) /\ k.meta \in Chunk \cup {None} /\ k.retried \in BOOLEAN
  /\ k.pc = "waiting" => k.todo # << >> /\ k.meta \in Chunk /\ k.meta.id \in 1 .. n

\* The variables, in parts.
TranscriptOK ==
  /\ file \in Seq(Line) /\ cursor \in Cursor \cup {None} /\ hidden \subseteq Line
  /\ hook = [h \in Hook |-> hook[h]] /\ \A h \in Hook : HookOK(hook[h])

QueueOK ==
  /\ chunks \subseteq Chunk /\ aside \subseteq Chunk /\ expired \subseteq Chunk
  /\ IsFiniteSet(chunks) /\ refused \in Seq(Nat)
  /\ \A c \in chunks \cup aside : c.id \in 1 .. Len(refused)
  /\ \A b, c \in chunks : b.id = c.id => b = c

UploadsOK ==
  /\ drain = [d \in Drain |-> drain[d]] /\ \A d \in Drain : DrainOK(drain[d], Len(refused))
  /\ lock \in {None, "fresh", "stale"} /\ net \subseteq Request

ObjectOK == object \in [lines : Seq(Line), baseline : Nat]
LeftOK   == left \in [Bounds -> Nat] /\ \A b \in Bounds : left[b] <= Limits[b]

Typed == TranscriptOK /\ QueueOK /\ UploadsOK /\ ObjectOK /\ LeftOK

LEMMA TypedMeansTypeOK == Typed => TypeOK
BY SMT DEF Typed, TypeOK, TranscriptOK, QueueOK, UploadsOK, ObjectOK, LeftOK, HookOK, DrainOK

LEMMA BoundsAreNumbers == \A b \in Bounds : Limits[b] \in Nat
BY LimitsAssumption

LEMMA LineType == Line = 1 .. Limits["lines"] + Limits["rewrites"] /\ Line \subseteq Nat
                  /\ Limits["lines"] \in Nat /\ Limits["rewrites"] \in Nat
<1>1. "lines" \in Bounds /\ "rewrites" \in Bounds BY DEF Bounds
<1>2. Limits["lines"] \in Nat /\ Limits["rewrites"] \in Nat BY <1>1, BoundsAreNumbers
<1> QED BY <1>2, SMT DEF Line

LEMMA TypedInit == Init => Typed
<1> SUFFICES ASSUME Init PROVE Typed OBVIOUS
<1> USE DEF Init
<1>1. HookOK(IdleHook) BY SMT DEF HookOK, IdleHook
<1>2. TranscriptOK BY <1>1 DEF TranscriptOK
<1>3. QueueOK
  <2>1. IsFiniteSet({}) BY FS_EmptySet
  <2> QED BY <2>1, SMT DEF QueueOK
<1>4. DrainOK(IdleDrain, Len(refused)) BY SMT DEF DrainOK, IdleDrain
<1>5. UploadsOK BY <1>4 DEF UploadsOK
<1>6. ObjectOK BY SMT DEF ObjectOK
<1>7. LeftOK BY LimitsAssumption, BoundsAreNumbers, SMT DEF LeftOK
<1> QED BY <1>2, <1>3, <1>5, <1>6, <1>7 DEF Typed

(* Every action spends at most one of the bounds. *)
LEMMA SpendKeeps ==
  ASSUME LeftOK, NEW k \in Bounds, Spend(k) \/ NoFault
  PROVE  LeftOK'
<1>1. CASE NoFault BY <1>1 DEF NoFault, LeftOK
<1>2. CASE Spend(k)
  <2>1. left[k] \in Nat /\ left[k] > 0 /\ left' = [left EXCEPT ![k] = left[k] - 1]
    BY <1>2 DEF LeftOK, Spend
  <2>2. left[k] - 1 \in Nat /\ left[k] - 1 <= Limits[k] BY <2>1, BoundsAreNumbers, SMT DEF LeftOK
  <2> QED BY <2>1, <2>2 DEF LeftOK
<1> QED BY <1>1, <1>2

(* A hook or a drain is given a new record. *)
LEMMA ToHookKeeps ==
  ASSUME NEW h \in Hook, NEW r, hook = [g \in Hook |-> hook[g]], \A g \in Hook : HookOK(hook[g]),
         HookOK(r), ToHook(h, r)
  PROVE  hook' = [g \in Hook |-> hook'[g]] /\ \A g \in Hook : HookOK(hook'[g])
BY DEF ToHook

LEMMA ToDrainKeeps ==
  ASSUME NEW d \in Drain, NEW r, NEW n, drain = [e \in Drain |-> drain[e]],
         \A e \in Drain : DrainOK(drain[e], n), DrainOK(r, n), ToDrain(d, r)
  PROVE  drain' = [e \in Drain |-> drain'[e]] /\ \A e \in Drain : DrainOK(drain'[e], n)
BY DEF ToDrain

\* There is a line for every line that may still be written.
LEMMA LineCount ==
  ASSUME NEW a \in Nat, NEW b \in Nat, NEW c \in 0 .. a, NEW d \in 0 .. b
  PROVE  /\ a - c + b - d + 1 \in Nat
         /\ c > 0 => a - c + b - d + 1 \in 1 .. a + b /\ a - (c - 1) + b - d + 1 = (a - c + b - d + 1) + 1
         /\ d > 0 => a - c + b - d + 1 \in 1 .. a + b /\ a - c + b - (d - 1) + 1 = (a - c + b - d + 1) + 1
OBVIOUS

LEMMA NewLineType ==
  ASSUME LeftOK, Spend("lines") \/ Spend("rewrites")
  PROVE  NewLine \in Line /\ NewLine' = NewLine + 1
<1> DEFINE a == Limits["lines"]
           b == Limits["rewrites"]
           c == left["lines"]
           d == left["rewrites"]
<1>1. "lines" \in Bounds /\ "rewrites" \in Bounds /\ "lines" # "rewrites" BY DEF Bounds
<1>2. a \in Nat /\ b \in Nat /\ c \in 0 .. a /\ d \in 0 .. b
  BY <1>1, LineType, SMT DEF LeftOK
<1>3. Line = 1 .. a + b /\ NewLine = a - c + b - d + 1 BY LineType DEF NewLine
<1>4. CASE Spend("lines")
  <2>1. c > 0 /\ left'["lines"] = c - 1 /\ left'["rewrites"] = d
    BY <1>1, <1>4 DEF Spend, LeftOK
  <2>2. NewLine' = a - (c - 1) + b - d + 1 BY <2>1 DEF NewLine
  <2> HIDE DEF a, b, c, d
  <2> QED BY <1>2, <1>3, <2>1, <2>2, LineCount
<1>5. CASE Spend("rewrites")
  <2>1. d > 0 /\ left'["rewrites"] = d - 1 /\ left'["lines"] = c
    BY <1>1, <1>5 DEF Spend, LeftOK
  <2>2. NewLine' = a - c + b - (d - 1) + 1 BY <2>1 DEF NewLine
  <2> HIDE DEF a, b, c, d
  <2> QED BY <1>2, <1>3, <2>1, <2>2, LineCount
<1> QED BY <1>4, <1>5

\* One more line after a prefix.
LEMMA AppendOne ==
  ASSUME NEW S, NEW s \in Seq(S), NEW k \in 0 .. Len(s), NEW e \in S
  PROVE  /\ Append(SubSeq(s, 1, k), e) \in Seq(S)
         /\ Len(Append(SubSeq(s, 1, k), e)) = k + 1
         /\ \A i \in 1 .. k : Append(SubSeq(s, 1, k), e)[i] = s[i]
         /\ Append(SubSeq(s, 1, k), e)[k + 1] = e
<1> DEFINE p == SubSeq(s, 1, k)
<1>0. Len(s) \in Nat OBVIOUS
<1>1. p \in Seq(S) /\ Len(p) = k /\ \A i \in 1 .. k : p[i] = s[i]
  <2>1. 0 \in 0 .. Len(s) /\ k \in 0 .. Len(s) /\ 0 + 1 = 1 /\ k - 0 = k /\ \A i \in 1 .. k : 0 + i = i
    BY <1>0, SMT
  <2>2. /\ SubSeq(s, 0 + 1, k) \in Seq(S) /\ Len(SubSeq(s, 0 + 1, k)) = k - 0
        /\ \A i \in 1 .. k - 0 : SubSeq(s, 0 + 1, k)[i] = s[0 + i]
    BY <2>1, PartOfSeq
  <2> QED BY <2>1, <2>2
<1> HIDE DEF p
<1>2. /\ Append(p, e) \in Seq(S) /\ Len(Append(p, e)) = Len(p) + 1
      /\ \A i \in 1 .. Len(p) : Append(p, e)[i] = p[i]
      /\ Append(p, e)[Len(p) + 1] = e
  BY <1>1, AppendProperties, SMT
<1>3. /\ Append(p, e) \in Seq(S) /\ Len(Append(p, e)) = k + 1
      /\ \A i \in 1 .. k : Append(p, e)[i] = s[i]
      /\ Append(p, e)[k + 1] = e
  BY <1>1, <1>2
<1> QED BY <1>3 DEF p

\* The delta is what follows the cursor's line, or all of it.
LEMMA DeltaIs ==
  ASSUME NEW S, NEW raw \in Seq(S), NEW cur
  PROVE  /\ Delta(raw, cur) \in Seq(S)
         /\ Delta(raw, cur) # << >> => raw # << >>
         /\ ~ Found(raw, cur) => Delta(raw, cur) = raw
         /\ Found(raw, cur) => \E p \in 1 .. Len(raw) :
              /\ raw[p] = cur.last
              /\ \A i \in p + 1 .. Len(raw) : raw[i] \in Range(Delta(raw, cur))
<1>1. Len(raw) \in Nat /\ DOMAIN raw = 1 .. Len(raw) OBVIOUS
<1>2. CASE ~ Found(raw, cur) BY <1>2 DEF Delta
<1>3. CASE Found(raw, cur)
  <2> DEFINE p == CHOOSE i \in DOMAIN raw : raw[i] = cur.last
  <2>1. p \in 1 .. Len(raw) /\ raw[p] = cur.last
    <3>1. \E i \in DOMAIN raw : raw[i] = cur.last BY <1>3 DEF Found, Range
    <3> QED BY <1>1, <3>1
  <2>2. Delta(raw, cur) = SubSeq(raw, 1 + p, Len(raw)) BY <1>3 DEF Delta
  <2> HIDE DEF p
  <2>3. p \in 0 .. Len(raw) /\ Len(raw) \in p .. Len(raw) /\ 1 + p = p + 1 BY <1>1, <2>1, SMT
  <2>4. /\ Delta(raw, cur) \in Seq(S) /\ Len(Delta(raw, cur)) = Len(raw) - p
        /\ \A k \in 1 .. Len(raw) - p : Delta(raw, cur)[k] = raw[p + k]
    BY <2>2, <2>3, PartOfSeq
  <2>5. raw # << >> BY <1>1, <2>1, SMT
  <2>6. ASSUME NEW i \in p + 1 .. Len(raw) PROVE raw[i] \in Range(Delta(raw, cur))
    <3>1. i - p \in 1 .. Len(raw) - p /\ p + (i - p) = i BY <1>1, <2>1, SMT
    <3>2. DOMAIN Delta(raw, cur) = 1 .. Len(raw) - p BY <2>4, LenProperties
    <3> QED BY <2>4, <3>1, <3>2 DEF Range
  <2> QED BY <1>3, <2>1, <2>4, <2>5, <2>6
<1> QED BY <1>2, <1>3

LEMMA PiecesType ==
  ASSUME NEW split \in Seq(Seq(Line)), NEW seq \in Nat, NEW baseline \in Nat
  PROVE  /\ Pieces(split, seq, baseline) \in Seq(Piece)
         /\ DOMAIN Pieces(split, seq, baseline) = DOMAIN split
<1>1. Len(split) \in Nat /\ DOMAIN split = 1 .. Len(split) OBVIOUS
<1>2. \A i \in 1 .. Len(split) : split[i] \in Seq(Line) /\ seq + i \in Nat BY <1>1, SMT
<1>3. Pieces(split, seq, baseline) \in [1 .. Len(split) -> Piece]
  BY <1>1, <1>2 DEF Pieces, Piece
<1> QED BY <1>1, <1>3, FunctionIsSeq

LEMMA CursorNumbers ==
  ASSUME NEW c \in Cursor \cup {None}
  PROVE  SeqAt(c) \in Nat /\ BaselineOf(c) \in Nat /\ \A raw : Baseline(raw, c) \in Nat
BY SMT DEF SeqAt, BaselineOf, Baseline, Cursor

LEMMA AfterType ==
  ASSUME NEW raw \in Seq(Line), raw # << >>, NEW split \in Seq(Seq(Line)), NEW seq \in Nat,
         NEW baseline \in Nat \cup {None}
  PROVE  After(raw, split, seq, baseline) \in NextCursor /\ Last(raw) \in Line
<1>1. Len(raw) \in Nat \ {0} /\ \A i \in 1 .. Len(raw) : raw[i] \in Line
  BY EmptySeq, SMT
<1>2. Last(raw) \in Line BY <1>1, SMT DEF Last
<1>3. seq + Len(split) \in Nat BY SMT
<1> QED BY <1>2, <1>3 DEF After, NextCursor

LEMMA WrittenType ==
  ASSUME NEW n \in NextCursor, cursor \in Cursor \cup {None}
  PROVE  /\ Written(n) \in Cursor
         /\ Written(n).last = n.last /\ Written(n).seq = n.seq /\ Written(n).discarded = n.discarded
         /\ Written(n).baseline = IF n.baseline = None THEN BaselineOf(cursor) ELSE n.baseline
<1>1. BaselineOf(cursor) \in Nat BY CursorNumbers
<1> QED BY <1>1, SMT DEF Written, NextCursor, Cursor

LEMMA StageReadKeeps ==
  ASSUME Typed, NEW h \in Hook, StageRead(h)
  PROVE  TranscriptOK' /\ LeftOK'
<1> DEFINE r == [IdleHook EXCEPT !.pc = "plan", !.raw = file]
<1>1. ToHook(h, r) /\ UNCHANGED <<file, cursor, hidden>> BY DEF StageRead
<1>2. HookOK(r) BY SMT DEF Typed, TranscriptOK, HookOK, IdleHook
<1> HIDE DEF r
<1>3. TranscriptOK' BY <1>1, <1>2, ToHookKeeps DEF Typed, TranscriptOK
<1>4. LeftOK' BY DEF StageRead, NoFault, Typed, LeftOK
<1> QED BY <1>3, <1>4

LEMMA StagePlanKeeps ==
  ASSUME Typed, NEW h \in Hook, StagePlan(h)
  PROVE  TranscriptOK' /\ LeftOK'
<1> DEFINE k == hook[h]
           b == Baseline(k.raw, cursor)
<1>0. HookOK(k) /\ cursor \in Cursor \cup {None} BY DEF Typed, TranscriptOK
<1>1. LeftOK' BY DEF StagePlan, NoFault, Typed, LeftOK
<1>2. UNCHANGED <<file, cursor, hidden>> BY DEF StagePlan
<1>3. CASE ToHook(h, IdleHook)
  <2>1. HookOK(IdleHook) BY SMT DEF HookOK, IdleHook
  <2> QED BY <1>1, <1>2, <1>3, <2>1, ToHookKeeps DEF Typed, TranscriptOK
<1>4. ASSUME Delta(k.raw, cursor) # << >>, NEW split \in Splits(Delta(k.raw, cursor)),
             ToHook(h, [k EXCEPT !.pc = "seal", !.raw = << >>, !.todo = Pieces(split, SeqAt(cursor), b),
                          !.next = After(k.raw, split, SeqAt(cursor), b)])
      PROVE  TranscriptOK'
  <2>1. k.raw \in Seq(Line) BY <1>0 DEF HookOK
  <2>2. k.raw # << >> /\ Delta(k.raw, cursor) \in Seq(Line) BY <1>4, <2>1, DeltaIs
  <2>3. split \in Seq(Seq(Line)) BY <1>4, <2>2, SplitsCover
  <2>4. SeqAt(cursor) \in Nat /\ b \in Nat BY <1>0, CursorNumbers
  <2> DEFINE todo == Pieces(split, SeqAt(cursor), b)
             next == After(k.raw, split, SeqAt(cursor), b)
             r == [k EXCEPT !.pc = "seal", !.raw = << >>, !.todo = todo, !.next = next]
  <2> HIDE DEF b
  <2>5. todo \in Seq(Piece) /\ next \in NextCursor BY <2>1, <2>2, <2>3, <2>4, PiecesType, AfterType
  <2>6. HookOK(r)
    <3> HIDE DEF todo, next, k
    <3> QED BY <1>0, <2>5, SMT DEF HookOK, IdleHook
  <2>7. ToHook(h, r) BY <1>4 DEF b
  <2> HIDE DEF r
  <2> QED BY <1>2, <2>6, <2>7, ToHookKeeps DEF Typed, TranscriptOK
<1>5. TranscriptOK'
  <2> USE DEF StagePlan
  <2> HIDE DEF TranscriptOK
  <2> QED BY <1>3, <1>4
<1> QED BY <1>1, <1>5

LEMMA ImportStartKeeps ==
  ASSUME Typed, NEW h \in Hook, ImportStart(h)
  PROVE  TranscriptOK' /\ LeftOK'
<1> DEFINE r == [IdleHook EXCEPT !.pc = "read", !.kind = "import", !.raw = file, !.seen = cursor]
<1>1. ToHook(h, r) /\ UNCHANGED <<file, cursor, hidden>> BY DEF ImportStart
<1>2. HookOK(r) BY SMT DEF Typed, TranscriptOK, HookOK, IdleHook
<1> HIDE DEF r
<1>3. TranscriptOK' BY <1>1, <1>2, ToHookKeeps DEF Typed, TranscriptOK
<1>4. Spend("imports") /\ "imports" \in Bounds BY DEF ImportStart, Bounds
<1> QED BY <1>3, <1>4, SpendKeeps DEF Typed

LEMMA ImportPlanKeeps ==
  ASSUME Typed, NEW h \in Hook, ImportPlan(h)
  PROVE  TranscriptOK' /\ LeftOK'
<1> DEFINE k == hook[h]
           seq == SeqAt(k.seen)
<1>0. HookOK(k) /\ cursor \in Cursor \cup {None} /\ file \in Seq(Line) BY DEF Typed, TranscriptOK
<1>1. LeftOK' BY DEF ImportPlan, NoFault, Typed, LeftOK
<1>2. UNCHANGED <<file, cursor, hidden>> BY DEF ImportPlan
<1>3. CASE ToHook(h, IdleHook)
  <2>1. HookOK(IdleHook) BY SMT DEF HookOK, IdleHook
  <2> QED BY <1>1, <1>2, <1>3, <2>1, ToHookKeeps DEF Typed, TranscriptOK
<1>4. ASSUME NEW split \in Splits(file),
             ToHook(h, [k EXCEPT !.pc = "seal", !.raw = << >>, !.todo = Pieces(split, seq, 0),
                          !.next = After(file, split, seq, None)])
      PROVE  TranscriptOK'
  <2>1. split \in Seq(Seq(Line)) /\ file # << >>
    <3>1. split \in Seq(Seq(Line)) BY <1>0, <1>4, SplitsCover
    <3>2. 1 .. Len(file) # {} BY <1>4 DEF Splits
    <3>3. Len(file) # 0 BY <3>2, SMT
    <3> QED BY <3>1, <3>3, <1>0, EmptySeq
  <2>2. seq \in Nat
    <3>1. k.seen \in Cursor \cup {None} BY <1>0 DEF HookOK
    <3> QED BY <3>1, CursorNumbers
  <2> DEFINE todo == Pieces(split, seq, 0)
             next == After(file, split, seq, None)
             r == [k EXCEPT !.pc = "seal", !.raw = << >>, !.todo = todo, !.next = next]
  <2> HIDE DEF seq
  <2>3. todo \in Seq(Piece) /\ next \in NextCursor BY <1>0, <2>1, <2>2, PiecesType, AfterType, 0 \in Nat
  <2>4. HookOK(r)
    <3> HIDE DEF todo, next, k
    <3> QED BY <1>0, <2>3, SMT DEF HookOK, IdleHook
  <2>5. ToHook(h, r) BY <1>4 DEF seq
  <2> HIDE DEF r
  <2> QED BY <1>2, <2>4, <2>5, ToHookKeeps DEF Typed, TranscriptOK
<1>5. TranscriptOK'
  <2> USE DEF ImportPlan
  <2> HIDE DEF TranscriptOK
  <2> QED BY <1>3, <1>4
<1> QED BY <1>1, <1>5

LEMMA SealChunkKeepsHooks ==
  ASSUME Typed, NEW h \in Hook, SealChunk(h)
  PROVE  /\ TranscriptOK' /\ LeftOK'
         /\ hook[h].todo # << >> /\ Head(hook[h].todo) \in Piece
<1> DEFINE k == hook[h]
           todo == Tail(k.todo)
           r == [k EXCEPT !.todo = todo]
           s == [r EXCEPT !.short = TRUE]
<1>0. HookOK(k) /\ k.pc = "seal" /\ k.todo # << >> BY DEF Typed, TranscriptOK, SealChunk, HookAt
<1>1. todo \in Seq(Piece) /\ Head(k.todo) \in Piece
  <2>1. k.todo \in Seq(Piece) BY <1>0 DEF HookOK
  <2> HIDE DEF k
  <2> QED BY <1>0, <2>1, HeadTailProperties
<1>2. HookOK(r) /\ HookOK(s)
  <2> HIDE DEF todo, k
  <2> QED BY <1>0, <1>1, SMT DEF HookOK, IdleHook
<1>3. UNCHANGED <<file, cursor, hidden>> BY DEF SealChunk
<1>4. \/ ToHook(h, r) /\ NoFault
      \/ ToHook(h, s) /\ Spend("sealFailures")
  BY DEF SealChunk
<1>5. "sealFailures" \in Bounds BY DEF Bounds
<1> HIDE DEF r, s
<1>6. TranscriptOK' BY <1>2, <1>3, <1>4, ToHookKeeps DEF Typed, TranscriptOK
<1>7. LeftOK' BY <1>4, <1>5, SpendKeeps DEF Typed
<1> QED BY <1>0, <1>1, <1>6, <1>7

LEMMA MoveCursorKeeps ==
  ASSUME Typed, NEW h \in Hook, MoveCursor(h)
  PROVE  TranscriptOK' /\ LeftOK'
<1>1. HookOK(IdleHook) BY SMT DEF HookOK, IdleHook
<1>2. ToHook(h, IdleHook) /\ UNCHANGED <<file, hidden>> BY DEF MoveCursor
<1>3. hook[h].next \in NextCursor BY DEF MoveCursor, HookAt, Typed, TranscriptOK, HookOK
<1>4. cursor' = cursor \/ cursor' = Written(hook[h].next) BY DEF MoveCursor
<1>5. cursor' \in Cursor \cup {None} BY <1>3, <1>4, WrittenType DEF Typed, TranscriptOK
<1>6. TranscriptOK' BY <1>1, <1>2, <1>5, ToHookKeeps DEF Typed, TranscriptOK
<1>7. NoFault \/ Spend("cursorFailures") BY DEF MoveCursor
<1>8. "cursorFailures" \in Bounds BY DEF Bounds
<1> QED BY <1>6, <1>7, <1>8, SpendKeeps DEF Typed

LEMMA HideKeeps ==
  ASSUME Typed, NEW h \in Hook, Hide(h)
  PROVE  TranscriptOK' /\ LeftOK'
<1> DEFINE k == hook[h]
<1>0. HookOK(k) /\ cursor \in Cursor \cup {None} /\ file \in Seq(Line) /\ HookOK(IdleHook)
  BY SMT DEF Typed, TranscriptOK, HookOK, IdleHook
<1>1. CASE HideStart(h)
  <2> DEFINE r == [IdleHook EXCEPT !.pc = "read", !.kind = "hide", !.seen = cursor]
  <2>1. ToHook(h, r) /\ UNCHANGED <<file, cursor, hidden>> BY <1>1 DEF HideStart
  <2>2. HookOK(r) BY <1>0, SMT DEF HookOK, IdleHook
  <2> HIDE DEF r
  <2>3. TranscriptOK' BY <2>1, <2>2, ToHookKeeps DEF Typed, TranscriptOK
  <2>4. Spend("hides") /\ "hides" \in Bounds BY <1>1 DEF HideStart, Bounds
  <2> QED BY <2>3, <2>4, SpendKeeps DEF Typed
<1>2. CASE HideRead(h)
  <2> DEFINE r == [k EXCEPT !.pc = "check", !.raw = file]
  <2>1. ToHook(h, IF file = << >> THEN IdleHook ELSE r) /\ UNCHANGED <<file, cursor, hidden>>
    BY <1>2 DEF HideRead
  <2>2. file # << >> => HookOK(r)
    <3> HIDE DEF k
    <3> QED BY <1>0, SMT DEF HookOK, IdleHook
  <2>3. LeftOK' BY <1>2 DEF HideRead, NoFault, Typed, LeftOK
  <2>4. HookOK(IF file = << >> THEN IdleHook ELSE r) BY <1>0, <2>2
  <2> DEFINE e == IF file = << >> THEN IdleHook ELSE r
  <2> HIDE DEF e
  <2>5. ToHook(h, e) /\ HookOK(e) BY <2>1, <2>4 DEF e
  <2> QED BY <2>1, <2>3, <2>5, ToHookKeeps DEF Typed, TranscriptOK
<1>3. CASE HideCheck(h)
  <2> DEFINE r == [k EXCEPT !.pc = "write"]
             e == IF cursor # k.seen /\ Resets(k.raw, cursor) THEN IdleHook ELSE r
  <2>1. ToHook(h, e) /\ UNCHANGED <<file, cursor, hidden>> BY <1>3 DEF HideCheck
  <2>2. HookOK(r)
    <3>1. k.pc = "check" BY <1>3 DEF HideCheck, HookAt
    <3> HIDE DEF k
    <3> QED BY <1>0, <3>1, SMT DEF HookOK, IdleHook
  <2>3. LeftOK' BY <1>3 DEF HideCheck, NoFault, Typed, LeftOK
  <2>4. HookOK(e)
    <3> HIDE DEF r
    <3> QED BY <1>0, <2>2
  <2> HIDE DEF e
  <2> QED BY <2>1, <2>3, <2>4, ToHookKeeps DEF Typed, TranscriptOK
<1>4. CASE HideWrite(h)
  <2> DEFINE n == [last |-> Last(k.raw), seq |-> SeqAt(k.seen), baseline |-> None, discarded |-> TRUE]
  <2>1. k.raw \in Seq(Line) /\ k.raw # << >> /\ k.seen \in Cursor \cup {None}
    BY <1>0, <1>4 DEF HideWrite, HookAt, HookOK
  <2>2. n \in NextCursor
    <3>1. Last(k.raw) \in Line
      <4> HIDE DEF k
      <4>1. << >> \in Seq(Seq(Line)) BY EmptySeq
      <4> QED BY <2>1, <4>1, AfterType
    <3>2. SeqAt(k.seen) \in Nat BY <2>1, CursorNumbers
    <3> QED BY <3>1, <3>2 DEF NextCursor
  <2>3. cursor' = Written(n) /\ hidden' = hidden \cup Range(Delta(k.raw, cursor)) /\ file' = file
        /\ ToHook(h, IdleHook)
    BY <1>4 DEF HideWrite
  <2> HIDE DEF n
  <2>4. cursor' \in Cursor \cup {None} BY <1>0, <2>2, <2>3, WrittenType
  <2>5. hidden' \subseteq Line
    <3>1. Delta(k.raw, cursor) \in Seq(Line) BY <2>1, DeltaIs
    <3>2. Range(Delta(k.raw, cursor)) \subseteq Line BY <3>1 DEF Range
    <3> QED BY <2>3, <3>2 DEF Typed, TranscriptOK
  <2>6. LeftOK' BY <1>4 DEF HideWrite, NoFault, Typed, LeftOK
  <2> QED BY <1>0, <2>3, <2>4, <2>5, <2>6, ToHookKeeps DEF Typed, TranscriptOK
<1> QED BY <1>1, <1>2, <1>3, <1>4 DEF Hide

LEMMA CrashHookKeeps ==
  ASSUME Typed, NEW h \in Hook, CrashHook(h)
  PROVE  TranscriptOK' /\ LeftOK'
<1>1. HookOK(IdleHook) BY SMT DEF HookOK, IdleHook
<1>2. ToHook(h, IdleHook) /\ UNCHANGED <<file, cursor, hidden>> BY DEF CrashHook
<1>3. TranscriptOK' BY <1>1, <1>2, ToHookKeeps DEF Typed, TranscriptOK
<1>4. Spend("hookCrashes") /\ "hookCrashes" \in Bounds BY DEF CrashHook, Bounds
<1> QED BY <1>3, <1>4, SpendKeeps DEF Typed

LEMMA WritingKeeps ==
  ASSUME Typed, AppendLine \/ Rewrite
  PROVE  TranscriptOK' /\ LeftOK'
<1>1. NewLine \in Line BY NewLineType DEF AppendLine, Rewrite, Typed
<1>2. file \in Seq(Line) BY DEF Typed, TranscriptOK
<1>3. file' \in Seq(Line)
  <2>1. CASE AppendLine BY <1>1, <1>2, <2>1, AppendProperties DEF AppendLine
  <2>2. CASE Rewrite
    <3>1. PICK k \in 0 .. Len(file) - 1 : file' = Append(SubSeq(file, 1, k), NewLine) BY <2>2 DEF Rewrite
    <3>2. k \in 0 .. Len(file) BY <1>2, SMT
    <3> QED BY <1>1, <1>2, <3>1, <3>2, AppendOne
  <2> QED BY <2>1, <2>2
<1>4. UNCHANGED <<cursor, hidden, hook>> BY DEF AppendLine, Rewrite
<1>5. (Spend("lines") \/ Spend("rewrites")) /\ "lines" \in Bounds /\ "rewrites" \in Bounds
  BY DEF AppendLine, Rewrite, Bounds
<1>6. LeftOK' BY <1>5, SpendKeeps DEF Typed
<1> QED BY <1>3, <1>4, <1>6 DEF Typed, TranscriptOK

-----------------------------------------------------------------------------
LEMMA ChunkWaits ==
  ASSUME NEW c \in Chunk, NEW w \in BOOLEAN
  PROVE  /\ [c EXCEPT !.waiting = w] \in Chunk
         /\ [c EXCEPT !.waiting = w].id = c.id
         /\ [c EXCEPT !.waiting = w].lines = c.lines
         /\ [c EXCEPT !.waiting = w].baseline = c.baseline
         /\ [c EXCEPT !.waiting = w].attempts = c.attempts
BY SMT DEF Chunk

LEMMA ChunkChanged ==
  ASSUME NEW c \in Chunk, NEW a \in Nat
  PROVE  /\ [c EXCEPT !.attempts = a, !.waiting = TRUE] \in Chunk
         /\ [c EXCEPT !.attempts = a, !.waiting = TRUE].id = c.id
         /\ [c EXCEPT !.attempts = a, !.waiting = TRUE].lines = c.lines
         /\ [c EXCEPT !.attempts = a, !.waiting = TRUE].baseline = c.baseline
         /\ [c EXCEPT !.attempts = a, !.waiting = TRUE].attempts = a
<1> DEFINE b == [c EXCEPT !.attempts = a]
<1>1. b \in Chunk /\ b.id = c.id /\ b.lines = c.lines /\ b.baseline = c.baseline /\ b.attempts = a
  BY SMT DEF Chunk
<1>2. [c EXCEPT !.attempts = a, !.waiting = TRUE] = [b EXCEPT !.waiting = TRUE] OBVIOUS
<1> HIDE DEF b
<1> QED BY <1>1, <1>2, ChunkWaits

(* A chunk takes the place of the one of its number, if that is still there. *)
ChunksOK(S) ==
  /\ S \subseteq Chunk /\ IsFiniteSet(S)
  /\ \A c \in S : c.id \in 1 .. Len(refused)
  /\ \A b, c \in S : b.id = c.id => b = c

LEMMA FewerChunks ==
  ASSUME QueueOK, NEW S, S \subseteq chunks
  PROVE  ChunksOK(S)
<1>1. IsFiniteSet(S) BY FS_Subset DEF QueueOK
<1> QED BY <1>1 DEF QueueOK, ChunksOK

LEMMA NotedKeeps ==
  ASSUME QueueOK, NEW c \in Chunk, c.id \in 1 .. Len(refused)
  PROVE  /\ ChunksOK(Noted(c.id, c))
         /\ \A x \in Noted(c.id, c) : x \in chunks \/ x = c
<1> DEFINE S == {b \in chunks : b.id # c.id}
<1>1. ChunksOK(S) BY FewerChunks
<1>2. chunks \ {b \in chunks : b.id = c.id} = S OBVIOUS
<1>3. IsFiniteSet(S \cup {c}) BY <1>1, FS_AddElement DEF ChunksOK
<1>4. \A x \in S : x.id # c.id OBVIOUS
<1> HIDE DEF S
<1>5. ChunksOK(S \cup {c}) BY <1>1, <1>3, <1>4 DEF ChunksOK
<1>6. ChunksOK(chunks) BY FewerChunks
<1>7. \A x \in S : x \in chunks BY DEF S
<1> QED BY <1>2, <1>5, <1>6, <1>7 DEF Noted

LEMMA EligibleType ==
  ASSUME QueueOK
  PROVE  Eligible \in Seq(1 .. Len(refused))
<1> DEFINE S == {c \in chunks : Ready(c)}
           R == {p \in S \X S : Before(p[1], p[2])}
           at == InOrder(S, R)
           n == Cardinality(S)
<1>1. ChunksOK(S) BY FewerChunks
<1>2. \A c \in S : c.seq \in Nat /\ c.id \in Nat BY <1>1 DEF ChunksOK, Chunk
<1>3. \A b, c \in S : b # c => b.id # c.id BY <1>1 DEF ChunksOK
<1>4. /\ \A x \in S : <<x, x>> \notin R
      /\ \A x, y, z \in S : <<x, y>> \in R /\ <<y, z>> \in R => <<x, z>> \in R
      /\ \A x, y \in S : x # y => <<x, y>> \in R \/ <<y, x>> \in R
  <2>1. \A x, y \in S : <<x, y>> \in R <=> Before(x, y) OBVIOUS
  <2> HIDE DEF S, R
  <2>2. /\ \A x \in S : ~ Before(x, x)
        /\ \A x, y, z \in S : Before(x, y) /\ Before(y, z) => Before(x, z)
        /\ \A x, y \in S : x # y => Before(x, y) \/ Before(y, x)
    BY <1>2, <1>3, SMT DEF Before
  <2> QED BY <2>1, <2>2
<1>5. IsFiniteSet(S) BY <1>1 DEF ChunksOK
<1>6. n \in Nat /\ at \in [1 .. n -> S]
  <2> HIDE DEF S, R
  <2> QED BY <1>4, <1>5, InOrderLists
<1>7. Eligible = [i \in 1 .. n |-> at[i].id]
  <2>1. DOMAIN at = 1 .. n BY <1>6
  <2> QED BY <2>1 DEF Eligible
<1>8. \A c \in S : c.id \in 1 .. Len(refused) BY <1>1 DEF ChunksOK
<1> HIDE DEF S, at, n
<1>9. Eligible \in [1 .. n -> 1 .. Len(refused)] BY <1>6, <1>7, <1>8
<1> QED BY <1>6, <1>9, FunctionIsSeq

\* What the collector makes of a request.
LEMMA MergedType ==
  ASSUME ObjectOK, NEW m \in Request
  PROVE  Merged(object, m) \in [lines : Seq(Line), baseline : Nat]
<1>1. object.lines \in Seq(Line) /\ object.baseline \in Nat /\ m.lines \in Seq(Line) /\ m.baseline \in Nat
  BY DEF ObjectOK, Request
<1> DEFINE more == object.lines \o Without(m.lines, Range(object.lines))
<1>2. more \in Seq(Line) BY <1>1, WithoutKeeps, ConcatProperties
<1>3. CASE m.baseline > object.baseline
  <2>1. m.baseline # object.baseline BY <1>1, <1>3, SMT
  <2>2. Merged(object, m) = [lines |-> m.lines, baseline |-> m.baseline]
    BY <1>3, <2>1, Zenon DEF Merged
  <2> QED BY <1>1, <2>2
<1>4. CASE m.baseline = object.baseline
  <2>1. Merged(object, m) = [object EXCEPT !.lines = more]
    <3>1. ~ (m.baseline > object.baseline) BY <1>1, <1>4, SMT
    <3> QED BY <1>4, <3>1, Zenon DEF Merged
  <2> HIDE DEF more
  <2> QED BY <1>2, <2>1 DEF ObjectOK
<1>5. CASE ~ (m.baseline > object.baseline) /\ m.baseline # object.baseline
  BY <1>5 DEF Merged, ObjectOK
<1> QED BY <1>3, <1>4, <1>5

\* A drain's record stays one as more chunks are sealed.
LEMMA MoreRefusals ==
  ASSUME NEW k, NEW n \in Nat, NEW m \in Nat, n <= m, DrainOK(k, n)
  PROVE  DrainOK(k, m)
<1>1. 1 .. n \subseteq 1 .. m BY SMT
<1>2. k.todo \in Seq(1 .. m) BY <1>1, SeqMonotonic DEF DrainOK
<1>3. k.pc = "waiting" => k.meta.id \in 1 .. m BY <1>1 DEF DrainOK
<1> QED BY <1>2, <1>3 DEF DrainOK

LEMMA RefusedLen ==
  ASSUME QueueOK
  PROVE  Len(refused) \in Nat
BY DEF QueueOK

LEMMA EmptyTodo == \A n : << >> \in Seq(1 .. n)
BY EmptySeq

(* The records drains pass through. *)
LEMMA DrainRecords ==
  ASSUME NEW k, NEW n \in Nat, DrainOK(k, n)
  PROVE  /\ \A pc \in {"idle", "unlink", "open"} : DrainOK([IdleDrain EXCEPT !.pc = pc], n)
         /\ DrainOK(IdleDrain, n)
         /\ \A pc \in {"open", "list"} : DrainOK([k EXCEPT !.pc = pc], n)
         /\ \A s \in Seq(1 .. n) : DrainOK([k EXCEPT !.pc = "next", !.todo = s], n)
         /\ \A s \in Seq(1 .. n) : DrainOK([k EXCEPT !.pc = "next", !.todo = s, !.meta = None], n)
         /\ \A s \in Seq(1 .. n) :
              DrainOK([k EXCEPT !.pc = "next", !.meta = None, !.todo = s, !.retried = TRUE], n)
         /\ \A c \in Chunk : c.id \in 1 .. n /\ k.todo # << >> =>
              DrainOK([k EXCEPT !.pc = "waiting", !.meta = c], n)
<1>1. \A pc \in {"idle", "unlink", "open"} : DrainOK([IdleDrain EXCEPT !.pc = pc], n)
  BY EmptyTodo, SMT DEF DrainOK, IdleDrain
<1>2. DrainOK(IdleDrain, n) BY EmptyTodo, SMT DEF DrainOK, IdleDrain
<1>3. \A pc \in {"open", "list"} : DrainOK([k EXCEPT !.pc = pc], n) BY SMT DEF DrainOK, IdleDrain
<1>4. \A s \in Seq(1 .. n) : DrainOK([k EXCEPT !.pc = "next", !.todo = s], n)
  BY SMT DEF DrainOK, IdleDrain
<1>5. \A s \in Seq(1 .. n) : DrainOK([k EXCEPT !.pc = "next", !.todo = s, !.meta = None], n)
  BY SMT DEF DrainOK, IdleDrain
<1>6. \A s \in Seq(1 .. n) :
        DrainOK([k EXCEPT !.pc = "next", !.meta = None, !.todo = s, !.retried = TRUE], n)
  BY SMT DEF DrainOK, IdleDrain
<1>7. \A c \in Chunk : c.id \in 1 .. n /\ k.todo # << >> =>
        DrainOK([k EXCEPT !.pc = "waiting", !.meta = c], n)
  BY SMT DEF DrainOK, IdleDrain
<1> QED BY <1>1, <1>2, <1>3, <1>4, <1>5, <1>6, <1>7

LEMMA TouchType ==
  ASSUME lock \in {None, "fresh", "stale"}, Touch
  PROVE  lock' \in {None, "fresh", "stale"}
BY DEF Touch

LEMMA QueueUnchanged ==
  ASSUME QueueOK, UNCHANGED Queue
  PROVE  QueueOK' /\ Len(refused') = Len(refused)
BY DEF QueueOK, Queue

LEMMA LockStepsKeep ==
  ASSUME Typed, NEW d \in Drain, StatLock(d) \/ UnlinkLock(d) \/ OpenLock(d) \/ ListChunks(d) \/ Release(d)
  PROVE  QueueOK' /\ UploadsOK' /\ ObjectOK' /\ LeftOK'
<1> DEFINE k == drain[d]
           n == Len(refused)
<1>0. n \in Nat /\ DrainOK(k, n) BY RefusedLen DEF Typed, UploadsOK
<1>1. UNCHANGED <<Queue, net, object>> /\ NoFault
  BY DEF StatLock, UnlinkLock, OpenLock, ListChunks, Release
<1>2. QueueOK' /\ n' = n BY <1>1, QueueUnchanged DEF Typed
<1>3. ObjectOK' /\ LeftOK' BY <1>1 DEF Typed, ObjectOK, LeftOK, NoFault
<1>4. lock' \in {None, "fresh", "stale"} /\ \E r : ToDrain(d, r) /\ DrainOK(r, n)
  <2> HIDE DEF n, k
  <2>1. CASE StatLock(d)
    <3> DEFINE pc == IF lock = "stale" THEN "unlink" ELSE "open"
    <3>1. pc \in {"idle", "unlink", "open"} OBVIOUS
    <3>2. ToDrain(d, [IdleDrain EXCEPT !.pc = pc]) /\ lock' = lock BY <2>1 DEF StatLock
    <3> HIDE DEF pc
    <3>3. DrainOK([IdleDrain EXCEPT !.pc = pc], n) BY <1>0, <3>1, DrainRecords
    <3> QED BY <3>2, <3>3 DEF Typed, UploadsOK
  <2>2. CASE UnlinkLock(d)
    <3>1. ToDrain(d, [k EXCEPT !.pc = "open"]) /\ lock' = None BY <2>2 DEF UnlinkLock, k
    <3> QED BY <1>0, <3>1, DrainRecords
  <2>3. CASE OpenLock(d)
    <3>1. \/ ToDrain(d, [k EXCEPT !.pc = "list"]) /\ lock' = "fresh"
          \/ ToDrain(d, IdleDrain) /\ lock' = lock
      BY <2>3 DEF OpenLock, k
    <3>2. DrainOK([k EXCEPT !.pc = "list"], n) /\ DrainOK(IdleDrain, n) BY <1>0, DrainRecords
    <3> QED BY <3>1, <3>2 DEF Typed, UploadsOK
  <2>4. CASE ListChunks(d)
    <3>1. ToDrain(d, [k EXCEPT !.pc = "next", !.todo = Eligible]) /\ lock' = lock
      BY <2>4 DEF ListChunks, k
    <3>2. Eligible \in Seq(1 .. n) BY EligibleType DEF Typed, n
    <3> QED BY <1>0, <3>1, <3>2, DrainRecords DEF Typed, UploadsOK
  <2>5. CASE Release(d)
    <3>1. ToDrain(d, IdleDrain) /\ lock' = None BY <2>5 DEF Release
    <3> QED BY <1>0, <3>1, DrainRecords
  <2> QED BY <2>1, <2>2, <2>3, <2>4, <2>5
<1>5. UploadsOK'
  <2> HIDE DEF n
  <2>1. drain' = [e \in Drain |-> drain'[e]] /\ \A e \in Drain : DrainOK(drain'[e], n)
    BY <1>4, ToDrainKeeps DEF Typed, UploadsOK, n
  <2> QED BY <1>1, <1>2, <1>4, <2>1 DEF Typed, UploadsOK, n
<1> QED BY <1>2, <1>3, <1>5

LEMMA SendKeeps ==
  ASSUME Typed, NEW d \in Drain, Send(d)
  PROVE  QueueOK' /\ UploadsOK' /\ ObjectOK' /\ LeftOK'
<1> DEFINE k == drain[d]
           n == Len(refused)
<1>0. n \in Nat /\ DrainOK(k, n) /\ k.todo # << >> BY RefusedLen DEF Typed, UploadsOK, Send
<1>1. UNCHANGED <<Queue, object>> /\ (NoFault \/ Spend("withheld")) BY DEF Send
<1>2. QueueOK' /\ n' = n BY <1>1, QueueUnchanged DEF Typed
<1>3. ObjectOK' BY <1>1 DEF Typed, ObjectOK
<1>4. LeftOK'
  <2>1. "withheld" \in Bounds BY DEF Bounds
  <2> QED BY <1>1, <2>1, SpendKeeps DEF Typed
<1>5. \/ Hold(d) /\ Touch /\ UNCHANGED net
      \/ \E c \in chunks :
          /\ net' = net \cup {[by |-> d, id |-> c.id, lines |-> c.lines, baseline |-> c.baseline]}
          /\ ToDrain(d, [k EXCEPT !.pc = "waiting", !.meta = c])
          /\ UNCHANGED lock
  BY DEF Send
<1>6. lock' \in {None, "fresh", "stale"} BY <1>5, TouchType DEF Typed, UploadsOK
<1>7. net' \subseteq Request /\ \E r : ToDrain(d, r) /\ DrainOK(r, n)
  <2>1. CASE Hold(d) /\ UNCHANGED net
    <3>1. ToDrain(d, [k EXCEPT !.pc = "next", !.todo = << >>, !.meta = None]) BY <2>1 DEF Hold
    <3> HIDE DEF k, n
    <3> QED BY <1>0, <2>1, <3>1, DrainRecords, EmptyTodo DEF Typed, UploadsOK
  <2>2. ASSUME NEW c \in chunks,
               net' = net \cup {[by |-> d, id |-> c.id, lines |-> c.lines, baseline |-> c.baseline]},
               ToDrain(d, [k EXCEPT !.pc = "waiting", !.meta = c])
        PROVE  net' \subseteq Request /\ \E r : ToDrain(d, r) /\ DrainOK(r, n)
    <3>1. c \in Chunk /\ c.id \in 1 .. n BY DEF Typed, QueueOK
    <3>2. [by |-> d, id |-> c.id, lines |-> c.lines, baseline |-> c.baseline] \in Request
      BY <3>1 DEF Request, Chunk
    <3> HIDE DEF k, n
    <3> QED BY <1>0, <2>2, <3>1, <3>2, DrainRecords DEF Typed, UploadsOK
  <2> QED BY <1>5, <2>1, <2>2
<1>8. UploadsOK'
  <2> HIDE DEF n
  <2>1. drain' = [e \in Drain |-> drain'[e]] /\ \A e \in Drain : DrainOK(drain'[e], n)
    BY <1>7, ToDrainKeeps DEF Typed, UploadsOK, n
  <2> QED BY <1>2, <1>6, <1>7, <2>1 DEF Typed, UploadsOK, n
<1> QED BY <1>2, <1>3, <1>4, <1>8

(* What the three outcomes that keep a chunk write: the meta a drain read before it sent. *)
LEMMA MetaType ==
  ASSUME Typed, NEW d \in Drain, DrainAt(d, "waiting")
  PROVE  /\ Len(refused) \in Nat /\ DrainOK(drain[d], Len(refused))
         /\ drain[d].meta \in Chunk /\ drain[d].meta.id \in 1 .. Len(refused)
         /\ drain[d].todo # << >>
BY RefusedLen DEF Typed, UploadsOK, DrainOK, DrainAt

LEMMA HoldKeeps ==
  ASSUME Typed, NEW d \in Drain, Hold(d)
  PROVE  \E r : ToDrain(d, r) /\ DrainOK(r, Len(refused))
<1> DEFINE k == drain[d]
           n == Len(refused)
<1>1. n \in Nat /\ DrainOK(k, n) BY RefusedLen DEF Typed, UploadsOK
<1>2. ToDrain(d, [k EXCEPT !.pc = "next", !.todo = << >>, !.meta = None]) BY DEF Hold
<1> HIDE DEF k, n
<1>3. \E r : ToDrain(d, r) /\ DrainOK(r, n) BY <1>1, <1>2, DrainRecords, EmptyTodo
<1> QED BY <1>3 DEF n

LEMMA DeferredKeeps ==
  ASSUME Typed, NEW d \in Drain, DrainAt(d, "waiting"), Deferred(d)
  PROVE  /\ expired' = expired => QueueOK'
         /\ Len(refused') = Len(refused)
         /\ \E r : ToDrain(d, r) /\ DrainOK(r, Len(refused))
<1> DEFINE c == [drain[d].meta EXCEPT !.waiting = TRUE]
<1>1. c \in Chunk /\ c.id = drain[d].meta.id /\ c.id \in 1 .. Len(refused) BY MetaType, ChunkWaits
<1>2. chunks' = Noted(c.id, c) /\ UNCHANGED <<aside, refused>> /\ Hold(d) BY <1>1 DEF Deferred
<1> HIDE DEF c
<1>3. ChunksOK(chunks') BY <1>1, <1>2, NotedKeeps DEF Typed
<1>4. expired' = expired => QueueOK' BY <1>2, <1>3 DEF QueueOK, ChunksOK, Typed
<1> QED BY <1>2, <1>4, HoldKeeps

LEMMA RefusedKeeps ==
  ASSUME Typed, NEW d \in Drain, DrainAt(d, "waiting"), Refused(d)
  PROVE  /\ expired' = expired => QueueOK'
         /\ Len(refused') = Len(refused)
         /\ \E r : ToDrain(d, r) /\ DrainOK(r, Len(refused))
<1> DEFINE k == drain[d].meta
           a == k.attempts + 1
           c == [k EXCEPT !.attempts = a, !.waiting = TRUE]
<1>0. k \in Chunk /\ k.id \in 1 .. Len(refused) /\ a \in Nat
  <2>1. k \in Chunk /\ k.id \in 1 .. Len(refused) BY MetaType
  <2>2. k.attempts \in Nat BY <2>1 DEF Chunk
  <2> QED BY <2>1, <2>2, SMT
<1>1. c \in Chunk /\ c.id = k.id /\ c.id \in 1 .. Len(refused)
  <2> HIDE DEF k, a
  <2> QED BY <1>0, ChunkChanged
<1>2. /\ refused' = [refused EXCEPT ![c.id] = @ + 1]
      /\ \/ chunks' = {b \in chunks : b.id # c.id} /\ aside' = aside \cup {c}
         \/ chunks' = Noted(c.id, c) /\ aside' = aside
      /\ Hold(d)
  BY DEF Refused
<1> HIDE DEF c
<1>3. refused' \in Seq(Nat) /\ Len(refused') = Len(refused)
  <2> DEFINE i == c.id
  <2>1. refused \in Seq(Nat) /\ i \in 1 .. Len(refused) BY <1>1 DEF Typed, QueueOK
  <2>2. refused[i] + 1 \in Nat BY <2>1, SMT
  <2> DEFINE e == refused[i] + 1
  <2>3. refused' = [refused EXCEPT ![i] = e] BY <1>2
  <2> HIDE DEF i, e
  <2>4. e \in Nat BY <2>2 DEF e
  <2> QED BY <2>1, <2>3, <2>4, ExceptSeq
<1>4. ChunksOK(chunks')
  <2>1. ChunksOK({b \in chunks : b.id # c.id}) BY FewerChunks DEF Typed
  <2>2. ChunksOK(Noted(c.id, c)) BY <1>1, NotedKeeps DEF Typed
  <2> QED BY <1>2, <2>1, <2>2
<1>5. aside' \subseteq Chunk /\ \A x \in aside' : x.id \in 1 .. Len(refused)
  BY <1>1, <1>2 DEF Typed, QueueOK
<1>6. expired' = expired => QueueOK' BY <1>3, <1>4, <1>5 DEF QueueOK, ChunksOK, Typed
<1> QED BY <1>2, <1>3, <1>6, HoldKeeps

LEMMA AnswerKeeps ==
  ASSUME Typed, NEW d \in Drain, Answer(d)
  PROVE  QueueOK' /\ UploadsOK' /\ ObjectOK' /\ LeftOK'
<1> DEFINE k == drain[d]
           n == Len(refused)
<1>0. /\ DrainAt(d, "waiting") /\ n \in Nat /\ DrainOK(k, n) /\ k.todo # << >>
      /\ Touch /\ expired' = expired
  BY MetaType DEF Answer
<1>1. PICK m \in net :
        /\ net' = net \ {m}
        /\ \/ Uploaded(d, m)
           \/ UNCHANGED object /\ Refused(d) /\ Spend("refusals")
           \/ UNCHANGED object /\ Deferred(d) /\ Spend("deferrals")
           \/ UNCHANGED object /\ Rejected(d) /\ Spend("rejections")
  BY DEF Answer
<1>2. m \in Request /\ net' \subseteq Request BY <1>1 DEF Typed, UploadsOK
<1>3. lock' \in {None, "fresh", "stale"} BY <1>0, TouchType DEF Typed, UploadsOK
<1>4. /\ "refusals" \in Bounds /\ "deferrals" \in Bounds /\ "rejections" \in Bounds
  BY DEF Bounds
<1>5. LeftOK'
  <2>1. CASE Uploaded(d, m) BY <2>1 DEF Uploaded, NoFault, Typed, LeftOK
  <2> QED BY <1>1, <1>4, <2>1, SpendKeeps DEF Typed
<1>6. k.todo \in Seq(1 .. n) BY <1>0 DEF DrainOK
<1>7. Tail(k.todo) \in Seq(1 .. n) /\ <<Head(k.todo)>> \in Seq(1 .. n)
  <2> DEFINE S == 1 .. n
  <2> HIDE DEF S
  <2>1. k.todo \in Seq(S) /\ k.todo # << >> BY <1>0, <1>6 DEF S
  <2> HIDE DEF k, n
  <2>2. Tail(k.todo) \in Seq(S) /\ Head(k.todo) \in S BY <2>1, HeadTailProperties
  <2>3. <<Head(k.todo)>> \in Seq(S) BY <2>2, SMT
  <2> QED BY <2>2, <2>3 DEF S
<1>8. /\ QueueOK' /\ ObjectOK' /\ Len(refused') = n
      /\ \E r : ToDrain(d, r) /\ DrainOK(r, n)
  <2>1. CASE Uploaded(d, m)
    <3>1. object' = Merged(object, m) BY <2>1 DEF Uploaded
    <3>2. ObjectOK' BY <1>2, <3>1, MergedType DEF Typed, ObjectOK
    <3>3. chunks' = {c \in chunks : c.id # m.id} /\ UNCHANGED <<aside, refused>> BY <2>1 DEF Uploaded
    <3>4. ChunksOK(chunks') BY <3>3, FewerChunks DEF Typed
    <3>5. QueueOK' BY <1>0, <3>3, <3>4 DEF Typed, QueueOK, ChunksOK
    <3>6. ToDrain(d, [k EXCEPT !.pc = "next", !.todo = Tail(k.todo), !.meta = None])
      BY <2>1 DEF Uploaded
    <3> DEFINE s == Tail(k.todo)
    <3> HIDE DEF k, n, s
    <3>7. DrainOK([k EXCEPT !.pc = "next", !.todo = s, !.meta = None], n)
      BY <1>0, <1>7, DrainRecords DEF s
    <3> QED BY <3>2, <3>3, <3>5, <3>6, <3>7 DEF n, s
  <2>2. CASE UNCHANGED object /\ Refused(d)
    <3>1. ObjectOK' BY <2>2 DEF Typed, ObjectOK
    <3> QED BY <1>0, <2>2, <3>1, RefusedKeeps
  <2>3. CASE UNCHANGED object /\ Deferred(d)
    <3>1. ObjectOK' BY <2>3 DEF Typed, ObjectOK
    <3> QED BY <1>0, <2>3, <3>1, DeferredKeeps
  <2>4. CASE UNCHANGED object /\ Rejected(d)
    <3>1. ObjectOK' BY <2>4 DEF Typed, ObjectOK
    <3>2. UNCHANGED <<chunks, aside, refused>> BY <2>4 DEF Rejected
    <3>3. QueueOK' /\ Len(refused') = n BY <1>0, <3>2 DEF Typed, QueueOK
    <3>4. \/ ToDrain(d, [k EXCEPT !.pc = "next", !.meta = None, !.todo = <<Head(k.todo)>>, !.retried = TRUE])
          \/ Hold(d)
      BY <2>4 DEF Rejected
    <3>5. CASE Hold(d) BY <3>1, <3>3, <3>5, HoldKeeps
    <3>6. CASE ToDrain(d, [k EXCEPT !.pc = "next", !.meta = None, !.todo = <<Head(k.todo)>>, !.retried = TRUE])
      <4> DEFINE s == <<Head(k.todo)>>
      <4>1. ToDrain(d, [k EXCEPT !.pc = "next", !.meta = None, !.todo = s, !.retried = TRUE]) BY <3>6
      <4> HIDE DEF k, n, s
      <4>2. DrainOK([k EXCEPT !.pc = "next", !.meta = None, !.todo = s, !.retried = TRUE], n)
        BY <1>0, <1>7, DrainRecords DEF s
      <4> QED BY <3>1, <3>3, <4>1, <4>2 DEF n
    <3> QED BY <3>4, <3>5, <3>6
  <2> QED BY <1>1, <2>1, <2>2, <2>3, <2>4
<1>9. UploadsOK'
  <2> HIDE DEF n
  <2>1. drain' = [e \in Drain |-> drain'[e]] /\ \A e \in Drain : DrainOK(drain'[e], n)
    BY <1>8, ToDrainKeeps DEF Typed, UploadsOK, n
  <2> QED BY <1>2, <1>3, <1>8, <2>1 DEF Typed, UploadsOK, n
<1> QED BY <1>5, <1>8, <1>9

LEMMA TimeoutKeeps ==
  ASSUME Typed, NEW d \in Drain, Timeout(d)
  PROVE  QueueOK' /\ UploadsOK' /\ ObjectOK' /\ LeftOK'
<1> DEFINE n == Len(refused)
<1>0. DrainAt(d, "waiting") /\ Deferred(d) /\ Touch /\ UNCHANGED <<expired, object>> BY DEF Timeout
<1>1. \/ net' = net /\ NoFault
      \/ (\E m \in net : net' = (net \ {m}) \cup {[m EXCEPT !.by = None]}) /\ Spend("losses")
  BY DEF Timeout
<1>2. net' \subseteq Request
  <2>1. \A m \in Request : [m EXCEPT !.by = None] \in Request BY SMT DEF Request
  <2> QED BY <1>1, <2>1 DEF Typed, UploadsOK
<1>3. "losses" \in Bounds BY DEF Bounds
<1>4. LeftOK' BY <1>1, <1>3, SpendKeeps DEF Typed
<1>5. lock' \in {None, "fresh", "stale"} BY <1>0, TouchType DEF Typed, UploadsOK
<1>6. ObjectOK' BY <1>0 DEF Typed, ObjectOK
<1>7. QueueOK' /\ Len(refused') = n /\ \E r : ToDrain(d, r) /\ DrainOK(r, n) BY <1>0, DeferredKeeps
<1>8. UploadsOK'
  <2> HIDE DEF n
  <2>1. drain' = [e \in Drain |-> drain'[e]] /\ \A e \in Drain : DrainOK(drain'[e], n)
    BY <1>7, ToDrainKeeps DEF Typed, UploadsOK, n
  <2> QED BY <1>2, <1>5, <1>7, <2>1 DEF Typed, UploadsOK, n
<1> QED BY <1>4, <1>6, <1>7, <1>8

LEMMA CrashDrainKeeps ==
  ASSUME Typed, NEW d \in Drain, CrashDrain(d)
  PROVE  QueueOK' /\ UploadsOK' /\ ObjectOK' /\ LeftOK'
<1> DEFINE n == Len(refused)
<1>0. UNCHANGED <<Queue, lock, object>> /\ ToDrain(d, IdleDrain) BY DEF CrashDrain
<1>1. QueueOK' /\ n' = n BY <1>0, QueueUnchanged DEF Typed
<1>2. Spend("drainCrashes") /\ "drainCrashes" \in Bounds BY DEF CrashDrain, Bounds
<1>3. LeftOK' BY <1>2, SpendKeeps DEF Typed
<1>4. ObjectOK' BY <1>0 DEF Typed, ObjectOK
<1>5. net' \subseteq Request
  <2>1. \A m \in Request : [m EXCEPT !.by = None] \in Request BY SMT DEF Request
  <2>2. \A x \in net' : \E m \in net : x = m \/ x = [m EXCEPT !.by = None] BY DEF CrashDrain
  <2> QED BY <2>1, <2>2 DEF Typed, UploadsOK
<1>6. n \in Nat /\ DrainOK(drain[d], n) BY RefusedLen DEF Typed, UploadsOK
<1>7. UploadsOK'
  <2> HIDE DEF n
  <2>1. DrainOK(IdleDrain, n) BY <1>6, DrainRecords
  <2>2. drain' = [e \in Drain |-> drain'[e]] /\ \A e \in Drain : DrainOK(drain'[e], n)
    BY <1>0, <2>1, ToDrainKeeps DEF Typed, UploadsOK, n
  <2> QED BY <1>0, <1>1, <1>5, <2>2 DEF Typed, UploadsOK, n
<1> QED BY <1>1, <1>3, <1>4, <1>7

LEMMA RequestsKeep ==
  ASSUME Typed, NEW m \in net, LoseAnswer(m) \/ ArriveLate(m)
  PROVE  QueueOK' /\ UploadsOK' /\ ObjectOK' /\ LeftOK'
<1>0. UNCHANGED <<Queue, drain, lock>> /\ object' = Merged(object, m) /\ net' = net \ {m}
      /\ (NoFault \/ Spend("losses"))
  BY DEF LoseAnswer, ArriveLate
<1>1. QueueOK' /\ Len(refused') = Len(refused) BY <1>0, QueueUnchanged DEF Typed
<1>2. "losses" \in Bounds BY DEF Bounds
<1>3. LeftOK' BY <1>0, <1>2, SpendKeeps DEF Typed
<1>4. m \in Request BY DEF Typed, UploadsOK
<1>5. ObjectOK' BY <1>0, <1>4, MergedType DEF Typed, ObjectOK
<1>6. UploadsOK' BY <1>0, <1>1 DEF Typed, UploadsOK
<1> QED BY <1>1, <1>3, <1>5, <1>6

LEMMA TimeKeeps ==
  ASSUME Typed, LockAges \/ BackoffOver \/ Expire
  PROVE  QueueOK' /\ UploadsOK' /\ ObjectOK' /\ LeftOK'
<1>0. /\ UNCHANGED <<drain, net, object, refused, aside>> /\ (lock' = lock \/ lock' = "stale")
      /\ (NoFault \/ Spend("stalls") \/ Spend("expiries"))
  BY DEF LockAges, BackoffOver, Expire, Queue, Uploads
<1>1. "stalls" \in Bounds /\ "expiries" \in Bounds BY DEF Bounds
<1>2. LeftOK' BY <1>0, <1>1, SpendKeeps DEF Typed
<1>3. UploadsOK' /\ ObjectOK' BY <1>0 DEF Typed, UploadsOK, ObjectOK
<1>4. ChunksOK(chunks') /\ expired' \subseteq Chunk
  <2>1. CASE LockAges
    <3>1. chunks' = chunks /\ expired' = expired BY <2>1 DEF LockAges, Queue
    <3>2. ChunksOK(chunks) BY FewerChunks DEF Typed
    <3> QED BY <3>1, <3>2 DEF Typed, QueueOK
  <2>2. CASE BackoffOver
    <3>1. PICK c \in chunks : chunks' = (chunks \ {c}) \cup {[c EXCEPT !.waiting = FALSE]}
      BY <2>2 DEF BackoffOver
    <3> DEFINE b == [c EXCEPT !.waiting = FALSE]
    <3>2. c \in Chunk /\ c.id \in 1 .. Len(refused) BY DEF Typed, QueueOK
    <3>3. b \in Chunk /\ b.id = c.id BY <3>2, ChunkWaits
    <3>4. chunks' = (chunks \ {c}) \cup {b} BY <3>1
    <3> HIDE DEF b
    <3>5. {x \in chunks : x.id = b.id} = {c} /\ b.id \in Ids(chunks) BY <3>3 DEF Typed, QueueOK, Ids
    <3>6. chunks' = Noted(b.id, b) BY <3>4, <3>5 DEF Noted
    <3>7. expired' = expired BY <2>2 DEF BackoffOver
    <3> QED BY <3>2, <3>3, <3>6, <3>7, NotedKeeps DEF Typed, QueueOK
  <2>3. CASE Expire
    <3>1. PICK c \in chunks : chunks' = chunks \ {c} /\ expired' = expired \cup {c} BY <2>3 DEF Expire
    <3>2. ChunksOK(chunks \ {c}) BY FewerChunks DEF Typed
    <3> QED BY <3>1, <3>2 DEF Typed, QueueOK
  <2> QED BY <2>1, <2>2, <2>3
<1>5. QueueOK' BY <1>0, <1>4 DEF Typed, QueueOK, ChunksOK
<1> QED BY <1>2, <1>3, <1>5

LEMMA SealChunkKeeps ==
  ASSUME Typed, NEW h \in Hook, SealChunk(h)
  PROVE  QueueOK' /\ UploadsOK' /\ ObjectOK'
<1> DEFINE p == Head(hook[h].todo)
           n == Len(refused)
           c == [id |-> n + 1, lines |-> p.lines, seq |-> p.seq, baseline |-> p.baseline,
                 attempts |-> 0, waiting |-> FALSE]
<1>0. p \in Piece /\ n \in Nat BY SealChunkKeepsHooks, RefusedLen DEF Typed
<1>1. UNCHANGED <<aside, expired, drain, lock, net, object>> BY DEF SealChunk, Uploads
<1>2. \/ chunks' = chunks \cup {c} /\ refused' = Append(refused, 0)
      \/ UNCHANGED <<chunks, refused>>
  BY DEF SealChunk
<1>3. CASE UNCHANGED <<chunks, refused>>
  BY <1>1, <1>3 DEF Typed, QueueOK, UploadsOK, ObjectOK
<1>4. CASE chunks' = chunks \cup {c} /\ refused' = Append(refused, 0)
  <2>1. refused' \in Seq(Nat) /\ Len(refused') = n + 1 BY <1>4, AppendProperties DEF Typed, QueueOK
  <2>2. n + 1 \in Nat /\ n <= n + 1 /\ n + 1 \in 1 .. n + 1 /\ n + 1 \notin 1 .. n /\ 1 .. n \subseteq 1 .. n + 1
    BY <1>0, SMT
  <2>3. c \in Chunk /\ c.id = n + 1 BY <1>0, <2>2 DEF Chunk, Piece
  <2> DEFINE i == n + 1
  <2>4. \A d \in Drain : DrainOK(drain[d], i) BY <1>0, <2>2, MoreRefusals DEF Typed, UploadsOK
  <2>5. c \in Chunk /\ c.id = i /\ \A b \in chunks \cup aside : b.id \in 1 .. n BY <2>3 DEF Typed, QueueOK
  <2>6. i \notin 1 .. n /\ 1 .. n \subseteq 1 .. i /\ i \in 1 .. i BY <2>2
  <2>7. chunks' = chunks \cup {c} BY <1>4
  <2>8. Len(refused') = i BY <2>1
  <2> HIDE DEF c, i, n
  <2>9. QueueOK'
    <3>1. IsFiniteSet(chunks') BY <2>7, FS_AddElement DEF Typed, QueueOK
    <3>2. chunks' \subseteq Chunk BY <2>5, <2>7 DEF Typed, QueueOK
    <3>3. \A x \in chunks' \cup aside' : x.id \in 1 .. i BY <1>1, <2>5, <2>6, <2>7
    <3>4. \A x, y \in chunks' : x.id = y.id => x = y BY <2>5, <2>6, <2>7 DEF Typed, QueueOK
    <3> QED BY <1>1, <2>1, <2>8, <3>1, <3>2, <3>3, <3>4 DEF Typed, QueueOK
  <2>10. UploadsOK' BY <1>1, <2>4, <2>8 DEF Typed, UploadsOK
  <2> QED BY <1>1, <2>9, <2>10 DEF Typed, ObjectOK
<1> QED BY <1>2, <1>3, <1>4

\* Every step keeps the types.
LEMMA TypedStep == Typed /\ [Next]_vars => Typed'
<1> SUFFICES ASSUME Typed, [Next]_vars PROVE Typed' OBVIOUS
<1>1. ASSUME UNCHANGED <<Queue, Uploads, object>> PROVE QueueOK' /\ UploadsOK' /\ ObjectOK'
  <2>1. QueueOK' /\ Len(refused') = Len(refused) BY <1>1, QueueUnchanged DEF Typed
  <2> QED BY <1>1, <2>1 DEF Typed, UploadsOK, ObjectOK, Uploads
<1>2. ASSUME UNCHANGED Transcript PROVE TranscriptOK'
  BY <1>2 DEF Typed, TranscriptOK, Transcript
<1>3. CASE AppendLine \/ Rewrite
  <2>1. UNCHANGED <<Queue, Uploads, object>> BY <1>3 DEF AppendLine, Rewrite
  <2> QED BY <1>1, <1>3, <2>1, WritingKeeps DEF Typed
<1>4. ASSUME NEW h \in Hook, Stage(h) \/ ImportStart(h) \/ ImportPlan(h) \/ Hide(h) \/ CrashHook(h)
      PROVE  Typed'
  <2>1. CASE SealChunk(h) BY <2>1, SealChunkKeepsHooks, SealChunkKeeps DEF Typed
  <2>2. ASSUME ~ SealChunk(h) PROVE UNCHANGED <<Queue, Uploads, object>>
    BY <1>4, <2>2 DEF Stage, StageRead, StagePlan, MoveCursor, ImportStart, ImportPlan, Hide,
         HideStart, HideRead, HideCheck, HideWrite, CrashHook
  <2>3. ~ SealChunk(h) => TranscriptOK' /\ LeftOK'
    BY <1>4, StageReadKeeps, StagePlanKeeps, MoveCursorKeeps, ImportStartKeeps, ImportPlanKeeps,
       HideKeeps, CrashHookKeeps DEF Stage
  <2> QED BY <1>1, <2>1, <2>2, <2>3 DEF Typed
<1>5. ASSUME NEW d \in Drain, Upload(d) \/ CrashDrain(d) PROVE Typed'
  <2>1. UNCHANGED Transcript
    BY <1>5 DEF Upload, StatLock, UnlinkLock, OpenLock, ListChunks, Send, Answer, Timeout, Release, CrashDrain
  <2> QED BY <1>2, <1>5, <2>1, LockStepsKeep, SendKeeps, AnswerKeeps, TimeoutKeeps, CrashDrainKeeps
          DEF Typed, Upload
<1>6. ASSUME NEW m \in net, LoseAnswer(m) \/ ArriveLate(m) PROVE Typed'
  <2>1. UNCHANGED Transcript BY <1>6 DEF LoseAnswer, ArriveLate
  <2> QED BY <1>2, <1>6, <2>1, RequestsKeep DEF Typed
<1>7. CASE LockAges \/ BackoffOver \/ Expire
  <2>1. UNCHANGED Transcript BY <1>7 DEF LockAges, BackoffOver, Expire
  <2> QED BY <1>2, <1>7, <2>1, TimeKeeps DEF Typed
<1>8. CASE UNCHANGED vars
  BY <1>1, <1>2, <1>8 DEF vars, Typed, LeftOK
<1> QED BY <1>3, <1>4, <1>5, <1>6, <1>7, <1>8 DEF Next

(* Every state is well typed: whatever a process read, carries and writes has the *)
(* form the next one relies on (readCursor, readChunk and the sidecar's fields).   *)
THEOREM TypeCorrect == Spec => []TypeOK
<1>1. Spec => []Typed BY TypedInit, TypedStep, PTL DEF Spec
<1> QED BY <1>1, TypedMeansTypeOK, PTL

-----------------------------------------------------------------------------
(* The retry budget (chunk-retry.js): the attempts in a sidecar never exceed *)
(* the collector's refusals, although drains that overlap write over each     *)
(* other's sidecars from what they read before they sent.                    *)

Charged(c) == c.attempts <= refused[c.id]

ChargedAsRefused ==
  /\ \A c \in chunks : Charged(c)
  /\ \A c \in aside : Charged(c) /\ c.attempts >= MaxAttempts
  /\ \A d \in Drain : DrainAt(d, "waiting") => Charged(drain[d].meta)

LEMMA ChargedMeansRefused == Typed /\ ChargedAsRefused => GivenUpWhenRefused
<1> SUFFICES ASSUME Typed, ChargedAsRefused, NEW c \in aside PROVE refused[c.id] >= MaxAttempts
  BY DEF GivenUpWhenRefused
<1>1. c.attempts \in Nat /\ c.attempts <= refused[c.id] /\ c.attempts >= MaxAttempts
  BY DEF Typed, QueueOK, ChargedAsRefused, Charged, Chunk
<1>2. refused[c.id] \in Nat BY DEF Typed, QueueOK
<1> QED BY <1>1, <1>2, AttemptsAssumption, SMT

LEMMA ChargedInit == Init => ChargedAsRefused
BY DEF Init, ChargedAsRefused, DrainAt, IdleDrain

\* A drain's step is its own.
LEMMA DrainMoves ==
  ASSUME Typed, NEW d \in Drain, NEW r, ToDrain(d, r)
  PROVE  drain'[d] = r /\ \A e \in Drain \ {d} : drain'[e] = drain[e]
BY DEF ToDrain, Typed, UploadsOK

\* Who waits for an answer waited for it before.
NobodySends ==
  \A e \in Drain : DrainAt(e, "waiting")' => DrainAt(e, "waiting") /\ drain'[e].meta = drain[e].meta

LEMMA Sendless ==
  ASSUME Typed, NEW d \in Drain, NEW r, ToDrain(d, r), r.pc # "waiting"
  PROVE  NobodySends
BY DrainMoves DEF DrainAt, NobodySends

LEMMA OnlySendSends ==
  ASSUME Typed, NEW d \in Drain,
         \/ StatLock(d) \/ UnlinkLock(d) \/ OpenLock(d) \/ ListChunks(d) \/ Release(d) \/ CrashDrain(d)
         \/ Hold(d) \/ Rejected(d) \/ \E m \in net : Uploaded(d, m)
  PROVE  NobodySends
<1> DEFINE k == drain[d]
           first(pc) == [IdleDrain EXCEPT !.pc = pc]
           then(pc) == [k EXCEPT !.pc = pc]
           list == [k EXCEPT !.pc = "next", !.todo = Eligible]
           hold == [k EXCEPT !.pc = "next", !.todo = << >>, !.meta = None]
           done == [k EXCEPT !.pc = "next", !.todo = Tail(@), !.meta = None]
           again == [k EXCEPT !.pc = "next", !.meta = None, !.todo = <<Head(@)>>, !.retried = TRUE]
<1>1. /\ \A pc : first(pc).pc = pc /\ then(pc).pc = pc
      /\ list.pc = "next" /\ hold.pc = "next" /\ done.pc = "next" /\ again.pc = "next"
  <2>1. DOMAIN k = DOMAIN IdleDrain /\ "pc" \in DOMAIN k BY DEF Typed, UploadsOK, DrainOK, IdleDrain
  <2> HIDE DEF k
  <2> QED BY <2>1 DEF IdleDrain
<1>2. \/ \E pc \in {"unlink", "open", "idle"} : ToDrain(d, first(pc))
      \/ \E pc \in {"open", "list"} : ToDrain(d, then(pc))
      \/ ToDrain(d, IdleDrain) \/ ToDrain(d, list) \/ ToDrain(d, hold) \/ ToDrain(d, done)
      \/ ToDrain(d, again)
  BY DEF StatLock, UnlinkLock, OpenLock, ListChunks, Release, CrashDrain, Hold, Rejected, Uploaded, IdleDrain
<1>3. IdleDrain.pc = "idle" BY DEF IdleDrain
<1> HIDE DEF first, then, list, hold, done, again, k
<1> QED BY <1>1, <1>2, <1>3, Sendless

(* A step that sends nothing and leaves the queue and the refusals alone. *)
LEMMA ChargedUntouched ==
  ASSUME ChargedAsRefused, UNCHANGED <<aside, refused>>, chunks' \subseteq chunks, NobodySends
  PROVE  ChargedAsRefused'
BY DEF ChargedAsRefused, Charged, NobodySends

\* Every step keeps the budget.
LEMMA ChargedStep == Typed /\ Typed' /\ ChargedAsRefused /\ [Next]_vars => ChargedAsRefused'
<1> SUFFICES ASSUME Typed, Typed', ChargedAsRefused, [Next]_vars PROVE ChargedAsRefused' OBVIOUS
<1>0. /\ refused \in Seq(Nat) /\ refused' \in Seq(Nat)
      /\ \A c \in chunks \cup aside : c.id \in 1 .. Len(refused) /\ c \in Chunk
  BY DEF Typed, QueueOK
<1>1. CASE UNCHANGED <<drain, Queue>>
  BY <1>1, ChargedUntouched DEF Queue, DrainAt, NobodySends
<1>2. ASSUME NEW h \in Hook, SealChunk(h) PROVE ChargedAsRefused'
  <2> DEFINE n == Len(refused)
  <2>1. UNCHANGED <<aside, drain>> BY <1>2 DEF SealChunk, Uploads
  <2>2. CASE UNCHANGED <<chunks, refused>> BY <2>1, <2>2, ChargedUntouched DEF DrainAt, NobodySends
  <2>3. CASE ~ UNCHANGED <<chunks, refused>>
    <3>1. refused' = Append(refused, 0) /\ \A x \in chunks' : x \in chunks \/ (x.id = n + 1 /\ x.attempts = 0)
      BY <1>2, <2>3 DEF SealChunk
    <3>2. refused'[n + 1] = 0 /\ \A i \in 1 .. n : refused'[i] = refused[i] BY <1>0, <3>1, AppendProperties
    <3>3. \A d \in Drain : DrainAt(d, "waiting") => drain[d].meta.id \in 1 .. n BY MetaType
    <3> HIDE DEF n
    <3>4. \A x \in chunks' : Charged(x)'
      <4>1. \A x \in chunks : Charged(x)' BY <1>0, <3>2 DEF ChargedAsRefused, Charged, n
      <4>2. ASSUME NEW x, x.id = n + 1, x.attempts = 0 PROVE Charged(x)'
        <5>1. refused'[x.id] = 0 BY <3>2, <4>2
        <5>2. 0 <= 0 OBVIOUS
        <5> QED BY <4>2, <5>1, <5>2 DEF Charged
      <4> QED BY <3>1, <4>1, <4>2
    <3>5. \A x \in aside' : Charged(x)' /\ x.attempts >= MaxAttempts
      BY <1>0, <2>1, <3>2 DEF ChargedAsRefused, Charged, n
    <3>6. \A d \in Drain : DrainAt(d, "waiting")' => Charged(drain[d].meta)'
      BY <2>1, <3>2, <3>3 DEF ChargedAsRefused, Charged, DrainAt
    <3> QED BY <2>1, <3>4, <3>5, <3>6 DEF ChargedAsRefused
  <2> QED BY <2>2, <2>3
<1>3. ASSUME NEW d \in Drain, Upload(d) \/ CrashDrain(d) PROVE ChargedAsRefused'
  <2>1. CASE StatLock(d) \/ UnlinkLock(d) \/ OpenLock(d) \/ ListChunks(d) \/ Release(d) \/ CrashDrain(d)
    <3>1. UNCHANGED Queue BY <2>1 DEF StatLock, UnlinkLock, OpenLock, ListChunks, Release, CrashDrain
    <3> QED BY <2>1, <3>1, OnlySendSends, ChargedUntouched DEF Queue
  <2>2. ASSUME Hold(d)
        PROVE  \A e \in Drain : DrainAt(e, "waiting")' => DrainAt(e, "waiting") /\ drain'[e].meta = drain[e].meta
    BY <2>2, OnlySendSends DEF NobodySends
  <2>3. CASE Send(d)
    <3>1. UNCHANGED Queue BY <2>3 DEF Send
    <3>2. CASE Hold(d) BY <3>1, <3>2, OnlySendSends, ChargedUntouched DEF Queue
    <3>3. ASSUME NEW c \in chunks, ToDrain(d, [drain[d] EXCEPT !.pc = "waiting", !.meta = c])
          PROVE  ChargedAsRefused'
      <4> DEFINE r == [drain[d] EXCEPT !.pc = "waiting", !.meta = c]
      <4>1. r.meta = c BY DEF Typed, UploadsOK, DrainOK, IdleDrain
      <4>2. ToDrain(d, r) BY <3>3
      <4> HIDE DEF r
      <4>3. \A e \in Drain : DrainAt(e, "waiting")' => Charged(drain'[e].meta)
        BY <4>1, <4>2, DrainMoves DEF DrainAt, ChargedAsRefused
      <4> QED BY <3>1, <4>3 DEF Queue, ChargedAsRefused, Charged
    <3> QED BY <2>3, <3>2, <3>3 DEF Send
  <2>4. ASSUME DrainAt(d, "waiting"), Deferred(d) PROVE ChargedAsRefused'
    <3> DEFINE c == [drain[d].meta EXCEPT !.waiting = TRUE]
    <3>1. c \in Chunk /\ c.id = drain[d].meta.id /\ c.attempts = drain[d].meta.attempts
          /\ c.id \in 1 .. Len(refused)
      BY <2>4, MetaType, ChunkWaits
    <3>2. chunks' = Noted(c.id, c) /\ UNCHANGED <<aside, refused>> /\ Hold(d) BY <2>4, <3>1 DEF Deferred
    <3>3. Charged(c) BY <2>4, <3>1 DEF ChargedAsRefused, Charged
    <3> HIDE DEF c
    <3>4. \A x \in chunks' : Charged(x) BY <3>1, <3>2, <3>3, NotedKeeps DEF ChargedAsRefused, Typed
    <3>5. \A e \in Drain : DrainAt(e, "waiting")' => Charged(drain'[e].meta)
      BY <2>2, <3>2 DEF ChargedAsRefused
    <3> QED BY <3>2, <3>4, <3>5 DEF ChargedAsRefused, Charged
  <2>5. ASSUME DrainAt(d, "waiting"), Refused(d) PROVE ChargedAsRefused'
    <3> DEFINE k == drain[d].meta
               a == k.attempts + 1
               c == [k EXCEPT !.attempts = a, !.waiting = TRUE]
               i == k.id
    <3>1. k \in Chunk /\ i \in 1 .. Len(refused) /\ a \in Nat
      <4>1. k \in Chunk /\ i \in 1 .. Len(refused) BY <2>5, MetaType
      <4>2. k.attempts \in Nat
        <5> HIDE DEF k
        <5> QED BY <4>1 DEF Chunk
      <4> QED BY <4>1, <4>2, SMT
    <3>2. c \in Chunk /\ c.id = i /\ c.attempts = a
      <4> HIDE DEF k, a
      <4> QED BY <3>1, ChunkChanged DEF i
    <3>3. /\ refused' = [refused EXCEPT ![c.id] = refused[c.id] + 1]
          /\ \/ c.attempts >= MaxAttempts /\ chunks' = {b \in chunks : b.id # c.id} /\ aside' = aside \cup {c}
             \/ chunks' = Noted(c.id, c) /\ aside' = aside
          /\ Hold(d)
      BY <2>5 DEF Refused
    <3>4. a <= refused[i] + 1 /\ refused[i] \in Nat
      <4>1. k.attempts <= refused[i] BY <2>5 DEF ChargedAsRefused, Charged
      <4>2. refused[i] \in Nat BY <1>0, <3>1
      <4>3. k.attempts \in Nat
        <5> HIDE DEF k
        <5> QED BY <3>1 DEF Chunk
      <4> QED BY <4>1, <4>2, <4>3, SMT
    <3> HIDE DEF c, k, a
    <3>5. refused'[i] = refused[i] + 1 /\ \A j \in 1 .. Len(refused) : j # i => refused'[j] = refused[j]
      BY <1>0, <3>1, <3>2, <3>3, SMT
    <3>6. \A x \in Chunk : x.id \in 1 .. Len(refused) /\ Charged(x) => Charged(x)'
      <4>1. SUFFICES ASSUME NEW x \in Chunk, x.id \in 1 .. Len(refused), x.attempts <= refused[x.id]
                     PROVE  x.attempts <= refused'[x.id]
        BY DEF Charged
      <4>2. CASE x.id = i
        <5>1. x.attempts \in Nat BY DEF Chunk
        <5> QED BY <3>4, <3>5, <4>1, <4>2, <5>1, SMT
      <4>3. CASE x.id # i BY <3>5, <4>1, <4>3
      <4> QED BY <4>2, <4>3
    <3>7. c.attempts <= refused'[c.id] BY <3>2, <3>4, <3>5
    <3>8. \A x \in chunks : x.attempts <= refused'[x.id] BY <1>0, <3>6 DEF ChargedAsRefused, Charged
    <3>9. \A x \in aside : x.attempts <= refused'[x.id] /\ x.attempts >= MaxAttempts
      BY <1>0, <3>6 DEF ChargedAsRefused, Charged
    <3>10. \A x \in chunks' : x.attempts <= refused'[x.id]
      BY <3>1, <3>2, <3>3, <3>7, <3>8, NotedKeeps DEF Typed
    <3>11. \A x \in aside' : x.attempts <= refused'[x.id] /\ x.attempts >= MaxAttempts
      BY <3>3, <3>7, <3>9
    <3>12. \A e \in Drain : DrainAt(e, "waiting")'
                => drain'[e].meta.attempts <= refused'[drain'[e].meta.id]
      <4> SUFFICES ASSUME NEW e \in Drain, DrainAt(e, "waiting")'
                   PROVE  drain'[e].meta.attempts <= refused'[drain'[e].meta.id]
        OBVIOUS
      <4>1. DrainAt(e, "waiting") /\ drain'[e].meta = drain[e].meta BY <2>2, <3>3
      <4>2. drain[e].meta \in Chunk /\ drain[e].meta.id \in 1 .. Len(refused) BY <4>1, MetaType
      <4>3. Charged(drain[e].meta) BY <4>1 DEF ChargedAsRefused
      <4>4. \A x \in Chunk : x.id \in 1 .. Len(refused) /\ Charged(x) => x.attempts <= refused'[x.id]
        BY <3>6 DEF Charged
      <4> QED BY <4>1, <4>2, <4>3, <4>4
    <3> QED BY <3>10, <3>11, <3>12 DEF ChargedAsRefused, Charged
  <2>6. ASSUME NEW m \in net, Uploaded(d, m) PROVE ChargedAsRefused'
    <3>1. chunks' \subseteq chunks /\ UNCHANGED <<aside, refused>> BY <2>6 DEF Uploaded
    <3> QED BY <2>6, <3>1, OnlySendSends, ChargedUntouched
  <2>7. ASSUME Rejected(d) PROVE ChargedAsRefused'
    <3>1. UNCHANGED <<chunks, aside, refused>> BY <2>7 DEF Rejected
    <3> QED BY <2>7, <3>1, OnlySendSends, ChargedUntouched
  <2>8. CASE Answer(d) BY <2>4, <2>5, <2>6, <2>7, <2>8 DEF Answer
  <2>9. CASE Timeout(d) BY <2>4, <2>9 DEF Timeout
  <2> QED BY <1>3, <2>1, <2>3, <2>8, <2>9 DEF Upload
<1>4. CASE BackoffOver
  <2>1. PICK c \in chunks : chunks' = (chunks \ {c}) \cup {[c EXCEPT !.waiting = FALSE]}
    BY <1>4 DEF BackoffOver
  <2> DEFINE b == [c EXCEPT !.waiting = FALSE]
  <2>2. b.id = c.id /\ b.attempts = c.attempts /\ chunks' = (chunks \ {c}) \cup {b}
    BY <1>0, <2>1, ChunkWaits
  <2> HIDE DEF b
  <2>3. UNCHANGED <<aside, refused, drain>> BY <1>4 DEF BackoffOver, Uploads
  <2> QED BY <2>2, <2>3 DEF ChargedAsRefused, Charged, DrainAt
<1>5. CASE Expire
  <2>1. UNCHANGED <<aside, refused, drain>> /\ chunks' \subseteq chunks BY <1>5 DEF Expire, Uploads
  <2> QED BY <2>1, ChargedUntouched DEF DrainAt, NobodySends
<1>6. ASSUME NEW h \in Hook, Stage(h) \/ ImportStart(h) \/ ImportPlan(h) \/ Hide(h) \/ CrashHook(h)
      PROVE  ChargedAsRefused'
  <2>1. ~ SealChunk(h) => UNCHANGED <<drain, Queue>>
    BY <1>6 DEF Stage, StageRead, StagePlan, MoveCursor, ImportStart, ImportPlan, Hide,
         HideStart, HideRead, HideCheck, HideWrite, CrashHook, Uploads
  <2> QED BY <1>1, <1>2, <2>1
<1>7. CASE AppendLine \/ Rewrite \/ LockAges \/ UNCHANGED vars
  <2>1. UNCHANGED <<drain, Queue>> BY <1>7 DEF AppendLine, Rewrite, LockAges, vars, Uploads
  <2> QED BY <1>1, <2>1
<1>8. ASSUME NEW m \in net, LoseAnswer(m) \/ ArriveLate(m) PROVE ChargedAsRefused'
  BY <1>1, <1>8 DEF LoseAnswer, ArriveLate
<1> QED BY <1>3, <1>4, <1>5, <1>6, <1>7, <1>8 DEF Next

(* A chunk is set aside only when the collector refused it MaxAttempts times,   *)
(* for any number of drains that overlap, crash, time out and are suspended     *)
(* (noteChunkUploadFailure, noteChunkUploadDeferral).                         *)
THEOREM GivenUpOnlyWhenRefused == Spec => []GivenUpWhenRefused
<1>1. Spec => []Typed BY TypedInit, TypedStep, PTL DEF Spec
<1>2. Spec => [](Typed /\ ChargedAsRefused)
  <2>1. Init => Typed /\ ChargedAsRefused BY TypedInit, ChargedInit
  <2>2. (Typed /\ ChargedAsRefused) /\ [Next]_vars => (Typed /\ ChargedAsRefused)'
    BY TypedStep, ChargedStep
  <2> QED BY <2>1, <2>2, PTL DEF Spec
<1> QED BY <1>2, ChargedMeansRefused, PTL

-----------------------------------------------------------------------------
(* No line behind the cursor is lost.  That needs two conditions, which the run *)
(* delivery_safety meets by its bounds.                                       *)

\* A hook writes the cursor while another one of the same transcript is at work.
Overtakes ==
  cursor' # cursor /\ \E g \in Hook : ~ HookAt(g, "idle") /\ hook'[g] = hook[g]

\* The generation that was sealed last is not carried on: an import plans its snapshot at
\* baseline 0 after a reset, or a hidden period's cursor keeps the baseline of a cursor that
\* a reset has already sealed chunks past.
Forgets ==
  \E h \in Hook :
    \/ ImportPlan(h) /\ hook'[h].pc = "seal" /\ (Resets(file, cursor) \/ BaselineOf(cursor) # 0)
    \/ HideWrite(h) /\ Resets(hook[h].raw, cursor)
       /\ \E x \in chunks \cup net \cup {object} : x.baseline > BaselineOf(cursor)

-----------------------------------------------------------------------------
(* The inductive invariant.                                                  *)

Increasing(s) == \A i, j \in 1 .. Len(s) : i < j => s[i] < s[j]

\* A line that two states of the transcript share has the same lines before it in both.
Agree(s, t) ==
  \A l \in Range(s) \cap Range(t) : \A x \in Line : x <= l => (x \in Range(s) <=> x \in Range(t))

\* The generations that are with the collector or on their way to it.
Generations == {c.baseline : c \in chunks} \cup {m.baseline : m \in net} \cup {object.baseline}
AtMost(G, b) == \A g \in G : g <= b

\* The lines that are accounted for, each in its generation.
Kept == {p \in Line \X Nat :
           \/ p[1] \in hidden
           \/ \E c \in chunks \cup aside \cup expired : c.baseline = p[2] /\ p[1] \in Range(c.lines)
           \/ object.baseline = p[2] /\ p[1] \in Range(object.lines)}

\* If f still has line l, it accounts for all lines up to l, but for those in T.
Covers(K, f, l, b, T) ==
  l \in Range(f) => \A x \in Range(f) : x <= l => <<x, b>> \in K \/ x \in T

\* Lines are numbered as they are written, a cursor names one, and its generation is one it
\* has numbered.
Numbered ==
  /\ Increasing(file) /\ \A l \in Range(file) : l < NewLine
  /\ cursor # None => cursor.last < NewLine /\ cursor.baseline <= cursor.seq

\* While the transcript has the cursor's line, the cursor's generation is the newest, and
\* what is up to that line is in it.
CursorStands ==
  cursor # None /\ cursor.last \in Range(file) =>
    AtMost(Generations, cursor.baseline) /\ Covers(Kept, file, cursor.last, cursor.baseline, {})

\* Otherwise at most one generation has been begun past the cursor.
GenerationsBounded == AtMost(Generations, IF cursor = None THEN 0 ELSE cursor.seq + 1)

\* What a hook has read is a state the transcript was in, and if the cursor's line is still
\* there, one that had it; who planned from a cursor finds it unchanged.
ReadOK(k, f, cur, n) ==
  /\ Increasing(k.raw) /\ Agree(f, k.raw) /\ \A l \in Range(k.raw) : l < n
  /\ k.pc \in {"plan", "check", "write"} /\ cur # None /\ cur.last \in Range(f)
       => cur.last \in Range(k.raw)
  /\ k.pc \in {"check", "write"} => k.kind = "hide"
  /\ k.pc # "idle" /\ k.kind # "stage" => k.seen = cur

\* The generation that a hook seals in.
Gen(k, cur) == IF k.next.baseline = None THEN BaselineOf(cur) ELSE k.next.baseline
Owed(k)     == UNION {Range(k.todo[i].lines) : i \in DOMAIN k.todo}

\* A hook that seals goes on with the cursor's generation or begins the next one, and what it
\* still has to seal completes what its cursor will stand for.
SealOK(k, f, cur, n, K) ==
  k.pc = "seal" =>
    /\ k.next.seq > SeqAt(cur) /\ k.next.last < n /\ Gen(k, cur) <= k.next.seq
    /\ \A i \in DOMAIN k.todo : k.todo[i].baseline = Gen(k, cur)
    /\ \/ /\ Gen(k, cur) = BaselineOf(cur)
          /\ cur # None =>
               cur.last <= k.next.last /\ (k.next.last \in Range(f) => cur.last \in Range(f))
       \/ cur # None /\ cur.last \notin Range(f) /\ Gen(k, cur) = SeqAt(cur) + 1
    /\ ~ k.short => Covers(K, f, k.next.last, Gen(k, cur), Owed(k))

HooksOK == \A h \in Hook : ReadOK(hook[h], file, cursor, NewLine)
                           /\ SealOK(hook[h], file, cursor, NewLine, Kept)

\* A request and what a drain has read are of the chunk with their number.
Alike(a, b) == a.id = b.id /\ a.lines = b.lines /\ a.baseline = b.baseline
Copies ==
  /\ \A m \in net : m.id \in 1 .. Len(refused)
  /\ \A c \in chunks : \A m \in net : c.id = m.id => Alike(c, m)
  /\ \A c \in chunks : \A d \in Drain :
       DrainAt(d, "waiting") /\ c.id = drain[d].meta.id => Alike(c, drain[d].meta)

Covering == Numbered /\ CursorStands /\ GenerationsBounded /\ HooksOK /\ Copies

-----------------------------------------------------------------------------
(* The operators on transcripts.                                             *)

\* A sequence of lines and its elements.
LEMMA LinesAre ==
  ASSUME NEW s \in Seq(Line)
  PROVE  /\ Len(s) \in Nat /\ DOMAIN s = 1 .. Len(s)
         /\ Range(s) \subseteq Line /\ \A i \in 1 .. Len(s) : s[i] \in Range(s) /\ s[i] \in Nat
         /\ \A l \in Range(s) : l \in Nat /\ \E i \in 1 .. Len(s) : s[i] = l
<1>1. Len(s) \in Nat /\ DOMAIN s = 1 .. Len(s) /\ \A i \in 1 .. Len(s) : s[i] \in Line OBVIOUS
<1> QED BY <1>1, LineType DEF Range

\* The last line of a transcript is its highest.
LEMMA LastIs ==
  ASSUME NEW s \in Seq(Line), s # << >>, Increasing(s)
  PROVE  Last(s) \in Range(s) /\ \A x \in Range(s) : x <= Last(s)
<1>1. Len(s) \in 1 .. Len(s) BY EmptySeq, SMT
<1>2. Last(s) \in Range(s) BY <1>1, LinesAre DEF Last
<1>3. ASSUME NEW x \in Range(s) PROVE x <= Last(s)
  <2>1. PICK i \in 1 .. Len(s) : s[i] = x BY LinesAre
  <2>2. i = Len(s) \/ i < Len(s) BY <2>1, LinesAre, SMT
  <2>3. i < Len(s) => x < s[Len(s)] BY <1>1, <2>1 DEF Increasing
  <2>4. x \in Nat /\ s[Len(s)] \in Nat BY <1>1, LinesAre
  <2> QED BY <2>1, <2>2, <2>3, <2>4, SMT DEF Last
<1> QED BY <1>2, <1>3

\* A line that was read is in the delta, or not after the cursor's.
LEMMA DeltaHas ==
  ASSUME NEW raw \in Seq(Line), Increasing(raw), NEW cur, NEW x \in Range(raw)
  PROVE  x \in Range(Delta(raw, cur)) \/ (Found(raw, cur) /\ x <= cur.last)
<1>1. CASE ~ Found(raw, cur) BY <1>1, DeltaIs
<1>2. CASE Found(raw, cur)
  <2>1. PICK p \in 1 .. Len(raw) :
          raw[p] = cur.last /\ \A i \in p + 1 .. Len(raw) : raw[i] \in Range(Delta(raw, cur))
    BY <1>2, DeltaIs
  <2>2. PICK i \in 1 .. Len(raw) : raw[i] = x BY LinesAre
  <2>3. Len(raw) \in Nat /\ raw[i] \in Nat /\ raw[p] \in Nat BY LinesAre
  <2>4. CASE i > p
    <3>1. i \in p + 1 .. Len(raw) BY <2>3, <2>4, SMT
    <3> QED BY <2>1, <2>2, <3>1
  <2>5. CASE i <= p
    <3>1. i = p \/ i < p BY <2>3, <2>5, SMT
    <3>2. raw[i] <= raw[p] BY <2>3, <3>1, SMT DEF Increasing
    <3> QED BY <1>2, <2>1, <2>2, <3>2
  <2> QED BY <2>3, <2>4, <2>5, SMT
<1> QED BY <1>1, <1>2

\* The pieces of a plan are of one generation and hold every line of it.
LEMMA PiecesHold ==
  ASSUME NEW lines \in Seq(Line), NEW split \in Splits(lines), NEW seq \in Nat, NEW b \in Nat, NEW k,
         k.todo = Pieces(split, seq, b)
  PROVE  /\ Len(split) \in Nat /\ Len(split) >= 1
         /\ \A i \in DOMAIN k.todo : k.todo[i].baseline = b
         /\ Range(lines) \subseteq Owed(k)
<1>1. split \in Seq(Seq(Line)) /\ Len(split) >= 1
      /\ \A l \in Range(lines) : \E i \in DOMAIN split : l \in Range(split[i])
  BY SplitsCover
<1>2. DOMAIN k.todo = DOMAIN split
      /\ \A i \in DOMAIN split : k.todo[i].baseline = b /\ k.todo[i].lines = split[i]
  BY DEF Pieces
<1>3. Len(split) \in Nat BY <1>1
<1> QED BY <1>1, <1>2, <1>3 DEF Owed

\* What is no longer in hand cannot be wrong.
LEMMA IdleOK ==
  ASSUME NEW f, NEW cur, NEW n, NEW K
  PROVE  ReadOK(IdleHook, f, cur, n) /\ SealOK(IdleHook, f, cur, n, K)
<1>1. Len(<< >>) = 0 /\ Range(<< >>) = {} BY EmptySeq DEF Range
<1> QED BY <1>1, SMT DEF ReadOK, SealOK, IdleHook, Increasing, Agree

\* A hook's step is its own.
LEMMA HookMoves ==
  ASSUME Typed, NEW h \in Hook, NEW r, ToHook(h, r)
  PROVE  hook'[h] = r /\ \A g \in Hook \ {h} : hook'[g] = hook[g]
BY DEF ToHook, Typed, TranscriptOK

\* The number of the next line changes only when one is written.
LEMMA NoNewLine ==
  ASSUME Typed, NEW k \in Bounds \ {"lines", "rewrites"}, Spend(k) \/ NoFault
  PROVE  NewLine' = NewLine
<1>1. left'["lines"] = left["lines"] /\ left'["rewrites"] = left["rewrites"]
  BY DEF Spend, NoFault, Typed, LeftOK, Bounds
<1> QED BY <1>1 DEF NewLine

\* More lines accounted for cover no less.
LEMMA CoversMore ==
  ASSUME NEW K, NEW L, K \subseteq L, NEW f
  PROVE  /\ \A l, b, T : Covers(K, f, l, b, T) => Covers(L, f, l, b, T)
         /\ \A k, cur, n : SealOK(k, f, cur, n, K) => SealOK(k, f, cur, n, L)
<1>1. ASSUME NEW l, NEW b, NEW T, Covers(K, f, l, b, T) PROVE Covers(L, f, l, b, T)
  BY <1>1 DEF Covers
<1>2. ASSUME NEW k, NEW cur, NEW n, SealOK(k, f, cur, n, K) PROVE SealOK(k, f, cur, n, L)
  <2>1. k.pc = "seal" /\ ~ k.short => Covers(L, f, k.next.last, Gen(k, cur), Owed(k))
    BY <1>1, <1>2 DEF SealOK
  <2> QED BY <1>2, <2>1 DEF SealOK
<1> QED BY <1>1, <1>2

\* A hook reads or plans, or the lines it hides were not after the cursor.
LEMMA HookStep ==
  ASSUME Typed, Covering, NEW h \in Hook, NEW r, ToHook(h, r), hidden \subseteq hidden',
         UNCHANGED <<file, cursor, Queue, drain, net, object>>, NewLine' = NewLine,
         ReadOK(r, file, cursor, NewLine), SealOK(r, file, cursor, NewLine, Kept)
  PROVE  Covering'
<1>1. Generations' = Generations BY DEF Queue, Generations
<1>2. Kept \subseteq Kept' BY DEF Queue, Kept
<1>3. Numbered' /\ GenerationsBounded' BY <1>1 DEF Covering, Numbered, GenerationsBounded
<1>4. CursorStands'
  <2>1. cursor # None /\ cursor.last \in Range(file) =>
          AtMost(Generations, cursor.baseline) /\ Covers(Kept', file, cursor.last, cursor.baseline, {})
    BY <1>2, CoversMore DEF Covering, CursorStands
  <2> QED BY <1>1, <2>1 DEF CursorStands
<1>5. Copies' BY DEF Covering, Copies, Queue, DrainAt
<1>6. HooksOK'
  <2> SUFFICES ASSUME NEW g \in Hook
               PROVE  /\ ReadOK(hook'[g], file', cursor', NewLine')
                      /\ SealOK(hook'[g], file', cursor', NewLine', Kept')
    BY DEF HooksOK
  <2>1. hook'[g] = IF g = h THEN r ELSE hook[g] BY HookMoves
  <2>2. ReadOK(hook'[g], file, cursor, NewLine) /\ SealOK(hook'[g], file, cursor, NewLine, Kept)
    BY <2>1 DEF Covering, HooksOK
  <2>3. SealOK(hook'[g], file, cursor, NewLine, Kept') BY <1>2, <2>2, CoversMore
  <2> QED BY <2>2, <2>3
<1> QED BY <1>3, <1>4, <1>5, <1>6 DEF Covering

\* A hook writes the cursor while no other is at work.
LEMMA CursorStep ==
  ASSUME Typed, Typed', Covering, NEW h \in Hook, ToHook(h, IdleHook), ~ Overtakes, cursor' # cursor,
         cursor' # None, UNCHANGED <<file, Queue, drain, net, object>>, NewLine' = NewLine,
         cursor'.last < NewLine, cursor'.baseline <= cursor'.seq, cursor'.seq >= SeqAt(cursor),
         cursor'.last \in Range(file) =>
           /\ AtMost(Generations, cursor'.baseline)
           /\ Covers(Kept', file, cursor'.last, cursor'.baseline, {})
  PROVE  Covering'
<1>1. Generations' = Generations BY DEF Queue, Generations
<1>2. Numbered' /\ CursorStands' BY <1>1 DEF Covering, Numbered, CursorStands
<1>3. GenerationsBounded'
  <2>1. cursor'.seq \in Nat BY DEF Typed, TranscriptOK, Cursor
  <2>2. Generations \subseteq Nat BY DEF Generations, Typed, QueueOK, UploadsOK, ObjectOK, Chunk, Request
  <2>3. \A g \in Generations : g <= IF cursor = None THEN 0 ELSE cursor.seq + 1
    BY DEF Covering, GenerationsBounded, AtMost
  <2>4. cursor # None => cursor.seq \in Nat BY DEF Typed, TranscriptOK, Cursor
  <2>5. \A g \in Generations : g <= cursor'.seq + 1
    BY <2>1, <2>2, <2>3, <2>4, SMT DEF SeqAt
  <2> QED BY <1>1, <2>5 DEF GenerationsBounded, AtMost
<1>4. Copies' BY DEF Covering, Copies, Queue, DrainAt
<1>5. HooksOK'
  <2> SUFFICES ASSUME NEW g \in Hook
               PROVE  /\ ReadOK(hook'[g], file', cursor', NewLine')
                      /\ SealOK(hook'[g], file', cursor', NewLine', Kept')
    BY DEF HooksOK
  <2>1. CASE g = h
    <3>1. hook'[g] = IdleHook BY <2>1, HookMoves
    <3> QED BY <3>1, IdleOK
  <2>2. CASE g # h
    <3>1. hook'[g] = hook[g] BY <2>2, HookMoves
    <3>2. hook'[g].pc = "idle" BY <3>1 DEF Overtakes, HookAt
    <3>3. ReadOK(hook'[g], file, cursor, NewLine) BY <3>1 DEF Covering, HooksOK
    <3>4. ReadOK(hook'[g], file', cursor', NewLine') BY <3>2, <3>3 DEF ReadOK
    <3> QED BY <3>2, <3>4 DEF SealOK
  <2> QED BY <2>1, <2>2
<1> QED BY <1>2, <1>3, <1>4, <1>5 DEF Covering

\* What the invariant says of one hook.
LEMMA HookIs ==
  ASSUME Typed, Covering, NEW h \in Hook
  PROVE  /\ HookOK(hook[h]) /\ ReadOK(hook[h], file, cursor, NewLine)
         /\ SealOK(hook[h], file, cursor, NewLine, Kept)
         /\ file \in Seq(Line) /\ cursor \in Cursor \cup {None} /\ None \notin Cursor
         /\ cursor # None => cursor.last \in Nat /\ cursor.seq \in Nat /\ cursor.baseline \in Nat
BY NoneAssumption, LineType DEF Typed, TranscriptOK, Covering, HooksOK, Cursor

\* What was just read is as the transcript is.
LEMMA JustRead ==
  ASSUME Covering, NEW k, k.raw = file, k.pc \in {"check", "write"} => k.kind = "hide",
         k.pc # "idle" /\ k.kind # "stage" => k.seen = cursor
  PROVE  ReadOK(k, file, cursor, NewLine)
BY DEF Covering, Numbered, ReadOK, Agree

\* What only reads the transcript or the cursor, or gives up, loses nothing.
LEMMA ReadsCover ==
  ASSUME Typed, Covering, NEW h \in Hook,
         StageRead(h) \/ ImportStart(h) \/ HideStart(h) \/ HideRead(h) \/ HideCheck(h) \/ CrashHook(h)
  PROVE  Covering'
<1> DEFINE k == hook[h]
<1>0. HookOK(k) /\ ReadOK(k, file, cursor, NewLine) BY HookIs
<1>1. UNCHANGED <<file, cursor, hidden, Queue, drain, net, object>>
  BY DEF StageRead, ImportStart, HideStart, HideRead, HideCheck, CrashHook, Uploads
<1>2. NewLine' = NewLine
  <2>1. \E x \in Bounds \ {"lines", "rewrites"} : Spend(x) \/ NoFault
    BY DEF StageRead, ImportStart, HideStart, HideRead, HideCheck, CrashHook, Bounds
  <2> QED BY <2>1, NoNewLine
<1>3. \E r : /\ ToHook(h, r) /\ ReadOK(r, file, cursor, NewLine)
             /\ SealOK(r, file, cursor, NewLine, Kept)
  <2>1. CASE StageRead(h)
    <3> DEFINE r == [IdleHook EXCEPT !.pc = "plan", !.raw = file]
    <3>1. r.raw = file /\ r.pc = "plan" /\ r.kind = "stage" BY SMT DEF IdleHook
    <3>2. ToHook(h, r) BY <2>1 DEF StageRead
    <3> HIDE DEF r
    <3>3. ReadOK(r, file, cursor, NewLine) /\ SealOK(r, file, cursor, NewLine, Kept)
      BY <3>1, JustRead DEF SealOK
    <3> QED BY <3>2, <3>3
  <2>2. CASE ImportStart(h)
    <3> DEFINE r == [IdleHook EXCEPT !.pc = "read", !.kind = "import", !.raw = file, !.seen = cursor]
    <3>1. r.raw = file /\ r.pc = "read" /\ r.seen = cursor BY SMT DEF IdleHook
    <3>2. ToHook(h, r) BY <2>2 DEF ImportStart
    <3> HIDE DEF r
    <3>3. ReadOK(r, file, cursor, NewLine) /\ SealOK(r, file, cursor, NewLine, Kept)
      BY <3>1, JustRead DEF SealOK
    <3> QED BY <3>2, <3>3
  <2>3. CASE HideStart(h)
    <3> DEFINE r == [IdleHook EXCEPT !.pc = "read", !.kind = "hide", !.seen = cursor]
    <3>1. r.raw = << >> /\ r.pc = "read" /\ r.seen = cursor BY SMT DEF IdleHook
    <3>2. ToHook(h, r) BY <2>3 DEF HideStart
    <3>3. Len(<< >>) = 0 /\ Range(<< >>) = {} BY EmptySeq DEF Range
    <3> HIDE DEF r
    <3>4. ReadOK(r, file, cursor, NewLine) BY <3>1, <3>3, SMT DEF ReadOK, Increasing, Agree
    <3>5. SealOK(r, file, cursor, NewLine, Kept) BY <3>1 DEF SealOK
    <3> QED BY <3>2, <3>4, <3>5
  <2>4. CASE HideRead(h)
    <3> DEFINE r == [k EXCEPT !.pc = "check", !.raw = file]
    <3>1. r.raw = file /\ r.pc = "check" /\ r.seen = k.seen /\ r.kind = k.kind
      BY <1>0 DEF HookOK, IdleHook
    <3>2. ToHook(h, r) \/ ToHook(h, IdleHook) BY <2>4 DEF HideRead
    <3>3. k.pc = "read" /\ k.kind = "hide" BY <2>4 DEF HideRead, HookAt
    <3> HIDE DEF r
    <3>4. k.seen = cursor BY <1>0, <3>3 DEF ReadOK
    <3>5. ReadOK(r, file, cursor, NewLine) /\ SealOK(r, file, cursor, NewLine, Kept)
      BY <3>1, <3>3, <3>4, JustRead DEF SealOK
    <3> QED BY <3>2, <3>5, IdleOK
  <2>5. CASE HideCheck(h)
    <3> DEFINE r == [k EXCEPT !.pc = "write"]
    <3>1. r.raw = k.raw /\ r.pc = "write" /\ r.seen = k.seen /\ r.kind = k.kind
      BY <1>0 DEF HookOK, IdleHook
    <3>2. ToHook(h, r) \/ ToHook(h, IdleHook) BY <2>5 DEF HideCheck
    <3>3. k.pc = "check" BY <2>5 DEF HideCheck, HookAt
    <3> HIDE DEF r, k
    <3>5. ReadOK(r, file, cursor, NewLine) /\ SealOK(r, file, cursor, NewLine, Kept)
      BY <1>0, <3>1, <3>3 DEF SealOK, ReadOK
    <3> QED BY <3>2, <3>5, IdleOK
  <2>6. CASE CrashHook(h) BY <2>6, IdleOK DEF CrashHook
  <2> QED BY <2>1, <2>2, <2>3, <2>4, <2>5, <2>6
<1> QED BY <1>1, <1>2, <1>3, HookStep

\* While the cursor's line is in what a hook has read, the cursor accounts for all of it that
\* is not in the delta.
LEMMA CursorCoversRead ==
  ASSUME Typed, Covering, NEW raw \in Seq(Line), raw # << >>, Increasing(raw), Agree(file, raw),
         Last(raw) \in Range(file), NEW x \in Range(file), x <= Last(raw)
  PROVE  /\ x \in Range(raw)
         /\ Found(raw, cursor) => cursor.last \in Range(file)
         /\ x \in Range(Delta(raw, cursor)) \/ (Found(raw, cursor) /\ <<x, cursor.baseline>> \in Kept)
<1>0. Range(file) \subseteq Line /\ Range(raw) \subseteq Line BY LinesAre DEF Typed, TranscriptOK
<1>1. Last(raw) \in Range(raw) /\ \A y \in Range(raw) : y <= Last(raw) BY LastIs
<1>2. x \in Range(raw) BY <1>0, <1>1 DEF Agree
<1>3. Found(raw, cursor) => cursor.last \in Range(file)
  BY <1>0, <1>1 DEF Agree, Found
<1>4. ASSUME Found(raw, cursor), x <= cursor.last PROVE <<x, cursor.baseline>> \in Kept
  BY <1>3, <1>4 DEF Covering, CursorStands, Covers, Found
<1> QED BY <1>2, <1>3, <1>4, DeltaHas

\* stageRepositoryTurns plans what comes after the cursor, or a new generation.
LEMMA StagePlanCovers ==
  ASSUME Typed, Covering, NEW h \in Hook, StagePlan(h)
  PROVE  Covering'
<1> DEFINE k == hook[h]
           raw == k.raw
           b == Baseline(raw, cursor)
           lines == Delta(raw, cursor)
<1>0. /\ HookOK(k) /\ ReadOK(k, file, cursor, NewLine) /\ k.pc = "plan" /\ raw \in Seq(Line)
      /\ cursor \in Cursor \cup {None} /\ None \notin Cursor /\ None \notin Nat
      /\ SeqAt(cursor) \in Nat /\ BaselineOf(cursor) \in Nat /\ b \in Nat
      /\ lines \in Seq(Line) /\ (lines # << >> => raw # << >>)
  <2>1. HookOK(k) /\ ReadOK(k, file, cursor, NewLine) /\ cursor \in Cursor \cup {None} /\ None \notin Cursor
    BY HookIs
  <2>2. k.pc = "plan" BY DEF StagePlan, HookAt
  <2>3. raw \in Seq(Line) BY <2>1 DEF HookOK
  <2>4. None \notin Nat BY NoneAssumption
  <2>5. SeqAt(cursor) \in Nat /\ BaselineOf(cursor) \in Nat /\ b \in Nat BY <2>1, CursorNumbers
  <2>6. lines \in Seq(Line) /\ (lines # << >> => raw # << >>)
    <3> HIDE DEF raw
    <3> QED BY <2>3, DeltaIs
  <2> QED BY <2>1, <2>2, <2>3, <2>4, <2>5, <2>6
<1>1. UNCHANGED <<file, cursor, hidden, Queue, drain, net, object>> BY DEF StagePlan, Uploads
<1>2. NewLine' = NewLine
  <2>1. "hides" \in Bounds \ {"lines", "rewrites"} /\ NoFault BY DEF StagePlan, Bounds
  <2> QED BY <2>1, NoNewLine
<1>3. CASE ToHook(h, IdleHook) BY <1>1, <1>2, <1>3, IdleOK, HookStep
<1>4. ASSUME lines # << >>, NEW split \in Splits(lines),
             ToHook(h, [k EXCEPT !.pc = "seal", !.raw = << >>, !.todo = Pieces(split, SeqAt(cursor), b),
                          !.next = After(raw, split, SeqAt(cursor), b)])
      PROVE  Covering'
  <2> DEFINE seq == SeqAt(cursor)
             next == After(raw, split, seq, b)
             todo == Pieces(split, seq, b)
             r == [k EXCEPT !.pc = "seal", !.raw = << >>, !.todo = todo, !.next = next]
  <2>1. /\ ToHook(h, r) /\ r.pc = "seal" /\ r.raw = << >> /\ r.todo = todo /\ r.next = next
        /\ r.kind = k.kind /\ r.seen = k.seen /\ r.short = k.short
    BY <1>0, <1>4 DEF HookOK, IdleHook
  <2>2. next.last = Last(raw) /\ next.seq = seq + Len(split) /\ next.baseline = b BY DEF After
  <2> HIDE DEF next, todo, r
  <2>3. Len(split) \in Nat /\ Len(split) >= 1 /\ (\A i \in DOMAIN r.todo : r.todo[i].baseline = b)
        /\ Range(lines) \subseteq Owed(r)
    <3>1. r.todo = Pieces(split, seq, b) BY <2>1 DEF todo
    <3> HIDE DEF lines, b, seq
    <3>2. seq \in Nat BY <1>0 DEF seq
    <3> QED BY <1>0, <3>1, <3>2, PiecesHold
  <2>4. Gen(r, cursor) = b BY <1>0, <2>1, <2>2 DEF Gen
  <2>5. Last(raw) \in Range(raw) /\ raw # << >> /\ Increasing(raw) /\ Agree(file, raw)
    <3> HIDE DEF raw, lines, k
    <3>1. raw # << >> /\ Increasing(raw) /\ Agree(file, raw) BY <1>0, <1>4 DEF ReadOK, raw
    <3> QED BY <1>0, <3>1, LastIs
  <2>6. ReadOK(r, file, cursor, NewLine)
    <3>1. Len(<< >>) = 0 /\ Range(<< >>) = {} BY EmptySeq DEF Range
    <3> QED BY <1>0, <2>1, <3>1, SMT DEF ReadOK, Increasing, Agree
  <2>7. SealOK(r, file, cursor, NewLine, Kept)
    <3>1. r.next.last < NewLine BY <1>0, <2>1, <2>2, <2>5 DEF ReadOK
    <3>2. r.next.seq > seq /\ Gen(r, cursor) <= r.next.seq
      <4>1. b <= seq + 1
        <5>1. cursor # None => cursor.baseline <= cursor.seq /\ cursor.baseline \in Nat /\ cursor.seq \in Nat
          BY HookIs DEF Covering, Numbered
        <5> QED BY <1>0, <5>1, SMT DEF Baseline, SeqAt, BaselineOf
      <4> HIDE DEF b, seq
      <4> QED BY <1>0, <2>1, <2>2, <2>3, <2>4, <4>1, SMT DEF seq
    <3>3. \/ /\ b = BaselineOf(cursor)
             /\ cursor # None => cursor.last <= Last(raw)
                                 /\ (Last(raw) \in Range(file) => cursor.last \in Range(file))
          \/ cursor # None /\ cursor.last \notin Range(file) /\ b = seq + 1
      <4>1. CASE Resets(raw, cursor)
        <5>1. b = seq + 1 /\ cursor # None /\ cursor.last \notin Range(raw)
          BY <4>1 DEF Baseline, Resets, Found
        <5> QED BY <1>0, <5>1 DEF ReadOK
      <4>2. CASE ~ Resets(raw, cursor)
        <5>1. b = BaselineOf(cursor) /\ (cursor # None => Found(raw, cursor)) BY <4>2 DEF Baseline, Resets
        <5>2. Last(raw) \in Nat BY <1>0, <2>5, LinesAre
        <5>3. Last(raw) \in Range(file) => Last(raw) <= Last(raw) BY <5>2
        <5>4. Last(raw) \in Range(file) => (Found(raw, cursor) => cursor.last \in Range(file))
          BY <1>0, <2>5, <5>3, CursorCoversRead
        <5>5. Found(raw, cursor) => cursor.last <= Last(raw) BY <1>0, <2>5, LastIs DEF Found
        <5> QED BY <5>1, <5>4, <5>5
      <4> QED BY <4>1, <4>2
    <3>4. ASSUME Last(raw) \in Range(file), NEW x \in Range(file), x <= Last(raw)
          PROVE  <<x, b>> \in Kept \/ x \in Owed(r)
      <4>1. x \in Range(lines) \/ (Found(raw, cursor) /\ <<x, cursor.baseline>> \in Kept)
        BY <1>0, <2>5, <3>4, CursorCoversRead
      <4>2. Found(raw, cursor) => b = cursor.baseline BY DEF Baseline, Resets, Found, BaselineOf
      <4> HIDE DEF b, lines
      <4> QED BY <2>3, <4>1, <4>2
    <3>5. Covers(Kept, file, r.next.last, b, Owed(r)) BY <2>1, <2>2, <3>4 DEF Covers
    <3> HIDE DEF b, seq
    <3> QED BY <2>1, <2>2, <2>3, <2>4, <3>1, <3>2, <3>3, <3>5 DEF SealOK, seq
  <2> QED BY <1>1, <1>2, <2>1, <2>6, <2>7, HookStep
<1> QED BY <1>3, <1>4 DEF StagePlan

\* stageTranscriptSnapshot seals all of the transcript, where the generation is still the first.
LEMMA ImportPlanCovers ==
  ASSUME Typed, Covering, NEW h \in Hook, ImportPlan(h), ~ Forgets
  PROVE  Covering'
<1> DEFINE k == hook[h]
           seq == SeqAt(k.seen)
<1>0. /\ HookOK(k) /\ ReadOK(k, file, cursor, NewLine) /\ file \in Seq(Line)
      /\ cursor \in Cursor \cup {None} /\ SeqAt(cursor) \in Nat /\ BaselineOf(cursor) \in Nat
  BY HookIs, CursorNumbers
<1>1. UNCHANGED <<file, cursor, hidden, Queue, drain, net, object>> BY DEF ImportPlan, Uploads
<1>2. NewLine' = NewLine
  <2>1. "hides" \in Bounds \ {"lines", "rewrites"} /\ NoFault BY DEF ImportPlan, Bounds
  <2> QED BY <2>1, NoNewLine
<1>3. CASE ToHook(h, IdleHook) BY <1>1, <1>2, <1>3, IdleOK, HookStep
<1>4. ASSUME NEW split \in Splits(file),
             ToHook(h, [k EXCEPT !.pc = "seal", !.raw = << >>, !.todo = Pieces(split, seq, 0),
                          !.next = After(file, split, seq, None)])
      PROVE  Covering'
  <2> DEFINE next == After(file, split, seq, None)
             todo == Pieces(split, seq, 0)
             r == [k EXCEPT !.pc = "seal", !.raw = << >>, !.todo = todo, !.next = next]
  <2>1. /\ ToHook(h, r) /\ r.pc = "seal" /\ r.raw = << >> /\ r.todo = todo /\ r.next = next
        /\ r.kind = k.kind /\ r.seen = k.seen /\ r.short = k.short
    BY <1>0, <1>4 DEF HookOK, IdleHook
  <2>2. next.last = Last(file) /\ next.seq = seq + Len(split) /\ next.baseline = None BY DEF After
  <2>3. k.seen = cursor /\ seq = SeqAt(cursor)
    <3>1. k.pc = "read" /\ k.kind = "import" BY DEF ImportPlan, HookAt
    <3> HIDE DEF k
    <3>2. k.seen = cursor BY <1>0, <3>1 DEF ReadOK
    <3> QED BY <3>2
  <2> HIDE DEF next, todo, r
  <2>4. Len(split) \in Nat /\ Len(split) >= 1 /\ (\A i \in DOMAIN r.todo : r.todo[i].baseline = 0)
        /\ Range(file) \subseteq Owed(r)
    <3>1. r.todo = Pieces(split, seq, 0) BY <2>1 DEF todo
    <3>2. seq \in Nat /\ 0 \in Nat BY <1>0, <2>3
    <3> HIDE DEF seq
    <3> QED BY <1>0, <3>1, <3>2, PiecesHold
  <2>5. ~ Resets(file, cursor) /\ BaselineOf(cursor) = 0
    <3>1. hook'[h].pc = "seal" BY <2>1, HookMoves
    <3> QED BY <3>1 DEF Forgets
  <2>6. Gen(r, cursor) = 0 BY <2>1, <2>2, <2>5 DEF Gen
  <2>7. Last(file) \in Range(file) /\ \A x \in Range(file) : x <= Last(file)
    <3>1. file # << >>
      <4>1. Len(file) >= 1 BY SplitsCover, <1>0, <1>4 DEF Splits
      <4> QED BY <1>0, <4>1, EmptySeq, SMT
    <3> QED BY <1>0, <3>1, LastIs DEF Covering, Numbered
  <2>8. ReadOK(r, file, cursor, NewLine)
    <3>1. Len(<< >>) = 0 /\ Range(<< >>) = {} BY EmptySeq DEF Range
    <3> QED BY <2>1, <2>3, <3>1, SMT DEF ReadOK, Increasing, Agree
  <2>9. SealOK(r, file, cursor, NewLine, Kept)
    <3>1. r.next.last < NewLine BY <2>1, <2>2, <2>7 DEF Covering, Numbered
    <3>2. r.next.seq > SeqAt(cursor) /\ 0 <= r.next.seq
      <4> HIDE DEF seq
      <4> QED BY <1>0, <2>1, <2>2, <2>3, <2>4, SMT
    <3>3. cursor # None => cursor.last \in Range(file) /\ cursor.last <= r.next.last
      BY <2>1, <2>2, <2>5, <2>7 DEF Resets, Found
    <3>4. Covers(Kept, file, r.next.last, 0, Owed(r)) BY <2>4 DEF Covers
    <3> QED BY <2>1, <2>4, <2>5, <2>6, <3>1, <3>2, <3>3, <3>4 DEF SealOK
  <2> QED BY <1>1, <1>2, <2>1, <2>8, <2>9, HookStep
<1> QED BY <1>3, <1>4 DEF ImportPlan

\* What a hook is about to make the cursor stand for is the newest generation.
LEMMA SealsNewest ==
  ASSUME Typed, Covering, NEW k, SealOK(k, file, cursor, NewLine, Kept), k.pc = "seal",
         k.next.last \in Range(file)
  PROVE  AtMost(Generations, Gen(k, cursor))
<1>1. CASE cursor # None /\ Gen(k, cursor) = SeqAt(cursor) + 1
  BY <1>1 DEF Covering, GenerationsBounded, SeqAt
<1>2. CASE Gen(k, cursor) = BaselineOf(cursor) /\ (cursor # None => cursor.last \in Range(file))
  <2>1. CASE cursor = None BY <1>2, <2>1 DEF Covering, GenerationsBounded, BaselineOf
  <2>2. CASE cursor # None BY <1>2, <2>2 DEF Covering, CursorStands, BaselineOf
  <2> QED BY <2>1, <2>2
<1> QED BY <1>1, <1>2 DEF SealOK

\* stageRepositoryTurns moves the cursor once every chunk is sealed.
LEMMA MoveCursorCovers ==
  ASSUME Typed, Typed', Covering, NEW h \in Hook, MoveCursor(h), ~ Overtakes
  PROVE  Covering'
<1> DEFINE k == hook[h]
<1>0. /\ HookOK(k) /\ SealOK(k, file, cursor, NewLine, Kept) /\ k.pc = "seal" /\ k.todo = << >>
      /\ cursor \in Cursor \cup {None} /\ SeqAt(cursor) \in Nat
  BY HookIs, CursorNumbers DEF MoveCursor, HookAt
<1>1. UNCHANGED <<file, hidden, Queue, drain, net, object>> /\ ToHook(h, IdleHook)
  BY DEF MoveCursor, Uploads
<1>2. NewLine' = NewLine
  <2>1. "cursorFailures" \in Bounds \ {"lines", "rewrites"} /\ (NoFault \/ Spend("cursorFailures"))
    BY DEF MoveCursor, Bounds
  <2> QED BY <2>1, NoNewLine
<1>3. CASE cursor' = cursor BY <1>1, <1>2, <1>3, IdleOK, HookStep
<1>4. CASE cursor' # cursor
  <2> DEFINE n == k.next
  <2>1. cursor' = Written(n) /\ ~ k.short BY <1>4 DEF MoveCursor
  <2>2. n \in NextCursor BY <1>0 DEF HookOK
  <2>3. /\ cursor' \in Cursor /\ cursor'.last = n.last /\ cursor'.seq = n.seq
        /\ cursor'.baseline = Gen(k, cursor)
    <3> HIDE DEF n
    <3>1. /\ Written(n) \in Cursor /\ Written(n).last = n.last /\ Written(n).seq = n.seq
          /\ Written(n).baseline = IF n.baseline = None THEN BaselineOf(cursor) ELSE n.baseline
      BY <1>0, <2>2, WrittenType
    <3> QED BY <2>1, <3>1 DEF Gen, n
  <2>4. cursor' # None BY <2>3, NoneAssumption
  <2>5. Owed(k) = {}
    <3>1. DOMAIN << >> = {} BY EmptySeq
    <3> QED BY <1>0, <3>1 DEF Owed
  <2>6. Kept' = Kept BY <1>1 DEF Kept, Queue
  <2> HIDE DEF k
  <2>7. /\ k.next.last < NewLine /\ Gen(k, cursor) <= k.next.seq /\ k.next.seq > SeqAt(cursor)
        /\ Covers(Kept, file, k.next.last, Gen(k, cursor), {})
    BY <1>0, <2>1, <2>5 DEF SealOK
  <2>8. cursor'.seq >= SeqAt(cursor)
    <3>1. n.seq \in Nat BY <2>2 DEF NextCursor
    <3> HIDE DEF n
    <3>2. n.seq > SeqAt(cursor) BY <2>7 DEF n
    <3> QED BY <1>0, <2>3, <3>1, <3>2, SMT
  <2>9. cursor'.last \in Range(file) => AtMost(Generations, cursor'.baseline)
    BY <1>0, <2>3, SealsNewest
  <2>10. Covers(Kept', file, cursor'.last, cursor'.baseline, {}) BY <2>3, <2>6, <2>7
  <2> QED BY <1>1, <1>2, <1>4, <2>3, <2>4, <2>7, <2>8, <2>9, <2>10, CursorStep
<1> QED BY <1>3, <1>4

\* advanceCursorToTranscriptTail accounts for what it skips as hidden.
LEMMA HideWriteCovers ==
  ASSUME Typed, Typed', Covering, NEW h \in Hook, HideWrite(h), ~ Overtakes, ~ Forgets
  PROVE  Covering'
<1> DEFINE raw == hook[h].raw
           n == [last |-> Last(raw), seq |-> SeqAt(hook[h].seen), baseline |-> None, discarded |-> TRUE]
<1>0. /\ HookOK(hook[h]) /\ ReadOK(hook[h], file, cursor, NewLine) /\ hook[h].pc = "write"
      /\ cursor \in Cursor \cup {None} /\ SeqAt(cursor) \in Nat /\ BaselineOf(cursor) \in Nat
      /\ file \in Seq(Line)
  BY HookIs, CursorNumbers DEF HideWrite, HookAt
<1>1. UNCHANGED <<file, Queue, drain, net, object>> /\ ToHook(h, IdleHook)
      /\ hidden' = hidden \cup Range(Delta(raw, cursor)) /\ cursor' = Written(n)
  BY DEF HideWrite, Uploads
<1>2. NewLine' = NewLine
  <2>1. "hides" \in Bounds \ {"lines", "rewrites"} /\ NoFault BY DEF HideWrite, Bounds
  <2> QED BY <2>1, NoNewLine
<1>3. CASE cursor' = cursor BY <1>1, <1>2, <1>3, IdleOK, HookStep
<1>4. CASE cursor' # cursor
  <2>1. raw \in Seq(Line) /\ raw # << >> /\ Increasing(raw) /\ Agree(file, raw)
        /\ \A l \in Range(raw) : l < NewLine
    BY <1>0 DEF HookOK, ReadOK
  <2>2. hook[h].seen = cursor BY <1>0 DEF ReadOK
  <2>3. Last(raw) \in Line /\ Last(raw) \in Range(raw)
    <3> HIDE DEF raw
    <3> QED BY <2>1, LastIs, LinesAre
  <2>4. n \in NextCursor BY <1>0, <2>2, <2>3 DEF NextCursor
  <2>5. n.last = Last(raw) /\ n.seq = SeqAt(cursor) /\ n.baseline = None BY <2>2
  <2> HIDE DEF n
  <2>6. /\ cursor' \in Cursor /\ cursor'.last = Last(raw) /\ cursor'.seq = SeqAt(cursor)
        /\ cursor'.baseline = BaselineOf(cursor)
    BY <1>0, <1>1, <2>4, <2>5, WrittenType
  <2>7. cursor' # None BY <2>6, NoneAssumption
  <2>8. cursor'.baseline <= cursor'.seq /\ cursor'.seq >= SeqAt(cursor)
    <3>1. cursor # None => cursor.baseline <= cursor.seq BY DEF Covering, Numbered
    <3>2. BaselineOf(cursor) <= SeqAt(cursor) BY <3>1, SMT DEF BaselineOf, SeqAt
    <3> QED BY <1>0, <2>6, <3>2, SMT
  <2>9. cursor'.last < NewLine BY <2>1, <2>3, <2>6
  <2> HIDE DEF raw
  <2>10. ASSUME Last(raw) \in Range(file) PROVE AtMost(Generations, BaselineOf(cursor))
    <3>1. CASE Resets(raw, cursor)
      <4>1. \A x \in chunks \cup net \cup {object} : ~ (x.baseline > BaselineOf(cursor))
        BY <3>1 DEF Forgets, raw
      <4>2. \A x \in chunks \cup net \cup {object} : x.baseline \in Nat
        BY DEF Typed, QueueOK, UploadsOK, ObjectOK, Chunk, Request
      <4>3. \A x \in chunks \cup net \cup {object} : x.baseline <= BaselineOf(cursor)
        BY <1>0, <4>1, <4>2, SMT
      <4> QED BY <4>3 DEF AtMost, Generations
    <3>2. CASE cursor = None BY <3>2 DEF Covering, GenerationsBounded, BaselineOf
    <3>3. CASE cursor # None /\ Found(raw, cursor)
      <4>1. Last(raw) \in Nat BY <2>1, <2>3, LinesAre
      <4>2. Last(raw) <= Last(raw) BY <4>1
      <4>3. cursor.last \in Range(file) BY <2>1, <2>10, <3>3, <4>2, CursorCoversRead
      <4> QED BY <3>3, <4>3 DEF Covering, CursorStands, BaselineOf
    <3> QED BY <3>1, <3>2, <3>3 DEF Resets
  <2>11. ASSUME Last(raw) \in Range(file), NEW x \in Range(file), x <= Last(raw)
         PROVE  <<x, BaselineOf(cursor)>> \in Kept'
    <3>1. x \in Range(Delta(raw, cursor)) \/ (Found(raw, cursor) /\ <<x, cursor.baseline>> \in Kept)
      BY <2>1, <2>11, CursorCoversRead
    <3>2. Kept \subseteq Kept' BY <1>1 DEF Kept, Queue
    <3>3. x \in Line BY <1>0, LinesAre
    <3>4. x \in hidden' => <<x, BaselineOf(cursor)>> \in Kept' BY <1>0, <3>3 DEF Kept
    <3> QED BY <1>1, <3>1, <3>2, <3>4 DEF Found, BaselineOf
  <2>12. cursor'.last \in Range(file) =>
           /\ AtMost(Generations, cursor'.baseline)
           /\ Covers(Kept', file, cursor'.last, cursor'.baseline, {})
    BY <2>6, <2>10, <2>11 DEF Covers
  <2> QED BY <1>1, <1>2, <1>4, <2>7, <2>8, <2>9, <2>12, CursorStep
<1> QED BY <1>3, <1>4

\* What is left to seal after one more piece.
LEMMA TailIs ==
  ASSUME NEW S, NEW s \in Seq(S), s # << >>
  PROVE  /\ \A i \in DOMAIN Tail(s) : i + 1 \in DOMAIN s /\ Tail(s)[i] = s[i + 1]
         /\ \A i \in DOMAIN s : s[i] = Head(s) \/ \E j \in DOMAIN Tail(s) : s[i] = Tail(s)[j]
         /\ 1 \in DOMAIN s /\ Head(s) = s[1]
<1>1. /\ Head(s) = s[1] /\ Tail(s) \in Seq(S) /\ Len(Tail(s)) = Len(s) - 1
      /\ \A i \in 1 .. Len(Tail(s)) : Tail(s)[i] = s[i + 1]
  BY HeadTailProperties, SMT
<1>2. Len(s) \in Nat /\ Len(s) # 0 BY EmptySeq, SMT
<1>3. DOMAIN s = 1 .. Len(s) /\ DOMAIN Tail(s) = 1 .. Len(s) - 1 BY <1>1, LenProperties
<1>4. ASSUME NEW i \in 1 .. Len(s) - 1 PROVE i + 1 \in 1 .. Len(s) BY <1>2, SMT
<1>5. ASSUME NEW i \in 1 .. Len(s), i # 1 PROVE i - 1 \in 1 .. Len(s) - 1 /\ (i - 1) + 1 = i
  BY <1>2, <1>5, SMT
<1>6. 1 \in 1 .. Len(s) BY <1>2, SMT
<1> QED BY <1>1, <1>3, <1>4, <1>5, <1>6

\* A hook has sealed the next of its chunks, or failed to.
LEMMA NextToSeal ==
  ASSUME Typed, Covering, NEW h \in Hook, HookAt(h, "seal"), hook[h].todo # << >>, NEW r,
         r.pc = "seal", r.raw = hook[h].raw, r.seen = hook[h].seen, r.kind = hook[h].kind,
         r.next = hook[h].next, r.todo = Tail(hook[h].todo)
  PROVE  /\ ReadOK(r, file, cursor, NewLine)
         /\ Head(hook[h].todo).baseline = Gen(hook[h], cursor)
         /\ Gen(r, cursor) = Gen(hook[h], cursor)
         /\ \A i \in DOMAIN r.todo : r.todo[i].baseline = Gen(r, cursor)
         /\ Owed(hook[h]) \subseteq Range(Head(hook[h].todo).lines) \cup Owed(r)
<1> DEFINE k == hook[h]
<1>0. HookOK(k) /\ ReadOK(k, file, cursor, NewLine) /\ SealOK(k, file, cursor, NewLine, Kept)
      /\ k.pc = "seal"
  BY HookIs DEF HookAt
<1> HIDE DEF k
<1>1. ReadOK(r, file, cursor, NewLine) BY <1>0 DEF ReadOK, k
<1>2. Gen(r, cursor) = Gen(k, cursor) BY DEF Gen, k
<1>3. \A i \in DOMAIN k.todo : k.todo[i].baseline = Gen(k, cursor) BY <1>0 DEF SealOK
<1>4. k.todo \in Seq(Piece) /\ k.todo # << >> BY <1>0 DEF HookOK, k
<1>5. /\ \A i \in DOMAIN r.todo : i + 1 \in DOMAIN k.todo /\ r.todo[i] = k.todo[i + 1]
      /\ \A i \in DOMAIN k.todo : k.todo[i] = Head(k.todo) \/ \E j \in DOMAIN r.todo : k.todo[i] = r.todo[j]
      /\ 1 \in DOMAIN k.todo /\ Head(k.todo) = k.todo[1]
  BY <1>4, TailIs DEF k
<1>6. Owed(k) \subseteq Range(Head(k.todo).lines) \cup Owed(r) BY <1>5 DEF Owed
<1> QED BY <1>1, <1>2, <1>3, <1>5, <1>6 DEF k

\* sealDeltaChunk: what a hook owes is now in a chunk of its generation.
LEMMA SealChunkCovers ==
  ASSUME Typed, Typed', Covering, NEW h \in Hook, SealChunk(h)
  PROVE  Covering'
<1> DEFINE k == hook[h]
           c == Head(k.todo)
           new == [id |-> Len(refused) + 1, lines |-> c.lines, seq |-> c.seq,
                   baseline |-> c.baseline, attempts |-> 0, waiting |-> FALSE]
           todo == Tail(k.todo)
           r == [k EXCEPT !.todo = todo]
           s == [r EXCEPT !.short = TRUE]
<1>0. /\ HookOK(k) /\ SealOK(k, file, cursor, NewLine, Kept) /\ HookAt(h, "seal") /\ k.todo # << >>
      /\ cursor \in Cursor \cup {None} /\ SeqAt(cursor) \in Nat /\ BaselineOf(cursor) \in Nat
      /\ k.pc = "seal"
  BY HookIs, CursorNumbers DEF SealChunk, HookAt
<1>1. UNCHANGED <<file, cursor, hidden, aside, expired, drain, net, object>>
  BY DEF SealChunk, Uploads
<1>2. NewLine' = NewLine
  <2>1. "sealFailures" \in Bounds \ {"lines", "rewrites"} /\ (NoFault \/ Spend("sealFailures"))
    BY DEF SealChunk, Bounds
  <2> QED BY <2>1, NoNewLine
<1>3. /\ r.pc = "seal" /\ r.raw = k.raw /\ r.seen = k.seen /\ r.kind = k.kind /\ r.next = k.next
      /\ r.todo = todo /\ r.short = k.short
      /\ s.pc = "seal" /\ s.raw = k.raw /\ s.seen = k.seen /\ s.kind = k.kind /\ s.next = k.next
      /\ s.todo = todo /\ s.short = TRUE
  BY <1>0 DEF HookOK, IdleHook
<1>4. \/ chunks' = chunks \cup {new} /\ refused' = Append(refused, 0) /\ ToHook(h, r)
      \/ UNCHANGED <<chunks, refused>> /\ ToHook(h, s)
  BY DEF SealChunk
<1> HIDE DEF r, s, todo
<1>5. CASE UNCHANGED <<chunks, refused>> /\ ToHook(h, s)
  <2>1. /\ ReadOK(s, file, cursor, NewLine) /\ Gen(s, cursor) = Gen(k, cursor)
        /\ \A i \in DOMAIN s.todo : s.todo[i].baseline = Gen(s, cursor)
    BY <1>0, <1>3, NextToSeal DEF todo
  <2> HIDE DEF k
  <2>2. SealOK(s, file, cursor, NewLine, Kept) BY <1>0, <1>3, <2>1 DEF SealOK
  <2> QED BY <1>1, <1>2, <1>5, <2>1, <2>2, HookStep DEF Queue
<1>6. CASE chunks' = chunks \cup {new} /\ refused' = Append(refused, 0) /\ ToHook(h, r)
  <2>1. /\ ReadOK(r, file, cursor, NewLine) /\ Gen(r, cursor) = Gen(k, cursor)
        /\ c.baseline = Gen(k, cursor)
        /\ \A i \in DOMAIN r.todo : r.todo[i].baseline = Gen(r, cursor)
        /\ Owed(k) \subseteq Range(c.lines) \cup Owed(r)
    BY <1>0, <1>3, NextToSeal DEF todo
  <2>2. new.id = Len(refused) + 1 /\ new.lines = c.lines /\ new.baseline = c.baseline OBVIOUS
  <2>3. c \in Piece BY <1>0, SMT DEF HookOK
  <2>4. c.baseline \in Nat /\ Range(c.lines) \subseteq Line BY <2>3, LinesAre DEF Piece
  <2> HIDE DEF c, new, k
  <2>5. Generations' = Generations \cup {c.baseline}
    BY <1>1, <1>6, <2>2 DEF Generations
  <2>6. Kept \subseteq Kept' /\ \A x \in Range(c.lines) : <<x, c.baseline>> \in Kept'
    BY <1>1, <1>6, <2>2, <2>4 DEF Kept
  <2>7. \/ c.baseline = BaselineOf(cursor)
        \/ cursor # None /\ cursor.last \notin Range(file) /\ c.baseline = SeqAt(cursor) + 1
    BY <1>0, <2>1 DEF SealOK
  <2>8. Numbered' BY <1>1, <1>2 DEF Covering, Numbered
  <2>9. CursorStands'
    <3> SUFFICES ASSUME cursor # None, cursor.last \in Range(file)
                 PROVE  /\ AtMost(Generations', cursor.baseline)
                        /\ Covers(Kept', file, cursor.last, cursor.baseline, {})
      BY <1>1 DEF CursorStands
    <3>1. c.baseline = cursor.baseline BY <2>7 DEF BaselineOf
    <3>2. c.baseline <= cursor.baseline BY <2>4, <3>1
    <3> QED BY <2>5, <2>6, <3>2, CoversMore DEF Covering, CursorStands, AtMost
  <2>10. GenerationsBounded'
    <3>1. c.baseline <= IF cursor = None THEN 0 ELSE cursor.seq + 1
      <4>1. cursor # None => cursor.baseline <= cursor.seq /\ cursor.baseline \in Nat /\ cursor.seq \in Nat
        BY HookIs DEF Covering, Numbered
      <4> QED BY <2>4, <2>7, <4>1, SMT DEF BaselineOf, SeqAt
    <3> QED BY <1>1, <2>5, <3>1 DEF Covering, GenerationsBounded, AtMost
  <2>11. SealOK(r, file, cursor, NewLine, Kept')
    <3>1. ~ r.short => Covers(Kept', file, r.next.last, Gen(r, cursor), Owed(r))
      BY <1>0, <1>3, <2>1, <2>6 DEF SealOK, Covers
    <3> QED BY <1>0, <1>3, <2>1, <3>1 DEF SealOK
  <2>12. HooksOK'
    <3> SUFFICES ASSUME NEW g \in Hook
                 PROVE  /\ ReadOK(hook'[g], file', cursor', NewLine')
                        /\ SealOK(hook'[g], file', cursor', NewLine', Kept')
      BY DEF HooksOK
    <3>1. hook'[g] = IF g = h THEN r ELSE hook[g] BY <1>6, HookMoves
    <3>2. CASE g = h BY <1>1, <1>2, <2>1, <2>11, <3>1, <3>2
    <3>3. CASE g # h
      <4>1. ReadOK(hook'[g], file, cursor, NewLine) /\ SealOK(hook'[g], file, cursor, NewLine, Kept)
        BY <3>1, <3>3 DEF Covering, HooksOK
      <4>2. SealOK(hook'[g], file, cursor, NewLine, Kept') BY <2>6, <4>1, CoversMore
      <4> QED BY <1>1, <1>2, <4>1, <4>2
    <3> QED BY <3>2, <3>3
  <2>13. Copies'
    <3>1. Len(refused) \in Nat /\ Len(refused') = Len(refused) + 1
      BY <1>6, AppendProperties DEF Typed, QueueOK
    <3>2. 1 .. Len(refused) \subseteq 1 .. Len(refused') /\ new.id \notin 1 .. Len(refused)
      BY <2>2, <3>1, SMT
    <3>3. \A d \in Drain : DrainAt(d, "waiting") => drain[d].meta.id \in 1 .. Len(refused) BY MetaType
    <3> QED BY <1>1, <1>6, <3>2, <3>3 DEF Covering, Copies, DrainAt
  <2> QED BY <2>8, <2>9, <2>10, <2>12, <2>13 DEF Covering
<1> QED BY <1>4, <1>5, <1>6

-----------------------------------------------------------------------------
(* The transcript grows.                                                     *)

\* After a prefix of the transcript comes a line that is new.
LEMMA Grows ==
  ASSUME Typed, Covering, AppendLine \/ Rewrite
  PROVE  /\ Increasing(file') /\ NewLine' = NewLine + 1 /\ NewLine \in Line
         /\ NewLine \in Range(file')
         /\ \E p \in Nat : \A x \in Line :
              x \in Range(file') <=> x = NewLine \/ (x \in Range(file) /\ x <= p)
<1>0. file \in Seq(Line) /\ Len(file) \in Nat /\ Increasing(file) /\ \A l \in Range(file) : l < NewLine
  BY LinesAre DEF Typed, TranscriptOK, Covering, Numbered
<1>1. NewLine \in Line /\ NewLine' = NewLine + 1 BY NewLineType DEF AppendLine, Rewrite, Typed
<1> DEFINE e == NewLine
<1>2. \E k \in 0 .. Len(file) : file' = Append(SubSeq(file, 1, k), e)
  <2>1. CASE AppendLine
    <3>1. SubSeq(file, 1, Len(file)) = file
      <4>1. Len(SubSeq(file, 1, Len(file))) = Len(file) /\ SubSeq(file, 1, Len(file)) \in Seq(Line)
            /\ \A i \in 1 .. Len(file) : SubSeq(file, 1, Len(file))[i] = file[i]
        BY <1>0, SubSeqProperties, SMT
      <4> QED BY <1>0, <4>1, SeqEqual
    <3>2. Len(file) \in 0 .. Len(file) BY <1>0
    <3> QED BY <2>1, <3>1, <3>2 DEF AppendLine
  <2>2. CASE Rewrite
    <3>1. 0 .. Len(file) - 1 \subseteq 0 .. Len(file) BY <1>0, SMT
    <3> QED BY <2>2, <3>1 DEF Rewrite
  <2> QED BY <2>1, <2>2
<1> HIDE DEF e
<1>3. PICK k \in 0 .. Len(file) : file' = Append(SubSeq(file, 1, k), e) BY <1>2
<1>4. /\ file' \in Seq(Line) /\ Len(file') = k + 1
      /\ \A i \in 1 .. k : file'[i] = file[i]
      /\ file'[k + 1] = e
  BY <1>0, <1>1, <1>3, AppendOne DEF e
<1>5. /\ k \in Nat /\ k <= Len(file) /\ 1 .. k + 1 = (1 .. k) \cup {k + 1} /\ 1 .. k \subseteq 1 .. Len(file)
  BY <1>0, SMT
<1>6. \A i \in 1 .. k : file[i] \in Nat /\ file[i] < e BY <1>0, <1>5, LinesAre DEF e
<1>7. Increasing(file')
  <2> SUFFICES ASSUME NEW i \in 1 .. k + 1, NEW j \in 1 .. k + 1, i < j PROVE file'[i] < file'[j]
    BY <1>4 DEF Increasing
  <2>1. i \in 1 .. k BY <1>5, SMT
  <2>2. CASE j = k + 1 BY <1>4, <1>6, <2>1, <2>2
  <2>3. CASE j \in 1 .. k
    <3>1. file[i] < file[j] BY <1>0, <1>5, <2>1, <2>3 DEF Increasing
    <3> QED BY <1>4, <2>1, <2>3, <3>1
  <2> QED BY <1>5, <2>2, <2>3
<1>8. DOMAIN file' = 1 .. k + 1 /\ DOMAIN file = 1 .. Len(file) BY <1>0, <1>4, LenProperties
<1>9. Range(file') = {file[i] : i \in 1 .. k} \cup {e} BY <1>4, <1>5, <1>8 DEF Range
<1>10. e \in Nat /\ Line \subseteq Nat BY <1>1, LineType DEF e
<1>11. \E p \in Nat : \A x \in Line : x \in {file[i] : i \in 1 .. k} <=> x \in Range(file) /\ x <= p
  <2>1. CASE k = 0
    <3>1. {file[i] : i \in 1 .. k} = {} BY <2>1, SMT
    <3>2. \A x \in Line : ~ (x <= 0) BY LineType, SMT
    <3> QED BY <3>1, <3>2
  <2>2. CASE k # 0
    <3>1. k \in 1 .. k /\ k \in 1 .. Len(file) BY <1>5, <2>2, SMT
    <3>2. file[k] \in Nat BY <1>6, <3>1
    <3>3. ASSUME NEW x \in Line PROVE x \in {file[i] : i \in 1 .. k} <=> x \in Range(file) /\ x <= file[k]
      <4>1. ASSUME NEW i \in 1 .. k, x = file[i] PROVE x \in Range(file) /\ x <= file[k]
        <5>1. i = k \/ i < k BY <1>5, SMT
        <5>2. i < k => file[i] < file[k] BY <1>0, <1>5, <3>1 DEF Increasing
        <5>3. file[i] \in Nat BY <1>6
        <5>4. x <= file[k] BY <3>2, <4>1, <5>1, <5>2, <5>3, SMT
        <5> QED BY <1>5, <1>8, <4>1, <5>4 DEF Range
      <4>2. ASSUME x \in Range(file), x <= file[k] PROVE \E i \in 1 .. k : x = file[i]
        <5>1. PICK i \in 1 .. Len(file) : file[i] = x BY <1>8, <4>2 DEF Range
        <5>2. ~ (k < i)
          <6>1. k < i => file[k] < file[i] BY <1>0, <3>1 DEF Increasing
          <6>2. x \in Nat BY <1>10
          <6> QED BY <3>2, <4>2, <5>1, <6>1, <6>2, SMT
        <5>3. i \in 1 .. k BY <1>5, <5>2, SMT
        <5> QED BY <5>1, <5>3
      <4> QED BY <4>1, <4>2
    <3> QED BY <3>2, <3>3
  <2> QED BY <2>1, <2>2
<1> QED BY <1>1, <1>7, <1>9, <1>11 DEF e

\* Up to a line that was there before, nothing has changed.
LEMMA GrowKeepsPrefix ==
  ASSUME Typed, Covering, AppendLine \/ Rewrite, NEW l \in Range(file'), l < NewLine
  PROVE  /\ l \in Range(file)
         /\ \A x \in Line : x <= l => (x \in Range(file') <=> x \in Range(file))
<1>1. NewLine \in Line /\ file' \in Seq(Line)
  BY Grows, WritingKeeps DEF TranscriptOK
<1>2. PICK p \in Nat : \A x \in Line : x \in Range(file') <=> x = NewLine \/ (x \in Range(file) /\ x <= p)
  BY Grows
<1>3. l \in Line /\ l \in Nat /\ NewLine \in Nat BY <1>1, LinesAre, LineType
<1>4. l # NewLine BY <1>3, SMT
<1>5. l \in Range(file) /\ l <= p BY <1>2, <1>3, <1>4
<1>6. ASSUME NEW x \in Line, x <= l PROVE x <= p /\ x # NewLine
  <2>1. x \in Nat BY LineType
  <2> HIDE DEF NewLine
  <2> QED BY <1>3, <1>5, <1>6, <2>1, SMT
<1> QED BY <1>2, <1>5, <1>6

\* Claude Code writes after lines that are still accounted for.
LEMMA GrowCovers ==
  ASSUME Typed, Covering, AppendLine \/ Rewrite
  PROVE  Covering'
<1>0. UNCHANGED <<cursor, hook, hidden, Queue, drain, net, object>> BY DEF AppendLine, Rewrite, Uploads
<1>1. Generations' = Generations /\ Kept' = Kept BY <1>0 DEF Queue, Generations, Kept
<1>2. NewLine' = NewLine + 1 /\ NewLine \in Nat /\ Increasing(file') BY Grows, LineType
<1> DEFINE e == NewLine
           e2 == NewLine'
<1>3. e2 = e + 1 /\ e \in Nat BY <1>2
<1>4. file \in Seq(Line) /\ file' \in Seq(Line) BY WritingKeeps DEF TranscriptOK, Typed
<1>5. ASSUME NEW l \in Range(file'), l < e
      PROVE  l \in Range(file) /\ \A x \in Line : x <= l => (x \in Range(file') <=> x \in Range(file))
  BY <1>5, GrowKeepsPrefix
<1>6. \A l \in Range(file') : l < e2
  <2>1. \A l \in Range(file') : l = e \/ l \in Range(file) BY <1>4, Grows, LinesAre
  <2>2. \A l \in Range(file') : l \in Nat BY <1>4, LinesAre
  <2>3. \A l \in Range(file) : l < e BY DEF Covering, Numbered
  <2> HIDE DEF e, e2
  <2> QED BY <1>3, <2>1, <2>2, <2>3, SMT
<1>7. ASSUME NEW l \in Nat, l < e PROVE l < e2
  <2> HIDE DEF e, e2
  <2> QED BY <1>3, <1>7, SMT
<1>8. Numbered'
  <2>1. cursor # None => cursor.last \in Nat /\ cursor.last < e /\ cursor.baseline <= cursor.seq
    <3>1. cursor # None => cursor.last \in Nat BY LineType DEF Typed, TranscriptOK, Cursor
    <3>2. cursor # None => cursor.last < NewLine /\ cursor.baseline <= cursor.seq
      BY DEF Covering, Numbered
    <3> QED BY <3>1, <3>2
  <2>2. cursor # None => cursor.last < e2 BY <1>7, <2>1
  <2> QED BY <1>0, <1>2, <1>6, <2>1, <2>2 DEF Numbered
<1>9. ASSUME NEW l, l < e, NEW b, NEW T, NEW K, Covers(K, file, l, b, T)
      PROVE  Covers(K, file', l, b, T)
  <2>1. \A x \in Range(file') : x \in Line BY <1>4, LinesAre
  <2> HIDE DEF e
  <2> QED BY <1>5, <1>9, <2>1 DEF Covers
<1>10. CursorStands'
  <2>1. cursor # None => cursor.last < e BY DEF Covering, Numbered
  <2>2. cursor # None /\ cursor.last \in Range(file') =>
          AtMost(Generations, cursor.baseline) /\ Covers(Kept, file', cursor.last, cursor.baseline, {})
    BY <1>5, <1>9, <2>1 DEF Covering, CursorStands
  <2> QED BY <1>0, <1>1, <2>2 DEF CursorStands
<1>11. GenerationsBounded' BY <1>0, <1>1 DEF Covering, GenerationsBounded
<1>12. HooksOK'
  <2> SUFFICES ASSUME NEW g \in Hook
               PROVE  /\ ReadOK(hook[g], file', cursor, e2)
                      /\ SealOK(hook[g], file', cursor, e2, Kept)
    BY <1>0, <1>1 DEF HooksOK
  <2> DEFINE k == hook[g]
  <2>1. /\ HookOK(k) /\ ReadOK(k, file, cursor, e) /\ SealOK(k, file, cursor, e, Kept)
        /\ (cursor # None => cursor.last < e)
    BY HookIs DEF Covering, Numbered
  <2>2. k.raw \in Seq(Line) /\ (k.pc = "seal" => k.next.last \in Nat)
    BY <2>1, LineType DEF HookOK, NextCursor
  <2> HIDE DEF e, e2, k
  <2>3. Agree(file', k.raw)
    <3> SUFFICES ASSUME NEW l \in Range(file') \cap Range(k.raw), NEW x \in Line, x <= l
                 PROVE  x \in Range(file') <=> x \in Range(k.raw)
      BY DEF Agree
    <3>1. l < e BY <2>1 DEF ReadOK
    <3>2. l \in Range(file) /\ (x \in Range(file') <=> x \in Range(file)) BY <1>5, <3>1
    <3> QED BY <2>1, <3>2 DEF ReadOK, Agree
  <2>4. \A l \in Range(k.raw) : l < e2 BY <1>7, <2>1, <2>2, LinesAre DEF ReadOK
  <2>5. cursor # None /\ cursor.last \in Range(file') => cursor.last \in Range(file) BY <1>5, <2>1
  <2>6. ReadOK(k, file', cursor, e2) BY <2>1, <2>3, <2>4, <2>5 DEF ReadOK
  <2>7. SealOK(k, file', cursor, e2, Kept)
    <3> SUFFICES ASSUME k.pc = "seal" PROVE SealOK(k, file', cursor, e2, Kept) BY DEF SealOK
    <3>1. k.next.last < e /\ k.next.last < e2 BY <1>7, <2>1, <2>2 DEF SealOK
    <3>2. ~ k.short => Covers(Kept, file', k.next.last, Gen(k, cursor), Owed(k))
      BY <1>9, <2>1, <3>1 DEF SealOK
    <3>3. k.next.last \in Range(file') => k.next.last \in Range(file) BY <1>5, <3>1
    <3>4. cursor.last \notin Range(file) /\ cursor # None => cursor.last \notin Range(file') BY <2>5
    <3>5. \/ /\ Gen(k, cursor) = BaselineOf(cursor)
             /\ cursor # None =>
                  cursor.last <= k.next.last
                  /\ (k.next.last \in Range(file') => cursor.last \in Range(file'))
          \/ cursor # None /\ cursor.last \notin Range(file') /\ Gen(k, cursor) = SeqAt(cursor) + 1
      <4>1. CASE cursor # None /\ cursor.last \notin Range(file) /\ Gen(k, cursor) = SeqAt(cursor) + 1
        BY <3>4, <4>1
      <4>2. CASE /\ Gen(k, cursor) = BaselineOf(cursor)
                 /\ cursor # None => cursor.last <= k.next.last
                                     /\ (k.next.last \in Range(file) => cursor.last \in Range(file))
        <5>1. ASSUME cursor # None, k.next.last \in Range(file') PROVE cursor.last \in Range(file')
          <6>1. cursor.last <= k.next.last /\ cursor.last \in Range(file) BY <3>3, <4>2, <5>1
          <6>2. cursor.last \in Line BY <1>4, <6>1, LinesAre
          <6> QED BY <1>5, <3>1, <5>1, <6>1, <6>2
        <5> QED BY <4>2, <5>1
      <4> QED BY <2>1, <4>1, <4>2 DEF SealOK
    <3> QED BY <2>1, <3>1, <3>2, <3>5 DEF SealOK
  <2> QED BY <2>6, <2>7 DEF k
<1>13. Copies' BY <1>0 DEF Covering, Copies, Queue, DrainAt
<1> QED BY <1>8, <1>10, <1>11, <1>12, <1>13 DEF Covering

-----------------------------------------------------------------------------
(* Draining.                                                                 *)

\* The collector keeps what it has of the generation it is at, and takes what a request of
\* that generation brings.
LEMMA MergedKeeps ==
  ASSUME ObjectOK, NEW m \in Request, NEW o, o = Merged(object, m)
  PROVE  /\ o.baseline = object.baseline \/ o.baseline = m.baseline
         /\ o.baseline >= object.baseline /\ o.baseline >= m.baseline
         /\ o.baseline = object.baseline => Range(object.lines) \subseteq Range(o.lines)
         /\ o.baseline = m.baseline => Range(m.lines) \subseteq Range(o.lines)
<1>1. object.lines \in Seq(Line) /\ object.baseline \in Nat /\ m.lines \in Seq(Line) /\ m.baseline \in Nat
  BY DEF ObjectOK, Request
<1> DEFINE new == Without(m.lines, Range(object.lines))
           more == object.lines \o new
<1>2. CASE m.baseline > object.baseline
  <2>1. m.baseline # object.baseline BY <1>1, <1>2, SMT
  <2>2. o = [lines |-> m.lines, baseline |-> m.baseline] BY <1>2, <2>1, Zenon DEF Merged
  <2> QED BY <1>1, <1>2, <2>2
<1>3. CASE m.baseline = object.baseline
  <2>1. o = [object EXCEPT !.lines = more]
    <3>1. ~ (m.baseline > object.baseline) BY <1>1, <1>3, SMT
    <3> QED BY <1>3, <3>1, Zenon DEF Merged
  <2>2. new \in Seq(Line) /\ Range(new) = Range(m.lines) \ Range(object.lines) BY <1>1, WithoutKeeps
  <2> HIDE DEF new
  <2>3. Range(more) = Range(object.lines) \cup Range(new) BY <1>1, <2>2, RangeConcatenation
  <2> HIDE DEF more
  <2>4. o.lines = more /\ o.baseline = object.baseline BY <2>1 DEF ObjectOK
  <2> QED BY <1>1, <1>3, <2>2, <2>3, <2>4
<1>4. CASE ~ (m.baseline > object.baseline) /\ m.baseline # object.baseline
  <2>1. o = object BY <1>4 DEF Merged
  <2>2. object.baseline >= object.baseline /\ object.baseline >= m.baseline BY <1>1, <1>4, SMT
  <2> QED BY <1>4, <2>1, <2>2
<1> QED BY <1>2, <1>3, <1>4

\* What a step of the drains, the collector or time does to the queue: chunks change their
\* state, are given up on or are delivered; requests are of chunks.
Shifts ==
  /\ UNCHANGED Transcript /\ NewLine' = NewLine
  /\ aside \subseteq aside' /\ expired \subseteq expired' /\ Len(refused') = Len(refused)
  /\ \A c \in chunks' : \E b \in chunks : Alike(b, c)
  /\ object' = object \/ \E m \in net : object' = Merged(object, m)
  /\ \A c \in chunks : \/ \E b \in chunks' \cup aside' \cup expired' : Alike(b, c)
                       \/ \E m \in net : Alike(m, c) /\ object' = Merged(object, m)
  /\ \A m \in net' : \E x \in net \cup chunks : Alike(x, m)
  /\ \A d \in Drain : DrainAt(d, "waiting")' =>
       \/ DrainAt(d, "waiting") /\ drain'[d].meta = drain[d].meta
       \/ drain'[d].meta \in chunks

\* Such a step begins no generation, and loses no line of the newest.
LEMMA ShiftsKeepLines ==
  ASSUME Typed, Shifts
  PROVE  /\ Generations' \subseteq Generations
         /\ \A x \in Line, b \in Nat :
              AtMost(Generations, b) /\ <<x, b>> \in Kept => <<x, b>> \in Kept'
<1>0. ObjectOK /\ net \subseteq Request /\ \A m \in net : m.baseline \in Nat
  BY DEF Typed, UploadsOK, Request
<1>1. Generations' \subseteq Generations
  <2>1. \A c \in chunks' : c.baseline \in Generations BY DEF Shifts, Alike, Generations
  <2>2. \A m \in net' : m.baseline \in Generations BY DEF Shifts, Alike, Generations
  <2>3. object'.baseline \in Generations
    <3>1. ASSUME NEW m \in net, object' = Merged(object, m)
          PROVE  object'.baseline = object.baseline \/ object'.baseline = m.baseline
      BY <1>0, <3>1, MergedKeeps
    <3> QED BY <3>1 DEF Shifts, Generations
  <2> QED BY <2>1, <2>2, <2>3 DEF Generations
<1>2. ASSUME NEW x \in Line, NEW b \in Nat, AtMost(Generations, b), <<x, b>> \in Kept
      PROVE  <<x, b>> \in Kept'
  <2>0. object.baseline \in Nat /\ object.baseline <= b /\ \A m \in net : m.baseline <= b
    BY <1>0, <1>2 DEF AtMost, Generations, ObjectOK
  <2>1. CASE x \in hidden BY <2>1 DEF Shifts, Transcript, Kept
  <2>2. CASE \E c \in aside \cup expired : c.baseline = b /\ x \in Range(c.lines)
    BY <2>2 DEF Shifts, Kept
  <2>3. ASSUME NEW c \in chunks, c.baseline = b, x \in Range(c.lines) PROVE <<x, b>> \in Kept'
    <3>1. CASE \E y \in chunks' \cup aside' \cup expired' : Alike(y, c)
      BY <2>3, <3>1 DEF Alike, Kept
    <3>2. ASSUME NEW m \in net, Alike(m, c), object' = Merged(object, m) PROVE <<x, b>> \in Kept'
      <4>1. m.baseline = b /\ x \in Range(m.lines) BY <2>3, <3>2 DEF Alike
      <4>2. /\ object'.baseline = object.baseline \/ object'.baseline = m.baseline
            /\ object'.baseline >= m.baseline
            /\ object'.baseline = m.baseline => Range(m.lines) \subseteq Range(object'.lines)
        BY <1>0, <3>2, MergedKeeps
      <4>3. object'.baseline = b BY <2>0, <4>1, <4>2, SMT
      <4> QED BY <4>1, <4>2, <4>3 DEF Kept
    <3> QED BY <3>1, <3>2 DEF Shifts
  <2>4. CASE object.baseline = b /\ x \in Range(object.lines)
    <3>1. CASE object' = object BY <2>4, <3>1 DEF Kept
    <3>2. ASSUME NEW m \in net, object' = Merged(object, m) PROVE <<x, b>> \in Kept'
      <4>1. /\ object'.baseline = object.baseline \/ object'.baseline = m.baseline
            /\ object'.baseline >= object.baseline
            /\ object'.baseline = object.baseline => Range(object.lines) \subseteq Range(object'.lines)
        BY <1>0, <3>2, MergedKeeps
      <4>2. object'.baseline = b BY <1>0, <2>0, <2>4, <4>1, SMT
      <4> QED BY <2>4, <4>1, <4>2 DEF Kept
    <3> QED BY <3>1, <3>2 DEF Shifts
  <2> QED BY <1>2, <2>1, <2>2, <2>3, <2>4 DEF Kept
<1> QED BY <1>1, <1>2

\* So it keeps the invariant.
LEMMA ShiftsCover ==
  ASSUME Typed, Covering, Shifts
  PROVE  Covering'
<1>0. /\ file \in Seq(Line) /\ cursor \in Cursor \cup {None} /\ UNCHANGED <<file, cursor, hook>>
      /\ NewLine' = NewLine /\ Range(file) \subseteq Line
  BY LinesAre DEF Typed, TranscriptOK, Shifts, Transcript
<1>1. Generations' \subseteq Generations BY ShiftsKeepLines
<1>2. ASSUME NEW l, NEW b \in Nat, NEW T, AtMost(Generations, b), Covers(Kept, file, l, b, T)
      PROVE  Covers(Kept', file, l, b, T)
  BY <1>0, <1>2, ShiftsKeepLines DEF Covers
<1>3. Numbered' /\ GenerationsBounded'
  BY <1>0, <1>1 DEF Covering, Numbered, GenerationsBounded, AtMost
<1>4. CursorStands'
  <2>1. ASSUME cursor # None, cursor.last \in Range(file)
        PROVE  AtMost(Generations', cursor.baseline)
               /\ Covers(Kept', file, cursor.last, cursor.baseline, {})
    <3>1. cursor.baseline \in Nat BY <1>0, <2>1 DEF Cursor
    <3>2. AtMost(Generations, cursor.baseline) /\ Covers(Kept, file, cursor.last, cursor.baseline, {})
      BY <2>1 DEF Covering, CursorStands
    <3> QED BY <1>1, <1>2, <3>1, <3>2 DEF AtMost
  <2> QED BY <1>0, <2>1 DEF CursorStands
<1>5. HooksOK'
  <2> SUFFICES ASSUME NEW h \in Hook
               PROVE  /\ ReadOK(hook'[h], file', cursor', NewLine')
                      /\ SealOK(hook'[h], file', cursor', NewLine', Kept')
    BY DEF HooksOK
  <2> DEFINE k == hook[h]
  <2>1. HookOK(k) /\ ReadOK(k, file, cursor, NewLine) /\ SealOK(k, file, cursor, NewLine, Kept)
    BY HookIs
  <2> HIDE DEF k
  <2>2. ASSUME k.pc = "seal", ~ k.short PROVE Covers(Kept', file, k.next.last, Gen(k, cursor), Owed(k))
    <3>1. CASE k.next.last \notin Range(file) BY <3>1 DEF Covers
    <3>2. CASE k.next.last \in Range(file)
      <4>1. AtMost(Generations, Gen(k, cursor)) BY <2>1, <2>2, <3>2, SealsNewest
      <4>2. Gen(k, cursor) \in Nat BY <1>0, <2>1, <2>2, CursorNumbers DEF HookOK, NextCursor, Gen
      <4>3. Covers(Kept, file, k.next.last, Gen(k, cursor), Owed(k)) BY <2>1, <2>2 DEF SealOK
      <4> QED BY <1>2, <4>1, <4>2, <4>3
    <3> QED BY <3>1, <3>2
  <2>3. SealOK(k, file, cursor, NewLine, Kept') BY <2>1, <2>2 DEF SealOK
  <2> QED BY <1>0, <2>1, <2>3 DEF k
<1>6. Copies'
  <2>1. \A c \in chunks' : \E b \in chunks : Alike(b, c) BY DEF Shifts
  <2>2. \A m \in net' : \E x \in net \cup chunks : Alike(x, m) BY DEF Shifts
  <2>3. \A c \in chunks : c.id \in 1 .. Len(refused) BY DEF Typed, QueueOK
  <2>4. \A b, c \in chunks : b.id = c.id => b = c BY DEF Typed, QueueOK
  <2>5. \A c \in chunks : \A x \in net \cup chunks : c.id = x.id => Alike(c, x)
    BY <2>4 DEF Covering, Copies, Alike
  <2>6. \A m \in net' : m.id \in 1 .. Len(refused') BY <2>2, <2>3 DEF Shifts, Covering, Copies, Alike
  <2>7. \A c \in chunks' : \A m \in net' : c.id = m.id => Alike(c, m) BY <2>1, <2>2, <2>5 DEF Alike
  <2>8. ASSUME NEW c \in chunks', NEW d \in Drain, DrainAt(d, "waiting")', c.id = drain'[d].meta.id
        PROVE  Alike(c, drain'[d].meta)
    <3>1. PICK b \in chunks : Alike(b, c) BY <2>1
    <3>2. b.id = drain'[d].meta.id BY <2>8, <3>1 DEF Alike
    <3>3. CASE DrainAt(d, "waiting") /\ drain'[d].meta = drain[d].meta
      BY <3>1, <3>2, <3>3 DEF Covering, Copies, Alike
    <3>4. CASE drain'[d].meta \in chunks BY <2>4, <3>1, <3>2, <3>4 DEF Alike
    <3> QED BY <2>8, <3>3, <3>4 DEF Shifts
  <2> QED BY <2>6, <2>7, <2>8 DEF Copies
<1> QED BY <1>3, <1>4, <1>5, <1>6 DEF Covering

\* Drains, the collector and time leave the transcript and its cursor alone.
LEMMA QueueSteps ==
  ASSUME Typed,
         \/ \E d \in Drain : Upload(d) \/ CrashDrain(d)
         \/ \E m \in net : LoseAnswer(m) \/ ArriveLate(m)
         \/ LockAges \/ BackoffOver \/ Expire
  PROVE  UNCHANGED Transcript /\ NewLine' = NewLine
<1>1. UNCHANGED Transcript
  BY DEF Upload, StatLock, UnlinkLock, OpenLock, ListChunks, Send, Answer, Timeout, Release, CrashDrain,
         LoseAnswer, ArriveLate, LockAges, BackoffOver, Expire
<1> DEFINE K == {"withheld", "refusals", "deferrals", "rejections", "losses", "drainCrashes", "stalls",
                 "expiries"}
<1>2. NoFault \/ \E k \in K : Spend(k)
  BY DEF Upload, StatLock, UnlinkLock, OpenLock, ListChunks, Send, Answer, Uploaded, Timeout, Release,
         CrashDrain, LoseAnswer, ArriveLate, LockAges, BackoffOver, Expire
<1>3. K \subseteq Bounds \ {"lines", "rewrites"} /\ "losses" \in K BY DEF Bounds
<1> HIDE DEF K
<1>4. NewLine' = NewLine BY <1>2, <1>3, NoNewLine
<1> QED BY <1>1, <1>4

\* Writing a sidecar anew leaves every chunk the one it was.
LEMMA NotedShifts ==
  ASSUME Typed, Copies, NEW d \in Drain, DrainAt(d, "waiting"), NEW c, Alike(drain[d].meta, c)
  PROVE  /\ \A b \in chunks : b.id = c.id => Alike(b, c) /\ Alike(c, b)
         /\ \A x \in Noted(c.id, c) : \E b \in chunks : Alike(b, x)
         /\ \A b \in chunks : \E x \in Noted(c.id, c) : Alike(x, b)
<1>1. \A b \in chunks : b.id = c.id => Alike(b, c) /\ Alike(c, b) BY DEF Copies, Alike
<1>2. ASSUME NEW x \in Noted(c.id, c) PROVE \E b \in chunks : Alike(b, x)
  <2>1. x \in chunks \/ (x = c /\ \E b \in chunks : b.id = c.id) BY <1>2 DEF Noted, Ids
  <2> QED BY <1>1, <2>1 DEF Alike
<1>3. ASSUME NEW b \in chunks PROVE \E x \in Noted(c.id, c) : Alike(x, b)
  <2>1. CASE b.id = c.id
    <3>1. c \in Noted(c.id, c) BY <2>1 DEF Noted, Ids
    <3> QED BY <1>1, <2>1, <3>1
  <2>2. CASE b.id # c.id
    <3>1. b \in Noted(c.id, c) BY <2>2 DEF Noted
    <3> QED BY <3>1 DEF Alike
  <2> QED BY <2>1, <2>2
<1> QED BY <1>1, <1>2, <1>3

\* A chunk that is kept is the one it was; one that is given up on is set aside as it was.
LEMMA KeptAlike ==
  ASSUME Typed, Copies, NEW d \in Drain, DrainAt(d, "waiting"), Deferred(d) \/ Refused(d)
  PROVE  /\ NobodySends /\ aside \subseteq aside' /\ Len(refused') = Len(refused)
         /\ \A c \in chunks' : \E b \in chunks : Alike(b, c)
         /\ \A c \in chunks : \E b \in chunks' \cup aside' : Alike(b, c)
<1> DEFINE k == drain[d].meta
<1>0. k \in Chunk BY MetaType
<1>1. Len(refused') = Len(refused) BY DeferredKeeps, RefusedKeeps
<1>2. NobodySends BY OnlySendSends DEF Deferred, Refused
<1>3. CASE Deferred(d)
  <2> DEFINE c == [k EXCEPT !.waiting = TRUE]
  <2>1. c.id = k.id /\ Alike(k, c)
    <3> HIDE DEF k
    <3> QED BY <1>0, ChunkWaits DEF Alike
  <2>2. chunks' = Noted(c.id, c) /\ aside' = aside BY <1>3, <2>1 DEF Deferred
  <2> HIDE DEF c
  <2> QED BY <1>1, <1>2, <2>1, <2>2, NotedShifts
<1>4. CASE Refused(d)
  <2> DEFINE a == k.attempts + 1
             c == [k EXCEPT !.attempts = a, !.waiting = TRUE]
  <2>1. c.id = k.id /\ Alike(k, c)
    <3>1. k.attempts + 1 \in Nat
      <4> HIDE DEF k
      <4> QED BY <1>0, SMT DEF Chunk
    <3>2. a \in Nat BY <3>1
    <3> HIDE DEF k, a
    <3> QED BY <1>0, <3>2, ChunkChanged DEF Alike
  <2>2. \/ chunks' = {b \in chunks : b.id # c.id} /\ aside' = aside \cup {c}
        \/ chunks' = Noted(c.id, c) /\ aside' = aside
    BY <1>4 DEF Refused
  <2> HIDE DEF c
  <2>3. CASE chunks' = {b \in chunks : b.id # c.id} /\ aside' = aside \cup {c}
    <3>1. \A b \in chunks : b.id = c.id => Alike(c, b) BY <2>1, NotedShifts
    <3>2. \A b : Alike(b, b) BY DEF Alike
    <3> QED BY <1>1, <1>2, <2>3, <3>1, <3>2
  <2>4. CASE chunks' = Noted(c.id, c) /\ aside' = aside BY <1>1, <1>2, <2>1, <2>4, NotedShifts
  <2> QED BY <2>2, <2>3, <2>4
<1> QED BY <1>3, <1>4

\* Whatever a drain does is such a step.
LEMMA DrainsShift ==
  ASSUME Typed, Copies, NEW d \in Drain, Upload(d) \/ CrashDrain(d)
  PROVE  Shifts
<1>1. UNCHANGED Transcript /\ NewLine' = NewLine BY QueueSteps
<1>2. \A x : Alike(x, x) BY DEF Alike
<1>3. ASSUME NobodySends
      PROVE  \A e \in Drain : DrainAt(e, "waiting")' =>
                \/ DrainAt(e, "waiting") /\ drain'[e].meta = drain[e].meta
                \/ drain'[e].meta \in chunks
  BY <1>3 DEF NobodySends
<1>4. CASE StatLock(d) \/ UnlinkLock(d) \/ OpenLock(d) \/ ListChunks(d) \/ Release(d)
  <2>1. UNCHANGED <<Queue, net, object>> BY <1>4 DEF StatLock, UnlinkLock, OpenLock, ListChunks, Release
  <2>2. NobodySends BY <1>4, OnlySendSends
  <2> QED BY <1>1, <1>2, <1>3, <2>1, <2>2 DEF Shifts, Queue
<1>5. CASE CrashDrain(d)
  <2>1. UNCHANGED <<Queue, object>> /\ NobodySends BY <1>5, OnlySendSends DEF CrashDrain
  <2>2. \A x \in net' : \E m \in net : x = m \/ x = [m EXCEPT !.by = None] BY <1>5 DEF CrashDrain
  <2>3. \A m \in net : Alike(m, [m EXCEPT !.by = None])
    BY DEF Typed, UploadsOK, Request, Alike
  <2> QED BY <1>1, <1>2, <1>3, <2>1, <2>2, <2>3 DEF Shifts, Queue
<1>6. CASE Send(d)
  <2>1. UNCHANGED <<Queue, object>> BY <1>6 DEF Send
  <2>2. CASE Hold(d) /\ UNCHANGED net
    <3>1. NobodySends BY <2>2, OnlySendSends
    <3> QED BY <1>1, <1>2, <1>3, <2>1, <2>2, <3>1 DEF Shifts, Queue
  <2>3. ASSUME NEW c \in chunks,
               net' = net \cup {[by |-> d, id |-> c.id, lines |-> c.lines, baseline |-> c.baseline]},
               ToDrain(d, [drain[d] EXCEPT !.pc = "waiting", !.meta = c])
        PROVE  Shifts
    <3> DEFINE r == [drain[d] EXCEPT !.pc = "waiting", !.meta = c]
    <3>1. ToDrain(d, r) /\ r.meta = c BY <2>3 DEF Typed, UploadsOK, DrainOK, IdleDrain
    <3> HIDE DEF r
    <3>2. \A e \in Drain : DrainAt(e, "waiting")' =>
            \/ DrainAt(e, "waiting") /\ drain'[e].meta = drain[e].meta
            \/ drain'[e].meta \in chunks
      BY <3>1, DrainMoves DEF DrainAt
    <3>3. \A x \in net' : \E y \in net \cup chunks : Alike(y, x) BY <1>2, <2>3 DEF Alike
    <3> QED BY <1>1, <1>2, <2>1, <3>2, <3>3 DEF Shifts, Queue
  <2> QED BY <1>6, <2>2, <2>3 DEF Send
<1>7. CASE Timeout(d)
  <2>1. DrainAt(d, "waiting") /\ Deferred(d) /\ UNCHANGED <<expired, object>> BY <1>7 DEF Timeout
  <2>2. \A x \in net' : \E m \in net : x = m \/ x = [m EXCEPT !.by = None] BY <1>7 DEF Timeout
  <2>3. \A m \in net : Alike(m, [m EXCEPT !.by = None])
    BY DEF Typed, UploadsOK, Request, Alike
  <2>4. \A x \in net' : \E m \in net : Alike(m, x) BY <1>2, <2>2, <2>3
  <2> QED BY <1>1, <1>3, <2>1, <2>4, KeptAlike DEF Shifts
<1>8. CASE Answer(d)
  <2>1. PICK m \in net :
          /\ net' = net \ {m}
          /\ \/ Uploaded(d, m)
             \/ UNCHANGED object /\ (Deferred(d) \/ Refused(d))
             \/ UNCHANGED object /\ Rejected(d)
    BY <1>8 DEF Answer
  <2>2. DrainAt(d, "waiting") /\ expired' = expired BY <1>8 DEF Answer
  <2>3. \A x \in net' : \E y \in net : Alike(y, x) BY <1>2, <2>1
  <2>4. CASE Uploaded(d, m)
    <3>1. /\ object' = Merged(object, m) /\ chunks' = {c \in chunks : c.id # m.id}
          /\ UNCHANGED <<aside, refused>>
      BY <2>4 DEF Uploaded
    <3>2. NobodySends BY <2>4, OnlySendSends
    <3>3. \A c \in chunks : c.id = m.id => Alike(m, c) BY DEF Copies, Alike
    <3>4. \A c \in chunks : c \in chunks' \/ (Alike(m, c) /\ object' = Merged(object, m)) BY <3>1, <3>3
    <3>5. object' = object \/ \E x \in net : object' = Merged(object, x) BY <3>1
    <3>6. \A c \in chunks' : c \in chunks BY <3>1
    <3> HIDE DEF Shifts
    <3> QED BY <1>1, <1>2, <1>3, <2>2, <2>3, <3>1, <3>2, <3>4, <3>5, <3>6 DEF Shifts
  <2>5. CASE UNCHANGED object /\ (Deferred(d) \/ Refused(d))
    BY <1>1, <1>3, <2>2, <2>3, <2>5, KeptAlike DEF Shifts
  <2>6. CASE UNCHANGED object /\ Rejected(d)
    <3>1. NobodySends /\ UNCHANGED <<chunks, aside, refused>> BY <2>6, OnlySendSends DEF Rejected
    <3> QED BY <1>1, <1>2, <1>3, <2>2, <2>3, <2>6, <3>1 DEF Shifts
  <2> QED BY <2>1, <2>4, <2>5, <2>6
<1> QED BY <1>4, <1>5, <1>6, <1>7, <1>8 DEF Upload

\* And so is what the collector and time do.
LEMMA OthersShift ==
  ASSUME Typed, Copies, (\E m \in net : LoseAnswer(m) \/ ArriveLate(m)) \/ LockAges \/ BackoffOver \/ Expire
  PROVE  Shifts
<1>1. UNCHANGED Transcript /\ NewLine' = NewLine BY QueueSteps
<1>2. \A x : Alike(x, x) BY DEF Alike
<1>3. drain' = drain BY DEF LoseAnswer, ArriveLate, LockAges, BackoffOver, Expire, Uploads
<1>4. \A e \in Drain : DrainAt(e, "waiting")' => DrainAt(e, "waiting") /\ drain'[e].meta = drain[e].meta
  BY <1>3 DEF DrainAt
<1>5. ASSUME NEW m \in net, LoseAnswer(m) \/ ArriveLate(m) PROVE Shifts
  <2>1. UNCHANGED Queue /\ object' = Merged(object, m) /\ net' = net \ {m}
    BY <1>5 DEF LoseAnswer, ArriveLate
  <2> QED BY <1>1, <1>2, <1>4, <2>1 DEF Shifts, Queue
<1>6. CASE LockAges
  <2>1. UNCHANGED <<Queue, net, object>> BY <1>6 DEF LockAges
  <2> QED BY <1>1, <1>2, <1>4, <2>1 DEF Shifts, Queue
<1>7. CASE BackoffOver
  <2>1. PICK c \in chunks : chunks' = (chunks \ {c}) \cup {[c EXCEPT !.waiting = FALSE]}
    BY <1>7 DEF BackoffOver
  <2> DEFINE b == [c EXCEPT !.waiting = FALSE]
  <2>2. Alike(b, c) /\ Alike(c, b) BY ChunkWaits DEF Typed, QueueOK, Alike
  <2>3. chunks' = (chunks \ {c}) \cup {b} BY <2>1
  <2> HIDE DEF b
  <2>4. UNCHANGED <<aside, refused, expired, net, object>> BY <1>7 DEF BackoffOver, Uploads
  <2> QED BY <1>1, <1>2, <1>4, <2>2, <2>3, <2>4 DEF Shifts
<1>8. CASE Expire
  <2>1. PICK c \in chunks : chunks' = chunks \ {c} /\ expired' = expired \cup {c} BY <1>8 DEF Expire
  <2>2. UNCHANGED <<aside, refused, net, object>> BY <1>8 DEF Expire, Uploads
  <2> QED BY <1>1, <1>2, <1>4, <2>1, <2>2 DEF Shifts
<1> QED BY <1>5, <1>6, <1>7, <1>8

-----------------------------------------------------------------------------

\* Nothing is staged yet.
LEMMA CoveringInit == Init => Covering
<1> SUFFICES ASSUME Init PROVE Covering OBVIOUS
<1>1. Len(<< >>) = 0 /\ Range(<< >>) = {} BY EmptySeq DEF Range
<1>2. file = << >> /\ cursor = None /\ hook = [h \in Hook |-> IdleHook] /\ chunks = {} /\ net = {}
      /\ object.baseline = 0
  BY DEF Init
<1>3. Numbered BY <1>1, <1>2, SMT DEF Numbered, Increasing
<1>4. CursorStands BY <1>2 DEF CursorStands
<1>5. GenerationsBounded
  <2>1. Generations = {0} BY <1>2 DEF Generations
  <2>2. 0 <= 0 OBVIOUS
  <2> QED BY <1>2, <2>1, <2>2 DEF GenerationsBounded, AtMost
<1>6. HooksOK
  <2>1. \A h \in Hook : hook[h] = IdleHook BY <1>2
  <2> QED BY <2>1, IdleOK DEF HooksOK
<1>7. Copies BY <1>2 DEF Copies
<1> QED BY <1>3, <1>4, <1>5, <1>6, <1>7 DEF Covering

\* Every step that meets the conditions keeps the invariant.
LEMMA CoveringStep ==
  ASSUME Typed, Typed', Covering, [Next]_vars, UNCHANGED vars \/ (~ Overtakes /\ ~ Forgets)
  PROVE  Covering'
<1>1. CASE UNCHANGED vars
  <2>1. UNCHANGED <<Transcript, Queue, Uploads, object, left>> BY <1>1 DEF vars
  <2>2. Kept' = Kept /\ Generations' = Generations /\ NewLine' = NewLine
    BY <2>1 DEF Transcript, Queue, Uploads, Kept, Generations, NewLine
  <2>3. Numbered' /\ CursorStands' /\ GenerationsBounded'
    BY <2>1, <2>2 DEF Transcript, Covering, Numbered, CursorStands, GenerationsBounded
  <2>4. HooksOK' BY <2>1, <2>2 DEF Transcript, Covering, HooksOK
  <2>5. Copies' BY <2>1 DEF Queue, Uploads, Covering, Copies, DrainAt
  <2> QED BY <2>3, <2>4, <2>5 DEF Covering
<1>2. CASE Next /\ ~ Overtakes /\ ~ Forgets
  <2>1. CASE AppendLine \/ Rewrite BY <2>1, GrowCovers
  <2>2. ASSUME NEW h \in Hook, Stage(h) \/ ImportStart(h) \/ ImportPlan(h) \/ Hide(h) \/ CrashHook(h)
        PROVE  Covering'
    BY <1>2, <2>2, ReadsCover, StagePlanCovers, SealChunkCovers, MoveCursorCovers, ImportPlanCovers,
       HideWriteCovers DEF Stage, Hide
  <2>3. Copies BY DEF Covering
  <2>4. ASSUME NEW d \in Drain, Upload(d) \/ CrashDrain(d) PROVE Covering'
    BY <2>3, <2>4, DrainsShift, ShiftsCover
  <2>5. CASE (\E m \in net : LoseAnswer(m) \/ ArriveLate(m)) \/ LockAges \/ BackoffOver \/ Expire
    BY <2>3, <2>5, OthersShift, ShiftsCover
  <2> QED BY <1>2, <2>1, <2>2, <2>4, <2>5 DEF Next
<1> QED BY <1>1, <1>2

\* The invariant says what CursorCovers does of the lines up to the cursor's.
LEMMA CoveringMeansCovers == Typed /\ Covering => CursorCovers
<1> SUFFICES ASSUME Typed, Covering, cursor # None, Found(file, cursor) PROVE CursorCovers
  BY DEF CursorCovers
<1> DEFINE b == cursor.baseline
           p == CHOOSE i \in DOMAIN file : file[i] = cursor.last
           upTo == {file[i] : i \in 1 .. p}
           kept == UNION {Range(c.lines) : c \in {x \in chunks \cup aside \cup expired : x.baseline = b}}
           held == IF object.baseline = b THEN Range(object.lines) ELSE {}
<1>1. file \in Seq(Line) /\ DOMAIN file = 1 .. Len(file) /\ Len(file) \in Nat
  BY LinesAre DEF Typed, TranscriptOK
<1>2. p \in 1 .. Len(file) /\ file[p] = cursor.last
  <2>1. \E i \in DOMAIN file : file[i] = cursor.last BY DEF Found, Range
  <2> QED BY <1>1, <2>1
<1> HIDE DEF p
<1>3. ASSUME NEW i \in 1 .. p PROVE file[i] \in kept \cup held \cup hidden
  <2> DEFINE x == file[i]
  <2>1. i \in 1 .. Len(file) /\ (i = p \/ i < p) BY <1>1, <1>2, SMT
  <2>2. x \in Range(file) /\ x \in Nat /\ cursor.last \in Nat /\ cursor.last \in Range(file)
    BY <1>1, <1>2, <2>1, LinesAre
  <2>3. Increasing(file) BY DEF Covering, Numbered
  <2>4. i < p => x < cursor.last BY <1>2, <2>1, <2>3 DEF Increasing
  <2> HIDE DEF x
  <2>5. x <= cursor.last
    <3>1. CASE i = p BY <1>2, <2>2, <3>1, SMT DEF x
    <3>2. CASE i < p BY <2>2, <2>4, <3>2, SMT
    <3> QED BY <2>1, <3>1, <3>2
  <2>6. <<x, b>> \in Kept BY <2>2, <2>5 DEF Covering, CursorStands, Covers
  <2>7. \/ x \in hidden
        \/ \E c \in chunks \cup aside \cup expired : c.baseline = b /\ x \in Range(c.lines)
        \/ object.baseline = b /\ x \in Range(object.lines)
    BY <2>6 DEF Kept
  <2>8. x \in kept \cup held \cup hidden BY <2>7
  <2> QED BY <2>8 DEF x
<1>4. upTo \subseteq kept \cup held \cup hidden
  <2> HIDE DEF kept, held
  <2> QED BY <1>3
<1> HIDE DEF upTo, kept, held
<1>5. upTo \subseteq kept \cup held \cup hidden => CursorCovers BY DEF CursorCovers, upTo, kept, held, p, b
<1> QED BY <1>4, <1>5

(* While no hook writes the cursor next to another one at work, and no import or  *)
(* hidden period forgets a generation that was begun, every line up to the cursor *)
(* is with the collector in its current generation, in a chunk that waits or was  *)
(* given up on, or hidden, however hooks die between the seal of a chunk and the   *)
(* write of the cursor, fail to seal, transcripts are rewritten, and drains        *)
(* overlap, crash and time out (stageRepositoryTurns, sealDeltaChunk, writeCursor, *)
(* uploadDeltaChunk).                                                            *)
THEOREM NoLineLost == Spec /\ [][~ Overtakes /\ ~ Forgets]_vars => []CursorCovers
<1>1. Init => Typed /\ Covering BY TypedInit, CoveringInit
<1>2. (Typed /\ Covering) /\ [Next]_vars /\ [~ Overtakes /\ ~ Forgets]_vars => (Typed /\ Covering)'
  <2>1. Typed /\ [Next]_vars => Typed' BY TypedStep
  <2> QED BY <2>1, CoveringStep
<1>3. Spec /\ [][~ Overtakes /\ ~ Forgets]_vars => [](Typed /\ Covering) BY <1>1, <1>2, PTL DEF Spec
<1> QED BY <1>3, CoveringMeansCovers, PTL

\* Every hook at work stages what was added.
OnlyStages == \A h \in Hook : hook[h].kind = "stage"

\* One hook that neither imports nor hides meets the conditions.
LEMMA AloneMeets ==
  ASSUME \A g, h \in Hook : g = h, Limits["hides"] = 0, Limits["imports"] = 0,
         Typed, Covering, OnlyStages, Next
  PROVE  ~ Overtakes /\ ~ Forgets /\ OnlyStages'
<1>1. ~ Spend("hides") /\ ~ Spend("imports")
  <2>1. /\ left["hides"] \in Nat /\ left["hides"] <= 0
        /\ left["imports"] \in Nat /\ left["imports"] <= 0
    BY DEF Typed, LeftOK, Bounds
  <2>2. ~ (left["hides"] > 0) /\ ~ (left["imports"] > 0) BY <2>1, SMT
  <2> QED BY <2>2 DEF Spend
<1>2. ASSUME NEW h \in Hook
      PROVE  ~ HideStart(h) /\ ~ HideRead(h) /\ ~ HideCheck(h) /\ ~ HideWrite(h) /\ ~ ImportStart(h)
             /\ ~ ImportPlan(h)
  <2>1. hook[h].kind = "stage" /\ (hook[h].pc \in {"check", "write"} => hook[h].kind = "hide")
    BY HookIs DEF OnlyStages, ReadOK
  <2> QED BY <1>1, <2>1 DEF HideStart, HideRead, HideCheck, HideWrite, ImportStart, ImportPlan, HookAt
<1>3. ~ Forgets BY <1>2 DEF Forgets
<1>4. CASE \E h \in Hook : Stage(h) \/ CrashHook(h)
  <2>1. PICK h \in Hook : Stage(h) \/ CrashHook(h) BY <1>4
  <2>2. IdleHook.kind = "stage" /\ IdleHook.pc = "idle" BY DEF IdleHook
  <2>3. ASSUME NEW r, ToHook(h, r), r.kind = "stage" PROVE OnlyStages'
    BY <2>3, HookMoves DEF OnlyStages
  <2>4. OnlyStages'
    <3> DEFINE k == hook[h]
    <3>0. HookOK(k) /\ k.kind = "stage" BY HookIs DEF OnlyStages
    <3>1. CASE StageRead(h)
      <4> DEFINE r == [IdleHook EXCEPT !.pc = "plan", !.raw = file]
      <4>1. ToHook(h, r) /\ r.kind = "stage" BY <3>1 DEF StageRead, IdleHook
      <4> HIDE DEF r
      <4> QED BY <2>3, <4>1
    <3>2. CASE StagePlan(h)
      <4> DEFINE r(t, n) == [k EXCEPT !.pc = "seal", !.raw = << >>, !.todo = t, !.next = n]
      <4>1. ToHook(h, IdleHook) \/ \E t, n : ToHook(h, r(t, n)) BY <3>2 DEF StagePlan
      <4>2. \A t, n : r(t, n).kind = "stage" BY <3>0 DEF HookOK, IdleHook
      <4> HIDE DEF r
      <4> QED BY <2>2, <2>3, <4>1, <4>2
    <3>3. CASE SealChunk(h)
      <4> DEFINE r == [k EXCEPT !.todo = Tail(@)]
                 t == [r EXCEPT !.short = TRUE]
      <4>1. ToHook(h, r) \/ ToHook(h, t) BY <3>3 DEF SealChunk
      <4>2. r.kind = "stage" /\ t.kind = "stage" BY <3>0 DEF HookOK, IdleHook
      <4> HIDE DEF r, t
      <4> QED BY <2>3, <4>1, <4>2
    <3>4. CASE MoveCursor(h) \/ CrashHook(h) BY <2>2, <2>3, <3>4 DEF MoveCursor, CrashHook
    <3> QED BY <2>1, <3>1, <3>2, <3>3, <3>4 DEF Stage
  <2>5. ~ Overtakes
    <3>1. cursor' = cursor \/ MoveCursor(h)
      BY <2>1 DEF Stage, StageRead, StagePlan, SealChunk, MoveCursor, CrashHook
    <3>2. MoveCursor(h) => HookAt(h, "seal") /\ hook'[h].pc = "idle" BY <2>2, HookMoves DEF MoveCursor
    <3> QED BY <3>1, <3>2 DEF Overtakes, HookAt
  <2> QED BY <1>3, <2>4, <2>5
<1>5. CASE ~ \E h \in Hook : Stage(h) \/ CrashHook(h)
  <2>1. hook' = hook /\ cursor' = cursor
    <3>1. \/ AppendLine \/ Rewrite
          \/ \E d \in Drain : Upload(d) \/ CrashDrain(d)
          \/ \E m \in net : LoseAnswer(m) \/ ArriveLate(m)
          \/ LockAges \/ BackoffOver \/ Expire
      BY <1>2, <1>5 DEF Next, Hide
    <3>2. CASE AppendLine \/ Rewrite BY <3>2 DEF AppendLine, Rewrite
    <3> QED BY <3>1, <3>2, QueueSteps DEF Transcript
  <2> QED BY <1>3, <2>1 DEF OnlyStages, Overtakes
<1> QED BY <1>4, <1>5

(* Nothing is lost where one hook at a time stages, and neither imports nor hides:  *)
(* no condition is left on what the hook, the drains and the collector do.         *)
THEOREM AloneNoLineLost ==
  ASSUME \A g, h \in Hook : g = h, Limits["hides"] = 0, Limits["imports"] = 0
  PROVE  Spec => []CursorCovers
<1>1. Init => Typed /\ Covering /\ OnlyStages
  <2>1. Init => OnlyStages BY DEF Init, OnlyStages, IdleHook
  <2> QED BY <2>1, TypedInit, CoveringInit
<1>2. (Typed /\ Covering /\ OnlyStages) /\ [Next]_vars => (Typed /\ Covering /\ OnlyStages)'
  <2> SUFFICES ASSUME Typed, Covering, OnlyStages, [Next]_vars
               PROVE  (Typed /\ Covering /\ OnlyStages)'
    OBVIOUS
  <2>1. Typed' BY TypedStep
  <2>2. CASE UNCHANGED vars
    <3>1. OnlyStages' BY <2>2 DEF vars, Transcript, OnlyStages
    <3> QED BY <2>1, <2>2, <3>1, CoveringStep
  <2>3. CASE Next BY <2>1, <2>3, AloneMeets, CoveringStep
  <2> QED BY <2>2, <2>3
<1>3. Spec => [](Typed /\ Covering /\ OnlyStages) BY <1>1, <1>2, PTL DEF Spec
<1> QED BY <1>3, CoveringMeansCovers, PTL
=============================================================================
