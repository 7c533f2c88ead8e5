------------------------- MODULE CredentialLockProofs -------------------------
(***************************************************************************)
(* Proofs about CredentialLock, for every set of pids and tokens and every  *)
(* bound.  LockInvariant is inductive: a process unlinks a lock only when   *)
(* it holds the reaper lock of its dead owner (or is that lock's owner), so *)
(* the exclusion of two reapers of one owner is the same invariant one      *)
(* level up, and no induction over the levels is needed.                    *)
(***************************************************************************)
EXTENDS CredentialLock, SequenceTheorems, TLAPS

\* Popping a reaper's frame: its file name is its caller's file and the owner
\* the caller observed.
LEMMA PopFrame ==
  ASSUME NEW S, NEW s \in Seq(S), s # << >>
  PROVE  /\ Front(s) \in Seq(S) /\ Last(s) \in S
         /\ s = Append(Front(s), Last(s))
         /\ Len(Front(s)) = Len(s) - 1
         /\ \A i \in DOMAIN Front(s) : i \in DOMAIN s /\ Front(s)[i] = s[i]
         /\ Len(s) \in DOMAIN s /\ s[Len(s)] = Last(s)
  <1>1. Len(s) \in Nat \ {0}
    BY EmptySeq
  <1>2. PICK r \in Seq(S), e \in S : s = Append(r, e)
    BY SequenceEmptyOrAppend
  <1>3. Len(s) = Len(r) + 1 /\ Len(r) \in Nat /\ s[Len(r) + 1] = e
        /\ \A i \in 1 .. Len(r) : s[i] = r[i]
    BY <1>2, AppendProperties, LenProperties
  <1>4. /\ Front(s) \in Seq(S)
        /\ Len(Front(s)) = Len(s) - 1
        /\ \A i \in 1 .. Len(s) - 1 : Front(s)[i] = s[i]
    <2> DEFINE n == Len(s)
               f == SubSeq(s, 1, n - 1)
    <2>1. \A i \in 1 .. n - 1 : s[i] \in S
      BY <1>1, ElementOfSeq
    <2>2. /\ f \in Seq(S)
          /\ Len(f) = IF 1 <= n - 1 THEN (n - 1) - 1 + 1 ELSE 0
          /\ \A i \in 1 .. (n - 1) - 1 + 1 : f[i] = s[1 + i - 1]
      <3> HIDE DEF n
      <3>1. n \in Nat \ {0}
        BY <1>1 DEF n
      <3>2. QED
        BY <3>1, <2>1, SubSeqProperties
    <2>3. n \in Nat \ {0} /\ Front(s) = f
      BY <1>1 DEF Front
    <2> HIDE DEF n, f
    <2>4. Len(f) = n - 1
      BY <2>2, <2>3
    <2>5. ASSUME NEW i \in 1 .. n - 1
          PROVE  f[i] = s[i]
      <3>1. i \in 1 .. (n - 1) - 1 + 1 /\ 1 + i - 1 = i
        BY <2>3
      <3>2. QED
        BY <2>2, <3>1
    <2>6. QED
      BY <2>2, <2>3, <2>4, <2>5 DEF n
  <1>5. Front(s) = r
    BY <1>3, <1>4, SeqEqual
  <1>6. Last(s) = e
    BY <1>3 DEF Last
  <1>7. DOMAIN s = 1 .. Len(s) /\ DOMAIN Front(s) = 1 .. Len(Front(s))
    BY <1>4, LenProperties
  <1>8. s = Append(Front(s), Last(s)) /\ Last(s) \in S
    BY <1>2, <1>5, <1>6
  <1>9. s[Len(s)] = Last(s)
    BY DEF Last
  <1>10. Len(s) \in DOMAIN s
    BY <1>1, <1>7
  <1>11. ASSUME NEW i \in DOMAIN Front(s)
         PROVE  i \in DOMAIN s /\ Front(s)[i] = s[i]
    <2>1. i \in 1 .. Len(s) - 1
      BY <1>4, <1>7
    <2>2. QED
      BY <2>1, <1>1, <1>4, <1>7
  <1>12. QED
    BY <1>4, <1>8, <1>9, <1>10, <1>11

-----------------------------------------------------------------------------
\* Every depth stack has the frame of its file name, so it can be popped and
\* its top replaced by the retry's depth.
LEMMA RetryDepths ==
  ASSUME TypeOK, NEW p \in Pid
  PROVE  /\ call[p] \in Call
         /\ call[p].depths \in Seq(Nat) /\ call[p].depths # << >>
         /\ Last(call[p].depths) \in Nat
         /\ Front(call[p].depths) \in Seq(Nat)
         /\ Len(Front(call[p].depths)) = Len(call[p].file)
         /\ Append(Front(call[p].depths), Last(call[p].depths) + 1) \in Seq(Nat)
         /\ Len(Append(Front(call[p].depths), Last(call[p].depths) + 1))
              = Len(call[p].file) + 1
         /\ Append(call[p].depths, Last(call[p].depths) + 1) \in Seq(Nat)
         /\ Len(Append(call[p].depths, Last(call[p].depths) + 1))
              = Len(call[p].file) + 2
  <1>1. /\ call[p] \in Call /\ call[p].depths \in Seq(Nat) /\ call[p].file \in Seq(Owner)
        /\ Len(call[p].depths) = Len(call[p].file) + 1
    BY DEF TypeOK, Call, File
  <1>2. Len(call[p].file) \in Nat
    BY <1>1, LenProperties
  <1>3. call[p].depths # << >>
    BY <1>1, <1>2, EmptySeq
  <1>4. /\ Front(call[p].depths) \in Seq(Nat) /\ Last(call[p].depths) \in Nat
        /\ Len(Front(call[p].depths)) = Len(call[p].depths) - 1
    BY <1>1, <1>3, PopFrame
  <1>5. Last(call[p].depths) + 1 \in Nat
    BY <1>4
  <1>6. /\ Append(Front(call[p].depths), Last(call[p].depths) + 1) \in Seq(Nat)
        /\ Len(Append(Front(call[p].depths), Last(call[p].depths) + 1))
              = Len(Front(call[p].depths)) + 1
        /\ Append(call[p].depths, Last(call[p].depths) + 1) \in Seq(Nat)
        /\ Len(Append(call[p].depths, Last(call[p].depths) + 1)) = Len(call[p].depths) + 1
    <2> DEFINE d == call[p].depths
               n == Last(d) + 1
    <2>1. d \in Seq(Nat) /\ Front(d) \in Seq(Nat) /\ n \in Nat
      BY <1>1, <1>4, <1>5
    <2> HIDE DEF d, n
    <2>2. /\ Append(Front(d), n) \in Seq(Nat) /\ Len(Append(Front(d), n)) = Len(Front(d)) + 1
          /\ Append(d, n) \in Seq(Nat) /\ Len(Append(d, n)) = Len(d) + 1
      BY <2>1, AppendProperties
    <2>3. QED
      BY <2>2 DEF d, n
  <1>7. QED
    BY <1>1, <1>2, <1>3, <1>4, <1>6

\* The record of a process outside the lock is well typed.
LEMMA IdleType == Idle \in Call /\ Len(Idle.depths) = Len(Idle.file) + 1
  <1>1. << >> \in Seq(Owner) /\ Len(<< >>) = 0
    BY EmptySeq
  <1>2. <<0>> \in Seq(Nat) /\ Len(<<0>>) = 1
    OBVIOUS
  <1>3. QED
    BY <1>1, <1>2 DEF Idle, Call, File, Root, PC

\* The initial states are well typed.
LEMMA TypeInit == Init => TypeOK
  <1>2. SUFFICES ASSUME Init PROVE TypeOK
    OBVIOUS
  <1>3. \A p \in Pid : call[p] = Idle
    BY <1>2 DEF Init
  <1>4. call \in [Pid -> Call]
    BY <1>2, IdleType DEF Init
  <1>5. published \in SUBSET [file : File, owner : Owner \cup {None}]
    <2>1. Root \in File
      BY EmptySeq DEF File, Root
    <2>2. QED
      BY <1>2, <2>1 DEF Init
  <1>6. Idle.pc = "idle"
    BY DEF Idle
  <1>7. QED
    BY <1>2, <1>3, <1>4, <1>5, <1>6, IdleType DEF TypeOK, Init, Holding, Reaping

\* The type conjuncts about one process, the only ones an action that touches
\* only its own call can disturb.
CallOK(c) ==
  /\ c \in Call
  /\ Len(c.depths) = Len(c.file) + 1
  /\ c.pc \in Reaping \cup {"probe"} => c.observed \in Owner
  /\ c.pc \in Holding \cup Reaping => c.token \in Token

\* Each call's stack of depths is one longer than its file's path.
LEMMA CallOKEach == TypeOK => \A p \in Pid : CallOK(call[p])
  BY DEF TypeOK, CallOK

\* Types are kept by a step that changes one well-typed call and the published files.
LEMMA TypeFrame ==
  ASSUME TypeOK, NEW p \in Pid, NEW c, CallOK(c),
         call' = [call EXCEPT ![p] = c],
         published' \subseteq [file : File, owner : Owner \cup {None}],
         alive' \subseteq Pid, crashes' \in Nat, restarts' \in Nat
  PROVE  TypeOK'
  <1>1. call' \in [Pid -> Call]
    BY DEF TypeOK, CallOK
  <1>2. \A q \in Pid : CallOK(call'[q])
    BY CallOKEach DEF TypeOK
  <1>3. QED
    BY <1>1, <1>2 DEF TypeOK, CallOK

-----------------------------------------------------------------------------
\* A step of p that leaves the disk alone and keeps what p holds preserves the
\* invariant.
LEMMA QuietStep ==
  ASSUME LockInvariant, TypeOK', NEW p \in Pid,
         published' = published,
         \A q \in Pid \ {p} : call'[q] = call[q],
         \A q \in Pid : call'[q].pc # "idle" => q \in alive',
         call'[p].pc \in Holding => call'[p].file = Root,
         Holds(p)' => Holds(p) /\ Me(p)' = Me(p) /\ HeldFile(p)' = HeldFile(p),
         \A q \in Pid : Holds(q) =>
           \A i \in DOMAIN call'[p].file : call'[p].file[i] # Me(q),
         call'[p].pc \in Reaping =>
           call[p].pc \in Reaping /\ call'[p].observed = call[p].observed,
         call'[p].pc \in {"reprobe", "unlink"} =>
           Owns(call'[p].file, call'[p].observed)
  PROVE  LockInvariant'
  <1>1. OneOwnerPerFile'
    BY DEF LockInvariant, OneOwnerPerFile
  <1>2. Placement'
    BY DEF LockInvariant, Placement
  <1>3. \A q \in Pid : Holds(q)' => Holds(q) /\ Me(q)' = Me(q) /\ HeldFile(q)' = HeldFile(q)
    BY DEF Holds, Me, HeldFile
  <1>4. LiveOwnerKeepsLock'
    BY <1>3 DEF LockInvariant, LiveOwnerKeepsLock, Owns
  <1>5. DeadStayDead'
    <2> SUFFICES ASSUME NEW r \in Pid, NEW q \in Pid, Holds(q)'
                 PROVE  /\ \A i \in DOMAIN call'[r].file : call'[r].file[i] # Me(q)'
                        /\ call'[r].pc \in Reaping => call'[r].observed # Me(q)'
      BY DEF DeadStayDead
    <2>1. Holds(q) /\ Me(q)' = Me(q)
      BY <1>3
    <2>2. CASE r = p
      BY <2>1, <2>2 DEF LockInvariant, DeadStayDead
    <2>3. CASE r # p
      BY <2>1, <2>3 DEF LockInvariant, DeadStayDead
    <2>4. QED
      BY <2>2, <2>3
  <1>6. RecheckStands'
    BY DEF LockInvariant, RecheckStands, Owns
  <1>7. QED
    BY <1>1, <1>2, <1>4, <1>5, <1>6 DEF LockInvariant

\* A call that returns, empty-handed or because its frame is done, keeps the invariant.
LEMMA ReturnStep ==
  ASSUME LockInvariant, NEW p \in Pid, Return(p), published' = published,
         alive' \subseteq alive, \A q \in alive \ {p} : q \in alive',
         crashes' \in Nat, restarts' \in Nat
  PROVE  LockInvariant'
  <1>1. call' = [call EXCEPT ![p] = Idle] /\ call'[p] = Idle
    BY DEF Return, LockInvariant, TypeOK
  <1>2. CallOK(Idle)
    BY IdleType DEF CallOK, Idle, Holding, Reaping
  <1>3. TypeOK'
    BY <1>1, <1>2, TypeFrame DEF LockInvariant, TypeOK
  <1>4. \A q \in Pid \ {p} : call'[q] = call[q]
    BY <1>1 DEF LockInvariant, TypeOK
  <1>5. call'[p].pc = "idle" /\ call'[p].file = << >>
    BY <1>1 DEF Idle, Root
  <1>6. ~ Holds(p)' /\ call'[p].pc \notin Holding \cup Reaping \cup {"reprobe", "unlink"}
    BY <1>5 DEF Holds, Holding, Reaping
  <1>7. \A q \in Pid : call'[q].pc # "idle" => q \in alive'
    BY <1>4, <1>5 DEF LockInvariant, Placement
  <1>8. DOMAIN call'[p].file = {}
    BY <1>5
  <1>9. QED
    BY <1>3, <1>4, <1>6, <1>7, <1>8, QuietStep

\* Steps that only move p's program counter.
LEMMA GotoStep ==
  ASSUME LockInvariant, NEW p \in Pid, NEW pc \in PC, Goto(p, pc), p \in alive,
         UNCHANGED published, Environment,
         pc \in Holding \cup Reaping => Holds(p),
         pc \in Holding <=> call[p].pc \in Holding,
         pc \in Reaping => call[p].pc \in Reaping,
         pc = "probe" => call[p].observed \in Owner,
         pc \in {"reprobe", "unlink"} => Owns(call[p].file, call[p].observed)
  PROVE  LockInvariant'
  <1> DEFINE c == [call[p] EXCEPT !.pc = pc]
  <1>1. call[p] \in Call /\ CallOK(call[p])
    BY CallOKEach DEF LockInvariant, TypeOK
  <1>2. /\ c \in Call /\ c.pc = pc /\ c.file = call[p].file /\ c.depths = call[p].depths
        /\ c.observed = call[p].observed /\ c.token = call[p].token
    BY <1>1 DEF Call
  <1>3. call' = [call EXCEPT ![p] = c] /\ call'[p] = c
    BY DEF Goto, LockInvariant, TypeOK
  <1> HIDE DEF c
  <1>4. CallOK(c)
    BY <1>1, <1>2 DEF CallOK, Holds
  <1>5. TypeOK'
    BY <1>3, <1>4, TypeFrame DEF LockInvariant, TypeOK, Environment
  <1>6. \A q \in Pid \ {p} : call'[q] = call[q]
    BY <1>3 DEF LockInvariant, TypeOK
  <1>7. \A q \in Pid : call'[q].pc # "idle" => q \in alive'
    BY <1>6 DEF LockInvariant, Placement, Environment
  <1>8. Holds(p)' => Holds(p) /\ Me(p)' = Me(p) /\ HeldFile(p)' = HeldFile(p)
    BY <1>2, <1>3 DEF Holds, Me, HeldFile, Holding, Reaping
  <1>9. call'[p].pc \in Holding => call'[p].file = Root
    BY <1>2, <1>3 DEF LockInvariant, Placement
  <1>10. \A q \in Pid : Holds(q) =>
           \A i \in DOMAIN call'[p].file : call'[p].file[i] # Me(q)
    BY <1>2, <1>3 DEF LockInvariant, DeadStayDead
  <1>11. QED
    BY <1>2, <1>3, <1>5, <1>6, <1>7, <1>8, <1>9, <1>10, QuietStep

\* return acquireLock(file, depth + 1): p holds nothing any more.
LEMMA RetryCall ==
  ASSUME LockInvariant, NEW p \in Pid, Retry(p), p \in alive,
         published' \subseteq published, Environment
  PROVE  /\ TypeOK'
         /\ \A q \in Pid \ {p} : call'[q] = call[q]
         /\ call'[p].pc = "publish" /\ call'[p].file = call[p].file
  <1> DEFINE c == [call[p] EXCEPT !.pc = "publish", !.observed = None, !.token = None,
                     !.depths = Append(Front(@), Last(@) + 1)]
             d == Append(Front(call[p].depths), Last(call[p].depths) + 1)
  <1>1. call[p] \in Call /\ d \in Seq(Nat) /\ Len(d) = Len(call[p].file) + 1
    BY RetryDepths DEF LockInvariant
  <1>2. call' = [call EXCEPT ![p] = c] /\ call'[p] = c
    BY DEF Retry, LockInvariant, TypeOK
  <1> HIDE DEF d
  <1>3. /\ c = [call[p] EXCEPT !.pc = "publish", !.observed = None, !.token = None,
                     !.depths = d]
    BY <1>1 DEF d, Call
  <1>4. /\ c \in Call /\ c.pc = "publish" /\ c.depths = d /\ c.file = call[p].file
    BY <1>1, <1>3 DEF Call, PC
  <1> HIDE DEF c
  <1>5. CallOK(c)
    BY <1>1, <1>4 DEF CallOK, Holding, Reaping
  <1>6. TypeOK'
    BY <1>2, <1>5, TypeFrame DEF LockInvariant, TypeOK, Environment
  <1>7. QED
    BY <1>2, <1>4, <1>6 DEF LockInvariant, TypeOK

\* A frame that starts over keeps the invariant.
LEMMA RetryStep ==
  ASSUME LockInvariant, NEW p \in Pid, Retry(p), p \in alive,
         UNCHANGED published, Environment
  PROVE  LockInvariant'
  <1>1. /\ TypeOK'
        /\ \A q \in Pid \ {p} : call'[q] = call[q]
        /\ call'[p].pc = "publish" /\ call'[p].file = call[p].file
    BY RetryCall
  <1>2. ~ Holds(p)' /\ call'[p].pc \notin Holding \cup Reaping \cup {"reprobe", "unlink"}
    BY <1>1 DEF Holds, Holding, Reaping
  <1>3. \A q \in Pid : call'[q].pc # "idle" => q \in alive'
    BY <1>1 DEF LockInvariant, Placement, Environment
  <1>4. \A q \in Pid : Holds(q) =>
           \A i \in DOMAIN call'[p].file : call'[p].file[i] # Me(q)
    BY <1>1 DEF LockInvariant, DeadStayDead
  <1>5. QED
    BY <1>1, <1>2, <1>3, <1>4, QuietStep

\* Reading the owner of a lock file, and acting on whether it is alive, keeps the invariant.
LEMMA ReadOwnerStep ==
  ASSUME LockInvariant, NEW p \in Pid, ReadOwner(p)
  PROVE  LockInvariant'
  <1>1. CASE Retry(p)
    BY <1>1, RetryStep DEF ReadOwner, At
  <1>2. CASE Return(p)
    BY <1>2, ReturnStep DEF ReadOwner, Environment, LockInvariant, TypeOK
  <1>3. CASE \E o \in Owner :
               call' = [call EXCEPT ![p].pc = "probe", ![p].observed = o]
    <2>1. PICK o \in Owner : call' = [call EXCEPT ![p].pc = "probe", ![p].observed = o]
      BY <1>3
    <2> DEFINE c == [call[p] EXCEPT !.pc = "probe", !.observed = o]
    <2>2. call[p] \in Call /\ CallOK(call[p])
      BY CallOKEach DEF LockInvariant, TypeOK
    <2>3. call' = [call EXCEPT ![p] = c] /\ call'[p] = c
      BY <2>1 DEF LockInvariant, TypeOK
    <2>4. /\ c \in Call /\ c.pc = "probe" /\ c.file = call[p].file
          /\ c.depths = call[p].depths /\ c.observed = o
      BY <2>2 DEF Call, PC
    <2> HIDE DEF c
    <2>5. CallOK(c)
      BY <2>2, <2>4 DEF CallOK, Holding, Reaping
    <2>6. TypeOK'
      BY <2>3, <2>5, TypeFrame DEF ReadOwner, LockInvariant, TypeOK, Environment
    <2>7. \A q \in Pid \ {p} : call'[q] = call[q]
      BY <2>3 DEF LockInvariant, TypeOK
    <2>8. \A q \in Pid : call'[q].pc # "idle" => q \in alive'
      BY <2>7 DEF LockInvariant, Placement, Environment, ReadOwner, At
    <2>9. ~ Holds(p)' /\ call'[p].pc \notin Holding \cup Reaping \cup {"reprobe", "unlink"}
      BY <2>3, <2>4 DEF Holds, Holding, Reaping
    <2>10. \A q \in Pid : Holds(q) =>
             \A i \in DOMAIN call'[p].file : call'[p].file[i] # Me(q)
      BY <2>3, <2>4 DEF LockInvariant, DeadStayDead
    <2>11. QED
      BY <2>6, <2>7, <2>8, <2>9, <2>10, QuietStep DEF ReadOwner
  <1>4. QED
    BY <1>1, <1>2, <1>3 DEF ReadOwner

\* The owner is dead: descend to its reaper lock.
LEMMA ProbeOwnerStep ==
  ASSUME LockInvariant, NEW p \in Pid, ProbeOwner(p)
  PROVE  LockInvariant'
  <1>1. CASE call[p].observed.pid \in alive
    BY <1>1, ReturnStep DEF ProbeOwner, Environment, LockInvariant, TypeOK
  <1>2. CASE call[p].observed.pid \notin alive
    <2> DEFINE d == Append(call[p].depths, Last(call[p].depths) + 1)
               f == Append(call[p].file, call[p].observed)
               c == [call[p] EXCEPT !.pc = "publish", !.observed = None,
                       !.file = f, !.depths = d]
    <2>1. call[p] \in Call /\ CallOK(call[p]) /\ call[p].observed \in Owner
      BY CallOKEach DEF LockInvariant, TypeOK, ProbeOwner, At
    <2>2. d \in Seq(Nat) /\ Len(d) = Len(call[p].file) + 2
      BY RetryDepths DEF LockInvariant
    <2>3. call[p].file \in Seq(Owner) /\ Len(call[p].file) \in Nat
      BY <2>1, LenProperties DEF Call, File
    <2>4. /\ f \in Seq(Owner) /\ Len(f) = Len(call[p].file) + 1
          /\ DOMAIN f = 1 .. Len(f) /\ DOMAIN call[p].file = 1 .. Len(call[p].file)
          /\ \A i \in 1 .. Len(call[p].file) : f[i] = call[p].file[i]
          /\ f[Len(call[p].file) + 1] = call[p].observed
      BY <2>1, <2>3, AppendProperties, LenProperties
    <2>5. \A i \in DOMAIN f : i \in DOMAIN call[p].file \/ i = Len(call[p].file) + 1
      BY <2>3, <2>4
    <2>6. call' = [call EXCEPT ![p] = c] /\ call'[p] = c
      BY <1>2 DEF ProbeOwner, LockInvariant, TypeOK
    <2> HIDE DEF d, f
    <2>7. /\ c \in Call /\ c.pc = "publish" /\ c.file = f /\ c.depths = d
      BY <2>1, <2>2, <2>4 DEF Call, PC, File
    <2> HIDE DEF c
    <2>8. CallOK(c)
      BY <2>2, <2>3, <2>4, <2>7 DEF CallOK, Holding, Reaping
    <2>9. TypeOK'
      BY <2>6, <2>8, TypeFrame DEF ProbeOwner, LockInvariant, TypeOK, Environment
    <2>10. \A q \in Pid \ {p} : call'[q] = call[q]
      BY <2>6 DEF LockInvariant, TypeOK
    <2>11. \A q \in Pid : call'[q].pc # "idle" => q \in alive'
      BY <2>10 DEF LockInvariant, Placement, Environment, ProbeOwner, At
    <2>12. ~ Holds(p)' /\ call'[p].pc \notin Holding \cup Reaping \cup {"reprobe", "unlink"}
      BY <2>6, <2>7 DEF Holds, Holding, Reaping
    <2>13. ASSUME NEW q \in Pid, Holds(q)
           PROVE  \A i \in DOMAIN f : f[i] # Me(q)
      <3>1. q \in alive /\ Me(q).pid = q
        BY <2>13 DEF Holds, Holding, Reaping, LockInvariant, Placement, Me
      <3>2. call[p].observed # Me(q)
        BY <3>1, <1>2
      <3>3. \A i \in DOMAIN call[p].file : call[p].file[i] # Me(q)
        BY <2>13 DEF LockInvariant, DeadStayDead
      <3>4. QED
        BY <2>4, <2>5, <3>2, <3>3
    <2>14. QED
      BY <2>6, <2>7, <2>9, <2>10, <2>11, <2>12, <2>13, QuietStep DEF ProbeOwner
  <1>3. QED
    BY <1>1, <1>2

-----------------------------------------------------------------------------
\* No two holders hold the same lock file, and no reaper past its recheck works
\* on a lock file that is held.
LEMMA Exclusion ==
  ASSUME LockInvariant
  PROVE  /\ \A p, q \in Pid :
              Holds(p) /\ Holds(q) /\ HeldFile(p) = HeldFile(q) => p = q
         /\ \A p, q \in Pid :
              call[p].pc \in {"reprobe", "unlink"} /\ Holds(q) => call[p].file # HeldFile(q)
         /\ \A p, q \in Pid :
              /\ call[p].pc \in {"reprobe", "unlink"} /\ call[q].pc \in {"reprobe", "unlink"}
              /\ call[p].file = call[q].file
              => p = q
  <1>1. \A f, o, r : Owns(f, o) /\ Owns(f, r) => o = r
    BY DEF LockInvariant, OneOwnerPerFile, Owns
  <1>2. \A p \in Pid : Me(p).pid = p
    BY DEF Me
  <1>3. \A p, q \in Pid :
          Holds(p) /\ Holds(q) /\ HeldFile(p) = HeldFile(q) => p = q
    BY <1>1, <1>2 DEF LockInvariant, LiveOwnerKeepsLock
  <1>4. \A p, q \in Pid :
          call[p].pc \in {"reprobe", "unlink"} /\ Holds(q) => call[p].file # HeldFile(q)
    BY <1>1 DEF LockInvariant, LiveOwnerKeepsLock, RecheckStands, DeadStayDead, Reaping
  <1>5. ASSUME NEW p \in Pid, NEW q \in Pid,
               call[p].pc \in {"reprobe", "unlink"}, call[q].pc \in {"reprobe", "unlink"},
               call[p].file = call[q].file
        PROVE  p = q
    <2>1. call[p].observed = call[q].observed
      BY <1>1, <1>5 DEF LockInvariant, RecheckStands
    <2>2. Holds(p) /\ Holds(q) /\ HeldFile(p) = HeldFile(q)
      BY <1>5, <2>1 DEF Holds, HeldFile, Reaping, Holding
    <2>3. QED
      BY <1>3, <2>2
  <1>6. QED
    BY <1>3, <1>4, <1>5

\* An unlink of f preserves the invariant when nobody but p had to do with f.
LEMMA RemoveStep ==
  ASSUME LockInvariant, TypeOK', NEW p \in Pid, NEW f, Environment, p \in alive,
         published' = published \ Links(f),
         \A q \in Pid \ {p} : call'[q] = call[q],
         \A q \in Pid \ {p} : Holds(q) => HeldFile(q) # f,
         \A q \in Pid \ {p} : call[q].pc \in {"reprobe", "unlink"} => call[q].file # f,
         call'[p].file = call[p].file,
         call'[p].pc \notin Holding \cup {"reprobe", "unlink"},
         Holds(p)' => /\ Holds(p) /\ call[p].pc \in Reaping
                      /\ Me(p)' = Me(p) /\ HeldFile(p)' = HeldFile(p)
                      /\ HeldFile(p) # f /\ call'[p].observed = call[p].observed
  PROVE  LockInvariant'
  <1>1. OneOwnerPerFile'
    BY DEF LockInvariant, OneOwnerPerFile
  <1>2. Placement'
    BY DEF LockInvariant, Placement, Environment
  <1>3. \A q \in Pid : Holds(q)' =>
          Holds(q) /\ Me(q)' = Me(q) /\ HeldFile(q)' = HeldFile(q) /\ HeldFile(q) # f
    BY DEF Holds, Me, HeldFile
  <1>4. LiveOwnerKeepsLock'
    BY <1>3 DEF LockInvariant, LiveOwnerKeepsLock, Owns, Links
  <1>5. DeadStayDead'
    <2> SUFFICES ASSUME NEW r \in Pid, NEW q \in Pid, Holds(q)'
                 PROVE  /\ \A i \in DOMAIN call'[r].file : call'[r].file[i] # Me(q)'
                        /\ call'[r].pc \in Reaping => call'[r].observed # Me(q)'
      BY DEF DeadStayDead
    <2>1. Holds(q) /\ Me(q)' = Me(q)
      BY <1>3
    <2>2. CASE r = p
      BY <2>1, <2>2 DEF LockInvariant, DeadStayDead, Holds
    <2>3. CASE r # p
      BY <2>1, <2>3 DEF LockInvariant, DeadStayDead
    <2>4. QED
      BY <2>2, <2>3
  <1>6. RecheckStands'
    BY DEF LockInvariant, RecheckStands, Owns, Links
  <1>7. QED
    BY <1>1, <1>2, <1>4, <1>5, <1>6 DEF LockInvariant

\* Unlinking a dead owner under its reaper lock keeps the invariant.
LEMMA UnlinkDeadStep ==
  ASSUME LockInvariant, NEW p \in Pid, UnlinkDead(p)
  PROVE  LockInvariant'
  <1> DEFINE c == [call[p] EXCEPT !.pc = "unreap"]
             f == call[p].file
  <1>1. call[p] \in Call /\ CallOK(call[p]) /\ call[p].pc = "unlink"
        /\ call[p].observed \in Owner
    BY CallOKEach DEF LockInvariant, TypeOK, UnlinkDead, At, Reaping
  <1>2. call' = [call EXCEPT ![p] = c] /\ call'[p] = c
    BY DEF UnlinkDead, Goto, LockInvariant, TypeOK
  <1>3. /\ c \in Call /\ c.pc = "unreap" /\ c.file = f /\ c.depths = call[p].depths
        /\ c.observed = call[p].observed /\ c.token = call[p].token
    BY <1>1 DEF Call, PC
  <1> HIDE DEF c
  <1>4. CallOK(c)
    BY <1>1, <1>3 DEF CallOK, Reaping
  <1>5. TypeOK'
    BY <1>2, <1>4, TypeFrame DEF UnlinkDead, LockInvariant, TypeOK, Environment
  <1>6. \A q \in Pid \ {p} : call'[q] = call[q]
    BY <1>2 DEF LockInvariant, TypeOK
  <1>7. HeldFile(p) = Append(f, call[p].observed) /\ HeldFile(p)' = HeldFile(p)
        /\ Holds(p) /\ Me(p)' = Me(p)
    BY <1>1, <1>2, <1>3 DEF HeldFile, Holding, Holds, Reaping, Me
  <1>8. HeldFile(p) # f
    <2>1. f \in Seq(Owner) /\ Len(f) \in Nat
      BY <1>1, LenProperties DEF Call, File
    <2>2. Len(HeldFile(p)) = Len(f) + 1
      BY <1>1, <1>7, <2>1, AppendProperties
    <2>3. QED
      BY <2>1, <2>2
  <1>9. /\ \A q \in Pid \ {p} : Holds(q) => HeldFile(q) # f
        /\ \A q \in Pid \ {p} : call[q].pc \in {"reprobe", "unlink"} => call[q].file # f
    BY <1>1, Exclusion
  <1>10. call'[p].file = f /\ call'[p].observed = call[p].observed
         /\ call'[p].pc \notin Holding \cup {"reprobe", "unlink"} /\ call[p].pc \in Reaping
    BY <1>1, <1>2, <1>3 DEF Holding, Reaping
  <1>11. published' = published \ Links(f) /\ Environment /\ p \in alive
    BY DEF UnlinkDead, At
  <1> HIDE DEF f
  <1>12. QED
    BY <1>5, <1>6, <1>7, <1>8, <1>9, <1>10, <1>11, RemoveStep DEF f

\* A holder removes the lock it holds: nobody else holds or reaps that file.
LEMMA OwnLock ==
  ASSUME LockInvariant, NEW p \in Pid, Holds(p)
  PROVE  /\ \A q \in Pid \ {p} : Holds(q) => HeldFile(q) # HeldFile(p)
         /\ \A q \in Pid \ {p} :
              call[q].pc \in {"reprobe", "unlink"} => call[q].file # HeldFile(p)
  BY Exclusion

\* Giving the reaper lock back keeps the invariant.
LEMMA UnreapStep ==
  ASSUME LockInvariant, NEW p \in Pid, Unreap(p)
  PROVE  LockInvariant'
  <1>1. Holds(p) /\ p \in alive /\ Environment /\ Retry(p)
        /\ published' = published \ Links(HeldFile(p))
    BY DEF Unreap, At, Holds, Reaping
  <1>2. /\ TypeOK'
        /\ \A q \in Pid \ {p} : call'[q] = call[q]
        /\ call'[p].pc = "publish" /\ call'[p].file = call[p].file
    BY <1>1, RetryCall
  <1>3. ~ Holds(p)' /\ call'[p].pc \notin Holding \cup {"reprobe", "unlink"}
    BY <1>2 DEF Holds, Holding, Reaping
  <1>4. QED
    BY <1>1, <1>2, <1>3, OwnLock, RemoveStep

\* Releasing the root lock keeps the invariant.
LEMMA ReleaseStep ==
  ASSUME LockInvariant, NEW p \in Pid, Release(p)
  PROVE  LockInvariant'
  <1>1. Holds(p) /\ p \in alive /\ Environment /\ Return(p)
        /\ HeldFile(p) = Root /\ call[p].file = Root
        /\ published' = published \ Links(Root)
    BY DEF Release, At, Holds, Holding, HeldFile, LockInvariant, Placement
  <1>2. call' = [call EXCEPT ![p] = Idle] /\ call'[p] = Idle
    BY <1>1 DEF Return, LockInvariant, TypeOK
  <1>3. CallOK(Idle)
    BY IdleType DEF CallOK, Idle, Holding, Reaping
  <1>4. TypeOK'
    BY <1>1, <1>2, <1>3, TypeFrame DEF LockInvariant, TypeOK, Environment
  <1>5. \A q \in Pid \ {p} : call'[q] = call[q]
    BY <1>2 DEF LockInvariant, TypeOK
  <1>6. call'[p].pc = "idle" /\ call'[p].file = call[p].file
    BY <1>1, <1>2 DEF Idle
  <1>7. ~ Holds(p)' /\ call'[p].pc \notin Holding \cup {"reprobe", "unlink"}
    BY <1>6 DEF Holds, Holding, Reaping
  <1>8. QED
    BY <1>1, <1>4, <1>5, <1>6, <1>7, OwnLock, RemoveStep

\* The new owner's token is fresh, so nobody takes it for a dead one's, and the
\* link succeeds only when the file does not exist.
LEMMA PublishStep ==
  ASSUME LockInvariant, NEW p \in Pid, Publish(p)
  PROVE  LockInvariant'
  <1> DEFINE f == call[p].file
             d == call[p].depths
  <1>1. PICK t \in Token :
          /\ Fresh(t)
          /\ published' = published \cup {[file |-> f, owner |-> [pid |-> p, token |-> t]]}
          /\ IF f = Root
             THEN call' = [call EXCEPT ![p].pc = "critical", ![p].token = t]
             ELSE call' = [call EXCEPT ![p].pc = "recheck", ![p].token = t,
                             ![p].file = Front(@), ![p].depths = Front(@),
                             ![p].observed = Last(call[p].file)]
    BY DEF Publish
  <1>2. /\ call[p] \in Call /\ CallOK(call[p]) /\ p \in alive /\ Environment
        /\ f \in Seq(Owner) /\ Len(f) \in Nat /\ d \in Seq(Nat) /\ Len(d) = Len(f) + 1
        /\ Front(d) \in Seq(Nat) /\ Len(Front(d)) = Len(f) /\ Links(f) = {}
        /\ ~ Holds(p)
    BY CallOKEach, RetryDepths, LenProperties
       DEF LockInvariant, TypeOK, Publish, At, Call, File, Holds, Holding, Reaping
  <1>3. f # Root => /\ Front(f) \in Seq(Owner) /\ Last(f) \in Owner
                    /\ f = Append(Front(f), Last(f)) /\ Len(Front(f)) = Len(f) - 1
                    /\ \A i \in DOMAIN Front(f) : i \in DOMAIN f /\ Front(f)[i] = f[i]
                    /\ Len(f) \in DOMAIN f /\ f[Len(f)] = Last(f)
    <2>1. f \in Seq(Owner)
      BY <1>2
    <2> HIDE DEF f
    <2>2. QED
      BY <2>1, PopFrame DEF Root
  <1> DEFINE root   == [call[p] EXCEPT !.pc = "critical", !.token = t]
             reaper == [call[p] EXCEPT !.pc = "recheck", !.token = t, !.file = Front(f),
                          !.depths = Front(d), !.observed = Last(f)]
             c      == IF f = Root THEN root ELSE reaper
  <1>4. call' = [call EXCEPT ![p] = c] /\ call'[p] = c
    BY <1>1 DEF LockInvariant, TypeOK
  <1>5. f = Root => /\ root \in Call /\ root.pc = "critical" /\ root.token = t
                    /\ root.file = f /\ root.depths = d /\ root.observed = call[p].observed
    BY <1>2 DEF Call, PC
  <1>6. f # Root => /\ reaper \in Call /\ reaper.pc = "recheck" /\ reaper.token = t
                    /\ reaper.file = Front(f) /\ reaper.depths = Front(d)
                    /\ reaper.observed = Last(f)
    BY <1>2, <1>3 DEF Call, PC, File
  <1>7. (f = Root => c = root) /\ (f # Root => c = reaper)
    OBVIOUS
  <1> HIDE DEF root, reaper, c, f, d
  <1>8. CallOK(c)
    <2>1. CASE f = Root
      BY <2>1, <1>2, <1>5, <1>7 DEF CallOK, f, d, Holding, Reaping
    <2>2. CASE f # Root
      <3>1. Len(Front(d)) = Len(Front(f)) + 1
        BY <2>2, <1>2, <1>3
      <3>2. QED
        BY <2>2, <3>1, <1>2, <1>3, <1>6, <1>7 DEF CallOK, Holding, Reaping
    <2>3. QED
      BY <2>1, <2>2
  <1>9. /\ Holds(p)' /\ HeldFile(p)' = f /\ Me(p)' = [pid |-> p, token |-> t]
        /\ call'[p].pc # "idle" /\ call'[p].pc \notin {"reprobe", "unlink"}
        /\ call'[p].pc \in Holding => call'[p].file = Root
    BY <1>3, <1>4, <1>5, <1>6, <1>7 DEF Holds, HeldFile, Me, Holding, Reaping
  <1>10. \A i \in DOMAIN call'[p].file :
           i \in DOMAIN f /\ call'[p].file[i] = f[i]
    BY <1>3, <1>4, <1>5, <1>6, <1>7
  <1>11. call'[p].pc \in Reaping =>
           Len(f) \in DOMAIN f /\ call'[p].observed = f[Len(f)]
    BY <1>3, <1>4, <1>5, <1>6, <1>7 DEF Reaping
  <1>12. [file |-> f, owner |-> [pid |-> p, token |-> t]]
           \in [file : File, owner : Owner \cup {None}]
    BY <1>2 DEF File, Owner
  <1>13. TypeOK'
    BY <1>1, <1>2, <1>4, <1>8, <1>12, TypeFrame DEF LockInvariant, TypeOK, Environment
  <1>14. \A q \in Pid \ {p} : call'[q] = call[q]
    BY <1>4 DEF LockInvariant, TypeOK
  <1>15. OneOwnerPerFile'
    BY <1>1, <1>2 DEF LockInvariant, OneOwnerPerFile, Links
  <1>16. Placement'
    BY <1>2, <1>9, <1>14 DEF LockInvariant, Placement, Environment
  <1>17. \A q \in Pid \ {p} : /\ Holds(q)' <=> Holds(q)
                              /\ Me(q)' = Me(q) /\ HeldFile(q)' = HeldFile(q)
    BY <1>14 DEF Holds, Me, HeldFile
  <1>18. LiveOwnerKeepsLock'
    BY <1>1, <1>9, <1>17 DEF LockInvariant, LiveOwnerKeepsLock, Owns
  <1>19. RecheckStands'
    BY <1>1, <1>9, <1>14 DEF LockInvariant, RecheckStands, Owns
  <1>20. ASSUME NEW r \in Pid
         PROVE  /\ \A i \in DOMAIN call[r].file : call[r].file[i].token # t
                /\ call[r].pc \in Reaping => call[r].observed.token # t
    BY <1>1, NoneAssumption DEF Fresh, LockInvariant, TypeOK
  <1>21. DeadStayDead'
    <2> SUFFICES ASSUME NEW r \in Pid, NEW q \in Pid, Holds(q)'
                 PROVE  /\ \A i \in DOMAIN call'[r].file : call'[r].file[i] # Me(q)'
                        /\ call'[r].pc \in Reaping => call'[r].observed # Me(q)'
      BY DEF DeadStayDead
    <2>1. \A i \in DOMAIN call[r].file : call[r].file[i] # Me(q)'
      <3>1. CASE q = p
        BY <3>1, <1>9, <1>20
      <3>2. CASE q # p
        BY <3>2, <1>17 DEF LockInvariant, DeadStayDead
      <3>3. QED
        BY <3>1, <3>2
    <2>2. CASE r = p
      BY <2>1, <2>2, <1>10, <1>11 DEF f
    <2>3. CASE r # p
      <3>1. call'[r] = call[r]
        BY <2>3, <1>14
      <3>2. call[r].pc \in Reaping => call[r].observed # Me(q)'
        <4>1. CASE q = p
          BY <4>1, <1>9, <1>20
        <4>2. CASE q # p
          BY <4>2, <1>17 DEF LockInvariant, DeadStayDead
        <4>3. QED
          BY <4>1, <4>2
      <3>3. QED
        BY <2>1, <3>1, <3>2
    <2>4. QED
      BY <2>2, <2>3
  <1>22. QED
    BY <1>13, <1>15, <1>16, <1>18, <1>19, <1>21 DEF LockInvariant

-----------------------------------------------------------------------------
\* The initial states satisfy the inductive invariant.
LEMMA LockInvariantInit == Init => LockInvariant
  <1> SUFFICES ASSUME Init PROVE LockInvariant
    OBVIOUS
  <1>1. \A p \in Pid : call[p].pc = "idle" /\ call[p].file = Root
    BY DEF Init, Idle
  <1>2. \A p \in Pid : ~ Holds(p)
    BY <1>1 DEF Holds, Holding, Reaping
  <1>3. OneOwnerPerFile
    BY DEF Init, OneOwnerPerFile
  <1>4. QED
    BY <1>1, <1>2, <1>3, TypeInit DEF LockInvariant, Placement, LiveOwnerKeepsLock,
       DeadStayDead, RecheckStands

\* Every step keeps the inductive invariant.
LEMMA LockInvariantStep == LockInvariant /\ [Next]_vars => LockInvariant'
  <1> SUFFICES ASSUME LockInvariant, [Next]_vars PROVE LockInvariant'
    OBVIOUS
  <1>1. CASE UNCHANGED vars
    BY <1>1 DEF vars, LockInvariant, TypeOK, OneOwnerPerFile, Placement, LiveOwnerKeepsLock,
       DeadStayDead, RecheckStands, Holds, HeldFile, Me, Owns
  <1>2. ASSUME NEW p \in Pid, Begin(p) \/ Step(p) \/ Crash(p) \/ ReusePid(p)
        PROVE  LockInvariant'
    <2> USE DEF Holding, Reaping, PC, At
    <2>1. CASE Begin(p)
      BY <2>1, GotoStep DEF Begin
    <2>2. CASE TooDeep(p)
      BY <2>2, ReturnStep DEF TooDeep, Environment, LockInvariant, TypeOK
    <2>3. CASE LinkFails(p)
      BY <2>3, GotoStep DEF LinkFails
    <2>4. CASE Publish(p)
      BY <2>4, PublishStep
    <2>5. CASE ReadOwner(p)
      BY <2>5, ReadOwnerStep
    <2>6. CASE ProbeOwner(p)
      BY <2>6, ProbeOwnerStep
    <2>7. CASE Recheck(p)
      <3>1. CASE Owns(call[p].file, call[p].observed)
        BY <2>7, <3>1, GotoStep DEF Recheck, Holds
      <3>2. CASE ~ Owns(call[p].file, call[p].observed)
        BY <2>7, <3>2, GotoStep DEF Recheck, Holds
      <3>3. QED
        BY <3>1, <3>2
    <2>8. CASE Reprobe(p)
      <3>1. Owns(call[p].file, call[p].observed)
        BY <2>8 DEF Reprobe, LockInvariant, RecheckStands
      <3>2. CASE call[p].observed.pid \in alive
        BY <2>8, <3>2, GotoStep DEF Reprobe, Holds
      <3>3. CASE call[p].observed.pid \notin alive
        BY <2>8, <3>1, <3>3, GotoStep DEF Reprobe, Holds
      <3>4. QED
        BY <3>2, <3>3
    <2>9. CASE UnlinkDead(p)
      BY <2>9, UnlinkDeadStep
    <2>10. CASE UnreapCheck(p)
      <3>1. CASE Owns(HeldFile(p), Me(p))
        BY <2>10, <3>1, GotoStep DEF UnreapCheck, Holds
      <3>2. CASE ~ Owns(HeldFile(p), Me(p))
        BY <2>10, <3>2, RetryStep DEF UnreapCheck
      <3>3. QED
        BY <3>1, <3>2
    <2>11. CASE Unreap(p)
      BY <2>11, UnreapStep
    <2>12. CASE ReleaseCheck(p)
      <3>1. CASE Owns(Root, Me(p))
        BY <2>12, <3>1, GotoStep DEF ReleaseCheck, Holds
      <3>2. CASE ~ Owns(Root, Me(p))
        BY <2>12, <3>2, ReturnStep DEF ReleaseCheck, Environment, LockInvariant, TypeOK
      <3>3. QED
        BY <3>1, <3>2
    <2>13. CASE Release(p)
      BY <2>13, ReleaseStep
    <2>14. CASE Crash(p)
      BY <2>14, ReturnStep, BoundsAssumption DEF Crash, LockInvariant, TypeOK
    <2>15. CASE ReusePid(p)
      <3>1. TypeOK'
        BY <2>15 DEF ReusePid, LockInvariant, TypeOK
      <3>2. QED
        BY <2>15, <3>1 DEF ReusePid, LockInvariant, OneOwnerPerFile, Placement,
           LiveOwnerKeepsLock, DeadStayDead, RecheckStands, Holds, HeldFile, Me, Owns
    <2>16. QED
      BY <1>2, <2>1, <2>2, <2>3, <2>4, <2>5, <2>6, <2>7, <2>8, <2>9, <2>10,
         <2>11, <2>12, <2>13, <2>14, <2>15 DEF Step
  <1>3. QED
    BY <1>1, <1>2 DEF Next

\* An owner read from a lock file is the owner of everything at that name.
LEMMA OwnerOfLinks ==
  ASSUME LockInvariant, NEW f, NEW o, Owns(f, o)
  PROVE  \A l \in Links(f) : l.owner = o
  <1>1. [file |-> f, owner |-> o] \in published
    BY DEF Owns
  <1> SUFFICES ASSUME NEW l \in Links(f) PROVE l.owner = o
    OBVIOUS
  <1>2. l \in published /\ l.file = f
    BY DEF Links
  <1>3. l = [file |-> f, owner |-> o]
    BY <1>1, <1>2 DEF LockInvariant, OneOwnerPerFile
  <1>4. QED
    BY <1>3

\* LockInvariant holds throughout every behaviour of the lock.
THEOREM LockInvariantHolds == Spec => []LockInvariant
  BY LockInvariantInit, LockInvariantStep, PTL DEF Spec

\* Every variable keeps its type, and every acquireLock call the shape of its
\* recursion.
THEOREM TypeCorrect == Spec => []TypeOK
  <1>1. LockInvariant => TypeOK
    BY DEF LockInvariant
  <1>2. QED
    BY <1>1, LockInvariantHolds, PTL

\* Two processes never hold the lock together, whoever crashed before and
\* whatever pids were reused.
THEOREM MutualExclusionHolds == Spec => []MutualExclusion
  <1>1. LockInvariant => MutualExclusion
    BY Exclusion DEF LockInvariant, MutualExclusion, Holds, HeldFile
  <1>2. QED
    BY <1>1, LockInvariantHolds, PTL

\* A live owner is never evicted.
THEOREM LiveOwnerNeverEvicted == Spec => []LiveOwnerKeepsLock
  <1>1. LockInvariant => LiveOwnerKeepsLock
    BY DEF LockInvariant
  <1>2. QED
    BY <1>1, LockInvariantHolds, PTL

\* A delayed reaper or releaser never removes a later owner.
THEOREM ReaperSafety == Spec => []UnlinksOnlyItsTarget
  <1>1. ASSUME LockInvariant PROVE UnlinksOnlyItsTarget
    <2>1. \A f, o : Owns(f, o) => \A l \in Links(f) : l.owner = o
      BY <1>1, OwnerOfLinks
    <2>2. \A p \in Pid : call[p].pc = "unlink" => Owns(call[p].file, call[p].observed)
      BY <1>1 DEF LockInvariant, RecheckStands
    <2>3. \A p \in Pid : call[p].pc \in {"unreapNow", "releaseNow"} =>
            Owns(HeldFile(p), Me(p))
      BY <1>1 DEF LockInvariant, LiveOwnerKeepsLock, Holds, Holding, Reaping
    <2>4. QED
      BY <2>1, <2>2, <2>3 DEF UnlinksOnlyItsTarget
  <1>2. QED
    BY <1>1, LockInvariantHolds, PTL

-----------------------------------------------------------------------------
\* The value of the refinement mapping in each kind of state.
LockStateMeaning ==
  /\ Links(Root) = {} => LockState = "free"
  /\ \A p \in Pid : call[p].pc \in Holding => LockState = p
  /\ \A o \in Owner : Owns(Root, o) /\ (\A p \in Pid : call[p].pc \notin Holding)
       => LockState = "orphaned"
  /\ Owns(Root, None) => LockState = "foreign"

\* The invariant gives the abstract lock's state in terms of the root file's owner.
LEMMA StateOfLock == LockInvariant => LockStateMeaning
  <1> SUFFICES ASSUME LockInvariant PROVE LockStateMeaning
    OBVIOUS
  <1>1. \A o : Owns(Root, o) => Links(Root) # {}
    BY DEF Owns, Links
  <1>2. \A p \in Pid : call[p].pc \in Holding => Owns(Root, Me(p)) /\ Me(p) \in Owner
    BY DEF LockInvariant, LiveOwnerKeepsLock, TypeOK, Holds, HeldFile, Me, Owner
  <1>3. \A p, q \in Pid : call[p].pc \in Holding /\ call[q].pc \in Holding => p = q
    BY Exclusion DEF Holds, HeldFile
  <1>4. \A o, r : Owns(Root, o) /\ Owns(Root, r) => o = r
    BY DEF LockInvariant, OneOwnerPerFile, Owns
  <1>5. ASSUME Links(Root) = {}
        PROVE  LockState = "free"
    <2>1. /\ \A p \in Pid : call[p].pc \notin Holding
          /\ ~ Owns(Root, None)
      BY <1>1, <1>2, <1>5
    <2>2. QED
      BY <2>1, <1>5 DEF LockState, UnheldState
  <1>6. ASSUME NEW p \in Pid, call[p].pc \in Holding
        PROVE  LockState = p
    <2>1. p = CHOOSE q \in Pid : call[q].pc \in Holding
      BY <1>3, <1>6
    <2>2. QED
      BY <2>1, <1>6 DEF LockState, UnheldState
  <1>7. ASSUME NEW o \in Owner, Owns(Root, o), \A p \in Pid : call[p].pc \notin Holding
        PROVE  LockState = "orphaned"
    <2>1. Links(Root) # {} /\ ~ Owns(Root, None)
      BY <1>1, <1>4, <1>7, NoneAssumption
    <2>2. QED
      BY <2>1, <1>7 DEF LockState, UnheldState
  <1>8. ASSUME Owns(Root, None)
        PROVE  LockState = "foreign"
    <2>1. Links(Root) # {}
      BY <1>1, <1>8
    <2>2. \A p \in Pid : call[p].pc \notin Holding
      BY <1>2, <1>4, <1>8, NoneAssumption
    <2>3. QED
      BY <2>1, <2>2, <1>8 DEF LockState, UnheldState
  <1>9. QED
    BY <1>5, <1>6, <1>7, <1>8 DEF LockStateMeaning

\* The same, after a step.
LEMMA StateOfLockNext == LockInvariant' => LockStateMeaning'
  BY StateOfLock, PTL

\* A step that touches neither the root lock file nor its holder is a stutter.
LEMMA SameLockState ==
  ASSUME Links(Root)' = Links(Root),
         \A o : Owns(Root, o)' <=> Owns(Root, o),
         \A p \in Pid : (call[p].pc \in Holding)' <=> call[p].pc \in Holding,
         \A p \in Pid : call[p].pc \in Holding => Me(p)' = Me(p)
  PROVE  LockState' = LockState
  <1>1. \A p \in Pid : (call[p].pc \in Holding)' <=> call[p].pc \in Holding
    OBVIOUS
  <1>2. (CHOOSE p \in Pid : call[p].pc \in Holding)' =
        CHOOSE p \in Pid : call[p].pc \in Holding
    BY <1>1, Zenon
  <1>3. (\E p \in Pid : call[p].pc \in Holding)' <=> \E p \in Pid : call[p].pc \in Holding
    BY <1>1
  <1>4. UnheldState' = UnheldState
    <2>1. (Links(Root) = {})' <=> Links(Root) = {}
      OBVIOUS
    <2>2. Owns(Root, None)' <=> Owns(Root, None)
      OBVIOUS
    <2>3. QED
      BY <2>1, <2>2 DEF UnheldState
  <1> DEFINE holder == CHOOSE p \in Pid : call[p].pc \in Holding
             held   == \E p \in Pid : call[p].pc \in Holding
  <1>5. LockState = IF held THEN holder ELSE UnheldState
    BY DEF LockState
  <1>6. LockState' = IF held' THEN holder' ELSE UnheldState'
    BY DEF LockState
  <1>7. holder' = holder /\ (held' <=> held)
    BY <1>2, <1>3
  <1> HIDE DEF holder, held
  <1>8. QED
    BY <1>4, <1>5, <1>6, <1>7

\* The fields that returning from a call changes.
LEMMA ReturnFields ==
  ASSUME LockInvariant, NEW p \in Pid, Return(p)
  PROVE  call'[p].pc = "idle" /\ \A q \in Pid \ {p} : call'[q] = call[q]
  BY DEF Return, Idle, LockInvariant, TypeOK

\* The fields that starting a frame over changes.
LEMMA RetryFields ==
  ASSUME LockInvariant, NEW p \in Pid, Retry(p)
  PROVE  call'[p].pc = "publish" /\ \A q \in Pid \ {p} : call'[q] = call[q]
  BY DEF Retry, Call, LockInvariant, TypeOK

\* The fields that reading an owner changes.
LEMMA ObserveFields ==
  ASSUME LockInvariant, NEW p \in Pid, NEW o,
         call' = [call EXCEPT ![p].pc = "probe", ![p].observed = o]
  PROVE  call'[p].pc = "probe" /\ \A q \in Pid \ {p} : call'[q] = call[q]
  BY DEF Call, LockInvariant, TypeOK

\* The fields that descending to a reaper lock changes.
LEMMA DescendFields ==
  ASSUME LockInvariant, NEW p \in Pid, ProbeOwner(p), call[p].observed.pid \notin alive
  PROVE  call'[p].pc = "publish" /\ \A q \in Pid \ {p} : call'[q] = call[q]
  BY DEF ProbeOwner, Call, LockInvariant, TypeOK

\* The fields that publishing an owner file changes.
LEMMA PublishFields ==
  ASSUME LockInvariant, NEW p \in Pid, Publish(p)
  PROVE  /\ call'[p].pc = IF call[p].file = Root THEN "critical" ELSE "recheck"
         /\ \A q \in Pid \ {p} : call'[q] = call[q]
  BY DEF Publish, Call, LockInvariant, TypeOK

\* Every step of the lock is a step of LockService or a stutter.
LEMMA ServiceStep ==
  LockInvariant /\ LockInvariant' /\ [Next]_vars => [Service!LockNext]_LockState
  <1> SUFFICES ASSUME LockInvariant, LockInvariant', [Next]_vars
               PROVE  Service!LockNext \/ LockState' = LockState
    OBVIOUS
  <1> USE DEF Holding
  <1>1. CASE UNCHANGED vars
    BY <1>1, SameLockState DEF vars, Links, Owns, Me
  <1>2. ASSUME NEW p \in Pid, Begin(p) \/ Step(p) \/ Crash(p) \/ ReusePid(p)
        PROVE  Service!LockNext \/ LockState' = LockState
    <2>1. call \in [Pid -> Call]
      BY DEF LockInvariant, TypeOK
    \* Steps inside the recursion: neither the root file nor a holder changes.
    <2>2. ASSUME published' = published, \A q \in Pid \ {p} : call'[q] = call[q],
                 call[p].pc \notin Holding, call'[p].pc \notin Holding
          PROVE  LockState' = LockState
      BY <2>2, SameLockState DEF Links, Owns, Me
    <2>3. CASE Begin(p)
      BY <2>1, <2>2, <2>3 DEF Begin, Goto, At
    <2>4. CASE TooDeep(p)
      BY <2>2, <2>4, ReturnFields DEF TooDeep, At
    <2>5. CASE LinkFails(p)
      BY <2>1, <2>2, <2>5 DEF LinkFails, Goto, At
    <2>6. CASE ReadOwner(p)
      <3>1. CASE Retry(p)
        BY <2>2, <2>6, <3>1, RetryFields DEF ReadOwner, At
      <3>2. CASE Return(p)
        BY <2>2, <2>6, <3>2, ReturnFields DEF ReadOwner, At
      <3>3. CASE \E o \in Owner : call' = [call EXCEPT ![p].pc = "probe", ![p].observed = o]
        BY <2>2, <2>6, <3>3, ObserveFields DEF ReadOwner, At
      <3>4. QED
        BY <2>6, <3>1, <3>2, <3>3 DEF ReadOwner
    <2>7. CASE ProbeOwner(p)
      <3>1. CASE call[p].observed.pid \in alive
        BY <2>2, <2>7, <3>1, ReturnFields DEF ProbeOwner, At
      <3>2. CASE call[p].observed.pid \notin alive
        BY <2>2, <2>7, <3>2, DescendFields DEF ProbeOwner, At
      <3>3. QED
        BY <3>1, <3>2
    <2>8. CASE Recheck(p)
      BY <2>1, <2>2, <2>8 DEF Recheck, Goto, At
    <2>9. CASE Reprobe(p)
      BY <2>1, <2>2, <2>9 DEF Reprobe, Goto, At
    <2>10. CASE UnreapCheck(p)
      <3>1. CASE Goto(p, "unreapNow")
        BY <2>1, <2>2, <2>10, <3>1 DEF UnreapCheck, Goto, At
      <3>2. CASE Retry(p)
        BY <2>2, <2>10, <3>2, RetryFields DEF UnreapCheck, At
      <3>3. QED
        BY <2>10, <3>1, <3>2 DEF UnreapCheck
    <2>11. CASE ReusePid(p)
      BY <2>11, SameLockState DEF ReusePid, Links, Owns, Me
    \* An unlink away from the root, or a link there.
    <2>12. ASSUME NEW f, f # Root, \A q \in Pid \ {p} : call'[q] = call[q],
                  call[p].pc \notin Holding, call'[p].pc \notin Holding,
                  \/ published' = published \ Links(f)
                  \/ \E o : published' = published \cup {[file |-> f, owner |-> o]}
           PROVE  LockState' = LockState
      BY <2>12, SameLockState DEF Links, Owns, Me
    <2>13. CASE Publish(p)
      <3>1. CASE call[p].file = Root
        <4>1. LockState = "free"
          BY <2>13, <3>1, StateOfLock DEF Publish, LockStateMeaning
        <4>2. call'[p].pc \in Holding
          BY <2>13, <3>1, PublishFields
        <4>3. LockState' = p
          BY <4>2, StateOfLockNext DEF LockStateMeaning
        <4>4. QED
          BY <4>1, <4>3 DEF Service!LockNext, Service!Acquire
      <3>2. CASE call[p].file # Root
        BY <2>12, <2>13, <3>2, PublishFields DEF Publish, At
      <3>3. QED
        BY <3>1, <3>2
    <2>14. CASE UnlinkDead(p)
      <3>1. call'[p].pc = "unreap" /\ (\A q \in Pid \ {p} : call'[q] = call[q])
            /\ call[p].pc = "unlink" /\ published' = published \ Links(call[p].file)
        BY <2>1, <2>14 DEF UnlinkDead, Goto, Call, At
      <3>2. CASE call[p].file = Root
        <4>1. Owns(Root, call[p].observed) /\ call[p].observed \in Owner
          BY <3>1, <3>2 DEF LockInvariant, RecheckStands, TypeOK, Reaping
        <4>2. \A q \in Pid : call[q].pc \notin Holding
          BY <3>1, <3>2, Exclusion DEF Holds, HeldFile
        <4>3. LockState = "orphaned"
          BY <4>1, <4>2, StateOfLock DEF LockStateMeaning
        <4>4. Links(Root)' = {}
          BY <3>1, <3>2 DEF Links
        <4>5. LockState' = "free"
          BY <4>4, StateOfLockNext DEF LockStateMeaning
        <4>6. QED
          BY <4>3, <4>5 DEF Service!LockNext, Service!Recover
      <3>3. CASE call[p].file # Root
        BY <2>12, <3>1, <3>3
      <3>4. QED
        BY <3>2, <3>3
    <2>15. CASE Unreap(p)
      <3>1. call'[p].pc = "publish" /\ (\A q \in Pid \ {p} : call'[q] = call[q])
            /\ call[p].pc = "unreapNow" /\ published' = published \ Links(HeldFile(p))
        BY <2>15, RetryFields DEF Unreap, At
      <3>2. HeldFile(p) # Root
        <4>1. call[p].file \in Seq(Owner) /\ call[p].observed \in Owner
          BY <3>1 DEF LockInvariant, TypeOK, Call, File, Reaping
        <4>2. HeldFile(p) = Append(call[p].file, call[p].observed)
          BY <3>1 DEF HeldFile
        <4>3. QED
          BY <4>1, <4>2, AppendProperties DEF Root
      <3>3. QED
        BY <2>12, <3>1, <3>2
    <2>16. CASE ReleaseCheck(p)
      <3>1. call[p].pc = "critical" /\ Owns(Root, Me(p))
        BY <2>16 DEF ReleaseCheck, At, LockInvariant, LiveOwnerKeepsLock, Holds, HeldFile
      <3>2. /\ call' = [call EXCEPT ![p].pc = "releaseNow"] /\ published' = published
        BY <2>16, <3>1 DEF ReleaseCheck, Goto
      <3>3. /\ \A q \in Pid : call'[q].token = call[q].token
            /\ \A q \in Pid : call'[q].pc \in Holding <=> call[q].pc \in Holding
        BY <2>1, <3>1, <3>2 DEF Call
      <3>4. QED
        BY <3>2, <3>3, SameLockState DEF Links, Owns, Me
    <2>17. CASE Release(p)
      <3>1. LockState = p
        BY <2>17, StateOfLock DEF LockStateMeaning, Release, At
      <3>2. Links(Root)' = {}
        BY <2>17 DEF Release, Links
      <3>3. LockState' = "free"
        BY <3>2, StateOfLockNext DEF LockStateMeaning
      <3>4. QED
        BY <3>1, <3>3 DEF Service!LockNext, Service!Unlock
    <2>18. CASE Crash(p)
      <3>1. call'[p].pc = "idle" /\ (\A q \in Pid \ {p} : call'[q] = call[q])
            /\ published' = published
        BY <2>18, ReturnFields DEF Crash
      <3>2. CASE call[p].pc \in Holding
        <4>1. LockState = p
          BY <3>2, StateOfLock DEF LockStateMeaning
        <4>2. Owns(Root, Me(p)) /\ Me(p) \in Owner
          BY <3>2 DEF LockInvariant, LiveOwnerKeepsLock, TypeOK, Holds, HeldFile, Me, Owner
        <4>3. \A q \in Pid : call'[q].pc \notin Holding
          BY <3>1, <3>2, Exclusion DEF Holds, HeldFile
        <4>4. LockState' = "orphaned"
          BY <3>1, <4>2, <4>3, StateOfLockNext DEF LockStateMeaning, Owns
        <4>5. QED
          BY <4>1, <4>4 DEF Service!LockNext, Service!Die
      <3>3. CASE call[p].pc \notin Holding
        BY <2>2, <3>1, <3>3
      <3>4. QED
        BY <3>2, <3>3
    <2>19. QED
      BY <1>2, <2>3, <2>4, <2>5, <2>6, <2>7, <2>8, <2>9, <2>10, <2>11,
         <2>13, <2>14, <2>15, <2>16, <2>17, <2>18 DEF Step
  <1>3. QED
    BY <1>1, <1>2 DEF Next

\* Seen by its callers the lock is LockService: it changes hands only through
\* "free", and an orphaned lock is recovered, never inherited.
THEOREM LockRefinesService == Spec => ImplementsLockService
  <1>1. Init => Service!LockInit
    <2> SUFFICES ASSUME Init PROVE LockState \in {"free", "orphaned", "foreign"}
      BY DEF Service!LockInit
    <2>1. LockInvariant
      BY LockInvariantInit
    <2>2. CASE published = {}
      BY <2>1, <2>2, StateOfLock DEF LockStateMeaning, Links
    <2>3. CASE published = {[file |-> Root, owner |-> None]}
      BY <2>1, <2>3, StateOfLock DEF LockStateMeaning, Owns
    <2>4. ASSUME NEW o \in Owner, o.pid \in Departed,
                 published = {[file |-> Root, owner |-> o]}
          PROVE  LockState = "orphaned"
      <3>1. Owns(Root, o)
        BY <2>4 DEF Owns
      <3>2. \A p \in Pid : call[p].pc \notin Holding
        BY DEF Init, Idle, Holding
      <3>3. QED
        BY <2>1, <3>1, <3>2, StateOfLock DEF LockStateMeaning
    <2>5. QED
      BY <2>2, <2>3, <2>4 DEF Init
  <1>2. QED
    BY <1>1, ServiceStep, LockInvariantHolds, PTL
       DEF Spec, ImplementsLockService, Service!LockSpec
=============================================================================
