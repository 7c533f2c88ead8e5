------------------------ MODULE SessionRenewalProofs ------------------------
(***************************************************************************)
(* What SessionRenewal guarantees for any number of processes and any       *)
(* bounds: its invariants, with the strengthening that makes each of them    *)
(* inductive, and their proofs; first the session, then the chain of refresh *)
(* tokens, the status record and the waiting-sign-in marker, whose           *)
(* invariants are inductive relative to SessionInvariant.                    *)
(***************************************************************************)
EXTENDS SessionRenewal, TLAPS

(* The inductive invariant, in parts.                                        *)

\* What a process needs at hand at each point of a renewal.
Settling == {"send", "waiting", "rotate", "exchange", "refresh", "drop"}
Shaped(r) ==
  /\ r.pc \in Settling => r.exp.refresh # None
  /\ r.pc \in {"waiting", "rotate"} => r.sent # None
  /\ r.pc = "rotate" => r.got # None
Shape == \A p \in Process : Shaped(proc[p])

\* Single flight: whoever is between acquiring and releasing holds the lock.
Renewing == Settling \cup {"reread", "expect", "record", "release"}
SingleFlight == \A p \in Process : proc[p].pc \in Renewing => renewLock = p

\* A token that was stored or read belongs to a chain the broker knows.
Exists(t)   == t # None => broker[t.chain].state # "none"
TokensExist ==
  /\ Exists(session.license) /\ Exists(session.refresh)
  /\ \A p \in Process : Exists(proc[p].exp.refresh) /\ Exists(proc[p].sent)
                        /\ (proc[p].pc = "commit" => Exists(proc[p].license))

\* What is about to be stored belongs to the session it was obtained for.
Carries(r) ==
  /\ r.pc \in Settling \cup {"record"} => r.exp.license # None /\ ~ r.exp.signedOut
  /\ r.pc \in Settling => r.exp.license.chain = r.exp.refresh.chain
  /\ r.pc \in {"waiting", "rotate"} => r.sent = r.exp.refresh
  /\ r.pc = "rotate" => r.got.chain = r.sent.chain
  /\ r.pc = "refresh" => r.license # None /\ r.license.chain = r.exp.refresh.chain
  /\ r.pc = "commit" => /\ r.license # None
                        /\ r.got # None => r.got.chain = r.license.chain
InHand == \A p \in Process : Carries(proc[p])

\* A sign-in about to commit was approved for its own intent.
OwnApproval ==
  \A p \in Process : proc[p].pc = "commit" =>
    broker[proc[p].license.chain].intent = proc[p].intent

SessionSafe ==
  /\ SignedOutHoldsNothing /\ OneSignin /\ NoResurrection
  /\ newest <= session.generation
SessionInvariant ==
  TypeOK /\ Shape /\ SingleFlight /\ TokensExist /\ InHand /\ OwnApproval /\ SessionSafe

-----------------------------------------------------------------------------
(* Type correctness.                                                         *)

\* Each bound of the budget is a natural number.
LEMMA BoundsTyped ==
  ASSUME TypeOK, NoFault \/ \E k \in Bounds : Spend(k)
  PROVE  left' \in [Bounds -> Nat]
  BY DEF TypeOK, Spend, NoFault

\* A fault spends one unit of the budget.
LEMMA FaultTyped == Fault => \E k \in Bounds : Spend(k)
  BY DEF Fault, Bounds

\* Moving one process to a well-shaped record keeps the processes well typed and shaped.
LEMMA ProcTyped ==
  ASSUME TypeOK, Shape, NEW p \in Process, NEW r \in Proc, Shaped(r), To(p, r)
  PROVE  proc' \in [Process -> Proc] /\ Shape'
  BY DEF TypeOK, To, Shape

\* The idle record and the empty session are well typed.
LEMMA IdleTyped == Idle \in Proc /\ NoSession \in Session
  BY NoneAssumption DEF Idle, Proc, PC, Session, NoSession, Maybe

\* Either client's choice between two Booleans is a Boolean.
LEMMA ChoiceTyped ==
  \A b \in BOOLEAN : /\ (IF Codex THEN FALSE ELSE b) \in BOOLEAN
                      /\ (IF Codex THEN b ELSE FALSE) \in BOOLEAN
  BY CodexAssumption

\* Records keep their type when fields get values of theirs.
LEMMA FieldsTyped ==
  ASSUME NEW n \in Nat
  PROVE  /\ \A r \in Proc, pc \in PC : /\ [r EXCEPT !.pc = pc, !.intent = n] \in Proc
                                      /\ [r EXCEPT !.pc = pc, !.intent = n].pc = pc
         /\ \A s \in Session, b \in BOOLEAN :
              [s EXCEPT !.generation = n, !.signedOut = b] \in Session
         /\ \A c \in ChainState : [c EXCEPT !.state = "live", !.intent = n, !.issued = 1,
                                      !.licenses = 1] \in ChainState
  <1>1. ASSUME NEW r \in Proc, NEW pc \in PC
        PROVE  [r EXCEPT !.pc = pc, !.intent = n] \in Proc
               /\ [r EXCEPT !.pc = pc, !.intent = n].pc = pc
    BY DEF Proc
  <1>2. ASSUME NEW s \in Session, NEW b \in BOOLEAN
        PROVE  [s EXCEPT !.generation = n, !.signedOut = b] \in Session
    BY DEF Session
  <1>3. ASSUME NEW c \in ChainState
        PROVE  [c EXCEPT !.state = "live", !.intent = n, !.issued = 1, !.licenses = 1]
                 \in ChainState
    BY DEF ChainState
  <1>4. QED
    BY <1>1, <1>2, <1>3

\* Every status record the client writes is well formed.
LEMMA StatusTyped ==
  ASSUME TypeOK
  PROVE  /\ \A s \in Session : Context(s) \in Stamp
         /\ \A st \in Status : LastTerminal(st) \in Reason
         /\ \A r \in Reason : NoOutcome(r) \in Status /\ Ended(r) \in Status
         /\ \A st \in Status, s \in Session : Stamped(st, s) \in Status
         /\ ReadStatus \in Status
         /\ \A o : OutcomeStatus(o) \in Status
  <1>1. \A s \in Session : Context(s) \in Stamp
    BY DEF Context, Stamp, Session, Maybe
  <1>2. \A st \in Status : LastTerminal(st) \in Reason
    BY DEF LastTerminal, Status
  <1>3. "none" \in Reason /\ "reactivation_required" \in Reason
    BY DEF Reason
  <1>4. ASSUME NEW r \in Reason
        PROVE  NoOutcome(r) \in Status
    <2>1. Context(NoSession) \in Stamp
      BY <1>1, IdleTyped
    <2>2. QED
      BY <1>3, <2>1 DEF NoOutcome, Status
  <1>5. ASSUME NEW r \in Reason
        PROVE  Ended(r) \in Status
    <2>1. NoOutcome(r) \in Status /\ NoOutcome("none") \in Status
      BY <1>3, <1>4
    <2>2. \A st \in Status : [st EXCEPT !.terminal = r] \in Status
      BY DEF Status
    <2>3. QED
      BY <2>1, <2>2 DEF Ended
  <1>6. \A st \in Status, s \in Session : Stamped(st, s) \in Status
    BY <1>1 DEF Stamped, Status
  <1>7. ReadStatus \in Status
    BY <1>2, <1>4 DEF ReadStatus, TypeOK
  <1>8. Failed \in Status
    <2>1. [ReadStatus EXCEPT !.terminal = "none", !.backoff = TRUE] \in Status
      BY <1>3, <1>7 DEF Status
    <2>2. QED
      BY <1>7, <2>1 DEF Failed
  <1>9. \A o : OutcomeStatus(o) \in Status
    BY <1>3, <1>4, <1>5, <1>8 DEF OutcomeStatus
  <1>10. QED
    BY <1>1, <1>2, <1>4, <1>5, <1>6, <1>7, <1>9

\* Issuing a license keeps a chain's record well typed.
LEMMA LicenseIssued == \A s \in ChainState : [s EXCEPT !.licenses = @ + 1] \in ChainState
  BY DEF ChainState

\* What the broker keeps of a chain, and the tokens it issues, are well typed.
LEMMA BrokerTyped ==
  ASSUME TypeOK, NEW t \in Token
  PROVE  /\ Rotated(t) \in [Chain -> ChainState]
         /\ Rejected(t) \in [Chain -> ChainState]
         /\ NextOf(t) \in Token
  <1>1. broker \in [Chain -> ChainState] /\ t.chain \in Chain /\ t.n \in Nat
    BY DEF TypeOK, Token
  <1>2. broker[t.chain] \in ChainState
    BY <1>1
  <1>3. Rotated(t) \in [Chain -> ChainState]
    <2> DEFINE b == broker[t.chain]
               reused == IF t.n \in b.spent THEN b.reused \cup {t.n} ELSE b.reused
               u == [b EXCEPT !.issued = @ + 1, !.spent = @ \cup {t.n}, !.reused = reused]
    <2>1. u \in ChainState
      <3>1. b.issued + 1 \in Nat /\ b.spent \cup {t.n} \in SUBSET Nat
            /\ reused \in SUBSET Nat
        BY <1>1, <1>2 DEF ChainState
      <3> HIDE DEF reused
      <3>2. QED
        BY <1>2, <3>1 DEF ChainState
    <2>2. Rotated(t) = [broker EXCEPT ![t.chain] = u]
      BY <1>1, <1>2 DEF Rotated, ChainState
    <2> HIDE DEF u
    <2>3. QED
      BY <1>1, <2>1, <2>2
  <1>4. Rejected(t) \in [Chain -> ChainState]
    BY <1>1, <1>2 DEF Rejected, ChainState
  <1>5. NextOf(t) \in Token
    BY <1>1, <1>2 DEF NextOf, Token, ChainState
  <1>6. QED
    BY <1>3, <1>4, <1>5

\* No step of the system breaks the types or the shape.
LEMMA TypeStep == TypeOK /\ Shape /\ [Next]_vars => TypeOK' /\ Shape'
  <1> SUFFICES ASSUME TypeOK, Shape, [Next]_vars PROVE TypeOK' /\ Shape'
    OBVIOUS
  <1> USE DEF Store, Records, At
  <1>0. session \in Session /\ status \in Status /\ pending \in Pending
        /\ \A p \in Process : proc[p] \in Proc /\ proc[p].exp \in Session
                              /\ Shaped(proc[p])
    BY DEF TypeOK, Shape, Proc
  <1>1. ASSUME NEW p \in Process, RenewStart(p) PROVE TypeOK' /\ Shape'
    <2>1. \E r \in Proc : Shaped(r) /\ To(p, r)
      <3>1. [Idle EXCEPT !.pc = "acquire", !.snap = session.license] \in Proc
        BY <1>0, IdleTyped DEF Proc, PC, Session
      <3>2. QED
        BY <1>1, <3>1, IdleTyped DEF RenewStart, Shaped, Settling, Proc
    <2>2. left' \in [Bounds -> Nat]
      BY <1>1, BoundsTyped DEF RenewStart, Bounds
    <2>3. QED
      BY <1>1, <2>1, <2>2, ProcTyped DEF RenewStart, TypeOK
  <1>2. ASSUME NEW p \in Process, RenewSkipped(p) PROVE TypeOK' /\ Shape'
    <2>1. \E r \in Proc : Shaped(r) /\ To(p, r)
      BY <1>0, <1>2, IdleTyped DEF RenewSkipped, Goto, Finish, Shaped, Settling, Proc, PC, Session, Idle, SignedIn
    <2>2. QED
      BY <1>2, <2>1, ProcTyped DEF RenewSkipped, TypeOK
  <1>3. ASSUME NEW p \in Process, AcquireLock(p) PROVE TypeOK' /\ Shape'
    <2>1. \E r \in Proc : Shaped(r) /\ To(p, r)
      BY <1>0, <1>3 DEF AcquireLock, Goto, Shaped, Settling, Proc, PC
    <2>2. QED
      BY <1>3, <2>1, ProcTyped DEF AcquireLock, RenewLock!Acquire, TypeOK
  <1>4. ASSUME NEW p \in Process, RecoverLock(p) PROVE TypeOK' /\ Shape'
    BY <1>4 DEF RecoverLock, RenewLock!Recover, TypeOK, Shape
  <1>5. ASSUME NEW p \in Process, Reread(p) PROVE TypeOK' /\ Shape'
    <2>1. \E r \in Proc : Shaped(r) /\ To(p, r)
      BY <1>0, <1>5, IdleTyped DEF Reread, Goto, Finish, Shaped, Settling, Proc, PC, Session, Idle, SignedIn
    <2>2. QED
      BY <1>5, <2>1, ProcTyped DEF Reread, TypeOK
  <1>6. ASSUME NEW p \in Process, Expect(p) PROVE TypeOK' /\ Shape'
    <2>1. \E r \in Proc : Shaped(r) /\ To(p, r)
      BY <1>0, <1>6, IdleTyped DEF Expect, Goto, Finish, Shaped, Settling, Proc, PC, Session, Idle, SignedIn
    <2>2. QED
      BY <1>6, <2>1, ProcTyped DEF Expect, TypeOK
  <1>7. ASSUME NEW p \in Process, Send(p) PROVE TypeOK' /\ Shape'
    <2>1. \E r \in Proc : Shaped(r) /\ To(p, r)
      <3>1. CASE Matches(proc[p].exp)
        <4>1. session.refresh # None /\ session.refresh \in Maybe(Token)
          BY <1>0, <1>7, <3>1 DEF Send, Matches, Shaped, Settling, Session
        <4>2. [proc[p] EXCEPT !.pc = "waiting", !.sent = session.refresh] \in Proc
          BY <1>0, <4>1 DEF Proc, PC
        <4>3. QED
          BY <1>0, <1>7, <3>1, <4>1, <4>2 DEF Send, Shaped, Settling, Proc
      <3>2. CASE ~ Matches(proc[p].exp)
        BY <1>7, <3>2, IdleTyped DEF Send, Finish, Shaped, Settling, Proc, PC, Idle
      <3>3. QED
        BY <3>1, <3>2
    <2>2. QED
      BY <1>7, <2>1, ProcTyped DEF Send, TypeOK
  <1>8. ASSUME NEW p \in Process, Grant(p) PROVE TypeOK' /\ Shape'
    <2> DEFINE t == proc[p].sent
    <2>1. t \in Token /\ t # None
      BY <1>0, <1>8, NoneAssumption DEF Grant, Shaped, Proc, Maybe
    <2>2. NextOf(t) \in Token /\ NextOf(t) # None
      BY <2>1, BrokerTyped, NoneAssumption
    <2>3. \E r \in Proc : Shaped(r) /\ To(p, r)
      <3>1. CASE To(p, [proc[p] EXCEPT !.pc = "rotate", !.got = NextOf(t)])
        <4>1. [proc[p] EXCEPT !.pc = "rotate", !.got = NextOf(t)] \in Proc
          BY <1>0, <2>2 DEF Proc, PC, Maybe
        <4>2. QED
          BY <1>0, <1>8, <2>1, <2>2, <3>1, <4>1 DEF Grant, Shaped, Settling, Proc
      <3>2. CASE Goto(p, "exchange")
        BY <1>0, <1>8, <3>2 DEF Grant, Goto, Shaped, Settling, Proc, PC
      <3>3. CASE Settle(p, "rejected")
        BY <1>0, <1>8, <3>3 DEF Grant, Settle, Shaped, Settling, Proc, PC
      <3>4. QED
        BY <1>8, <3>1, <3>2, <3>3 DEF Grant
    <2>4. broker' \in [Chain -> ChainState] /\ lost' = lost
      BY <1>8, <2>1, BrokerTyped DEF Grant, TypeOK
    <2>5. left' \in [Bounds -> Nat]
      BY <1>8, BoundsTyped DEF Grant
    <2>6. QED
      BY <1>8, <2>3, <2>4, <2>5, ProcTyped DEF Grant, TypeOK
  <1>9. ASSUME NEW p \in Process, GrantFails(p) PROVE TypeOK' /\ Shape'
    <2>1. proc[p].sent \in Token
      BY <1>0, <1>9 DEF GrantFails, Shaped, Proc, Maybe
    <2>2. \E r \in Proc : Shaped(r) /\ To(p, r)
      BY <1>0, <1>9 DEF GrantFails, Settle, Shaped, Settling, Proc, PC
    <2>3. broker' \in [Chain -> ChainState] /\ lost' \in SUBSET Token
      BY <1>9, <2>1, BrokerTyped DEF GrantFails, TypeOK
    <2>4. left' \in [Bounds -> Nat]
      BY <1>9, BoundsTyped, FaultTyped DEF GrantFails
    <2>5. QED
      BY <1>9, <2>2, <2>3, <2>4, ProcTyped DEF GrantFails, TypeOK
  <1>10. ASSUME NEW p \in Process, CommitRotation(p) PROVE TypeOK' /\ Shape'
    <2> DEFINE r1 == [proc[p] EXCEPT !.pc = "exchange", !.exp.refresh = proc[p].got,
                                     !.got = None]
               r2 == [proc[p] EXCEPT !.pc = "record", !.outcome = "transient", !.got = None]
    <2>1. proc[p].sent \in Token /\ proc[p].got \in Token /\ proc[p].got # None
      BY <1>0, <1>10 DEF CommitRotation, Shaped, Proc, Maybe
    <2>2. /\ r1 \in Proc
          /\ [session EXCEPT !.refresh = proc[p].got] \in Session
      <3>1. [session EXCEPT !.refresh = proc[p].got] \in Session
        BY <1>0, <2>1 DEF Maybe, Session
      <3>2. [proc[p].exp EXCEPT !.refresh = proc[p].got] \in Session
        BY <1>0, <2>1 DEF Maybe, Session
      <3>3. r1 \in Proc
        BY <1>0, <3>2 DEF Proc, PC, Maybe
      <3>4. QED
        BY <3>1, <3>3
    <2>3. r1.pc = "exchange" /\ r1.exp.refresh = proc[p].got
      BY <1>0 DEF Proc, Session
    <2>4. r2 \in Proc /\ r2.pc = "record"
      BY <1>0 DEF Proc, PC, Maybe
    <2>5. Shaped(r1) /\ Shaped(r2)
      BY <2>1, <2>3, <2>4 DEF Shaped, Settling
    <2>6. To(p, r1) \/ To(p, r2) \/ Finish(p)
      BY <1>10 DEF CommitRotation
    <2>7. \E r \in Proc : Shaped(r) /\ To(p, r)
      <3>1. CASE Finish(p)
        BY <3>1, IdleTyped DEF Finish, Shaped, Settling, Proc, PC, Idle
      <3> HIDE DEF r1, r2
      <3>2. QED
        BY <2>2, <2>4, <2>5, <2>6, <3>1
    <2>8. left' \in [Bounds -> Nat]
      BY <1>10, BoundsTyped, FaultTyped DEF CommitRotation
    <2>9. session' \in Session /\ lost' \in SUBSET Token
      BY <1>0, <1>10, <2>1, <2>2 DEF CommitRotation, TypeOK
    <2>10. QED
      BY <1>10, <2>7, <2>8, <2>9, ProcTyped DEF CommitRotation, TypeOK
  <1>11. ASSUME NEW p \in Process, Exchange(p) PROVE TypeOK' /\ Shape'
    <2> DEFINE c == proc[p].exp.refresh.chain
               l == [chain |-> c, n |-> broker[c].licenses + 1]
               r1 == [proc[p] EXCEPT !.pc = "refresh", !.license = l]
    <2>1. c \in Chain /\ broker[c] \in ChainState
      BY <1>0, <1>11 DEF Exchange, Shaped, Settling, Session, Maybe, Token, TypeOK
    <2>2. l \in Token
      BY <2>1 DEF Token, ChainState
    <2>3. r1 \in Proc /\ Shaped(r1)
      <3> HIDE DEF l
      <3>1. r1 \in Proc /\ r1.pc = "refresh" /\ r1.exp = proc[p].exp
        BY <1>0, <2>2 DEF Proc, PC, Maybe
      <3>2. proc[p].pc = "exchange" /\ Shaped(proc[p])
        BY <1>0, <1>11 DEF Exchange
      <3>3. proc[p].exp.refresh # None
        BY <3>2 DEF Shaped, Settling
      <3> HIDE DEF r1
      <3>4. QED
        BY <3>1, <3>3 DEF Shaped, Settling
    <2>4. [broker EXCEPT ![c].licenses = @ + 1] \in [Chain -> ChainState]
      <3>1. broker \in [Chain -> ChainState]
        BY DEF TypeOK
      <3> HIDE DEF c
      <3>2. [broker[c] EXCEPT !.licenses = @ + 1] \in ChainState
        BY <2>1, LicenseIssued
      <3>3. \A x \in ChainState : [broker EXCEPT ![c] = x] \in [Chain -> ChainState]
        BY <2>1, <3>1
      <3>4. [broker EXCEPT ![c] = [broker[c] EXCEPT !.licenses = @ + 1]] \in [Chain -> ChainState]
        BY <3>2, <3>3
      <3>5. QED
        BY <3>4
    <2>5. \E r \in Proc : Shaped(r) /\ To(p, r)
      <3>1. CASE Goto(p, "drop") \/ Settle(p, "transient")
        BY <1>0, <1>11, <3>1 DEF Exchange, Goto, Settle, Shaped, Settling, Proc, PC
      <3>2. CASE To(p, r1)
        <4> HIDE DEF r1
        <4> QED
          BY <2>3, <3>2
      <3>3. QED
        BY <1>11, <3>1, <3>2 DEF Exchange
    <2>6. left' \in [Bounds -> Nat]
      BY <1>11, BoundsTyped, FaultTyped DEF Exchange
    <2>7. broker' \in [Chain -> ChainState]
      BY <1>11, <2>4 DEF Exchange, TypeOK
    <2>8. QED
      BY <1>11, <2>5, <2>6, <2>7, ProcTyped DEF Exchange, TypeOK
  <1>12. ASSUME NEW p \in Process, CommitRefresh(p) PROVE TypeOK' /\ Shape'
    <2> DEFINE r1 == [proc[p] EXCEPT !.pc = "record", !.outcome = "rotated",
                                     !.exp.license = proc[p].license]
               r2 == [proc[p] EXCEPT !.pc = "record", !.outcome = "transient",
                                     !.exp.refresh = proc[p].sent]
    <2>1. /\ r1 \in Proc /\ r2 \in Proc
          /\ [session EXCEPT !.license = proc[p].license] \in Session
      <3>1. /\ [proc[p].exp EXCEPT !.license = proc[p].license] \in Session
            /\ [proc[p].exp EXCEPT !.refresh = proc[p].sent] \in Session
            /\ [session EXCEPT !.license = proc[p].license] \in Session
        BY <1>0 DEF Proc, Session
      <3>2. QED
        BY <1>0, <3>1 DEF Proc, PC
    <2>2. r1.pc = "record" /\ r2.pc = "record"
      BY <1>0 DEF Proc
    <2>3. Shaped(r1) /\ Shaped(r2)
      BY <2>2 DEF Shaped, Settling
    <2>4. To(p, r1) \/ To(p, r2) \/ Finish(p)
      BY <1>12 DEF CommitRefresh
    <2>5. \E r \in Proc : Shaped(r) /\ To(p, r)
      <3>1. CASE Finish(p)
        BY <3>1, IdleTyped DEF Finish, Shaped, Settling, Proc, PC, Idle
      <3> HIDE DEF r1, r2
      <3>2. QED
        BY <2>1, <2>3, <2>4, <3>1
    <2>6. left' \in [Bounds -> Nat]
      BY <1>12, BoundsTyped, FaultTyped DEF CommitRefresh
    <2>7. session' \in Session /\ expired' \in BOOLEAN
      BY <1>0, <1>12, <2>1 DEF CommitRefresh, TypeOK
    <2>8. QED
      BY <1>12, <2>5, <2>6, <2>7, ProcTyped DEF CommitRefresh, TypeOK
  <1>13. ASSUME NEW p \in Process, Record(p) PROVE TypeOK' /\ Shape'
    <2>1. \E r \in Proc : Shaped(r) /\ To(p, r)
      BY <1>13, IdleTyped DEF Record, Finish, Throw, Shaped, Settling, Proc, PC, Idle
    <2>2. status' \in Status
      BY <1>0, <1>13, StatusTyped DEF Record
    <2>3. left' \in [Bounds -> Nat]
      BY <1>13, BoundsTyped, FaultTyped DEF Record
    <2>4. QED
      BY <1>13, <2>1, <2>2, <2>3, ProcTyped DEF Record, TypeOK
  <1>14. ASSUME NEW p \in Process, DropSession(p) PROVE TypeOK' /\ Shape'
    <2>1. \E r \in Proc : Shaped(r) /\ To(p, r)
      BY <1>0, <1>14, IdleTyped DEF DropSession, Finish, Throw, Shaped, Settling, Proc, PC, Idle, Session
    <2>2. left' \in [Bounds -> Nat]
      BY <1>14, BoundsTyped, FaultTyped DEF DropSession
    <2>3. [NoSession EXCEPT !.generation = session.generation + 1] \in Session
      BY <1>0, IdleTyped DEF Session
    <2>4. /\ session' \in Session /\ expired' \in BOOLEAN /\ newest' \in Nat
          /\ status' \in Status
      <3>1. Ended("revoked") \in Status
        BY StatusTyped DEF Reason
      <3>2. \A s \in Session : s.generation \in Nat /\ Stamped(Ended("revoked"), s) \in Status
        BY <3>1, StatusTyped DEF Session
      <3>3. QED
        BY <1>0, <1>14, <2>3, <3>2 DEF DropSession, TypeOK
    <2>5. QED
      BY <1>14, <2>1, <2>2, <2>4, ProcTyped DEF DropSession, TypeOK
  <1>15. ASSUME NEW p \in Process, Release(p) PROVE TypeOK' /\ Shape'
    <2>1. Shaped(Idle)
      BY DEF Idle, Shaped, Settling
    <2>2. QED
      BY <1>15, <2>1, ProcTyped, IdleTyped DEF Release, RenewLock!Unlock, TypeOK
  <1>16. ASSUME NEW p \in Process, Revoke(p) PROVE TypeOK' /\ Shape'
    <2>1. \E r \in Proc : Shaped(r) /\ To(p, r)
      BY <1>16, IdleTyped DEF Revoke, Finish, Shaped, Settling, Proc, PC, Idle
    <2>2. left' \in [Bounds -> Nat]
      BY <1>16, BoundsTyped, FaultTyped DEF Revoke
    <2>3. broker' \in [Chain -> ChainState]
      <3> DEFINE c == proc[p].got.chain
      <3>1. CASE c \in Chain
        <4>1. [broker[c] EXCEPT !.state = "revoked"] \in ChainState
          BY <3>1 DEF TypeOK, ChainState
        <4>2. QED
          BY <1>16, <4>1 DEF Revoke, TypeOK
      <3>2. CASE c \notin Chain
        BY <1>16, <3>2 DEF Revoke, TypeOK
      <3>3. QED
        BY <3>1, <3>2
    <2>4. QED
      BY <1>16, <2>1, <2>2, <2>3, ProcTyped DEF Revoke, TypeOK
  <1>17. ASSUME NEW p \in Process, SigninEngage(p) PROVE TypeOK' /\ Shape'
    <2> DEFINE r1 == [Idle EXCEPT !.pc = IF Codex THEN "mark" ELSE "clear",
                                  !.intent = session.generation + 1]
    <2>1. r1 \in Proc /\ r1.pc \in {"mark", "clear"}
      <3> DEFINE n == session.generation + 1
                 next == IF Codex THEN "mark" ELSE "clear"
      <3>1. n \in Nat /\ next \in PC /\ next \in {"mark", "clear"}
        BY <1>0 DEF PC, Session
      <3> HIDE DEF n, next
      <3>2. QED
        BY <3>1, IdleTyped, FieldsTyped DEF n, next
    <2>2. Shaped(r1)
      BY <2>1 DEF Shaped, Settling
    <2>3. \E r \in Proc : Shaped(r) /\ To(p, r)
      <3>1. CASE To(p, Idle)
        BY <3>1, IdleTyped DEF Idle, Shaped, Settling
      <3>2. CASE To(p, r1)
        <4> HIDE DEF r1
        <4> QED
          BY <2>1, <2>2, <3>2
      <3>3. QED
        BY <1>17, <3>1, <3>2 DEF SigninEngage
    <2>4. session' \in Session
      <3> DEFINE n == session.generation + 1
                 out == IF Codex THEN FALSE ELSE session.signedOut
      <3>1. n \in Nat /\ out \in BOOLEAN
        <4>1. session.generation \in Nat /\ session.signedOut \in BOOLEAN
          BY <1>0 DEF Session
        <4>2. out \in BOOLEAN
          BY <4>1, ChoiceTyped, Zenon
        <4>3. n \in Nat
          BY <4>1
        <4>4. QED
          BY <4>2, <4>3, Zenon
      <3>2. session' = [session EXCEPT !.generation = n, !.signedOut = out] \/ session' = session
        BY <1>0, <1>17 DEF SigninEngage, Session
      <3> HIDE DEF n, out
      <3>3. QED
        <4>1. [session EXCEPT !.generation = n, !.signedOut = out] \in Session
          BY <1>0, <3>1, FieldsTyped
        <4>2. QED
          BY <1>0, <3>2, <4>1
    <2>5. left' \in [Bounds -> Nat]
      BY <1>17, BoundsTyped, FaultTyped DEF SigninEngage
    <2>6. QED
      BY <1>17, <2>3, <2>4, <2>5, ProcTyped DEF SigninEngage, TypeOK
  <1>18. ASSUME NEW p \in Process, SigninClear(p) PROVE TypeOK' /\ Shape'
    <2>1. \E r \in Proc : Shaped(r) /\ To(p, r)
      BY <1>0, <1>18 DEF SigninClear, Goto, Shaped, Settling, Proc, PC
    <2>2. status' \in Status
      BY <1>0, <1>18, StatusTyped DEF SigninClear
    <2>3. QED
      BY <1>18, <2>1, <2>2, ProcTyped DEF SigninClear, TypeOK
  <1>19. ASSUME NEW p \in Process, SigninMark(p) PROVE TypeOK' /\ Shape'
    <2>1. \E r \in Proc : Shaped(r) /\ To(p, r)
      BY <1>0, <1>19, IdleTyped DEF SigninMark, Goto, Shaped, Settling, Proc, PC, Idle
    <2>2. pending' \in Pending
      BY <1>0, <1>19 DEF SigninMark, Pending, Proc
    <2>3. left' \in [Bounds -> Nat]
      BY <1>19, BoundsTyped, FaultTyped DEF SigninMark
    <2>4. QED
      BY <1>19, <2>1, <2>2, <2>3, ProcTyped DEF SigninMark, TypeOK
  <1>20. ASSUME NEW p \in Process, SigninApproved(p) PROVE TypeOK' /\ Shape'
    <2>1. CASE Goto(p, "fail") /\ broker' = broker
      <3>1. \E r \in Proc : Shaped(r) /\ To(p, r)
        BY <1>0, <2>1 DEF Goto, Shaped, Settling, Proc, PC
      <3>2. QED
        BY <1>20, <2>1, <3>1, ProcTyped DEF SigninApproved, TypeOK
    <2>2. ASSUME NEW c \in Chain,
                 broker' = [broker EXCEPT ![c].state = "live", ![c].intent = proc[p].intent,
                              ![c].issued = 1, ![c].licenses = 1],
                 NEW got \in {None, [chain |-> c, n |-> 1]},
                 To(p, [proc[p] EXCEPT !.pc = "commit", !.got = got,
                          !.license = [chain |-> c, n |-> 1]])
          PROVE  TypeOK' /\ Shape'
      <3> DEFINE r1 == [proc[p] EXCEPT !.pc = "commit", !.got = got,
                          !.license = [chain |-> c, n |-> 1]]
      <3>1. [chain |-> c, n |-> 1] \in Token
        BY <2>2 DEF Token
      <3>2. r1 \in Proc /\ r1.pc = "commit"
        BY <1>0, <2>2, <3>1 DEF Proc, PC, Maybe
      <3>3. Shaped(r1)
        BY <3>2 DEF Shaped, Settling
      <3>4. broker' \in [Chain -> ChainState]
        <4> DEFINE u == [broker[c] EXCEPT !.state = "live", !.intent = proc[p].intent,
                           !.issued = 1, !.licenses = 1]
        <4>1. u \in ChainState
          <5>1. broker[c] \in ChainState /\ proc[p].intent \in Nat
            BY <1>0 DEF TypeOK, Proc
          <5>2. QED
            BY <5>1, FieldsTyped
        <4>2. broker' = [broker EXCEPT ![c] = u]
          BY <2>2 DEF TypeOK, ChainState
        <4> HIDE DEF u
        <4>3. QED
          BY <4>1, <4>2 DEF TypeOK
      <3> HIDE DEF r1
      <3>5. To(p, r1)
        BY <2>2 DEF r1
      <3>6. QED
        BY <1>20, <3>2, <3>3, <3>4, <3>5, ProcTyped DEF SigninApproved, TypeOK
    <2>3. QED
      BY <1>20, <2>1, <2>2 DEF SigninApproved
  <1>21. ASSUME NEW p \in Process, SigninCommit(p) PROVE TypeOK' /\ Shape'
    <2>1. \E r \in Proc : Shaped(r) /\ To(p, r)
      BY <1>0, <1>21, IdleTyped DEF SigninCommit, Goto, Shaped, Settling, Proc, PC, Idle
    <2>2. left' \in [Bounds -> Nat]
      BY <1>21, BoundsTyped, FaultTyped DEF SigninCommit
    <2>3. session' \in Session /\ expired' \in BOOLEAN /\ newest' \in Nat
      <3>1. proc[p].license \in Maybe(Token) /\ proc[p].got \in Maybe(Token)
            /\ proc[p].intent \in Nat
        BY <1>0 DEF Proc
      <3>2. newest' \in Nat
        BY <1>21, <3>1 DEF SigninCommit, Later, TypeOK
      <3>3. session' \in Session
        <4> DEFINE n == session.generation + 1
                   out == IF Codex THEN session.signedOut ELSE FALSE
        <4>1. n \in Nat /\ out \in BOOLEAN
          <5>1. session.generation \in Nat /\ session.signedOut \in BOOLEAN
            BY <1>0 DEF Session
          <5>2. out \in BOOLEAN
            BY <5>1, ChoiceTyped, Zenon
          <5>3. n \in Nat
            BY <5>1
          <5>4. QED
            BY <5>2, <5>3, Zenon
        <4>2. session' = [license |-> proc[p].license, refresh |-> proc[p].got,
                          generation |-> n, signedOut |-> out] \/ session' = session
          BY <1>21 DEF SigninCommit
        <4> HIDE DEF n, out
        <4>3. QED
          BY <1>0, <3>1, <4>1, <4>2 DEF Session
      <3>4. QED
        BY <1>21, <3>2, <3>3 DEF SigninCommit, TypeOK
    <2>4. status' \in Status /\ pending' \in Pending
      <3>1. NoOutcome("none") \in Status
        BY StatusTyped DEF Reason
      <3>2. Stamped(NoOutcome("none"), session') \in Status
        BY <2>3, <3>1, StatusTyped
      <3>3. [result |-> "success", intent |-> 0] \in Pending
        BY DEF Pending
      <3>4. \/ status' = Stamped(NoOutcome("none"), session')
               /\ pending' = [result |-> "success", intent |-> 0]
            \/ status' = status /\ pending' = pending
        BY <1>21 DEF SigninCommit
      <3>5. QED
        BY <1>0, <3>2, <3>3, <3>4
    <2>5. QED
      BY <1>21, <2>1, <2>2, <2>3, <2>4, ProcTyped DEF SigninCommit, TypeOK
  <1>22. ASSUME NEW p \in Process, SigninFailed(p) PROVE TypeOK' /\ Shape'
    <2>1. Shaped(Idle)
      BY DEF Idle, Shaped, Settling
    <2>2. pending' \in Pending
      BY <1>0, <1>22, CodexAssumption DEF SigninFailed, Pending
    <2>3. left' \in [Bounds -> Nat]
      BY <1>22, BoundsTyped, FaultTyped DEF SigninFailed
    <2>4. QED
      BY <1>22, <2>1, <2>2, <2>3, ProcTyped, IdleTyped DEF SigninFailed, TypeOK
  <1>23. ASSUME NEW p \in Process, SignoutStart(p) PROVE TypeOK' /\ Shape'
    <2>1. \E r \in Proc : Shaped(r) /\ To(p, r)
      BY <1>0, <1>23, IdleTyped DEF SignoutStart, Goto, Finish, Shaped, Settling, Proc, PC, Session, Idle, SignedIn
    <2>2. left' \in [Bounds -> Nat]
      BY <1>23, BoundsTyped DEF SignoutStart, Bounds
    <2>3. QED
      BY <1>23, <2>1, <2>2, ProcTyped DEF SignoutStart, TypeOK
  <1>24. ASSUME NEW p \in Process, Signout(p) PROVE TypeOK' /\ Shape'
    <2>1. \E r \in Proc : Shaped(r) /\ To(p, r)
      BY <1>0, <1>24, IdleTyped DEF Signout, Shaped, Settling, Proc, PC, Idle, Session
    <2>2. left' \in [Bounds -> Nat]
      BY <1>24, BoundsTyped, FaultTyped DEF Signout
    <2>3. [NoSession EXCEPT !.generation = session.generation + 1, !.signedOut = TRUE]
            \in Session
      <3>1. session.generation + 1 \in Nat
        BY <1>0 DEF Session
      <3>2. QED
        BY <3>1, IdleTyped, FieldsTyped
    <2>4. session' \in Session /\ expired' \in BOOLEAN /\ newest' \in Nat
      <3>1. \A s \in Session : s.generation \in Nat
        BY DEF Session
      <3>2. QED
        BY <1>0, <1>24, <2>3, <3>1 DEF Signout, TypeOK
    <2>5. QED
      BY <1>24, <2>1, <2>2, <2>4, ProcTyped DEF Signout, TypeOK
  <1>25. ASSUME NEW p \in Process, Crash(p) PROVE TypeOK' /\ Shape'
    <2>1. Shaped(Idle)
      BY DEF Idle, Shaped, Settling
    <2>2. left' \in [Bounds -> Nat]
      BY <1>25, BoundsTyped DEF Crash, Bounds
    <2>3. lost' \in SUBSET Token
      BY <1>0, <1>25 DEF Crash, TypeOK, Shaped, Proc, Maybe
    <2>4. renewLock' \in Process \cup {Free, Orphaned}
      BY <1>25 DEF Crash, RenewLock!Die, TypeOK
    <2>5. QED
      BY <1>25, <2>1, <2>2, <2>3, <2>4, ProcTyped, IdleTyped DEF Crash, TypeOK
  <1>26. ASSUME NEW p \in Process, NEW restart \in BOOLEAN, SigninStart(p, restart)
         PROVE  TypeOK' /\ Shape'
    <2>1. \E r \in Proc : Shaped(r) /\ To(p, r)
      BY <1>0, <1>26 DEF SigninStart, Goto, Shaped, Settling, Proc, PC
    <2>2. left' \in [Bounds -> Nat]
      BY <1>26, BoundsTyped DEF SigninStart, Bounds
    <2>3. QED
      BY <1>26, <2>1, <2>2, ProcTyped DEF SigninStart, TypeOK
  <1>27. CASE ClearTerminal
    <2>1. status' \in Status
      BY <1>0, <1>27, StatusTyped DEF ClearTerminal
    <2>2. left' \in [Bounds -> Nat]
      BY <1>27, BoundsTyped DEF ClearTerminal, Bounds
    <2>3. QED
      BY <1>27, <2>1, <2>2 DEF ClearTerminal, TypeOK, Shape
  <1>28. CASE Time
    <2>1. CASE Expire
      <3>1. left' \in [Bounds -> Nat]
        BY <2>1, BoundsTyped DEF Expire, Bounds
      <3>2. QED
        BY <2>1, <3>1 DEF Expire, TypeOK, Shape
    <2>2. CASE RetryDue
      BY <2>2 DEF RetryDue, TypeOK, Shape, Status
    <2>3. CASE GraceOver
      BY <2>3 DEF GraceOver, TypeOK, Shape, ChainState
    <2>4. CASE MarkerExpires
      BY <2>4 DEF MarkerExpires, TypeOK, Shape, Pending
    <2>5. QED
      BY <1>28, <2>1, <2>2, <2>3, <2>4 DEF Time
  <1>29. CASE UNCHANGED vars
    BY <1>29 DEF vars, TypeOK, Shape
  <1>30. QED
    BY <1>1, <1>2, <1>3, <1>4, <1>5, <1>6, <1>7, <1>8, <1>9, <1>10, <1>11, <1>12, <1>13,
       <1>14, <1>15, <1>16, <1>17, <1>18, <1>19, <1>20, <1>21, <1>22, <1>23, <1>24, <1>25,
       <1>26, <1>27, <1>28, <1>29 DEF Next, Start, Renewal, Signin

\* The initial states are well typed and shaped.
LEMMA TypeInit == Init => TypeOK /\ Shape
  <1> SUFFICES ASSUME Init PROVE TypeOK /\ Shape
    OBVIOUS
  <1>1. session \in Session
    <2>1. [chain |-> 1, n |-> 1] \in Token
      BY LimitsAssumption DEF Token, Chain
    <2>2. QED
      <3>1. [license |-> [chain |-> 1, n |-> 1], refresh |-> [chain |-> 1, n |-> 1],
             generation |-> 1, signedOut |-> FALSE] \in Session
        BY <2>1 DEF Session, Maybe
      <3>2. QED
        BY <3>1, IdleTyped DEF Init
  <1>2. status \in Status
    <2>1. Context(NoSession) \in Stamp
      BY IdleTyped DEF Context, Stamp, Session, Maybe
    <2>2. QED
      BY <2>1 DEF Init, NoOutcome, Status, Reason
  <1>3. broker \in [Chain -> ChainState]
    BY DEF Init, NoChain, ChainState
  <1>4. left \in [Bounds -> Nat]
    BY LimitsAssumption DEF Init, Bounds
  <1>5. proc \in [Process -> Proc] /\ Shape
    BY IdleTyped DEF Init, Shape, Shaped, Settling, Idle
  <1>6. QED
    BY <1>1, <1>2, <1>3, <1>4, <1>5 DEF Init, TypeOK, Pending

-----------------------------------------------------------------------------
(* What a step can change.                                                   *)

\* Only an exchange with the broker, or time, changes what the broker knows.
LEMMA BrokerFrame ==
  ASSUME [Next]_vars
  PROVE  \/ broker' = broker
         \/ \E p \in Process : Grant(p) \/ GrantFails(p) \/ Exchange(p) \/ Revoke(p)
                               \/ SigninApproved(p)
         \/ GraceOver
  <1>1. ASSUME NEW p \in Process,
               RenewSkipped(p) \/ AcquireLock(p) \/ RecoverLock(p) \/ Reread(p) \/ Expect(p)
               \/ Send(p) \/ CommitRotation(p) \/ CommitRefresh(p) \/ Record(p)
               \/ DropSession(p) \/ Release(p)
        PROVE  broker' = broker
    BY <1>1 DEF RenewSkipped, AcquireLock, RecoverLock, Reread, Expect, Send, CommitRotation,
                CommitRefresh, Record, DropSession, Release
  <1>2. ASSUME NEW p \in Process,
               SigninEngage(p) \/ SigninClear(p) \/ SigninMark(p) \/ SigninCommit(p)
               \/ SigninFailed(p) \/ Signout(p) \/ Crash(p)
        PROVE  broker' = broker
    BY <1>2 DEF SigninEngage, SigninClear, SigninMark, SigninCommit, SigninFailed, Signout, Crash
  <1>3. ASSUME NEW p \in Process, Start(p)
        PROVE  broker' = broker
    BY <1>3 DEF Start, RenewStart, SigninStart, SignoutStart
  <1>4. CASE ClearTerminal \/ Expire \/ RetryDue \/ MarkerExpires \/ UNCHANGED vars
    BY <1>4 DEF ClearTerminal, Expire, RetryDue, MarkerExpires, vars
  <1>5. QED
    BY <1>1, <1>2, <1>3, <1>4 DEF Next, Renewal, Signin, Time

\* Only six steps change the session.
LEMMA SessionFrame ==
  ASSUME [Next]_vars
  PROVE  \/ session' = session /\ newest' = newest
         \/ \E p \in Process : CommitRotation(p) \/ CommitRefresh(p) \/ DropSession(p)
                               \/ SigninEngage(p) \/ SigninCommit(p) \/ Signout(p)
  <1> USE DEF Store
  <1>1. ASSUME NEW p \in Process,
               RenewSkipped(p) \/ AcquireLock(p) \/ RecoverLock(p) \/ Reread(p) \/ Expect(p)
               \/ Send(p) \/ Grant(p) \/ GrantFails(p) \/ Exchange(p) \/ Record(p)
               \/ Revoke(p) \/ Release(p)
        PROVE  session' = session /\ newest' = newest
    BY <1>1 DEF RenewSkipped, AcquireLock, RecoverLock, Reread, Expect, Send, Grant,
                GrantFails, Exchange, Record, Revoke, Release
  <1>2. ASSUME NEW p \in Process,
               SigninClear(p) \/ SigninMark(p) \/ SigninApproved(p) \/ SigninFailed(p)
               \/ Crash(p)
        PROVE  session' = session /\ newest' = newest
    BY <1>2 DEF SigninClear, SigninMark, SigninApproved, SigninFailed, Crash
  <1>3. ASSUME NEW p \in Process, Start(p)
        PROVE  session' = session /\ newest' = newest
    BY <1>3 DEF Start, RenewStart, SigninStart, SignoutStart
  <1>4. CASE ClearTerminal \/ Time \/ UNCHANGED vars
    BY <1>4 DEF ClearTerminal, Time, Expire, RetryDue, GraceOver, MarkerExpires, vars
  <1>5. QED
    BY <1>1, <1>2, <1>3, <1>4 DEF Next, Renewal, Signin

\* A step of one process leaves the records of the others alone.
LEMMA ProcStep ==
  ASSUME TypeOK, NEW p \in Process, NEW r, To(p, r)
  PROVE  proc'[p] = r /\ \A q \in Process \ {p} : proc'[q] = proc[q]
  BY DEF TypeOK, To

\* Steps that leave a process outside a renewal, and not about to commit.
Quiet == {"idle", "acquire", "engage", "clear", "mark", "poll", "fail", "signout", "revoke"}
QuietStep(p) ==
  \/ RenewStart(p) \/ RenewSkipped(p) \/ Release(p) \/ Crash(p)
  \/ \E restart \in BOOLEAN : SigninStart(p, restart)
  \/ SigninEngage(p) \/ SigninClear(p) \/ SigninMark(p) \/ SigninCommit(p) \/ SigninFailed(p)
  \/ SignoutStart(p) \/ Signout(p)

\* The steps of the environment, and those that only move one process on, keep the session and the broker.
LEMMA QuietSteps ==
  ASSUME TypeOK, NEW p \in Process, QuietStep(p)
  PROVE  /\ proc'[p].pc \in Quiet
         /\ proc'[p].exp.refresh \in {None, proc[p].exp.refresh}
         /\ proc'[p].sent \in {None, proc[p].sent, session.refresh}
         /\ \A q \in Process \ {p} : proc'[q] = proc[q]
         /\ renewLock' = renewLock \/ renewLock = p
  <1> DEFINE Kept(r) == /\ r.exp.refresh \in {None, proc[p].exp.refresh}
                        /\ r.sent \in {None, proc[p].sent, session.refresh}
             Result == /\ proc'[p].pc \in Quiet /\ Kept(proc'[p])
                       /\ \A q \in Process \ {p} : proc'[q] = proc[q]
  <1>0. proc[p] \in Proc /\ Idle \in Proc /\ Kept(Idle) /\ Kept(proc[p])
        /\ Idle.pc \in Quiet
    BY IdleTyped DEF TypeOK, Idle, NoSession, Quiet
  <1>1. ASSUME NEW r \in Proc, To(p, r), r.pc \in Quiet, Kept(r)
        PROVE  Result
    BY <1>1, ProcStep
  <1>2. ASSUME NEW r \in {Idle, proc[p]}, NEW pc \in Quiet, To(p, [r EXCEPT !.pc = pc])
        PROVE  Result
    <2> DEFINE s == [r EXCEPT !.pc = pc]
    <2>1. s \in Proc /\ s.pc = pc /\ s.exp = r.exp /\ s.sent = r.sent
      BY <1>0 DEF Proc, Quiet, PC
    <2> HIDE DEF s
    <2>2. To(p, s)
      BY <1>2 DEF s
    <2>3. QED
      BY <1>0, <1>1, <2>1, <2>2
  <1>3. ASSUME NEW r \in {Idle, proc[p]}, NEW pc \in Quiet, NEW s,
               s.pc = pc, s.exp = r.exp, s.sent \in {r.sent, session.refresh}, To(p, s)
        PROVE  Result
    BY <1>0, <1>3, ProcStep
  <1> HIDE DEF Result, Kept
  <1>4. ASSUME To(p, Idle)
        PROVE  Result
    BY <1>0, <1>1, <1>4
  <1>5. ASSUME RenewStart(p)
        PROVE  Result
    <2>1. To(p, [Idle EXCEPT !.pc = "acquire", !.snap = session.license])
      BY <1>5 DEF RenewStart
    <2> DEFINE s == [Idle EXCEPT !.pc = "acquire", !.snap = session.license]
    <2>2. s.pc = "acquire" /\ s.exp = Idle.exp /\ s.sent = Idle.sent
      BY DEF Idle
    <2> HIDE DEF s
    <2>3. To(p, s)
      BY <2>1 DEF s
    <2>4. QED
      BY <2>2, <2>3, <1>3 DEF Quiet
  <1>6. ASSUME SigninEngage(p)
        PROVE  Result
    <2> DEFINE s == [Idle EXCEPT !.pc = IF Codex THEN "mark" ELSE "clear",
                                 !.intent = session.generation + 1]
    <2>1. s.pc \in {"mark", "clear"} /\ s.exp = Idle.exp /\ s.sent = Idle.sent
      BY DEF Idle
    <2>2. To(p, s) \/ To(p, Idle)
      BY <1>6 DEF SigninEngage
    <2> HIDE DEF s
    <2>3. QED
      BY <2>1, <2>2, <1>3, <1>4 DEF Quiet
  <1>7. ASSUME SigninMark(p)
        PROVE  Result
    <2> DEFINE s == [proc[p] EXCEPT !.pc = "poll", !.outcome = "unmarked"]
    <2>1. s.pc = "poll" /\ s.exp = proc[p].exp /\ s.sent = proc[p].sent
      BY <1>0 DEF Proc
    <2>2. To(p, s) \/ To(p, Idle) \/ To(p, [proc[p] EXCEPT !.pc = "poll"])
      BY <1>7 DEF SigninMark, Goto
    <2> HIDE DEF s
    <2>3. QED
      BY <2>1, <2>2, <1>2, <1>3, <1>4 DEF Quiet
  <1>8. ASSUME SignoutStart(p)
        PROVE  Result
    <2>1. To(p, [Idle EXCEPT !.pc = "signout", !.got = session.refresh])
      BY <1>8 DEF SignoutStart
    <2> DEFINE s == [Idle EXCEPT !.pc = "signout", !.got = session.refresh]
    <2>2. s.pc = "signout" /\ s.exp = Idle.exp /\ s.sent = Idle.sent
      BY DEF Idle
    <2> HIDE DEF s
    <2>3. To(p, s)
      BY <2>1 DEF s
    <2>4. QED
      BY <2>2, <2>3, <1>3 DEF Quiet
  <1>9. ASSUME Signout(p)
        PROVE  Result
    <2> DEFINE s == [proc[p] EXCEPT !.pc = "revoke", !.sent = session.refresh]
    <2>1. s.pc = "revoke" /\ s.exp = proc[p].exp /\ s.sent = session.refresh
      BY <1>0 DEF Proc
    <2>2. To(p, s) \/ To(p, Idle)
      BY <1>9 DEF Signout
    <2> HIDE DEF s
    <2>3. QED
      BY <2>1, <2>2, <1>3, <1>4 DEF Quiet
  <1>10. ASSUME NEW restart \in BOOLEAN, SigninStart(p, restart)
         PROVE  Result
    BY <1>10, <1>2 DEF SigninStart, Goto, Quiet
  <1>11. ASSUME SigninClear(p)
        PROVE  Result
    BY <1>11, <1>2 DEF SigninClear, Goto, Quiet
  <1>12. ASSUME SigninCommit(p)
        PROVE  Result
    BY <1>12, <1>2, <1>4 DEF SigninCommit, Goto, Quiet
  <1>13. ASSUME RenewSkipped(p) \/ Release(p) \/ Crash(p) \/ SigninFailed(p)
        PROVE  Result
    BY <1>4, <1>13 DEF RenewSkipped, Release, Crash, SigninFailed
  <1>14. Result
    BY <1>5, <1>6, <1>7, <1>8, <1>9, <1>10, <1>11, <1>12, <1>13 DEF QuietStep
  <1>15. renewLock' = renewLock \/ renewLock = p
    BY DEF QuietStep, RenewStart, RenewSkipped, Release, Crash, SigninStart, SigninEngage,
           SigninClear, SigninMark, SigninCommit, SigninFailed, SignoutStart, Signout,
           RenewLock!Unlock, Store, Records
  <1>16. QED
    BY <1>14, <1>15 DEF Result, Kept

\* Every other step is one of a renewal, the approval, or not a process's at all.
RenewalStep(p) ==
  \/ Reread(p) \/ Expect(p) \/ Send(p) \/ Grant(p) \/ GrantFails(p) \/ CommitRotation(p)
  \/ Exchange(p) \/ CommitRefresh(p) \/ Record(p) \/ DropSession(p)

\* Every step is a quiet one, a renewal, or a step of a sign-in or sign-out.
LEMMA StepKinds ==
  ASSUME [Next]_vars
  PROVE  \/ \E p \in Process : QuietStep(p) \/ AcquireLock(p) \/ RenewalStep(p)
                               \/ Revoke(p) \/ SigninApproved(p)
         \/ proc' = proc /\ renewLock' = renewLock
         \/ proc' = proc /\ renewLock = Orphaned
  BY DEF Next, Start, Renewal, Signin, QuietStep, RenewalStep, Time, vars, ClearTerminal,
         Expire, RetryDue, GraceOver, MarkerExpires, RecoverLock, RenewLock!Recover,
         Store, Records

\* A renewal's step leaves the renewing pcs only for idle or the revocation, keeps or drops its
\* sign-in's intent, and moves no other process.
LEMMA RenewalSteps ==
  ASSUME TypeOK, NEW p \in Process, AcquireLock(p) \/ RenewalStep(p) \/ Revoke(p)
  PROVE  /\ proc'[p].pc \in Renewing \cup {"idle", "revoke"}
         /\ proc'[p].intent \in {0, proc[p].intent}
         /\ \A q \in Process \ {p} : proc'[q] = proc[q]
  <1> DEFINE Kept(r) == /\ r.pc \in Renewing \cup {"idle", "revoke"}
                        /\ r.intent \in {0, proc[p].intent}
             rotated   == [proc[p] EXCEPT !.pc = "rotate", !.got = NextOf(proc[p].sent)]
             stored    == [proc[p] EXCEPT !.pc = "exchange", !.exp.refresh = proc[p].got,
                                          !.got = None]
             unsaved   == [proc[p] EXCEPT !.pc = "record", !.outcome = "transient",
                                          !.got = None]
             lic(l)    == [proc[p] EXCEPT !.pc = "refresh", !.license = l]
             saved     == [proc[p] EXCEPT !.pc = "record", !.outcome = "rotated",
                                          !.exp.license = proc[p].license]
             failed    == [proc[p] EXCEPT !.pc = "record", !.outcome = "transient",
                                          !.exp.refresh = proc[p].sent]
             settle(o) == [proc[p] EXCEPT !.pc = "record", !.outcome = o]
             goto(pc)  == [proc[p] EXCEPT !.pc = pc]
             ended     == [Idle EXCEPT !.pc = "release"]
             threw     == [Idle EXCEPT !.pc = "release", !.outcome = "threw"]
             expect    == [proc[p] EXCEPT !.pc = "send", !.exp = session]
             rejected  == [proc[p] EXCEPT !.pc = "record", !.exp = session,
                                          !.outcome = "rejected"]
             waits     == [proc[p] EXCEPT !.pc = "waiting", !.sent = session.refresh]
             revoke    == [Idle EXCEPT !.pc = "revoke", !.got = proc[p].exp.refresh,
                                       !.sent = proc[p].exp.refresh]
  <1>0. proc[p] \in Proc
    BY DEF TypeOK
  <1>1. /\ Kept(rotated) /\ Kept(stored) /\ Kept(unsaved) /\ Kept(saved) /\ Kept(failed)
        /\ Kept(expect) /\ Kept(rejected) /\ Kept(waits)
        /\ \A l : Kept(lic(l))
        /\ \A o : Kept(settle(o))
        /\ \A pc \in Renewing : Kept(goto(pc))
    BY <1>0 DEF Proc, Renewing, Settling
  <1>2. Kept(ended) /\ Kept(threw) /\ Kept(revoke) /\ Kept(Idle)
    BY DEF Idle, Renewing
  <1> HIDE DEF rotated, stored, unsaved, lic, saved, failed, settle, goto, ended, threw,
               expect, rejected, waits, revoke, Kept
  <1>3. \/ To(p, rotated) \/ To(p, stored) \/ To(p, unsaved) \/ (\E l : To(p, lic(l)))
        \/ To(p, saved) \/ To(p, failed) \/ (\E o : To(p, settle(o)))
        \/ (\E pc \in Renewing : To(p, goto(pc))) \/ To(p, ended) \/ To(p, threw)
        \/ To(p, expect) \/ To(p, rejected) \/ To(p, waits) \/ To(p, revoke)
        \/ To(p, Idle)
    BY DEF AcquireLock, RenewalStep, Revoke, Reread, Expect, Send, Grant, GrantFails,
           CommitRotation, Exchange, CommitRefresh, Record, DropSession, Goto, Settle,
           Finish, Throw, Renewing, Settling, rotated, stored, unsaved, lic, saved, failed,
           settle, goto, ended, threw, expect, rejected, waits, revoke
  <1>4. \E r : To(p, r) /\ Kept(r)
    BY <1>1, <1>2, <1>3
  <1>5. Kept(proc'[p]) /\ \A q \in Process \ {p} : proc'[q] = proc[q]
    BY <1>4, ProcStep
  <1>6. QED
    BY <1>5 DEF Kept

-----------------------------------------------------------------------------
(* Single flight.                                                            *)

\* The lock passes on only when it is free, so nobody else is renewing.
LEMMA SingleFlightStep ==
  ASSUME TypeOK, SingleFlight, [Next]_vars
  PROVE  SingleFlight'
  <1> USE DEF SingleFlight
  <1>1. ASSUME NEW p \in Process, QuietStep(p)
        PROVE  SingleFlight'
    <2>1. Quiet \cap Renewing = {}
      BY DEF Quiet, Renewing, Settling
    <2>2. QED
      BY <1>1, <2>1, QuietSteps
  <1>2. ASSUME NEW p \in Process, AcquireLock(p)
        PROVE  SingleFlight'
    <2>1. renewLock = Free /\ renewLock' = p /\ \A q \in Process \ {p} : proc'[q] = proc[q]
      BY <1>2 DEF AcquireLock, RenewLock!Acquire, Goto, To, TypeOK
    <2>2. QED
      BY <2>1, LockAssumption
  <1>3. ASSUME NEW p \in Process, RenewalStep(p)
        PROVE  SingleFlight'
    <2>1. proc[p].pc \in Renewing /\ renewLock' = renewLock
      BY <1>3 DEF RenewalStep, Reread, Expect, Send, Grant, GrantFails, CommitRotation,
                  Exchange, CommitRefresh, Record, DropSession, At, Renewing, Settling
    <2>2. \A q \in Process \ {p} : proc'[q] = proc[q]
      BY <1>3, ProcStep
         DEF RenewalStep, Reread, Expect, Send, Grant, GrantFails, CommitRotation,
             Exchange, CommitRefresh, Record, DropSession, Goto, Settle, Finish, Throw
    <2>3. QED
      BY <2>1, <2>2
  <1>4. ASSUME NEW p \in Process, Revoke(p)
        PROVE  SingleFlight'
    <2>1. renewLock' = renewLock /\ \A q \in Process \ {p} : proc'[q] = proc[q]
      BY <1>4 DEF Revoke, Finish, To, TypeOK
    <2>2. renewLock # p => proc'[p] = Idle
      BY <1>4, ProcStep DEF Revoke
    <2>3. QED
      BY <2>1, <2>2 DEF Renewing, Settling, Idle
  <1>5. ASSUME NEW p \in Process, SigninApproved(p)
        PROVE  SingleFlight'
    <2>1. renewLock' = renewLock /\ \A q \in Process \ {p} : proc'[q] = proc[q]
      BY <1>5 DEF SigninApproved, Goto, To, TypeOK
    <2>2. proc'[p].pc \in {"fail", "commit"}
      <3>1. CASE Goto(p, "fail")
        BY <3>1 DEF Goto, To, TypeOK, Proc
      <3>2. ASSUME NEW c, NEW got,
                   To(p, [proc[p] EXCEPT !.pc = "commit", !.got = got,
                            !.license = [chain |-> c, n |-> 1]])
            PROVE  proc'[p].pc = "commit"
        BY <3>2 DEF To, TypeOK, Proc
      <3>3. QED
        BY <1>5, <3>1, <3>2 DEF SigninApproved
    <2>3. QED
      BY <2>1, <2>2 DEF Renewing, Settling
  <1>6. CASE proc' = proc /\ (renewLock' = renewLock \/ renewLock = Orphaned)
    BY <1>6, LockAssumption
  <1>7. QED
    BY <1>1, <1>2, <1>3, <1>4, <1>5, <1>6, StepKinds

-----------------------------------------------------------------------------
(* The session.                                                              *)

\* A chain never ceases to exist, and the intent it was approved for is fixed.
ApprovalsKept ==
  \A c \in Chain : broker[c].state # "none" =>
    broker'[c].state # "none" /\ broker'[c].intent = broker[c].intent

\* A step that creates no approval and moves no process to its commit keeps all approvals.
LEMMA ApprovalsKeptStep ==
  ASSUME TypeOK, [Next]_vars
  PROVE  ApprovalsKept
  <1> USE DEF ApprovalsKept
  <1>0. broker \in [Chain -> ChainState]
    BY DEF TypeOK
  <1>1. ASSUME NEW t, broker' = Rotated(t) \/ broker' = Rejected(t)
        PROVE  ApprovalsKept
    BY <1>0, <1>1 DEF Rotated, Rejected, ChainState
  <1>2. CASE \E p \in Process : Grant(p) \/ GrantFails(p)
    BY <1>1, <1>2 DEF Grant, GrantFails
  <1>3. ASSUME NEW p \in Process, Exchange(p)
        PROVE  ApprovalsKept
    BY <1>0, <1>3 DEF Exchange, ChainState
  <1>4. ASSUME NEW p \in Process, Revoke(p)
        PROVE  ApprovalsKept
    BY <1>0, <1>4 DEF Revoke, ChainState
  <1>5. ASSUME NEW p \in Process, SigninApproved(p)
        PROVE  ApprovalsKept
    BY <1>0, <1>5 DEF SigninApproved, ChainState
  <1>6. CASE GraceOver
    BY <1>0, <1>6 DEF GraceOver, ChainState
  <1>7. QED
    BY <1>2, <1>3, <1>4, <1>5, <1>6, BrokerFrame

\* Whatever a renewal carries along is taken from the session it is compared with.
LEMMA InHandStep ==
  ASSUME TypeOK, Shape, InHand, OneSignin, [Next]_vars
  PROVE  InHand'
  <1> USE DEF InHand
  <1>0. \A p \in Process : proc[p] \in Proc /\ Carries(proc[p]) /\ Shaped(proc[p])
    BY DEF TypeOK, Shape
  <1>1. ASSUME NEW p \in Process, NEW r, To(p, r), Carries(r)
        PROVE  InHand'
    BY <1>0, <1>1, ProcStep
  <1>2. ASSUME NEW r, r.pc \in Quiet \cup {"reread", "expect", "release"}
        PROVE  Carries(r)
    BY <1>2 DEF Carries, Quiet, Settling
  <1>3. Carries(Idle)
    BY <1>2 DEF Idle, Quiet
  <1>4. ASSUME NEW p \in Process, Finish(p) \/ Throw(p)
        PROVE  InHand'
    <2>1. [Idle EXCEPT !.pc = "release"].pc = "release"
          /\ [Idle EXCEPT !.pc = "release", !.outcome = "threw"].pc = "release"
      BY DEF Idle
    <2>2. QED
      BY <1>1, <1>2, <1>4, <2>1 DEF Finish, Throw
  <1>5. ASSUME NEW p \in Process, NEW pc, Goto(p, pc), Carries([proc[p] EXCEPT !.pc = pc])
        PROVE  InHand'
    BY <1>1, <1>5 DEF Goto
  <1>6. ASSUME NEW p \in Process, NEW o, Settle(p, o), proc[p].pc \in Settling
        PROVE  InHand'
    <2> DEFINE r == [proc[p] EXCEPT !.pc = "record", !.outcome = o]
    <2>1. r.pc = "record" /\ r.exp = proc[p].exp
      BY <1>0 DEF Proc
    <2>2. Carries(r)
      BY <1>0, <1>6, <2>1 DEF Carries, Settling
    <2> HIDE DEF r
    <2>3. To(p, r)
      BY <1>6 DEF Settle, r
    <2>4. QED
      BY <1>1, <2>2, <2>3
  <1>7. ASSUME NEW p \in Process, QuietStep(p)
        PROVE  InHand'
    BY <1>0, <1>2, <1>7, QuietSteps
  <1>8. ASSUME NEW p \in Process, AcquireLock(p)
        PROVE  InHand'
    BY <1>0, <1>2, <1>5, <1>8 DEF AcquireLock, Proc
  <1>9. ASSUME NEW p \in Process, Reread(p)
        PROVE  InHand'
    BY <1>0, <1>2, <1>4, <1>5, <1>9 DEF Reread, Proc
  <1>10. ASSUME NEW p \in Process, Expect(p)
         PROVE  InHand'
    <2> DEFINE r1 == [proc[p] EXCEPT !.pc = "send", !.exp = session]
               r2 == [proc[p] EXCEPT !.pc = "record", !.exp = session,
                                     !.outcome = "rejected"]
    <2>1. r1.pc = "send" /\ r1.exp = session /\ r2.pc = "record" /\ r2.exp = session
      BY <1>0 DEF Proc
    <2>2. SignedIn(session) => Carries(r2) /\ (session.refresh # None => Carries(r1))
      BY <2>1 DEF SignedIn, Carries, Settling, OneSignin
    <2>3. \/ Finish(p) \/ (SignedIn(session) /\ session.refresh # None /\ To(p, r1))
          \/ (SignedIn(session) /\ To(p, r2))
      BY <1>10 DEF Expect
    <2> HIDE DEF r1, r2
    <2>4. QED
      BY <1>1, <1>4, <2>2, <2>3
  <1>11. ASSUME NEW p \in Process, Send(p)
         PROVE  InHand'
    <2> DEFINE r == [proc[p] EXCEPT !.pc = "waiting", !.sent = session.refresh]
    <2>1. r.pc = "waiting" /\ r.sent = session.refresh /\ r.exp = proc[p].exp
      BY <1>0 DEF Proc
    <2>2. Matches(proc[p].exp) => Carries(r)
      BY <1>0, <1>11, <2>1 DEF Send, At, Matches, Carries, Settling
    <2>3. Finish(p) \/ (Matches(proc[p].exp) /\ To(p, r))
      BY <1>11 DEF Send
    <2> HIDE DEF r
    <2>4. QED
      BY <1>1, <1>4, <2>2, <2>3
  <1>12. ASSUME NEW p \in Process, Grant(p)
         PROVE  InHand'
    <2> DEFINE r1 == [proc[p] EXCEPT !.pc = "rotate", !.got = NextOf(proc[p].sent)]
               r2 == [proc[p] EXCEPT !.pc = "exchange"]
    <2>1. proc[p].pc = "waiting" /\ proc[p].sent \in Token
      BY <1>0, <1>12 DEF Grant, At, Shaped, Proc, Maybe
    <2>2. /\ r1.pc = "rotate" /\ r1.got = NextOf(proc[p].sent)
          /\ r1.exp = proc[p].exp /\ r1.sent = proc[p].sent
          /\ r2.pc = "exchange" /\ r2.exp = proc[p].exp
      BY <1>0 DEF Proc
    <2>3. NextOf(proc[p].sent).chain = proc[p].sent.chain
      BY <2>1 DEF NextOf, Token
    <2>4. Carries(r1) /\ Carries(r2)
      BY <1>0, <2>1, <2>2, <2>3 DEF Carries, Settling
    <2>5. To(p, r1) \/ To(p, r2) \/ Settle(p, "rejected")
      BY <1>12 DEF Grant, Goto
    <2> HIDE DEF r1, r2
    <2>6. QED
      BY <1>1, <1>6, <2>1, <2>4, <2>5 DEF Settling
  <1>13. ASSUME NEW p \in Process, GrantFails(p)
         PROVE  InHand'
    BY <1>6, <1>13 DEF GrantFails, At, Settling
  <1>14. ASSUME NEW p \in Process, CommitRotation(p)
         PROVE  InHand'
    <2> DEFINE r1 == [proc[p] EXCEPT !.pc = "exchange", !.exp.refresh = proc[p].got,
                                     !.got = None]
               r2 == [proc[p] EXCEPT !.pc = "record", !.outcome = "transient", !.got = None]
    <2>1. /\ r1.pc = "exchange" /\ r1.exp.refresh = proc[p].got
          /\ r1.exp.license = proc[p].exp.license /\ r1.exp.signedOut = proc[p].exp.signedOut
          /\ r2.pc = "record" /\ r2.exp = proc[p].exp
      BY <1>0 DEF Proc, Session
    <2>2. Carries(r1) /\ Carries(r2)
      BY <1>0, <1>14, <2>1 DEF CommitRotation, At, Carries, Settling
    <2>3. To(p, r1) \/ To(p, r2) \/ Finish(p)
      BY <1>14 DEF CommitRotation
    <2> HIDE DEF r1, r2
    <2>4. QED
      BY <1>1, <1>4, <2>2, <2>3
  <1>15. ASSUME NEW p \in Process, Exchange(p)
         PROVE  InHand'
    <2> DEFINE c == proc[p].exp.refresh.chain
               l == [chain |-> c, n |-> broker[c].licenses + 1]
               r1 == [proc[p] EXCEPT !.pc = "refresh", !.license = l]
               r2 == [proc[p] EXCEPT !.pc = "drop"]
    <2>1. l # None /\ l.chain = c
      <3>1. c \in Chain /\ broker[c].licenses + 1 \in Nat
        BY <1>0, <1>15 DEF Exchange, At, Shaped, Settling, Proc, Session, Maybe, Token,
                            TypeOK, ChainState
      <3>2. l \in Token
        BY <3>1 DEF Token
      <3>3. QED
        BY <3>2, NoneAssumption
    <2>2. /\ r1.pc = "refresh" /\ r1.exp = proc[p].exp /\ r1.license = l
          /\ r2.pc = "drop" /\ r2.exp = proc[p].exp
      BY <1>0 DEF Proc
    <2>3. proc[p].pc = "exchange"
      BY <1>15 DEF Exchange, At
    <2>4. To(p, r1) \/ To(p, r2) \/ Settle(p, "transient")
      BY <1>15 DEF Exchange, Goto
    <2> HIDE DEF l
    <2>5. Carries(r1) /\ Carries(r2)
      BY <1>0, <2>1, <2>2, <2>3 DEF Carries, Settling
    <2> HIDE DEF r1, r2
    <2>6. QED
      BY <1>1, <1>6, <2>3, <2>4, <2>5 DEF Settling
  <1>16. ASSUME NEW p \in Process, CommitRefresh(p)
         PROVE  InHand'
    <2> DEFINE r1 == [proc[p] EXCEPT !.pc = "record", !.outcome = "rotated",
                                     !.exp.license = proc[p].license]
               r2 == [proc[p] EXCEPT !.pc = "record", !.outcome = "transient",
                                     !.exp.refresh = proc[p].sent]
    <2>1. /\ r1.pc = "record" /\ r1.exp.license = proc[p].license
          /\ r1.exp.signedOut = proc[p].exp.signedOut
          /\ r2.pc = "record" /\ r2.exp.license = proc[p].exp.license
          /\ r2.exp.signedOut = proc[p].exp.signedOut
      BY <1>0 DEF Proc, Session
    <2>2. Carries(r1) /\ Carries(r2)
      BY <1>0, <1>16, <2>1 DEF CommitRefresh, At, Carries, Settling
    <2>3. To(p, r1) \/ To(p, r2) \/ Finish(p)
      BY <1>16 DEF CommitRefresh
    <2> HIDE DEF r1, r2
    <2>4. QED
      BY <1>1, <1>4, <2>2, <2>3
  <1>17. ASSUME NEW p \in Process, Record(p)
         PROVE  InHand'
    BY <1>4, <1>17 DEF Record
  <1>18. ASSUME NEW p \in Process, DropSession(p)
         PROVE  InHand'
    <2> DEFINE r == [Idle EXCEPT !.pc = "revoke", !.got = proc[p].exp.refresh,
                                 !.sent = proc[p].exp.refresh]
    <2>1. r.pc = "revoke"
      BY DEF Idle
    <2>2. To(p, r) \/ Finish(p) \/ Throw(p)
      BY <1>18 DEF DropSession
    <2> HIDE DEF r
    <2>3. QED
      BY <1>1, <1>2, <1>4, <2>1, <2>2 DEF Quiet
  <1>19. ASSUME NEW p \in Process, Revoke(p)
         PROVE  InHand'
    BY <1>1, <1>3, <1>4, <1>19 DEF Revoke
  <1>20. ASSUME NEW p \in Process, SigninApproved(p)
         PROVE  InHand'
    <2>1. CASE Goto(p, "fail")
      BY <1>0, <1>2, <1>5, <2>1 DEF Quiet, Proc
    <2>2. ASSUME NEW c \in Chain, NEW got \in {None, [chain |-> c, n |-> 1]},
                 To(p, [proc[p] EXCEPT !.pc = "commit", !.got = got,
                          !.license = [chain |-> c, n |-> 1]])
          PROVE  InHand'
      <3> DEFINE l == [chain |-> c, n |-> 1]
                 r == [proc[p] EXCEPT !.pc = "commit", !.got = got, !.license = l]
      <3>1. l # None
        BY NoneAssumption DEF Token
      <3>2. r.pc = "commit" /\ r.got = got /\ r.license = l
        BY <1>0 DEF Proc
      <3> HIDE DEF l
      <3>3. Carries(r)
        BY <2>2, <3>1, <3>2 DEF Carries, Settling, l
      <3>4. To(p, r)
        BY <2>2 DEF l
      <3> HIDE DEF r
      <3>5. QED
        BY <1>1, <3>3, <3>4
    <2>3. QED
      BY <1>20, <2>1, <2>2 DEF SigninApproved
  <1>21. CASE proc' = proc
    BY <1>0, <1>21
  <1>22. QED
    BY <1>7, <1>8, <1>9, <1>10, <1>11, <1>12, <1>13, <1>14, <1>15, <1>16, <1>17, <1>18,
       <1>19, <1>20, <1>21, StepKinds DEF RenewalStep

\* Tokens are stored and carried along only once their chain exists.
LEMMA TokensExistStep ==
  ASSUME TypeOK, Shape, InHand, TokensExist, [Next]_vars
  PROVE  TokensExist'
  <1> DEFINE Ok(t) == t # None => broker'[t.chain].state # "none"
             Fine(r) == Ok(r.exp.refresh) /\ Ok(r.sent) /\ (r.pc = "commit" => Ok(r.license))
  <1>0. /\ session \in Session
        /\ \A p \in Process : proc[p] \in Proc /\ Carries(proc[p]) /\ Shaped(proc[p])
                              /\ proc[p].exp \in Session
    BY DEF TypeOK, Shape, InHand, Proc
  <1>1. ASSUME NEW t \in Maybe(Token), Exists(t)
        PROVE  Ok(t)
    BY <1>1, ApprovalsKeptStep DEF ApprovalsKept, Exists, Maybe, Token
  <1>2. \A p \in Process : Fine(proc[p])
    BY <1>0, <1>1 DEF TokensExist, Proc, Session
  <1>3. Ok(session.license) /\ Ok(session.refresh) /\ Ok(None)
    BY <1>0, <1>1 DEF TokensExist, Session
  <1>4. ASSUME NEW p \in Process, proc[p].pc \in {"waiting", "rotate"}, NEW t,
               t.chain = proc[p].sent.chain
        PROVE  Ok(t)
    BY <1>0, <1>2, <1>4 DEF Shaped
  <1>5. ASSUME NEW p \in Process, proc[p].pc \in Settling, NEW t,
               t.chain = proc[p].exp.refresh.chain
        PROVE  Ok(t)
    BY <1>0, <1>2, <1>5 DEF Shaped
  <1>6. ASSUME NEW p \in Process, proc[p].pc = "commit"
        PROVE  Ok(proc[p].license) /\ Ok(proc[p].got)
    BY <1>0, <1>2, <1>6 DEF Carries
  <1> HIDE DEF Ok
  <1>7. Ok(session'.license) /\ Ok(session'.refresh)
    <2> DEFINE Result == Ok(session'.license) /\ Ok(session'.refresh)
    <2>1. ASSUME session'.license \in {session.license, None},
                 session'.refresh \in {session.refresh, None}
          PROVE  Result
      BY <1>3, <2>1
    <2>2. ASSUME NEW p \in Process, CommitRotation(p)
          PROVE  Result
      <3>1. proc[p].pc = "rotate" /\ Ok(proc[p].got)
        BY <1>0, <1>4, <2>2 DEF CommitRotation, At, Carries
      <3>2. session' = session \/ session' = [session EXCEPT !.refresh = proc[p].got]
        BY <2>2 DEF CommitRotation
      <3>3. QED
        BY <1>0, <1>3, <3>1, <3>2 DEF Session
    <2>3. ASSUME NEW p \in Process, CommitRefresh(p)
          PROVE  Result
      <3>1. proc[p].pc = "refresh" /\ Ok(proc[p].license)
        BY <1>0, <1>5, <2>3 DEF CommitRefresh, At, Carries, Settling
      <3>2. session' = session \/ session' = [session EXCEPT !.license = proc[p].license]
        BY <2>3 DEF CommitRefresh
      <3>3. QED
        BY <1>0, <1>3, <3>1, <3>2 DEF Session
    <2>4. ASSUME NEW p \in Process, DropSession(p) \/ Signout(p)
          PROVE  Result
      BY <2>1, <2>4 DEF DropSession, Signout, NoSession, Store
    <2>5. ASSUME NEW p \in Process, SigninEngage(p)
          PROVE  Result
      BY <1>0, <2>1, <2>5 DEF SigninEngage, Session
    <2>6. ASSUME NEW p \in Process, SigninCommit(p)
          PROVE  Result
      <3>1. \/ session' = session
            \/ session'.license = proc[p].license /\ session'.refresh = proc[p].got
        <4> DEFINE n == session.generation + 1
                   out == IF Codex THEN session.signedOut ELSE FALSE
        <4>1. \/ session' = session
              \/ session' = [license |-> proc[p].license, refresh |-> proc[p].got,
                             generation |-> n, signedOut |-> out]
          BY <2>6 DEF SigninCommit, Store
        <4> HIDE DEF n, out
        <4>2. QED
          BY <4>1
      <3>2. proc[p].pc = "commit"
        BY <2>6 DEF SigninCommit, At
      <3>3. QED
        BY <1>3, <1>6, <3>1, <3>2
    <2>7. QED
      BY <2>1, <2>2, <2>3, <2>4, <2>5, <2>6, SessionFrame
  <1>8. ASSUME NEW p \in Process
        PROVE  Fine(proc'[p])
    <2>1. Fine(Idle)
      BY <1>3 DEF Idle, NoSession
    <2>2. ASSUME NEW r, NEW pc \in PC \ {"commit"}, r = [proc[p] EXCEPT !.pc = pc]
          PROVE  Fine(r)
      BY <1>0, <1>2, <2>2 DEF Proc
    <2>3. ASSUME NEW q \in Process, \E r : To(q, r) /\ (q = p => Fine(r))
          PROVE  Fine(proc'[p])
      BY <1>2, <2>3, ProcStep
    <2>4. ASSUME NEW q \in Process, QuietStep(q)
          PROVE  Fine(proc'[p])
      <3>1. /\ proc'[q].pc # "commit"
            /\ proc'[q].exp.refresh \in {None, proc[q].exp.refresh}
            /\ proc'[q].sent \in {None, proc[q].sent, session.refresh}
            /\ \A o \in Process \ {q} : proc'[o] = proc[o]
        BY <2>4, QuietSteps DEF Quiet
      <3>2. QED
        BY <1>2, <1>3, <3>1
    <2>5. ASSUME NEW q \in Process, Finish(q) \/ Throw(q)
          PROVE  Fine(proc'[p])
      <3> DEFINE r1 == [Idle EXCEPT !.pc = "release"]
                 r2 == [Idle EXCEPT !.pc = "release", !.outcome = "threw"]
      <3>1. Fine(r1) /\ Fine(r2)
        BY <1>3 DEF Idle, NoSession
      <3>2. To(q, r1) \/ To(q, r2)
        BY <2>5 DEF Finish, Throw
      <3> HIDE DEF r1, r2, Fine
      <3>3. QED
        BY <2>3, <3>1, <3>2
    <2>6. ASSUME NEW q \in Process, NEW pc \in PC \ {"commit"}, Goto(q, pc)
          PROVE  Fine(proc'[p])
      <3> HIDE DEF Fine
      <3>1. QED
        BY <2>2, <2>3, <2>6 DEF Goto
    <2>7. ASSUME NEW q \in Process, NEW o, Settle(q, o)
          PROVE  Fine(proc'[p])
      <3> DEFINE r == [proc[q] EXCEPT !.pc = "record", !.outcome = o]
      <3>1. Fine(r)
        BY <1>0, <1>2 DEF Proc
      <3> HIDE DEF r, Fine
      <3>2. To(q, r)
        BY <2>7 DEF Settle, r
      <3>3. QED
        BY <2>3, <3>1, <3>2
    <2>8. ASSUME NEW q \in Process, AcquireLock(q) \/ Reread(q)
          PROVE  Fine(proc'[p])
      BY <2>5, <2>6, <2>8 DEF AcquireLock, Reread, PC
    <2>9. ASSUME NEW q \in Process, Expect(q)
          PROVE  Fine(proc'[p])
      <3> DEFINE r1 == [proc[q] EXCEPT !.pc = "send", !.exp = session]
                 r2 == [proc[q] EXCEPT !.pc = "record", !.exp = session,
                                       !.outcome = "rejected"]
      <3>1. Fine(r1) /\ Fine(r2)
        BY <1>0, <1>2, <1>3 DEF Proc
      <3>2. To(q, r1) \/ To(q, r2) \/ Finish(q)
        BY <2>9 DEF Expect
      <3> HIDE DEF r1, r2, Fine
      <3>3. QED
        BY <2>3, <2>5, <3>1, <3>2
    <2>10. ASSUME NEW q \in Process, Send(q)
           PROVE  Fine(proc'[p])
      <3> DEFINE r == [proc[q] EXCEPT !.pc = "waiting", !.sent = session.refresh]
      <3>1. Fine(r)
        BY <1>0, <1>2, <1>3 DEF Proc
      <3>2. To(q, r) \/ Finish(q)
        BY <2>10 DEF Send
      <3> HIDE DEF r, Fine
      <3>3. QED
        BY <2>3, <2>5, <3>1, <3>2
    <2>11. ASSUME NEW q \in Process, Grant(q) \/ GrantFails(q)
           PROVE  Fine(proc'[p])
      <3> DEFINE r == [proc[q] EXCEPT !.pc = "rotate", !.got = NextOf(proc[q].sent)]
      <3>1. Fine(r)
        BY <1>0, <1>2 DEF Proc
      <3>2. To(q, r) \/ Goto(q, "exchange") \/ Settle(q, "rejected") \/ Settle(q, "transient")
        BY <2>11 DEF Grant, GrantFails
      <3> HIDE DEF r, Fine
      <3>3. QED
        BY <2>3, <2>6, <2>7, <3>1, <3>2 DEF PC
    <2>12. ASSUME NEW q \in Process, CommitRotation(q)
           PROVE  Fine(proc'[p])
      <3> DEFINE r1 == [proc[q] EXCEPT !.pc = "exchange", !.exp.refresh = proc[q].got,
                                       !.got = None]
                 r2 == [proc[q] EXCEPT !.pc = "record", !.outcome = "transient", !.got = None]
      <3>1. Ok(proc[q].got)
        BY <1>0, <1>4, <2>12 DEF CommitRotation, At, Carries
      <3>2. Fine(r1) /\ Fine(r2)
        BY <1>0, <1>2, <3>1 DEF Proc, Session
      <3>3. To(q, r1) \/ To(q, r2) \/ Finish(q)
        BY <2>12 DEF CommitRotation
      <3> HIDE DEF r1, r2, Fine
      <3>4. QED
        BY <2>3, <2>5, <3>2, <3>3
    <2>13. ASSUME NEW q \in Process, Exchange(q)
           PROVE  Fine(proc'[p])
      <3> DEFINE c == proc[q].exp.refresh.chain
                 r == [proc[q] EXCEPT !.pc = "refresh",
                         !.license = [chain |-> c, n |-> broker[c].licenses + 1]]
      <3>1. Fine(r)
        BY <1>0, <1>2 DEF Proc
      <3>2. To(q, r) \/ Goto(q, "drop") \/ Settle(q, "transient")
        BY <2>13 DEF Exchange
      <3> HIDE DEF r, Fine
      <3>3. QED
        BY <2>3, <2>6, <2>7, <3>1, <3>2 DEF PC
    <2>14. ASSUME NEW q \in Process, CommitRefresh(q)
           PROVE  Fine(proc'[p])
      <3> DEFINE r1 == [proc[q] EXCEPT !.pc = "record", !.outcome = "rotated",
                                       !.exp.license = proc[q].license]
                 r2 == [proc[q] EXCEPT !.pc = "record", !.outcome = "transient",
                                       !.exp.refresh = proc[q].sent]
      <3>1. Fine(r1) /\ Fine(r2)
        BY <1>0, <1>2 DEF Proc, Session
      <3>2. To(q, r1) \/ To(q, r2) \/ Finish(q)
        BY <2>14 DEF CommitRefresh
      <3> HIDE DEF r1, r2, Fine
      <3>3. QED
        BY <2>3, <2>5, <3>1, <3>2
    <2>15. ASSUME NEW q \in Process, Record(q)
           PROVE  Fine(proc'[p])
      BY <2>5, <2>15 DEF Record
    <2>16. ASSUME NEW q \in Process, DropSession(q)
           PROVE  Fine(proc'[p])
      <3> DEFINE r == [Idle EXCEPT !.pc = "revoke", !.got = proc[q].exp.refresh,
                                   !.sent = proc[q].exp.refresh]
      <3>1. Fine(r)
        BY <1>2, <1>3 DEF Idle, NoSession
      <3>2. To(q, r) \/ Finish(q) \/ Throw(q)
        BY <2>16 DEF DropSession
      <3> HIDE DEF r, Fine
      <3>3. QED
        BY <2>3, <2>5, <3>1, <3>2
    <2>17. ASSUME NEW q \in Process, Revoke(q)
           PROVE  Fine(proc'[p])
      <3> HIDE DEF Fine
      <3>1. QED
        BY <2>1, <2>3, <2>5, <2>17 DEF Revoke
    <2>18. ASSUME NEW q \in Process, SigninApproved(q)
           PROVE  Fine(proc'[p])
      <3>1. ASSUME NEW c \in Chain, NEW got, NEW l, l = [chain |-> c, n |-> 1],
                   broker'[c].state = "live",
                   To(q, [proc[q] EXCEPT !.pc = "commit", !.got = got, !.license = l])
            PROVE  Fine(proc'[p])
        <4> DEFINE r == [proc[q] EXCEPT !.pc = "commit", !.got = got, !.license = l]
        <4>1. Ok(l)
          BY <3>1 DEF Ok
        <4>2. Fine(r)
          BY <1>0, <1>2, <4>1 DEF Proc
        <4> HIDE DEF r, Fine
        <4>3. To(q, r)
          BY <3>1 DEF r
        <4>4. QED
          BY <2>3, <4>2, <4>3
      <3>2. ASSUME NEW c \in Chain, NEW got \in {None, [chain |-> c, n |-> 1]},
                   broker' = [broker EXCEPT ![c].state = "live", ![c].intent = proc[q].intent,
                                ![c].issued = 1, ![c].licenses = 1],
                   To(q, [proc[q] EXCEPT !.pc = "commit", !.got = got,
                            !.license = [chain |-> c, n |-> 1]])
            PROVE  Fine(proc'[p])
        <4>1. broker'[c].state = "live"
          BY <3>2 DEF TypeOK, ChainState
        <4> HIDE DEF Fine
        <4>2. QED
          BY <3>1, <3>2, <4>1
      <3> HIDE DEF Fine
      <3>3. QED
        BY <2>6, <2>18, <3>2 DEF SigninApproved, PC
    <2>19. CASE proc' = proc
      BY <1>2, <2>19
    <2>20. QED
      BY <2>4, <2>8, <2>9, <2>10, <2>11, <2>12, <2>13, <2>14, <2>15, <2>16, <2>17, <2>18,
         <2>19, StepKinds DEF RenewalStep
  <1>9. QED
    BY <1>7, <1>8 DEF TokensExist, Exists, Ok

\* What an approval does, and what it does not do.
LEMMA ApprovalSteps ==
  ASSUME TypeOK, NEW p \in Process, SigninApproved(p)
  PROVE  /\ proc[p].pc = "poll" /\ proc'[p].intent = proc[p].intent
         /\ \A q \in Process \ {p} : proc'[q] = proc[q]
         /\ \/ proc'[p].pc = "fail"
            \/ \E c \in Chain :
                 /\ proc'[p].pc = "commit" /\ proc'[p].license = [chain |-> c, n |-> 1]
                 /\ proc'[p].got \in {None, [chain |-> c, n |-> 1]}
                 /\ proc'[p].exp = proc[p].exp /\ proc'[p].sent = proc[p].sent
                 /\ broker[c].state = "none" /\ broker'[c].state = "live"
                 /\ broker'[c].intent = proc[p].intent /\ broker'[c].spent = broker[c].spent
                 /\ broker'[c].issued = 1
                 /\ \A d \in Chain \ {c} : broker'[d] = broker[d]
  <1>0. proc[p] \in Proc /\ proc[p].pc = "poll"
    BY DEF TypeOK, SigninApproved, At
  <1>1. CASE Goto(p, "fail")
    BY <1>0, <1>1, ProcStep DEF Goto, Proc
  <1>2. ASSUME NEW c \in Chain, broker[c].state = "none",
               broker' = [broker EXCEPT ![c].state = "live", ![c].intent = proc[p].intent,
                            ![c].issued = 1, ![c].licenses = 1],
               NEW got \in {None, [chain |-> c, n |-> 1]},
               To(p, [proc[p] EXCEPT !.pc = "commit", !.got = got,
                        !.license = [chain |-> c, n |-> 1]])
        PROVE  /\ proc'[p].intent = proc[p].intent
               /\ \A q \in Process \ {p} : proc'[q] = proc[q]
               /\ proc'[p].pc = "commit" /\ proc'[p].license = [chain |-> c, n |-> 1]
               /\ proc'[p].got \in {None, [chain |-> c, n |-> 1]}
               /\ proc'[p].exp = proc[p].exp /\ proc'[p].sent = proc[p].sent
               /\ broker'[c].state = "live"
               /\ broker'[c].intent = proc[p].intent /\ broker'[c].spent = broker[c].spent
               /\ broker'[c].issued = 1
               /\ \A d \in Chain \ {c} : broker'[d] = broker[d]
    <2> DEFINE l == [chain |-> c, n |-> 1]
               r == [proc[p] EXCEPT !.pc = "commit", !.got = got, !.license = l]
    <2> HIDE DEF l
    <2>1. /\ r.intent = proc[p].intent /\ r.pc = "commit" /\ r.license = l /\ r.got = got
          /\ r.exp = proc[p].exp /\ r.sent = proc[p].sent
      BY <1>0 DEF Proc
    <2>2. To(p, r)
      BY <1>2 DEF l
    <2> HIDE DEF r
    <2>3. proc'[p] = r /\ \A q \in Process \ {p} : proc'[q] = proc[q]
      BY <2>2, ProcStep
    <2>4. /\ broker'[c].state = "live" /\ broker'[c].intent = proc[p].intent
          /\ broker'[c].spent = broker[c].spent /\ broker'[c].issued = 1
          /\ \A d \in Chain \ {c} : broker'[d] = broker[d]
      BY <1>2 DEF TypeOK, ChainState
    <2>5. QED
      BY <1>2, <2>1, <2>3, <2>4 DEF l
  <1>3. QED
    <2>1. \/ Goto(p, "fail")
          \/ \E c \in Chain :
               /\ broker[c].state = "none"
               /\ broker' = [broker EXCEPT ![c].state = "live", ![c].intent = proc[p].intent,
                               ![c].issued = 1, ![c].licenses = 1]
               /\ \E got \in {None, [chain |-> c, n |-> 1]} :
                    To(p, [proc[p] EXCEPT !.pc = "commit", !.got = got,
                             !.license = [chain |-> c, n |-> 1]])
      BY DEF SigninApproved
    <2>2. QED
      BY <1>0, <1>1, <1>2, <2>1

\* An approval belongs to the attempt that polls for it.
LEMMA OwnApprovalStep ==
  ASSUME TypeOK, TokensExist, InHand, OwnApproval, [Next]_vars
  PROVE  OwnApproval'
  <1> DEFINE Own(r) == r.pc = "commit" => broker'[r.license.chain].intent = r.intent
  <1>0. \A p \in Process : proc[p] \in Proc
    BY DEF TypeOK
  <1>1. \A p \in Process : Own(proc[p])
    BY <1>0, ApprovalsKeptStep DEF ApprovalsKept, OwnApproval, TokensExist, Exists, InHand,
                                   Carries, Proc, Maybe, Token
  <1>2. ASSUME NEW p \in Process, NEW q \in Process, QuietStep(q)
        PROVE  Own(proc'[p])
    BY <1>1, <1>2, QuietSteps DEF Quiet
  <1>3. ASSUME NEW p \in Process, NEW q \in Process,
               AcquireLock(q) \/ RenewalStep(q) \/ Revoke(q)
        PROVE  Own(proc'[p])
    BY <1>1, <1>3, RenewalSteps DEF Renewing, Settling
  <1>4. ASSUME NEW p \in Process, NEW q \in Process, SigninApproved(q)
        PROVE  Own(proc'[p])
    <2>1. \A o \in Process \ {q} : proc'[o] = proc[o]
      BY <1>4, ApprovalSteps
    <2>2. proc'[q].intent = proc[q].intent
          /\ (proc'[q].pc = "fail" \/ \E c \in Chain : proc'[q].license.chain = c
                                            /\ broker'[c].intent = proc[q].intent)
      <3>1. CASE proc'[q].pc = "fail"
        BY <1>4, <3>1, ApprovalSteps
      <3>2. CASE proc'[q].pc # "fail"
        <4>1. PICK c \in Chain : proc'[q].license = [chain |-> c, n |-> 1]
                                 /\ broker'[c].intent = proc[q].intent
          BY <1>4, <3>2, ApprovalSteps
        <4>2. proc'[q].license.chain = c
          BY <4>1
        <4>3. proc'[q].intent = proc[q].intent
          BY <1>4, ApprovalSteps
        <4>4. QED
          BY <4>1, <4>2, <4>3
      <3>3. QED
        BY <3>1, <3>2
    <2>3. Own(proc'[q])
      BY <2>2
    <2>4. QED
      BY <1>1, <2>1, <2>3
  <1> HIDE DEF Own
  <1>5. \A p \in Process : Own(proc'[p])
    <2>1. CASE proc' = proc
      BY <1>1, <2>1
    <2>2. QED
      BY <1>2, <1>3, <1>4, <2>1, StepKinds
  <1>6. QED
    BY <1>5 DEF OwnApproval, Own

\* The session stays that of one sign-in, the newest that took effect.
LEMMA SessionSafeStep ==
  ASSUME TypeOK, Shape, TokensExist, InHand, OwnApproval, SessionSafe, [Next]_vars
  PROVE  SessionSafe'
  <1> DEFINE Recent(t) == t # None => broker'[t.chain].intent >= newest'
             Safe == /\ session'.signedOut => session'.license = None /\ session'.refresh = None
                     /\ session'.license # None /\ session'.refresh # None =>
                          session'.license.chain = session'.refresh.chain
                     /\ Recent(session'.license)
                     /\ newest' <= session'.generation
  <1>0. /\ session \in Session /\ newest \in Nat /\ broker \in [Chain -> ChainState]
        /\ \A p \in Process : proc[p] \in Proc /\ Carries(proc[p]) /\ Shaped(proc[p])
                              /\ proc[p].exp \in Session
    BY DEF TypeOK, Shape, InHand, Proc
  <1>1. ASSUME newest' = newest
        PROVE  Recent(session.license)
    BY <1>0, <1>1, ApprovalsKeptStep
       DEF ApprovalsKept, SessionSafe, NoResurrection, TokensExist, Exists, Session, Maybe,
           Token
  <1>2. CASE session' = session /\ newest' = newest
    BY <1>1, <1>2 DEF SessionSafe, SignedOutHoldsNothing, OneSignin, NoResurrection
  <1>3. ASSUME NEW p \in Process, CommitRotation(p)
        PROVE  Safe
    <2>1. newest' = newest
      BY <1>3 DEF CommitRotation
    <2>2. CASE session' = session
      BY <1>1, <2>1, <2>2 DEF SessionSafe, SignedOutHoldsNothing, OneSignin
    <2>3. CASE Matches(proc[p].exp) /\ session' = [session EXCEPT !.refresh = proc[p].got]
      <3>1. /\ session = proc[p].exp /\ ~ session.signedOut
            /\ session'.license = session.license /\ session'.refresh = proc[p].got
            /\ session'.signedOut = session.signedOut
            /\ session'.generation = session.generation
        BY <1>0, <2>3 DEF Matches, Session
      <3>2. session.license.chain = proc[p].got.chain
        BY <1>0, <1>3, <3>1 DEF CommitRotation, At, Carries, Settling
      <3>3. QED
        BY <1>1, <2>1, <3>1, <3>2 DEF SessionSafe
    <2>4. QED
      BY <1>3, <2>2, <2>3 DEF CommitRotation
  <1>4. ASSUME NEW p \in Process, CommitRefresh(p)
        PROVE  Safe
    <2>1. newest' = newest
      BY <1>4 DEF CommitRefresh
    <2>2. CASE session' = session
      BY <1>1, <2>1, <2>2 DEF SessionSafe, SignedOutHoldsNothing, OneSignin
    <2>3. CASE Matches(proc[p].exp) /\ session' = [session EXCEPT !.license = proc[p].license]
      <3>1. /\ session = proc[p].exp /\ ~ session.signedOut
            /\ session'.refresh = session.refresh /\ session'.license = proc[p].license
            /\ session'.signedOut = session.signedOut
            /\ session'.generation = session.generation
        BY <1>0, <2>3 DEF Matches, Session
      <3>2. /\ session.license # None /\ session.license.chain = session.refresh.chain
            /\ session'.license.chain = session.license.chain
        BY <1>0, <1>4, <3>1 DEF CommitRefresh, At, Carries, Settling
      <3>3. QED
        BY <1>1, <2>1, <3>1, <3>2 DEF SessionSafe
    <2>4. QED
      BY <1>4, <2>2, <2>3 DEF CommitRefresh
  <1>5. ASSUME NEW p \in Process, DropSession(p) \/ Signout(p)
        PROVE  Safe
    <2>1. CASE session' = session /\ newest' = newest
      BY <1>1, <2>1 DEF SessionSafe, SignedOutHoldsNothing, OneSignin
    <2>2. CASE session'.license = None /\ session'.refresh = None
               /\ newest' = session'.generation /\ session'.generation = session.generation + 1
      BY <1>0, <2>2 DEF Session
    <2>3. QED
      BY <1>5, <2>1, <2>2 DEF DropSession, Signout, NoSession, Store
  <1>6. ASSUME NEW p \in Process, SigninEngage(p)
        PROVE  Safe
    <2>1. newest' = newest
      BY <1>6 DEF SigninEngage
    <2>2. /\ session'.license = session.license /\ session'.refresh = session.refresh
          /\ session'.generation \in {session.generation, session.generation + 1}
          /\ session'.signedOut => session.signedOut
      <3>1. CASE session' = session
        BY <3>1
      <3>2. CASE Codex
        BY <1>0, <1>6, <3>1, <3>2 DEF SigninEngage, Session
      <3>3. CASE ~ Codex
        BY <1>0, <1>6, <3>1, <3>3 DEF SigninEngage, Session
      <3>4. QED
        BY <3>2, <3>3
    <2>3. newest <= session.generation /\ session.generation \in Nat
      BY <1>0 DEF SessionSafe, Session
    <2>4. newest' <= session'.generation
      BY <1>0, <2>1, <2>2, <2>3
    <2>5. QED
      BY <1>1, <2>1, <2>2, <2>4 DEF SessionSafe, SignedOutHoldsNothing, OneSignin
  <1>7. ASSUME NEW p \in Process, SigninCommit(p)
        PROVE  Safe
    <2>1. CASE session' = session /\ newest' = newest
      BY <1>1, <2>1 DEF SessionSafe, SignedOutHoldsNothing, OneSignin
    <2>2. CASE session' # session \/ newest' # newest
      <3>1. /\ proc[p].intent = session.generation /\ proc[p].pc = "commit"
            /\ newest' = Later(newest, proc[p].intent) /\ broker' = broker
            /\ Codex => ~ session.signedOut
        BY <1>7, <2>2 DEF SigninCommit, Store, At
      <3>2. /\ session'.license = proc[p].license /\ session'.refresh = proc[p].got
            /\ session'.generation = session.generation + 1 /\ ~ session'.signedOut
        <4>1. CASE Codex
          BY <1>7, <2>2, <3>1, <4>1 DEF SigninCommit, Store
        <4>2. CASE ~ Codex
          BY <1>7, <2>2, <4>2 DEF SigninCommit, Store
        <4>3. QED
          BY <4>1, <4>2
      <3>3. newest <= session.generation /\ session.generation \in Nat
        BY <1>0 DEF SessionSafe, Session
      <3>4. newest' = proc[p].intent /\ newest' <= session'.generation
        BY <1>0, <3>1, <3>2, <3>3 DEF Later
      <3>5. broker'[proc[p].license.chain].intent = newest' /\ newest' \in Nat
        BY <3>1, <3>3, <3>4 DEF OwnApproval
      <3>6. Recent(session'.license)
        BY <3>2, <3>5
      <3>7. session'.refresh # None => session'.license.chain = session'.refresh.chain
        BY <1>0, <3>1, <3>2 DEF Carries
      <3>8. QED
        BY <3>2, <3>4, <3>6, <3>7
    <2>3. QED
      BY <2>1, <2>2
  <1>8. Safe => SessionSafe'
    BY DEF SessionSafe, SignedOutHoldsNothing, OneSignin, NoResurrection
  <1> HIDE DEF Safe
  <1>9. QED
    BY <1>2, <1>3, <1>4, <1>5, <1>6, <1>7, <1>8, SessionFrame

-----------------------------------------------------------------------------
(* The theorems about the session.                                           *)

\* The initial states satisfy the inductive invariant.
LEMMA SessionInit == Init => SessionInvariant
  <1> SUFFICES ASSUME Init PROVE SessionInvariant
    OBVIOUS
  <1>1. TypeOK /\ Shape
    BY TypeInit
  <1>2. \A p \in Process : proc[p] = Idle
    BY DEF Init
  <1>3. Idle.pc = "idle" /\ Idle.exp.refresh = None /\ Idle.sent = None
    BY DEF Idle, NoSession
  <1>4. SingleFlight /\ InHand /\ OwnApproval
    BY <1>2, <1>3 DEF SingleFlight, Renewing, InHand, Carries, OwnApproval, Settling
  <1>5. \/ session = NoSession
        \/ /\ session = [license |-> [chain |-> 1, n |-> 1], refresh |-> [chain |-> 1, n |-> 1],
                         generation |-> 1, signedOut |-> FALSE]
           /\ session # NoSession
    BY DEF Init
  <1>6. session # NoSession => broker[1].state = "live" /\ broker[1].intent = 0
    BY LimitsAssumption DEF Init, NoChain, Chain
  <1>7. /\ session.license # None => session # NoSession /\ session.license.chain = 1
        /\ session.refresh # None => session # NoSession /\ session.refresh.chain = 1
        /\ ~ session.signedOut /\ session.generation \in Nat
    BY <1>5 DEF NoSession
  <1>8. TokensExist
    BY <1>2, <1>3, <1>6, <1>7 DEF TokensExist, Exists
  <1>9. SessionSafe
    <2>1. newest = 0
      BY DEF Init
    <2>2. QED
      BY <1>6, <1>7, <2>1
         DEF SessionSafe, SignedOutHoldsNothing, OneSignin, NoResurrection
  <1>10. QED
    BY <1>1, <1>4, <1>8, <1>9 DEF SessionInvariant

\* Every step keeps the inductive invariant.
LEMMA SessionStep == SessionInvariant /\ [Next]_vars => SessionInvariant'
  <1> SUFFICES ASSUME SessionInvariant, [Next]_vars PROVE SessionInvariant'
    OBVIOUS
  <1> USE DEF SessionInvariant
  <1>1. TypeOK' /\ Shape'
    BY TypeStep
  <1>2. SingleFlight'
    BY SingleFlightStep
  <1>3. InHand'
    BY InHandStep DEF SessionSafe
  <1>4. TokensExist'
    BY TokensExistStep
  <1>5. OwnApproval'
    BY OwnApprovalStep
  <1>6. SessionSafe'
    BY SessionSafeStep
  <1>7. QED
    BY <1>1, <1>2, <1>3, <1>4, <1>5, <1>6

\* The inductive invariant: single flight, and everything a process is about to
\* store belongs to the session it will be compared with.
THEOREM SessionInvariantHolds == Spec => []SessionInvariant
  <1>1. QED
    BY SessionInit, SessionStep, PTL DEF Spec

\* Every variable keeps its type.
THEOREM TypeCorrect == Spec => []TypeOK
  <1>1. SessionInvariant => TypeOK
    BY DEF SessionInvariant
  <1>2. QED
    BY <1>1, SessionInvariantHolds, PTL

\* Signed out means nothing is held, and nothing comes back until a sign-in.
THEOREM SignOutIsKept == Spec => []SignedOutHoldsNothing
  <1>1. SessionInvariant => SignedOutHoldsNothing
    BY DEF SessionInvariant, SessionSafe
  <1>2. QED
    BY <1>1, SessionInvariantHolds, PTL

\* A renewal never mixes two sign-ins.
THEOREM SigninsNeverMix == Spec => []OneSignin
  <1>1. SessionInvariant => OneSignin
    BY DEF SessionInvariant, SessionSafe
  <1>2. QED
    BY <1>1, SessionInvariantHolds, PTL

\* A session that ended, or was replaced, never comes back.
THEOREM SessionsStayEnded == Spec => []NoResurrection
  <1>1. SessionInvariant => NoResurrection
    BY DEF SessionInvariant, SessionSafe
  <1>2. QED
    BY <1>1, SessionInvariantHolds, PTL

-----------------------------------------------------------------------------
(* The chain of refresh tokens.                                              *)

Spent(t)  == t.n \in broker[t.chain].spent
Issued(t) == t.n \in 1 .. broker[t.chain].issued

\* A process that holds tokens the session does not: a grant is under way, its answer is
\* about to be stored, or a sign-in is about to commit.
Using == {"waiting", "rotate"}
Hands == Using \cup {"commit"}

\* Only tokens that were issued are spent, kept or in use.
SpentIssued == \A c \in Chain : broker[c].spent \subseteq 1 .. broker[c].issued
HeldIssued ==
  /\ session.refresh # None => Issued(session.refresh)
  /\ \A p \in Process :
       /\ proc[p].pc \in Using => Issued(proc[p].sent)
       /\ proc[p].pc = "rotate" => Issued(proc[p].got)
       /\ proc[p].pc = "commit" /\ proc[p].got # None => Issued(proc[p].got)

\* A chain the broker does not know yet has no token spent.
NewUnspent == \A c \in Chain : broker[c].state = "none" => broker[c].spent = {}

\* A token is sent again only after its successor was lost, and what the broker answers
\* is not spent before it is stored.
SentOnce == \A p \in Process :
  proc[p].pc = "waiting" /\ Spent(proc[p].sent) => proc[p].sent \in lost
GotUnspent == \A p \in Process : proc[p].pc = "rotate" => ~ Spent(proc[p].got)

\* The chain of a sign-in that has not committed is in nobody else's hands.
Apart(p) ==
  LET c == proc[p].license.chain IN
    /\ broker[c].spent = {}
    /\ session.refresh # None => session.refresh.chain # c
    /\ \A q \in Process \ {p} : /\ proc[q].pc \in Using => proc[q].sent.chain # c
                                /\ proc[q].pc = "commit" => proc[q].license.chain # c
OwnChain == \A p \in Process : proc[p].pc = "commit" => Apart(p)

ChainInvariant ==
  SpentIssued /\ HeldIssued /\ NewUnspent /\ SentOnce /\ GotUnspent /\ OwnChain /\ ChainKept

\* The types the steps below need.
LEMMA HandsTyped ==
  ASSUME SessionInvariant
  PROVE  /\ session.refresh \in Maybe(Token)
         /\ \A c \in Chain : broker[c] \in ChainState
         /\ \A t \in Token : t.chain \in Chain /\ t.n \in Nat
         /\ \A p \in Process :
              /\ proc[p] \in Proc
              /\ proc[p].pc \in Using => proc[p].sent \in Token
              /\ proc[p].pc = "rotate" => proc[p].got \in Token
              /\ proc[p].pc = "commit" => proc[p].license \in Token /\ proc[p].got \in Maybe(Token)
  <1>1. ASSUME NEW p \in Process
        PROVE  /\ proc[p] \in Proc /\ Shaped(proc[p]) /\ Carries(proc[p])
               /\ proc[p].sent \in Maybe(Token) /\ proc[p].got \in Maybe(Token)
               /\ proc[p].license \in Maybe(Token)
    BY DEF SessionInvariant, TypeOK, Shape, InHand, Proc
  <1>2. ASSUME NEW p \in Process
        PROVE  /\ proc[p].pc \in Using => proc[p].sent \in Token
               /\ proc[p].pc = "rotate" => proc[p].got \in Token
               /\ proc[p].pc = "commit" => proc[p].license \in Token
    BY <1>1 DEF Shaped, Carries, Using, Maybe
  <1>3. session.refresh \in Maybe(Token) /\ \A c \in Chain : broker[c] \in ChainState
    BY DEF SessionInvariant, TypeOK, Session
  <1>4. QED
    BY <1>1, <1>2, <1>3 DEF Token

\* The broker spends and issues no token.
TokensStay ==
  \A c \in Chain : /\ broker'[c].spent = broker[c].spent
                   /\ broker'[c].issued = broker[c].issued
                   /\ broker'[c].state = "none" => broker[c].state = "none"
                   /\ broker'[c].state = "reused" =>
                        broker[c].state = "reused" \/ \E t \in lost' : t.chain = c

\* A step by which nothing comes into a process's hands, the session keeps or loses its
\* refresh token, and no token is spent or issued.
LEMMA HandsEmptied ==
  ASSUME SessionInvariant, SessionInvariant', ChainInvariant, NEW p \in Process,
         \A q \in Process \ {p} : proc'[q] = proc[q],
         proc'[p].pc \notin Hands,
         session'.refresh \in {None, session.refresh},
         lost \subseteq lost', proc[p].pc = "rotate" => proc[p].sent \in lost',
         TokensStay
  PROVE  ChainInvariant'
  <1> USE DEF ChainInvariant, Hands, Using, TokensStay
  <1>0. /\ \A t \in Token : Spent(t)' = Spent(t) /\ Issued(t)' = Issued(t)
        /\ session.refresh \in Maybe(Token)
        /\ \A q \in Process : /\ proc[q].pc \in Using => proc[q].sent \in Token
                              /\ proc[q].pc = "rotate" => proc[q].got \in Token
                              /\ proc[q].pc = "commit" => /\ proc[q].license.chain \in Chain
                                                          /\ proc[q].got \in Maybe(Token)
    BY HandsTyped DEF Spent, Issued
  <1>1. SpentIssued' /\ NewUnspent'
    BY DEF SpentIssued, NewUnspent
  <1>2. HeldIssued'
    BY <1>0 DEF HeldIssued, Maybe
  <1>3. SentOnce' /\ GotUnspent'
    BY <1>0 DEF SentOnce, GotUnspent
  <1>4. OwnChain'
    <2> SUFFICES ASSUME NEW q \in Process, proc'[q].pc = "commit"
                 PROVE  Apart(q)'
      BY DEF OwnChain
    <2>1. q # p /\ proc'[q] = proc[q] /\ Apart(q)
      BY DEF OwnChain
    <2>2. QED
      BY <1>0, <2>1 DEF Apart
  <1>5. ChainEndsOnlyByLoss'
    BY DEF ChainKept, ChainEndsOnlyByLoss
  <1>6. NotStranded'
    <2> SUFFICES ASSUME session'.refresh # None, Spent(session.refresh)'
                 PROVE  \/ session'.refresh \in lost'
                        \/ \E q \in Process : proc'[q].pc = "rotate" /\ proc'[q].sent = session'.refresh
      BY DEF NotStranded, Spent
    <2>1. session'.refresh = session.refresh /\ session.refresh \in Token /\ Spent(session.refresh)
      BY <1>0 DEF Maybe
    <2>2. \/ session.refresh \in lost
          \/ \E q \in Process : proc[q].pc = "rotate" /\ proc[q].sent = session.refresh
      BY <2>1 DEF ChainKept, NotStranded, Spent
    <2>3. QED
      BY <2>1, <2>2
  <1>7. QED
    BY <1>1, <1>2, <1>3, <1>4, <1>5, <1>6 DEF ChainKept

\* The same for a step that moves no process.
LEMMA HandsStill ==
  ASSUME SessionInvariant, SessionInvariant', ChainInvariant, proc' = proc,
         session'.refresh = session.refresh, lost' = lost, TokensStay
  PROVE  ChainInvariant'
  <1> USE DEF ChainInvariant, Hands, Using, TokensStay
  <1>0. /\ \A t \in Token : Spent(t)' = Spent(t) /\ Issued(t)' = Issued(t)
        /\ session.refresh \in Maybe(Token)
        /\ \A q \in Process : /\ proc[q].pc \in Using => proc[q].sent \in Token
                              /\ proc[q].pc = "rotate" => proc[q].got \in Token
                              /\ proc[q].pc = "commit" => /\ proc[q].license.chain \in Chain
                                                          /\ proc[q].got \in Maybe(Token)
    BY HandsTyped DEF Spent, Issued
  <1>1. SpentIssued' /\ NewUnspent'
    BY DEF SpentIssued, NewUnspent
  <1>2. HeldIssued'
    BY <1>0 DEF HeldIssued, Maybe
  <1>3. SentOnce' /\ GotUnspent'
    BY <1>0 DEF SentOnce, GotUnspent
  <1>4. OwnChain'
    BY <1>0 DEF OwnChain, Apart
  <1>5. ChainEndsOnlyByLoss' /\ NotStranded'
    BY <1>0 DEF ChainKept, ChainEndsOnlyByLoss, NotStranded, Spent, Maybe
  <1>6. QED
    BY <1>1, <1>2, <1>3, <1>4, <1>5 DEF ChainKept

\* What stays while the broker neither spends nor issues: a step that leaves it alone, a
\* refusal of a token that was lost, a license, a revocation, a grace period that ends.
LEMMA TokensStaySteps ==
  ASSUME SessionInvariant, ChainInvariant, lost \subseteq lost',
         \/ broker' = broker
         \/ \E p \in Process : /\ proc[p].pc = "waiting" /\ broker' = Rejected(proc[p].sent)
                               /\ ~ Accepts(proc[p].sent)
         \/ \E c \in Chain : broker' = [broker EXCEPT ![c].licenses = @ + 1]
         \/ \E c \in Chain : broker' = [broker EXCEPT ![c].state = "revoked"]
         \/ broker' = [c \in Chain |-> [broker[c] EXCEPT !.late = broker[c].spent]]
  PROVE  TokensStay
  <1>0. broker \in [Chain -> ChainState] /\ \A c \in Chain : broker[c] \in ChainState
    BY DEF SessionInvariant, TypeOK
  <1>1. CASE broker' = broker
    BY <1>1 DEF TokensStay
  <1>2. ASSUME NEW p \in Process, proc[p].pc = "waiting", ~ Accepts(proc[p].sent),
               broker' = Rejected(proc[p].sent)
        PROVE  TokensStay
    <2> DEFINE t == proc[p].sent
    <2>1. t \in Token /\ t.chain \in Chain
      BY <1>2, HandsTyped DEF Using
    <2>2. broker[t.chain].state = "live" => t \in lost'
      <3>1. broker[t.chain].state = "live" => Spent(t)
        BY <1>2, <2>1 DEF Accepts, Spent
      <3>2. Spent(t) => t \in lost
        BY <1>2 DEF ChainInvariant, SentOnce
      <3>3. QED
        BY <3>1, <3>2
    <2> HIDE DEF t
    <2>3. broker' = [broker EXCEPT ![t.chain].state = IF @ = "live" THEN "reused" ELSE @]
      BY <1>2 DEF Rejected, t
    <2>4. QED
      BY <1>0, <2>1, <2>2, <2>3 DEF TokensStay, ChainState
  <1>3. ASSUME NEW c \in Chain, broker' = [broker EXCEPT ![c].licenses = @ + 1]
        PROVE  TokensStay
    BY <1>0, <1>3 DEF TokensStay, ChainState
  <1>4. ASSUME NEW c \in Chain, broker' = [broker EXCEPT ![c].state = "revoked"]
        PROVE  TokensStay
    BY <1>0, <1>4 DEF TokensStay, ChainState
  <1>5. CASE broker' = [c \in Chain |-> [broker[c] EXCEPT !.late = broker[c].spent]]
    BY <1>0, <1>5 DEF TokensStay, ChainState
  <1>6. QED
    BY <1>1, <1>2, <1>3, <1>4, <1>5

\* What the broker knows after it accepted a token.
LEMMA Rotates ==
  ASSUME SessionInvariant, ChainInvariant, NEW p \in Process, proc[p].pc = "waiting",
         broker' = Rotated(proc[p].sent)
  PROVE  LET t == proc[p].sent
             c == t.chain
         IN  /\ t \in Token /\ c \in Chain
             /\ broker'[c].spent = broker[c].spent \cup {t.n}
             /\ broker'[c].issued = broker[c].issued + 1
             /\ \A d \in Chain : broker'[d].state = broker[d].state
             /\ \A d \in Chain \ {c} : broker'[d].spent = broker[d].spent
                                       /\ broker'[d].issued = broker[d].issued
  <1> DEFINE t == proc[p].sent
             c == t.chain
             b == broker[c]
             reused == IF t.n \in b.spent THEN b.reused \cup {t.n} ELSE b.reused
  <1>1. t \in Token /\ c \in Chain /\ broker \in [Chain -> ChainState] /\ b \in ChainState
    BY HandsTyped DEF Using, SessionInvariant, TypeOK
  <1>2. broker' = [broker EXCEPT ![c] = [b EXCEPT !.issued = @ + 1, !.spent = @ \cup {t.n},
                                                 !.reused = reused]]
    BY <1>1 DEF Rotated, ChainState
  <1> HIDE DEF reused, b, c, t
  <1>3. b = broker[c]
    BY DEF b
  <1>4. QED
    BY SMTT(30), <1>1, <1>2, <1>3 DEF ChainState, t, c

\* Steps outside a renewal: only a commit brings the session a new token.
LEMMA ChainQuietStep ==
  ASSUME SessionInvariant, SessionInvariant', ChainInvariant, NEW p \in Process, QuietStep(p)
  PROVE  ChainInvariant'
  <1> USE DEF Store, Records, At
  <1>0. /\ session \in Session /\ proc[p] \in Proc /\ TypeOK
        /\ proc'[p].pc \notin Hands /\ \A q \in Process \ {p} : proc'[q] = proc[q]
    BY QuietSteps DEF SessionInvariant, TypeOK, Quiet, Hands, Using
  <1>1. ASSUME session'.refresh \in {None, session.refresh}, lost' = lost, broker' = broker,
               proc[p].pc # "rotate"
        PROVE  ChainInvariant'
    BY <1>0, <1>1, TokensStaySteps, HandsEmptied
  <1>2. CASE RenewStart(p) \/ RenewSkipped(p) \/ Release(p) \/ SigninClear(p) \/ SigninMark(p)
             \/ SigninFailed(p) \/ SignoutStart(p) \/ \E restart \in BOOLEAN : SigninStart(p, restart)
    BY <1>1, <1>2 DEF RenewStart, RenewSkipped, Release, SigninClear, SigninMark, SigninFailed,
                      SignoutStart, SigninStart
  <1>3. CASE SigninEngage(p)
    BY <1>0, <1>1, <1>3 DEF SigninEngage, Session
  <1>4. CASE Signout(p)
    BY <1>1, <1>4 DEF Signout, NoSession
  <1>5. CASE Crash(p)
    <2>1. session' = session /\ broker' = broker /\ lost \subseteq lost'
          /\ (proc[p].pc = "rotate" => proc[p].sent \in lost')
      BY <1>5 DEF Crash
    <2>2. QED
      BY <1>0, <2>1, TokensStaySteps, HandsEmptied
  <1>6. CASE SigninCommit(p)
    <2> DEFINE l == proc[p].license
               g == proc[p].got
    <2>1. /\ proc[p].pc = "commit" /\ broker' = broker /\ lost' = lost
          /\ session'.refresh \in {session.refresh, g}
      <3>1. proc[p].pc = "commit" /\ broker' = broker /\ lost' = lost
        BY <1>6 DEF SigninCommit
      <3>2. \/ session' = session
            \/ session'.license = l /\ session'.refresh = g
        <4> DEFINE n == session.generation + 1
                   out == IF Codex THEN session.signedOut ELSE FALSE
        <4>1. \/ session' = session
              \/ session' = [license |-> l, refresh |-> g, generation |-> n, signedOut |-> out]
          BY <1>6 DEF SigninCommit
        <4> HIDE DEF n, out
        <4>2. QED
          BY <4>1
      <3>3. QED
        BY <3>1, <3>2
    <2>2. CASE session'.refresh \in {None, session.refresh}
      BY <1>1, <2>1, <2>2
    <2>3. CASE session'.refresh = g /\ g # None
      <3>1. /\ l \in Token /\ g \in Token /\ g.chain = l.chain /\ Issued(g) /\ Apart(p)
        <4>1. l \in Token /\ g \in Token
          BY <2>1, <2>3, HandsTyped DEF Maybe
        <4>2. g.chain = l.chain
          BY <2>1, <2>3 DEF SessionInvariant, InHand, Carries
        <4>3. Issued(g) /\ Apart(p)
          BY <2>1, <2>3 DEF ChainInvariant, HeldIssued, OwnChain
        <4>4. QED
          BY <4>1, <4>2, <4>3
      <3>2. /\ \A t \in Token : Spent(t)' = Spent(t) /\ Issued(t)' = Issued(t)
            /\ \A q \in Process : /\ proc[q].pc \in Using => proc[q].sent \in Token
                                  /\ proc[q].pc = "rotate" => proc[q].got \in Token
                                  /\ proc[q].pc = "commit" => proc[q].got \in Maybe(Token)
        BY <2>1, HandsTyped DEF Spent, Issued
      <3>3. SpentIssued' /\ NewUnspent' /\ ChainEndsOnlyByLoss'
        BY <2>1 DEF ChainInvariant, SpentIssued, NewUnspent, ChainKept, ChainEndsOnlyByLoss
      <3>4. HeldIssued'
        BY <1>0, <2>3, <3>1, <3>2 DEF ChainInvariant, HeldIssued, Hands, Using, Maybe
      <3>5. SentOnce' /\ GotUnspent'
        BY <1>0, <2>1, <3>2 DEF ChainInvariant, SentOnce, GotUnspent, Hands, Using
      <3>6. OwnChain'
        <4> SUFFICES ASSUME NEW q \in Process, proc'[q].pc = "commit"
                     PROVE  Apart(q)'
          BY DEF OwnChain
        <4>1. q # p /\ proc'[q] = proc[q] /\ Apart(q)
          BY <1>0 DEF ChainInvariant, OwnChain, Hands
        <4>2. l.chain # proc[q].license.chain
          BY <2>1, <4>1 DEF Apart
        <4>3. QED
          BY <1>0, <2>1, <2>3, <3>1, <4>1, <4>2 DEF Apart, Hands
      <3>7. NotStranded'
        BY <2>1, <2>3, <3>1 DEF NotStranded, Apart
      <3>8. QED
        BY <3>3, <3>4, <3>5, <3>6, <3>7 DEF ChainInvariant, ChainKept
    <2>4. QED
      BY <2>1, <2>2, <2>3
  <1>7. QED
    BY <1>2, <1>3, <1>4, <1>5, <1>6 DEF QuietStep

\* A renewal's steps that bring nothing into its hands.
LEMMA ChainRenewalStep ==
  ASSUME SessionInvariant, SessionInvariant', ChainInvariant, NEW p \in Process,
         \/ AcquireLock(p) \/ Reread(p) \/ Expect(p) \/ Exchange(p) \/ CommitRefresh(p)
         \/ Record(p) \/ DropSession(p) \/ Revoke(p)
  PROVE  ChainInvariant'
  <1> USE DEF Store, Records, At
  <1>0. /\ session \in Session /\ proc[p] \in Proc /\ TypeOK
        /\ \A q \in Process \ {p} : proc'[q] = proc[q]
    BY RenewalSteps DEF SessionInvariant, TypeOK, RenewalStep
  <1>1. proc'[p].pc \notin Hands
    <2> DEFINE Good(r)   == r.pc \notin Hands
               goto(pc)  == [proc[p] EXCEPT !.pc = pc]
               settle(o) == [proc[p] EXCEPT !.pc = "record", !.outcome = o]
               ended     == [Idle EXCEPT !.pc = "release"]
               threw     == [Idle EXCEPT !.pc = "release", !.outcome = "threw"]
               expect    == [proc[p] EXCEPT !.pc = "send", !.exp = session]
               rejected  == [proc[p] EXCEPT !.pc = "record", !.exp = session, !.outcome = "rejected"]
               lic(l)    == [proc[p] EXCEPT !.pc = "refresh", !.license = l]
               saved     == [proc[p] EXCEPT !.pc = "record", !.outcome = "rotated",
                                            !.exp.license = proc[p].license]
               failed    == [proc[p] EXCEPT !.pc = "record", !.outcome = "transient",
                                            !.exp.refresh = proc[p].sent]
               revoke    == [Idle EXCEPT !.pc = "revoke", !.got = proc[p].exp.refresh,
                                         !.sent = proc[p].exp.refresh]
               PCs       == {"reread", "expect", "drop"}
    <2>1. /\ \A pc \in PCs : Good(goto(pc))
          /\ \A o : Good(settle(o))
          /\ \A l : Good(lic(l))
          /\ Good(expect) /\ Good(rejected) /\ Good(saved) /\ Good(failed)
      BY <1>0 DEF Proc, Hands, Using
    <2>2. Good(ended) /\ Good(threw) /\ Good(revoke) /\ Good(Idle)
      BY DEF Idle, Hands, Using
    <2> HIDE DEF Good, goto, settle, ended, threw, expect, rejected, lic, saved, failed, revoke
    <2>3. \/ \E pc \in PCs : To(p, goto(pc))
          \/ \E o : To(p, settle(o))
          \/ \E l : To(p, lic(l))
          \/ To(p, expect) \/ To(p, rejected) \/ To(p, saved) \/ To(p, failed)
          \/ To(p, ended) \/ To(p, threw) \/ To(p, revoke) \/ To(p, Idle)
      BY DEF AcquireLock, Reread, Expect, Exchange, CommitRefresh, Record, DropSession, Revoke,
             Goto, Settle, Finish, Throw, goto, settle, ended, threw, expect, rejected, lic,
             saved, failed, revoke
    <2>4. \E r : To(p, r) /\ Good(r)
      BY <2>1, <2>2, <2>3
    <2>5. Good(proc'[p])
      BY <1>0, <2>4, ProcStep
    <2>6. QED
      BY <2>5 DEF Good
  <1>2. session'.refresh \in {None, session.refresh}
    BY <1>0 DEF AcquireLock, Reread, Expect, Exchange, CommitRefresh, Record, DropSession,
                Revoke, Session, NoSession
  <1>3. lost' = lost /\ proc[p].pc # "rotate"
    BY DEF AcquireLock, Reread, Expect, Exchange, CommitRefresh, Record, DropSession, Revoke
  <1>4. TokensStay
    <2>1. CASE Exchange(p)
      <3>1. proc[p].exp.refresh.chain \in Chain
        BY <1>0, <2>1 DEF Exchange, SessionInvariant, Shape, Shaped, Settling, Proc, Session,
                          Maybe, Token
      <3>2. QED
        BY <1>3, <2>1, <3>1, TokensStaySteps DEF Exchange
    <2>2. CASE Revoke(p)
      BY <1>0, <1>3, <2>2, TokensStaySteps DEF Revoke, TokensStay, SessionInvariant, TypeOK, ChainState
    <2>3. CASE ~ Exchange(p) /\ ~ Revoke(p)
      BY <1>3, <2>3, TokensStaySteps DEF AcquireLock, Reread, Expect, CommitRefresh, Record, DropSession
    <2>4. QED
      BY <2>1, <2>2, <2>3
  <1>5. QED
    BY <1>0, <1>1, <1>2, <1>3, <1>4, HandsEmptied

\* The token is read under the lock: whoever has sent it before has lost its successor.
LEMMA ChainSendStep ==
  ASSUME SessionInvariant, SessionInvariant', ChainInvariant, NEW p \in Process, Send(p)
  PROVE  ChainInvariant'
  <1> DEFINE r == [proc[p] EXCEPT !.pc = "waiting", !.sent = session.refresh]
  <1>0. /\ proc[p] \in Proc /\ TypeOK /\ proc[p].pc = "send"
        /\ session' = session /\ broker' = broker /\ lost' = lost
    BY DEF SessionInvariant, TypeOK, Send, Store, At
  <1>1. TokensStay
    BY <1>0, TokensStaySteps
  <1>2. CASE Finish(p)
    BY <1>0, <1>1, <1>2, ProcStep, HandsEmptied DEF Finish, Idle, Hands, Using
  <1>3. CASE ~ Finish(p)
    <2>1. Matches(proc[p].exp) /\ To(p, r)
      BY <1>3 DEF Send
    <2>2. r.pc = "waiting" /\ r.sent = session.refresh /\ r = [proc[p] EXCEPT !.pc = "waiting", !.sent = session.refresh]
      BY <1>0 DEF Proc
    <2> HIDE DEF r
    <2>3. /\ proc'[p].pc = "waiting" /\ proc'[p].sent = session.refresh
          /\ \A q \in Process \ {p} : proc'[q] = proc[q]
      BY <1>0, <2>1, <2>2, ProcStep
    <2>4. session.refresh \in Token
      <3>1. session.refresh # None
        BY <1>0, <2>1 DEF Matches, SessionInvariant, Shape, Shaped, Settling
      <3>2. QED
        BY <3>1, HandsTyped DEF Maybe
    <2>5. /\ \A t \in Token : Spent(t)' = Spent(t) /\ Issued(t)' = Issued(t)
          /\ \A q \in Process : /\ proc[q].pc \in Using => proc[q].sent \in Token
                                /\ proc[q].pc = "rotate" => proc[q].got \in Token
                                /\ proc[q].pc = "commit" => proc[q].got \in Maybe(Token)
      BY <1>0, HandsTyped DEF Spent, Issued
    <2>6. SpentIssued' /\ NewUnspent' /\ ChainEndsOnlyByLoss'
      BY <1>0 DEF ChainInvariant, SpentIssued, NewUnspent, ChainKept, ChainEndsOnlyByLoss
    <2>7. HeldIssued'
      <3>1. session'.refresh # None => Issued(session.refresh)
        BY <1>0 DEF ChainInvariant, HeldIssued
      <3>2. Issued(session.refresh)
        BY <2>4, NoneAssumption DEF ChainInvariant, HeldIssued
      <3>3. ASSUME NEW q \in Process
            PROVE  /\ proc'[q].pc \in Using => Issued(proc'[q].sent)
                   /\ proc'[q].pc = "rotate" => Issued(proc'[q].got)
                   /\ proc'[q].pc = "commit" /\ proc'[q].got # None => Issued(proc'[q].got)
        BY <2>3, <3>2 DEF ChainInvariant, HeldIssued, Using
      <3>4. \A t : Issued(t)' = Issued(t)
        BY <1>0 DEF Issued
      <3>5. QED
        BY <1>0, <3>1, <3>3 DEF HeldIssued, Issued
    <2>8. SentOnce'
      <3>1. Spent(session.refresh) => session.refresh \in lost
        <4>1. \A q \in Process : proc[q].pc # "rotate"
          BY <1>0 DEF SessionInvariant, SingleFlight, Renewing, Settling
        <4>2. QED
          BY <2>4, <4>1, NoneAssumption DEF ChainInvariant, ChainKept, NotStranded, Spent
      <3>2. QED
        BY <1>0, <2>3, <2>4, <2>5, <3>1 DEF ChainInvariant, SentOnce, Using
    <2>9. GotUnspent'
      BY <2>3, <2>5 DEF ChainInvariant, GotUnspent, Using
    <2>10. OwnChain'
      <3> SUFFICES ASSUME NEW q \in Process, proc'[q].pc = "commit"
                   PROVE  Apart(q)'
        BY DEF OwnChain
      <3>1. q # p /\ proc'[q] = proc[q] /\ Apart(q)
        BY <2>3 DEF ChainInvariant, OwnChain
      <3>2. QED
        BY <1>0, <2>3, <2>4, <3>1, NoneAssumption DEF Apart, Using
    <2>11. NotStranded'
      BY <1>0, <2>3 DEF ChainInvariant, ChainKept, NotStranded
    <2>12. QED
      BY <2>6, <2>7, <2>8, <2>9, <2>10, <2>11 DEF ChainInvariant, ChainKept
  <1>4. QED
    BY <1>2, <1>3

\* The broker accepts a token: its answer is about to be stored, or the token is recorded
\* as lost with it.
LEMMA ChainRotates ==
  ASSUME SessionInvariant, SessionInvariant', ChainInvariant, NEW p \in Process,
         proc[p].pc = "waiting", Accepts(proc[p].sent), broker' = Rotated(proc[p].sent),
         session' = session, lost \subseteq lost',
         \A q \in Process \ {p} : proc'[q] = proc[q],
         \/ proc'[p].pc = "rotate" /\ proc'[p].sent = proc[p].sent
            /\ proc'[p].got = NextOf(proc[p].sent)
         \/ proc'[p].pc \notin Hands /\ proc[p].sent \in lost'
  PROVE  ChainInvariant'
  <1> DEFINE t == proc[p].sent
             c == t.chain
             n == broker[c].issued
  <1>1. /\ t \in Token /\ c \in Chain
        /\ broker'[c].spent = broker[c].spent \cup {t.n}
        /\ broker'[c].issued = n + 1
        /\ \A d \in Chain : broker'[d].state = broker[d].state
        /\ \A d \in Chain \ {c} : broker'[d].spent = broker[d].spent
                                  /\ broker'[d].issued = broker[d].issued
    BY Rotates
  <1>2. /\ \A d \in Chain : broker[d].issued \in Nat /\ broker[d].spent \subseteq 1 .. broker[d].issued
        /\ n = broker[c].issued /\ n \in Nat
        /\ t.n \in 1 .. n /\ broker[c].state = "live"
    BY <1>1, HandsTyped DEF ChainInvariant, SpentIssued, HeldIssued, Issued, Using, ChainState, Accepts
  <1>3. /\ session.refresh \in Maybe(Token)
        /\ \A q \in Process : /\ proc[q].pc = "commit" => proc[q].license \in Token
                                                          /\ proc[q].got \in Maybe(Token)
        /\ \A q \in Process \ {p} : proc[q].pc \notin Using
    BY HandsTyped DEF SessionInvariant, SingleFlight, Renewing, Settling, Using
  <1>4. NextOf(t).chain = c /\ NextOf(t).n = n + 1
    BY <1>1 DEF NextOf, Token
  <1>5. \A u \in Token : Issued(u) => Issued(u)'
    BY SMTT(30), <1>1, <1>2 DEF Issued, Token
  <1> HIDE DEF t, c, n
  <1>6. SpentIssued' /\ NewUnspent'
    <2>1. broker[c].spent \cup {t.n} \subseteq 1 .. n + 1
      BY <1>1, <1>2
    <2>2. SpentIssued'
      BY <1>1, <1>2, <2>1 DEF SpentIssued
    <2>3. NewUnspent'
      BY <1>1, <1>2 DEF ChainInvariant, NewUnspent
    <2>4. QED
      BY <2>2, <2>3
  <1>7. HeldIssued'
    <2>1. session'.refresh # None => Issued(session.refresh)'
      BY <1>3, <1>5 DEF ChainInvariant, HeldIssued, Maybe
    <2>2. t.n \in 1 .. n + 1 /\ n + 1 \in 1 .. n + 1
      BY <1>2
    <2>3. /\ proc'[p].pc \in Using => proc'[p].sent.n \in 1 .. broker'[proc'[p].sent.chain].issued
          /\ proc'[p].pc = "rotate" => proc'[p].got.n \in 1 .. broker'[proc'[p].got.chain].issued
          /\ proc'[p].pc # "commit"
      BY <1>1, <1>4, <2>2 DEF Hands, Using, t, c
    <2>4. ASSUME NEW q \in Process \ {p}
          PROVE  /\ proc'[q].pc \notin Using
                 /\ proc'[q].pc = "commit" /\ proc'[q].got # None => Issued(proc[q].got)'
      BY <1>3, <1>5 DEF ChainInvariant, HeldIssued, Maybe
    <2>5. ASSUME NEW q \in Process
          PROVE  /\ proc'[q].pc \in Using => Issued(proc[q].sent)'
                 /\ proc'[q].pc = "rotate" => Issued(proc[q].got)'
                 /\ proc'[q].pc = "commit" /\ proc'[q].got # None => Issued(proc[q].got)'
      <3>1. CASE q = p
        BY <2>3, <3>1 DEF Issued
      <3>2. CASE q # p
        BY <2>4, <3>2 DEF Using
      <3>3. QED
        BY <3>1, <3>2
    <2>6. QED
      BY <2>1, <2>5 DEF HeldIssued
  <1>8. SentOnce' /\ GotUnspent'
    <2>1. \A q \in Process : proc'[q].pc # "waiting" /\ (proc'[q].pc = "rotate" => q = p)
      BY <1>3 DEF Hands, Using
    <2>2. n + 1 \notin broker[c].spent \cup {t.n}
      BY <1>1, <1>2 DEF n
    <2>3. proc'[p].pc = "rotate" => ~ Spent(proc[p].got)'
      BY <1>1, <1>4, <2>2 DEF Spent, Hands, Using, t
    <2>4. QED
      BY <2>1, <2>3 DEF SentOnce, GotUnspent, Spent
  <1>9. OwnChain'
    <2> SUFFICES ASSUME NEW q \in Process, proc'[q].pc = "commit"
                 PROVE  Apart(q)'
      BY DEF OwnChain
    <2>1. q # p /\ proc'[q] = proc[q] /\ Apart(q)
      BY DEF ChainInvariant, OwnChain, Hands
    <2>2. c # proc[q].license.chain /\ proc[q].license.chain \in Chain
      BY <1>3, <2>1, HandsTyped DEF Apart, Using, c, t
    <2>3. broker'[proc[q].license.chain].spent = {}
      BY <1>1, <2>1, <2>2 DEF Apart
    <2>4. QED
      BY <2>1, <2>2, <2>3 DEF Apart, Hands, Using, c, t
  <1>10. ChainEndsOnlyByLoss'
    BY <1>1 DEF ChainInvariant, ChainKept, ChainEndsOnlyByLoss
  <1>11. NotStranded'
    <2> SUFFICES ASSUME session.refresh # None, Spent(session.refresh)'
                 PROVE  \/ session.refresh \in lost'
                        \/ proc'[p].pc = "rotate" /\ proc'[p].sent = session.refresh
      BY DEF NotStranded, Spent
    <2>1. session.refresh \in Token
      BY <1>3 DEF Maybe
    <2>2. CASE session.refresh = t
      BY <2>2 DEF t
    <2>3. CASE session.refresh # t
      <3>1. Spent(session.refresh)
        BY <1>1, <2>1, <2>3 DEF Spent, Token, c
      <3>2. QED
        BY <1>3, <2>1, <3>1 DEF ChainInvariant, ChainKept, NotStranded, Spent, Using
    <2>4. QED
      BY <2>2, <2>3
  <1>12. QED
    BY <1>6, <1>7, <1>8, <1>9, <1>10, <1>11 DEF ChainInvariant, ChainKept

\* A grant accepts the token, keeps it, or ends the chain; without an answer, it may have
\* spent the token.
LEMMA ChainGrantStep ==
  ASSUME SessionInvariant, SessionInvariant', ChainInvariant, NEW p \in Process,
         Grant(p) \/ GrantFails(p)
  PROVE  ChainInvariant'
  <1> DEFINE r == [proc[p] EXCEPT !.pc = "rotate", !.got = NextOf(proc[p].sent)]
  <1>0. /\ proc[p] \in Proc /\ TypeOK /\ proc[p].pc = "waiting" /\ session' = session
        /\ \A q \in Process \ {p} : proc'[q] = proc[q]
    BY RenewalSteps DEF SessionInvariant, TypeOK, Grant, GrantFails, Store, At, RenewalStep
  <1>1. r.pc = "rotate" /\ r.sent = proc[p].sent /\ r.got = NextOf(proc[p].sent)
    BY <1>0 DEF Proc
  <1>2. /\ [proc[p] EXCEPT !.pc = "exchange"].pc = "exchange"
        /\ \A o : [proc[p] EXCEPT !.pc = "record", !.outcome = o].pc = "record"
    BY <1>0 DEF Proc
  <1>3. ASSUME Accepts(proc[p].sent), broker' = Rotated(proc[p].sent), lost' = lost, To(p, r)
        PROVE  ChainInvariant'
    <2> HIDE DEF r
    <2>1. proc'[p] = r
      BY <1>0, <1>3, ProcStep
    <2>2. QED
      BY <1>0, <1>1, <1>3, <2>1, ChainRotates
  <1>4. ASSUME Settle(p, "rejected") \/ Settle(p, "transient") \/ Goto(p, "exchange")
        PROVE  proc'[p].pc \notin Hands
    <2> DEFINE settle(o) == [proc[p] EXCEPT !.pc = "record", !.outcome = o]
               goto      == [proc[p] EXCEPT !.pc = "exchange"]
    <2>1. goto.pc = "exchange" /\ \A o : settle(o).pc = "record"
      BY <1>2
    <2>2. To(p, goto) \/ \E o : To(p, settle(o))
      BY <1>4 DEF Settle, Goto
    <2> HIDE DEF goto, settle
    <2>3. QED
      BY <1>0, <2>1, <2>2, ProcStep DEF Hands, Using
  <1>5. CASE Grant(p)
    <2>1. CASE Accepts(proc[p].sent) /\ broker' = Rotated(proc[p].sent) /\ lost' = lost /\ To(p, r)
      BY <1>3, <2>1
    <2>2. CASE broker' = broker /\ lost' = lost /\ Goto(p, "exchange")
      BY <1>0, <1>4, <2>2, TokensStaySteps, HandsEmptied
    <2>3. CASE /\ ~ Accepts(proc[p].sent) /\ broker' = Rejected(proc[p].sent) /\ lost' = lost
               /\ Settle(p, "rejected")
      BY <1>0, <1>4, <2>3, TokensStaySteps, HandsEmptied
    <2>4. QED
      BY <1>5, <2>1, <2>2, <2>3 DEF Grant
  <1>6. CASE GrantFails(p)
    <2>1. Settle(p, "transient")
      BY <1>6 DEF GrantFails
    <2>2. CASE broker' = broker /\ lost' = lost
      BY <1>0, <1>4, <2>1, <2>2, TokensStaySteps, HandsEmptied
    <2>3. CASE Accepts(proc[p].sent) /\ broker' = Rotated(proc[p].sent)
               /\ lost' = lost \cup {proc[p].sent}
      BY <1>0, <1>4, <2>1, <2>3, ChainRotates
    <2>4. QED
      BY <1>6, <2>2, <2>3 DEF GrantFails
  <1>7. QED
    BY <1>5, <1>6

\* The successor is stored, or lost.
LEMMA ChainRotationStep ==
  ASSUME SessionInvariant, SessionInvariant', ChainInvariant, NEW p \in Process,
         CommitRotation(p)
  PROVE  ChainInvariant'
  <1> DEFINE r1 == [proc[p] EXCEPT !.pc = "exchange", !.exp.refresh = proc[p].got, !.got = None]
             r2 == [proc[p] EXCEPT !.pc = "record", !.outcome = "transient", !.got = None]
             g  == proc[p].got
  <1>0. /\ proc[p] \in Proc /\ TypeOK /\ proc[p].pc = "rotate" /\ session \in Session
        /\ broker' = broker /\ \A q \in Process \ {p} : proc'[q] = proc[q]
    BY RenewalSteps DEF SessionInvariant, TypeOK, CommitRotation, Records, At, RenewalStep
  <1>1. r1.pc = "exchange" /\ r2.pc = "record"
    BY <1>0 DEF Proc
  <1>2. To(p, r1) \/ To(p, r2) \/ Finish(p)
    BY DEF CommitRotation
  <1> HIDE DEF r1, r2
  <1>3. proc'[p].pc \notin Hands
    <2>1. Finish(p) => proc'[p].pc = "release"
      BY <1>0, ProcStep DEF Finish, Idle
    <2>2. QED
      BY <1>0, <1>1, <1>2, <2>1, ProcStep DEF Hands, Using
  <1>4. CASE session' = session /\ lost' = lost \cup {proc[p].sent}
    BY <1>0, <1>3, <1>4, TokensStaySteps, HandsEmptied
  <1>5. CASE session' = [session EXCEPT !.refresh = g] /\ lost' = lost
    <2>1. /\ session'.refresh = g /\ g \in Token /\ proc[p].sent \in Token
          /\ g.chain = proc[p].sent.chain /\ Issued(g) /\ ~ Spent(g)
      <3>1. session'.refresh = g
        BY <1>0, <1>5 DEF Session
      <3>2. g \in Token /\ proc[p].sent \in Token
        BY <1>0, HandsTyped DEF Using
      <3>3. g.chain = proc[p].sent.chain
        BY <1>0 DEF SessionInvariant, InHand, Carries
      <3>4. Issued(g) /\ ~ Spent(g)
        BY <1>0 DEF ChainInvariant, HeldIssued, GotUnspent
      <3>5. QED
        BY <3>1, <3>2, <3>3, <3>4
    <2>2. \A t : (Issued(t) <=> t.n \in 1 .. broker'[t.chain].issued)
                 /\ (Spent(t) <=> t.n \in broker'[t.chain].spent)
      BY <1>0 DEF Issued, Spent
    <2> HIDE DEF g
    <2>3. SpentIssued' /\ NewUnspent' /\ ChainEndsOnlyByLoss'
      BY <1>0, <1>5 DEF ChainInvariant, SpentIssued, NewUnspent, ChainKept, ChainEndsOnlyByLoss
    <2>4. HeldIssued'
      <3>1. session'.refresh # None => session'.refresh.n \in 1 .. broker'[session'.refresh.chain].issued
        BY <2>1, <2>2
      <3>2. ASSUME NEW q \in Process
            PROVE  /\ proc'[q].pc \in Using => Issued(proc'[q].sent)
                   /\ proc'[q].pc = "rotate" => Issued(proc'[q].got)
                   /\ proc'[q].pc = "commit" /\ proc'[q].got # None => Issued(proc'[q].got)
        BY <1>0, <1>3 DEF ChainInvariant, HeldIssued, Hands, Using
      <3>3. QED
        BY <2>2, <3>1, <3>2 DEF HeldIssued, Issued
    <2>5. SentOnce' /\ GotUnspent'
      <3>1. ASSUME NEW q \in Process
            PROVE  /\ proc'[q].pc = "waiting" /\ Spent(proc'[q].sent) => proc'[q].sent \in lost'
                   /\ proc'[q].pc = "rotate" => ~ Spent(proc'[q].got)
        BY <1>0, <1>3, <1>5 DEF ChainInvariant, SentOnce, GotUnspent, Hands, Using
      <3>2. QED
        BY <2>2, <3>1 DEF SentOnce, GotUnspent, Spent
    <2>6. OwnChain'
      <3> SUFFICES ASSUME NEW q \in Process, proc'[q].pc = "commit"
                   PROVE  Apart(q)'
        BY DEF OwnChain
      <3>1. q # p /\ proc'[q] = proc[q] /\ Apart(q)
        BY <1>0, <1>3 DEF ChainInvariant, OwnChain, Hands
      <3>2. proc[p].sent.chain # proc[q].license.chain
        BY <1>0, <3>1 DEF Apart, Using
      <3>3. QED
        BY <1>0, <1>3, <2>1, <3>1, <3>2 DEF Apart, Hands
    <2>7. NotStranded'
      BY <2>1, <2>2 DEF NotStranded
    <2>8. QED
      BY <2>3, <2>4, <2>5, <2>6, <2>7 DEF ChainInvariant, ChainKept
  <1>6. QED
    BY <1>4, <1>5 DEF CommitRotation

\* An approval starts a chain of its own.
LEMMA ChainApprovalStep ==
  ASSUME SessionInvariant, SessionInvariant', ChainInvariant, NEW p \in Process,
         SigninApproved(p)
  PROVE  ChainInvariant'
  <1>0. /\ TypeOK /\ proc[p].pc = "poll" /\ session' = session /\ lost' = lost
        /\ \A q \in Process \ {p} : proc'[q] = proc[q]
    BY ApprovalSteps DEF SessionInvariant, SigninApproved, Store, At
  <1>1. CASE proc'[p].pc = "fail"
    <2>1. broker' = broker
      <3>1. ASSUME NEW got, NEW l,
                   To(p, [proc[p] EXCEPT !.pc = "commit", !.got = got, !.license = l])
            PROVE  proc'[p].pc = "commit"
        <4> DEFINE r == [proc[p] EXCEPT !.pc = "commit", !.got = got, !.license = l]
        <4>1. r.pc = "commit"
          BY <1>0 DEF TypeOK, Proc
        <4> HIDE DEF r
        <4>2. QED
          BY <1>0, <3>1, <4>1, ProcStep DEF r
      <3>2. QED
        BY <1>1, <3>1 DEF SigninApproved
    <2>2. QED
      BY <1>0, <1>1, <2>1, TokensStaySteps, HandsEmptied DEF Hands, Using
  <1>2. ASSUME NEW c \in Chain,
               proc'[p].pc = "commit", proc'[p].license = [chain |-> c, n |-> 1],
               proc'[p].got \in {None, [chain |-> c, n |-> 1]},
               broker[c].state = "none", broker'[c].state = "live",
               broker'[c].spent = broker[c].spent, broker'[c].issued = 1,
               \A d \in Chain \ {c} : broker'[d] = broker[d]
        PROVE  ChainInvariant'
    <2>1. broker[c].spent = {}
      BY <1>2 DEF ChainInvariant, NewUnspent
    <2>2. /\ session.refresh # None => session.refresh \in Token /\ session.refresh.chain # c
          /\ \A q \in Process :
               /\ proc[q].pc \in Using => proc[q].sent \in Token /\ proc[q].sent.chain # c
               /\ proc[q].pc = "rotate" => proc[q].got \in Token /\ proc[q].got.chain # c
               /\ proc[q].pc = "commit" => proc[q].license \in Token /\ proc[q].license.chain # c
               /\ proc[q].pc = "commit" /\ proc[q].got # None =>
                    proc[q].got \in Token /\ proc[q].got.chain # c
      <3>1. session.refresh # None => session.refresh \in Token /\ session.refresh.chain # c
        BY <1>2, HandsTyped DEF SessionInvariant, TokensExist, Exists, Maybe
      <3>2. ASSUME NEW q \in Process
            PROVE  /\ proc[q].pc \in Using => proc[q].sent \in Token /\ proc[q].sent.chain # c
                   /\ proc[q].pc = "commit" => proc[q].license \in Token
                                               /\ proc[q].license.chain # c
        BY <1>2, HandsTyped, NoneAssumption DEF SessionInvariant, TokensExist, Exists
      <3>3. ASSUME NEW q \in Process
            PROVE  /\ proc[q].pc = "rotate" => proc[q].got \in Token /\ proc[q].got.chain # c
                   /\ proc[q].pc = "commit" /\ proc[q].got # None =>
                        proc[q].got \in Token /\ proc[q].got.chain # c
        BY <3>2, HandsTyped DEF SessionInvariant, InHand, Carries, Using, Maybe
      <3>4. QED
        BY <3>1, <3>2, <3>3
    <2>3. \A t \in Token : t.chain # c => /\ Issued(t) <=> t.n \in 1 .. broker'[t.chain].issued
                                          /\ Spent(t) <=> t.n \in broker'[t.chain].spent
      BY <1>2, HandsTyped DEF Issued, Spent
    <2>4. SpentIssued' /\ NewUnspent'
      BY <1>2, <2>1 DEF ChainInvariant, SpentIssued, NewUnspent
    <2>5. HeldIssued'
      <3>1. session.refresh # None => session.refresh.n \in 1 .. broker'[session.refresh.chain].issued
        BY <2>2, <2>3 DEF ChainInvariant, HeldIssued
      <3>2. proc'[p].got # None => proc'[p].got.n \in 1 .. broker'[proc'[p].got.chain].issued
        BY <1>2
      <3>3. ASSUME NEW q \in Process \ {p}
            PROVE  /\ proc[q].pc \in Using => proc[q].sent.n \in 1 .. broker'[proc[q].sent.chain].issued
                   /\ proc[q].pc = "rotate" => proc[q].got.n \in 1 .. broker'[proc[q].got.chain].issued
                   /\ proc[q].pc = "commit" /\ proc[q].got # None =>
                        proc[q].got.n \in 1 .. broker'[proc[q].got.chain].issued
        BY <2>2, <2>3 DEF ChainInvariant, HeldIssued
      <3>4. QED
        BY <1>0, <1>2, <3>1, <3>2, <3>3 DEF HeldIssued, Issued, Using
    <2>6. SentOnce' /\ GotUnspent'
      <3>1. ASSUME NEW q \in Process \ {p}
            PROVE  /\ proc[q].pc = "waiting" /\ proc[q].sent.n \in broker'[proc[q].sent.chain].spent =>
                        proc[q].sent \in lost
                   /\ proc[q].pc = "rotate" => proc[q].got.n \notin broker'[proc[q].got.chain].spent
        BY <2>2, <2>3 DEF ChainInvariant, SentOnce, GotUnspent, Using
      <3>2. QED
        BY <1>0, <1>2, <3>1 DEF SentOnce, GotUnspent, Spent
    <2>7. OwnChain'
      <3>1. Apart(p)'
        BY <1>0, <1>2, <2>1, <2>2 DEF Apart
      <3>2. ASSUME NEW q \in Process \ {p}, proc[q].pc = "commit"
            PROVE  Apart(q)'
        <4>1. Apart(q) /\ proc[q].license.chain \in Chain \ {c}
          BY <2>2, <3>2, HandsTyped DEF ChainInvariant, OwnChain
        <4>2. QED
          BY <1>0, <1>2, <3>2, <4>1 DEF Apart, Using
      <3>3. QED
        BY <1>0, <3>1, <3>2 DEF OwnChain
    <2>8. ChainEndsOnlyByLoss' 
      BY <1>0, <1>2 DEF ChainInvariant, ChainKept, ChainEndsOnlyByLoss
    <2>9. NotStranded'
      <3> SUFFICES ASSUME session.refresh # None, Spent(session.refresh)'
                   PROVE  \/ session.refresh \in lost
                          \/ \E q \in Process : proc'[q].pc = "rotate" /\ proc'[q].sent = session.refresh
        BY <1>0 DEF NotStranded, Spent
      <3>1. Spent(session.refresh)
        BY <1>0, <2>2, <2>3 DEF Spent
      <3>2. QED
        BY <1>0, <3>1 DEF ChainInvariant, ChainKept, NotStranded, Spent
    <2>10. QED
      BY <2>4, <2>5, <2>6, <2>7, <2>8, <2>9 DEF ChainInvariant, ChainKept
  <1>3. QED
    BY <1>0, <1>1, <1>2, ApprovalSteps

\* At the start at most one token is out, and it is not spent.
LEMMA ChainInit == Init => ChainInvariant
  <1> SUFFICES ASSUME Init PROVE ChainInvariant
    OBVIOUS
  <1>1. /\ \A c \in Chain : broker[c].spent = {} /\ broker[c].issued \in Nat
                            /\ broker[c].state # "reused"
        /\ session.refresh \in {None, [chain |-> 1, n |-> 1]}
        /\ session.refresh # None => broker[1].issued = 1 /\ 1 \in Chain
    <2>1. 1 \in Chain
      BY LimitsAssumption DEF Chain
    <2>2. CASE session = NoSession
      BY <2>2 DEF Init, NoChain, NoSession
    <2>3. CASE session # NoSession
      <3>1. session.refresh = [chain |-> 1, n |-> 1]
        BY <2>3 DEF Init
      <3>2. broker[1] = [NoChain EXCEPT !.state = "live", !.issued = 1, !.licenses = 1]
        BY <2>1, <2>3 DEF Init
      <3>3. \A c \in Chain \ {1} : broker[c] = NoChain
        BY <2>3 DEF Init
      <3>4. /\ broker[1].spent = {} /\ broker[1].issued = 1 /\ broker[1].state = "live"
            /\ NoChain.spent = {} /\ NoChain.issued = 0 /\ NoChain.state = "none"
        BY <3>2 DEF NoChain
      <3> HIDE DEF NoChain
      <3>5. \A c \in Chain : broker[c].spent = {} /\ broker[c].issued \in Nat /\ broker[c].state # "reused"
        BY <3>3, <3>4
      <3>6. QED
        BY <2>1, <3>1, <3>4, <3>5
    <2>4. QED
      BY <2>2, <2>3
  <1>2. \A p \in Process : proc[p].pc = "idle"
    BY DEF Init, Idle
  <1>3. SpentIssued /\ NewUnspent /\ SentOnce /\ GotUnspent /\ OwnChain
    BY <1>1, <1>2 DEF SpentIssued, NewUnspent, SentOnce, GotUnspent, OwnChain
  <1>4. HeldIssued
    BY <1>1, <1>2 DEF HeldIssued, Issued, Using
  <1>5. ChainKept
    BY <1>1 DEF ChainKept, ChainEndsOnlyByLoss, NotStranded
  <1>6. QED
    BY <1>3, <1>4, <1>5 DEF ChainInvariant

\* No step breaks the invariant of the chains.
LEMMA ChainStep ==
  SessionInvariant /\ SessionInvariant' /\ ChainInvariant /\ [Next]_vars => ChainInvariant'
  <1> SUFFICES ASSUME SessionInvariant, SessionInvariant', ChainInvariant, [Next]_vars
               PROVE  ChainInvariant'
    OBVIOUS
  <1>1. ASSUME NEW p \in Process, QuietStep(p)
        PROVE  ChainInvariant'
    BY <1>1, ChainQuietStep
  <1>2. ASSUME NEW p \in Process, AcquireLock(p) \/ RenewalStep(p) \/ Revoke(p)
        PROVE  ChainInvariant'
    BY <1>2, ChainRenewalStep, ChainSendStep, ChainGrantStep, ChainRotationStep DEF RenewalStep
  <1>3. ASSUME NEW p \in Process, SigninApproved(p)
        PROVE  ChainInvariant'
    BY <1>3, ChainApprovalStep
  <1>4. ASSUME NEW p \in Process, RecoverLock(p)
        PROVE  ChainInvariant'
    BY <1>4, HandsStill, TokensStaySteps DEF RecoverLock, Store
  <1>5. CASE ClearTerminal \/ Time \/ UNCHANGED vars
    <2>1. proc' = proc /\ session' = session /\ lost' = lost
      BY <1>5 DEF ClearTerminal, Time, Expire, RetryDue, GraceOver, MarkerExpires, vars, Store
    <2>2. \/ broker' = broker
          \/ broker' = [c \in Chain |-> [broker[c] EXCEPT !.late = broker[c].spent]]
      BY <1>5 DEF ClearTerminal, Time, Expire, RetryDue, GraceOver, MarkerExpires, vars
    <2>3. QED
      BY <2>1, <2>2, HandsStill, TokensStaySteps
  <1>6. QED
    BY <1>1, <1>2, <1>3, <1>4, <1>5
       DEF Next, Start, Renewal, Signin, QuietStep, RenewalStep

\* Renewals never cost a session its chain: the broker ends a chain for the reuse of a
\* token only if the answer to its first use never reached the store, and the session is
\* left on a spent token only then (license-renewal.js, renewAndRecord; credstore.js,
\* commitRotation).
THEOREM RenewalsKeepTheChain == Spec => []ChainKept
  <1>1. Init => SessionInvariant /\ ChainInvariant
    BY SessionInit, ChainInit
  <1>2. SessionInvariant /\ ChainInvariant /\ [Next]_vars => (SessionInvariant /\ ChainInvariant)'
    BY SessionStep, ChainStep
  <1>3. ChainInvariant => ChainKept
    BY DEF ChainInvariant
  <1>4. QED
    BY <1>1, <1>2, <1>3, PTL DEF Spec

-----------------------------------------------------------------------------
(* The status record.                                                        *)

Dead(t) == t # None => broker[t.chain].state \in {"revoked", "reused"}

\* The record is of no later sign-in than the session, and if it is of this one and asks
\* for a new sign-in, then the session's chain is dead.
StatusOfThisSignin ==
  /\ status.stamp.generation <= session.generation
  /\ /\ status.terminal = "reactivation_required"
     /\ status.stamp.generation = session.generation /\ session.license # None
     => Dead(session.refresh)

\* A renewal about to record that it was rejected settles a session whose chain is dead.
RejectedForGood ==
  \A p \in Process : proc[p].pc = "record" =>
    /\ proc[p].outcome \in {"rotated", "transient", "rejected"}
    /\ proc[p].outcome = "rejected" => Dead(proc[p].exp.refresh)

StatusInvariant == StatusOfThisSignin /\ RejectedForGood

\* A dead chain stays dead.
LEMMA DeadStays ==
  ASSUME SessionInvariant, [Next]_vars, NEW t \in Maybe(Token), Dead(t)
  PROVE  Dead(t)'
  <1> DEFINE dead == {"revoked", "reused"}
  <1>0. broker \in [Chain -> ChainState] /\ \A c \in Chain : broker[c] \in ChainState
        /\ TypeOK
    BY DEF SessionInvariant, TypeOK
  <1> SUFFICES ASSUME t \in Token, broker[t.chain].state \in dead, t.chain \in Chain
               PROVE  broker'[t.chain].state \in dead
    BY DEF Dead, Maybe, Token
  <1>1. CASE broker' = broker
    BY <1>1
  <1>2. ASSUME NEW p \in Process, Grant(p) \/ GrantFails(p)
        PROVE  broker'[t.chain].state \in dead
    <2> DEFINE u == proc[p].sent
    <2>1. u.chain \in Chain
      BY <1>2, HandsTyped DEF Grant, GrantFails, At, Using
    <2>2. \/ broker' = broker \/ broker' = Rotated(u) \/ broker' = Rejected(u)
      BY <1>2 DEF Grant, GrantFails
    <2>3. CASE broker' = Rotated(u)
      <3> DEFINE reused == IF u.n \in broker[u.chain].spent THEN broker[u.chain].reused \cup {u.n}
                           ELSE broker[u.chain].reused
      <3>1. broker' = [broker EXCEPT ![u.chain] =
                         [broker[u.chain] EXCEPT !.issued = @ + 1, !.spent = @ \cup {u.n},
                                                 !.reused = reused]]
        BY <1>0, <2>1, <2>3 DEF Rotated, ChainState
      <3> HIDE DEF reused, u
      <3>2. QED
        BY <1>0, <2>1, <3>1 DEF ChainState
    <2>4. CASE broker' = Rejected(u)
      BY <1>0, <2>1, <2>4 DEF Rejected, ChainState
    <2>5. QED
      BY <2>2, <2>3, <2>4
  <1>3. ASSUME NEW p \in Process, Exchange(p)
        PROVE  broker'[t.chain].state \in dead
    BY SMTT(30), <1>0, <1>3 DEF Exchange, ChainState
  <1>4. ASSUME NEW p \in Process, Revoke(p)
        PROVE  broker'[t.chain].state \in dead
    BY <1>0, <1>4 DEF Revoke, ChainState
  <1>5. ASSUME NEW p \in Process, SigninApproved(p)
        PROVE  broker'[t.chain].state \in dead
    BY <1>0, <1>5 DEF SigninApproved, ChainState
  <1>6. CASE GraceOver
    BY <1>0, <1>6 DEF GraceOver, ChainState
  <1>7. QED
    BY <1>1, <1>2, <1>3, <1>4, <1>5, <1>6, BrokerFrame

\* Only six steps write the status record.
LEMMA StatusFrame ==
  ASSUME [Next]_vars
  PROVE  \/ status' = status
         \/ \E p \in Process : Record(p) \/ DropSession(p) \/ SigninClear(p) \/ SigninCommit(p)
         \/ ClearTerminal \/ RetryDue
  <1> USE DEF Records
  <1>1. ASSUME NEW p \in Process,
               RenewSkipped(p) \/ AcquireLock(p) \/ RecoverLock(p) \/ Reread(p) \/ Expect(p)
               \/ Send(p) \/ Grant(p) \/ GrantFails(p) \/ CommitRotation(p) \/ Exchange(p)
               \/ CommitRefresh(p) \/ Revoke(p) \/ Release(p)
        PROVE  status' = status
    BY <1>1 DEF RenewSkipped, AcquireLock, RecoverLock, Reread, Expect, Send, Grant,
                GrantFails, CommitRotation, Exchange, CommitRefresh, Revoke, Release
  <1>2. ASSUME NEW p \in Process,
               SigninEngage(p) \/ SigninMark(p) \/ SigninApproved(p) \/ SigninFailed(p)
               \/ Signout(p) \/ Crash(p)
        PROVE  status' = status
    BY <1>2 DEF SigninEngage, SigninMark, SigninApproved, SigninFailed, Signout, Crash
  <1>3. ASSUME NEW p \in Process, Start(p)
        PROVE  status' = status
    BY <1>3 DEF Start, RenewStart, SigninStart, SignoutStart
  <1>4. CASE Expire \/ GraceOver \/ MarkerExpires \/ UNCHANGED vars
    BY <1>4 DEF Expire, GraceOver, MarkerExpires, vars
  <1>5. QED
    BY <1>1, <1>2, <1>3, <1>4 DEF Next, Renewal, Signin, Time

\* The record is stamped with the session, and ends a session only for its dead chain.
LEMMA StatusStep ==
  ASSUME ~ Codex, SessionInvariant, SessionInvariant', StatusInvariant, [Next]_vars
  PROVE  StatusOfThisSignin'
  <1> USE DEF Store
  <1> DEFINE g  == session.generation
             RR == "reactivation_required"
             Fits(st, s) ==
               /\ st.stamp.generation <= s.generation
               /\ st.terminal = RR /\ st.stamp.generation = s.generation /\ s.license # None =>
                    (s.refresh # None => broker'[s.refresh.chain].state \in {"revoked", "reused"})
  <1>0. /\ TypeOK /\ session \in Session /\ g \in Nat /\ session' \in Session
        /\ status \in Status /\ status.stamp.generation \in Nat /\ status.stamp.generation <= g
        /\ session.refresh \in Maybe(Token)
        /\ \A s \in Session : s.generation \in Nat
    BY DEF SessionInvariant, TypeOK, Status, Stamp, Session, StatusInvariant, StatusOfThisSignin
  <1>1. Fits(status, session)
    BY <1>0, DeadStays DEF StatusInvariant, StatusOfThisSignin, Dead
  <1>2. ASSUME NEW s \in Session, s.generation = g + 1
        PROVE  Fits(status, s)
    BY <1>0, <1>2
  <1>3. ASSUME NEW st \in Status, st.terminal # RR, NEW s \in Session
        PROVE  Fits(Stamped(st, s), s)
    BY <1>0, <1>3 DEF Stamped, Context, Status
  <1> SUFFICES Fits(status', session')
    BY DEF StatusOfThisSignin, Dead
  <1>4. CASE session' = session /\ status' = status
    BY <1>1, <1>4
  <1> HIDE DEF Fits
  <1>5. ASSUME NEW p \in Process, CommitRotation(p)
        PROVE  Fits(status', session')
    <2>1. status' = status /\ broker' = broker
      BY <1>5 DEF CommitRotation, Records
    <2>2. CASE session' = session
      BY <1>1, <2>1, <2>2
    <2>3. CASE Matches(proc[p].exp) /\ session' = [session EXCEPT !.refresh = proc[p].got]
      <3>1. /\ session.refresh # None /\ proc[p].got.chain = session.refresh.chain
        BY <1>5, <2>3 DEF CommitRotation, At, Matches, SessionInvariant, Shape, Shaped, Settling,
                          InHand, Carries
      <3>2. session'.license = session.license /\ session'.generation = g
            /\ session'.refresh = proc[p].got
        BY <1>0, <2>3 DEF Session
      <3>3. QED
        BY <1>1, <2>1, <3>1, <3>2 DEF Fits
    <2>4. QED
      BY <1>5, <2>2, <2>3 DEF CommitRotation
  <1>6. ASSUME NEW p \in Process, CommitRefresh(p)
        PROVE  Fits(status', session')
    <2>1. status' = status
      BY <1>6 DEF CommitRefresh, Records
    <2>2. CASE session' = session
      BY <1>1, <2>1, <2>2
    <2>3. CASE Matches(proc[p].exp) /\ session' = [session EXCEPT !.license = proc[p].license]
      <3>1. session.license # None
        BY <1>6, <2>3 DEF CommitRefresh, At, Matches, SessionInvariant, InHand, Carries, Settling
      <3>2. session'.refresh = session.refresh /\ session'.generation = g
        BY <1>0, <2>3 DEF Session
      <3>3. QED
        BY <1>1, <2>1, <3>1, <3>2 DEF Fits
    <2>4. QED
      BY <1>6, <2>2, <2>3 DEF CommitRefresh
  <1>7. ASSUME NEW p \in Process, SigninEngage(p) \/ Signout(p)
        PROVE  Fits(status', session')
    <2>1. status' = status
      BY <1>7 DEF SigninEngage, Signout, Records
    <2>2. session' = session \/ session'.generation = g + 1
      BY <1>0, <1>7 DEF SigninEngage, Signout, Session, NoSession
    <2>3. QED
      BY <1>0, <1>1, <1>2, <2>1, <2>2
  <1>8. ASSUME NEW p \in Process, DropSession(p)
        PROVE  Fits(status', session')
    <2>1. Ended("revoked") \in Status /\ Ended("revoked").terminal = "revoked"
      BY StatusTyped, <1>0 DEF Reason, Ended, NoOutcome
    <2>2. \/ session' = session /\ status' = status
          \/ status' = Stamped(Ended("revoked"), session')
      BY <1>8 DEF DropSession
    <2>3. QED
      BY <1>0, <1>3, <1>4, <2>1, <2>2
  <1>9. ASSUME NEW p \in Process, SigninCommit(p)
        PROVE  Fits(status', session')
    <2>1. NoOutcome("none") \in Status /\ NoOutcome("none").terminal = "none"
      BY StatusTyped, <1>0 DEF Reason, NoOutcome
    <2>2. \/ session' = session /\ status' = status
          \/ status' = Stamped(NoOutcome("none"), session')
      BY <1>9 DEF SigninCommit, Records
    <2>3. QED
      BY <1>0, <1>3, <1>4, <2>1, <2>2
  <1>10. ASSUME session' = session, NEW last \in Reason, status' = Stamped(NoOutcome(last), session)
         PROVE  Fits(status', session')
    <2>1. NoOutcome(last) \in Status /\ NoOutcome(last).terminal = "none"
      BY StatusTyped, <1>0 DEF NoOutcome
    <2>2. QED
      BY <1>0, <1>3, <1>10, <2>1
  <1>11. ASSUME ClearTerminal \/ \E p \in Process : SigninClear(p)
         PROVE  Fits(status', session')
    <2>1. LastTerminal(ReadStatus) \in Reason
      BY StatusTyped, <1>0
    <2>2. QED
      BY <1>10, <1>11, <2>1 DEF SigninClear, ClearTerminal
  <1>12. CASE RetryDue
    BY <1>0, <1>1, <1>12 DEF RetryDue, Fits, Status
  <1>13. ASSUME NEW p \in Process, Record(p)
         PROVE  Fits(status', session')
    <2>1. session' = session /\ broker' = broker
      BY <1>13 DEF Record
    <2>2. CASE status' = status
      BY <1>4, <2>1, <2>2
    <2>3. CASE Matches(proc[p].exp) /\ status' = Stamped(OutcomeStatus(proc[p].outcome), session)
      <3> DEFINE o == proc[p].outcome
      <3>1. o \in {"rotated", "transient", "rejected"} /\ (o = "rejected" => Dead(session.refresh))
        BY <1>13, <2>3 DEF Record, At, StatusInvariant, RejectedForGood, Matches
      <3>2. CASE o = "rotated"
        BY <1>10, <2>1, <2>3, <3>2 DEF OutcomeStatus, Reason
      <3>3. CASE o = "rejected"
        <4>1. Stamped(OutcomeStatus(o), session).stamp.generation = g
          <5>1. OutcomeStatus(o) \in Status
            BY StatusTyped, <1>0
          <5>2. QED
            BY <5>1 DEF Stamped, Context, Status
        <4>2. QED
          BY <1>0, <2>1, <2>3, <3>1, <3>3, <4>1 DEF Fits, Dead
      <3>4. CASE o = "transient"
        <4>1. Failed \in Status /\ OutcomeStatus(o) = Failed
          <5>1. OutcomeStatus(o) = Failed
            BY <3>4 DEF OutcomeStatus
          <5>2. QED
            BY StatusTyped, <1>0, <5>1
        <4>2. Failed.terminal = RR => status.terminal = RR /\ status.stamp.generation = g
          <5>1. ReadStatus \in Status
            BY StatusTyped, <1>0
          <5>2. Failed.terminal = RR => ReadStatus.terminal = RR
            BY <5>1 DEF Failed, Status
          <5>3. ReadStatus.terminal = RR => status.stamp = Context(session) /\ ReadStatus = status
            BY DEF ReadStatus, NoOutcome
          <5>4. QED
            BY <5>2, <5>3 DEF Context
        <4>3. CASE Failed.terminal = RR
          <5>1. Stamped(Failed, session).stamp.generation = g
            BY <4>1 DEF Stamped, Context, Status
          <5>2. session.license # None => Dead(session.refresh)
            BY <4>2, <4>3 DEF StatusInvariant, StatusOfThisSignin
          <5>3. QED
            BY <1>0, <2>1, <2>3, <4>1, <5>1, <5>2 DEF Fits, Dead
        <4>4. CASE Failed.terminal # RR
          BY <1>0, <1>3, <2>1, <2>3, <4>1, <4>4
        <4>5. QED
          BY <4>3, <4>4
      <3>5. QED
        BY <3>1, <3>2, <3>3, <3>4
    <2>4. QED
      BY <1>13, <2>2, <2>3 DEF Record
  <1>14. QED
    <2>1. \/ session' = session
          \/ \E p \in Process : CommitRotation(p) \/ CommitRefresh(p) \/ DropSession(p)
                              \/ SigninEngage(p) \/ SigninCommit(p) \/ Signout(p)
      BY SessionFrame
    <2>2. QED
      BY <1>4, <1>5, <1>6, <1>7, <1>8, <1>9, <1>11, <1>12, <1>13, <2>1, StatusFrame

\* Every outcome a renewal is about to record is one of the three, and a rejection comes
\* with a chain that is dead.
LEMMA RejectedStep ==
  ASSUME SessionInvariant, SessionInvariant', StatusInvariant, [Next]_vars
  PROVE  RejectedForGood'
  <1> DEFINE Out(r) == /\ r.outcome \in {"rotated", "transient", "rejected"}
                       /\ r.outcome = "rejected" /\ r.exp.refresh # None =>
                            broker'[r.exp.refresh.chain].state \in {"revoked", "reused"}
             Fine(r) == r.pc = "record" => Out(r)
  <1>0. /\ TypeOK
        /\ \A p \in Process : /\ proc[p] \in Proc /\ Carries(proc[p]) /\ Shaped(proc[p])
                             /\ proc[p].exp \in Session /\ proc[p].exp.refresh \in Maybe(Token)
                             /\ Exists(proc[p].exp.refresh)
    BY DEF SessionInvariant, TypeOK, InHand, Shape, TokensExist, Proc, Session
  <1>1. ASSUME NEW p \in Process
        PROVE  Fine(proc[p])
    BY <1>0, <1>1, DeadStays DEF StatusInvariant, RejectedForGood, Dead
  <1> HIDE DEF Fine
  <1>2. ASSUME NEW q \in Process, Fine(proc'[q]), \A p \in Process \ {q} : proc'[p] = proc[p]
        PROVE  \A p \in Process : Fine(proc'[p])
    BY <1>1, <1>2
  <1>3. ASSUME NEW q \in Process, NEW r, To(q, r), Fine(r)
        PROVE  \A p \in Process : Fine(proc'[p])
    BY <1>0, <1>2, <1>3, ProcStep
  <1>4. ASSUME NEW r, r.pc # "record"
        PROVE  Fine(r)
    BY <1>4 DEF Fine
  <1>5. ASSUME NEW q \in Process, QuietStep(q)
        PROVE  \A p \in Process : Fine(proc'[p])
    <2>1. proc'[q].pc # "record"
      BY <1>0, <1>5, QuietSteps DEF Quiet
    <2>2. QED
      BY <1>0, <1>2, <1>4, <1>5, <2>1, QuietSteps
  <1>6. ASSUME NEW q \in Process, SigninApproved(q)
        PROVE  \A p \in Process : Fine(proc'[p])
    <2>1. proc'[q].pc # "record"
      BY <1>0, <1>6, ApprovalSteps
    <2>2. QED
      BY <1>0, <1>2, <1>4, <1>6, <2>1, ApprovalSteps
  <1>7. ASSUME NEW q \in Process, NEW pc \in PC \ {"record"}, Goto(q, pc)
        PROVE  \A p \in Process : Fine(proc'[p])
    <2>1. [proc[q] EXCEPT !.pc = pc].pc = pc
      BY <1>0 DEF Proc
    <2>2. QED
      BY <1>3, <1>4, <1>7, <2>1 DEF Goto
  <1>8. ASSUME NEW q \in Process, NEW o \in {"none", "threw"},
               To(q, [Idle EXCEPT !.pc = "release", !.outcome = o]) \/ To(q, Idle) \/ Finish(q)
        PROVE  \A p \in Process : Fine(proc'[p])
    <2>1. /\ [Idle EXCEPT !.pc = "release", !.outcome = o].pc = "release"
          /\ [Idle EXCEPT !.pc = "release"].pc = "release" /\ Idle.pc = "idle"
      BY DEF Idle
    <2>2. QED
      BY <1>3, <1>4, <1>8, <2>1 DEF Finish
  <1>9. ASSUME NEW q \in Process, NEW r, r.outcome \in {"rotated", "transient"}, To(q, r)
        PROVE  \A p \in Process : Fine(proc'[p])
    <2>1. Fine(r)
      BY <1>9 DEF Fine
    <2>2. QED
      BY <1>3, <1>9, <2>1
  <1>10. ASSUME NEW q \in Process, Settle(q, "transient")
         PROVE  \A p \in Process : Fine(proc'[p])
    <2> DEFINE r == [proc[q] EXCEPT !.pc = "record", !.outcome = "transient"]
    <2>1. r.outcome = "transient" /\ To(q, r)
      BY <1>0, <1>10 DEF Proc, Settle
    <2> HIDE DEF r
    <2>2. QED
      BY <1>9, <2>1
  <1>11. ASSUME NEW q \in Process, Reread(q) \/ AcquireLock(q)
         PROVE  \A p \in Process : Fine(proc'[p])
    BY <1>7, <1>8, <1>11 DEF Reread, AcquireLock, PC
  <1>12. ASSUME NEW q \in Process, Expect(q)
         PROVE  \A p \in Process : Fine(proc'[p])
    <2> DEFINE a == [proc[q] EXCEPT !.pc = "send", !.exp = session]
               b == [proc[q] EXCEPT !.pc = "record", !.exp = session, !.outcome = "rejected"]
    <2>1. a.pc = "send" /\ b.outcome = "rejected" /\ b.exp = session
      BY <1>0 DEF Proc
    <2>2. \/ Finish(q) \/ To(q, a) \/ (session.refresh = None /\ To(q, b))
      BY <1>12 DEF Expect
    <2> HIDE DEF a, b
    <2>3. session.refresh = None => Fine(b)
      BY <2>1 DEF Fine
    <2>4. Fine(a)
      BY <2>1, <1>4
    <2>5. QED
      BY <1>3, <1>8, <2>2, <2>3, <2>4
  <1>13. ASSUME NEW q \in Process, Send(q)
         PROVE  \A p \in Process : Fine(proc'[p])
    <2> DEFINE a == [proc[q] EXCEPT !.pc = "waiting", !.sent = session.refresh]
    <2>1. a.pc = "waiting"
      BY <1>0 DEF Proc
    <2>2. Finish(q) \/ To(q, a)
      BY <1>13 DEF Send
    <2> HIDE DEF a
    <2>3. QED
      BY <1>3, <1>4, <1>8, <2>1, <2>2
  <1>14. ASSUME NEW q \in Process, Grant(q)
         PROVE  \A p \in Process : Fine(proc'[p])
    <2> DEFINE t == proc[q].sent
               a == [proc[q] EXCEPT !.pc = "rotate", !.got = NextOf(t)]
               b == [proc[q] EXCEPT !.pc = "record", !.outcome = "rejected"]
    <2>1. /\ a.pc = "rotate" /\ b.outcome = "rejected" /\ b.exp.refresh = t
          /\ t \in Token /\ t.chain \in Chain /\ broker[t.chain].state # "none"
      <3>1. proc[q].pc = "waiting" /\ t \in Token /\ t.chain \in Chain
        BY <1>14, HandsTyped DEF Grant, At, Using
      <3>2. proc[q].exp.refresh = t /\ t # None
        BY <1>0, <3>1 DEF Carries, Shaped
      <3>3. a.pc = "rotate" /\ b.outcome = "rejected" /\ b.exp = proc[q].exp
        BY <1>0 DEF Proc
      <3>4. QED
        BY <1>0, <3>1, <3>2, <3>3 DEF Exists
    <2>2. \/ To(q, a) \/ Goto(q, "exchange")
          \/ ~ Accepts(t) /\ broker' = Rejected(t) /\ To(q, b)
      BY <1>14 DEF Grant, Settle
    <2> HIDE DEF a, b, t
    <2>3. CASE broker' = Rejected(t)
      <3>1. broker'[t.chain].state = IF broker[t.chain].state = "live" THEN "reused"
                                     ELSE broker[t.chain].state
        BY <1>0, <2>1, <2>3 DEF Rejected, TypeOK, ChainState
      <3>2. broker[t.chain].state \in {"none", "live", "revoked", "reused"}
        BY <1>0, <2>1 DEF TypeOK, ChainState
      <3>3. broker'[t.chain].state \in {"revoked", "reused"}
        BY <2>1, <3>1, <3>2
      <3>4. Fine(b)
        BY  <2>1, <3>3 DEF Fine
      <3>5. Fine(a)
        BY <2>1, <1>4
      <3>6. QED
        BY <1>3, <1>7, <2>2, <3>4, <3>5 DEF PC
    <2>4. QED
      <3>1. Fine(a)
        BY <2>1, <1>4
      <3>2. QED
        BY <1>3, <1>7, <2>2, <2>3, <3>1 DEF PC
  <1>15. ASSUME NEW q \in Process, GrantFails(q)
         PROVE  \A p \in Process : Fine(proc'[p])
    BY <1>10, <1>15 DEF GrantFails
  <1>16. ASSUME NEW q \in Process, CommitRotation(q)
         PROVE  \A p \in Process : Fine(proc'[p])
    <2> DEFINE a == [proc[q] EXCEPT !.pc = "exchange", !.exp.refresh = proc[q].got, !.got = None]
               b == [proc[q] EXCEPT !.pc = "record", !.outcome = "transient", !.got = None]
    <2>1. a.pc = "exchange" /\ b.outcome = "transient"
      BY <1>0 DEF Proc, Session
    <2>2. To(q, a) \/ Finish(q) \/ To(q, b)
      BY <1>16 DEF CommitRotation
    <2> HIDE DEF a, b
    <2>3. QED
      BY <1>3, <1>4, <1>8, <1>9, <2>1, <2>2
  <1>17. ASSUME NEW q \in Process, Exchange(q)
         PROVE  \A p \in Process : Fine(proc'[p])
    <2> DEFINE c == proc[q].exp.refresh.chain
               a(l) == [proc[q] EXCEPT !.pc = "refresh", !.license = l]
    <2>1. \A l : a(l).pc = "refresh"
      BY <1>0 DEF Proc
    <2>2. \/ To(q, a([chain |-> c, n |-> broker[c].licenses + 1]))
          \/ Goto(q, "drop") \/ Settle(q, "transient")
      BY <1>17 DEF Exchange
    <2> HIDE DEF a
    <2>3. QED
      BY <1>3, <1>4, <1>7, <1>10, <2>1, <2>2 DEF PC
  <1>18. ASSUME NEW q \in Process, CommitRefresh(q)
         PROVE  \A p \in Process : Fine(proc'[p])
    <2> DEFINE a == [proc[q] EXCEPT !.pc = "record", !.outcome = "rotated",
                                    !.exp.license = proc[q].license]
               b == [proc[q] EXCEPT !.pc = "record", !.outcome = "transient",
                                    !.exp.refresh = proc[q].sent]
    <2>1. a.outcome = "rotated" /\ b.outcome = "transient"
      BY <1>0 DEF Proc, Session
    <2>2. To(q, a) \/ Finish(q) \/ To(q, b)
      BY <1>18 DEF CommitRefresh
    <2> HIDE DEF a, b
    <2>3. QED
      BY <1>8, <1>9, <2>1, <2>2
  <1>19. ASSUME NEW q \in Process, Record(q)
         PROVE  \A p \in Process : Fine(proc'[p])
    BY <1>8, <1>19 DEF Record, Throw
  <1>20. ASSUME NEW q \in Process, DropSession(q)
         PROVE  \A p \in Process : Fine(proc'[p])
    <2> DEFINE a == [Idle EXCEPT !.pc = "revoke", !.got = proc[q].exp.refresh,
                                 !.sent = proc[q].exp.refresh]
    <2>1. a.pc = "revoke"
      BY DEF Idle
    <2>2. To(q, a) \/ Finish(q) \/ Throw(q)
      BY <1>20 DEF DropSession
    <2> HIDE DEF a
    <2>3. QED
      BY <1>3, <1>4, <1>8, <2>1, <2>2 DEF Throw
  <1>21. ASSUME NEW q \in Process, Revoke(q)
         PROVE  \A p \in Process : Fine(proc'[p])
    BY <1>8, <1>21 DEF Revoke
  <1>22. ASSUME proc' = proc
         PROVE  \A p \in Process : Fine(proc'[p])
    BY <1>1, <1>22
  <1>23. \A p \in Process : Fine(proc'[p])
    BY <1>5, <1>6, <1>11, <1>12, <1>13, <1>14, <1>15, <1>16, <1>17, <1>18, <1>19, <1>20,
       <1>21, <1>22, StepKinds DEF RenewalStep
  <1>24. QED
    BY <1>23 DEF Fine, RejectedForGood, Dead

\* At the start nothing is recorded.
LEMMA StatusInit == Init => StatusInvariant
  <1> SUFFICES ASSUME Init PROVE StatusInvariant
    OBVIOUS
  <1>1. status.terminal = "none" /\ status.stamp.generation = 0
    BY DEF Init, NoOutcome, Context, NoSession
  <1>2. session.generation \in {0, 1}
    BY DEF Init, NoSession
  <1>3. \A p \in Process : proc[p].pc = "idle"
    BY DEF Init, Idle
  <1>4. QED
    BY <1>1, <1>2, <1>3 DEF StatusInvariant, StatusOfThisSignin, RejectedForGood

\* A record that ends the session it is read with tells the truth about its chain.
LEMMA TerminalFromRecord == StatusInvariant => TerminalIsTrue
  <1> SUFFICES ASSUME StatusInvariant, session.license # None,
                      ReadStatus.terminal = "reactivation_required"
               PROVE  Dead(session.refresh)
    BY DEF TerminalIsTrue, Dead
  <1>1. status.stamp = Context(session) /\ status.terminal = "reactivation_required"
    BY DEF ReadStatus, NoOutcome
  <1>2. status.stamp.generation = session.generation
    BY <1>1 DEF Context
  <1>3. QED
    BY <1>1, <1>2 DEF StatusInvariant, StatusOfThisSignin

\* Claude Code asks for a new sign-in only if the session's chain is dead or there is no
\* refresh token: a late outcome of an earlier sign-in is never recorded against the
\* current one (recordSuccess, recordFailure and recordTerminal under withRecoveryCurrent).
\* The Codex client violates it, as the run codex_stale_outcome shows.
THEOREM SigninAskedForCause ==
  ASSUME ~ Codex
  PROVE  Spec => []TerminalIsTrue
  <1>1. Init => SessionInvariant /\ StatusInvariant
    BY SessionInit, StatusInit
  <1>2. SessionInvariant /\ StatusInvariant /\ [Next]_vars => (SessionInvariant /\ StatusInvariant)'
    <2> SUFFICES ASSUME SessionInvariant, StatusInvariant, [Next]_vars
                 PROVE  SessionInvariant' /\ StatusInvariant'
      OBVIOUS
    <2>1. SessionInvariant'
      BY SessionStep
    <2>2. StatusOfThisSignin' /\ RejectedForGood'
      BY <2>1, StatusStep, RejectedStep
    <2>3. QED
      BY <2>1, <2>2 DEF StatusInvariant
  <1>3. StatusInvariant => TerminalIsTrue
    BY TerminalFromRecord
  <1>4. QED
    BY <1>1, <1>2, <1>3, PTL DEF Spec

-----------------------------------------------------------------------------
(* The marker of a waiting sign-in.                                          *)

SigningIn == {"clear", "mark", "poll", "commit", "fail"}

\* A sign-in under way has an intent of its own, of no later generation than the session's.
OwnIntent ==
  \A p \in Process :
    /\ proc[p].intent <= session.generation
    /\ proc[p].pc \in SigningIn => proc[p].intent # 0
    /\ \A q \in Process \ {p} : proc[p].intent = proc[q].intent => proc[p].intent = 0

MarkerInvariant == OwnIntent /\ WaitingSigninReported

\* A session's generation stays or grows by one.
LEMMA GenerationGrows ==
  ASSUME TypeOK, [Next]_vars
  PROVE  session'.generation \in {session.generation, session.generation + 1}
  <1>0. session \in Session
    BY DEF TypeOK
  <1>1. ASSUME NEW p \in Process, CommitRotation(p) \/ CommitRefresh(p)
        PROVE  session'.generation = session.generation
    BY <1>0, <1>1 DEF CommitRotation, CommitRefresh, Session
  <1>2. ASSUME NEW p \in Process,
               DropSession(p) \/ SigninEngage(p) \/ SigninCommit(p) \/ Signout(p)
        PROVE  session'.generation \in {session.generation, session.generation + 1}
    <2> DEFINE n == session.generation + 1
    <2>1. /\ [NoSession EXCEPT !.generation = n].generation = n
          /\ [NoSession EXCEPT !.generation = n, !.signedOut = TRUE].generation = n
      BY DEF NoSession
    <2>2. \A b : [session EXCEPT !.generation = n, !.signedOut = b].generation = n
      BY <1>0 DEF Session
    <2> HIDE DEF n
    <2>3. CASE DropSession(p)
      BY <2>1, <2>3 DEF DropSession, Store, n
    <2>4. CASE SigninEngage(p)
      BY <1>0, <2>4 DEF SigninEngage, Session
    <2>5. CASE SigninCommit(p)
      <3> DEFINE r(b) == [license |-> proc[p].license, refresh |-> proc[p].got,
                          generation |-> n, signedOut |-> b]
      <3>1. \A b : r(b).generation = n
        OBVIOUS
      <3>2. session' = session \/ \E b : session' = r(b)
        BY <2>5 DEF SigninCommit, Store, n
      <3>3. QED
        BY <3>1, <3>2 DEF n
    <2>6. CASE Signout(p)
      BY <2>1, <2>6 DEF Signout, Store, n
    <2>7. QED
      BY <1>2, <2>3, <2>4, <2>5, <2>6
  <1>3. QED
    BY <1>1, <1>2, SessionFrame

\* Only engaging makes an intent; no other quiet step enters a sign-in, and only marking
\* starts the wait.
LEMMA IntentSteps ==
  ASSUME TypeOK, NEW p \in Process, QuietStep(p)
  PROVE  \/ /\ proc'[p].intent = session.generation + 1
            /\ session'.generation = session.generation + 1
            /\ proc'[p].pc # "poll"
         \/ /\ proc'[p].intent \in {0, proc[p].intent}
            /\ proc'[p].pc \in SigningIn =>
                 proc[p].pc \in SigningIn /\ proc'[p].intent = proc[p].intent
            /\ proc'[p].pc = "poll" => SigninMark(p)
  <1> DEFINE Kept(r) == /\ r.intent \in {0, proc[p].intent}
                        /\ r.pc \in SigningIn =>
                             proc[p].pc \in SigningIn /\ r.intent = proc[p].intent
                        /\ r.pc = "poll" => SigninMark(p)
             New(r)  == /\ r.intent = session.generation + 1
                        /\ session'.generation = session.generation + 1
                        /\ r.pc # "poll"
  <1> USE DEF SigningIn
  <1>0. proc[p] \in Proc /\ session \in Session
    BY DEF TypeOK
  <1>1. Kept(Idle)
    BY DEF Idle
  <1>2. ASSUME NEW r, To(p, r), Kept(r) \/ New(r)
        PROVE  Kept(proc'[p]) \/ New(proc'[p])
    BY <1>2, ProcStep
  <1>3. ASSUME NEW pc \in PC \ {"poll"}, Goto(p, pc), pc \in SigningIn => proc[p].pc \in SigningIn
        PROVE  Kept(proc'[p]) \/ New(proc'[p])
    <2> DEFINE r == [proc[p] EXCEPT !.pc = pc]
    <2>1. r.pc = pc /\ r.intent = proc[p].intent /\ To(p, r)
      BY <1>0, <1>3 DEF Proc, Goto
    <2> HIDE DEF r
    <2>2. QED
      BY <1>2, <1>3, <2>1
  <1> HIDE DEF Kept, New
  <1>4. ASSUME RenewStart(p) \/ SignoutStart(p)
        PROVE  Kept(proc'[p]) \/ New(proc'[p])
    <2> DEFINE a == [Idle EXCEPT !.pc = "acquire", !.snap = session.license]
               b == [Idle EXCEPT !.pc = "signout", !.got = session.refresh]
    <2>1. a.pc = "acquire" /\ a.intent = 0 /\ b.pc = "signout" /\ b.intent = 0
      BY DEF Idle
    <2>2. To(p, a) \/ To(p, b)
      BY <1>4 DEF RenewStart, SignoutStart
    <2> HIDE DEF a, b
    <2>3. QED
      BY <1>2, <2>1, <2>2 DEF Kept
  <1>5. ASSUME RenewSkipped(p) \/ Release(p) \/ Crash(p) \/ SigninFailed(p)
        PROVE  Kept(proc'[p]) \/ New(proc'[p])
    BY <1>1, <1>2, <1>5 DEF RenewSkipped, Release, Crash, SigninFailed
  <1>6. ASSUME NEW restart \in BOOLEAN, SigninStart(p, restart)
        PROVE  Kept(proc'[p]) \/ New(proc'[p])
    BY <1>3, <1>6 DEF SigninStart, PC
  <1>7. ASSUME SigninClear(p)
        PROVE  Kept(proc'[p]) \/ New(proc'[p])
    BY <1>3, <1>7 DEF SigninClear, PC, At
  <1>8. ASSUME SigninCommit(p)
        PROVE  Kept(proc'[p]) \/ New(proc'[p])
    BY <1>1, <1>2, <1>3, <1>8 DEF SigninCommit, PC, At
  <1>9. ASSUME SigninEngage(p)
        PROVE  Kept(proc'[p]) \/ New(proc'[p])
    <2> DEFINE n == session.generation + 1
               r == [Idle EXCEPT !.pc = IF Codex THEN "mark" ELSE "clear", !.intent = n]
    <2>1. r.pc # "poll" /\ r.intent = n
      BY DEF Idle
    <2>2. To(p, Idle) \/ (To(p, r) /\ session'.generation = n)
      BY <1>0, <1>9 DEF SigninEngage, Session
    <2> HIDE DEF r
    <2>3. QED
      BY <1>1, <1>2, <2>1, <2>2 DEF New
  <1>10. ASSUME SigninMark(p)
         PROVE  Kept(proc'[p]) \/ New(proc'[p])
    <2> DEFINE a == [proc[p] EXCEPT !.pc = "poll"]
               b == [proc[p] EXCEPT !.pc = "poll", !.outcome = "unmarked"]
    <2>1. a.intent = proc[p].intent /\ b.intent = proc[p].intent
      BY <1>0 DEF Proc
    <2>2. To(p, a) \/ To(p, Idle) \/ To(p, b)
      BY <1>10 DEF SigninMark, Goto
    <2>3. proc[p].pc = "mark"
      BY <1>10 DEF SigninMark, At
    <2> HIDE DEF a, b
    <2>4. Kept(a) /\ Kept(b)
      BY <1>10, <2>1, <2>3 DEF Kept
    <2>5. QED
      BY <1>1, <1>2, <2>2, <2>4
  <1>11. ASSUME Signout(p)
         PROVE  Kept(proc'[p]) \/ New(proc'[p])
    <2> DEFINE a == [proc[p] EXCEPT !.pc = "revoke", !.sent = session.refresh]
    <2>1. a.intent = proc[p].intent /\ a.pc = "revoke"
      BY <1>0 DEF Proc
    <2>2. To(p, a) \/ To(p, Idle)
      BY <1>11 DEF Signout
    <2> HIDE DEF a
    <2>3. QED
      BY <1>1, <1>2, <2>1, <2>2 DEF Kept
  <1>12. QED
    BY <1>4, <1>5, <1>6, <1>7, <1>8, <1>9, <1>10, <1>11 DEF QuietStep, Kept, New

\* Only a sign-in, or its code's expiry, changes the marker.
LEMMA PendingFrame ==
  ASSUME [Next]_vars
  PROVE  \/ pending' = pending
         \/ MarkerExpires
         \/ \E p \in Process : SigninMark(p) \/ SigninCommit(p) \/ SigninFailed(p)
  <1> USE DEF Records
  <1>1. ASSUME NEW p \in Process, Renewal(p)
        PROVE  pending' = pending
    BY <1>1 DEF Renewal, RenewSkipped, AcquireLock, RecoverLock, Reread, Expect, Send, Grant,
                GrantFails, CommitRotation, Exchange, CommitRefresh, Record, DropSession,
                Revoke, Release
  <1>2. ASSUME NEW p \in Process,
               SigninEngage(p) \/ SigninClear(p) \/ SigninApproved(p) \/ Signout(p)
               \/ Crash(p) \/ Start(p)
        PROVE  pending' = pending
    BY <1>2 DEF SigninEngage, SigninClear, SigninApproved, Signout, Crash, Start, RenewStart,
                SigninStart, SignoutStart
  <1>3. CASE ClearTerminal \/ Expire \/ RetryDue \/ GraceOver \/ UNCHANGED vars
    BY <1>3 DEF ClearTerminal, Expire, RetryDue, GraceOver, vars
  <1>4. QED
    BY <1>1, <1>2, <1>3 DEF Next, Signin, Time

\* Intents stay distinct, and no intent is of a later generation than the session's.
LEMMA OwnIntentStep ==
  ASSUME SessionInvariant, OwnIntent, [Next]_vars
  PROVE  OwnIntent'
  <1> DEFINE g == session.generation
             New(p)  == proc'[p].intent = g + 1 /\ session'.generation = g + 1
             Kept(p) == /\ proc'[p].intent \in {0, proc[p].intent}
                        /\ proc'[p].pc \in SigningIn =>
                             proc[p].pc \in SigningIn /\ proc'[p].intent = proc[p].intent
  <1>0. /\ TypeOK /\ g \in Nat /\ \A p \in Process : proc[p].intent \in Nat
        /\ session'.generation \in {g, g + 1}
    <2>1. TypeOK
      BY DEF SessionInvariant
    <2>2. QED
      BY <2>1, GenerationGrows DEF TypeOK, Session, Proc
  <1>1. ASSUME NEW p \in Process, New(p) \/ Kept(p), \A q \in Process \ {p} : proc'[q] = proc[q]
        PROVE  OwnIntent'
    <2>1. \A q \in Process \ {p} : proc'[q].intent = proc[q].intent /\ proc'[q].pc = proc[q].pc
      BY <1>1
    <2>2. CASE New(p)
      <3>1. \A q \in Process \ {p} : proc'[q].intent # proc'[p].intent
        BY <1>0, <2>1, <2>2 DEF OwnIntent
      <3>2. QED
        BY <1>0, <2>1, <2>2, <3>1 DEF OwnIntent
    <2>3. CASE Kept(p)
      <3> HIDE DEF g, Kept
      <3>1. /\ proc'[p].intent \in {0, proc[p].intent}
            /\ proc'[p].pc \in SigningIn =>
                 proc[p].pc \in SigningIn /\ proc'[p].intent = proc[p].intent
        BY <2>3 DEF Kept
      <3>2. \A q \in Process : proc'[q].intent <= session'.generation
        <4>1. ASSUME NEW q \in Process
              PROVE  proc[q].intent <= g /\ proc[q].intent \in Nat
          BY <1>0 DEF OwnIntent, g
        <4>2. \A q \in Process : proc'[q].intent \in {0, proc[q].intent}
          BY <2>1, <3>1
        <4>3. QED
          BY <1>0, <4>1, <4>2
      <3>3. \A q \in Process : proc'[q].pc \in SigningIn => proc'[q].intent # 0
        BY <2>1, <3>1 DEF OwnIntent
      <3>4. \A q \in Process : \A r \in Process \ {q} :
              proc'[q].intent = proc'[r].intent => proc'[q].intent = 0
        BY <2>1, <3>1 DEF OwnIntent
      <3>5. QED
        BY <3>2, <3>3, <3>4 DEF OwnIntent
    <2>4. QED
      BY <1>1, <2>2, <2>3
  <1>2. ASSUME NEW p \in Process, QuietStep(p)
        PROVE  OwnIntent'
    BY <1>0, <1>1, <1>2, IntentSteps, QuietSteps
  <1>3. ASSUME NEW p \in Process, AcquireLock(p) \/ RenewalStep(p) \/ Revoke(p)
        PROVE  OwnIntent'
    <2>1. /\ proc'[p].pc \in Renewing \cup {"idle", "revoke"}
          /\ proc'[p].intent \in {0, proc[p].intent}
          /\ \A q \in Process \ {p} : proc'[q] = proc[q]
      BY <1>0, <1>3, RenewalSteps
    <2>2. proc'[p].pc \notin SigningIn
      BY <2>1 DEF Renewing, Settling, SigningIn
    <2>3. QED
      BY <1>1, <2>1, <2>2
  <1>4. ASSUME NEW p \in Process, SigninApproved(p)
        PROVE  OwnIntent'
    <2>1. /\ proc[p].pc \in SigningIn /\ proc'[p].intent = proc[p].intent
          /\ \A q \in Process \ {p} : proc'[q] = proc[q]
      BY <1>0, <1>4, ApprovalSteps DEF SigningIn
    <2>2. QED
      BY <1>1, <2>1
  <1>5. ASSUME proc' = proc
        PROVE  OwnIntent'
    BY <1>0, <1>5 DEF OwnIntent
  <1>6. QED
    BY <1>2, <1>3, <1>4, <1>5, StepKinds

\* A process polls only as before or because it has just marked.
LEMMA PollingSteps ==
  ASSUME TypeOK, [Next]_vars, NEW p \in Process, proc'[p].pc = "poll"
  PROVE  proc'[p] = proc[p] \/ SigninMark(p)
  <1>1. ASSUME NEW q \in Process, QuietStep(q)
        PROVE  proc'[p] = proc[p] \/ SigninMark(p)
    <2>1. CASE q = p
      BY <1>1, <2>1, IntentSteps
    <2>2. CASE q # p
      BY <1>1, <2>2, QuietSteps
    <2>3. QED
      BY <2>1, <2>2
  <1>2. ASSUME NEW q \in Process, AcquireLock(q) \/ RenewalStep(q) \/ Revoke(q)
        PROVE  proc'[p] = proc[p]
    BY <1>2, RenewalSteps DEF Renewing, Settling
  <1>3. ASSUME NEW q \in Process, SigninApproved(q)
        PROVE  proc'[p] = proc[p]
    BY <1>3, ApprovalSteps
  <1>4. QED
    BY <1>1, <1>2, <1>3, StepKinds

\* While the newest attempt polls, no other sign-in replaces its marker.
LEMMA WaitingSigninStep ==
  ASSUME ~ Codex, SessionInvariant, MarkerInvariant, [Next]_vars
  PROVE  WaitingSigninReported'
  <1> DEFINE g == session.generation
  <1>0. /\ TypeOK /\ g \in Nat /\ session'.generation \in {g, g + 1}
        /\ \A p \in Process : proc[p] \in Proc /\ proc[p].intent \in Nat
        /\ OwnIntent /\ WaitingSigninReported
    <2>1. TypeOK
      BY DEF SessionInvariant
    <2>2. QED
      BY <2>1, GenerationGrows DEF TypeOK, Session, Proc, MarkerInvariant
  <1> SUFFICES ASSUME NEW p \in Process, proc'[p].pc = "poll",
                      proc'[p].intent = session'.generation, proc'[p].outcome # "unmarked"
               PROVE  pending'.result = "pending" /\ pending'.intent = session'.generation
    BY DEF WaitingSigninReported, IsPending
  <1>1. CASE SigninMark(p)
    <2> DEFINE a == [proc[p] EXCEPT !.pc = "poll"]
               b == [proc[p] EXCEPT !.pc = "poll", !.outcome = "unmarked"]
               m == [result |-> "pending", intent |-> proc[p].intent]
    <2>1. session' = session /\ a.intent = proc[p].intent /\ b.outcome = "unmarked"
      BY <1>0, <1>1 DEF SigninMark, Store, Proc
    <2>2. Idle.pc # "poll"
      BY DEF Idle
    <2>3. \/ /\ pending' = IF proc[p].intent = g THEN m ELSE pending
             /\ To(p, a)
          \/ To(p, Idle) \/ To(p, b)
      BY <1>1 DEF SigninMark, Goto
    <2> HIDE DEF a, b
    <2>4. /\ pending' = IF proc[p].intent = g THEN m ELSE pending
          /\ proc'[p] = a
      BY <1>0, <2>1, <2>2, <2>3, ProcStep
    <2>5. QED
      BY <2>1, <2>4
  <1>2. CASE proc'[p] = proc[p] /\ ~ SigninMark(p)
    <2>1. proc[p].intent <= g /\ proc[p].intent # 0
      BY <1>0, <1>2 DEF OwnIntent, SigningIn
    <2>2. session'.generation = g /\ proc[p].intent = g
      BY <1>0, <1>2, <2>1
    <2>3. pending.result = "pending" /\ pending.intent = g
      BY <1>0, <1>2, <2>2 DEF WaitingSigninReported, IsPending
    <2>4. ASSUME NEW q \in Process, q # p
          PROVE  proc[q].intent # g
      BY <1>0, <2>1, <2>2, <2>4 DEF OwnIntent
    <2>5. ASSUME NEW q \in Process, SigninMark(q)
          PROVE  pending' = pending
      BY <1>2, <2>4, <2>5 DEF SigninMark
    <2>6. ASSUME NEW q \in Process, SigninCommit(q)
          PROVE  pending' = pending
      <3>1. q # p
        BY <1>2, <2>6 DEF SigninCommit, At
      <3>2. QED
        BY <2>4, <2>6, <3>1 DEF SigninCommit, Records
    <2>7. ASSUME NEW q \in Process, SigninFailed(q)
          PROVE  pending' = pending
      <3>1. q # p
        BY <1>2, <2>7 DEF SigninFailed, At
      <3>2. QED
        BY <2>4, <2>7, <3>1 DEF SigninFailed
    <2>8. ~ MarkerExpires
      BY <2>2, <2>3 DEF MarkerExpires
    <2>9. pending' = pending
      BY <2>5, <2>6, <2>7, <2>8, PendingFrame
    <2>10. QED
      BY <2>2, <2>3, <2>9
  <1>3. QED
    BY <1>0, <1>1, <1>2, PollingSteps

\* Claude Code: while the newest sign-in polls for approval its marker says so, whatever
\* earlier attempts, sign-outs and renewals do meanwhile (pending.mark, publishResult and
\* failed compare the intent under the session's lock).
THEOREM WaitingSigninIsReported ==
  ASSUME ~ Codex
  PROVE  Spec => []WaitingSigninReported
  <1>1. Init => SessionInvariant /\ MarkerInvariant
    <2> SUFFICES ASSUME Init PROVE MarkerInvariant
      BY SessionInit
    <2>1. session.generation \in {0, 1}
      BY DEF Init, NoSession
    <2>2. \A p \in Process : proc[p].pc = "idle" /\ proc[p].intent = 0
      BY DEF Init, Idle
    <2>3. QED
      BY <2>1, <2>2 DEF MarkerInvariant, OwnIntent, WaitingSigninReported, SigningIn
  <1>2. SessionInvariant /\ MarkerInvariant /\ [Next]_vars => (SessionInvariant /\ MarkerInvariant)'
    BY SessionStep, OwnIntentStep, WaitingSigninStep DEF MarkerInvariant
  <1>3. MarkerInvariant => WaitingSigninReported
    BY DEF MarkerInvariant
  <1>4. QED
    BY <1>1, <1>2, <1>3, PTL DEF Spec
=============================================================================
