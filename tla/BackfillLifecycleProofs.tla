----------------------- MODULE BackfillLifecycleProofs -----------------------
(***************************************************************************)
(* What BackfillLifecycle guarantees for any number of offers, transcripts and *)
(* tenants, and any number of faults: an import's chunks reach only the tenant *)
(* that accepted it, it is reported once, what it reports as a success is at    *)
(* the collector whole, what it reports as failed or delivered has nothing under *)
(* way, and what was accepted is dropped only for a reason.                    *)
(***************************************************************************)
EXTENDS BackfillLifecycle, FiniteSetTheorems, TLAPS

(* The inductive invariant, in parts.                                        *)

\* Only an accepted offer is authorized, under its tenant; those before it are accepted or
\* forgotten, and none after it is.
RecordInvariant ==
  /\ state.open => state.status = "declined"
  /\ state.status \in {"pending", "declined"} => ~ state.authorized
  /\ state.status # "pending" => state.offer \in Offer
  /\ state.status \in {"running", "completed", "failed"} => state.authorized
  /\ state.authorized =>
       state.tenant \in Tenant \ {None} /\ accepted[state.offer] = state.tenant
  /\ \A o \in Offer :
       o > state.offer \/ (o = state.offer /\ ~ state.authorized) => accepted[o] = None
  /\ \A p \in Range(state.prior) : p.offer < state.offer /\ accepted[p.offer] = p.tenant

\* An offer nobody accepted has no worker, no chunks and no report.
Fresh ==
  \A o \in Offer : accepted[o] = None =>
    worker[o] = NoWorker /\ Of(o, sealed) = {} /\ reports[o] = 0 /\ event[o] = None

\* A worker that has no error has counted what it has sealed.
Counts(o) ==
  LET w == worker[o]
      n == Cardinality(Of(o, sealed))
  IN  /\ w.pc \in {"none", "check", "pid", "scope"} =>
           w.next = 1 /\ w.queued = 0 /\ Of(o, sealed) = {}
      /\ w.pc \in {"cursor", "progress"} => w.next <= Transcripts
      /\ w.pc \in {"seal", "cursor"} => w.queued < w.next
      /\ w.pc = "progress" => w.queued <= w.next
      /\ w.pc = "seal" => \A c \in Of(o, sealed) : c.of < w.next
      /\ w.pc \in {"cursor", "progress"} => \A c \in Of(o, sealed) : c.of <= w.next
      /\ w.pc \in {"none", "check", "pid", "scope", "seal", "progress"} /\ ~ w.failed =>
           n = w.queued
      /\ w.pc = "cursor" /\ ~ w.failed => n = w.queued + 1
WorkersCount == IsFiniteSet(sealed) /\ \A o \in Offer : Counts(o)

\* From here on a worker seals nothing.
Done == {"settle", "failing", "announce", "announceFailed", "event", "ended", "dead"}

\* An import that completed has counted all it has sealed.
Completed ==
  state.status = "completed" =>
    worker[state.offer].pc \in Done /\ Cardinality(Of(state.offer, sealed)) = state.queued

\* What the log says was sent has arrived.
DrainInvariant ==
  /\ drain.pc \in {"token", "post", "acked", "remove"} => drain.chunk \in sealed
  /\ drain.pc \in {"acked", "remove"} => drain.chunk \in Arrived
  /\ acks \subseteq Arrived /\ drain.todo \subseteq sealed
  /\ \A a \in arrived : a.tenant # None /\ a.chunk \in sealed

\* One process at most reports an import, which it alone has marked delivered.
Settled(o) == state.offer > o \/ (state.offer = o /\ Ended /\ state.queued > 0)
Reporting(p) == settler[p].pc \in {"write", "event"}
SettlersInvariant ==
  \A p \in Settler :
    LET n == settler[p].notice
    IN  /\ settler[p].pc # "idle" =>
             n.offer \in Offer /\ Settled(n.offer) /\ accepted[n.offer] # None
        /\ Reporting(p) =>
             /\ state.offer = n.offer => state.delivered
             /\ reports[n.offer] = 0
             /\ \A q \in Settler \ {p} : Reporting(q) => settler[q].notice.offer # n.offer
             /\ n.whole => /\ worker[n.offer].pc \in Done
                           /\ n.queued = Cardinality(Of(n.offer, sealed))
        /\ settler[p].pc = "event" /\ n.whole /\ n.sent = n.queued =>
             Of(n.offer, sealed) \subseteq acks

\* An import is reported when it is over; a success is logged as sent, whole.
Reported(o) ==
  \/ o < state.offer
  \/ /\ o = state.offer /\ Ended
     /\ IF state.queued > 0 THEN state.delivered ELSE worker[o].pc = "ended"
ReportInvariant ==
  \A o \in Offer :
    /\ reports[o] > 0 => Reported(o)
    /\ reports[o] <= 1
    /\ event[o] = "success" => Of(o, sealed) \subseteq acks /\ worker[o].pc \in Done

ImportInvariant ==
  /\ TypeOK /\ RecordInvariant /\ Fresh /\ WorkersCount /\ Completed
  /\ DrainInvariant /\ SettlersInvariant /\ ReportInvariant

-----------------------------------------------------------------------------
(* The operators.                                                            *)

\* The lesser of two numbers.
LEMMA MinOfTwo ==
  ASSUME NEW a \in Nat, NEW b \in Nat
  PROVE  Min({a, b}) \in {a, b} /\ Min({a, b}) <= a /\ Min({a, b}) <= b
  <1>1. \E x \in {a, b} : \A y \in {a, b} : x <= y
    OBVIOUS
  <1>2. QED
    BY <1>1 DEF Min

\* The remembered offers are among those remembered so far and the present one.
LEMMA PriorOffersAre ==
  ASSUME TypeOK, state.authorized => state.tenant \in Tenant
  PROVE  /\ PriorOffers \in Seq(Prior) /\ Len(PriorOffers) <= MaxPrior
         /\ \A p \in Range(PriorOffers) :
              \/ p \in Range(state.prior)
              \/ state.authorized /\ p = [offer |-> state.offer, tenant |-> state.tenant]
  <1> DEFINE own == [offer |-> state.offer, tenant |-> state.tenant]
             all == <<own>> \o state.prior
             n   == Min({MaxPrior, Len(all)})
  <1>1. state.prior \in Seq(Prior) /\ Len(state.prior) <= MaxPrior /\ MaxPrior \in Nat
    BY CountsAssumption DEF TypeOK, State
  <1>2. ASSUME ~ state.authorized \/ state.offer = 0
        PROVE  PriorOffers = state.prior
    BY <1>2 DEF PriorOffers
  <1>3. ASSUME state.authorized, state.offer # 0
        PROVE  /\ PriorOffers \in Seq(Prior) /\ Len(PriorOffers) <= MaxPrior
               /\ \A p \in Range(PriorOffers) : p \in Range(state.prior) \/ p = own
    <2>1. own \in Prior
      BY <1>3 DEF Prior, TypeOK, State
    <2>2. all \in Seq(Prior) /\ Len(all) = Len(state.prior) + 1
      BY <1>1, <2>1
    <2>3. \A i \in 1 .. Len(all) : all[i] = own \/ (i > 1 /\ all[i] = state.prior[i - 1])
      BY <1>1, <2>1
    <2>4. n \in Nat /\ n <= MaxPrior /\ n <= Len(all)
      BY <1>1, <2>2, MinOfTwo
    <2>5. PriorOffers = SubSeq(all, 1, n)
      BY <1>3 DEF PriorOffers
    <2> HIDE DEF own, all, n
    <2>6. /\ SubSeq(all, 1, n) \in Seq(Prior) /\ Len(SubSeq(all, 1, n)) = n
          /\ \A i \in 1 .. n : SubSeq(all, 1, n)[i] = all[i]
      BY <2>2, <2>4
    <2>7. ASSUME NEW p \in Range(PriorOffers)
          PROVE  p \in Range(state.prior) \/ p = own
      <3>1. PICK i \in 1 .. n : p = all[i]
        BY <2>4, <2>5, <2>6 DEF Range
      <3>2. ASSUME i > 1, all[i] = state.prior[i - 1] PROVE p \in Range(state.prior)
        BY <1>1, <2>2, <2>4, <3>1, <3>2 DEF Range
      <3>3. QED
        BY <2>2, <2>3, <2>4, <3>1, <3>2
    <2>8. QED
      BY <2>4, <2>5, <2>6, <2>7
  <1>4. QED
    BY <1>1, <1>2, <1>3

\* The tenant of a remembered offer is the one that accepted it.
LEMMA TenantOfKept ==
  ASSUME RecordInvariant, NEW o, Kept(o)
  PROVE  TenantOf(o) = accepted[o]
  <1>1. ASSUME ~ (state.authorized /\ state.offer = o)
        PROVE  TenantOf(o) = accepted[o]
    <2> DEFINE S == {p \in Range(state.prior) : p.offer = o}
    <2>1. S # {}
      BY <1>1 DEF Kept
    <2>2. TenantOf(o) = (CHOOSE p \in S : TRUE).tenant
      BY <1>1, <2>1 DEF TenantOf
    <2>3. (CHOOSE p \in S : TRUE) \in S
      BY <2>1
    <2>4. QED
      BY <2>2, <2>3 DEF RecordInvariant
  <1>2. QED
    BY <1>1 DEF TenantOf, RecordInvariant

-----------------------------------------------------------------------------
(* What a step can do to each part of the state.                             *)

\* What happens is paid for.
Spends == left' \in [Bounds -> Nat] /\ \A k \in Bounds : left'[k] <= left[k]

\* Who changes what.
Writers ==
  /\ \/ UNCHANGED state
     \/ Claim \/ Decline \/ Accept \/ Demote \/ Age
     \/ \E p \in Settler : SettleStep(p) /\ SettleMark(p)
     \/ \E o \in Offer : WorkerStep(o) /\ (RecordPid(o) \/ Progress(o) \/ Finish(o)
                                        \/ FinishFailed(o))
  /\ \/ UNCHANGED judged
     \/ Judge \/ Demote
  /\ \/ UNCHANGED tenant
     \/ ChangeTenant
  /\ \/ UNCHANGED accepted
     \/ Accept
  /\ \/ UNCHANGED cursors
     \/ \E o \in Offer : WorkerStep(o) /\ WriteCursor(o)
  /\ \/ UNCHANGED worker
     \/ Accept
     \/ \E o \in Offer : WorkerStep(o)
     \/ \E o \in Offer : CrashWorker(o)
  /\ \/ UNCHANGED drain
     \/ OnDrain /\ (PurgeScan \/ PurgeDelete \/ ListChunks \/ CheckChunk \/ ReadToken \/ Post
                 \/ LogAck \/ RemoveChunk \/ DrainSettles \/ DrainEnds \/ CrashDrain)
  /\ \/ UNCHANGED settler
     \/ StartSettles
     \/ \E p \in Settler : SettleStep(p)
     \/ \E o \in Offer : WorkerStep(o) /\ WorkerSettles(o)
     \/ \E o \in Offer : CrashWorker(o)
     \/ OnDrain /\ (DrainSettles \/ CrashDrain)
  /\ \/ UNCHANGED <<chunks, aside, acks, dropped, slipped>>
     \/ Expire
     \/ \E o \in Offer : WorkerStep(o) /\ Seal(o)
     \/ OnDrain /\ (PurgeDelete \/ CheckChunk \/ Post \/ LogAck \/ RemoveChunk)
  /\ \/ UNCHANGED arrived
     \/ OnDrain /\ Post
  /\ \/ UNCHANGED sealed
     \/ \E o \in Offer : WorkerStep(o) /\ Seal(o)
  /\ \/ UNCHANGED <<result, failures>>
     \/ \E p \in Settler : SettleStep(p) /\ SettleWrite(p)
     \/ \E o \in Offer : WorkerStep(o) /\ Announce(o)
  /\ \/ UNCHANGED <<event, reports>>
     \/ \E p \in Settler : SettleStep(p) /\ SettleEvent(p)
     \/ \E o \in Offer : WorkerStep(o) /\ QueueUnqueued(o)
     \/ \E o \in Offer : DrainEvent(o)
  /\ Spends

\* Nobody else does.
LEMMA WhoWrites ==
  ASSUME TypeOK, [Next]_vars
  PROVE  Writers
  <1>0. left \in [Bounds -> Nat]
    BY DEF TypeOK
  <1>1. ASSUME Claim
        PROVE  Writers
    <2>1. UNCHANGED <<judged, tenant, accepted, cursors, worker, drain, settler, chunks, aside,
                 acks, dropped, slipped, arrived, sealed, result, failures, event, reports>>
      BY <1>1 DEF Claim, WriteState, NoFault, Queue, Reports, Users, Work, Record
    <2>2. Spends
      BY <1>0, <1>1 DEF Spends, Claim, WriteState, NoFault, Queue, Reports, Users, Work, Spend, Bounds
    <2>3. QED
      BY <1>1, <2>1, <2>2 DEF Writers
  <1>2. ASSUME Decline
        PROVE  Writers
    <2>1. UNCHANGED <<judged, tenant, accepted, cursors, worker, drain, settler, chunks, aside,
                 acks, dropped, slipped, arrived, sealed, result, failures, event, reports>>
      BY <1>2 DEF Decline, WriteState, NoFault, Queue, Reports, Users, Work, Record
    <2>2. Spends
      BY <1>0, <1>2 DEF Spends, Decline, WriteState, NoFault, Queue, Reports, Users, Work, Spend, Bounds
    <2>3. QED
      BY <1>2, <2>1, <2>2 DEF Writers
  <1>3. ASSUME Accept
        PROVE  Writers
    <2>1. UNCHANGED <<judged, tenant, cursors, drain, settler, chunks, aside, acks, dropped,
                 slipped, arrived, sealed, result, failures, event, reports>>
      BY <1>3 DEF Accept, WriteState, Begun, Spend, NoFault, Queue, Reports, Record, Users, Work
    <2>2. Spends
      BY <1>0, <1>3 DEF Spends, Accept, WriteState, Begun, Spend, NoFault, Queue, Reports, Bounds
    <2>3. QED
      BY <1>3, <2>1, <2>2 DEF Writers
  <1>4. ASSUME Judge
        PROVE  Writers
    <2>1. UNCHANGED <<state, tenant, accepted, cursors, worker, drain, settler, chunks, aside,
                 acks, dropped, slipped, arrived, sealed, result, failures, event, reports>>
      BY <1>4 DEF Judge, NoFault, Queue, Reports, Users, Work, Record
    <2>2. Spends
      BY <1>0, <1>4 DEF Spends, Judge, NoFault, Queue, Reports, Users, Work, Spend, Bounds
    <2>3. QED
      BY <1>4, <2>1, <2>2 DEF Writers
  <1>5. ASSUME Demote
        PROVE  Writers
    <2>1. UNCHANGED <<tenant, accepted, cursors, worker, drain, settler, chunks, aside, acks,
                 dropped, slipped, arrived, sealed, result, failures, event, reports>>
      BY <1>5 DEF Demote, WriteState, Current, NoFault, Queue, Reports, Users, Work, Record
    <2>2. Spends
      BY <1>0, <1>5 DEF Spends, Demote, WriteState, Current, NoFault, Queue, Reports, Users, Work,
         Spend, Bounds
    <2>3. QED
      BY <1>5, <2>1, <2>2 DEF Writers
  <1>6. ASSUME Age
        PROVE  Writers
    <2>1. UNCHANGED <<judged, tenant, accepted, cursors, worker, drain, settler, chunks, aside,
                 acks, dropped, slipped, arrived, sealed, result, failures, event, reports>>
      BY <1>6 DEF Age, Spend, NoFault, Queue, Reports, Users, Work, Record
    <2>2. Spends
      BY <1>0, <1>6 DEF Spends, Age, Spend, NoFault, Queue, Reports, Users, Work, Bounds
    <2>3. QED
      BY <1>6, <2>1, <2>2 DEF Writers
  <1>7. ASSUME ChangeTenant
        PROVE  Writers
    <2>1. UNCHANGED <<state, judged, accepted, cursors, worker, drain, settler, chunks, aside,
                 acks, dropped, slipped, arrived, sealed, result, failures, event, reports>>
      BY <1>7 DEF ChangeTenant, Spend, Record, Queue, Reports, Work, Users
    <2>2. Spends
      BY <1>0, <1>7 DEF Spends, ChangeTenant, Spend, Record, Queue, Reports, Work, NoFault, Bounds
    <2>3. QED
      BY <1>7, <2>1, <2>2 DEF Writers
  <1>8. ASSUME StartSettles
        PROVE  Writers
    <2>1. UNCHANGED <<state, judged, tenant, accepted, cursors, worker, drain, chunks, aside,
                 acks, dropped, slipped, arrived, sealed, result, failures, event, reports>>
      BY <1>8 DEF StartSettles, Ended, Settles, SettleRead, Settleable, NoNotice, NoFault,
         Record, Queue, Reports, Users, Work
    <2>2. Spends
      BY <1>0, <1>8 DEF Spends, StartSettles, Ended, Settles, SettleRead, Settleable, NoNotice,
         NoFault, Record, Queue, Reports, Users, Work, Spend, Bounds
    <2>3. QED
      BY <1>8, <2>1, <2>2 DEF Writers
  <1>9. ASSUME Expire
        PROVE  Writers
    <2>1. UNCHANGED <<state, judged, tenant, accepted, cursors, worker, drain, settler,
                 arrived, sealed, result, failures, event, reports>>
      BY <1>9 DEF Expire, Spend, Record, Reports, Users, Work, Queue
    <2>2. Spends
      BY <1>0, <1>9 DEF Spends, Expire, Spend, Record, Reports, Users, Work, NoFault, Bounds
    <2>3. QED
      BY <1>9, <2>1, <2>2 DEF Writers
  <1>10. ASSUME NEW p \in Settler, SettleStep(p), SettleCount(p)
        PROVE  Writers
    <2>1. UNCHANGED <<state, judged, tenant, accepted, cursors, worker, drain, chunks, aside,
                 acks, dropped, slipped, arrived, sealed, result, failures, event, reports>>
      BY <1>10 DEF SettleCount, SettleStep, Settles, Goes, Stops, Idle, NoNotice, NoFault,
         Record, Queue, Reports, Users, Work
    <2>2. Spends
      BY <1>0, <1>10 DEF Spends, SettleCount, SettleStep, Settles, Goes, Stops, Idle, NoNotice,
         NoFault, Record, Queue, Reports, Users, Work, Spend, Bounds
    <2>3. QED
      BY <1>10, <2>1, <2>2 DEF Writers
  <1>11. ASSUME NEW p \in Settler, SettleStep(p), SettleMark(p)
        PROVE  Writers
    <2>1. UNCHANGED <<judged, tenant, accepted, cursors, worker, drain, chunks, aside, acks,
                 dropped, slipped, arrived, sealed, result, failures, event, reports>>
      BY <1>11 DEF SettleMark, SettleStep, WriteState, Settles, Stops, Idle, NoNotice, NoFault,
         Queue, Reports, Users, Work, Record
    <2>2. Spends
      BY <1>0, <1>11 DEF Spends, SettleMark, SettleStep, WriteState, Settles, Stops, Idle, NoNotice,
         NoFault, Queue, Reports, Users, Work, Spend, Bounds
    <2>3. QED
      BY <1>11, <2>1, <2>2 DEF Writers
  <1>12. ASSUME NEW p \in Settler, SettleStep(p), SettleWrite(p)
        PROVE  Writers
    <2>1. UNCHANGED <<state, judged, tenant, accepted, cursors, worker, drain, chunks, aside,
                 acks, dropped, slipped, arrived, sealed, event, reports>>
      BY <1>12 DEF SettleWrite, SettleStep, Settles, NoFault, Record, Queue, Users, Work,
         Reports
    <2>2. Spends
      BY <1>0, <1>12 DEF Spends, SettleWrite, SettleStep, Settles, NoFault, Record, Queue, Users, Work,
         Spend, Bounds
    <2>3. QED
      BY <1>12, <2>1, <2>2 DEF Writers
  <1>13. ASSUME NEW p \in Settler, SettleStep(p), SettleEvent(p)
        PROVE  Writers
    <2>1. UNCHANGED <<state, judged, tenant, accepted, cursors, worker, drain, chunks, aside,
                 acks, dropped, slipped, arrived, sealed, result, failures>>
      BY <1>13 DEF SettleEvent, SettleStep, Settles, Stops, Idle, NoNotice, NoFault,
         QueueEvent, Record, Queue, Users, Work, Reports
    <2>2. Spends
      BY <1>0, <1>13 DEF Spends, SettleEvent, SettleStep, Settles, Stops, Idle, NoNotice, NoFault,
         QueueEvent, Record, Queue, Users, Work, Spend, Bounds
    <2>3. QED
      BY <1>13, <2>1, <2>2 DEF Writers
  <1>14. ASSUME NEW o \in Offer, WorkerStep(o), CheckRun(o)
        PROVE  Writers
    <2>1. UNCHANGED <<state, judged, tenant, accepted, cursors, drain, settler, chunks, aside,
                 acks, dropped, slipped, arrived, sealed, result, failures, event, reports>>
      BY <1>14 DEF CheckRun, WorkerStep, Current, At, WorkerGoes, NoFault, Record, Queue,
         Reports, Users, Work
    <2>2. Spends
      BY <1>0, <1>14 DEF Spends, CheckRun, WorkerStep, Current, At, WorkerGoes, NoFault, Record, Queue,
         Reports, Users, Spend, Bounds
    <2>3. QED
      BY <1>14, <2>1, <2>2 DEF Writers
  <1>15. ASSUME NEW o \in Offer, WorkerStep(o), RecordPid(o)
        PROVE  Writers
    <2>1. UNCHANGED <<judged, tenant, accepted, cursors, drain, settler, chunks, aside, acks,
                 dropped, slipped, arrived, sealed, result, failures, event, reports>>
      BY <1>15 DEF RecordPid, WorkerStep, WriteState, Current, At, WorkerGoes, NoFault, Queue,
         Reports, Users, Record, Work
    <2>2. Spends
      BY <1>0, <1>15 DEF Spends, RecordPid, WorkerStep, WriteState, Current, At, WorkerGoes, NoFault,
         Queue, Reports, Users, Spend, Bounds
    <2>3. QED
      BY <1>15, <2>1, <2>2 DEF Writers
  <1>16. ASSUME NEW o \in Offer, WorkerStep(o), CheckScope(o)
        PROVE  Writers
    <2>1. UNCHANGED <<state, judged, tenant, accepted, cursors, drain, settler, chunks, aside,
                 acks, dropped, slipped, arrived, sealed, result, failures, event, reports>>
      BY <1>16 DEF CheckScope, WorkerStep, At, WorkerGoes, Spend, NoFault, Record, Queue,
         Reports, Users, Work
    <2>2. Spends
      BY <1>0, <1>16 DEF Spends, CheckScope, WorkerStep, At, WorkerGoes, Spend, NoFault, Record, Queue,
         Reports, Users, Bounds
    <2>3. QED
      BY <1>16, <2>1, <2>2 DEF Writers
  <1>17. ASSUME NEW o \in Offer, WorkerStep(o), Seal(o)
        PROVE  Writers
    <2>1. UNCHANGED <<state, judged, tenant, accepted, cursors, drain, settler, arrived,
                 result, failures, event, reports>>
      BY <1>17 DEF Seal, WorkerStep, At, WorkerGoes, Spend, NoFault, Record, Reports, Users,
         Work, Queue
    <2>2. Spends
      BY <1>0, <1>17 DEF Spends, Seal, WorkerStep, At, WorkerGoes, Spend, NoFault, Record, Reports,
         Users, Bounds
    <2>3. QED
      BY <1>17, <2>1, <2>2 DEF Writers
  <1>18. ASSUME NEW o \in Offer, WorkerStep(o), WriteCursor(o)
        PROVE  Writers
    <2>1. UNCHANGED <<state, judged, tenant, accepted, drain, settler, chunks, aside, acks,
                 dropped, slipped, arrived, sealed, result, failures, event, reports>>
      BY <1>18 DEF WriteCursor, WorkerStep, At, Spend, NoFault, Record, Queue, Reports, Users,
         Work
    <2>2. Spends
      BY <1>0, <1>18 DEF Spends, WriteCursor, WorkerStep, At, Spend, NoFault, Record, Queue, Reports,
         Users, Bounds
    <2>3. QED
      BY <1>18, <2>1, <2>2 DEF Writers
  <1>19. ASSUME NEW o \in Offer, WorkerStep(o), Progress(o)
        PROVE  Writers
    <2>1. UNCHANGED <<judged, tenant, accepted, cursors, drain, settler, chunks, aside, acks,
                 dropped, slipped, arrived, sealed, result, failures, event, reports>>
      BY <1>19 DEF Progress, WorkerStep, WriteState, Current, At, WorkerGoes, Spend, NoFault,
         Queue, Reports, Users, Record, Work
    <2>2. Spends
      BY <1>0, <1>19 DEF Spends, Progress, WorkerStep, WriteState, Current, At, WorkerGoes, Spend,
         NoFault, Queue, Reports, Users, Bounds
    <2>3. QED
      BY <1>19, <2>1, <2>2 DEF Writers
  <1>20. ASSUME NEW o \in Offer, WorkerStep(o), Finish(o)
        PROVE  Writers
    <2>1. UNCHANGED <<judged, tenant, accepted, cursors, drain, settler, chunks, aside, acks,
                 dropped, slipped, arrived, sealed, result, failures, event, reports>>
      BY <1>20 DEF Finish, WorkerStep, WriteState, Current, At, WorkerGoes, Spend, NoFault,
         Queue, Reports, Users, Record, Work
    <2>2. Spends
      BY <1>0, <1>20 DEF Spends, Finish, WorkerStep, WriteState, Current, At, WorkerGoes, Spend,
         NoFault, Queue, Reports, Users, Bounds
    <2>3. QED
      BY <1>20, <2>1, <2>2 DEF Writers
  <1>21. ASSUME NEW o \in Offer, WorkerStep(o), WorkerSettles(o)
        PROVE  Writers
    <2>1. UNCHANGED <<state, judged, tenant, accepted, cursors, drain, chunks, aside, acks,
                 dropped, slipped, arrived, sealed, result, failures, event, reports>>
      BY <1>21 DEF WorkerSettles, WorkerStep, Ended, SettleRead, Settleable, At, WorkerGoes,
         NoNotice, NoFault, Record, Queue, Reports, Users, Work
    <2>2. Spends
      BY <1>0, <1>21 DEF Spends, WorkerSettles, WorkerStep, Ended, SettleRead, Settleable, At,
         WorkerGoes, NoNotice, NoFault, Record, Queue, Reports, Users, Spend, Bounds
    <2>3. QED
      BY <1>21, <2>1, <2>2 DEF Writers
  <1>22. ASSUME NEW o \in Offer, WorkerStep(o), FinishFailed(o)
        PROVE  Writers
    <2>1. UNCHANGED <<judged, tenant, accepted, cursors, drain, settler, chunks, aside, acks,
                 dropped, slipped, arrived, sealed, result, failures, event, reports>>
      BY <1>22 DEF FinishFailed, WorkerStep, WriteState, Current, At, WorkerGoes, NoFault,
         Queue, Reports, Users, Record, Work
    <2>2. Spends
      BY <1>0, <1>22 DEF Spends, FinishFailed, WorkerStep, WriteState, Current, At, WorkerGoes,
         NoFault, Queue, Reports, Users, Spend, Bounds
    <2>3. QED
      BY <1>22, <2>1, <2>2 DEF Writers
  <1>23. ASSUME NEW o \in Offer, WorkerStep(o), Announce(o)
        PROVE  Writers
    <2>1. UNCHANGED <<state, judged, tenant, accepted, cursors, drain, settler, chunks, aside,
                 acks, dropped, slipped, arrived, sealed, event, reports>>
      BY <1>23 DEF Announce, WorkerStep, Settles, At, WorkerGoes, NoNotice, NoFault, Record,
         Queue, Users, Work, Reports
    <2>2. Spends
      BY <1>0, <1>23 DEF Spends, Announce, WorkerStep, Settles, At, WorkerGoes, NoNotice, NoFault,
         Record, Queue, Users, Spend, Bounds
    <2>3. QED
      BY <1>23, <2>1, <2>2 DEF Writers
  <1>24. ASSUME NEW o \in Offer, WorkerStep(o), QueueUnqueued(o)
        PROVE  Writers
    <2>1. UNCHANGED <<state, judged, tenant, accepted, cursors, drain, settler, chunks, aside,
                 acks, dropped, slipped, arrived, sealed, result, failures>>
      BY <1>24 DEF QueueUnqueued, WorkerStep, Ended, At, WorkerGoes, NoFault, QueueEvent,
         Record, Queue, Users, Work, Reports
    <2>2. Spends
      BY <1>0, <1>24 DEF Spends, QueueUnqueued, WorkerStep, Ended, At, WorkerGoes, NoFault, QueueEvent,
         Record, Queue, Users, Spend, Bounds
    <2>3. QED
      BY <1>24, <2>1, <2>2 DEF Writers
  <1>25. ASSUME NEW o \in Offer, DrainEvent(o)
        PROVE  Writers
    <2>1. UNCHANGED <<state, judged, tenant, accepted, cursors, worker, drain, settler, chunks,
                 aside, acks, dropped, slipped, arrived, sealed, result, failures>>
      BY <1>25 DEF DrainEvent, NoFault, Record, Queue, Users, Work, Reports
    <2>2. Spends
      BY <1>0, <1>25 DEF Spends, DrainEvent, NoFault, Record, Queue, Users, Work, Spend, Bounds
    <2>3. QED
      BY <1>25, <2>1, <2>2 DEF Writers
  <1>26. ASSUME NEW o \in Offer, CrashWorker(o)
        PROVE  Writers
    <2>1. UNCHANGED <<state, judged, tenant, accepted, cursors, drain, chunks, aside, acks,
                 dropped, slipped, arrived, sealed, result, failures, event, reports>>
      BY <1>26 DEF CrashWorker, Stops, WorkerGoes, Idle, NoNotice, Spend, Alive, Record, Queue,
         Reports, Users, Work
    <2>2. Spends
      BY <1>0, <1>26 DEF Spends, CrashWorker, Stops, WorkerGoes, Idle, NoNotice, Spend, Alive, Record,
         Queue, Reports, Users, NoFault, Bounds
    <2>3. QED
      BY <1>26, <2>1, <2>2 DEF Writers
  <1>27. ASSUME OnDrain, PurgeScan
        PROVE  Writers
    <2>1. UNCHANGED <<state, judged, tenant, accepted, cursors, worker, settler, chunks, aside,
                 acks, dropped, slipped, arrived, sealed, result, failures, event, reports>>
      BY <1>27 DEF PurgeScan, DrainAt, Spend, Record, Queue, Reports, Users, Work, OnDrain
    <2>2. Spends
      BY <1>0, <1>27 DEF Spends, PurgeScan, DrainAt, Spend, Record, Queue, Reports, Users, Work,
         OnDrain, NoFault, Bounds
    <2>3. QED
      BY <1>27, <2>1, <2>2 DEF Writers
  <1>28. ASSUME OnDrain, PurgeDelete
        PROVE  Writers
    <2>1. UNCHANGED <<state, judged, tenant, accepted, cursors, worker, settler, arrived,
                 sealed, result, failures, event, reports>>
      BY <1>28 DEF PurgeDelete, DrainAt, IdleDrain, Gone, NoFault, Record, Reports, Users,
         Work, OnDrain, Queue
    <2>2. Spends
      BY <1>0, <1>28 DEF Spends, PurgeDelete, DrainAt, IdleDrain, Gone, NoFault, Record, Reports,
         Users, Work, OnDrain, Spend, Bounds
    <2>3. QED
      BY <1>28, <2>1, <2>2 DEF Writers
  <1>29. ASSUME OnDrain, ListChunks
        PROVE  Writers
    <2>1. UNCHANGED <<state, judged, tenant, accepted, cursors, worker, settler, chunks, aside,
                 acks, dropped, slipped, arrived, sealed, result, failures, event, reports>>
      BY <1>29 DEF ListChunks, DrainAt, IdleDrain, NoFault, Record, Queue, Reports, Users,
         Work, OnDrain
    <2>2. Spends
      BY <1>0, <1>29 DEF Spends, ListChunks, DrainAt, IdleDrain, NoFault, Record, Queue, Reports,
         Users, Work, OnDrain, Spend, Bounds
    <2>3. QED
      BY <1>29, <2>1, <2>2 DEF Writers
  <1>30. ASSUME OnDrain, CheckChunk
        PROVE  Writers
    <2>1. UNCHANGED <<state, judged, tenant, accepted, cursors, worker, settler, arrived,
                 sealed, result, failures, event, reports>>
      BY <1>30 DEF CheckChunk, DrainAt, Gone, NotDropped, Passes, NoFault, Record, Reports,
         Users, Work, OnDrain, Queue
    <2>2. Spends
      BY <1>0, <1>30 DEF Spends, CheckChunk, DrainAt, Gone, NotDropped, Passes, NoFault, Record,
         Reports, Users, Work, OnDrain, Spend, Bounds
    <2>3. QED
      BY <1>30, <2>1, <2>2 DEF Writers
  <1>31. ASSUME OnDrain, ReadToken
        PROVE  Writers
    <2>1. UNCHANGED <<state, judged, tenant, accepted, cursors, worker, settler, chunks, aside,
                 acks, dropped, slipped, arrived, sealed, result, failures, event, reports>>
      BY <1>31 DEF ReadToken, DrainAt, NextChunk, NoFault, Record, Queue, Reports, Users, Work,
         OnDrain
    <2>2. Spends
      BY <1>0, <1>31 DEF Spends, ReadToken, DrainAt, NextChunk, NoFault, Record, Queue, Reports, Users,
         Work, OnDrain, Spend, Bounds
    <2>3. QED
      BY <1>31, <2>1, <2>2 DEF Writers
  <1>32. ASSUME OnDrain, Post
        PROVE  Writers
    <2>1. UNCHANGED <<state, judged, tenant, accepted, cursors, worker, settler, sealed,
                 result, failures, event, reports>>
      BY <1>32 DEF Post, DrainAt, DrainGoes, NextChunk, Spend, NoFault, Record, Reports, Users,
         Work, OnDrain, Queue
    <2>2. Spends
      BY <1>0, <1>32 DEF Spends, Post, DrainAt, DrainGoes, NextChunk, Spend, NoFault, Record, Reports,
         Users, Work, OnDrain, Bounds
    <2>3. QED
      BY <1>32, <2>1, <2>2 DEF Writers
  <1>33. ASSUME OnDrain, LogAck
        PROVE  Writers
    <2>1. UNCHANGED <<state, judged, tenant, accepted, cursors, worker, settler, arrived,
                 sealed, result, failures, event, reports>>
      BY <1>33 DEF LogAck, DrainAt, DrainGoes, NoFault, Record, Reports, Users, Work, OnDrain,
         Queue
    <2>2. Spends
      BY <1>0, <1>33 DEF Spends, LogAck, DrainAt, DrainGoes, NoFault, Record, Reports, Users, Work,
         OnDrain, Spend, Bounds
    <2>3. QED
      BY <1>33, <2>1, <2>2 DEF Writers
  <1>34. ASSUME OnDrain, RemoveChunk
        PROVE  Writers
    <2>1. UNCHANGED <<state, judged, tenant, accepted, cursors, worker, settler, arrived,
                 sealed, result, failures, event, reports>>
      BY <1>34 DEF RemoveChunk, DrainAt, NextChunk, NoFault, Record, Reports, Users, Work,
         OnDrain, Queue
    <2>2. Spends
      BY <1>0, <1>34 DEF Spends, RemoveChunk, DrainAt, NextChunk, NoFault, Record, Reports, Users,
         Work, OnDrain, Spend, Bounds
    <2>3. QED
      BY <1>34, <2>1, <2>2 DEF Writers
  <1>35. ASSUME OnDrain, DrainSettles
        PROVE  Writers
    <2>1. UNCHANGED <<state, judged, tenant, accepted, cursors, worker, chunks, aside, acks,
                 dropped, slipped, arrived, sealed, result, failures, event, reports>>
      BY <1>35 DEF DrainSettles, Ended, SettleRead, Settleable, DrainAt, DrainGoes, NoNotice,
         NoFault, Record, Queue, Reports, Users, Work, OnDrain
    <2>2. Spends
      BY <1>0, <1>35 DEF Spends, DrainSettles, Ended, SettleRead, Settleable, DrainAt, DrainGoes,
         NoNotice, NoFault, Record, Queue, Reports, Users, Work, OnDrain, Spend, Bounds
    <2>3. QED
      BY <1>35, <2>1, <2>2 DEF Writers
  <1>36. ASSUME OnDrain, DrainEnds
        PROVE  Writers
    <2>1. UNCHANGED <<state, judged, tenant, accepted, cursors, worker, settler, chunks, aside,
                 acks, dropped, slipped, arrived, sealed, result, failures, event, reports>>
      BY <1>36 DEF DrainEnds, Settles, DrainAt, IdleDrain, NoFault, Record, Queue, Reports,
         Users, Work, OnDrain
    <2>2. Spends
      BY <1>0, <1>36 DEF Spends, DrainEnds, Settles, DrainAt, IdleDrain, NoFault, Record, Queue,
         Reports, Users, Work, OnDrain, Spend, Bounds
    <2>3. QED
      BY <1>36, <2>1, <2>2 DEF Writers
  <1>37. ASSUME OnDrain, CrashDrain
        PROVE  Writers
    <2>1. UNCHANGED <<state, judged, tenant, accepted, cursors, worker, chunks, aside, acks,
                 dropped, slipped, arrived, sealed, result, failures, event, reports>>
      BY <1>37 DEF CrashDrain, Stops, DrainAt, IdleDrain, Idle, NoNotice, Spend, Record, Queue,
         Reports, Users, Work, OnDrain
    <2>2. Spends
      BY <1>0, <1>37 DEF Spends, CrashDrain, Stops, DrainAt, IdleDrain, Idle, NoNotice, Spend, Record,
         Queue, Reports, Users, Work, OnDrain, NoFault, Bounds
    <2>3. QED
      BY <1>37, <2>1, <2>2 DEF Writers
  <1>38. ASSUME UNCHANGED vars
         PROVE  Writers
    <2>1. UNCHANGED <<state, judged, tenant, accepted, cursors, worker, drain, settler, chunks, aside,
                 acks, dropped, slipped, arrived, sealed, result, failures, event, reports>>
      BY <1>38 DEF vars, Record, Users, Work, Queue, Reports
    <2>2. Spends
      BY <1>0, <1>38 DEF Spends, vars
    <2>3. QED
      BY <2>1, <2>2 DEF Writers
  <1>39. QED
    BY <1>1, <1>2, <1>3, <1>4, <1>5, <1>6, <1>7, <1>8, <1>9, <1>10, <1>11, <1>12, <1>13, <1>14,
       <1>15, <1>16, <1>17, <1>18, <1>19, <1>20, <1>21, <1>22, <1>23, <1>24, <1>25, <1>26,
       <1>27, <1>28, <1>29, <1>30, <1>31, <1>32, <1>33, <1>34, <1>35, <1>36, <1>37,
       <1>38 DEF Next, SettleStep, WorkerStep, DrainSteps, DrainStep

\* A written record is the one that was given, stamped.
LEMMA Written ==
  ASSUME NEW r \in State, WriteState(r)
  PROVE  /\ state' \in State /\ ~ state'.aged
         /\ state'.status = r.status /\ state'.open = r.open /\ state'.offer = r.offer
         /\ state'.authorized = r.authorized /\ state'.tenant = r.tenant /\ state'.prior = r.prior
         /\ state'.queued = r.queued /\ state'.finished = r.finished
         /\ state'.delivered = r.delivered /\ state'.pid = r.pid
  BY DEF WriteState, State

\* A claim is for the next offer.
LEMMA Claiming ==
  ASSUME TypeOK, Claim
  PROVE  /\ state'.status = "declined" /\ state'.offer = state.offer + 1
         /\ state'.prior = PriorOffers /\ ~ state'.authorized
         /\ state'.delivered = state.delivered /\ ~ state'.aged
  <1> DEFINE r == [state EXCEPT !.status = "declined", !.open = TRUE, !.offer = @ + 1,
                     !.prior = PriorOffers, !.authorized = FALSE]
  <1>1. state \in State /\ state' = [r EXCEPT !.aged = FALSE]
    BY DEF TypeOK, Claim, WriteState
  <1>2. /\ r.status = "declined" /\ r.offer = state.offer + 1 /\ r.prior = PriorOffers
        /\ ~ r.authorized /\ r.delivered = state.delivered
    BY <1>1 DEF State
  <1>3. DOMAIN r = DOMAIN state /\ r = [x \in DOMAIN r |-> r[x]]
    BY <1>1 DEF State
  <1>4. DOMAIN state = {"status", "open", "offer", "authorized", "tenant", "prior", "queued",
                        "finished", "delivered", "pid", "aged"}
    BY <1>1 DEF State
  <1> HIDE DEF r
  <1>5. QED
    BY <1>1, <1>2, <1>3, <1>4

\* An acceptance is of the offer that was claimed; it begins the run, or ends it at once.
LEMMA Accepting ==
  ASSUME TypeOK, Accept
  PROVE  /\ state' \in State /\ state.status = "declined" /\ state'.offer = state.offer
         /\ state'.prior = state.prior /\ state'.authorized /\ state'.tenant = tenant
         /\ state'.status \in {"running", "failed"} /\ ~ state'.open
         /\ ~ state'.delivered /\ ~ state'.aged /\ state'.pid = None
         /\ state'.status = "failed" => UNCHANGED worker
  <1> DEFINE b == Begun
             r == [b EXCEPT !.status = "failed", !.finished = TRUE]
  <1>1. state \in State /\ tenant \in Tenant \cup {None} /\ 0 \in 0 .. Transcripts
    BY CountsAssumption DEF TypeOK
  <1>2. Begun \in State
    BY <1>1 DEF Begun, State
  <1>3. Begun.offer = state.offer /\ Begun.prior = state.prior /\ Begun.authorized
    BY <1>1 DEF Begun, State
  <1>4. Begun.tenant = tenant /\ Begun.status = "running" /\ ~ Begun.open
    BY <1>1 DEF Begun, State
  <1>5. ~ Begun.delivered /\ Begun.pid = None
    BY <1>1 DEF Begun, State
  <1>6. WriteState(b) \/ (WriteState(r) /\ UNCHANGED worker)
    BY DEF Accept
  <1>7. b \in State
    BY <1>2
  <1> HIDE DEF b
  <1>8. /\ r \in State /\ r.status = "failed" /\ r.offer = b.offer /\ r.prior = b.prior
        /\ r.authorized = b.authorized /\ r.tenant = b.tenant /\ r.open = b.open
        /\ r.delivered = b.delivered /\ r.pid = b.pid
    BY <1>7 DEF State
  <1> HIDE DEF r
  <1>9. /\ b.offer = state.offer /\ b.prior = state.prior /\ b.authorized /\ b.tenant = tenant
        /\ b.status = "running" /\ ~ b.open /\ ~ b.delivered /\ b.pid = None
    BY <1>3, <1>4, <1>5 DEF b
  <1>10. state.status = "declined"
    BY DEF Accept
  <1>11. QED
    BY <1>6, <1>7, <1>8, <1>9, <1>10, Written

\* A change of the record other than a claim and an acceptance.
RecordKeeps ==
  /\ state'.offer = state.offer /\ state'.authorized = state.authorized
  /\ state'.tenant = state.tenant /\ state'.prior = state.prior
  /\ state'.open => state.open
  /\ state.delivered => state'.delivered
  /\ \/ state'.status = state.status /\ (state.status # "running" => state'.queued = state.queued)
     \/ state.status = "running" /\ state'.status \in {"completed", "failed"}
  /\ state'.status = "completed" => state.status = "completed" \/ \E o \in Offer : Finish(o)
  /\ accepted' = accepted /\ state' \in State

\* The record is kept, but by a claim and an acceptance.
LEMMA RecordSteps ==
  ASSUME TypeOK, [Next]_vars
  PROVE  Claim \/ Accept \/ RecordKeeps
  <1> USE DEF TypeOK, State, RecordKeeps
  <1>1. ASSUME Claim
        PROVE  Claim \/ Accept \/ RecordKeeps
    BY <1>1 DEF Claim, WriteState, NoFault, Queue, Reports, Users, Work
  <1>2. ASSUME Decline
        PROVE  Claim \/ Accept \/ RecordKeeps
    BY <1>2 DEF Decline, WriteState, NoFault, Queue, Reports, Users, Work
  <1>3. ASSUME Accept
        PROVE  Claim \/ Accept \/ RecordKeeps
    BY <1>3 DEF Accept, WriteState, Begun, Spend, NoFault, Queue, Reports
  <1>4. ASSUME Demote
        PROVE  Claim \/ Accept \/ RecordKeeps
    <2> DEFINE r == [state EXCEPT !.status = "failed", !.finished = TRUE]
    <2>1. /\ r \in State /\ r.offer = state.offer /\ r.authorized = state.authorized
          /\ r.open = state.open
          /\ r.tenant = state.tenant /\ r.prior = state.prior /\ r.status = "failed"
          /\ r.delivered = state.delivered
      OBVIOUS
    <2>2. ASSUME Current(judged), WriteState(r), accepted' = accepted PROVE RecordKeeps
      <3> HIDE DEF r, TypeOK, State
      <3>1. QED
        BY <1>4, <2>1, <2>2, Written DEF Current
    <2>3. QED
      BY <1>4, <2>2 DEF Demote, Users
  <1>5. ASSUME Age
        PROVE  Claim \/ Accept \/ RecordKeeps
    BY <1>5 DEF Age, Spend, NoFault, Queue, Reports, Users, Work
  <1>6. ASSUME NEW p \in Settler, SettleStep(p), SettleMark(p)
        PROVE  Claim \/ Accept \/ RecordKeeps
    <2> DEFINE r == [state EXCEPT !.delivered = TRUE]
    <2>1. /\ r \in State /\ r.offer = state.offer /\ r.authorized = state.authorized
          /\ r.open = state.open
          /\ r.tenant = state.tenant /\ r.prior = state.prior /\ r.status = state.status
          /\ r.queued = state.queued /\ r.delivered
      OBVIOUS
    <2>2. ASSUME TRUE, WriteState(r), accepted' = accepted PROVE RecordKeeps
      <3> HIDE DEF r, TypeOK, State
      <3>1. QED
        BY <1>6, <2>1, <2>2, Written
    <2>3. QED
      BY <1>6, <2>2 DEF SettleMark, SettleStep, Users
  <1>7. ASSUME NEW o \in Offer, WorkerStep(o), RecordPid(o)
        PROVE  Claim \/ Accept \/ RecordKeeps
    <2> DEFINE r == [state EXCEPT !.pid = o]
    <2>1. /\ r \in State /\ r.offer = state.offer /\ r.authorized = state.authorized
          /\ r.open = state.open
          /\ r.tenant = state.tenant /\ r.prior = state.prior /\ r.status = state.status
          /\ r.queued = state.queued /\ r.delivered = state.delivered
      OBVIOUS
    <2>2. ASSUME TRUE, WriteState(r), accepted' = accepted PROVE RecordKeeps
      <3> HIDE DEF r, TypeOK, State
      <3>1. QED
        BY <1>7, <2>1, <2>2, Written
    <2>3. QED
      BY <1>7, <2>2 DEF RecordPid, WorkerStep, Users
  <1>8. ASSUME NEW o \in Offer, WorkerStep(o), Progress(o)
        PROVE  Claim \/ Accept \/ RecordKeeps
    <2>0. worker[o].queued \in 0 .. Transcripts
      OBVIOUS
    <2> DEFINE r == [state EXCEPT !.queued = worker[o].queued]
    <2>1. /\ r \in State /\ r.offer = state.offer /\ r.authorized = state.authorized
          /\ r.open = state.open
          /\ r.tenant = state.tenant /\ r.prior = state.prior /\ r.status = state.status
          /\ r.delivered = state.delivered
      BY <2>0
    <2>2. ASSUME Current(o), WriteState(r), accepted' = accepted PROVE RecordKeeps
      <3> HIDE DEF r, TypeOK, State
      <3>1. QED
        BY <1>8, <2>1, <2>2, Written DEF Current
    <2>3. QED
      BY <1>8, <2>2 DEF Progress, WorkerStep, Users
  <1>9. ASSUME NEW o \in Offer, WorkerStep(o), Finish(o)
        PROVE  Claim \/ Accept \/ RecordKeeps
    <2>0. worker[o].queued \in 0 .. Transcripts
      OBVIOUS
    <2> DEFINE r == [state EXCEPT !.status = IF worker[o].failed THEN "failed" ELSE "completed",
                               !.queued = worker[o].queued, !.finished = TRUE]
    <2>1. /\ r \in State /\ r.offer = state.offer /\ r.authorized = state.authorized
          /\ r.open = state.open
          /\ r.tenant = state.tenant /\ r.prior = state.prior
          /\ r.status \in {"failed", "completed"} /\ r.delivered = state.delivered
      BY <2>0
    <2>2. ASSUME Current(o), Finish(o), WriteState(r), accepted' = accepted PROVE RecordKeeps
      <3> HIDE DEF r, TypeOK, State
      <3>1. QED
        BY <1>9, <2>1, <2>2, Written DEF Current
    <2>3. QED
      BY <1>9, <2>2 DEF Finish, WorkerStep, Users
  <1>10. ASSUME NEW o \in Offer, WorkerStep(o), FinishFailed(o)
        PROVE  Claim \/ Accept \/ RecordKeeps
    <2> DEFINE r == [state EXCEPT !.status = "failed", !.finished = TRUE]
    <2>1. /\ r \in State /\ r.offer = state.offer /\ r.authorized = state.authorized
          /\ r.open = state.open
          /\ r.tenant = state.tenant /\ r.prior = state.prior /\ r.status = "failed"
          /\ r.delivered = state.delivered
      OBVIOUS
    <2>2. ASSUME Current(o), WriteState(r), accepted' = accepted PROVE RecordKeeps
      <3> HIDE DEF r, TypeOK, State
      <3>1. QED
        BY <1>10, <2>1, <2>2, Written DEF Current
    <2>3. QED
      BY <1>10, <2>2 DEF FinishFailed, WorkerStep, Users
  <1>11. CASE UNCHANGED <<state, accepted>>
    BY <1>11
  <1>12. QED
    BY WhoWrites, <1>1, <1>2, <1>3, <1>4, <1>5, <1>6, <1>7, <1>8, <1>9, <1>10,
       <1>11 DEF Writers, SettleStep, WorkerStep

\* A worker that is done stays so, and seals nothing.
DoneStays(o) ==
  /\ worker'[o].pc \in Done /\ Of(o, sealed') = Of(o, sealed)
  /\ worker[o].pc = "ended" => worker'[o].pc = "ended"

\* Only an acceptance of its own offer would start a worker that is done.
LEMMA DoneSteps ==
  ASSUME TypeOK, [Next]_vars
  PROVE  \A i \in Offer : worker[i].pc \in Done => DoneStays(i) \/ (Accept /\ i = state.offer)
  <1> USE DEF TypeOK, Done, DoneStays, Of
  <1>1. ASSUME Accept
        PROVE  \A i \in Offer : worker[i].pc \in Done => DoneStays(i) \/ (Accept /\ i = state.offer)
    BY <1>1 DEF Accept, WriteState, Begun, Spend, NoFault, Queue, Reports
  <1>2. ASSUME NEW o \in Offer, WorkerStep(o), CheckRun(o)
        PROVE  \A i \in Offer : worker[i].pc \in Done => DoneStays(i) \/ (Accept /\ i = state.offer)
    BY <1>2 DEF CheckRun, WorkerStep, Current, At, WorkerGoes, NoFault, Record, Queue, Reports,
       Users
  <1>3. ASSUME NEW o \in Offer, WorkerStep(o), RecordPid(o)
        PROVE  \A i \in Offer : worker[i].pc \in Done => DoneStays(i) \/ (Accept /\ i = state.offer)
    BY <1>3 DEF RecordPid, WorkerStep, WriteState, Current, At, WorkerGoes, NoFault, Queue,
       Reports, Users
  <1>4. ASSUME NEW o \in Offer, WorkerStep(o), CheckScope(o)
        PROVE  \A i \in Offer : worker[i].pc \in Done => DoneStays(i) \/ (Accept /\ i = state.offer)
    BY <1>4 DEF CheckScope, WorkerStep, At, WorkerGoes, Spend, NoFault, Record, Queue, Reports,
       Users
  <1>5. ASSUME NEW o \in Offer, WorkerStep(o), Seal(o)
        PROVE  \A i \in Offer : worker[i].pc \in Done => DoneStays(i) \/ (Accept /\ i = state.offer)
    <2>1. At(o, "seal") /\ \A i \in Offer \ {o} : worker'[i] = worker[i]
      BY <1>5 DEF Seal, WorkerGoes
    <2>2. sealed' = sealed \/ sealed' = sealed \cup {[offer |-> o, of |-> worker[o].next]}
      BY <1>5 DEF Seal
    <2>3. \A i \in Offer \ {o} : Of(i, sealed') = Of(i, sealed)
      BY <2>2
    <2> HIDE DEF TypeOK, Of
    <2>4. QED
      BY <2>1, <2>3 DEF At
  <1>6. ASSUME NEW o \in Offer, WorkerStep(o), WriteCursor(o)
        PROVE  \A i \in Offer : worker[i].pc \in Done => DoneStays(i) \/ (Accept /\ i = state.offer)
    BY <1>6 DEF WriteCursor, WorkerStep, At, Spend, NoFault, Record, Queue, Reports, Users
  <1>7. ASSUME NEW o \in Offer, WorkerStep(o), Progress(o)
        PROVE  \A i \in Offer : worker[i].pc \in Done => DoneStays(i) \/ (Accept /\ i = state.offer)
    <2>1. At(o, "progress") /\ sealed' = sealed /\ \A i \in Offer \ {o} : worker'[i] = worker[i]
      BY <1>7 DEF Progress, WorkerGoes, Queue
    <2> HIDE DEF TypeOK
    <2>2. QED
      BY <2>1 DEF At
  <1>8. ASSUME NEW o \in Offer, WorkerStep(o), Finish(o)
        PROVE  \A i \in Offer : worker[i].pc \in Done => DoneStays(i) \/ (Accept /\ i = state.offer)
    BY <1>8 DEF Finish, WorkerStep, WriteState, Current, At, WorkerGoes, Spend, NoFault, Queue,
       Reports, Users
  <1>9. ASSUME NEW o \in Offer, WorkerStep(o), WorkerSettles(o)
        PROVE  \A i \in Offer : worker[i].pc \in Done => DoneStays(i) \/ (Accept /\ i = state.offer)
    BY <1>9 DEF WorkerSettles, WorkerStep, Ended, SettleRead, Settleable, At, WorkerGoes,
       NoNotice, NoFault, Record, Queue, Reports, Users
  <1>10. ASSUME NEW o \in Offer, WorkerStep(o), FinishFailed(o)
        PROVE  \A i \in Offer : worker[i].pc \in Done => DoneStays(i) \/ (Accept /\ i = state.offer)
    BY <1>10 DEF FinishFailed, WorkerStep, WriteState, Current, At, WorkerGoes, NoFault, Queue,
       Reports, Users
  <1>11. ASSUME NEW o \in Offer, WorkerStep(o), Announce(o)
        PROVE  \A i \in Offer : worker[i].pc \in Done => DoneStays(i) \/ (Accept /\ i = state.offer)
    BY <1>11 DEF Announce, WorkerStep, Settles, At, WorkerGoes, NoNotice, NoFault, Record,
       Queue, Users
  <1>12. ASSUME NEW o \in Offer, WorkerStep(o), QueueUnqueued(o)
        PROVE  \A i \in Offer : worker[i].pc \in Done => DoneStays(i) \/ (Accept /\ i = state.offer)
    BY <1>12 DEF QueueUnqueued, WorkerStep, Ended, At, WorkerGoes, NoFault, QueueEvent, Record,
       Queue, Users
  <1>13. ASSUME NEW o \in Offer, CrashWorker(o)
        PROVE  \A i \in Offer : worker[i].pc \in Done => DoneStays(i) \/ (Accept /\ i = state.offer)
    BY <1>13 DEF CrashWorker, Stops, WorkerGoes, Idle, NoNotice, Spend, Alive, Record, Queue,
       Reports, Users
  <1>14. CASE UNCHANGED <<worker, sealed>>
    BY <1>14
  <1>15. QED
    BY WhoWrites, <1>1, <1>2, <1>3, <1>4, <1>5, <1>6, <1>7, <1>8, <1>9, <1>10, <1>11, <1>12,
       <1>13, <1>14 DEF Writers, SettleStep, WorkerStep

HistoryStep ==
  /\ sealed \subseteq sealed' /\ arrived \subseteq arrived' /\ acks \subseteq acks'
  /\ \/ UNCHANGED <<event, reports>>
     \/ \E p \in Settler : SettleEvent(p) /\ UNCHANGED <<state, worker, sealed, acks>>
     \/ \E o \in Offer : QueueUnqueued(o) /\ UNCHANGED <<state, settler, sealed, acks>>
     \/ \E o \in Offer : DrainEvent(o) /\ UNCHANGED <<state, worker, settler, sealed, acks>>

\* What was sealed, arrived or logged stays so, and reports come from a settler or a
\* worker that queued nothing.
LEMMA HistoryGrows ==
  ASSUME TypeOK, [Next]_vars
  PROVE  HistoryStep
  <1> USE DEF HistoryStep
  <1>1. ASSUME Expire
        PROVE  HistoryStep
    BY <1>1 DEF Expire, Spend, Record, Reports, Users, Work
  <1>2. ASSUME NEW p \in Settler, SettleStep(p), SettleEvent(p)
        PROVE  HistoryStep
    BY <1>2 DEF SettleEvent, SettleStep, Settles, Stops, Idle, NoNotice, NoFault, QueueEvent,
       Record, Queue, Users, Work
  <1>3. ASSUME NEW o \in Offer, WorkerStep(o), Seal(o)
        PROVE  HistoryStep
    BY <1>3 DEF Seal, WorkerStep, At, WorkerGoes, Spend, NoFault, Record, Reports, Users
  <1>4. ASSUME NEW o \in Offer, WorkerStep(o), QueueUnqueued(o)
        PROVE  HistoryStep
    BY <1>4 DEF QueueUnqueued, WorkerStep, Ended, At, WorkerGoes, NoFault, QueueEvent, Record,
       Queue, Users
  <1>5. ASSUME NEW o \in Offer, DrainEvent(o)
        PROVE  HistoryStep
    BY <1>5 DEF DrainEvent, NoFault, Record, Queue, Users, Work
  <1>6. ASSUME OnDrain, PurgeDelete
        PROVE  HistoryStep
    BY <1>6 DEF PurgeDelete, DrainAt, IdleDrain, Gone, NoFault, Record, Reports, Users, Work,
       OnDrain
  <1>7. ASSUME OnDrain, CheckChunk
        PROVE  HistoryStep
    BY <1>7 DEF CheckChunk, DrainAt, Gone, NotDropped, Passes, NoFault, Record, Reports, Users,
       Work, OnDrain
  <1>8. ASSUME OnDrain, Post
        PROVE  HistoryStep
    BY <1>8 DEF Post, DrainAt, DrainGoes, NextChunk, Spend, NoFault, Record, Reports, Users,
       Work, OnDrain
  <1>9. ASSUME OnDrain, LogAck
        PROVE  HistoryStep
    BY <1>9 DEF LogAck, DrainAt, DrainGoes, NoFault, Record, Reports, Users, Work, OnDrain
  <1>10. ASSUME OnDrain, RemoveChunk
        PROVE  HistoryStep
    BY <1>10 DEF RemoveChunk, DrainAt, NextChunk, NoFault, Record, Reports, Users, Work, OnDrain
  <1>11. CASE UNCHANGED <<chunks, aside, acks, dropped, slipped, arrived, sealed, event, reports>>
    BY <1>11
  <1>12. QED
    BY WhoWrites, <1>1, <1>2, <1>3, <1>4, <1>5, <1>6, <1>7, <1>8, <1>9, <1>10,
       <1>11 DEF Writers, SettleStep, WorkerStep

-----------------------------------------------------------------------------
(* The types.                                                                *)

\* The types of TypeOK, by their names.
WorkerPC  == {"none", "check", "pid", "scope", "seal", "cursor", "progress", "settle",
              "failing", "announce", "announceFailed", "event", "ended", "dead"}
WorkerSet == [Offer -> [pc : WorkerPC, next : 1 .. Transcripts + 1, queued : 0 .. Transcripts,
                        failed : BOOLEAN]]
DrainSet  == [pc : {"idle", "purge", "list", "next", "token", "post", "acked", "remove", "settling"},
              todo : SUBSET Chunk, chunk : Chunk \cup {None}, token : Tenant \cup {None},
              keep : SUBSET Chunk]
SettlerSet == [pc : {"idle", "count", "mark", "write", "event"}, notice : Notice]
QueueTypes ==
  /\ chunks \subseteq sealed /\ aside \subseteq sealed /\ chunks \cap aside = {}
  /\ acks \subseteq sealed
  /\ sealed \subseteq Chunk /\ dropped \subseteq sealed /\ slipped \subseteq sealed
ReportTypes ==
  /\ result \in Notice /\ event \in [Offer -> {"success", "partial_success", "failed", None}]
  /\ reports \in [Offer -> Nat] /\ failures \subseteq Offer

\* The record, what was judged of it and who accepted it stay well typed.
LEMMA RecordType ==
  ASSUME TypeOK, RecordInvariant, [Next]_vars
  PROVE  /\ state' \in State /\ Len(state'.prior) <= MaxPrior
         /\ accepted' \in [Offer -> Tenant \cup {None}]
         /\ judged' \in Offer \cup {None} /\ tenant' \in Tenant \cup {None}
  <1>0. /\ state \in State /\ Len(state.prior) <= MaxPrior
        /\ accepted \in [Offer -> Tenant \cup {None}]
        /\ judged \in Offer \cup {None} /\ tenant \in Tenant \cup {None} /\ MaxOffers \in Nat
    BY CountsAssumption DEF TypeOK
  <1>1. ASSUME Claim
        PROVE  state' \in State /\ Len(state'.prior) <= MaxPrior
    <2> DEFINE r == [state EXCEPT !.status = "declined", !.open = TRUE, !.offer = @ + 1,
                       !.prior = PriorOffers, !.authorized = FALSE]
    <2>1. PriorOffers \in Seq(Prior) /\ Len(PriorOffers) <= MaxPrior
      BY PriorOffersAre DEF RecordInvariant
    <2>2. state.offer + 1 \in Offer
      BY <1>0, <1>1 DEF Claim, State, Offer
    <2>3. r \in State /\ r.prior = PriorOffers
      BY <1>0, <2>1, <2>2 DEF State
    <2>4. WriteState(r)
      BY <1>1 DEF Claim
    <2> HIDE DEF r
    <2>5. QED
      BY <2>1, <2>3, <2>4, Written
  <1>2. ASSUME Accept
        PROVE  /\ state' \in State /\ Len(state'.prior) <= MaxPrior
               /\ accepted' \in [Offer -> Tenant \cup {None}]
    <2>1. state.offer \in Offer /\ tenant \in Tenant
      BY <1>0, <1>2 DEF RecordInvariant, Accept
    <2>2. accepted' \in [Offer -> Tenant \cup {None}]
      BY <1>0, <1>2, <2>1 DEF Accept
    <2>3. QED
      BY <1>0, <1>2, <2>2, Accepting
  <1>3. RecordKeeps => state' \in State /\ Len(state'.prior) <= MaxPrior /\ accepted' = accepted
    BY <1>0 DEF RecordKeeps
  <1>4. accepted' = accepted \/ Accept
    BY WhoWrites DEF Writers
  <1>5. /\ state' \in State /\ Len(state'.prior) <= MaxPrior
        /\ accepted' \in [Offer -> Tenant \cup {None}]
    BY <1>0, <1>1, <1>2, <1>3, <1>4, RecordSteps
  <1>6. judged' \in Offer \cup {None}
    <2>1. Judge => state.offer \in Offer
      BY DEF Judge, RecordInvariant
    <2>2. QED
      BY <1>0, <2>1, WhoWrites DEF Writers, Judge, Demote
  <1>7. tenant' \in Tenant \cup {None}
    BY <1>0, WhoWrites DEF Writers, ChangeTenant
  <1>8. QED
    BY <1>5, <1>6, <1>7

\* The workers stay well typed.
LEMMA WorkerType ==
  ASSUME TypeOK, RecordInvariant, WorkersCount, [Next]_vars
  PROVE  /\ worker' \in WorkerSet
         /\ cursors' \subseteq 1 .. Transcripts
  <1>0. /\ worker \in WorkerSet /\ cursors \subseteq 1 .. Transcripts /\ Transcripts \in Nat
        /\ \A o \in Offer : worker[o].pc \in {"cursor", "progress"} => worker[o].next <= Transcripts
        /\ \A o \in Offer : worker[o].pc = "cursor" => worker[o].queued < worker[o].next
    BY CountsAssumption DEF TypeOK, WorkersCount, Counts, WorkerSet, WorkerPC
  <1>1. ASSUME Accept
        PROVE  /\ worker' \in WorkerSet
         /\ cursors' \subseteq 1 .. Transcripts
    <2>1. state.offer \in Offer
      BY <1>1 DEF Accept, RecordInvariant
    <2>2. QED
      BY <1>0, <1>1, <2>1 DEF Accept, WorkerSet, WorkerPC
  <1>2. ASSUME NEW o \in Offer, WorkerStep(o), CheckRun(o)
        PROVE  /\ worker' \in WorkerSet
         /\ cursors' \subseteq 1 .. Transcripts
    BY <1>0, <1>2 DEF CheckRun, WorkerStep, Current, At, WorkerGoes, NoFault, Record, Queue,
       Reports, Users, WorkerSet, WorkerPC
  <1>3. ASSUME NEW o \in Offer, WorkerStep(o), RecordPid(o)
        PROVE  /\ worker' \in WorkerSet
         /\ cursors' \subseteq 1 .. Transcripts
    BY <1>0, <1>3 DEF RecordPid, WorkerStep, WriteState, Current, At, WorkerGoes, NoFault,
       Queue, Reports, Users, WorkerSet, WorkerPC
  <1>4. ASSUME NEW o \in Offer, WorkerStep(o), CheckScope(o)
        PROVE  /\ worker' \in WorkerSet
         /\ cursors' \subseteq 1 .. Transcripts
    BY <1>0, <1>4 DEF CheckScope, WorkerStep, At, WorkerGoes, Spend, NoFault, Record, Queue,
       Reports, Users, WorkerSet, WorkerPC
  <1>5. ASSUME NEW o \in Offer, WorkerStep(o), Seal(o)
        PROVE  /\ worker' \in WorkerSet
         /\ cursors' \subseteq 1 .. Transcripts
    BY <1>0, <1>5 DEF Seal, WorkerStep, At, WorkerGoes, Spend, NoFault, Record, Reports, Users,
       WorkerSet, WorkerPC
  <1>6. ASSUME NEW o \in Offer, WorkerStep(o), WriteCursor(o)
        PROVE  /\ worker' \in WorkerSet
         /\ cursors' \subseteq 1 .. Transcripts
    BY <1>0, <1>6 DEF WriteCursor, WorkerStep, At, Spend, NoFault, Record, Queue, Reports,
       Users, WorkerSet, WorkerPC
  <1>7. ASSUME NEW o \in Offer, WorkerStep(o), Progress(o)
        PROVE  /\ worker' \in WorkerSet
         /\ cursors' \subseteq 1 .. Transcripts
    BY <1>0, <1>7 DEF Progress, WorkerStep, WriteState, Current, At, WorkerGoes, Spend,
       NoFault, Queue, Reports, Users, WorkerSet, WorkerPC
  <1>8. ASSUME NEW o \in Offer, WorkerStep(o), Finish(o)
        PROVE  /\ worker' \in WorkerSet
         /\ cursors' \subseteq 1 .. Transcripts
    BY <1>0, <1>8 DEF Finish, WorkerStep, WriteState, Current, At, WorkerGoes, Spend, NoFault,
       Queue, Reports, Users, WorkerSet, WorkerPC
  <1>9. ASSUME NEW o \in Offer, WorkerStep(o), WorkerSettles(o)
        PROVE  /\ worker' \in WorkerSet
         /\ cursors' \subseteq 1 .. Transcripts
    BY <1>0, <1>9 DEF WorkerSettles, WorkerStep, Ended, SettleRead, Settleable, At, WorkerGoes,
       NoNotice, NoFault, Record, Queue, Reports, Users, WorkerSet, WorkerPC
  <1>10. ASSUME NEW o \in Offer, WorkerStep(o), FinishFailed(o)
        PROVE  /\ worker' \in WorkerSet
         /\ cursors' \subseteq 1 .. Transcripts
    BY <1>0, <1>10 DEF FinishFailed, WorkerStep, WriteState, Current, At, WorkerGoes, NoFault,
       Queue, Reports, Users, WorkerSet, WorkerPC
  <1>11. ASSUME NEW o \in Offer, WorkerStep(o), Announce(o)
        PROVE  /\ worker' \in WorkerSet
         /\ cursors' \subseteq 1 .. Transcripts
    BY <1>0, <1>11 DEF Announce, WorkerStep, Settles, At, WorkerGoes, NoNotice, NoFault,
       Record, Queue, Users, WorkerSet, WorkerPC
  <1>12. ASSUME NEW o \in Offer, WorkerStep(o), QueueUnqueued(o)
        PROVE  /\ worker' \in WorkerSet
         /\ cursors' \subseteq 1 .. Transcripts
    BY <1>0, <1>12 DEF QueueUnqueued, WorkerStep, Ended, At, WorkerGoes, NoFault, QueueEvent,
       Record, Queue, Users, WorkerSet, WorkerPC
  <1>13. ASSUME NEW o \in Offer, CrashWorker(o)
        PROVE  /\ worker' \in WorkerSet
         /\ cursors' \subseteq 1 .. Transcripts
    BY <1>0, <1>13 DEF CrashWorker, Stops, WorkerGoes, Idle, NoNotice, Spend, Alive, Record,
       Queue, Reports, Users, WorkerSet, WorkerPC
  <1>14. CASE UNCHANGED <<cursors, worker>>
    BY <1>0, <1>14 DEF WorkerSet, WorkerPC
  <1>15. QED
    BY WhoWrites, <1>1, <1>2, <1>3, <1>4, <1>5, <1>6, <1>7, <1>8, <1>9, <1>10, <1>11, <1>12,
       <1>13, <1>14 DEF Writers, SettleStep, WorkerStep

\* A chunk that is passed over leaves the batch.
LEMMA PassedOver ==
  ASSUME drain \in DrainSet, NEW c
  PROVE  /\ [drain EXCEPT !.todo = @ \ {c}] \in DrainSet
         /\ [drain EXCEPT !.pc = "next", !.todo = @ \ {c}, !.chunk = None] \in DrainSet
  <1> DEFINE S == drain.todo \ {c}
  <1>1. S \in SUBSET Chunk
    BY DEF DrainSet
  <1> HIDE DEF S
  <1>2. /\ [drain EXCEPT !.todo = S] \in DrainSet
        /\ [drain EXCEPT !.pc = "next", !.todo = S, !.chunk = None] \in DrainSet
    BY <1>1 DEF DrainSet
  <1>3. QED
    BY <1>2 DEF S

\* The drain stays well typed.
LEMMA DrainType ==
  ASSUME TypeOK, [Next]_vars
  PROVE  drain' \in DrainSet
  <1>0. /\ drain \in DrainSet /\ chunks \subseteq Chunk /\ tenant \in Tenant \cup {None}
    BY DEF TypeOK, DrainSet
  <1>1. ASSUME OnDrain, PurgeScan
        PROVE  drain' \in DrainSet
    BY <1>0, <1>1 DEF PurgeScan, DrainAt, Spend, Record, Queue, Reports, Users, Work, OnDrain,
       DrainSet
  <1>2. ASSUME OnDrain, PurgeDelete
        PROVE  drain' \in DrainSet
    BY <1>0, <1>2 DEF PurgeDelete, DrainAt, IdleDrain, Gone, NoFault, Record, Reports, Users,
       Work, OnDrain, DrainSet
  <1>3. ASSUME OnDrain, ListChunks
        PROVE  drain' \in DrainSet
    BY <1>0, <1>3 DEF ListChunks, DrainAt, IdleDrain, NoFault, Record, Queue, Reports, Users,
       Work, OnDrain, DrainSet
  <1>4. ASSUME OnDrain, CheckChunk
        PROVE  drain' \in DrainSet
    <2>1. PICK c \in drain.todo : Passes(c) \/ drain' = [drain EXCEPT !.pc = "token", !.chunk = c]
      BY <1>4 DEF CheckChunk
    <2>2. c \in Chunk
      BY <1>0, <2>1 DEF DrainSet
    <2>3. Passes(c) => drain' \in DrainSet
      BY <1>0, PassedOver DEF Passes
    <2>4. [drain EXCEPT !.pc = "token", !.chunk = c] \in DrainSet
      BY <1>0, <2>2 DEF DrainSet
    <2>5. QED
      BY <2>1, <2>3, <2>4
  <1>5. ASSUME OnDrain, ReadToken
        PROVE  drain' \in DrainSet
    <2>1. NextChunk => drain' \in DrainSet
      BY <1>0, PassedOver DEF NextChunk
    <2>2. QED
      BY <1>0, <1>5, <2>1 DEF ReadToken, DrainSet
  <1>6. ASSUME OnDrain, Post
        PROVE  drain' \in DrainSet
    <2>1. NextChunk => drain' \in DrainSet
      BY <1>0, PassedOver DEF NextChunk
    <2>2. DrainGoes("acked") => drain' \in DrainSet
      BY <1>0 DEF DrainGoes, DrainSet
    <2>3. QED
      BY <1>6, <2>1, <2>2 DEF Post
  <1>7. ASSUME OnDrain, LogAck
        PROVE  drain' \in DrainSet
    BY <1>0, <1>7 DEF LogAck, DrainAt, DrainGoes, NoFault, Record, Reports, Users, Work,
       OnDrain, DrainSet
  <1>8. ASSUME OnDrain, RemoveChunk
        PROVE  drain' \in DrainSet
    BY <1>0, <1>8 DEF RemoveChunk, DrainAt, NextChunk, NoFault, Record, Reports, Users, Work,
       OnDrain, DrainSet
  <1>9. ASSUME OnDrain, DrainSettles
        PROVE  drain' \in DrainSet
    BY <1>0, <1>9 DEF DrainSettles, Ended, SettleRead, Settleable, DrainAt, DrainGoes,
       NoNotice, NoFault, Record, Queue, Reports, Users, Work, OnDrain, DrainSet
  <1>10. ASSUME OnDrain, DrainEnds
        PROVE  drain' \in DrainSet
    BY <1>0, <1>10 DEF DrainEnds, Settles, DrainAt, IdleDrain, NoFault, Record, Queue, Reports,
       Users, Work, OnDrain, DrainSet
  <1>11. ASSUME OnDrain, CrashDrain
        PROVE  drain' \in DrainSet
    BY <1>0, <1>11 DEF CrashDrain, Stops, DrainAt, IdleDrain, Idle, NoNotice, Spend, Record,
       Queue, Reports, Users, Work, OnDrain, DrainSet
  <1>12. CASE UNCHANGED <<drain>>
    BY <1>0, <1>12 DEF DrainSet
  <1>13. QED
    BY WhoWrites, <1>1, <1>2, <1>3, <1>4, <1>5, <1>6, <1>7, <1>8, <1>9, <1>10, <1>11,
       <1>12 DEF Writers, SettleStep, WorkerStep

\* What is logged as sent can be counted.
LEMMA SentIsCounted ==
  ASSUME TypeOK, WorkersCount, NEW o
  PROVE  IsFiniteSet(Of(o, sealed)) /\ IsFiniteSet(Of(o, acks)) /\ Sent(o) \in Nat
  <1>1. IsFiniteSet(sealed) /\ Of(o, sealed) \in SUBSET sealed /\ Of(o, acks) \in SUBSET sealed
    BY DEF TypeOK, WorkersCount, Of
  <1>2. IsFiniteSet(Of(o, sealed)) /\ IsFiniteSet(Of(o, acks))
    BY <1>1, FS_Subset
  <1>3. QED
    BY <1>2, FS_CardinalityType DEF Sent

\* Who begins to settle has read a record that can be settled; who stops is idle.
LEMMA Settling ==
  ASSUME TypeOK, NEW p \in Settler
  PROVE  /\ SettleRead(p) =>
              /\ settler' \in [Settler -> SettlerSet]
              /\ \A q \in Settler \ {p} : settler'[q] = settler[q]
              /\ \/ settler'[p] = settler[p]
                 \/ Settleable /\ settler'[p].pc = "count" /\ settler'[p].notice.offer = state.offer
         /\ Stops(p) =>
              /\ settler' \in [Settler -> SettlerSet]
              /\ \A q \in Settler \ {p} : settler'[q] = settler[q]
              /\ settler'[p].pc = "idle"
  <1>1. settler \in [Settler -> SettlerSet] /\ state.offer \in Offer \cup {0} /\ Transcripts \in Nat
    BY CountsAssumption DEF TypeOK, SettlerSet, State
  <1>2. Idle \in SettlerSet /\ Idle.pc = "idle"
    BY <1>1 DEF Idle, NoNotice, SettlerSet, Notice
  <1> DEFINE r == [pc |-> "count", notice |-> [NoNotice EXCEPT !.offer = state.offer]]
  <1>3. r \in SettlerSet /\ r.pc = "count" /\ r.notice.offer = state.offer
    <2>1. /\ [NoNotice EXCEPT !.offer = state.offer] \in Notice
          /\ [NoNotice EXCEPT !.offer = state.offer].offer = state.offer
      <3>1. NoNotice \in [offer : Offer \cup {0}, kind : {"none", "failed", "delivered"}, whole : BOOLEAN,
                          queued : 0 .. Transcripts, sent : 0 .. Transcripts]
        BY <1>1 DEF NoNotice
      <3> HIDE DEF NoNotice
      <3>2. QED
        BY <1>1, <3>1 DEF Notice
    <2>2. QED
      BY <2>1 DEF SettlerSet
  <1>4. SettleRead(p) => settler' = settler \/ (Settleable /\ settler' = [settler EXCEPT ![p] = r])
    BY DEF SettleRead
  <1> HIDE DEF r
  <1>5. QED
    BY <1>1, <1>2, <1>3, <1>4 DEF Stops

\* A settler counts, marks, writes the notice and queues the event, one after the other.
LEMMA SettleMoves ==
  ASSUME TypeOK, WorkersCount, NEW p \in Settler, SettleStep(p)
  PROVE  LET n == settler[p].notice
             m == settler'[p].notice
         IN  /\ settler' \in [Settler -> SettlerSet]
             /\ \A q \in Settler \ {p} : settler'[q] = settler[q]
             /\ \/ settler'[p].pc = "idle"
                \/ settler[p].pc = "count" /\ settler'[p].pc = "mark" /\ m = n /\ SettleCount(p)
                \/ /\ settler[p].pc = "mark" /\ settler'[p].pc = "write" /\ SettleMark(p)
                   /\ Undelivered(n.offer) /\ state'.delivered /\ m.offer = n.offer
                   /\ m.whole = (state.status = "completed") /\ m.queued = state.queued
                \/ /\ settler[p].pc = "write" /\ settler'[p].pc = "event" /\ SettleWrite(p)
                   /\ m.offer = n.offer /\ m.whole = n.whole /\ m.queued = n.queued
                   /\ m.sent <= Sent(n.offer) /\ result' = m
  <1> DEFINE n == settler[p].notice
  <1>1. /\ settler \in [Settler -> SettlerSet] /\ state \in State
        /\ settler[p] \in SettlerSet /\ n \in Notice
    BY DEF TypeOK, SettlerSet
  <1>2. \A pc \in {"mark", "count", "write", "event"} :
          Goes(p, pc) => /\ settler' \in [Settler -> SettlerSet] /\ settler'[p].pc = pc
                         /\ settler'[p].notice = n
                         /\ \A q \in Settler \ {p} : settler'[q] = settler[q]
    BY <1>1 DEF Goes, SettlerSet
  <1>3. ASSUME SettleMark(p), ~ Stops(p)
        PROVE  /\ settler' \in [Settler -> SettlerSet]
               /\ \A q \in Settler \ {p} : settler'[q] = settler[q]
               /\ settler[p].pc = "mark" /\ settler'[p].pc = "write" /\ Undelivered(n.offer)
               /\ state'.delivered /\ settler'[p].notice.offer = n.offer
               /\ settler'[p].notice.whole = (state.status = "completed")
               /\ settler'[p].notice.queued = state.queued
    <2> DEFINE r == [settler[p] EXCEPT !.pc = "write", !.notice.kind = "delivered",
                       !.notice.whole = state.status = "completed", !.notice.queued = state.queued]
               w == [state EXCEPT !.delivered = TRUE]
    <2>1. /\ r \in SettlerSet /\ r.pc = "write" /\ r.notice.offer = n.offer
          /\ r.notice.whole = (state.status = "completed") /\ r.notice.queued = state.queued
      BY <1>1 DEF SettlerSet, Notice, State
    <2>2. settler' = [settler EXCEPT ![p] = r]
      BY <1>1, <1>3 DEF SettleMark, SettlerSet
    <2>3. w \in State /\ w.delivered /\ WriteState(w)
      BY <1>1, <1>3 DEF SettleMark, State
    <2> HIDE DEF r, w
    <2>4. QED
      BY <1>1, <1>3, <2>1, <2>2, <2>3, Written DEF SettleMark, Settles
  <1>4. ASSUME SettleWrite(p)
        PROVE  /\ settler' \in [Settler -> SettlerSet]
               /\ \A q \in Settler \ {p} : settler'[q] = settler[q]
               /\ settler[p].pc = "write" /\ settler'[p].pc = "event"
               /\ result' = settler'[p].notice
               /\ settler'[p].notice.offer = n.offer /\ settler'[p].notice.whole = n.whole
               /\ settler'[p].notice.queued = n.queued /\ settler'[p].notice.sent <= Sent(n.offer)
    <2> DEFINE k == Min({Sent(n.offer), n.queued})
               r == [n EXCEPT !.sent = k]
    <2>1. Sent(n.offer) \in Nat /\ n.queued \in 0 .. Transcripts /\ Transcripts \in Nat
      BY <1>1, SentIsCounted, CountsAssumption DEF Notice
    <2>2. k \in 0 .. Transcripts /\ k <= Sent(n.offer)
      BY <2>1, MinOfTwo
    <2>3. result' = r /\ settler' = [settler EXCEPT ![p] = [pc |-> "event", notice |-> r]]
      BY <1>4 DEF SettleWrite
    <2> HIDE DEF k
    <2>4. /\ r \in Notice /\ r.offer = n.offer /\ r.whole = n.whole /\ r.queued = n.queued
          /\ r.sent = k
      BY <1>1, <2>2 DEF Notice
    <2> HIDE DEF r, n
    <2>5. [pc |-> "event", notice |-> r] \in SettlerSet
      BY <2>4 DEF SettlerSet
    <2>6. settler'[p] = [pc |-> "event", notice |-> r]
      BY <1>1, <2>3
    <2>7. settler[p].pc = "write"
      BY <1>4 DEF SettleWrite, Settles
    <2>8. settler' \in [Settler -> SettlerSet] /\ \A q \in Settler \ {p} : settler'[q] = settler[q]
      BY <1>1, <2>3, <2>5
    <2>9. QED
      BY <2>2, <2>3, <2>4, <2>6, <2>7, <2>8
  <1>5. SettleCount(p) => settler[p].pc = "count" /\ (Stops(p) \/ Goes(p, "mark"))
    BY DEF SettleCount, Settles
  <1>6. SettleEvent(p) => Stops(p)
    BY DEF SettleEvent
  <1> HIDE DEF n
  <1>7. SettleCount(p) \/ SettleMark(p) \/ SettleWrite(p) \/ SettleEvent(p)
    BY DEF SettleStep
  <1>8. QED
    BY <1>2, <1>3, <1>4, <1>5, <1>6, <1>7, Settling DEF n

\* The settlers stay well typed.
LEMMA SettlerType ==
  ASSUME TypeOK, WorkersCount, [Next]_vars
  PROVE  settler' \in [Settler -> SettlerSet]
  <1>1. settler \in [Settler -> SettlerSet] /\ MaxOffers \in Nat
    BY CountsAssumption DEF TypeOK, SettlerSet
  <1>2. DrainId \in Settler /\ StartId \in Settler /\ Offer \subseteq Settler
    BY <1>1 DEF DrainId, StartId, Settler, Offer
  <1>3. StartSettles => SettleRead(StartId)
    BY DEF StartSettles
  <1>4. \A o \in Offer : WorkerSettles(o) => SettleRead(o)
    BY DEF WorkerSettles
  <1>5. \A o \in Offer : CrashWorker(o) => Stops(o)
    BY DEF CrashWorker
  <1>6. (DrainSettles => SettleRead(DrainId)) /\ (CrashDrain => Stops(DrainId))
    BY DEF DrainSettles, CrashDrain
  <1>7. QED
    BY <1>1, <1>2, <1>3, <1>4, <1>5, <1>6, Settling, SettleMoves, WhoWrites DEF Writers

\* The queue stays well typed.
LEMMA QueueType ==
  ASSUME TypeOK, WorkersCount, DrainInvariant, [Next]_vars
  PROVE  QueueTypes'
  <1>0. /\ QueueTypes /\ worker \in WorkerSet /\ drain.todo \subseteq sealed
        /\ drain.pc \in {"post", "acked"} => drain.chunk \in sealed
    BY DEF TypeOK, QueueTypes, WorkerSet, WorkerPC, DrainInvariant
  <1>1. ASSUME Expire
        PROVE  QueueTypes'
    BY <1>0, <1>1 DEF Expire, Spend, Record, Reports, Users, Work, QueueTypes
  <1>2. ASSUME NEW o \in Offer, WorkerStep(o), Seal(o)
        PROVE  QueueTypes'
    <2> DEFINE c == [offer |-> o, of |-> worker[o].next]
    <2>1. \/ UNCHANGED <<chunks, sealed, slipped>>
          \/ /\ chunks' = chunks \cup {c} /\ sealed' = sealed \cup {c}
             /\ slipped' \in {slipped, slipped \cup {c}}
      BY <1>2 DEF Seal
    <2>2. UNCHANGED <<aside, acks, dropped>>
      BY <1>2 DEF Seal
    <2>3. c \in Chunk
      BY <1>0, <1>2 DEF Seal, WorkerSet, Chunk
    <2>4. c \notin aside
      <3>1. worker[o].pc = "seal" /\ worker[o].next \in Nat /\ Counts(o)
        BY <1>0, <1>2, CountsAssumption DEF Seal, At, WorkersCount, WorkerSet
      <3>2. c \notin sealed
        BY <3>1 DEF Counts, Of
      <3>3. QED
        BY <1>0, <3>2 DEF QueueTypes
    <2> HIDE DEF c
    <2>5. QED
      BY <1>0, <2>1, <2>2, <2>3, <2>4 DEF QueueTypes
  <1>3. ASSUME OnDrain, PurgeDelete
        PROVE  QueueTypes'
    BY <1>0, <1>3 DEF PurgeDelete, DrainAt, IdleDrain, Gone, NoFault, Record, Reports, Users,
       Work, OnDrain, QueueTypes
  <1>4. ASSUME OnDrain, CheckChunk
        PROVE  QueueTypes'
    BY <1>0, <1>4 DEF CheckChunk, DrainAt, Gone, NotDropped, Passes, NoFault, Record, Reports,
       Users, Work, OnDrain, QueueTypes
  <1>5. ASSUME OnDrain, Post
        PROVE  QueueTypes'
    BY <1>0, <1>5 DEF Post, DrainAt, DrainGoes, NextChunk, Spend, NoFault, Record, Reports,
       Users, Work, OnDrain, QueueTypes
  <1>6. ASSUME OnDrain, LogAck
        PROVE  QueueTypes'
    BY <1>0, <1>6 DEF LogAck, DrainAt, DrainGoes, NoFault, Record, Reports, Users, Work,
       OnDrain, QueueTypes
  <1>7. ASSUME OnDrain, RemoveChunk
        PROVE  QueueTypes'
    BY <1>0, <1>7 DEF RemoveChunk, DrainAt, NextChunk, NoFault, Record, Reports, Users, Work,
       OnDrain, QueueTypes
  <1>8. CASE UNCHANGED <<chunks, aside, acks, dropped, slipped, sealed>>
    BY <1>0, <1>8 DEF QueueTypes
  <1>9. QED
    BY WhoWrites, <1>1, <1>2, <1>3, <1>4, <1>5, <1>6, <1>7, <1>8 DEF Writers, SettleStep,
       WorkerStep

\* An offer's event is queued unless it is.
LEMMA QueueEventType ==
  ASSUME ReportTypes, NEW o \in Offer, NEW w, NEW q, NEW n, QueueEvent(o, Outcome(w, q, n))
  PROVE  /\ event' \in [Offer -> {"success", "partial_success", "failed", None}]
         /\ reports' \in [Offer -> Nat]
  <1>1. Outcome(w, q, n) \in {"success", "partial_success", "failed"}
    BY DEF Outcome
  <1> DEFINE out == Outcome(w, q, n)
  <1> HIDE DEF out
  <1>2. QueueEvent(o, out)
    BY DEF out
  <1>3. QED
    BY <1>1, <1>2 DEF QueueEvent, ReportTypes, out

\* The reports stay well typed.
LEMMA ReportType ==
  ASSUME TypeOK, WorkersCount, SettlersInvariant, [Next]_vars
  PROVE  ReportTypes'
  <1>0. /\ ReportTypes /\ settler \in [Settler -> SettlerSet]
        /\ \A p \in Settler : settler[p].pc # "idle" => settler[p].notice.offer \in Offer
    BY DEF TypeOK, ReportTypes, SettlerSet, SettlersInvariant
  <1>1. ASSUME NEW p \in Settler, SettleStep(p), SettleWrite(p)
        PROVE  ReportTypes'
    <2>1. result' = settler'[p].notice /\ settler' \in [Settler -> SettlerSet]
      <3>1. settler[p].pc = "write"
        BY <1>1 DEF SettleWrite, Settles
      <3>2. ~ SettleCount(p) /\ ~ SettleMark(p) /\ settler'[p].pc = "event"
        BY <1>0, <1>1, <3>1 DEF SettleWrite, SettleCount, SettleMark, Settles
      <3>3. QED
        BY <3>1, <3>2, SettleMoves, <1>1
    <2>2. UNCHANGED <<event, failures, reports>>
      BY <1>1 DEF SettleWrite
    <2>3. QED
      BY <1>0, <2>1, <2>2 DEF ReportTypes, SettlerSet
  <1>2. ASSUME NEW p \in Settler, SettleStep(p), SettleEvent(p)
        PROVE  ReportTypes'
    <2>1. settler[p].notice.offer \in Offer
      BY <1>0, <1>2 DEF SettleEvent, Settles
    <2>2. UNCHANGED <<result, failures>>
      BY <1>2 DEF SettleEvent
    <2>3. QED
      BY <1>0, <1>2, <2>1, <2>2, QueueEventType DEF SettleEvent, ReportTypes
  <1>3. ASSUME NEW o \in Offer, WorkerStep(o), Announce(o)
        PROVE  ReportTypes'
    <2>1. [NoNotice EXCEPT !.offer = o, !.kind = "failed"] \in Notice
      <3>1. NoNotice \in [offer : Offer \cup {0}, kind : {"none", "failed", "delivered"}, whole : BOOLEAN,
                          queued : 0 .. Transcripts, sent : 0 .. Transcripts]
        BY CountsAssumption DEF NoNotice
      <3>2. QED
        BY <3>1 DEF Notice
    <2>2. UNCHANGED <<event, reports>>
      BY <1>3 DEF Announce
    <2>3. QED
      BY <1>0, <1>3, <2>1, <2>2 DEF Announce, ReportTypes
  <1>4. ASSUME NEW o \in Offer, WorkerStep(o), QueueUnqueued(o)
        PROVE  ReportTypes'
    <2>1. UNCHANGED <<result, failures>>
      BY <1>4 DEF QueueUnqueued
    <2>2. \/ UNCHANGED <<event, reports>>
          \/ QueueEvent(o, Outcome(state.status = "completed", 0, 0))
      BY <1>4 DEF QueueUnqueued
    <2>3. QED
      BY <1>0, <2>1, <2>2, QueueEventType DEF ReportTypes
  <1>5. ASSUME NEW o \in Offer, DrainEvent(o)
        PROVE  ReportTypes'
    BY <1>0, <1>5 DEF DrainEvent, NoFault, Record, Queue, Users, Work, ReportTypes
  <1>6. CASE UNCHANGED <<result, failures, event, reports>>
    BY <1>0, <1>6 DEF ReportTypes
  <1>7. QED
    BY WhoWrites, <1>1, <1>2, <1>3, <1>4, <1>5, <1>6 DEF Writers, SettleStep, WorkerStep

\* Every step keeps the types.
LEMMA TypeStep ==
  ASSUME TypeOK, RecordInvariant, WorkersCount, DrainInvariant, SettlersInvariant, [Next]_vars
  PROVE  TypeOK'
  <1>1. left' \in [Bounds -> Nat]
    BY WhoWrites DEF Writers, Spends
  <1>2. QED
    BY <1>1, RecordType, WorkerType, DrainType, SettlerType, QueueType, ReportType
       DEF TypeOK, WorkerSet, WorkerPC, DrainSet, SettlerSet, QueueTypes, ReportTypes

-----------------------------------------------------------------------------
(* The parts of the invariant, one after the other.                          *)

\* Offers are accepted one after the other, each once.
LEMMA RecordStep ==
  ASSUME TypeOK, RecordInvariant, [Next]_vars
  PROVE  RecordInvariant' /\ \A o \in Offer : accepted[o] # None => accepted'[o] = accepted[o]
  <1>0. /\ state \in State /\ accepted \in [Offer -> Tenant \cup {None}]
        /\ tenant \in Tenant \cup {None}
        /\ MaxOffers \in Nat /\ state' \in State /\ state.offer \in Nat
    <2>1. /\ state \in State /\ accepted \in [Offer -> Tenant \cup {None}]
          /\ tenant \in Tenant \cup {None}
          /\ MaxOffers \in Nat
      BY CountsAssumption DEF TypeOK
    <2>2. state.offer \in Nat
      BY <2>1 DEF State, Offer
    <2>3. QED
      BY <2>1, <2>2, RecordType
  <1>1. ASSUME Claim
        PROVE  RecordInvariant' /\ accepted' = accepted
    <2> DEFINE r == [state EXCEPT !.status = "declined", !.open = TRUE, !.offer = @ + 1,
                       !.prior = PriorOffers, !.authorized = FALSE]
    <2>1. /\ PriorOffers \in Seq(Prior)
          /\ \A p \in Range(PriorOffers) :
               p \in Range(state.prior)
               \/ (state.authorized /\ p = [offer |-> state.offer, tenant |-> state.tenant])
      BY PriorOffersAre DEF RecordInvariant
    <2>2. state.offer + 1 \in Offer
      BY <1>0, <1>1 DEF Claim, State, Offer
    <2>3. /\ r \in State /\ r.prior = PriorOffers /\ r.status = "declined"
          /\ r.offer = state.offer + 1
          /\ ~ r.authorized
      BY <1>0, <2>1, <2>2 DEF State
    <2>4. WriteState(r) /\ accepted' = accepted
      BY <1>1 DEF Claim, Users
    <2> HIDE DEF r
    <2>5. /\ state'.prior = PriorOffers /\ state'.status = "declined"
          /\ state'.offer = state.offer + 1
          /\ ~ state'.authorized
      BY <2>3, <2>4, Written
    <2>6. \A p \in Range(PriorOffers) : p.offer < state.offer + 1 /\ accepted[p.offer] = p.tenant
      <3>1. ASSUME NEW p \in Range(state.prior)
            PROVE  p.offer \in Nat /\ p.offer < state.offer /\ accepted[p.offer] = p.tenant
        <4>1. p \in Prior
          BY <1>0 DEF State, Range
        <4>2. QED
          BY <4>1 DEF RecordInvariant, Prior, Offer
      <3>2. QED
        BY <1>0, <2>1, <3>1 DEF RecordInvariant
    <2>7. \A o \in Offer : o \in Nat
      BY DEF Offer
    <2>8. \A o \in Offer : o >= state.offer + 1 => accepted[o] = None
      BY <1>0, <2>7 DEF RecordInvariant
    <2>9. QED
      BY <1>0, <2>2, <2>4, <2>5, <2>6, <2>7, <2>8 DEF RecordInvariant
  <1>2. ASSUME Accept
        PROVE  RecordInvariant' /\ \A o \in Offer : accepted[o] # None => accepted'[o] = accepted[o]
    <2>1. /\ state.offer \in Offer /\ tenant \in Tenant \ {None} /\ accepted[state.offer] = None
          /\ state.status = "declined" /\ ~ state.authorized
      BY <1>0, <1>2 DEF RecordInvariant, Accept
    <2>2. accepted' = [accepted EXCEPT ![state.offer] = tenant]
      BY <1>2 DEF Accept
    <2>7. /\ state'.prior = state.prior /\ state'.offer = state.offer /\ state'.authorized
          /\ state'.tenant = tenant /\ ~ state'.open /\ state'.status \in {"running", "failed"}
      BY <1>2, Accepting
    <2>8. \A p \in Range(state.prior) : accepted'[p.offer] = accepted[p.offer]
      <3>1. \A p \in Range(state.prior) : p \in Prior
        BY <1>0 DEF State, Range
      <3>2. \A p \in Range(state.prior) : p.offer \in Offer /\ p.offer # state.offer
        BY <1>0, <3>1 DEF RecordInvariant, Prior, Offer
      <3>3. QED
        BY <1>0, <2>2, <3>2
    <2>9. QED
      BY <1>0, <2>1, <2>2, <2>7, <2>8 DEF RecordInvariant
  <1>3. RecordKeeps => RecordInvariant'
    BY DEF RecordInvariant, RecordKeeps
  <1>4. RecordKeeps => accepted' = accepted
    BY DEF RecordKeeps
  <1>5. QED
    BY <1>1, <1>2, <1>3, <1>4, RecordSteps

\* An import that can be settled stays so; it is begun again by no one.
LEMMA SettledStays ==
  ASSUME TypeOK, RecordInvariant, [Next]_vars, NEW o \in Offer, Settled(o)
  PROVE  /\ Settled(o)'
         /\ state'.offer = o => state.offer = o /\ Ended' /\ (state.delivered => state'.delivered)
  <1>1. state.offer \in Nat /\ o \in Nat
    BY CountsAssumption DEF TypeOK, State, Offer
  <1>2. QED
    BY <1>1, Claiming, Accepting, RecordSteps DEF Settled, Ended, RecordKeeps

\* A worker's step is its own, and taken only by one that runs.
LEMMA OneWorker ==
  ASSUME TypeOK, NEW o \in Offer, WorkerStep(o) \/ CrashWorker(o)
  PROVE  /\ worker[o].pc \notin {"none", "ended", "dead"}
         /\ \A i \in Offer \ {o} : worker'[i] = worker[i] /\ Of(i, sealed') = Of(i, sealed)
  <1> DEFINE others == \A i \in Offer \ {o} : worker'[i] = worker[i]
  <1>0. worker \in WorkerSet
    BY DEF TypeOK, WorkerSet, WorkerPC
  <1>1. CheckRun(o) => others /\ worker[o].pc \notin {"none", "ended", "dead"}
    BY <1>0 DEF CheckRun, At, WorkerGoes, WorkerSet
  <1>2. RecordPid(o) => others /\ worker[o].pc \notin {"none", "ended", "dead"}
    BY <1>0 DEF RecordPid, At, WorkerGoes, WorkerSet
  <1>3. CheckScope(o) => others /\ worker[o].pc \notin {"none", "ended", "dead"}
    BY <1>0 DEF CheckScope, At, WorkerGoes, WorkerSet
  <1>4. Seal(o) => others /\ worker[o].pc \notin {"none", "ended", "dead"}
    BY <1>0 DEF Seal, At, WorkerGoes, WorkerSet
  <1>5. WriteCursor(o) => others /\ worker[o].pc \notin {"none", "ended", "dead"}
    BY <1>0 DEF WriteCursor, At, WorkerGoes, WorkerSet
  <1>6. Progress(o) => others /\ worker[o].pc \notin {"none", "ended", "dead"}
    BY <1>0 DEF Progress, At, WorkerGoes, WorkerSet
  <1>7. Finish(o) => others /\ worker[o].pc \notin {"none", "ended", "dead"}
    BY <1>0 DEF Finish, At, WorkerGoes, WorkerSet
  <1>8. WorkerSettles(o) => others /\ worker[o].pc \notin {"none", "ended", "dead"}
    BY <1>0 DEF WorkerSettles, At, WorkerGoes, WorkerSet
  <1>9. FinishFailed(o) => others /\ worker[o].pc \notin {"none", "ended", "dead"}
    BY <1>0 DEF FinishFailed, At, WorkerGoes, WorkerSet
  <1>10. Announce(o) => others /\ worker[o].pc \notin {"none", "ended", "dead"}
    BY <1>0 DEF Announce, At, WorkerGoes, WorkerSet
  <1>11. QueueUnqueued(o) => others /\ worker[o].pc \notin {"none", "ended", "dead"}
    BY <1>0 DEF QueueUnqueued, At, WorkerGoes, WorkerSet
  <1>12. CrashWorker(o) => others /\ worker[o].pc \notin {"none", "ended", "dead"}
    BY <1>0 DEF CrashWorker, WorkerGoes, Alive, WorkerSet
  <1>13. \A i \in Offer \ {o} : Of(i, sealed') = Of(i, sealed)
    <2>1. \/ UNCHANGED sealed \/ sealed' = sealed \cup {[offer |-> o, of |-> worker[o].next]}
      BY DEF WorkerStep, CrashWorker, CheckRun, RecordPid, CheckScope, Seal, WriteCursor, Progress,
         Finish, WorkerSettles, FinishFailed, Announce, QueueUnqueued, Queue
    <2>2. QED
      BY <2>1 DEF Of
  <1>14. QED
    BY <1>1, <1>2, <1>3, <1>4, <1>5, <1>6, <1>7, <1>8, <1>9, <1>10, <1>11, <1>12, <1>13 DEF WorkerStep

\* A worker, a chunk and a report come of an accepted offer.
LEMMA FreshStep ==
  ASSUME TypeOK, RecordInvariant, Fresh, SettlersInvariant, [Next]_vars
  PROVE  Fresh'
  <1>1. ASSUME NEW i \in Offer, accepted'[i] = None
        PROVE  /\ accepted[i] = None /\ worker[i] = NoWorker
               /\ reports[i] = 0 /\ event[i] = None /\ Of(i, sealed) = {}
    BY <1>1, RecordStep DEF Fresh
  <1>2. ASSUME NEW i \in Offer, accepted'[i] = None
        PROVE  worker'[i] = worker[i] /\ Of(i, sealed') = Of(i, sealed)
    <2>1. \A o \in Offer : WorkerStep(o) \/ CrashWorker(o) => o # i
      BY <1>1, <1>2, OneWorker DEF NoWorker
    <2>2. ASSUME Accept
          PROVE  worker'[i] = worker[i] /\ sealed' = sealed
      <3>1. state.offer # i
        BY <1>2, <2>2 DEF Accept, TypeOK
      <3>2. QED
        BY <2>2, <3>1 DEF Accept, TypeOK, Queue
    <2>3. \/ UNCHANGED <<worker, sealed>> \/ Accept
          \/ \E o \in Offer : WorkerStep(o) \/ CrashWorker(o)
      BY WhoWrites DEF Writers
    <2>4. QED
      BY <2>1, <2>2, <2>3, OneWorker
  <1>3. ASSUME NEW i \in Offer, accepted'[i] = None
        PROVE  event'[i] = event[i] /\ reports'[i] = reports[i]
    <2>1. ASSUME NEW o \in Offer, NEW x, QueueEvent(o, x), o # i
          PROVE  event'[i] = event[i] /\ reports'[i] = reports[i]
      BY <2>1 DEF QueueEvent, TypeOK
    <2>2. ASSUME NEW p \in Settler, SettleEvent(p)
          PROVE  event'[i] = event[i] /\ reports'[i] = reports[i]
      <3>1. settler[p].notice.offer \in Offer /\ settler[p].notice.offer # i
        BY <1>1, <1>3, <2>2 DEF SettleEvent, Settles, SettlersInvariant
      <3>2. QED
        BY <2>1, <2>2, <3>1 DEF SettleEvent
    <2>3. ASSUME NEW o \in Offer, QueueUnqueued(o)
          PROVE  event'[i] = event[i] /\ reports'[i] = reports[i]
      <3>1. o # i
        BY <1>1, <1>3, <2>3 DEF QueueUnqueued, At, NoWorker
      <3>2. QED
        BY <2>1, <2>3, <3>1 DEF QueueUnqueued
    <2>4. ASSUME NEW o \in Offer, DrainEvent(o)
          PROVE  event'[i] = event[i] /\ reports'[i] = reports[i]
      BY <1>1, <1>3, <2>4 DEF DrainEvent, TypeOK
    <2>5. QED
      BY <2>2, <2>3, <2>4, WhoWrites DEF Writers
  <1>4. QED
    BY <1>1, <1>2, <1>3 DEF Fresh

\* A chunk that is sealed is one more.
LEMMA SealCounts ==
  ASSUME TypeOK, WorkersCount, NEW o \in Offer, Seal(o)
  PROVE  /\ worker[o].pc = "seal" /\ worker'[o].queued = worker[o].queued
         /\ \/ worker'[o].pc = "progress" /\ sealed' = sealed
            \/ /\ worker'[o].pc = "cursor"
               /\ Cardinality(Of(o, sealed')) = Cardinality(Of(o, sealed)) + 1
  <1> DEFINE w == worker[o]
             c == [offer |-> o, of |-> w.next]
  <1>0. /\ worker \in WorkerSet /\ w.next \in Nat /\ sealed \subseteq Chunk
        /\ w \in [pc : WorkerPC, next : 1 .. Transcripts + 1, queued : 0 .. Transcripts, failed : BOOLEAN]
    BY CountsAssumption DEF TypeOK, WorkerSet, WorkerPC
  <1>1. /\ w.pc = "seal"
        /\ \/ worker'[o] = [w EXCEPT !.pc = "progress"] /\ sealed' = sealed
           \/ worker'[o] = [w EXCEPT !.pc = "progress", !.failed = TRUE] /\ sealed' = sealed
           \/ worker'[o] = [w EXCEPT !.pc = "cursor"] /\ sealed' = sealed \cup {c}
    BY <1>0 DEF Seal, At, WorkerGoes, WorkerSet
  <1>2. \A d \in Of(o, sealed) : d.of < w.next /\ d.of \in Nat
    <2>1. \A d \in Of(o, sealed) : d.of < w.next
      BY <1>1 DEF WorkersCount, Counts
    <2>2. \A d \in Of(o, sealed) : d.of \in Nat
      BY <1>0 DEF Of, Chunk
    <2>3. QED
      BY <2>1, <2>2
  <1>3. c \notin Of(o, sealed) /\ IsFiniteSet(Of(o, sealed))
    BY <1>0, <1>2, SentIsCounted
  <1>4. sealed' = sealed \cup {c} => Of(o, sealed') = Of(o, sealed) \cup {c}
    BY DEF Of
  <1>5. Cardinality(Of(o, sealed) \cup {c}) = Cardinality(Of(o, sealed)) + 1
    BY <1>3, FS_AddElement
  <1> HIDE DEF c, w
  <1>6. QED
    BY <1>0, <1>1, <1>4, <1>5 DEF w

\* A worker counts as it seals.
LEMMA CountsStep ==
  ASSUME TypeOK, RecordInvariant, Fresh, WorkersCount, [Next]_vars
  PROVE  WorkersCount'
  <1>0. /\ worker \in WorkerSet /\ Transcripts \in Nat /\ sealed \subseteq Chunk
        /\ \A o \in Offer : worker[o].next \in Nat /\ worker[o].queued \in Nat
    <2>1. worker \in WorkerSet /\ Transcripts \in Nat /\ sealed \subseteq Chunk
      BY CountsAssumption DEF TypeOK, WorkerSet, WorkerPC
    <2>2. QED
      BY <2>1 DEF WorkerSet
  <1>1. IsFiniteSet(sealed) /\ \A o \in Offer : Counts(o)
    BY DEF WorkersCount
  <1>2. ASSUME NEW i \in Offer, worker'[i] = worker[i], Of(i, sealed') = Of(i, sealed)
        PROVE  Counts(i)'
    BY <1>1, <1>2 DEF Counts
  <1>3. ASSUME NEW i \in Offer, worker'[i].pc \in Done
        PROVE  Counts(i)'
    BY <1>3 DEF Counts, Done
  <1>4. ASSUME NEW o \in Offer, WorkerStep(o), UNCHANGED sealed
        PROVE  Counts(o)'
    <2> DEFINE w == worker[o]
               v == worker'[o]
               n == Cardinality(Of(o, sealed))
    <2>0. Of(o, sealed') = Of(o, sealed) /\ Counts(o)
      BY <1>1, <1>4
    <2>1. CheckRun(o) => (v = [w EXCEPT !.pc = "pid"] /\ w.pc = "check") \/ v.pc \in Done
      BY <1>0 DEF CheckRun, At, WorkerGoes, WorkerSet, Done
    <2>2. RecordPid(o) => v = [w EXCEPT !.pc = "scope"] /\ w.pc = "pid"
      BY <1>0 DEF RecordPid, At, WorkerGoes, WorkerSet
    <2>3. CheckScope(o) => (v = [w EXCEPT !.pc = "seal"] /\ w.pc = "scope") \/ v.pc \in Done
      BY <1>0 DEF CheckScope, At, WorkerGoes, WorkerSet, Done
    <2>4. WriteCursor(o) => /\ w.pc = "cursor"
                            /\ \/ v = [w EXCEPT !.pc = "progress", !.queued = @ + 1]
                               \/ v = [w EXCEPT !.pc = "progress", !.failed = TRUE]
      BY <1>0 DEF WriteCursor, At, WorkerSet
    <2>5. Progress(o) => \/ w.pc = "progress" /\ v = [w EXCEPT !.pc = "seal", !.next = @ + 1]
                         \/ v.pc \in Done
      BY <1>0 DEF Progress, At, WorkerGoes, WorkerSet, Done
    <2>6. Seal(o) => /\ w.pc = "seal" /\ w.next <= Transcripts
                     /\ \/ v = [w EXCEPT !.pc = "progress"]
                        \/ v = [w EXCEPT !.pc = "progress", !.failed = TRUE]
                        \/ v = [w EXCEPT !.pc = "cursor"]
                           /\ [offer |-> o, of |-> w.next] \in sealed
      BY <1>0, <1>4 DEF Seal, At, WorkerGoes, WorkerSet
    <2>7. Finish(o) \/ WorkerSettles(o) \/ FinishFailed(o) \/ Announce(o) \/ QueueUnqueued(o) => v.pc \in Done
      BY <1>0 DEF Finish, WorkerSettles, FinishFailed, Announce, QueueUnqueued, At, WorkerGoes,
         WorkerSet, Done
    <2>8. /\ w.next \in Nat /\ w.queued \in Nat /\ w.failed \in BOOLEAN /\ Transcripts \in Nat
          /\ w \in [pc : WorkerPC, next : 1 .. Transcripts + 1, queued : 0 .. Transcripts, failed : BOOLEAN]
      BY <1>0 DEF WorkerSet
    <2>9. Of(o, sealed) \subseteq Chunk /\ \A c \in Chunk : c.of \in Nat
      BY <1>0 DEF Of, Chunk
    <2>10. Of(o, sealed) = {} => n = 0
      BY FS_EmptySet
    <2> DEFINE S == Of(o, sealed)
               C(x) == /\ x.pc \in {"none", "check", "pid", "scope"} =>
                            x.next = 1 /\ x.queued = 0 /\ S = {}
                       /\ x.pc \in {"cursor", "progress"} => x.next <= Transcripts
                       /\ x.pc \in {"seal", "cursor"} => x.queued < x.next
                       /\ x.pc = "progress" => x.queued <= x.next
                       /\ x.pc = "seal" => \A c \in S : c.of < x.next
                       /\ x.pc \in {"cursor", "progress"} => \A c \in S : c.of <= x.next
                       /\ x.pc \in {"none", "check", "pid", "scope", "seal", "progress"} /\ ~ x.failed =>
                            n = x.queued
                       /\ x.pc = "cursor" /\ ~ x.failed => n = x.queued + 1
    <2>11. Counts(o)' <=> C(v)
      BY <2>0 DEF Counts
    <2>12. C(w)
      BY <2>0 DEF Counts
    <2>13. \A c \in S : c.of \in Nat
      BY <2>9
    <2>14. w.pc = "seal" => [offer |-> o, of |-> w.next] \notin sealed
      BY <2>8, <2>12 DEF Of
    <2>15. v.pc \in Done => C(v)
      BY DEF Done
    <2> HIDE DEF v, w, S, n
    <2>16. ASSUME CheckRun(o) PROVE C(v)
      BY <2>1, <2>16, <2>8, <2>10, <2>12, <2>13, <2>14, <2>15
    <2>17. ASSUME RecordPid(o) PROVE C(v)
      BY <2>2, <2>17, <2>8, <2>10, <2>12, <2>13, <2>14, <2>15
    <2>18. ASSUME CheckScope(o) PROVE C(v)
      BY <2>3, <2>18, <2>8, <2>10, <2>12, <2>13, <2>14, <2>15
    <2>19. ASSUME WriteCursor(o) PROVE C(v)
      <3>1. /\ w.pc = "cursor" /\ v.pc = "progress" /\ v.next = w.next
            /\ \/ v.queued = w.queued + 1 /\ v.failed = w.failed
               \/ v.queued = w.queued /\ v.failed
        BY <2>4, <2>8, <2>19
      <3>2. QED
        BY <3>1, <2>8, <2>12, <2>13
    <2>20. ASSUME Progress(o) PROVE C(v)
      <3>1. ASSUME v = [w EXCEPT !.pc = "seal", !.next = @ + 1]
            PROVE  /\ v.pc = "seal" /\ v.next = w.next + 1 /\ v.queued = w.queued
                   /\ v.failed = w.failed
        BY <2>8, <3>1
      <3>2. QED
        BY <2>5, <2>8, <2>12, <2>13, <2>15, <2>20, <3>1
    <2>21. ASSUME Seal(o) PROVE C(v)
      <3>1. /\ w.pc = "seal" /\ v.pc = "progress" /\ v.next = w.next /\ v.queued = w.queued
            /\ w.next <= Transcripts /\ (v.failed = w.failed \/ v.failed)
        BY <2>6, <2>8, <2>14, <2>21
      <3>2. QED
        BY <3>1, <2>8, <2>12, <2>13
    <2>22. C(v)
      BY <2>7, <2>15, <2>16, <2>17, <2>18, <2>19, <2>20, <2>21, <1>4 DEF WorkerStep
    <2>23. QED
      BY <2>11, <2>22
  <1>5. ASSUME NEW o \in Offer, Seal(o), sealed' # sealed
        PROVE  Counts(o)' /\ IsFiniteSet(sealed')
    <2> DEFINE w == worker[o]
               v == worker'[o]
               c == [offer |-> o, of |-> w.next]
    <2>1. /\ v = [w EXCEPT !.pc = "cursor"] /\ sealed' = sealed \cup {c} /\ w.pc = "seal"
          /\ w.next <= Transcripts
      BY <1>0, <1>5 DEF Seal, At, WorkerGoes, WorkerSet
    <2>2. /\ w.next \in Nat /\ w.queued \in Nat
          /\ w \in [pc : WorkerPC, next : 1 .. Transcripts + 1, queued : 0 .. Transcripts, failed : BOOLEAN]
      BY <1>0 DEF WorkerSet
    <2>3. /\ w.queued < w.next /\ \A d \in Of(o, sealed) : d.of < w.next
          /\ ~ w.failed => Cardinality(Of(o, sealed)) = w.queued
      BY <1>1, <2>1 DEF Counts
    <2>4. Of(o, sealed') = Of(o, sealed) \cup {c}
      BY <2>1 DEF Of
    <2>5. IsFiniteSet(sealed')
      BY <1>1, <2>1, FS_AddElement
    <2>6. Cardinality(Of(o, sealed')) = Cardinality(Of(o, sealed)) + 1
      BY <1>5, SealCounts
    <2>7. \A d \in Of(o, sealed) : d.of \in Nat
      BY <1>0 DEF Of, Chunk
    <2>8. v.pc = "cursor" /\ v.next = w.next /\ v.queued = w.queued /\ v.failed = w.failed
      BY <2>1, <2>2
    <2>9. \A d \in Of(o, sealed') : d.of <= w.next
      BY <2>2, <2>3, <2>4, <2>7
    <2> HIDE DEF c, w
    <2>10. QED
      BY <2>1, <2>2, <2>3, <2>5, <2>6, <2>8, <2>9 DEF Counts
  <1>6. ASSUME NEW o \in Offer, WorkerStep(o)
        PROVE  WorkersCount'
    <2>1. \A i \in Offer \ {o} : Counts(i)'
      BY <1>2, <1>6, OneWorker
    <2>2. Counts(o)' /\ IsFiniteSet(sealed')
      <3>1. sealed' = sealed \/ Seal(o)
        BY <1>6 DEF WorkerStep, CheckRun, RecordPid, CheckScope, WriteCursor, Progress, Finish,
           WorkerSettles, FinishFailed, Announce, QueueUnqueued, Queue
      <3>2. QED
        BY <1>1, <1>4, <1>5, <1>6, <3>1
    <2>3. QED
      BY <2>1, <2>2 DEF WorkersCount
  <1>7. ASSUME NEW o \in Offer, CrashWorker(o)
        PROVE  WorkersCount'
    <2>1. UNCHANGED sealed /\ worker'[o].pc \in Done
      BY <1>0, <1>7 DEF CrashWorker, WorkerGoes, Queue, WorkerSet, Done
    <2>2. QED
      BY <1>1, <1>2, <1>3, <1>7, <2>1, OneWorker DEF WorkersCount
  <1>8. ASSUME Accept
        PROVE  WorkersCount'
    <2>1. PICK o \in Offer : o = state.offer /\ worker[o] = NoWorker /\ Of(o, sealed) = {}
      BY <1>8 DEF Accept, RecordInvariant, Fresh
    <2>2. /\ sealed' = sealed /\ \A i \in Offer \ {o} : worker'[i] = worker[i]
          /\ worker'[o] = NoWorker \/ worker'[o] = [NoWorker EXCEPT !.pc = "check"]
      BY <1>0, <1>8, <2>1 DEF Accept, Queue, WorkerSet
    <2>3. worker'[o].pc \in {"none", "check"} /\ worker'[o].next = 1 /\ worker'[o].queued = 0
      BY <2>2 DEF NoWorker
    <2>4. Of(o, sealed') = {} /\ Cardinality({}) = 0
      BY <2>1, <2>2, FS_EmptySet
    <2>5. Counts(o)'
      BY <2>3, <2>4 DEF Counts
    <2>6. \A i \in Offer \ {o} : Counts(i)'
      BY <1>2, <2>2
    <2>7. QED
      BY <1>1, <2>2, <2>5, <2>6 DEF WorkersCount
  <1>9. CASE UNCHANGED <<worker, sealed>>
    BY <1>1, <1>2, <1>9 DEF WorkersCount
  <1>10. QED
    BY <1>6, <1>7, <1>8, <1>9, WhoWrites DEF Writers

\* An import that completed stays as it was counted.
LEMMA CompletedStep ==
  ASSUME TypeOK, RecordInvariant, WorkersCount, Completed, [Next]_vars
  PROVE  Completed'
  <1>1. ASSUME Claim \/ Accept
        PROVE  state'.status # "completed"
    BY <1>1, Claiming, Accepting
  <1>2. ASSUME RecordKeeps, state'.status = "completed", state.status = "completed"
        PROVE  Completed'
    <2>1. ~ Accept /\ state.offer \in Offer
      BY <1>2 DEF Accept, RecordInvariant
    <2>2. state'.offer = state.offer /\ state'.queued = state.queued
      BY <1>2 DEF RecordKeeps
    <2>3. QED
      BY <1>2, <2>1, <2>2, DoneSteps DEF Completed, DoneStays
  <1>3. ASSUME NEW o \in Offer, Finish(o), state'.status = "completed", state.status # "completed"
        PROVE  Completed'
    <2> DEFINE r == [state EXCEPT !.status = IF worker[o].failed THEN "failed" ELSE "completed",
                       !.queued = worker[o].queued, !.finished = TRUE]
    <2>1. /\ worker[o].pc = "seal" /\ worker'[o].pc = "settle" /\ Current(o) /\ WriteState(r)
          /\ sealed' = sealed
      BY <1>3 DEF Finish, At, WorkerGoes, Queue, TypeOK
    <2>2. r \in State /\ r.offer = state.offer /\ r.queued = worker[o].queued
          /\ r.status = IF worker[o].failed THEN "failed" ELSE "completed"
      BY DEF TypeOK, State
    <2> HIDE DEF r
    <2>3. state'.offer = o /\ state'.queued = worker[o].queued /\ ~ worker[o].failed
      BY <1>3, <2>1, <2>2, Written DEF Current
    <2>4. Cardinality(Of(o, sealed)) = worker[o].queued
      BY <2>1, <2>3 DEF WorkersCount, Counts
    <2>5. QED
      BY <2>1, <2>3, <2>4 DEF Completed, Done
  <1>4. QED
    BY <1>1, <1>2, <1>3, RecordSteps DEF RecordKeeps, Completed

\* What the drain handles was sealed, and it logs what has arrived.
LEMMA DrainInvariantStep ==
  ASSUME TypeOK, RecordInvariant, DrainInvariant, [Next]_vars
  PROVE  DrainInvariant'
  <1>0. /\ sealed \subseteq sealed' /\ arrived \subseteq arrived' /\ acks \subseteq acks'
        /\ Arrived \subseteq Arrived'
        /\ chunks \subseteq sealed /\ drain \in DrainSet
        /\ NextChunk => drain'.pc = "next" /\ drain'.todo \subseteq drain.todo
    <2>1. chunks \subseteq sealed /\ drain \in DrainSet
      BY DEF TypeOK, DrainSet
    <2>2. NextChunk => drain'.pc = "next" /\ drain'.todo \subseteq drain.todo
      BY <2>1 DEF NextChunk, DrainSet
    <2>3. QED
      BY <2>1, <2>2, HistoryGrows DEF HistoryStep, Arrived
  <1>1. ASSUME Expire
        PROVE  DrainInvariant'
    BY <1>0, <1>1 DEF Expire, Spend, Record, Reports, Users, Work, DrainInvariant, DrainSet,
       Arrived
  <1>2. ASSUME NEW o \in Offer, WorkerStep(o), Seal(o)
        PROVE  DrainInvariant'
    BY <1>0, <1>2 DEF Seal, WorkerStep, At, WorkerGoes, Spend, NoFault, Record, Reports, Users,
       DrainInvariant, DrainSet, Arrived
  <1>3. ASSUME OnDrain, PurgeScan
        PROVE  DrainInvariant'
    BY <1>0, <1>3 DEF PurgeScan, DrainAt, Spend, Record, Queue, Reports, Users, Work, OnDrain,
       DrainInvariant, DrainSet, Arrived
  <1>4. ASSUME OnDrain, PurgeDelete
        PROVE  DrainInvariant'
    BY <1>0, <1>4 DEF PurgeDelete, DrainAt, IdleDrain, Gone, NoFault, Record, Reports, Users,
       Work, OnDrain, DrainInvariant, DrainSet, Arrived
  <1>5. ASSUME OnDrain, ListChunks
        PROVE  DrainInvariant'
    BY <1>0, <1>5 DEF ListChunks, DrainAt, IdleDrain, NoFault, Record, Queue, Reports, Users,
       Work, OnDrain, DrainInvariant, DrainSet, Arrived
  <1>6. ASSUME OnDrain, CheckChunk
        PROVE  DrainInvariant'
    <2>1. UNCHANGED <<acks, arrived, sealed>> /\ drain.pc = "next"
      BY <1>6 DEF CheckChunk, DrainAt
    <2>2. PICK c \in drain.todo : Passes(c) \/ (c \in chunks /\ drain' = [drain EXCEPT !.pc = "token", !.chunk = c])
      BY <1>6 DEF CheckChunk
    <2>3. Passes(c) => drain'.pc = "next" /\ drain'.todo \subseteq drain.todo
      BY <1>0, <2>1 DEF Passes, DrainSet
    <2>4. drain' = [drain EXCEPT !.pc = "token", !.chunk = c] =>
            drain'.pc = "token" /\ drain'.chunk = c /\ drain'.todo = drain.todo
      BY <1>0 DEF DrainSet
    <2>5. QED
      BY <1>0, <2>1, <2>2, <2>3, <2>4 DEF DrainInvariant, Arrived
  <1>7. ASSUME OnDrain, ReadToken
        PROVE  DrainInvariant'
    <2>1. UNCHANGED <<acks, arrived, sealed>>
      BY <1>7 DEF ReadToken, Queue
    <2>2. \/ NextChunk
          \/ drain'.pc = "post" /\ drain'.todo = drain.todo /\ drain'.chunk = drain.chunk /\ drain.pc = "token"
      BY <1>0, <1>7 DEF ReadToken, DrainAt, DrainSet
    <2>3. QED
      BY <1>0, <2>1, <2>2 DEF DrainInvariant, Arrived
  <1>8. ASSUME OnDrain, Post
        PROVE  DrainInvariant'
    <2> DEFINE c == drain.chunk
               a == [chunk |-> c, tenant |-> drain.token]
    <2>1. UNCHANGED <<acks, sealed>> /\ drain.pc = "post" /\ c \in sealed
      BY <1>8 DEF Post, DrainAt, DrainInvariant
    <2>2. MayPost(c) => drain.token # None
      BY DEF MayPost, Unwanted
    <2>3. \/ NextChunk
          \/ /\ drain'.pc = "acked" /\ drain'.todo = drain.todo /\ drain'.chunk = c
             /\ arrived' = arrived \cup {a}
      BY <1>0, <1>8 DEF Post, DrainGoes, DrainSet
    <2>4. arrived' = arrived \/ (arrived' = arrived \cup {a} /\ drain.token # None)
      BY <1>8, <2>2 DEF Post
    <2>5. a.chunk = c /\ a.tenant = drain.token
      OBVIOUS
    <2>6. \A b \in arrived' : b.tenant # None /\ b.chunk \in sealed'
      BY <2>1, <2>4, <2>5 DEF DrainInvariant
    <2>7. arrived' = arrived \cup {a} => c \in Arrived'
      BY <2>5 DEF Arrived
    <2>8. QED
      BY <1>0, <2>1, <2>3, <2>6, <2>7 DEF DrainInvariant
  <1>9. ASSUME OnDrain, LogAck
        PROVE  DrainInvariant'
    BY <1>0, <1>9 DEF LogAck, DrainAt, DrainGoes, NoFault, Record, Reports, Users, Work,
       OnDrain, DrainInvariant, DrainSet, Arrived
  <1>10. ASSUME OnDrain, RemoveChunk
        PROVE  DrainInvariant'
    BY <1>0, <1>10 DEF RemoveChunk, DrainAt, NextChunk, NoFault, Record, Reports, Users, Work,
       OnDrain, DrainInvariant, DrainSet, Arrived
  <1>11. ASSUME OnDrain, DrainSettles
        PROVE  DrainInvariant'
    BY <1>0, <1>11 DEF DrainSettles, Ended, SettleRead, Settleable, DrainAt, DrainGoes,
       NoNotice, NoFault, Record, Queue, Reports, Users, Work, OnDrain, DrainInvariant,
       DrainSet, Arrived
  <1>12. ASSUME OnDrain, DrainEnds
        PROVE  DrainInvariant'
    BY <1>0, <1>12 DEF DrainEnds, Settles, DrainAt, IdleDrain, NoFault, Record, Queue, Reports,
       Users, Work, OnDrain, DrainInvariant, DrainSet, Arrived
  <1>13. ASSUME OnDrain, CrashDrain
        PROVE  DrainInvariant'
    BY <1>0, <1>13 DEF CrashDrain, Stops, DrainAt, IdleDrain, Idle, NoNotice, Spend, Record,
       Queue, Reports, Users, Work, OnDrain, DrainInvariant, DrainSet, Arrived
  <1>14. CASE UNCHANGED <<drain, chunks, aside, acks, dropped, slipped, arrived, sealed>>
    BY <1>0, <1>14 DEF DrainInvariant, DrainSet, Arrived
  <1>15. QED
    BY WhoWrites, <1>1, <1>2, <1>3, <1>4, <1>5, <1>6, <1>7, <1>8, <1>9, <1>10, <1>11, <1>12,
       <1>13, <1>14 DEF Writers, SettleStep, WorkerStep

\* A chunk arrives under the tenant that accepted its offer.
LEMMA TenantStep ==
  ASSUME TypeOK, RecordInvariant, DrainInvariant, TenantKept, [Next]_vars
  PROVE  TenantKept'
  <1>1. ASSUME NEW a \in arrived
        PROVE  accepted'[a.chunk.offer] = a.tenant
    <2>1. accepted[a.chunk.offer] = a.tenant /\ a.tenant # None /\ a.chunk.offer \in Offer
      BY <1>1 DEF TenantKept, DrainInvariant, TypeOK, Chunk
    <2>2. QED
      BY <2>1, RecordStep
  <1>2. ASSUME NEW a \in arrived', a \notin arrived
        PROVE  accepted'[a.chunk.offer] = a.tenant
    <2>1. arrived' = arrived \/ (Post /\ OnDrain)
      BY WhoWrites DEF Writers
    <2>2. /\ a = [chunk |-> drain.chunk, tenant |-> drain.token] /\ MayPost(drain.chunk)
          /\ accepted' = accepted
      BY <1>2, <2>1 DEF Post, OnDrain, Users
    <2>3. Kept(drain.chunk.offer) /\ drain.token = TenantOf(drain.chunk.offer)
      BY <2>2 DEF MayPost, Unwanted
    <2>4. QED
      BY <2>2, <2>3, TenantOfKept
  <1>3. QED
    BY <1>1, <1>2 DEF TenantKept

\* Processes that settle, one step.
SettlerStep(p) ==
  LET n == settler[p].notice
      m == settler'[p].notice
  IN  /\ \A q \in Settler \ {p} : settler'[q] = settler[q]
      /\ \/ settler'[p] = settler[p]
         \/ settler'[p].pc = "idle"
         \/ settler'[p].pc = "count" /\ Settleable /\ m.offer = state.offer
         \/ settler[p].pc = "count" /\ settler'[p].pc = "mark" /\ m = n
         \/ /\ settler[p].pc = "mark" /\ settler'[p].pc = "write" /\ UNCHANGED <<reports, worker, sealed>>
            /\ Undelivered(n.offer) /\ state'.delivered /\ m.offer = n.offer
            /\ m.whole = (state.status = "completed") /\ m.queued = state.queued
         \/ /\ settler[p].pc = "write" /\ settler'[p].pc = "event" /\ UNCHANGED <<reports, sealed, acks>>
            /\ m.offer = n.offer /\ m.whole = n.whole /\ m.queued = n.queued
            /\ m.sent <= Sent(n.offer)

\* One settler moves at a time.
LEMMA SettlerSteps ==
  ASSUME TypeOK, WorkersCount, [Next]_vars
  PROVE  UNCHANGED settler \/ \E p \in Settler : SettlerStep(p)
  <1>1. MaxOffers \in Nat
    BY CountsAssumption
  <1>2. DrainId \in Settler /\ StartId \in Settler /\ Offer \subseteq Settler
    BY <1>1 DEF DrainId, StartId, Settler, Offer
  <1>3. ASSUME NEW p \in Settler, SettleRead(p) \/ Stops(p)
        PROVE  SettlerStep(p)
    BY <1>3, Settling DEF SettlerStep
  <1>4. ASSUME NEW p \in Settler, SettleStep(p)
        PROVE  SettlerStep(p)
    <2>1. UNCHANGED <<worker, sealed, acks>>
      BY <1>4 DEF SettleStep, Work, Queue
    <2>2. SettleMark(p) \/ SettleWrite(p) => UNCHANGED reports
      BY DEF SettleMark, SettleWrite, Reports
    <2>3. QED
      BY <1>4, <2>1, <2>2, SettleMoves DEF SettlerStep
  <1>5. StartSettles => SettleRead(StartId)
    BY DEF StartSettles
  <1>6. \A o \in Offer : (WorkerSettles(o) => SettleRead(o)) /\ (CrashWorker(o) => Stops(o))
    BY DEF WorkerSettles, CrashWorker
  <1>7. (DrainSettles => SettleRead(DrainId)) /\ (CrashDrain => Stops(DrainId))
    BY DEF DrainSettles, CrashDrain
  <1>8. QED
    BY <1>2, <1>3, <1>4, <1>5, <1>6, <1>7, WhoWrites DEF Writers

\* What a settler has found of its import stays so while it reports.
LEMMA ReportingStays ==
  ASSUME TypeOK, RecordInvariant, SettlersInvariant, [Next]_vars,
         NEW p \in Settler, Reporting(p), settler'[p].pc \in {"write", "event"}
  PROVE  LET n == settler[p].notice
         IN  /\ state'.offer = n.offer => state'.delivered
             /\ reports'[n.offer] = 0 /\ acks \subseteq acks'
             /\ n.whole => /\ worker'[n.offer].pc \in Done
                           /\ Of(n.offer, sealed') = Of(n.offer, sealed)
  <1>1. PICK o \in Offer : o = settler[p].notice.offer /\ o \in Nat
    BY CountsAssumption DEF SettlersInvariant, Reporting, Offer
  <1>2. /\ Settled(o) /\ accepted[o] # None
        /\ (state.offer = o => state.delivered) /\ reports[o] = 0
        /\ settler[p].notice.whole => worker[o].pc \in Done
        /\ \A q \in Settler \ {p} : Reporting(q) => settler[q].notice.offer # o
    BY <1>1 DEF SettlersInvariant, Reporting
  <1>3. state'.offer = o => state'.delivered
    BY <1>2, SettledStays
  <1>4. ~ (Accept /\ o = state.offer)
    BY <1>1, <1>2 DEF Accept, Settled, Ended
  <1>5. settler[p].notice.whole => worker'[o].pc \in Done /\ Of(o, sealed') = Of(o, sealed)
    BY <1>2, <1>4, DoneSteps DEF DoneStays
  <1>6. reports'[o] = 0
    <2>1. ASSUME NEW q \in Settler, SettleEvent(q)
          PROVE  reports'[o] = 0
      <3>1. settler[q].pc = "event" /\ (Stops(q) => settler'[q].pc = "idle") /\ Stops(q)
        BY <2>1, Settling DEF SettleEvent, Settles
      <3>2. q # p
        BY <3>1
      <3>3. settler[q].notice.offer # o
        BY <1>2, <3>1, <3>2 DEF Reporting
      <3>4. QED
        BY <1>2, <2>1, <3>3 DEF SettleEvent, QueueEvent, TypeOK
    <2>2. ASSUME NEW i \in Offer, QueueUnqueued(i)
          PROVE  reports'[o] = 0
      <3>1. UNCHANGED reports \/ (Ended /\ state.offer = i /\ ~ state.queued > 0)
        BY <2>2 DEF QueueUnqueued, TypeOK, State
      <3>2. i # o \/ UNCHANGED reports
        BY <1>1, <1>2, <3>1 DEF Settled
      <3>3. QED
        BY <1>2, <2>2, <3>2 DEF QueueUnqueued, QueueEvent, TypeOK
    <2>3. \A i \in Offer : DrainEvent(i) => UNCHANGED reports
      BY DEF DrainEvent
    <2>4. QED
      BY <1>2, <2>1, <2>2, <2>3, WhoWrites DEF Writers
  <1>7. QED
    BY <1>1, <1>3, <1>5, <1>6, HistoryGrows DEF HistoryStep

\* An import is reported by the one process that marked it.
LEMMA SettlersStep ==
  ASSUME TypeOK, RecordInvariant, WorkersCount, Completed, SettlersInvariant, ReportInvariant,
         [Next]_vars
  PROVE  SettlersInvariant'
  <1>1. ASSUME NEW o \in Offer, Settled(o), accepted[o] # None
        PROVE  Settled(o)' /\ accepted'[o] # None
    BY <1>1, SettledStays, RecordStep
  <1>2. Settleable => /\ state.offer \in Offer /\ accepted[state.offer] # None /\ Settled(state.offer)
    BY DEF Settleable, Ended, RecordInvariant, Settled
  <1>3. ASSUME NEW p \in Settler, settler'[p].pc # "idle"
        PROVE  LET m == settler'[p].notice
               IN  /\ m.offer \in Offer /\ accepted'[m.offer] # None
                   /\ state'.offer > m.offer \/ (state'.offer = m.offer /\ Ended' /\ state'.queued > 0)
    <2>1. PICK o : o = settler'[p].notice.offer
      OBVIOUS
    <2>2. \/ settler[p].pc # "idle" /\ settler[p].notice.offer = o
          \/ Settleable /\ o = state.offer
      BY <1>3, <2>1, SettlerSteps DEF SettlerStep
    <2>3. o \in Offer /\ Settled(o) /\ accepted[o] # None
      BY <1>2, <2>2 DEF SettlersInvariant
    <2>4. Settled(o)' /\ accepted'[o] # None
      BY <1>1, <2>3
    <2>5. QED
      BY <2>1, <2>3, <2>4 DEF Settled
  <1>4. ASSUME NEW p \in Settler, Reporting(p)', ~ Reporting(p)
        PROVE  /\ settler[p].pc = "mark" /\ settler'[p].pc = "write"
               /\ UNCHANGED <<reports, worker, sealed>> /\ state'.delivered
               /\ settler'[p].notice.offer = settler[p].notice.offer
               /\ settler'[p].notice.offer = state.offer /\ ~ state.delivered /\ Ended
               /\ settler'[p].notice.whole = (state.status = "completed")
               /\ settler'[p].notice.queued = state.queued
               /\ \A q \in Settler \ {p} : settler'[q] = settler[q]
    BY <1>4, SettlerSteps DEF SettlerStep, Reporting, Undelivered
  <1>5. ASSUME NEW p \in Settler, Reporting(p)', Reporting(p)
        PROVE  /\ settler'[p].notice.offer = settler[p].notice.offer
               /\ settler'[p].notice.whole = settler[p].notice.whole
               /\ settler'[p].notice.queued = settler[p].notice.queued
               /\ \/ settler'[p] = settler[p]
                  \/ /\ settler[p].pc = "write" /\ settler'[p].notice.sent <= Sent(settler[p].notice.offer)
                     /\ UNCHANGED <<sealed, acks>>
    BY <1>5, SettlerSteps DEF SettlerStep, Reporting
  <1>6. ASSUME NEW p \in Settler, Reporting(p)'
        PROVE  LET m == settler'[p].notice
               IN  /\ state'.offer = m.offer => state'.delivered
                   /\ reports'[m.offer] = 0
                   /\ m.whole => /\ worker'[m.offer].pc \in Done
                                 /\ m.queued = Cardinality(Of(m.offer, sealed'))
    <2>1. CASE Reporting(p)
      <3>1. settler'[p].pc \in {"write", "event"}
        BY <1>6 DEF Reporting
      <3>2. settler[p].notice.whole => settler[p].notice.queued = Cardinality(Of(settler[p].notice.offer, sealed))
        BY <2>1 DEF SettlersInvariant
      <3>3. QED
        BY <1>5, <1>6, <2>1, <3>1, <3>2, ReportingStays
    <2>2. CASE ~ Reporting(p)
      <3>1. PICK o \in Offer : o = state.offer
        BY <1>4, <1>6, <2>2 DEF SettlersInvariant
      <3>2. Settled(o) /\ settler'[p].notice.offer = o
        BY <1>4, <1>6, <2>2, <3>1 DEF SettlersInvariant
      <3>3. state.queued > 0
        BY <3>1, <3>2, CountsAssumption DEF Settled, Offer
      <3>4. ~ Reported(o)
        BY <1>4, <1>6, <2>2, <3>1, <3>3, CountsAssumption DEF Reported, Offer
      <3>5. reports[o] = 0
        BY <3>4 DEF ReportInvariant, TypeOK
      <3>6. QED
        BY <1>4, <1>6, <2>2, <3>1, <3>2, <3>5 DEF Completed
    <2>3. QED
      BY <2>1, <2>2
  <1>7. ASSUME NEW p \in Settler, Reporting(p)', NEW q \in Settler \ {p}, Reporting(q)'
        PROVE  settler'[q].notice.offer # settler'[p].notice.offer
    <2>1. \A r \in Settler : Reporting(r) =>
           (state.offer = settler[r].notice.offer => state.delivered)
      BY DEF SettlersInvariant
    <2>2. ASSUME Reporting(p), Reporting(q)
          PROVE  settler[q].notice.offer # settler[p].notice.offer
      BY <1>7, <2>2 DEF SettlersInvariant
    <2>3. QED
      BY <1>4, <1>5, <1>7, <2>1, <2>2 DEF Reporting
  <1>8. ASSUME NEW p \in Settler, settler'[p].pc = "event", settler'[p].notice.whole,
               settler'[p].notice.sent = settler'[p].notice.queued
        PROVE  Of(settler'[p].notice.offer, sealed') \subseteq acks'
    <2>1. Reporting(p)' /\ Reporting(p)
      BY <1>4, <1>8 DEF Reporting
    <2> DEFINE o == settler[p].notice.offer
    <2>2. /\ settler'[p].notice.offer = o /\ settler[p].notice.whole
          /\ settler'[p].notice.queued = settler[p].notice.queued
      BY <1>5, <1>8, <2>1
    <2>3. Of(o, sealed') = Of(o, sealed) /\ acks \subseteq acks'
      BY <1>8, <2>1, <2>2, ReportingStays
    <2>4. ASSUME settler'[p] = settler[p]
          PROVE  Of(o, sealed) \subseteq acks
      BY <1>8, <2>4 DEF SettlersInvariant
    <2>5. ASSUME settler[p].pc = "write", settler'[p].notice.sent <= Sent(o)
          PROVE  Of(o, sealed) \subseteq acks
      <3>1. settler[p].notice.queued = Cardinality(Of(o, sealed))
        BY <2>1, <2>2 DEF SettlersInvariant
      <3>2. Cardinality(Of(o, sealed)) <= Cardinality(Of(o, acks))
        BY <1>8, <2>2, <2>5, <3>1 DEF Sent
      <3>3. /\ IsFiniteSet(Of(o, sealed)) /\ IsFiniteSet(Of(o, acks))
            /\ Cardinality(Of(o, sealed)) \in Nat /\ Cardinality(Of(o, acks)) \in Nat
        BY SentIsCounted, FS_CardinalityType
      <3>4. Of(o, acks) \in SUBSET Of(o, sealed)
        BY DEF Of, TypeOK
      <3>5. Of(o, sealed) = Of(o, acks)
        BY <3>2, <3>3, <3>4, FS_Subset
      <3>6. QED
        BY <3>5 DEF Of
    <2>6. QED
      BY <1>5, <2>1, <2>2, <2>3, <2>4, <2>5
  <1>9. QED
    BY <1>3, <1>6, <1>7, <1>8 DEF SettlersInvariant, Reporting, Settled, Ended

\* An import is reported once, when it is over.
LEMMA ReportStep ==
  ASSUME TypeOK, RecordInvariant, Fresh, WorkersCount, Completed, SettlersInvariant, ReportInvariant,
         [Next]_vars
  PROVE  ReportInvariant'
  <1>0. /\ \A o \in Offer : o \in Nat /\ reports[o] \in Nat
        /\ state \in State /\ state.offer \in Nat /\ state.queued \in Nat
    <2>1. /\ MaxOffers \in Nat /\ Transcripts \in Nat /\ state \in State
          /\ \A o \in Offer : reports[o] \in Nat
      BY CountsAssumption DEF TypeOK
    <2>2. QED
      BY <2>1 DEF State, Offer
  <1>1. ASSUME NEW o \in Offer, Reported(o)
        PROVE  Reported(o)'
    <2>1. ASSUME Claim PROVE Reported(o)'
      BY <1>0, <1>1, <2>1, Claiming, Accepting DEF Reported
    <2>2. ASSUME Accept PROVE Reported(o)'
      BY <1>0, <1>1, <2>2, Claiming, Accepting DEF Reported, Ended
    <2>3. ASSUME RecordKeeps, ~ Accept PROVE Reported(o)'
      <3>1. worker[o].pc = "ended" => worker'[o].pc = "ended"
        BY <2>3, DoneSteps DEF Done, DoneStays
      <3>2. state.offer = o /\ Ended => Ended' /\ state'.queued = state.queued
        BY <2>3 DEF RecordKeeps, Ended
      <3>3. QED
        BY <1>1, <2>3, <3>1, <3>2 DEF Reported, RecordKeeps
    <2>4. QED
      BY <2>1, <2>2, <2>3, RecordSteps
  <1>2. ASSUME NEW o \in Offer, event[o] = "success", ~ (Accept /\ o = state.offer)
        PROVE  Of(o, sealed') \subseteq acks' /\ worker'[o].pc \in Done
    BY <1>2, DoneSteps, HistoryGrows DEF ReportInvariant, DoneStays, HistoryStep
  <1>3. ASSUME UNCHANGED <<event, reports>>
        PROVE  ReportInvariant'
    <2>1. ASSUME Accept, state.offer \in Offer PROVE event[state.offer] = None
      BY <2>1 DEF Fresh, RecordInvariant, Accept
    <2>2. None # "success"
      BY NoneAssumption
    <2>3. \A o \in Offer : reports'[o] > 0 => Reported(o)'
      BY <1>1, <1>3 DEF ReportInvariant
    <2>4. \A o \in Offer : event'[o] = "success" => Of(o, sealed') \subseteq acks' /\ worker'[o].pc \in Done
      BY <1>2, <1>3, <2>1, <2>2
    <2>5. QED
      BY <1>3, <2>3, <2>4 DEF ReportInvariant
  <1>4. ASSUME NEW i \in Offer, NEW x, QueueEvent(i, x), UNCHANGED <<state, sealed, acks>>, reports[i] = 0,
               Reported(i)', ~ Accept, x = "success" => Of(i, sealed) \subseteq acks /\ worker'[i].pc \in Done
        PROVE  ReportInvariant'
    <2>1. CASE UNCHANGED <<event, reports>>
      BY <1>3, <2>1
    <2>2. CASE /\ event' = [event EXCEPT ![i] = x] /\ reports' = [reports EXCEPT ![i] = @ + 1]
      <3>1. /\ reports'[i] = 1 /\ event'[i] = x
            /\ \A o \in Offer \ {i} : reports'[o] = reports[o] /\ event'[o] = event[o]
        BY <1>4, <2>2 DEF TypeOK
      <3>2. \A o \in Offer : event'[o] = "success" => Of(o, sealed') \subseteq acks' /\ worker'[o].pc \in Done
        BY <1>2, <1>4, <3>1
      <3>3. \A o \in Offer : reports'[o] > 0 => Reported(o)'
        BY <1>1, <1>4, <3>1 DEF ReportInvariant
      <3>4. QED
        BY <3>1, <3>2, <3>3 DEF ReportInvariant
    <2>3. QED
      BY <1>4, <2>1, <2>2 DEF QueueEvent
  <1>5. ASSUME NEW p \in Settler, SettleEvent(p), UNCHANGED <<state, worker, sealed, acks>>
        PROVE  ReportInvariant'
    <2> DEFINE n == settler[p].notice
               x == Outcome(n.whole, n.queued, n.sent)
    <2>1. PICK i \in Offer : i = n.offer
      BY <1>5 DEF SettleEvent, Settles, SettlersInvariant
    <2>2. /\ QueueEvent(i, x) /\ reports[i] = 0 /\ Settled(i)
          /\ (state.offer = i => state.delivered)
          /\ n.whole /\ n.sent = n.queued => Of(i, sealed) \subseteq acks
          /\ n.whole => worker[i].pc \in Done
      BY <1>5, <2>1 DEF SettleEvent, Settles, SettlersInvariant, Reporting
    <2>3. x = "success" => n.whole /\ n.sent = n.queued
      BY DEF Outcome
    <2>4. Reported(i)'
      BY <1>0, <1>5, <2>2 DEF Reported, Settled, Ended
    <2>5. ~ Accept
      BY <1>5 DEF Accept, SettleEvent, Settles, Stops, Idle, TypeOK
    <2> HIDE DEF x
    <2>6. QED
      BY <1>4, <1>5, <2>2, <2>3, <2>4, <2>5
  <1>6. ASSUME NEW i \in Offer, QueueUnqueued(i), UNCHANGED <<state, settler, sealed, acks>>
        PROVE  ReportInvariant'
    <2> DEFINE x == Outcome(state.status = "completed", 0, 0)
    <2>1. worker[i].pc = "event" /\ worker'[i].pc = "ended"
      BY <1>6 DEF QueueUnqueued, At, WorkerGoes, TypeOK
    <2>2. CASE UNCHANGED <<event, reports>>
      BY <1>3, <2>2
    <2>3. CASE Ended /\ state.offer = i /\ state.queued = 0 /\ QueueEvent(i, x)
      <3>1. ~ Reported(i)
        BY <1>0, <2>1, <2>3 DEF Reported
      <3>2. reports[i] = 0
        BY <1>0, <3>1 DEF ReportInvariant
      <3>3. x = "success" => state.status = "completed"
        BY DEF Outcome
      <3>4. state.status = "completed" => Of(i, sealed) = {}
        <4>1. state.status = "completed" => Cardinality(Of(i, sealed)) = 0
          BY <2>3 DEF Completed
        <4>2. QED
          BY <4>1, SentIsCounted, FS_EmptySet
      <3>5. Reported(i)'
        BY <1>0, <1>6, <2>1, <2>3 DEF Reported, Ended
      <3>6. ~ Accept
        BY <2>3 DEF Accept, Ended
      <3> HIDE DEF x
      <3>7. QED
        BY <1>4, <1>6, <2>1, <2>3, <3>2, <3>3, <3>4, <3>5, <3>6 DEF Done
    <2>4. QED
      BY <1>6, <2>2, <2>3 DEF QueueUnqueued
  <1>7. ASSUME NEW i \in Offer, DrainEvent(i), UNCHANGED <<state, worker, settler, sealed, acks>>
        PROVE  ReportInvariant'
    <2>1. event' = [event EXCEPT ![i] = None] /\ reports' = reports
      BY <1>7 DEF DrainEvent
    <2>2. \A o \in Offer : event'[o] = "success" => event[o] = "success"
      BY <2>1, NoneAssumption DEF TypeOK
    <2>3. QED
      BY <1>1, <1>7, <2>1, <2>2 DEF ReportInvariant
  <1>8. QED
    BY <1>3, <1>5, <1>6, <1>7, HistoryGrows DEF HistoryStep

-----------------------------------------------------------------------------
(* The theorems.                                                             *)

\* At the start nothing has been offered.
LEMMA ImportInit == Init => ImportInvariant /\ TenantKept
  <1> SUFFICES ASSUME Init PROVE ImportInvariant /\ TenantKept
    OBVIOUS
  <1>0. /\ MaxOffers \in Nat /\ Transcripts \in Nat /\ MaxPrior \in Nat /\ 0 \in 0 .. Transcripts
        /\ 1 \in 1 .. Transcripts + 1 /\ Limits \in [Bounds -> Nat]
    BY CountsAssumption, LimitsAssumption
  <1>1. state \in State /\ Len(state.prior) <= MaxPrior /\ state.prior = << >>
    BY <1>0 DEF Init, State
  <1>2. NoNotice \in Notice /\ Idle \in SettlerSet /\ IdleDrain \in DrainSet
    <2>1. NoNotice \in Notice
      BY <1>0 DEF NoNotice, Notice
    <2>2. QED
      BY <2>1 DEF Idle, IdleDrain, SettlerSet, DrainSet
  <1>3. worker \in WorkerSet
    BY <1>0 DEF Init, NoWorker, WorkerSet, WorkerPC
  <1>4. TypeOK
    BY <1>0, <1>1, <1>2, <1>3 DEF Init, TypeOK, WorkerSet, WorkerPC, SettlerSet, DrainSet
  <1>5. RecordInvariant
    BY <1>1 DEF Init, RecordInvariant, Range, Offer
  <1>6. Fresh /\ \A o \in Offer : Of(o, sealed) = {} /\ worker[o] = NoWorker
    BY DEF Init, Fresh, Of
  <1>7. IsFiniteSet(sealed) /\ Cardinality({}) = 0
    BY FS_EmptySet DEF Init
  <1>8. \A o \in Offer : Counts(o)
    BY <1>6, <1>7 DEF Counts, NoWorker
  <1>9. DrainInvariant /\ TenantKept
    BY DEF Init, DrainInvariant, IdleDrain, TenantKept
  <1>10. Completed /\ SettlersInvariant /\ ReportInvariant
    BY NoneAssumption DEF Init, Completed, SettlersInvariant, Reporting, Idle, ReportInvariant
  <1>11. QED
    BY <1>4, <1>5, <1>6, <1>7, <1>8, <1>9, <1>10 DEF ImportInvariant, WorkersCount

\* Every step keeps the invariant and the tenant.
LEMMA ImportStep == ImportInvariant /\ TenantKept /\ [Next]_vars => ImportInvariant' /\ TenantKept'
  <1> SUFFICES ASSUME ImportInvariant, TenantKept, [Next]_vars
               PROVE  ImportInvariant' /\ TenantKept'
    OBVIOUS
  <1> USE DEF ImportInvariant
  <1>1. TypeOK' /\ RecordInvariant' /\ Fresh'
    BY TypeStep, RecordStep, FreshStep
  <1>2. WorkersCount' /\ Completed' /\ DrainInvariant'
    BY CountsStep, CompletedStep, DrainInvariantStep
  <1>3. SettlersInvariant' /\ ReportInvariant'
    BY SettlersStep, ReportStep
  <1>4. QED
    BY <1>1, <1>2, <1>3, TenantStep

\* The invariant holds for any history, any number of offers and any faults
\* (backfill-state.js, backfill-delivery.js, backfill_worker.js).
THEOREM ImportInvariantHolds == Spec => [](ImportInvariant /\ TenantKept)
  <1>1. QED
    BY ImportInit, ImportStep, PTL DEF Spec

\* Every variable keeps its type.
THEOREM TypeCorrect == Spec => []TypeOK
  <1>1. ImportInvariant => TypeOK
    BY DEF ImportInvariant
  <1>2. QED
    BY <1>1, ImportInvariantHolds, PTL

\* No chunk of an import reaches a tenant but the one that accepted it, however sign-ins,
\* offers and drains interleave (backfillTenantMatches).
THEOREM ImportsStayWithTheirTenant == Spec => []TenantKept
  BY ImportInvariantHolds, PTL

\* An import is reported once, by whichever of worker, drain and session start marks it, and
\* as a success only when all it queued has arrived (markBackfillDelivered,
\* queueBackfillCompleted, classifyBackfillOutcome).
THEOREM ImportsAreReportedTruly == Spec => []ReportedTruly
  <1>1. ImportInvariant => ReportedTruly
    <2> SUFFICES ASSUME ImportInvariant PROVE ReportedTruly
      OBVIOUS
    <2> USE DEF ImportInvariant
    <2>1. ReportedOnce
      BY DEF ReportedOnce, ReportInvariant, TypeOK
    <2>2. SuccessMeansArrived
      BY DEF SuccessMeansArrived, ReportInvariant, DrainInvariant, TypeOK
    <2>3. QED
      BY <2>1, <2>2 DEF ReportedTruly
  <1>2. QED
    BY <1>1, ImportInvariantHolds, PTL

-----------------------------------------------------------------------------
(* What counts as settled, and what is dropped: a second inductive invariant,  *)
(* on top of the first.                                                      *)

\* Nothing happens more often than it may.
Budget == \A k \in Bounds : left[k] <= Limits[k]

\* Unless a worker was taken for dead, one that lives has its run, and one whose run is judged
\* is dead.
Trusted ==
  /\ judged # None => accepted[judged] # None
  /\ state.status = "running" => state.pid \in {None, state.offer}
  /\ ~ Spent("stalls") =>
       /\ \A o \in Offer :
            o = state.offer /\ worker[o].pc \notin Done \cup {"none"} => state.status = "running"
       /\ judged # None /\ Current(judged) => worker[judged].pc = "dead"
       /\ state.status = "running" /\ state.aged => worker[state.offer].pc = "dead"

\* Then nothing waits of what counts as delivered, nor of what a settler has counted.
Emptied ==
  /\ state.delivered => state.status # "running"
  /\ ~ Spent("stalls") =>
       /\ state.delivered => Of(state.offer, chunks) = {}
       /\ \A p \in Settler :
            settler[p].pc = "mark" /\ settler[p].notice.offer = state.offer =>
              Of(state.offer, chunks) = {}

\* If besides no cursor and no progress failed to be written, the record counts what a worker
\* has sealed by the time it announces a failure.
Told(o) ==
  LET n == Cardinality(Of(o, sealed))
  IN  /\ worker[o].pc \in {"failing", "announceFailed"} => n = 0
      /\ worker[o].pc \in {"seal", "progress"} => n = worker[o].queued
      /\ worker[o].pc = "cursor" => n = worker[o].queued + 1
      /\ worker[o].pc \in {"settle", "announce"} /\ o = state.offer => Ended /\ state.queued = n
Smooth == ~ (Spent("seals") \/ Spent("busy") \/ Spent("stalls"))
NothingHidden ==
  /\ \A o \in failures : accepted[o] # None /\ worker[o].pc \in Done
  /\ Smooth => \A o \in Offer : Told(o) /\ (o \in failures => Of(o, sealed) = {})

\* An accepted offer is remembered until MaxPrior later ones are.
Later(o)    == {i \in Offer : i > o /\ accepted[i] # None}
Remembers(prior, o) ==
  \/ \E i \in 1 .. Len(prior) : prior[i].offer = o
  \/ Len(prior) = MaxPrior /\ \A i \in 1 .. Len(prior) : o < prior[i].offer
Latest(prior) ==
  /\ \A i \in 1 .. Len(prior) : accepted[prior[i].offer] # None
  /\ \A i, j \in 1 .. Len(prior) : i < j => prior[j].offer < prior[i].offer
Remembered ==
  /\ Latest(state.prior)
  /\ \A o \in Offer : o < state.offer /\ accepted[o] # None => Remembers(state.prior, o)

\* Nobody is signed in but who accepted, unless there was another sign-in.
SameTenant ==
  ~ Spent("signins") => \A o \in Offer : accepted[o] # None => tenant \in {None, accepted[o]}

\* A purge spares what it has found remembered.
Cause(c) == Spent("signins") \/ Spent("expiries") \/ Cardinality(Later(c.offer)) >= MaxPrior
Spared == drain.pc = "purge" => \A c \in (chunks \ drain.keep) \ slipped : Cause(c)

\* All of it.
PromiseInvariant ==
  /\ Budget /\ Trusted /\ Emptied /\ NothingHidden
  /\ Remembered /\ SameTenant /\ Spared /\ DroppedOnlyForCause

-----------------------------------------------------------------------------

\* What is spent stays spent.
LEMMA Spending ==
  ASSUME TypeOK, Budget, [Next]_vars
  PROVE  /\ Budget'
         /\ \A k \in Bounds : (Spent(k) => Spent(k)') /\ (Spend(k) => Spent(k)')
  <1>1. left \in [Bounds -> Nat] /\ Limits \in [Bounds -> Nat] /\ Spends
    BY LimitsAssumption, WhoWrites DEF TypeOK, Writers
  <1>2. \A k \in Bounds : left[k] \in Nat /\ left'[k] \in Nat /\ Limits[k] \in Nat /\ left'[k] <= left[k]
                          /\ left[k] <= Limits[k]
    BY <1>1 DEF Spends, Budget
  <1>3. \A k \in Bounds : Spend(k) => left'[k] = left[k] - 1
    BY <1>1 DEF Spend
  <1>4. QED
    BY <1>2, <1>3 DEF Budget, Spent

\* A worker that has not begun, has ended or is dead does nothing, until its offer is accepted.
LEMMA StaysPut ==
  ASSUME TypeOK, RecordInvariant, Fresh, [Next]_vars, NEW o \in Offer,
         worker[o].pc \in {"none", "ended", "dead"}
  PROVE  \/ worker'[o] = worker[o]
         \/ Accept /\ o = state.offer /\ worker[o] = NoWorker
  <1>1. ASSUME NEW i \in Offer, WorkerStep(i) \/ CrashWorker(i)
        PROVE  worker'[o] = worker[o]
    BY <1>1, OneWorker
  <1>2. ASSUME Accept
        PROVE  worker'[o] = worker[o] \/ (o = state.offer /\ worker[o] = NoWorker)
    <2>1. o = state.offer => accepted[o] = None
      BY <1>2 DEF Accept, RecordInvariant
    <2>2. o = state.offer => worker[o] = NoWorker
      BY <2>1 DEF Fresh
    <2>3. o # state.offer => worker'[o] = worker[o]
      BY <1>2 DEF Accept, TypeOK
    <2>4. QED
      BY <2>2, <2>3
  <1>3. QED
    BY <1>1, <1>2, WhoWrites DEF Writers

\* A worker that lives has lived before, but for the one of an offer that is accepted.
LEMMA AliveWas ==
  ASSUME TypeOK, RecordInvariant, Fresh, [Next]_vars, ~ Accept, NEW o \in Offer,
         worker'[o].pc \notin Done \cup {"none"}
  PROVE  worker[o].pc \notin Done \cup {"none"}
  <1>1. worker[o].pc \notin Done
    BY DoneSteps DEF DoneStays
  <1>2. worker[o].pc # "none"
    BY StaysPut
  <1>3. QED
    BY <1>1, <1>2

\* How the fields of the record change that RecordKeeps leaves open.
RecordMoves ==
  \/ UNCHANGED state
  \/ Claim /\ state'.status = "declined" /\ state'.delivered = state.delivered /\ ~ state'.aged
  \/ /\ Accept /\ state'.status \in {"running", "failed"} /\ ~ state'.delivered /\ ~ state'.aged
     /\ state'.pid = None /\ (state'.status = "failed" => UNCHANGED worker)
  \/ Age /\ RecordKeeps /\ state'.delivered = state.delivered /\ state'.pid = state.pid
     /\ state'.status = state.status /\ state'.queued = state.queued
  \/ /\ RecordKeeps /\ state'.delivered = state.delivered /\ ~ state'.aged
     /\ \/ state'.status = state.status /\ state'.pid = state.pid
        \/ state'.status = state.status /\ state'.pid = state.offer
        \/ /\ state'.status \in {"completed", "failed"} /\ state'.pid = state.pid
           /\ \/ Demote /\ Current(judged)
              \/ \E o \in Offer : Current(o) /\ WorkerStep(o) /\ FinishFailed(o)
              \/ \E o \in Offer : /\ Current(o) /\ WorkerStep(o) /\ Finish(o)
                                  /\ state'.queued = worker[o].queued
  \/ /\ RecordKeeps /\ ~ state'.aged /\ state'.delivered
     /\ state'.status = state.status /\ state'.pid = state.pid
     /\ \E p \in Settler : SettleStep(p) /\ SettleMark(p) /\ Undelivered(settler[p].notice.offer)

\* The record moves so.
LEMMA RecordMovesStep ==
  ASSUME TypeOK, [Next]_vars
  PROVE  RecordMoves
  <1>0. state \in State
    BY DEF TypeOK
  <1>1. ASSUME Claim
        PROVE  RecordMoves
    BY <1>0, <1>1 DEF Claim, WriteState, State, RecordMoves
  <1>2. ASSUME Accept
        PROVE  RecordMoves
    BY <1>2, Accepting DEF RecordMoves
  <1>3. ASSUME ~ Claim, ~ Accept
        PROVE  RecordKeeps
    BY <1>3, RecordSteps
  <1>4. ASSUME Decline, ~ Claim, ~ Accept
        PROVE  RecordMoves
    <2> DEFINE r == [state EXCEPT !.open = FALSE]
    <2>1. r \in State /\ r.delivered = state.delivered /\ r.status = state.status /\ r.pid = state.pid
      BY <1>0 DEF State
    <2>2. WriteState(r)
      BY <1>4 DEF Decline
    <2> HIDE DEF r
    <2>3. QED
      BY <1>3, <1>4, <2>1, <2>2, Written DEF RecordMoves
  <1>5. ASSUME Demote, ~ Claim, ~ Accept
        PROVE  RecordMoves
    <2> DEFINE r == [state EXCEPT !.status = "failed", !.finished = TRUE]
    <2>1. r \in State /\ r.delivered = state.delivered /\ r.status = "failed" /\ r.pid = state.pid
      BY <1>0 DEF State
    <2>2. UNCHANGED state \/ (WriteState(r) /\ Current(judged))
      BY <1>5 DEF Demote
    <2> HIDE DEF r
    <2>3. QED
      BY <1>3, <1>5, <2>1, <2>2, Written DEF RecordMoves
  <1>6. ASSUME Age, ~ Claim, ~ Accept
        PROVE  RecordMoves
    BY <1>0, <1>3, <1>6 DEF Age, State, RecordMoves
  <1>7. ASSUME NEW p \in Settler, SettleStep(p), SettleMark(p), ~ Claim, ~ Accept
        PROVE  RecordMoves
    <2> DEFINE r == [state EXCEPT !.delivered = TRUE]
    <2>1. r \in State /\ r.delivered /\ r.status = state.status /\ r.pid = state.pid
      BY <1>0 DEF State
    <2>2. UNCHANGED state \/ (WriteState(r) /\ Undelivered(settler[p].notice.offer))
      BY <1>7 DEF SettleMark
    <2> HIDE DEF r
    <2>3. QED
      BY <1>3, <1>7, <2>1, <2>2, Written DEF RecordMoves
  <1>8. ASSUME NEW o \in Offer, WorkerStep(o), RecordPid(o), ~ Claim, ~ Accept
        PROVE  RecordMoves
    <2> DEFINE r == [state EXCEPT !.pid = o]
    <2>1. r \in State /\ r.delivered = state.delivered /\ r.status = state.status /\ r.pid = o
      BY <1>0 DEF State
    <2>2. UNCHANGED state \/ (WriteState(r) /\ Current(o))
      BY <1>8 DEF RecordPid
    <2> HIDE DEF r
    <2>3. QED
      BY <1>3, <1>8, <2>1, <2>2, Written DEF RecordMoves, Current
  <1>9. ASSUME NEW o \in Offer, WorkerStep(o), Progress(o), ~ Claim, ~ Accept
        PROVE  RecordMoves
    <2> DEFINE r == [state EXCEPT !.queued = worker[o].queued]
    <2>1. r \in State /\ r.delivered = state.delivered /\ r.status = state.status /\ r.pid = state.pid
      <3>1. worker[o].queued \in 0 .. Transcripts
        BY DEF TypeOK
      <3>2. QED
        BY <1>0, <3>1 DEF State
    <2>2. UNCHANGED state \/ WriteState(r)
      BY <1>9 DEF Progress
    <2> HIDE DEF r
    <2>3. QED
      BY <1>3, <1>9, <2>1, <2>2, Written DEF RecordMoves
  <1>10. ASSUME NEW o \in Offer, WorkerStep(o), Finish(o), ~ Claim, ~ Accept
        PROVE  RecordMoves
    <2> DEFINE r == [state EXCEPT !.status = IF worker[o].failed THEN "failed" ELSE "completed",
                       !.queued = worker[o].queued, !.finished = TRUE]
    <2>1. /\ r \in State /\ r.delivered = state.delivered /\ r.status \in {"failed", "completed"}
          /\ r.pid = state.pid /\ r.queued = worker[o].queued
      <3>1. worker[o].queued \in 0 .. Transcripts
        BY DEF TypeOK
      <3>2. QED
        BY <1>0, <3>1 DEF State
    <2>2. UNCHANGED state \/ (WriteState(r) /\ Current(o))
      BY <1>10 DEF Finish
    <2> HIDE DEF r
    <2>3. QED
      BY <1>3, <1>10, <2>1, <2>2, Written DEF RecordMoves
  <1>11. ASSUME NEW o \in Offer, WorkerStep(o), FinishFailed(o), ~ Claim, ~ Accept
        PROVE  RecordMoves
    <2> DEFINE r == [state EXCEPT !.status = "failed", !.finished = TRUE]
    <2>1. r \in State /\ r.delivered = state.delivered /\ r.status = "failed" /\ r.pid = state.pid
      BY <1>0 DEF State
    <2>2. UNCHANGED state \/ (WriteState(r) /\ Current(o))
      BY <1>11 DEF FinishFailed
    <2> HIDE DEF r
    <2>3. QED
      BY <1>3, <1>11, <2>1, <2>2, Written DEF RecordMoves
  <1>12. CASE UNCHANGED state
    BY <1>12 DEF RecordMoves
  <1>13. QED
    BY WhoWrites, <1>1, <1>2, <1>4, <1>5, <1>6, <1>7, <1>8, <1>9, <1>10, <1>11, <1>12 DEF Writers

\* The record's offer, and the one whose worker is judged, stay accepted.
LEMMA OffersStay ==
  ASSUME TypeOK, RecordInvariant, [Next]_vars
  PROVE  /\ state.status = "running" => state.offer \in Offer /\ accepted[state.offer] # None
         /\ Accept => state.offer \in Offer /\ accepted[state.offer] = None
         /\ RecordKeeps => state'.offer = state.offer
  BY DEF RecordInvariant, Accept, RecordKeeps

\* A worker that nobody mistook for dead has its run.
LEMMA TrustedStep ==
  ASSUME TypeOK, RecordInvariant, Fresh, Budget, Trusted, [Next]_vars, RecordInvariant', Fresh'
  PROVE  Trusted'
  <1>0. "stalls" \in Bounds /\ state \in State /\ judged \in Offer \cup {None}
    BY DEF Bounds, TypeOK
  <1>1. Spent("stalls") => Spent("stalls")'
    BY <1>0, Spending
  <1>2. RecordMoves
    BY RecordMovesStep
  <1>3. ASSUME judged' # None
        PROVE  accepted'[judged'] # None
    <2>1. judged' = judged \/ (judged' = state.offer /\ state.status = "running")
      BY <1>3, WhoWrites DEF Writers, Judge, Demote
    <2>2. judged' \in Offer /\ accepted[judged'] # None
      BY <1>0, <1>3, <2>1, OffersStay DEF Trusted
    <2>3. QED
      BY <2>2, RecordStep
  <1>4. ASSUME state'.status = "running"
        PROVE  state'.pid \in {None, state'.offer}
    BY <1>2, <1>4, OffersStay DEF RecordMoves, Trusted
  <1>5. ASSUME ~ Spent("stalls")', NEW o \in Offer, o = state'.offer,
               worker'[o].pc \notin Done \cup {"none"}
        PROVE  state'.status = "running"
    <2>1. accepted'[o] # None
      BY <1>5 DEF Fresh, NoWorker
    <2>2. ~ Claim
      <3>1. Claim => state'.status = "declined"
        BY <1>0 DEF Claim, WriteState, State
      <3>2. QED
        BY <1>5, <2>1, <3>1 DEF RecordInvariant
    <2>3. CASE Accept
      <3>1. worker[o] = NoWorker
        BY <1>5, <2>3, OffersStay, Claiming, Accepting DEF Fresh
      <3>2. state'.status = "running" \/ UNCHANGED worker
        BY <2>3, Accepting
      <3>3. QED
        BY <1>5, <3>1, <3>2 DEF NoWorker
    <2>4. CASE ~ Accept
      <3>1. worker[o].pc \notin Done \cup {"none"}
        BY <1>5, <2>4, AliveWas
      <3>2. state.offer = o
        BY <1>2, <1>5, <2>2, <2>4 DEF RecordMoves, RecordKeeps
      <3>3. state.status = "running"
        BY <1>1, <1>5, <3>1, <3>2 DEF Trusted
      <3>4. ASSUME Demote, Current(judged)
            PROVE  FALSE
        <4>1. worker[judged].pc = "dead" /\ judged = o
          BY <1>1, <1>5, <3>2, <3>4 DEF Trusted, Current, Demote
        <4>2. QED
          BY <3>1, <4>1 DEF Done
      <3>5. ASSUME NEW i \in Offer, Current(i), WorkerStep(i), FinishFailed(i) \/ Finish(i),
                   state'.status \in {"completed", "failed"}
            PROVE  FALSE
        <4>1. i = o
          BY <3>2, <3>5 DEF Current
        <4>2. worker'[i].pc \in {"announceFailed", "settle", "failing"}
          BY <3>5 DEF FinishFailed, Finish, WorkerGoes, TypeOK
        <4>3. QED
          BY <1>5, <4>1, <4>2 DEF Done
      <3>6. QED
        BY <1>2, <2>2, <2>4, <3>3, <3>4, <3>5 DEF RecordMoves
    <2>5. QED
      BY <2>3, <2>4
  <1>6. ASSUME ~ Spent("stalls")', judged' # None, Current(judged)'
        PROVE  worker'[judged'].pc = "dead"
    <2>1. judged' \in Offer /\ state'.offer = judged' /\ state'.status = "running"
      BY <1>0, <1>6, WhoWrites, OffersStay DEF Writers, Judge, Demote, Current
    <2>2. judged' = judged => accepted[judged] # None
      BY <1>6 DEF Trusted
    <2>3. CASE Judge
      <3>1. judged' = state.offer /\ state.status = "running" /\ SeemsDead /\ UNCHANGED worker
        BY <2>3 DEF Judge, Work
      <3>2. worker[state.offer].pc = "dead"
        BY <1>1, <1>6, <3>1 DEF SeemsDead, Trusted
      <3>3. QED
        BY <3>1, <3>2
    <2>4. CASE judged' = judged
      <3>1. ~ Claim /\ ~ Accept
        BY <1>0, <1>2, <2>1, <2>2, <2>4, OffersStay, Claiming, Accepting DEF Claim, WriteState, State
      <3>2. Current(judged)
        BY <1>2, <2>1, <2>4, <3>1 DEF RecordMoves, RecordKeeps, Current
      <3>3. worker[judged].pc = "dead"
        BY <1>1, <1>6, <2>4, <3>2 DEF Trusted
      <3>4. QED
        BY <2>1, <2>4, <3>1, <3>3, StaysPut
    <2>5. QED
      BY <1>6, <2>3, <2>4, WhoWrites DEF Writers, Demote
  <1>7. ASSUME ~ Spent("stalls")', state'.status = "running", state'.aged
        PROVE  worker'[state'.offer].pc = "dead"
    <2>1. UNCHANGED state \/ Age
      BY <1>2, <1>7 DEF RecordMoves
    <2>2. state.status = "running" /\ state'.offer = state.offer /\ ~ Accept
      BY <1>0, <1>2, <1>7, <2>1 DEF RecordMoves, RecordKeeps, Accept, Age
    <2>3. CASE Age
      <3>1. worker[state.offer].pc = "dead" \/ Spend("stalls")
        BY <2>3 DEF Age
      <3>2. worker[state.offer].pc = "dead" /\ UNCHANGED worker
        BY <1>0, <1>7, <2>3, <3>1, Spending DEF Age, Work
      <3>3. QED
        BY <2>2, <3>2
    <2>4. CASE UNCHANGED state
      <3>1. worker[state.offer].pc = "dead" /\ state.offer \in Offer
        BY <1>1, <1>7, <2>2, <2>4, OffersStay DEF Trusted
      <3>2. QED
        BY <2>2, <3>1, StaysPut
    <2>5. QED
      BY <2>1, <2>3, <2>4
  <1>8. QED
    BY <1>3, <1>4, <1>5, <1>6, <1>7 DEF Trusted

\* An offer's chunks wait once they are sealed, and then no more.
LEMMA ChunksComeFrom ==
  ASSUME TypeOK, [Next]_vars, NEW o
  PROVE  \/ Of(o, chunks') \subseteq Of(o, chunks)
         \/ o \in Offer /\ WorkerStep(o) /\ Seal(o)
  <1>1. ASSUME NEW i \in Offer, WorkerStep(i), Seal(i), i # o
        PROVE  Of(o, chunks') \subseteq Of(o, chunks)
    <2>1. chunks' = chunks \/ chunks' = chunks \cup {[offer |-> i, of |-> worker[i].next]}
      BY <1>1 DEF Seal
    <2>2. QED
      BY <1>1, <2>1 DEF Of
  <1>2. ASSUME chunks' \subseteq chunks
        PROVE  Of(o, chunks') \subseteq Of(o, chunks)
    BY <1>2 DEF Of
  <1>3. Expire => chunks' \subseteq chunks
    BY DEF Expire
  <1>4. PurgeDelete \/ CheckChunk => chunks' \subseteq chunks
    BY DEF PurgeDelete, CheckChunk, Gone, NotDropped
  <1>5. Post \/ LogAck \/ RemoveChunk => chunks' \subseteq chunks
    BY DEF Post, LogAck, RemoveChunk
  <1>6. QED
    BY <1>1, <1>2, <1>3, <1>4, <1>5, WhoWrites DEF Writers

\* Whoever is about to mark an import has counted its chunks before, or does so now.
LEMMA Marking ==
  ASSUME TypeOK, WorkersCount, [Next]_vars, NEW p \in Settler, settler'[p].pc = "mark"
  PROVE  /\ settler'[p].notice = settler[p].notice /\ settler[p].pc \in {"count", "mark"}
         /\ \/ settler[p].pc = "mark"
            \/ ~ Waiting(settler[p].notice.offer) /\ UNCHANGED <<state, chunks>>
  <1>1. ASSUME NEW q \in Settler, SettleRead(q) \/ Stops(q)
        PROVE  settler'[p] = settler[p]
    BY <1>1, Settling
  <1>2. ASSUME NEW q \in Settler, SettleStep(q)
        PROVE  \/ settler'[p] = settler[p]
               \/ /\ settler'[p].notice = settler[p].notice /\ settler[p].pc = "count"
                  /\ SettleCount(p) /\ UNCHANGED chunks
    <2>1. UNCHANGED chunks
      BY <1>2 DEF SettleStep, Queue
    <2>2. QED
      BY <1>2, <2>1, SettleMoves
  <1>3. SettleCount(p) => ~ Waiting(settler[p].notice.offer) /\ UNCHANGED state
    <2>1. ASSUME SettleCount(p), Waiting(settler[p].notice.offer)
          PROVE  FALSE
      BY <2>1, Settling DEF SettleCount
    <2>2. QED
      BY <2>1 DEF SettleCount, Record
  <1>4. UNCHANGED settler \/ \E q \in Settler : SettleRead(q) \/ Stops(q) \/ SettleStep(q)
    <2>1. DrainId \in Settler /\ StartId \in Settler /\ Offer \subseteq Settler
      BY CountsAssumption DEF DrainId, StartId, Settler, Offer
    <2>2. StartSettles => SettleRead(StartId)
      BY DEF StartSettles
    <2>3. \A o \in Offer : (WorkerSettles(o) => SettleRead(o)) /\ (CrashWorker(o) => Stops(o))
      BY DEF WorkerSettles, CrashWorker
    <2>4. (DrainSettles => SettleRead(DrainId)) /\ (CrashDrain => Stops(DrainId))
      BY DEF DrainSettles, CrashDrain
    <2>5. QED
      BY <2>1, <2>2, <2>3, <2>4, WhoWrites DEF Writers
  <1>5. QED
    BY <1>1, <1>2, <1>3, <1>4

\* Of an import that is over nothing is sealed any more.
LEMMA NothingMore ==
  ASSUME TypeOK, Trusted, Emptied, ~ Spent("stalls"), [Next]_vars, state.status # "running"
  PROVE  Of(state.offer, chunks') \subseteq Of(state.offer, chunks)
  <1>1. ASSUME state.offer \in Offer, Seal(state.offer)
        PROVE  FALSE
    BY <1>1 DEF Seal, At, Trusted, Done
  <1>2. QED
    BY <1>1, ChunksComeFrom

\* What is empty when it is marked delivered stays empty.
LEMMA EmptiedStep ==
  ASSUME TypeOK, RecordInvariant, Fresh, WorkersCount, SettlersInvariant, Budget, Trusted, Emptied,
         [Next]_vars, TypeOK', Fresh', RecordInvariant'
  PROVE  Emptied'
  <1>0. "stalls" \in Bounds /\ state \in State
    BY DEF Bounds, TypeOK
  <1>1. Spent("stalls") => Spent("stalls")'
    BY <1>0, Spending
  <1>2. RecordMoves
    BY RecordMovesStep
  <1>3. Claim => state'.status = "declined"
    BY <1>0 DEF Claim, WriteState, State
  <1>4. ASSUME NEW p \in Settler, SettleMark(p), Undelivered(settler[p].notice.offer)
        PROVE  /\ state.status # "running" /\ state.offer = settler[p].notice.offer
               /\ settler[p].pc = "mark"
    BY <1>4 DEF Undelivered, Ended, SettleMark, Settles
  <1>5. state'.delivered => state'.status # "running"
    <2>1. Accept => ~ state'.delivered
      BY Accepting
    <2>2. QED
      BY <1>2, <1>3, <1>4, <2>1 DEF Emptied, RecordMoves, RecordKeeps
  <1>6. ASSUME Claim
        PROVE  Of(state'.offer, chunks') = {}
    <2>1. chunks' \subseteq sealed' /\ sealed' \subseteq Chunk /\ \A c \in Chunk : c.offer \in Offer
      BY DEF TypeOK, Chunk
    <2>2. state'.offer \in Offer => accepted'[state'.offer] = None
      BY <1>3, <1>6 DEF RecordInvariant
    <2>3. state'.offer \in Offer => Of(state'.offer, sealed') = {}
      BY <2>2 DEF Fresh
    <2>4. QED
      BY <2>1, <2>3 DEF Of
  <1>7. ASSUME ~ Spent("stalls")', state'.delivered
        PROVE  Of(state'.offer, chunks') = {}
    <2>1. ~ Accept
      BY <1>7, Accepting
    <2>2. ASSUME ~ Claim
          PROVE  /\ state'.offer = state.offer /\ state.status # "running"
                 /\ Of(state.offer, chunks) = {}
      <3>1. state'.offer = state.offer
        BY <1>2, <2>1, <2>2 DEF RecordMoves, RecordKeeps
      <3>2. ASSUME state.delivered
            PROVE  state.status # "running" /\ Of(state.offer, chunks) = {}
        BY <1>1, <1>7, <3>2 DEF Emptied
      <3>3. ASSUME NEW p \in Settler, SettleMark(p), Undelivered(settler[p].notice.offer)
            PROVE  state.status # "running" /\ Of(state.offer, chunks) = {}
        BY <1>1, <1>4, <1>7, <3>3 DEF Emptied
      <3>4. state.delivered \/ \E p \in Settler : SettleMark(p) /\ Undelivered(settler[p].notice.offer)
        BY <1>2, <1>7, <2>1, <2>2 DEF RecordMoves
      <3>5. QED
        BY <3>1, <3>2, <3>3, <3>4
    <2>3. QED
      BY <1>1, <1>6, <1>7, <2>2, NothingMore
  <1>8. ASSUME ~ Spent("stalls")', NEW p \in Settler, settler'[p].pc = "mark",
               settler'[p].notice.offer = state'.offer
        PROVE  Of(state'.offer, chunks') = {}
    <2>1. /\ settler'[p].notice = settler[p].notice /\ settler[p].pc \in {"count", "mark"}
          /\ settler[p].pc = "mark" \/ (~ Waiting(settler[p].notice.offer) /\ UNCHANGED <<state, chunks>>)
      BY <1>8, Marking
    <2>2. settler[p].notice.offer \in Offer /\ Settled(settler[p].notice.offer)
      BY <2>1 DEF SettlersInvariant
    <2>3. CASE settler[p].pc = "mark"
      <3>1. state.offer = settler[p].notice.offer
        BY <1>8, <2>1, <2>2, SettledStays
      <3>2. Of(state.offer, chunks) = {} /\ state.status # "running" /\ state'.offer = state.offer
        <4>1. state.status # "running"
          BY <2>2, <3>1, CountsAssumption DEF Settled, Ended, Offer
        <4>2. QED
          BY <1>1, <1>8, <2>1, <2>3, <3>1, <4>1 DEF Emptied
      <3>3. QED
        BY <1>1, <1>8, <3>2, NothingMore
    <2>4. CASE ~ Waiting(settler[p].notice.offer) /\ UNCHANGED <<state, chunks>>
      BY <1>8, <2>1, <2>4 DEF Waiting
    <2>5. QED
      BY <2>1, <2>3, <2>4
  <1>9. QED
    BY <1>5, <1>7, <1>8 DEF Emptied

\* While nothing is hidden, a worker's step tells what it has sealed.
LEMMA WorkerTells ==
  ASSUME TypeOK, RecordInvariant, WorkersCount, Budget, Trusted, NEW o \in Offer, Told(o),
         [Next]_vars, WorkerStep(o), ~ Spent("stalls"), ~ Spent("seals")', ~ Spent("busy")'
  PROVE  Told(o)'
  <1> DEFINE w == worker[o]
             v == worker'[o]
             n == Cardinality(Of(o, sealed))
  <1>0. /\ worker \in WorkerSet /\ n \in Nat /\ state \in State /\ "seals" \in Bounds /\ "busy" \in Bounds
        /\ w \in [pc : WorkerPC, next : 1 .. Transcripts + 1, queued : 0 .. Transcripts, failed : BOOLEAN]
    BY SentIsCounted, FS_CardinalityType DEF TypeOK, WorkerSet, WorkerPC, Bounds
  <1>1. ~ Spend("seals") /\ ~ Spend("busy")
    BY <1>0, Spending
  <1>2. ASSUME v.pc \notin {"failing", "announceFailed", "seal", "progress", "cursor", "settle", "announce"}
        PROVE  Told(o)'
    BY <1>2 DEF Told
  <1>3. ASSUME CheckRun(o) \/ RecordPid(o) \/ Announce(o) \/ QueueUnqueued(o)
        PROVE  Told(o)'
    <2>1. v.pc \in {"pid", "ended", "scope", "event"}
      BY <1>0, <1>3 DEF CheckRun, RecordPid, Announce, QueueUnqueued, WorkerGoes, WorkerSet
    <2>2. QED
      BY <1>2, <2>1
  <1>4. ASSUME CheckScope(o)
        PROVE  Told(o)'
    <2>1. w.pc = "scope" /\ v.pc \in {"seal", "failing"} /\ v.queued = w.queued /\ sealed' = sealed
      BY <1>0, <1>4 DEF CheckScope, At, WorkerGoes, WorkerSet, Queue
    <2>2. w.queued = 0 /\ n = 0
      BY <2>1, FS_EmptySet DEF WorkersCount, Counts
    <2>3. QED
      BY <2>1, <2>2 DEF Told
  <1>5. ASSUME Seal(o)
        PROVE  Told(o)'
    BY <1>5, SealCounts DEF Told
  <1>6. ASSUME WriteCursor(o)
        PROVE  Told(o)'
    <2>1. w.pc = "cursor" /\ v.pc = "progress" /\ v.queued = w.queued + 1 /\ sealed' = sealed
      BY <1>0, <1>1, <1>6 DEF WriteCursor, At, WorkerSet, Queue
    <2>2. QED
      BY <2>1 DEF Told
  <1>7. ASSUME Progress(o)
        PROVE  Told(o)'
    <2>1. w.pc = "progress" /\ v.pc = "seal" /\ v.queued = w.queued /\ sealed' = sealed
      BY <1>0, <1>1, <1>7 DEF Progress, At, WorkerSet, Queue
    <2>2. QED
      BY <2>1 DEF Told
  <1>8. ASSUME Finish(o)
        PROVE  Told(o)'
    <2>1. w.pc = "seal" /\ v.pc = "settle" /\ sealed' = sealed
      BY <1>0, <1>1, <1>8 DEF Finish, At, WorkerGoes, WorkerSet, Queue
    <2> DEFINE r == [state EXCEPT !.status = IF w.failed THEN "failed" ELSE "completed",
                       !.queued = w.queued, !.finished = TRUE]
    <2>2. /\ r \in State /\ r.queued = w.queued /\ r.status \in {"failed", "completed"}
          /\ r.offer = state.offer
      BY <1>0 DEF State
    <2>3. IF Current(o) THEN WriteState(r) ELSE UNCHANGED state
      BY <1>1, <1>8 DEF Finish
    <2>4. o = state.offer => Current(o)
      BY <2>1 DEF Trusted, Done, Current
    <2>5. n = w.queued
      BY <2>1 DEF Told
    <2> HIDE DEF r, n
    <2>6. o = state'.offer => Ended' /\ state'.queued = n
      BY <2>2, <2>3, <2>4, <2>5, Written DEF Ended
    <2>7. QED
      BY <2>1, <2>6 DEF Told, n
  <1>9. ASSUME WorkerSettles(o)
        PROVE  Told(o)'
    <2>1. /\ w.pc = "settle" /\ v.pc = "announce" /\ sealed' = sealed /\ state' = state
      BY <1>0, <1>9 DEF WorkerSettles, At, WorkerGoes, WorkerSet, Queue, Record
    <2>2. QED
      BY <2>1 DEF Told, Ended
  <1>10. ASSUME FinishFailed(o)
        PROVE  Told(o)'
    <2>1. w.pc = "failing" /\ v.pc = "announceFailed" /\ sealed' = sealed
      BY <1>0, <1>10 DEF FinishFailed, At, WorkerGoes, WorkerSet, Queue
    <2>2. QED
      BY <2>1 DEF Told
  <1>11. QED
    BY <1>3, <1>4, <1>5, <1>6, <1>7, <1>8, <1>9, <1>10 DEF WorkerStep

\* A failure is announced of an import that has sealed nothing.
LEMMA AnnouncedTruly ==
  ASSUME TypeOK, WorkersCount, NEW o \in Offer, Told(o), Announce(o), failures' # failures
  PROVE  Of(o, sealed) = {}
  <1>1. o = state.offer /\ state.queued = 0 /\ worker[o].pc \in {"announce", "announceFailed"}
    BY DEF Announce, NothingQueued, At
  <1>2. Cardinality(Of(o, sealed)) = 0
    BY <1>1 DEF Told
  <1>3. QED
    BY <1>2, SentIsCounted, FS_EmptySet

\* What a failed import is said not to have sent it has not sealed.
LEMMA NothingHiddenStep ==
  ASSUME TypeOK, RecordInvariant, Fresh, WorkersCount, Budget, Trusted, NothingHidden,
         [Next]_vars, RecordInvariant', Fresh'
  PROVE  NothingHidden'
  <1>0. {"stalls", "seals", "busy"} \subseteq Bounds /\ state \in State
    BY DEF Bounds, TypeOK
  <1>1. Smooth' => Smooth /\ ~ Spent("stalls") /\ ~ Spent("seals")' /\ ~ Spent("busy")'
    BY <1>0, Spending DEF Smooth
  <1>2. ASSUME NEW o \in failures', o \notin failures
        PROVE  o \in Offer /\ WorkerStep(o) /\ Announce(o) /\ failures' # failures
    BY <1>2, WhoWrites DEF Writers, Announce, SettleWrite
  <1>3. ASSUME NEW o \in failures
        PROVE  /\ o \in Offer /\ accepted'[o] # None /\ DoneStays(o)
    <2>1. o \in Offer /\ accepted[o] # None /\ worker[o].pc \in Done
      BY <1>3 DEF NothingHidden, TypeOK
    <2>2. ~ (Accept /\ o = state.offer)
      BY <2>1, OffersStay
    <2>3. QED
      BY <2>1, <2>2, DoneSteps, RecordStep
  <1>4. ASSUME NEW o \in Offer, WorkerStep(o), Announce(o)
        PROVE  accepted'[o] # None /\ worker'[o].pc \in Done /\ sealed' = sealed
    <2>1. worker[o].pc \in {"announce", "announceFailed"} /\ sealed' = sealed
      BY <1>4 DEF Announce, At, Queue
    <2>2. worker'[o].pc \in {"event", "ended"}
      BY <1>4 DEF Announce, WorkerGoes, TypeOK
    <2>3. accepted[o] # None
      BY <2>1 DEF Fresh, NoWorker
    <2>4. QED
      BY <2>1, <2>2, <2>3, RecordStep DEF Done
  <1>5. \A o \in failures' : accepted'[o] # None /\ worker'[o].pc \in Done
    BY <1>2, <1>3, <1>4 DEF DoneStays
  <1>6. ASSUME Smooth', NEW o \in failures'
        PROVE  Of(o, sealed') = {}
    BY <1>1, <1>2, <1>3, <1>4, <1>6, AnnouncedTruly DEF NothingHidden, DoneStays
  <1>7. ASSUME Smooth', NEW o \in Offer
        PROVE  Told(o)'
    <2>1. CASE WorkerStep(o)
      BY <1>1, <1>7, <2>1, WorkerTells DEF NothingHidden
    <2>2. CASE CrashWorker(o)
      <3>1. worker'[o].pc = "dead"
        BY <2>2 DEF CrashWorker, WorkerGoes, TypeOK
      <3>2. QED
        BY <3>1 DEF Told
    <2>3. CASE Accept /\ o = state.offer
      <3>1. worker[o] = NoWorker
        BY <2>3, OffersStay DEF Fresh
      <3>2. worker'[o].pc \in {"none", "check"}
        BY <2>3, <3>1 DEF Accept, NoWorker, TypeOK
      <3>3. QED
        BY <3>2 DEF Told
    <2>4. CASE ~ WorkerStep(o) /\ ~ CrashWorker(o) /\ ~ (Accept /\ o = state.offer)
      <3>1. worker'[o] = worker[o] /\ Of(o, sealed') = Of(o, sealed)
        <4>1. \A i \in Offer : WorkerStep(i) \/ CrashWorker(i) =>
                worker'[o] = worker[o] /\ Of(o, sealed') = Of(o, sealed)
          BY <2>4, OneWorker
        <4>2. Accept => worker'[o] = worker[o] /\ sealed' = sealed
          BY <2>4 DEF Accept, TypeOK, Queue
        <4>3. QED
          BY <4>1, <4>2, WhoWrites DEF Writers
      <3>2. Told(o)
        BY <1>1, <1>7 DEF NothingHidden
      <3>3. ASSUME worker[o].pc \in {"settle", "announce"}, o = state'.offer
            PROVE  Ended' /\ state'.queued = Cardinality(Of(o, sealed))
        <4>1. accepted'[o] # None
          BY <3>1, <3>3 DEF Fresh, NoWorker
        <4>2. Claim => state'.status = "declined"
          BY <1>0 DEF Claim, WriteState, State
        <4>3. ~ Claim
          BY <3>3, <4>1, <4>2 DEF RecordInvariant
        <4>4. ~ Accept
          BY <2>4, <3>3, Claiming, Accepting
        <4>5. RecordKeeps
          BY <4>3, <4>4, RecordSteps
        <4>6. Ended /\ state.queued = Cardinality(Of(o, sealed))
          BY <3>2, <3>3, <4>5 DEF Told, RecordKeeps
        <4>7. QED
          BY <4>5, <4>6 DEF RecordKeeps, Ended
      <3>4. QED
        BY <3>1, <3>2, <3>3 DEF Told
    <2>5. QED
      BY <2>1, <2>2, <2>3, <2>4
  <1>8. QED
    BY <1>5, <1>6, <1>7 DEF NothingHidden

-----------------------------------------------------------------------------
(* What is dropped.                                                          *)

\* Of an accepted offer that is forgotten MaxPrior later ones are accepted.
LEMMA ForgottenLate ==
  ASSUME TypeOK, RecordInvariant, Remembered, NEW o \in Offer, accepted[o] # None, ~ Kept(o)
  PROVE  Cardinality(Later(o)) >= MaxPrior
  <1>0. /\ state.prior \in Seq(Prior) /\ MaxOffers \in Nat /\ MaxPrior \in Nat
        /\ state.offer \in Nat /\ o \in Nat
    BY CountsAssumption DEF TypeOK, State, Offer
  <1>1. o < state.offer
    <2>1. ~ (o > state.offer) /\ ~ (o = state.offer /\ ~ state.authorized)
      BY DEF RecordInvariant
    <2>2. ~ (o = state.offer /\ state.authorized)
      BY DEF Kept
    <2>3. QED
      BY <1>0, <2>1, <2>2
  <1>2. \A i \in 1 .. Len(state.prior) : state.prior[i].offer # o
    BY <1>0 DEF Kept, Range
  <1>3. /\ Len(state.prior) = MaxPrior
        /\ \A i \in 1 .. MaxPrior : o < state.prior[i].offer
    BY <1>1, <1>2 DEF Remembered, Remembers
  <1> DEFINE f == [i \in 1 .. MaxPrior |-> state.prior[i].offer]
  <1>4. \A i \in 1 .. MaxPrior : f[i] \in Later(o)
    <2>1. \A i \in 1 .. MaxPrior : state.prior[i].offer \in Offer
      <3>1. \A i \in 1 .. Len(state.prior) : state.prior[i] \in Prior
        BY <1>0
      <3>2. \A p \in Prior : p.offer \in Offer
        BY DEF Prior
      <3>3. QED
        BY <1>3, <3>1, <3>2
    <2>2. QED
      BY <1>0, <1>3, <2>1 DEF Later, Remembered, Latest, Offer
  <1>5. \A i, j \in 1 .. MaxPrior : i # j => f[i] # f[j]
    <2>1. \A i, j \in 1 .. MaxPrior : i < j => f[j] < f[i]
      BY <1>3 DEF Remembered, Latest
    <2>2. \A i \in 1 .. MaxPrior : f[i] \in Nat
      BY <1>4 DEF Later, Offer
    <2> HIDE DEF f
    <2>3. QED
      BY <1>0, <2>1, <2>2
  <1>6. f \in Injection(1 .. MaxPrior, Later(o))
    BY <1>4, <1>5 DEF Injection, IsInjective
  <1>7. IsFiniteSet(Later(o))
    <2>1. IsFiniteSet(1 .. MaxOffers)
      BY <1>0, FS_Interval
    <2>2. Later(o) \in SUBSET Offer
      BY DEF Later
    <2>3. QED
      BY <2>1, <2>2, FS_Subset DEF Offer
  <1>8. Cardinality(1 .. MaxPrior) = MaxPrior
    BY <1>0, FS_Interval
  <1> HIDE DEF f
  <1>9. QED
    BY <1>0, <1>6, <1>7, <1>8, FS_Injection, FS_CardinalityType

\* What a claim remembers.
LEMMA PriorOffersRemember ==
  ASSUME TypeOK, RecordInvariant, Remembered
  PROVE  /\ Latest(PriorOffers)
         /\ \A o \in Offer : o <= state.offer /\ accepted[o] # None => Remembers(PriorOffers, o)
  <1> DEFINE own == [offer |-> state.offer, tenant |-> state.tenant]
             all == <<own>> \o state.prior
             n   == Min({MaxPrior, Len(all)})
  <1>0. /\ state.prior \in Seq(Prior) /\ Len(state.prior) <= MaxPrior /\ MaxPrior \in Nat
        /\ state.offer \in Nat /\ \A o \in Offer : o \in Nat
    BY CountsAssumption DEF TypeOK, State, Offer
  <1>1. ASSUME ~ state.authorized \/ state.offer = 0
        PROVE  /\ PriorOffers = state.prior
               /\ \A o \in Offer : o <= state.offer /\ accepted[o] # None => o < state.offer
    <2>1. PriorOffers = state.prior
      BY <1>1 DEF PriorOffers
    <2>2. \A o \in Offer : o = state.offer => accepted[o] = None
      BY <1>0, <1>1 DEF RecordInvariant, Offer
    <2>3. QED
      BY <1>0, <2>1, <2>2
  <1>2. ASSUME state.authorized, state.offer # 0
        PROVE  /\ Latest(PriorOffers)
               /\ \A o \in Offer : o <= state.offer /\ accepted[o] # None => Remembers(PriorOffers, o)
    <2>0. own \in Prior /\ own.offer = state.offer /\ accepted[state.offer] # None
      BY <1>2 DEF Prior, TypeOK, State, RecordInvariant
    <2>1. all \in Seq(Prior) /\ Len(all) = Len(state.prior) + 1
      BY <1>0, <2>0
    <2>2. /\ all[1] = own
          /\ \A i \in 2 .. Len(all) : all[i] = state.prior[i - 1] /\ i - 1 \in 1 .. Len(state.prior)
      BY <1>0, <2>0
    <2>3. /\ n \in Nat /\ n <= MaxPrior /\ n <= Len(all)
          /\ n = MaxPrior \/ n = Len(all)
      BY <1>0, <2>1, MinOfTwo
    <2>4. PriorOffers = SubSeq(all, 1, n)
      BY <1>2 DEF PriorOffers
    <2> HIDE DEF own, all, n
    <2>5. /\ Len(SubSeq(all, 1, n)) = n
          /\ \A i \in 1 .. n : SubSeq(all, 1, n)[i] = all[i]
      BY <2>1, <2>3
    <2>6. \A i \in 1 .. Len(state.prior) :
            /\ state.prior[i].offer \in Nat /\ state.prior[i].offer < state.offer
            /\ accepted[state.prior[i].offer] # None
      <3>1. \A i \in 1 .. Len(state.prior) :
              state.prior[i] \in Range(state.prior) /\ state.prior[i] \in Prior
        BY <1>0 DEF Range
      <3>2. \A p \in Prior : p.offer \in Nat
        BY <1>0 DEF Prior
      <3>3. QED
        BY <3>1, <3>2 DEF RecordInvariant, Remembered, Latest
    <2>7. \A i \in 1 .. n : accepted[all[i].offer] # None /\ all[i].offer \in Nat
      <3>1. \A i \in 1 .. n : i = 1 \/ i \in 2 .. Len(all)
        BY <1>0, <2>1, <2>3
      <3>2. QED
        BY <1>0, <2>0, <2>2, <2>6, <3>1
    <2>8. \A i, j \in 1 .. n : i < j => all[j].offer < all[i].offer
      <3>1. SUFFICES ASSUME NEW i \in 1 .. n, NEW j \in 1 .. n, i < j
                     PROVE  all[j].offer < all[i].offer
        OBVIOUS
      <3>2. j \in 2 .. Len(all)
        BY <1>0, <2>1, <2>3, <3>1
      <3>3. all[j] = state.prior[j - 1] /\ j - 1 \in 1 .. Len(state.prior)
        BY <2>2, <3>2
      <3>4. CASE i = 1
        BY <2>0, <2>2, <2>6, <3>3, <3>4
      <3>5. CASE i # 1
        <4>1. i \in 2 .. Len(all)
          BY <1>0, <2>1, <2>3, <3>1, <3>5
        <4>2. all[i] = state.prior[i - 1] /\ i - 1 \in 1 .. Len(state.prior) /\ i - 1 < j - 1
          BY <2>2, <3>1, <4>1
        <4>3. QED
          BY <3>3, <4>2 DEF Remembered, Latest
      <3>6. QED
        BY <3>4, <3>5
    <2>9. Latest(PriorOffers)
      BY <2>4, <2>5, <2>7, <2>8 DEF Latest
    <2>10. ASSUME NEW o \in Offer, o <= state.offer, accepted[o] # None
           PROVE  Remembers(PriorOffers, o)
      <3>1. CASE n < Len(all) /\ \A i \in 1 .. n : o < all[i].offer
        BY <2>3, <2>4, <2>5, <3>1 DEF Remembers
      <3>2. CASE \E i \in 1 .. n : all[i].offer = o
        BY <2>4, <2>5, <3>2 DEF Remembers
      <3>3. CASE o = state.offer
        <4>1. CASE n = 0
          <5>1. n < Len(all) /\ 1 .. n = {}
            BY <1>0, <2>1, <4>1
          <5>2. QED
            BY <3>1, <5>1
        <4>2. CASE n # 0
          <5>1. 1 \in 1 .. n /\ all[1].offer = o
            BY <2>0, <2>2, <2>3, <3>3, <4>2
          <5>2. QED
            BY <3>2, <5>1
        <4>3. QED
          BY <4>1, <4>2
      <3>4. CASE o < state.offer
        <4>1. Remembers(state.prior, o)
          BY <2>10, <3>4 DEF Remembered
        <4>2. CASE Len(state.prior) = MaxPrior /\ \A i \in 1 .. Len(state.prior) : o < state.prior[i].offer
          <5>1. n < Len(all)
            BY <1>0, <2>1, <2>3, <4>2
          <5>2. \A i \in 1 .. n : i = 1 \/ i \in 2 .. Len(all)
            BY <1>0, <2>1, <2>3
          <5>3. \A i \in 1 .. n : o < all[i].offer
            BY <2>0, <2>2, <3>4, <4>2, <5>2
          <5>4. QED
            BY <3>1, <5>1, <5>3
        <4>3. CASE \E i \in 1 .. Len(state.prior) : state.prior[i].offer = o
          <5>1. PICK i \in 1 .. Len(state.prior) : state.prior[i].offer = o
            BY <4>3
          <5>2. i + 1 \in 2 .. Len(all) /\ (i + 1) - 1 = i /\ i + 1 \in 1 .. Len(all)
            BY <1>0, <2>1, <5>1
          <5>3. all[i + 1].offer = o
            BY <2>2, <5>1, <5>2
          <5>4. CASE i + 1 <= n
            <6>1. i + 1 \in 1 .. n
              BY <1>0, <2>3, <5>2, <5>4
            <6>2. QED
              BY <3>2, <5>3, <6>1
          <5>5. CASE ~ (i + 1 <= n)
            <6>1. n < Len(all)
              BY <1>0, <2>1, <2>3, <5>2, <5>5
            <6>2. ASSUME NEW j \in 1 .. n
                  PROVE  o < all[j].offer
              <7>1. j < i + 1 /\ (j = 1 \/ j \in 2 .. Len(all))
                BY <1>0, <2>1, <2>3, <5>5, <6>2
              <7>2. CASE j = 1
                BY <2>0, <2>2, <3>4, <7>2
              <7>3. CASE j \in 2 .. Len(all)
                <8>1. all[j] = state.prior[j - 1] /\ j - 1 \in 1 .. Len(state.prior) /\ j - 1 < i
                  BY <1>0, <2>2, <7>1, <7>3
                <8>2. QED
                  BY <5>1, <8>1 DEF Remembered, Latest
              <7>4. QED
                BY <7>1, <7>2, <7>3
            <6>3. QED
              BY <3>1, <6>1, <6>2
          <5>6. QED
            BY <5>4, <5>5
        <4>4. QED
          BY <4>1, <4>2, <4>3 DEF Remembers
      <3>5. QED
        BY <1>0, <2>10, <3>3, <3>4
    <2>11. QED
      BY <2>9, <2>10
  <1>3. QED
    BY <1>1, <1>2 DEF Remembered

\* An accepted offer is remembered until MaxPrior later ones are accepted.
LEMMA RememberedStep ==
  ASSUME TypeOK, RecordInvariant, Remembered, [Next]_vars
  PROVE  Remembered'
  <1>0. /\ state \in State /\ state.prior \in Seq(Prior) /\ state.offer \in Nat
        /\ \A o \in Offer : o \in Nat
    BY CountsAssumption DEF TypeOK, State, Offer
  <1>1. ASSUME Claim
        PROVE  Remembered'
    <2>1. state'.prior = PriorOffers /\ state'.offer = state.offer + 1 /\ accepted' = accepted
      BY <1>0, <1>1, Claiming, Accepting DEF Claim, WriteState, State, Users
    <2>2. \A o \in Offer : o < state'.offer => o <= state.offer
      BY <1>0, <2>1
    <2> HIDE DEF PriorOffers
    <2>3. QED
      BY <2>1, <2>2, PriorOffersRemember DEF Remembered, Latest, Remembers
  <1>2. ASSUME Accept
        PROVE  Remembered'
    <2>1. /\ state'.prior = state.prior /\ state'.offer = state.offer
          /\ \A o \in Offer \ {state.offer} : accepted'[o] = accepted[o]
      BY <1>2, Accepting DEF Accept, TypeOK
    <2>2. \A i \in 1 .. Len(state.prior) :
            state.prior[i].offer \in Offer /\ state.prior[i].offer < state.offer
      <3>1. \A i \in 1 .. Len(state.prior) :
              state.prior[i] \in Range(state.prior) /\ state.prior[i] \in Prior
        BY <1>0 DEF Range
      <3>2. \A p \in Prior : p.offer \in Offer
        BY DEF Prior
      <3>3. QED
        BY <3>1, <3>2 DEF RecordInvariant
    <2>3. \A i \in 1 .. Len(state.prior) : accepted'[state.prior[i].offer] # None
      BY <1>0, <2>1, <2>2 DEF Remembered, Latest
    <2>4. \A o \in Offer : o < state.offer => accepted'[o] = accepted[o]
      BY <1>0, <2>1
    <2>5. QED
      BY <2>1, <2>3, <2>4 DEF Remembered, Latest, Remembers
  <1>3. ASSUME RecordKeeps
        PROVE  Remembered'
    BY <1>3 DEF RecordKeeps, Remembered, Latest, Remembers
  <1>4. QED
    BY <1>1, <1>2, <1>3, RecordSteps

\* Who accepted is signed in, or nobody is.
LEMMA SameTenantStep ==
  ASSUME TypeOK, RecordInvariant, Budget, SameTenant, [Next]_vars
  PROVE  SameTenant'
  <1>0. "signins" \in Bounds
    BY DEF Bounds
  <1>1. (Spent("signins") => Spent("signins")') /\ (Spend("signins") => Spent("signins")')
    BY <1>0, Spending
  <1>2. SUFFICES ASSUME ~ Spent("signins")', NEW o \in Offer, accepted'[o] # None
                 PROVE  tenant' \in {None, accepted'[o]}
    BY DEF SameTenant
  <1>3. CASE ChangeTenant
    <2>1. tenant' = None
      BY <1>1, <1>2, <1>3 DEF ChangeTenant
    <2>2. QED
      BY <2>1
  <1>4. CASE Accept
    BY <1>1, <1>2, <1>4 DEF Accept, SameTenant, TypeOK
  <1>5. CASE UNCHANGED <<tenant, accepted>>
    BY <1>1, <1>2, <1>5 DEF SameTenant
  <1>6. QED
    <2>1. ChangeTenant => UNCHANGED accepted
      BY DEF ChangeTenant
    <2>2. Accept => UNCHANGED tenant
      BY DEF Accept
    <2>3. QED
      BY <1>3, <1>4, <1>5, WhoWrites DEF Writers

\* A reason stays one.
LEMMA CauseStays ==
  ASSUME TypeOK, RecordInvariant, Budget, [Next]_vars, NEW c \in Chunk, Cause(c)
  PROVE  Cause(c)'
  <1>1. {"signins", "expiries"} \subseteq Bounds
    BY DEF Bounds
  <1>2. (Spent("signins") => Spent("signins")') /\ (Spent("expiries") => Spent("expiries")')
    BY <1>1, Spending
  <1>3. Later(c.offer) \in SUBSET Later(c.offer)'
    BY RecordStep DEF Later
  <1>4. IsFiniteSet(Later(c.offer)')
    <2>1. IsFiniteSet(1 .. MaxOffers)
      BY CountsAssumption, FS_Interval
    <2>2. Later(c.offer)' \in SUBSET Offer
      BY DEF Later
    <2>3. QED
      BY <2>1, <2>2, FS_Subset DEF Offer
  <1>5. /\ IsFiniteSet(Later(c.offer)) /\ Cardinality(Later(c.offer)) <= Cardinality(Later(c.offer)')
        /\ Cardinality(Later(c.offer)) \in Nat /\ Cardinality(Later(c.offer)') \in Nat
    BY <1>3, <1>4, FS_Subset, FS_CardinalityType
  <1>6. Cardinality(Later(c.offer)) >= MaxPrior => Cardinality(Later(c.offer)') >= MaxPrior
    BY <1>5, CountsAssumption
  <1>7. QED
    BY <1>2, <1>6 DEF Cause

\* What is not remembered, or of another tenant, there is a reason to drop.
LEMMA UnwantedForCause ==
  ASSUME TypeOK, RecordInvariant, Fresh, Remembered, SameTenant, NEW c \in sealed
  PROVE  /\ ~ Kept(c.offer) => Cause(c)
         /\ Unwanted(c) => Cause(c)
  <1>1. c.offer \in Offer /\ accepted[c.offer] # None
    <2>1. c \in Chunk /\ c \in Of(c.offer, sealed)
      BY DEF TypeOK, Of
    <2>2. QED
      BY <2>1 DEF Fresh, Chunk
  <1>2. ~ Kept(c.offer) => Cause(c)
    BY <1>1, ForgottenLate DEF Cause
  <1>3. ASSUME Kept(c.offer), Unwanted(c)
        PROVE  Spent("signins")
    <2>1. tenant # None /\ tenant # accepted[c.offer]
      BY <1>3, TenantOfKept DEF Unwanted
    <2>2. QED
      BY <1>1, <2>1 DEF SameTenant
  <1>4. QED
    BY <1>2, <1>3 DEF Cause

\* What a purge has not found remembered there is a reason to drop.
LEMMA SparedStep ==
  ASSUME TypeOK, RecordInvariant, Fresh, Remembered, SameTenant, Budget, Spared, [Next]_vars
  PROVE  Spared'
  <1>0. chunks \subseteq sealed /\ sealed \subseteq Chunk
    BY DEF TypeOK
  <1>1. SUFFICES ASSUME drain'.pc = "purge", NEW c \in chunks', c \notin drain'.keep, c \notin slipped'
                 PROVE  Cause(c)'
    BY DEF Spared
  <1>2. \/ drain' = drain
        \/ drain'.keep = {d \in chunks : Kept(d.offer)} /\ UNCHANGED <<chunks, slipped>>
    <2>1. PurgeDelete \/ ListChunks \/ DrainEnds \/ CrashDrain => drain'.pc \in {"idle", "list", "next"}
      <3>1. /\ IdleDrain.pc = "idle" /\ [IdleDrain EXCEPT !.pc = "list"].pc = "list"
            /\ [IdleDrain EXCEPT !.pc = "next", !.todo = chunks].pc = "next"
        BY DEF IdleDrain
      <3> HIDE DEF IdleDrain
      <3>2. QED
        BY <3>1 DEF PurgeDelete, ListChunks, DrainEnds, CrashDrain
    <2>2. ReadToken \/ Post \/ LogAck \/ RemoveChunk \/ DrainSettles => drain'.pc # "purge"
      BY DEF TypeOK, ReadToken, Post, LogAck, RemoveChunk, DrainSettles, NextChunk, DrainGoes
    <2>3. CheckChunk => drain'.pc # "purge"
      <3>1. drain.pc = "next" => \A d : [drain EXCEPT !.todo = @ \ {d}].pc = "next"
        BY DEF TypeOK
      <3>2. \A d : [drain EXCEPT !.pc = "token", !.chunk = d].pc = "token"
        BY DEF TypeOK
      <3>3. QED
        BY <3>1, <3>2 DEF CheckChunk, DrainAt, Passes
    <2>4. PurgeScan => /\ drain'.keep = {d \in chunks : Kept(d.offer)}
                       /\ UNCHANGED <<chunks, slipped>>
      BY DEF PurgeScan, TypeOK, Queue
    <2>5. QED
      BY <1>1, <2>1, <2>2, <2>3, <2>4, WhoWrites DEF Writers
  <1>3. CASE drain' = drain
    <2>1. c \in chunks /\ c \notin slipped
      <3>1. ASSUME NEW o \in Offer, Seal(o)
            PROVE  c \in chunks /\ c \notin slipped
        BY <1>1, <1>3, <3>1 DEF Seal
      <3>2. Expire => c \in chunks /\ c \notin slipped
        BY <1>1 DEF Expire
      <3>3. PurgeDelete \/ CheckChunk => c \in chunks /\ c \notin slipped
        BY <1>1 DEF PurgeDelete, CheckChunk, Gone, NotDropped
      <3>4. Post \/ LogAck \/ RemoveChunk => c \in chunks /\ c \notin slipped
        BY <1>1 DEF Post, LogAck, RemoveChunk
      <3>5. QED
        BY <1>1, <3>1, <3>2, <3>3, <3>4, WhoWrites DEF Writers
    <2>2. Cause(c)
      BY <1>1, <1>3, <2>1 DEF Spared
    <2>3. QED
      BY <1>0, <2>1, <2>2, CauseStays
  <1>4. CASE drain'.keep = {d \in chunks : Kept(d.offer)} /\ UNCHANGED <<chunks, slipped>>
    <2>1. c \in sealed /\ c \in Chunk /\ ~ Kept(c.offer)
      BY <1>0, <1>1, <1>4
    <2>2. QED
      BY <2>1, UnwantedForCause, CauseStays
  <1>5. QED
    BY <1>2, <1>3, <1>4

\* The property, by the reasons it names.
LEMMA DroppedByCause ==
  /\ DroppedOnlyForCause <=> \A c \in dropped \ slipped : Cause(c)
  /\ DroppedOnlyForCause' <=> \A c \in dropped' \ slipped' : Cause(c)'
  BY DEF DroppedOnlyForCause, Cause, Later

\* What is dropped is dropped for a reason.
LEMMA DroppedStep ==
  ASSUME TypeOK, RecordInvariant, Fresh, Remembered, SameTenant, Budget, Spared, DroppedOnlyForCause,
         [Next]_vars
  PROVE  DroppedOnlyForCause'
  <1>0. chunks \subseteq sealed /\ aside \subseteq sealed /\ dropped \subseteq sealed /\ sealed \subseteq Chunk
    BY DEF TypeOK
  <1>1. SUFFICES ASSUME NEW c \in dropped', c \notin slipped'
                 PROVE  Cause(c)'
    BY DroppedByCause
  <1>2. c \notin slipped
    <2>1. \A o \in Offer : Seal(o) => slipped \subseteq slipped'
      BY DEF Seal
    <2>2. Expire \/ PurgeDelete \/ CheckChunk \/ Post \/ LogAck \/ RemoveChunk => slipped' = slipped
      BY DEF Expire, PurgeDelete, CheckChunk, Post, LogAck, RemoveChunk
    <2>3. QED
      BY <1>1, <2>1, <2>2, WhoWrites DEF Writers
  <1>3. CASE c \in dropped
    <2>1. Cause(c) /\ c \in Chunk
      BY <1>0, <1>2, <1>3, DroppedByCause
    <2>2. QED
      BY <2>1, CauseStays
  <1>4. CASE c \notin dropped
    <2>1. Expire => Cause(c)'
      <3>1. "expiries" \in Bounds
        BY DEF Bounds
      <3>2. Expire => Spent("expiries")'
        BY <3>1, Spending DEF Expire
      <3>3. QED
        BY <3>2 DEF Cause
    <2>2. PurgeDelete => c \in sealed /\ Cause(c)
      BY <1>0, <1>1, <1>2, <1>4 DEF PurgeDelete, Gone, DrainAt, Spared
    <2>3. CheckChunk => c \in sealed /\ Cause(c)
      <3>1. CheckChunk => c \in chunks /\ Unwanted(c)
        BY <1>1, <1>4 DEF CheckChunk, Gone, NotDropped
      <3>2. QED
        BY <1>0, <3>1, UnwantedForCause
    <2>4. Post \/ LogAck \/ RemoveChunk => dropped' = dropped
      BY DEF Post, LogAck, RemoveChunk
    <2>5. \A o \in Offer : Seal(o) => dropped' = dropped
      BY DEF Seal
    <2>6. c \in sealed /\ Cause(c) => Cause(c)'
      BY <1>0, CauseStays
    <2>7. QED
      BY <1>1, <1>4, <2>1, <2>2, <2>3, <2>4, <2>5, <2>6, WhoWrites DEF Writers
  <1>5. QED
    BY <1>3, <1>4

\* At the start nothing is spent, sealed, judged or remembered.
LEMMA PromiseInit == Init => PromiseInvariant
  <1> SUFFICES ASSUME Init PROVE PromiseInvariant
    OBVIOUS
  <1>1. /\ state.status = "pending" /\ state.prior = << >> /\ state.offer = 0 /\ ~ state.delivered
        /\ Len(state.prior) = 0
    BY DEF Init
  <1>2. Budget
    BY LimitsAssumption DEF Init, Budget
  <1>3. Trusted
    BY <1>1 DEF Init, Trusted, Current, NoWorker
  <1>4. Emptied
    BY <1>1 DEF Init, Emptied, Idle
  <1>5. NothingHidden
    BY DEF Init, NothingHidden, Told, NoWorker
  <1>6. Remembered
    BY <1>1 DEF Init, Remembered, Latest
  <1>7. SameTenant /\ Spared /\ DroppedOnlyForCause
    BY DEF Init, SameTenant, Spared, IdleDrain, DroppedOnlyForCause
  <1>8. QED
    BY <1>2, <1>3, <1>4, <1>5, <1>6, <1>7 DEF PromiseInvariant

\* Every step keeps what is promised.
LEMMA PromiseStep ==
  ImportInvariant /\ ImportInvariant' /\ PromiseInvariant /\ [Next]_vars => PromiseInvariant'
  <1> SUFFICES ASSUME ImportInvariant, ImportInvariant', PromiseInvariant, [Next]_vars
               PROVE  PromiseInvariant'
    OBVIOUS
  <1> USE DEF ImportInvariant, PromiseInvariant
  <1>1. Budget' /\ Trusted'
    BY Spending, TrustedStep
  <1>2. Emptied'
    BY EmptiedStep
  <1>3. NothingHidden'
    BY NothingHiddenStep
  <1>4. Remembered' /\ SameTenant'
    BY RememberedStep, SameTenantStep
  <1>5. Spared' /\ DroppedOnlyForCause'
    BY SparedStep, DroppedStep
  <1>6. QED
    BY <1>1, <1>2, <1>3, <1>4, <1>5

\* The second invariant holds for any history, offers and faults (backfill-delivery.js,
\* backfill_worker.js, transfer.js).
THEOREM PromiseInvariantHolds == Spec => []PromiseInvariant
  <1>1. QED
    BY PromiseInit, PromiseStep, ImportInvariantHolds, PTL DEF Spec

\* An import announced as failed has sealed nothing, unless a cursor or its progress could not
\* be written or a live worker was taken for dead; one marked delivered has nothing waiting,
\* unless the latter (announceBackfillFailure, settleBackfillDelivery, isBackfillRunning).
THEOREM ImportsAreSettledForGood == Spec => []SettledForGood
  <1>1. ImportInvariant /\ PromiseInvariant => SettledForGood
    <2> SUFFICES ASSUME ImportInvariant, PromiseInvariant PROVE SettledForGood
      OBVIOUS
    <2>1. FailedMeansNothingSent
      BY DEF ImportInvariant, TypeOK, PromiseInvariant, FailedMeansNothingSent, NothingHidden, Smooth
    <2>2. SettledIsFinal
      BY DEF PromiseInvariant, SettledIsFinal, Emptied
    <2>3. QED
      BY <2>1, <2>2 DEF SettledForGood
  <1>2. QED
    BY <1>1, ImportInvariantHolds, PromiseInvariantHolds, PTL

\* What the user accepted is deleted unsent only after another sign-in, an expiry, MaxPrior
\* later acceptances, or when it was queued while a purge ran (chunkDisposition,
\* priorOffersOf, clearRepositoryPayloads).
THEOREM NothingIsDroppedWithoutCause == Spec => []DroppedOnlyForCause
  <1>1. PromiseInvariant => DroppedOnlyForCause
    BY DEF PromiseInvariant
  <1>2. QED
    BY <1>1, PromiseInvariantHolds, PTL
=============================================================================
