-------------------------- MODULE BackfillLifecycle --------------------------
(***************************************************************************)
(* The history import of the Claude Code client, from the offer to the notice *)
(* (lib/backfill-state.js, backfill-delivery.js, backfill-event.js,           *)
(* backfill_worker.js, backfill.js, and the drain of transfer.js as far as it  *)
(* treats an import's chunks).  An offer is claimed, accepted for the tenant   *)
(* that is signed in, and snapshotted by a detached worker, one transcript     *)
(* after the other; drains upload the chunks; whoever of worker, drain and     *)
(* session start first finds none left settles the import: it marks it         *)
(* delivered, writes the notice and queues an event for the collector.         *)
(*                                                                         *)
(* Every change of the lifecycle record is one step: it is made under the lock *)
(* of backfill-state.js, which is TelemetryConsent's once more.  A transcript   *)
(* makes one chunk.  Attempts and backoffs of a chunk are TranscriptDelivery's. *)
(***************************************************************************)
EXTENDS Naturals, Sequences, FiniteSets, FiniteSetsExt, Functions

CONSTANTS
  MaxOffers,    \* bound: offers claimed
  Transcripts,  \* how many transcripts the history has
  Tenant,       \* tenants a user can be signed in to
  MaxPrior,     \* accepted offers that are remembered (MAX_PRIOR_OFFERS)
  None,
  Limits        \* how often each thing below may happen

Bounds == {"signins", "signouts",                             \* users
           "spawns", "crashes", "stalls", "scopes", "reads", "seals", "busy",  \* the worker
           "losses", "setAsides", "deferrals", "expiries", "purges"}  \* the queue

ASSUME LimitsAssumption == Limits \in [Bounds -> Nat]
ASSUME CountsAssumption == MaxOffers \in Nat /\ Transcripts \in Nat /\ MaxPrior \in Nat
ASSUME NoneAssumption == None # "success"

Offer   == 1 .. MaxOffers
DrainId == 0               \* processes that settle: a drain, ...
StartId == MaxOffers + 1   \* ... a session start, and the worker of each offer
Settler == 0 .. MaxOffers + 1

VARIABLES
  state,    \* the lifecycle record
  judged,   \* the offer whose worker somebody has judged dead, or None
  tenant,   \* the tenant of the license, None when signed out
  cursors,  \* transcripts that have a live cursor
  worker,   \* what each offer's worker does
  drain,    \* what the drain does
  settler,  \* how far each process has come in settleBackfillDelivery
  chunks,   \* an import's queued chunks
  aside,    \* those set aside after their last attempt
  acks,     \* uploads the log says succeeded
  result,   \* the notice's file
  event,    \* the outcome that each offer's queued completion event reports, or None
  accepted, \* history: the tenant each offer was accepted for
  sealed,   \* history: chunks queued so far
  arrived,  \* history: chunks at the collector, by tenant
  dropped,  \* history: chunks deleted unsent
  slipped,  \* history: chunks queued while a purge was under way
  failures, \* history: offers announced as failed
  reports,  \* history: how many completion events each offer has queued
  left      \* the bounds that remain

Record  == <<state, judged>>
Queue   == <<chunks, aside, acks, sealed, arrived, dropped, slipped>>
Reports == <<result, event, failures, reports>>
Users   == <<tenant, accepted>>
Work    == <<worker, cursors>>
vars    == <<Record, Users, Work, drain, settler, Queue, Reports, left>>

Chunk == [offer : Offer, of : 1 .. Transcripts]
Prior == [offer : Offer, tenant : Tenant]
State == [status : {"pending", "declined", "running", "completed", "failed"}, open : BOOLEAN,
          offer : Offer \cup {0}, authorized : BOOLEAN, tenant : Tenant \cup {None},
          prior : Seq(Prior), queued : 0 .. Transcripts, finished : BOOLEAN,
          delivered : BOOLEAN, pid : Offer \cup {None}, aged : BOOLEAN]

NoNotice  == [offer |-> 0, kind |-> "none", whole |-> FALSE, queued |-> 0, sent |-> 0]
Idle      == [pc |-> "idle", notice |-> NoNotice]
IdleDrain == [pc |-> "idle", todo |-> {}, chunk |-> None, token |-> None, keep |-> {}]
NoWorker  == [pc |-> "none", next |-> 1, queued |-> 0, failed |-> FALSE]

Spend(k) == left[k] > 0 /\ left' = [left EXCEPT ![k] = @ - 1]
NoFault  == UNCHANGED left

\* createLifecycleState.  Transcripts of live sessions have a cursor already.
Init ==
  /\ state = [status |-> "pending", open |-> FALSE, offer |-> 0, authorized |-> FALSE,
              tenant |-> None, prior |-> << >>, queued |-> 0, finished |-> FALSE,
              delivered |-> FALSE, pid |-> None, aged |-> FALSE]
  /\ judged = None /\ tenant \in Tenant /\ cursors \in SUBSET (1 .. Transcripts)
  /\ worker = [o \in Offer |-> NoWorker] /\ drain = IdleDrain /\ settler = [p \in Settler |-> Idle]
  /\ chunks = {} /\ aside = {} /\ acks = {} /\ result = NoNotice /\ event = [o \in Offer |-> None]
  /\ accepted = [o \in Offer |-> None] /\ reports = [o \in Offer |-> 0]
  /\ sealed = {} /\ arrived = {} /\ dropped = {} /\ slipped = {} /\ failures = {} /\ left = Limits

\* mutateBackfillState stamps every change.
WriteState(r) == state' = [r EXCEPT !.aged = FALSE]
Current(o)    == state.status = "running" /\ state.offer = o
Ended         == state.status \in {"completed", "failed"}

-----------------------------------------------------------------------------
(* The offer.                                                                *)

\* Mutant of PriorOffers: an offer's chunks are forgotten with the next offer.
PriorOffers_Dropped == state.prior
\* Mutant of PriorOffers: nothing is ever forgotten.
PriorOffers_All ==
  IF ~ state.authorized \/ state.offer = 0 THEN state.prior
  ELSE <<[offer |-> state.offer, tenant |-> state.tenant]>> \o state.prior

\* priorOffersOf: an accepted offer's chunks keep uploading under it.
PriorOffers ==
  IF ~ state.authorized \/ state.offer = 0 THEN state.prior
  ELSE LET all == <<[offer |-> state.offer, tenant |-> state.tenant]>> \o state.prior
       IN  SubSeq(all, 1, Min({MaxPrior, Len(all)}))

\* claimBackfillOffer: the one-time offer, or a new one by command after a refusal or a
\* failure.
Claim ==
  /\ state.status \in {"pending", "failed", "declined"} /\ state.offer < MaxOffers
  /\ WriteState([state EXCEPT !.status = "declined", !.open = TRUE, !.offer = @ + 1,
                   !.prior = PriorOffers, !.authorized = FALSE])
  /\ UNCHANGED <<judged, Users, Work, drain, settler, Queue, Reports>> /\ NoFault

\* markBackfillDeclined
Decline ==
  /\ state.status = "declined" /\ state.open
  /\ WriteState([state EXCEPT !.open = FALSE])
  /\ UNCHANGED <<judged, Users, Work, drain, settler, Queue, Reports>> /\ NoFault

\* accept: beginBackfill, then the worker is spawned; if it cannot be, the run has failed.
Begun == [state EXCEPT !.status = "running", !.open = FALSE, !.tenant = tenant,
            !.authorized = TRUE, !.queued = 0, !.finished = FALSE, !.delivered = FALSE,
            !.pid = None]
Accept ==
  /\ state.status = "declined" /\ state.open /\ tenant # None
  /\ accepted' = [accepted EXCEPT ![state.offer] = tenant]
  /\ \/ /\ WriteState(Begun) /\ worker' = [worker EXCEPT ![state.offer].pc = "check"] /\ NoFault
     \/ /\ WriteState([Begun EXCEPT !.status = "failed", !.finished = TRUE])
        /\ UNCHANGED worker /\ Spend("spawns")
  /\ UNCHANGED <<judged, tenant, cursors, drain, settler, Queue, Reports>>

\* isBackfillUploadAuthorized and backfillOfferTenant.
Kept(o)   == (state.authorized /\ state.offer = o) \/ \E p \in Range(state.prior) : p.offer = o
TenantOf(o) ==
  IF state.authorized /\ state.offer = o THEN state.tenant
  ELSE LET S == {p \in Range(state.prior) : p.offer = o}
       IN  IF S = {} THEN None ELSE (CHOOSE p \in S : TRUE).tenant

\* Mutant of SeemsDead: a worker that died before it recorded its pid is not missed.
SeemsDead_ByPid == state.pid # None /\ worker[state.pid].pc = "dead"
\* workerIsGone, or nothing was written for half an hour
SeemsDead == (state.pid # None /\ worker[state.pid].pc = "dead") \/ state.aged

\* isBackfillRunning looks.  Every command asks, and every hook that stages a new transcript.
Judge ==
  /\ state.status = "running" /\ judged = None /\ SeemsDead
  /\ judged' = state.offer
  /\ UNCHANGED <<state, Users, Work, drain, settler, Queue, Reports>> /\ NoFault

\* ... and demotes the run, unless it has ended meanwhile.
Demote ==
  /\ judged # None /\ judged' = None
  /\ IF Current(judged) THEN WriteState([state EXCEPT !.status = "failed", !.finished = TRUE])
     ELSE UNCHANGED state
  /\ UNCHANGED <<Users, Work, drain, settler, Queue, Reports>> /\ NoFault

\* Half an hour passes, over a dead worker or over one that is slow.
Age ==
  /\ state.status = "running" /\ ~ state.aged
  /\ IF worker[state.offer].pc = "dead" THEN NoFault ELSE Spend("stalls")
  /\ state' = [state EXCEPT !.aged = TRUE]
  /\ UNCHANGED <<judged, Users, Work, drain, settler, Queue, Reports>>

\* Another tenant's sign-in, or a sign-out.
ChangeTenant ==
  /\ \/ tenant' \in Tenant \ {tenant} /\ Spend("signins")
     \/ tenant' = None /\ tenant # None /\ Spend("signouts")
  /\ UNCHANGED <<Record, accepted, Work, drain, settler, Queue, Reports>>

-----------------------------------------------------------------------------
(* Settling and reporting.                                                   *)

Of(o, S)       == {c \in S : c.offer = o}
Settles(p, pc) == settler[p].pc = pc
Goes(p, pc)    == settler' = [settler EXCEPT ![p].pc = pc]
Stops(p)       == settler' = [settler EXCEPT ![p] = Idle]

\* settleBackfillDelivery reads the record first, ...
Settleable == Ended /\ state.finished /\ ~ state.delivered /\ state.queued > 0
SettleRead(p) ==
  IF Settleable
  THEN settler' = [settler EXCEPT ![p] = [pc |-> "count", notice |-> [NoNotice EXCEPT !.offer = state.offer]]]
  ELSE UNCHANGED settler

\* Mutant of Waiting: a chunk logged as sent no longer waits.
Waiting_Unlogged(o) == Of(o, chunks \ acks) # {}
\* countBackfillChunks, pending
Waiting(o) == Of(o, chunks) # {}

\* ... then looks for chunks still queued, ...
SettleCount(p) ==
  /\ Settles(p, "count")
  /\ IF Waiting(settler[p].notice.offer) THEN Stops(p) ELSE Goes(p, "mark")
  /\ UNCHANGED <<Record, Reports>>

\* Mutant of Undelivered: whoever counts none settles.
Undelivered_Unchecked(o) == Ended /\ state.offer = o
Undelivered(o) == Ended /\ state.offer = o /\ ~ state.delivered

\* ... marks the import delivered, unless somebody has, ...
SettleMark(p) ==
  /\ Settles(p, "mark")
  /\ IF Undelivered(settler[p].notice.offer)
     THEN /\ WriteState([state EXCEPT !.delivered = TRUE])
          /\ settler' = [settler EXCEPT ![p].pc = "write", ![p].notice.kind = "delivered",
                           ![p].notice.whole = state.status = "completed",
                           ![p].notice.queued = state.queued]
     ELSE UNCHANGED state /\ Stops(p)
  /\ UNCHANGED <<judged, Reports>>

\* Mutant of Sent: what has left the queue counts as sent.
Sent_Left(o) == Cardinality(Of(o, sealed \ chunks))
\* sentChunkCount
Sent(o) == Cardinality(Of(o, acks))

\* ... writes the notice, counting the chunks that were sent, ...
SettleWrite(p) ==
  /\ Settles(p, "write")
  /\ LET n == settler[p].notice
     IN  result' = [n EXCEPT !.sent = Min({Sent(n.offer), n.queued})]
  /\ settler' = [settler EXCEPT ![p] = [pc |-> "event", notice |-> result']]
  /\ UNCHANGED <<Record, event, failures, reports>>

\* classifyBackfillOutcome
Outcome(whole, queued, sent) ==
  CASE sent = queued /\ whole -> "success"
    [] ~ (sent = queued /\ whole) /\ sent = 0 -> "failed"
    [] OTHER -> "partial_success"

\* queueBackfillCompleted: a link that fails when the offer's event is still queued.
QueueEvent(o, outcome) ==
  IF event[o] # None THEN UNCHANGED <<event, reports>>
  ELSE /\ event' = [event EXCEPT ![o] = outcome]
       /\ reports' = [reports EXCEPT ![o] = @ + 1]

\* ... and queues the event.
SettleEvent(p) ==
  /\ Settles(p, "event") /\ Stops(p)
  /\ LET n == settler[p].notice
     IN  QueueEvent(n.offer, Outcome(n.whole, n.queued, n.sent))
  /\ UNCHANGED <<Record, result, failures>>

SettleStep(p) ==
  /\ SettleCount(p) \/ SettleMark(p) \/ SettleWrite(p) \/ SettleEvent(p)
  /\ UNCHANGED <<Users, Work, drain, Queue>> /\ NoFault

\* Every session start tries.
StartSettles ==
  /\ Settles(StartId, "idle") /\ Settleable /\ SettleRead(StartId)
  /\ UNCHANGED <<Record, Users, Work, drain, Queue, Reports>> /\ NoFault

\* drainBackfillEvents: an event goes to the tenant that accepted the import, or nowhere;
\* signed out it waits.
DrainEvent(o) ==
  /\ event[o] # None
  /\ Kept(o) => tenant # None
  /\ event' = [event EXCEPT ![o] = None]
  /\ UNCHANGED <<Record, Users, Work, drain, settler, Queue, result, failures, reports>>
  /\ NoFault

-----------------------------------------------------------------------------
(* The worker.                                                               *)

At(o, pc)    == worker[o].pc = pc
WorkerGoes(o, pc) == worker' = [worker EXCEPT ![o].pc = pc]

\* main: a run that is no longer current ends here.
CheckRun(o) ==
  /\ At(o, "check") /\ WorkerGoes(o, IF Current(o) THEN "pid" ELSE "ended")
  /\ UNCHANGED <<Record, cursors, settler, Queue, Reports>> /\ NoFault

\* updateBackfillProgress changes the current run only.
RecordPid(o) ==
  /\ At(o, "pid") /\ WorkerGoes(o, "scope")
  /\ IF Current(o) THEN WriteState([state EXCEPT !.pid = o]) ELSE UNCHANGED state
  /\ UNCHANGED <<judged, cursors, settler, Queue, Reports>> /\ NoFault

\* The chosen repositories are looked up once more.
CheckScope(o) ==
  /\ At(o, "scope")
  /\ \/ WorkerGoes(o, "seal") /\ NoFault
     \/ WorkerGoes(o, "failing") /\ Spend("scopes")
  /\ UNCHANGED <<Record, cursors, settler, Queue, Reports>>

\* stageTranscriptSnapshot: a transcript with a live cursor is skipped, one that cannot be
\* read or sealed is an error, ...
Seal(o) ==
  LET t == worker[o].next
      c == [offer |-> o, of |-> t]
  IN  /\ At(o, "seal") /\ t <= Transcripts
      /\ \/ /\ t \in cursors /\ WorkerGoes(o, "progress")
            /\ UNCHANGED <<chunks, sealed, slipped>> /\ NoFault
         \/ /\ t \notin cursors /\ worker' = [worker EXCEPT ![o].pc = "progress", ![o].failed = TRUE]
            /\ UNCHANGED <<chunks, sealed, slipped>> /\ Spend("reads")
         \/ /\ t \notin cursors /\ WorkerGoes(o, "cursor")
            /\ chunks' = chunks \cup {c} /\ sealed' = sealed \cup {c}
            /\ slipped' = IF drain.pc = "purge" THEN slipped \cup {c} ELSE slipped
            /\ NoFault
      /\ UNCHANGED <<Record, cursors, settler, aside, acks, arrived, dropped, Reports>>

\* ... and its chunks count only when the cursor is written as well.
WriteCursor(o) ==
  /\ At(o, "cursor")
  /\ \/ /\ cursors' = cursors \cup {worker[o].next}
        /\ worker' = [worker EXCEPT ![o].pc = "progress", ![o].queued = @ + 1] /\ NoFault
     \/ /\ worker' = [worker EXCEPT ![o].pc = "progress", ![o].failed = TRUE]
        /\ UNCHANGED cursors /\ Spend("seals")
  /\ UNCHANGED <<Record, settler, Queue, Reports>>

\* Progress is recorded after each transcript; a busy record ends the run.
Progress(o) ==
  /\ At(o, "progress")
  /\ \/ /\ worker' = [worker EXCEPT ![o].pc = "seal", ![o].next = @ + 1]
        /\ IF Current(o) THEN WriteState([state EXCEPT !.queued = worker[o].queued]) ELSE UNCHANGED state
        /\ NoFault
     \/ WorkerGoes(o, "failing") /\ UNCHANGED state /\ Spend("busy")
  /\ UNCHANGED <<judged, cursors, settler, Queue, Reports>>

\* finishBackfill, after the last transcript.
Finish(o) ==
  /\ At(o, "seal") /\ worker[o].next > Transcripts
  /\ \/ /\ WorkerGoes(o, "settle") /\ NoFault
        /\ IF Current(o)
           THEN WriteState([state EXCEPT !.status = IF worker[o].failed THEN "failed" ELSE "completed",
                              !.queued = worker[o].queued, !.finished = TRUE])
           ELSE UNCHANGED state
     \/ WorkerGoes(o, "failing") /\ UNCHANGED state /\ Spend("busy")
  /\ UNCHANGED <<judged, cursors, settler, Queue, Reports>>

\* The worker settles too, since the drain may have emptied the queue before.
WorkerSettles(o) ==
  /\ At(o, "settle") /\ SettleRead(o) /\ WorkerGoes(o, "announce")
  /\ UNCHANGED <<Record, cursors, Queue, Reports>> /\ NoFault

\* main's catch
FinishFailed(o) ==
  /\ At(o, "failing") /\ WorkerGoes(o, "announceFailed")
  /\ IF Current(o) THEN WriteState([state EXCEPT !.status = "failed", !.finished = TRUE])
     ELSE UNCHANGED state
  /\ UNCHANGED <<judged, cursors, settler, Queue, Reports>> /\ NoFault

\* Mutant of NothingQueued: the notice does not wait for chunks that still upload.
NothingQueued_Ignored(o) == state.offer = o
NothingQueued(o) == state.offer = o /\ state.queued = 0

\* announceBackfillFailure
Announce(o) ==
  /\ At(o, "announce") \/ At(o, "announceFailed")
  /\ Settles(o, "idle")
  /\ IF state.status = "failed" /\ NothingQueued(o) /\ result.offer # o
     THEN /\ result' = [NoNotice EXCEPT !.offer = o, !.kind = "failed"]
          /\ failures' = failures \cup {o}
     ELSE UNCHANGED <<result, failures>>
  /\ WorkerGoes(o, IF At(o, "announceFailed") \/ worker[o].queued = 0 THEN "event" ELSE "ended")
  /\ UNCHANGED <<Record, cursors, settler, Queue, event, reports>> /\ NoFault

\* queueUnqueuedBackfillEvent
QueueUnqueued(o) ==
  /\ At(o, "event") /\ WorkerGoes(o, "ended")
  /\ IF Ended /\ state.offer = o /\ state.queued = 0
     THEN QueueEvent(o, Outcome(state.status = "completed", 0, 0))
     ELSE UNCHANGED <<event, reports>>
  /\ UNCHANGED <<Record, cursors, settler, Queue, result, failures>> /\ NoFault

\* The worker is killed, or the machine stops.
Alive(o) == worker[o].pc \notin {"none", "ended", "dead"}
CrashWorker(o) ==
  /\ Alive(o) /\ WorkerGoes(o, "dead") /\ Stops(o) /\ Spend("crashes")
  /\ UNCHANGED <<Record, Users, cursors, drain, Queue, Reports>>

WorkerStep(o) ==
  /\ \/ CheckRun(o) \/ RecordPid(o) \/ CheckScope(o) \/ Seal(o) \/ WriteCursor(o) \/ Progress(o)
     \/ Finish(o) \/ WorkerSettles(o) \/ FinishFailed(o) \/ Announce(o) \/ QueueUnqueued(o)
  /\ UNCHANGED <<Users, drain>>

-----------------------------------------------------------------------------
(* The drain, one at a time (TranscriptDelivery models its lock).             *)

DrainAt(pc)    == drain.pc = pc
DrainGoes(pc)  == drain' = [drain EXCEPT !.pc = pc]
Gone(S)        == chunks' = chunks \ S /\ dropped' = dropped \cup S
NotDropped     == UNCHANGED <<chunks, dropped>>
Passes(c)      == drain' = [drain EXCEPT !.todo = @ \ {c}]
NextChunk      == drain' = [drain EXCEPT !.pc = "next", !.todo = @ \ {drain.chunk}, !.chunk = None]

\* purgeDisallowedQueues, when the repository has been turned off: what an accepted offer
\* queued is kept, ...
PurgeScan ==
  /\ DrainAt("idle") /\ Spend("purges")
  /\ drain' = [drain EXCEPT !.pc = "purge", !.keep = {c \in chunks : Kept(c.offer)}]
  /\ UNCHANGED <<Queue, settler>>

\* ... and all else deleted.
PurgeDelete ==
  /\ DrainAt("purge") /\ Gone(chunks \ drain.keep)
  /\ drain' = [IdleDrain EXCEPT !.pc = "list"]
  /\ UNCHANGED <<aside, acks, sealed, arrived, slipped, settler>> /\ NoFault

\* drainDeltaChunks takes what is queued.
ListChunks ==
  /\ DrainAt("list") \/ (DrainAt("idle") /\ chunks # {})
  /\ drain' = IF chunks = {} THEN IdleDrain ELSE [IdleDrain EXCEPT !.pc = "next", !.todo = chunks]
  /\ UNCHANGED <<Queue, settler>> /\ NoFault

\* chunkDisposition
Unwanted(c) == ~ Kept(c.offer) \/ (tenant # None /\ tenant # TenantOf(c.offer))

\* uploadDeltaChunk: a chunk whose offer is forgotten, or that another tenant accepted, is
\* deleted; without a license it waits.
CheckChunk ==
  /\ DrainAt("next")
  /\ \E c \in drain.todo :
       \/ /\ c \notin chunks \/ (~ Unwanted(c) /\ tenant = None)
          /\ Passes(c) /\ NotDropped
       \/ /\ c \in chunks /\ Unwanted(c)
          /\ Passes(c) /\ Gone({c})
       \/ /\ c \in chunks /\ ~ Unwanted(c) /\ tenant # None
          /\ drain' = [drain EXCEPT !.pc = "token", !.chunk = c] /\ NotDropped
  /\ UNCHANGED <<aside, acks, sealed, arrived, slipped, settler>> /\ NoFault

\* Then the license is read that the request will carry.
ReadToken ==
  /\ DrainAt("token")
  /\ IF tenant = None THEN NextChunk ELSE drain' = [drain EXCEPT !.pc = "post", !.token = tenant]
  /\ UNCHANGED <<Queue, settler>> /\ NoFault

\* Mutant of MayPost: the license that is read again is checked, not the one that is sent.
MayPost_Reread(c) == ~ Unwanted(c) /\ tenant # None
MayPost(c) == ~ Unwanted(c) /\ tenant # None /\ drain.token = TenantOf(c.offer)

\* The request, after everything is checked once more against the license that it carries.
Post ==
  LET c == drain.chunk
      taken == arrived \cup {[chunk |-> c, tenant |-> drain.token]}
  IN  /\ DrainAt("post")
      /\ \/ /\ ~ MayPost(c) /\ NextChunk /\ UNCHANGED <<chunks, aside, arrived>> /\ NoFault
         \/ /\ MayPost(c) /\ DrainGoes("acked") /\ arrived' = taken
            /\ UNCHANGED <<chunks, aside>> /\ NoFault
         \/ /\ MayPost(c) /\ NextChunk /\ arrived' = taken          \* no answer
            /\ UNCHANGED <<chunks, aside>> /\ Spend("losses")
         \/ /\ MayPost(c) /\ NextChunk                              \* not now
            /\ UNCHANGED <<chunks, aside, arrived>> /\ Spend("deferrals")
         \/ /\ MayPost(c) /\ NextChunk                              \* refused for the last time
            /\ chunks' = chunks \ {c} /\ aside' = aside \cup {c}
            /\ UNCHANGED arrived /\ Spend("setAsides")
      /\ UNCHANGED <<acks, sealed, dropped, slipped, settler>>

\* An acknowledged chunk is logged as sent, ...
LogAck ==
  /\ DrainAt("acked") /\ DrainGoes("remove") /\ acks' = acks \cup {drain.chunk}
  /\ UNCHANGED <<chunks, aside, sealed, arrived, dropped, slipped, settler>> /\ NoFault

\* ... then removed.
RemoveChunk ==
  /\ DrainAt("remove") /\ NextChunk /\ chunks' = chunks \ {drain.chunk}
  /\ UNCHANGED <<aside, acks, sealed, arrived, dropped, slipped, settler>> /\ NoFault

\* The batch over, the drain settles.
DrainSettles ==
  /\ DrainAt("next") /\ drain.todo = {} /\ SettleRead(DrainId) /\ DrainGoes("settling")
  /\ UNCHANGED Queue /\ NoFault
DrainEnds ==
  /\ DrainAt("settling") /\ Settles(DrainId, "idle") /\ drain' = IdleDrain
  /\ UNCHANGED <<Queue, settler>> /\ NoFault

CrashDrain ==
  /\ ~ DrainAt("idle") /\ drain' = IdleDrain /\ Stops(DrainId) /\ Spend("crashes")
  /\ UNCHANGED Queue

OnDrain   == UNCHANGED <<Record, Users, Work, Reports>>
DrainStep ==
  /\ \/ PurgeDelete \/ ListChunks \/ CheckChunk \/ ReadToken \/ Post \/ LogAck \/ RemoveChunk
     \/ DrainSettles \/ DrainEnds
  /\ OnDrain
DrainSteps == DrainStep \/ ((PurgeScan \/ CrashDrain) /\ OnDrain)

\* What nobody could upload for the retention time is deleted.
Expire ==
  /\ \E c \in chunks \cup aside : chunks' = chunks \ {c} /\ aside' = aside \ {c} /\ dropped' = dropped \cup {c}
  /\ Spend("expiries")
  /\ UNCHANGED <<Record, Users, Work, drain, settler, acks, sealed, arrived, slipped, Reports>>

Next ==
  \/ Claim \/ Decline \/ Accept \/ Judge \/ Demote \/ Age \/ ChangeTenant
  \/ \E p \in Settler : SettleStep(p)
  \/ StartSettles
  \/ \E o \in Offer : WorkerStep(o) \/ DrainEvent(o) \/ CrashWorker(o)
  \/ DrainSteps
  \/ Expire

Spec == Init /\ [][Next]_vars

-----------------------------------------------------------------------------
(* What an import promises.                                                  *)

Notice == [offer : Offer \cup {0}, kind : {"none", "failed", "delivered"}, whole : BOOLEAN,
           queued : 0 .. Transcripts, sent : 0 .. Transcripts]

\* The type of every variable (the records of backfill-state.js and backfill-delivery.js).
TypeOK ==
  /\ state \in State /\ Len(state.prior) <= MaxPrior
  /\ judged \in Offer \cup {None} /\ tenant \in Tenant \cup {None}
  /\ cursors \subseteq 1 .. Transcripts
  /\ worker \in [Offer -> [pc : {"none", "check", "pid", "scope", "seal", "cursor", "progress", "settle",
                                "failing", "announce", "announceFailed", "event", "ended", "dead"},
                          next : 1 .. Transcripts + 1, queued : 0 .. Transcripts, failed : BOOLEAN]]
  /\ drain \in [pc : {"idle", "purge", "list", "next", "token", "post", "acked", "remove", "settling"},
                todo : SUBSET Chunk, chunk : Chunk \cup {None}, token : Tenant \cup {None},
                keep : SUBSET Chunk]
  /\ settler \in [Settler -> [pc : {"idle", "count", "mark", "write", "event"}, notice : Notice]]
  /\ chunks \subseteq sealed /\ aside \subseteq sealed /\ chunks \cap aside = {} /\ acks \subseteq sealed
  /\ result \in Notice /\ event \in [Offer -> {"success", "partial_success", "failed", None}]
  /\ accepted \in [Offer -> Tenant \cup {None}] /\ reports \in [Offer -> Nat]
  /\ sealed \subseteq Chunk /\ dropped \subseteq sealed /\ slipped \subseteq sealed
  /\ failures \subseteq Offer /\ left \in [Bounds -> Nat]

Arrived == {a.chunk : a \in arrived}
Spent(k) == left[k] < Limits[k]

\* An import's chunks reach no tenant but the one the user accepted it for, however
\* sign-ins and offers follow one another (backfillTenantMatches).
TenantKept == \A a \in arrived : accepted[a.chunk.offer] = a.tenant

\* An import reported as a success has everything it queued at the collector
\* (classifyBackfillOutcome, sentChunkCount).
SuccessMeansArrived == \A o \in DOMAIN event : event[o] = "success" => Of(o, sealed) \subseteq Arrived

\* The notice that nothing was sent is true (announceBackfillFailure, formatBackfillNotice),
\* if no cursor and no progress failed to be written and no worker was taken for dead: what
\* such a run has queued is not counted, and uploads.
FailedMeansNothingSent ==
  ~ (Spent("seals") \/ Spent("busy") \/ Spent("stalls")) =>
    \A o \in failures : Of(o, sealed) = {}

\* Once an import counts as delivered, nothing of it waits any more
\* (settleBackfillDelivery), if no worker was taken for dead that then went on.
SettledIsFinal ==
  state.delivered /\ ~ Spent("stalls") => Of(state.offer, chunks) = {}

\* What counts as failed or as delivered has nothing under way that would belie it.
SettledForGood == FailedMeansNothingSent /\ SettledIsFinal

\* Worker, drains and session starts may all find the import settled, and one reports it:
\* its event is queued once (markBackfillDelivered, queueBackfillCompleted).
ReportedOnce == \A o \in DOMAIN reports : reports[o] <= 1

\* What an import reports is true of the collector, and it reports once (classifyBackfillOutcome,
\* markBackfillDelivered).
ReportedTruly == SuccessMeansArrived /\ ReportedOnce

\* What the user accepted is deleted unsent only when another tenant signed in, the chunk
\* expired or waited while MaxPrior later offers were accepted, or was queued while the
\* purge of a repository ran (chunkDisposition, clearRepositoryPayloads).
DroppedOnlyForCause ==
  \A c \in dropped \ slipped :
    \/ Spent("signins") \/ Spent("expiries")
    \/ Cardinality({o \in Offer : o > c.offer /\ accepted[o] # None}) >= MaxPrior

\* An import ends: the next offer replaces it, or its snapshot finishes and all that it
\* counted is reported, unless the user stays signed out (isBackfillRunning,
\* settleBackfillDelivery).
Running(o) == Current(o)
Over(o)    == state.offer # o \/ (Ended /\ (state.queued = 0 \/ state.delivered)) \/ tenant = None
=============================================================================
