------------------------- MODULE CodexTranscriptQueue -------------------------
(***************************************************************************)
(* How one Codex transcript reaches the collector while consent changes      *)
(* (lib/transcript-delta.js, the transcript part of logger.js, the routing    *)
(* index of repository-queue.js).                                            *)
(*                                                                         *)
(* Hooks observe the length of the source at each lifecycle event and keep a  *)
(* journal of the ranges that were written while collection was off.  A       *)
(* background drain stages the records between the cursor and the last        *)
(* observed boundary as a batch of chunks, uploads the chunks in order and    *)
(* restages everything, as a new generation, when the consent epoch changed,  *)
(* the source was replaced or the collector has no baseline.  One lock file   *)
(* guards the queue of a source; a batch is published by a rename, then the   *)
(* cursor is written, then the batch is marked ready, and whoever takes the   *)
(* lock next finishes what a dead owner left.                                *)
(*                                                                         *)
(* A record is its serial number.  What a record says, and the line of the    *)
(* session's identity that goes with every chunk, are left out.               *)
(***************************************************************************)
EXTENDS Naturals, Sequences, FiniteSets, SequencesExt

CONSTANTS
  Hook,     \* hooks that observe the source
  Drain,    \* background processes: drain_once.js and the retry monitor
  None,
  Scenarios \* each a choice of how often the things below may happen and of STAGE_BYTES

Bounds == {"records", "replaced", "consents", "pauses", "hooks", "drains", "crashes", "losses", "unanswered"}

VARIABLES
  src,       \* the source: the identity of the file and its records
  consented, \* history: the records written while collection was on
  repo,      \* the repository's consent: on, and the token of its last change
  pause,     \* the global pause: on, and its boundary
  revoked,   \* tokens of earlier consents that were seen revoked (previousRepositories)
  journal,   \* consent.json, or None
  cursor,    \* cursor.json, or None
  groups,    \* the batch directories, in order
  request,   \* baseline in reset-request.json, 0 when there is none
  hint,      \* a capture request: the consent token it was made under, or None
  lock,      \* owner of the queue lock, or None
  command,   \* what the last consent command has still to do
  hook,      \* what each hook has read of the consent
  drain,     \* what each drain is doing
  store,     \* the collector's object of this transcript, or None
  arrived,   \* history: sequence numbers the collector has accepted
  straddled, \* history: some observation used a consent that had changed meanwhile
  left       \* the bounds that remain

queue == <<journal, cursor, groups, request, hint>>
truth == <<src, consented, repo, pause>>
ends  == <<store, arrived>>
vars  == <<truth, revoked, queue, lock, command, hook, drain, ends, straddled, left>>

\* STAGE_BYTES, in records.
Slice == left["slice"]

\* A bound of None is no bound.
Spend(k) ==
  /\ left[k] # 0
  /\ left' = IF left[k] = None THEN left ELSE [left EXCEPT ![k] = @ - 1]

\* Positions in their order, and what a sequence has at them.
Ascending(S) == [i \in 1 .. Cardinality(S) |-> CHOOSE n \in S : Cardinality({k \in S : k < n}) = i - 1]
Picked(s, S) == [i \in 1 .. Cardinality(S) |-> s[Ascending(S)[i]]]

Init ==
  /\ src = [id |-> 1, recs |-> << >>] /\ consented = {}
  /\ repo = [on |-> TRUE, token |-> 1] /\ pause = [on |-> FALSE, boundary |-> 0]
  /\ revoked = {} /\ journal = None /\ cursor = None /\ groups = << >>
  /\ request = 0 /\ hint = None /\ lock = None /\ command = "none"
  /\ hook = [h \in Hook |-> [pc |-> "idle", view |-> None]]
  /\ drain = [d \in Drain |-> [pc |-> "idle", again |-> FALSE, view |-> None, plan |-> None]]
  /\ store = None /\ arrived = {} /\ straddled = FALSE /\ left \in Scenarios

-----------------------------------------------------------------------------
(* The user and Codex.                                                       *)

\* A record that is written is given the number that is left: all are different.

Allowed == repo.on /\ ~ pause.on

\* Codex appends a record to the source.
Write ==
  /\ Spend("records")
  /\ src' = [src EXCEPT !.recs = Append(@, left["records"])]
  /\ consented' = IF Allowed THEN consented \cup {left["records"]} ELSE consented
  /\ UNCHANGED <<repo, pause, revoked, queue, lock, hook, drain, ends, straddled, command>>

\* The source is restored from a copy: another file with the same records, or
\* with fewer.
Replace ==
  /\ Spend("replaced")
  /\ \E k \in 0 .. Len(src.recs) : src' = [id |-> src.id + 1, recs |-> SubSeq(src.recs, 1, k)]
  /\ UNCHANGED <<consented, repo, pause, revoked, queue, lock, hook, drain, ends, straddled, command>>

\* What transcriptScope and transcriptConsentStamp read.
View == [on |-> Allowed, token |-> repo.token, boundary |-> pause.boundary]

-----------------------------------------------------------------------------
(* Consent boundaries.                                                       *)

Free == lock \notin {d \in Drain : drain[d].pc # "dead"}

\* Mutant of FreshJournal: a new consent covers what was written before.
FreshJournal_Retroactive(view) ==
  [epoch |-> IF journal = None THEN 1 ELSE journal.epoch + 1, id |-> src.id,
   observed |-> Len(src.recs), excluded |-> {},
   on |-> view.on, token |-> view.token, boundary |-> view.boundary]

\* Mutant of FreshJournal: the boundary is left for the next hook to note.
FreshJournal_Unbounded(view) ==
  [epoch |-> IF journal = None THEN 1 ELSE journal.epoch + 1, id |-> src.id,
   observed |-> 0, excluded |-> 1 .. Len(src.recs),
   on |-> view.on, token |-> view.token, boundary |-> view.boundary]

\* A first observation, or one of a new consent, excludes all there is.
FreshJournal(view) ==
  [epoch |-> IF journal = None THEN 1 ELSE journal.epoch + 1, id |-> src.id,
   observed |-> Len(src.recs), excluded |-> 1 .. Len(src.recs),
   on |-> view.on, token |-> view.token, boundary |-> view.boundary]

SameStamp(view) == journal.token = view.token /\ journal.boundary = view.boundary

\* A replaced file keeps its authorization when it begins with what was committed.
Proven ==
  /\ cursor # None /\ cursor.epoch = journal.epoch
  /\ journal.observed <= cursor.offset /\ cursor.offset <= Len(src.recs)
  /\ SubSeq(src.recs, 1, cursor.offset) = cursor.prefix

\* Mutant of Interval: only what is off now is looked at.
Interval_Now(view) == IF view.on THEN {} ELSE journal.observed + 1 .. Len(src.recs)

\* The records since the last boundary were written in a period that was not on.
Interval(view) ==
  IF view.on /\ journal.on /\ SameStamp(view) THEN {} ELSE journal.observed + 1 .. Len(src.recs)

\* observeConsent.  Hooks only look at the length; verify is set for the reader.
Observed(view, verify) ==
  LET moved == journal # None /\ journal.id # src.id /\ view.on /\ journal.on /\ SameStamp(view)
      kept  == journal # None /\ journal.token = view.token /\ Len(src.recs) >= journal.observed
               /\ (journal.id = src.id \/ (moved /\ Proven))
  IN  IF moved /\ ~ verify THEN journal
      ELSE IF ~ kept THEN FreshJournal(view)
      ELSE [journal EXCEPT !.id = src.id, !.observed = Len(src.recs),
              !.excluded = @ \cup Interval(view),
              !.on = view.on, !.boundary = view.boundary]

\* A hook reads the consent ...
HookRead(h) ==
  /\ hook[h].pc = "idle" /\ Spend("hooks")
  /\ hook' = [hook EXCEPT ![h] = [pc |-> "observe", view |-> View]]
  /\ UNCHANGED <<truth, revoked, queue, lock, drain, ends, straddled, command>>

\* ... and notes the boundary and, when collection is on, a request to capture
\* (runHook, requestTranscriptCapture).
HookObserve(h) ==
  /\ hook[h].pc = "observe"
  /\ hook' = [hook EXCEPT ![h] = [pc |-> "idle", view |-> None]]
  /\ IF Free
     THEN /\ journal' = Observed(hook[h].view, FALSE)
          /\ hint' = IF hook[h].view.on THEN hook[h].view.token ELSE hint
          /\ straddled' = (straddled \/ hook[h].view # View)
     ELSE UNCHANGED <<journal, hint, straddled>>
  /\ UNCHANGED <<truth, revoked, cursor, groups, request, lock, drain, ends, left, command>>

-----------------------------------------------------------------------------
(* What the holder of the queue lock finds.                                  *)

\* Mutant of Recovered: a cursor that exists is trusted.
Recovered_First == IF groups # << >> /\ cursor = None THEN Last(groups).next ELSE cursor

\* recover: a published batch whose cursor was not written, and missing ready marks.
Recovered == IF groups # << >> /\ (cursor = None \/ Last(groups).next.seq > cursor.seq)
             THEN Last(groups).next ELSE cursor

Marked == [i \in DOMAIN groups |-> [groups[i] EXCEPT !.ready = TRUE]]

\* synchronize: an OFF that is seen revokes every earlier consent, for good.
Revokes == revoked \cup (IF repo.on THEN {} ELSE 1 .. repo.token - 1)

\* purgeRevoked: what was staged under a revoked consent is deleted; the cursor and
\* the journal stay.  A busy queue is left for a later drain.
Purge ==
  IF Free
  THEN /\ revoked' = Revokes /\ cursor' = Recovered
       /\ groups' = Picked(Marked, {i \in DOMAIN groups : groups[i].next.token \notin Revokes})
  ELSE UNCHANGED <<revoked, cursor, groups>>

-----------------------------------------------------------------------------
(* Commands.                                                                 *)

\* consent-set records a decision, deletes what it revokes and then notes the
\* boundary of the sources it knows (consent-actions.js).
SetConsent ==
  /\ command = "none" /\ Spend("consents")
  /\ repo' = [on |-> ~ repo.on, token |-> repo.token + 1]
  /\ command' = "purge"
  /\ UNCHANGED <<src, consented, pause, revoked, queue, lock, hook, drain, ends, straddled>>

CommandPurge ==
  /\ command = "purge" /\ command' = "observe"
  /\ Purge
  /\ UNCHANGED <<truth, journal, request, hint, lock, hook, drain, ends, straddled, left>>

\* disable-global and enable-global record a boundary and the decision; what is
\* staged stays (setTelemetryGloballyDisabled).
SetPause ==
  /\ command = "none" /\ Spend("pauses")
  /\ pause' = [on |-> ~ pause.on, boundary |-> pause.boundary + 1]
  /\ command' = "observe"
  /\ UNCHANGED <<src, consented, repo, revoked, queue, lock, hook, drain, ends, straddled>>

\* observeKnownTranscriptConsent: sources with a journal.
CommandObserve ==
  /\ command = "observe" /\ command' = "none"
  /\ journal' = IF journal # None /\ Free THEN Observed(View, FALSE) ELSE journal
  /\ UNCHANGED <<truth, revoked, cursor, groups, request, hint, lock, hook, drain, ends, straddled, left>>

CommandDies ==
  /\ command # "none" /\ Spend("crashes") /\ command' = "none"
  /\ UNCHANGED <<truth, revoked, queue, lock, hook, drain, ends, straddled>>

-----------------------------------------------------------------------------
(* Drains.                                                                   *)

At(d, pc) == drain[d].pc = pc
To(d, pc) == drain' = [drain EXCEPT ![d].pc = pc]
Idle(d)   == drain' = [drain EXCEPT ![d] = [pc |-> "idle", again |-> FALSE, view |-> None, plan |-> None]]

\* A drain that stops staging sends what is queued, or ends after a second attempt.
Staged(d) == IF drain[d].again THEN Idle(d) ELSE To(d, "purge1")

\* drainQueuesOnce, of drain_once.js or of the retry monitor.
DrainStart(d) ==
  /\ At(d, "idle") /\ Spend("drains") /\ To(d, "purge")
  /\ UNCHANGED <<truth, revoked, queue, lock, hook, ends, straddled, command>>

\* reconcileConsentRevocations first; later before and after the uploads.
DrainPurge(d) ==
  /\ \/ At(d, "purge")  /\ To(d, "stage")
     \/ At(d, "purge1") /\ To(d, "open")
     \/ At(d, "purge2") /\ To(d, "recheck")
  /\ Purge
  /\ UNCHANGED <<truth, journal, request, hint, lock, hook, ends, straddled, left, command>>

\* drainPendingTranscripts ends while paused; stageRequestedTranscripts stages a
\* source that was hinted at under the consent of the moment.
Look(d) == drain' = [drain EXCEPT ![d].pc = "observe", ![d].view = View]

StageRequested(d) ==
  /\ At(d, "stage")
  /\ IF pause.on THEN Idle(d)
     ELSE IF Allowed /\ hint = repo.token THEN Look(d) ELSE To(d, "purge1")
  /\ UNCHANGED <<truth, revoked, queue, lock, hook, ends, straddled, left, command>>

\* stageTranscriptForUpload notes the boundary, with the consent it has read, ...
DrainObserve(d) ==
  /\ At(d, "observe")
  /\ IF Free
     THEN /\ journal' = Observed(drain[d].view, TRUE)
          /\ straddled' = (straddled \/ drain[d].view # View)
          /\ drain' = [drain EXCEPT ![d].pc = "take", ![d].view = journal']
     ELSE Staged(d) /\ UNCHANGED <<journal, straddled>>
  /\ UNCHANGED <<truth, revoked, cursor, groups, request, hint, lock, hook, ends, left, command>>

\* Mutant of Resets: the collector's request is ignored.
Resets_Deaf(c, r) ==
  r = None \/ r.id # src.id \/ r.epoch # c.epoch \/ r.token # repo.token

\* ... and stages up to it.  A reset starts a generation and a baseline.
Resets(c, r) ==
  \/ r = None
  \/ r.id # src.id \/ r.epoch # c.epoch \/ r.token # repo.token
  \/ request >= r.baseline

\* Within an epoch the committed records must still be there.
Rewritten(c, r) ==
  r # None /\ r.epoch = c.epoch /\
    (r.offset > c.observed \/ r.offset > Len(src.recs) \/ SubSeq(src.recs, 1, r.offset) # r.prefix)

\* Mutant of Included: the cursor passes the last line before it is complete.
Included_NotLast(c, i) == i \notin c.excluded /\ i # c.observed

\* The lines of a batch: at least Slice records, and more while all are excluded.
Included(c, i) == i \notin c.excluded

BatchEnd(c, from, size) ==
  LET full == {i \in from + 1 .. size :
                 i >= from + Slice /\ \E k \in from + 1 .. i : Included(c, k)}
  IN  IF full = {} THEN size ELSE CHOOSE i \in full : \A k \in full : i <= k

\* Mutant of LastSeq: a replaced source is numbered from the start.
LastSeq_PerFile(r) == IF r = None \/ r.id # src.id THEN 0 ELSE r.seq

\* Mutant of NextBaseline: a generation is added to the object of the last one.
NextBaseline_Kept(r, resets) == IF r = None THEN 1 ELSE r.baseline

\* Numbers go on over generations; a generation's baseline is its first number.
LastSeq(r) == IF r = None THEN 0 ELSE r.seq
NextBaseline(r, resets) == IF resets THEN LastSeq(r) + 1 ELSE r.baseline

\* Chunks as small as encodeChunks makes them: one line each.
Plan(c, r) ==
  LET size   == IF Len(src.recs) < c.observed THEN Len(src.recs) ELSE c.observed
      resets == Resets(c, r)
      from   == IF resets THEN 0 ELSE r.offset
      to     == BatchEnd(c, from, size)
      at     == Ascending({i \in from + 1 .. to : Included(c, i)})
      seq    == LastSeq(r)
      gen    == IF r = None THEN 1 ELSE IF resets THEN r.gen + 1 ELSE r.gen
  IN  [lines |-> [i \in DOMAIN at |->
                    [seq |-> seq + i, line |-> [gen |-> gen, at |-> at[i], rec |-> src.recs[at[i]]]]],
       next  |-> [seq |-> seq + Len(at), baseline |-> NextBaseline(r, resets), gen |-> gen, offset |-> to,
                  epoch |-> c.epoch, token |-> repo.token, id |-> src.id,
                  prefix |-> SubSeq(src.recs, 1, to)],
       boundary |-> c.boundary]

Stageable(c, r) ==
  /\ c # None /\ c = journal /\ c.on /\ Allowed /\ c.id = src.id
  /\ ~ Rewritten(c, r) /\ Plan(c, r).lines # << >>

StageTake(d) ==
  /\ At(d, "take")
  /\ LET c == drain[d].view
         context == IF drain[d].again THEN cursor.token ELSE hint
     IN  IF ~ Free THEN Staged(d) /\ UNCHANGED <<cursor, groups, lock>>
         ELSE IF context = repo.token
         THEN /\ cursor' = Recovered /\ groups' = Marked
              /\ IF Stageable(c, Recovered)
                 THEN /\ lock' = d
                      /\ drain' = [drain EXCEPT ![d].pc = "publish", ![d].plan = Plan(c, Recovered)]
                 ELSE Staged(d) /\ lock' = None
         ELSE Staged(d) /\ UNCHANGED <<cursor, groups, lock>>
  /\ UNCHANGED <<truth, revoked, journal, request, hint, hook, ends, straddled, left, command>>

\* authorizeCommit: the consent is read again before the batch is published.
Authorized(plan) ==
  Allowed /\ repo.token = plan.next.token /\ pause.boundary = plan.boundary

Publish(d) ==
  /\ At(d, "publish")
  /\ LET plan == drain[d].plan IN
     IF Authorized(plan)
     THEN /\ groups' = Append(groups, [lines |-> plan.lines, next |-> plan.next, ready |-> FALSE])
          /\ To(d, "cursor") /\ UNCHANGED lock
     ELSE Staged(d) /\ lock' = None /\ UNCHANGED groups
  /\ UNCHANGED <<truth, revoked, journal, cursor, request, hint, hook, ends, straddled, left, command>>

WriteCursor(d) ==
  /\ At(d, "cursor")
  /\ cursor' = drain[d].plan.next
  /\ To(d, "mark")
  /\ UNCHANGED <<truth, revoked, journal, groups, request, hint, lock, hook, ends, straddled, left, command>>

\* Another slice is tried, or the second attempt uploads what it staged.
Mark(d) ==
  /\ At(d, "mark")
  /\ groups' = Marked /\ lock' = None
  /\ IF drain[d].again THEN To(d, "open") ELSE Look(d)
  /\ UNCHANGED <<truth, revoked, journal, cursor, request, hint, hook, ends, straddled, left, command>>

\* drainDirectory takes the lock and recovers, ...
Open(d) ==
  /\ At(d, "open")
  /\ IF Free THEN /\ lock' = d /\ cursor' = Recovered /\ groups' = Marked /\ To(d, "next")
     ELSE /\ IF drain[d].again THEN Idle(d) ELSE To(d, "purge2")
          /\ UNCHANGED <<lock, cursor, groups>>
  /\ UNCHANGED <<truth, revoked, journal, request, hint, hook, ends, straddled, left, command>>

\* Mutant of Pending: an older generation is sent ahead of the reset.
Pending_Old == {i \in DOMAIN groups : groups[i].lines # << >>}

\* ... and lists what is pending: batches of an older baseline stay unsent.
Pending == {i \in DOMAIN groups : groups[i].lines # << >> /\ groups[i].next.baseline >= cursor.baseline}

FirstPending == CHOOSE i \in Pending : \A k \in Pending : i <= k
NextChunk    == Head(groups[FirstPending].lines)

\* sendTranscriptChunk: the consent is read before each chunk.
CheckChunk(d) ==
  /\ At(d, "next")
  /\ To(d, IF Pending # {} /\ Allowed /\ groups[FirstPending].next.token = repo.token
           THEN "post" ELSE "close")
  /\ UNCHANGED <<truth, revoked, queue, lock, hook, ends, straddled, left, command>>

\* The collector begins an object with the chunk that carries its baseline, merges
\* later ones by uuid, and has no baseline for the others.
Knows(base, seq)  == seq = base \/ (store # None /\ store.baseline >= base)
Merged(base, line) ==
  IF store # None /\ store.baseline = base THEN [store EXCEPT !.lines = @ \cup {line}]
  ELSE IF store # None /\ store.baseline > base THEN store
  ELSE [baseline |-> base, lines |-> {line}]

Post(d) ==
  /\ At(d, "post")
  /\ LET g == groups[FirstPending]
         base == g.next.baseline
     IN  \/ /\ Knows(base, NextChunk.seq)
            /\ store' = Merged(base, NextChunk.line)
            /\ arrived' = arrived \cup {NextChunk}
            /\ \/ To(d, "ack") /\ UNCHANGED left
               \/ To(d, "close") /\ Spend("unanswered")
         \/ /\ ~ Knows(base, NextChunk.seq)
            /\ To(d, "reset") /\ UNCHANGED <<store, arrived, left>>
         \/ To(d, "close") /\ Spend("unanswered") /\ UNCHANGED <<store, arrived>>
  /\ UNCHANGED <<truth, revoked, queue, lock, hook, straddled, command>>

Acknowledge(d) ==
  /\ At(d, "ack")
  /\ groups' = [groups EXCEPT ![FirstPending].lines = Tail(@)]
  /\ To(d, "next")
  /\ UNCHANGED <<truth, revoked, journal, cursor, request, hint, lock, hook, ends, straddled, left, command>>

\* The collector's wish for a reset is kept, whatever happens to this process.
RequestReset(d) ==
  /\ At(d, "reset")
  /\ request' = groups[FirstPending].next.baseline
  /\ To(d, "close")
  /\ UNCHANGED <<truth, revoked, journal, cursor, groups, hint, lock, hook, ends, straddled, left, command>>

\* Batches that are sent whole are removed.
Close(d) ==
  /\ At(d, "close")
  /\ groups' = Picked(groups, {i \in DOMAIN groups : groups[i].lines # << >>})
  /\ lock' = None
  /\ IF drain[d].again THEN Idle(d) ELSE To(d, "purge2")
  /\ UNCHANGED <<truth, revoked, journal, cursor, request, hint, hook, ends, straddled, left, command>>

\* drainTranscriptDirectory tries a requested reset at once, one time.
Recheck(d) ==
  /\ At(d, "recheck")
  /\ IF request > 0 /\ cursor # None /\ request >= cursor.baseline /\ Allowed /\ cursor.token = repo.token
     THEN drain' = [drain EXCEPT ![d] = [pc |-> "observe", again |-> TRUE, view |-> View, plan |-> None]]
     ELSE Idle(d)
  /\ UNCHANGED <<truth, revoked, queue, lock, hook, ends, straddled, left, command>>

\* A killed drain leaves the lock to whoever comes next.
Crash(d) ==
  /\ drain[d].pc \notin {"idle", "dead"} /\ Spend("crashes")
  /\ To(d, "dead")
  /\ UNCHANGED <<truth, revoked, queue, lock, hook, ends, straddled, command>>

\* The collector loses its object.
Lose ==
  /\ store # None /\ Spend("losses") /\ store' = None
  /\ UNCHANGED <<truth, revoked, queue, lock, hook, drain, arrived, straddled, command>>

DrainStep(d) ==
  \/ DrainPurge(d) \/ StageRequested(d) \/ DrainObserve(d) \/ StageTake(d) \/ Publish(d)
  \/ WriteCursor(d) \/ Mark(d) \/ Open(d) \/ CheckChunk(d) \/ Post(d) \/ Acknowledge(d)
  \/ RequestReset(d) \/ Close(d) \/ Recheck(d)

Next ==
  \/ Write \/ Replace \/ Lose
  \/ SetConsent \/ SetPause \/ CommandPurge \/ CommandObserve \/ CommandDies
  \/ \E h \in Hook : HookRead(h) \/ HookObserve(h)
  \/ \E d \in Drain : DrainStart(d) \/ DrainStep(d) \/ Crash(d)

Spec == Init /\ [][Next]_vars

\* Drains that come one after another.  Two that run at once may find the other's lock
\* each time; they start a minute apart and take seconds, so it is left out here.
Alone == \A d, e \in Drain :
  drain[d].pc = "idle" /\ drain'[d].pc # "idle" => drain[e].pc \in {"idle", "dead"}

\* Processes that run go on, and as long as there is a backlog a hook or the retry
\* monitor starts another drain.
FairSpec ==
  /\ Init /\ [][Next /\ Alone]_vars
  /\ \A h \in Hook : WF_vars(HookObserve(h))
  /\ \A d \in Drain : WF_vars(DrainStep(d)) /\ WF_vars(DrainStart(d) /\ Alone)
  /\ WF_vars(CommandPurge \/ CommandObserve)

-----------------------------------------------------------------------------
(* Properties.                                                               *)

Line   == [gen : Nat, at : Nat, rec : Nat]
Chunk  == [seq : Nat, line : Line]
Cursor == [seq : Nat, baseline : Nat, gen : Nat, offset : Nat, epoch : Nat, token : Nat,
           id : Nat, prefix : Seq(Nat)]
JournalType == [epoch : Nat, id : Nat, observed : Nat, excluded : SUBSET Nat,
                on : BOOLEAN, token : Nat, boundary : Nat]
StoreType == [baseline : Nat, lines : SUBSET Line]

\* The bounds are numbers or absent, and records always have numbers; None is none of the
\* records that a file holds.
Constants ==
  /\ Scenarios \subseteq [Bounds \cup {"slice"} -> Nat \cup {None}]
  /\ \A s \in Scenarios : s["records"] \in Nat /\ s["slice"] \in Nat
  /\ None \notin Nat /\ None \notin JournalType /\ None \notin Cursor /\ None \notin StoreType /\ None \notin Drain

TypeOK ==
  /\ src.id \in Nat /\ src.recs \in Seq(Nat) /\ consented \subseteq Nat
  /\ repo \in [on : BOOLEAN, token : Nat] /\ pause \in [on : BOOLEAN, boundary : Nat]
  /\ revoked \subseteq 1 .. repo.token
  /\ journal # None => journal.observed \in Nat /\ journal.excluded \subseteq 1 .. journal.observed
  /\ cursor # None => cursor \in Cursor
  /\ groups \in Seq([lines : Seq(Chunk), next : Cursor, ready : BOOLEAN])
  /\ request \in Nat /\ hint \in Nat \cup {None}
  /\ lock \in Drain \cup {None}
  /\ arrived \subseteq Chunk
  /\ store # None => store.lines \subseteq Line

\* Nothing that was written while collection was off or paused ever reaches the
\* collector, also when consent comes back, the source is replaced, the queue is
\* restaged or a process dies in between (observeConsent, stage); the exception is a
\* boundary that was noted with a consent that had just changed.
OnlyConsented ==
  (\E c \in arrived : c.line.rec \notin consented) => straddled

\* What the cursor covers is not lost: each record before it that may be sent is in
\* the batches of this generation or has arrived, through crashes between the
\* publication of a batch, its cursor and its ready mark (recover).
CursorCovers ==
  cursor # None /\ journal # None /\ cursor.epoch = journal.epoch /\ cursor.token \notin Revokes =>
    \A i \in 1 .. cursor.offset :
      LET line == [gen |-> cursor.gen, at |-> i, rec |-> cursor.prefix[i]]
      IN  \/ i \in journal.excluded
          \/ \E c \in arrived : c.line = line
          \/ \E k \in DOMAIN groups : \E n \in DOMAIN groups[k].lines : groups[k].lines[n].line = line

\* A record stands once in the collector's object, in its last generation.
StoredOnce ==
  store # None => \A a, b \in store.lines : a.rec = b.rec => a = b

\* Chunks arrive in the order of their numbers within a baseline, so an object never
\* has a gap that is filled from behind; and never after a later baseline.
ArrivesInOrder ==
  \A c \in arrived' \ arrived :
    /\ \A b \in arrived : b.line.gen <= c.line.gen
    /\ \A b \in arrived : b.line.gen = c.line.gen => b.seq < c.seq

\* Whatever a hook has seen and asked to capture arrives in the end, after lost
\* answers, crashes, a reset that the collector asks for and a consent that comes back;
\* and no batch of the current generation stays behind.
Delivered ==
  /\ journal # None /\ Allowed /\ hint = repo.token /\ journal.token = repo.token =>
       \A i \in 1 .. journal.observed :
         i \in DOMAIN src.recs \ journal.excluded => \E c \in arrived : c.line.rec = src.recs[i]
  /\ cursor # None /\ Allowed /\ cursor.token = repo.token => Pending = {}

\* The queue holds each number once, in order, and a number never stands for two
\* different lines, also when a batch was published and its cursor was not written.
Queued == UNION {ToSet(groups[k].lines) : k \in DOMAIN groups}

NumbersUnique ==
  /\ \A i, k \in DOMAIN groups : \A m \in DOMAIN groups[i].lines, n \in DOMAIN groups[k].lines :
       i < k \/ (i = k /\ m < n) => groups[i].lines[m].seq < groups[k].lines[n].seq
  /\ \A a \in arrived \cup Queued : \A b \in arrived : a.seq = b.seq => a = b
=============================================================================
