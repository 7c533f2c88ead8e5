-------------------------- MODULE TranscriptDelivery --------------------------
(***************************************************************************)
(* How one Claude Code transcript reaches the collector (lib/transfer.js,    *)
(* transcript-delta.js, chunk-retry.js).  The transcript is appended to and  *)
(* rewritten by Claude Code.  Stop and SessionEnd hooks seal the lines after *)
(* a cursor as chunk files and then move the cursor; a history import seals  *)
(* a snapshot; a hook in a period that is not recorded only moves the        *)
(* cursor.  Detached drains, kept apart by a lock file that ages out, upload *)
(* the chunks in seq order to a collector that keeps one object per          *)
(* transcript.                                                             *)
(*                                                                         *)
(* One repository stages the transcript, and it stays authorized: consent is *)
(* TelemetryConsent's subject.  A line is its uuid, a number that grows in    *)
(* the order lines are written.                                             *)
(***************************************************************************)
EXTENDS Naturals, Sequences, FiniteSets, SequencesExt

CONSTANTS
  Hook,         \* processes that stage: hooks and the import worker
  Drain,        \* detached drain processes
  None,
  MaxAttempts,  \* refusals after which a chunk is set aside (chunk-retry.js)
  Limits        \* how often each thing below may happen

Bounds == {"lines", "rewrites", "hides", "imports",        \* what is asked
           "hookCrashes", "sealFailures", "cursorFailures",  \* staging
           "drainCrashes", "stalls", "withheld",           \* draining
           "losses", "refusals", "deferrals", "rejections",  \* the collector
           "expiries"}

ASSUME LimitsAssumption   == Limits \in [Bounds -> Nat]
ASSUME AttemptsAssumption == MaxAttempts \in Nat \ {0}

VARIABLES
  file,     \* the transcript
  cursor,   \* the repository's cursor file for it, or None
  hook,     \* what each staging process has read and still has to write
  chunks,   \* sealed chunks awaiting upload, body and sidecar
  aside,    \* quarantined chunks
  drain,    \* what each drain process is doing
  lock,     \* the transcripts drain lock file: None, "fresh" or "stale"
  net,      \* requests on their way to the collector
  object,   \* the collector's object
  refused,  \* history: how often the collector refused each chunk sealed so far
  expired,  \* history: chunks deleted unsent after 7 days
  hidden,   \* history: lines the cursor was moved past unsent
  left      \* the bounds that remain

Transcript == <<file, cursor, hook, hidden>>
Queue      == <<chunks, aside, refused, expired>>
Uploads    == <<drain, lock, net>>
vars       == <<Transcript, Queue, Uploads, object, left>>

Line    == 1 .. Limits["lines"] + Limits["rewrites"]
Cursor  == [last : Line, seq : Nat, baseline : Nat, discarded : BOOLEAN]
Piece   == [lines : Seq(Line), seq : Nat, baseline : Nat]
Chunk   == [id : Nat, lines : Seq(Line), seq : Nat, baseline : Nat,
            attempts : Nat, waiting : BOOLEAN]
Request == [by : Drain \cup {None}, id : Nat, lines : Seq(Line), baseline : Nat]

ASSUME NoneAssumption == None \notin Hook \cup Drain \cup Nat \cup Cursor

IdleHook  == [pc |-> "idle", kind |-> "stage", raw |-> << >>, seen |-> None,
              todo |-> << >>, next |-> None, short |-> FALSE]
IdleDrain == [pc |-> "idle", todo |-> << >>, meta |-> None, retried |-> FALSE]

Spend(k) == left[k] > 0 /\ left' = [left EXCEPT ![k] = @ - 1]
NoFault  == UNCHANGED left

Init ==
  /\ file = << >> /\ cursor = None /\ hidden = {} /\ hook = [h \in Hook |-> IdleHook]
  /\ chunks = {} /\ aside = {} /\ refused = << >> /\ expired = {}
  /\ drain = [d \in Drain |-> IdleDrain] /\ lock = None /\ net = {}
  /\ object = [lines |-> << >>, baseline |-> 0]
  /\ left = Limits

-----------------------------------------------------------------------------
(* The transcript.  Claude Code appends to it, and may rewrite it: a new line *)
(* follows some prefix of what was there.                                    *)

NewLine == Limits["lines"] - left["lines"] + Limits["rewrites"] - left["rewrites"] + 1

AppendLine ==
  /\ Spend("lines")
  /\ file' = Append(file, NewLine)
  /\ UNCHANGED <<cursor, hook, hidden, Queue, Uploads, object>>

Rewrite ==
  /\ Spend("rewrites")
  /\ \E k \in 0 .. Len(file) - 1 : file' = Append(SubSeq(file, 1, k), NewLine)
  /\ UNCHANGED <<cursor, hook, hidden, Queue, Uploads, object>>

-----------------------------------------------------------------------------
(* Staging.                                                                  *)

HookAt(h, pc) == hook[h].pc = pc
ToHook(h, r)  == hook' = [hook EXCEPT ![h] = r]

\* computeDelta: the lines after the cursor's, or all of them as a reset when
\* the cursor's line is no longer there.
Found(raw, cur) == cur # None /\ cur.last \in Range(raw)
Resets(raw, cur) == cur # None /\ ~ Found(raw, cur)
Delta(raw, cur) ==
  IF Found(raw, cur)
  THEN SubSeq(raw, 1 + CHOOSE i \in DOMAIN raw : raw[i] = cur.last, Len(raw))
  ELSE raw

\* splitLinesByBudget and splitByEnvelope cut a delta where sizes demand it:
\* the ends of the pieces grow up to the delta's.
Splits(lines) ==
  UNION {{[i \in 1 .. n |-> SubSeq(lines, ends[i - 1] + 1, ends[i])] :
            ends \in {e \in [0 .. n -> 0 .. Len(lines)] :
                        /\ e[0] = 0 /\ e[n] = Len(lines)
                        /\ \A i \in 1 .. n : e[i - 1] < e[i]}} : n \in 1 .. Len(lines)}

SeqAt(cur)      == IF cur = None THEN 0 ELSE cur.seq
BaselineOf(cur) == IF cur = None THEN 0 ELSE cur.baseline

\* Mutant of Baseline: a reset keeps the baseline of the generation before.
Baseline_Kept(raw, cur) == BaselineOf(cur)

\* Mutant of Baseline: off by one.
Baseline_Ahead(raw, cur) == IF Resets(raw, cur) THEN SeqAt(cur) + 2 ELSE BaselineOf(cur)

\* Every chunk carries the seq of the reset that started its generation.
Baseline(raw, cur) == IF Resets(raw, cur) THEN SeqAt(cur) + 1 ELSE BaselineOf(cur)

Pieces(split, seq, baseline) ==
  [i \in DOMAIN split |-> [lines |-> split[i], seq |-> seq + i, baseline |-> baseline]]

\* Mutant of After: the generation is not kept in the cursor.
After_Forgets(raw, split, seq, baseline) ==
  [last |-> Last(raw), seq |-> seq + Len(split), baseline |-> 0, discarded |-> FALSE]

\* The cursor after a plan: past the delta.
After(raw, split, seq, baseline) ==
  [last |-> Last(raw), seq |-> seq + Len(split), baseline |-> baseline, discarded |-> FALSE]

\* A cursor that took part in live staging, not one that only hides a period.
Live      == cursor # None /\ ~ cursor.discarded
Importing == \E h \in Hook : hook[h].kind = "import" /\ ~ HookAt(h, "idle")

\* stageTranscriptDelta reads the transcript first; without a live cursor it
\* waits for a running import.
StageRead(h) ==
  /\ HookAt(h, "idle")
  /\ Live \/ ~ Importing
  /\ ToHook(h, [IdleHook EXCEPT !.pc = "plan", !.raw = file])
  /\ UNCHANGED <<file, cursor, hidden, Queue, Uploads, object>> /\ NoFault

\* Mutant of StagePlan: the cursor moves before the chunks are sealed.
StagePlan_CursorFirst(h) ==
  /\ HookAt(h, "plan")
  /\ LET raw == hook[h].raw
         b   == Baseline(raw, cursor)
     IN  \/ Delta(raw, cursor) = << >> /\ ToHook(h, IdleHook) /\ UNCHANGED cursor
         \/ /\ Delta(raw, cursor) # << >>
            /\ \E split \in Splits(Delta(raw, cursor)) :
                 /\ cursor' = After(raw, split, SeqAt(cursor), b)
                 /\ ToHook(h, [hook[h] EXCEPT !.pc = "seal", !.raw = << >>, !.next = cursor',
                                 !.todo = Pieces(split, SeqAt(cursor), b)])
  /\ UNCHANGED <<file, hidden, Queue, Uploads, object>> /\ NoFault

\* stageRepositoryTurns then reads the cursor.  An empty delta leaves it alone.
StagePlan(h) ==
  /\ HookAt(h, "plan")
  /\ LET raw == hook[h].raw
         b   == Baseline(raw, cursor)
     IN  \/ Delta(raw, cursor) = << >> /\ ToHook(h, IdleHook)
         \/ /\ Delta(raw, cursor) # << >>
            /\ \E split \in Splits(Delta(raw, cursor)) :
                 ToHook(h, [hook[h] EXCEPT !.pc = "seal", !.raw = << >>,
                              !.todo = Pieces(split, SeqAt(cursor), b),
                              !.next = After(raw, split, SeqAt(cursor), b)])
  /\ UNCHANGED <<file, cursor, hidden, Queue, Uploads, object>> /\ NoFault

\* stageTranscriptSnapshot: only without a live cursor, of a transcript that
\* does not change while it is read.
ImportStart(h) ==
  /\ HookAt(h, "idle") /\ file # << >>
  /\ ~ Live
  /\ Spend("imports")
  /\ ToHook(h, [IdleHook EXCEPT !.pc = "read", !.kind = "import", !.raw = file, !.seen = cursor])
  /\ UNCHANGED <<file, cursor, hidden, Queue, Uploads, object>>

\* The snapshot is planned without the cursor, but for its seq; the cursor
\* written after it leaves the baseline to writeCursor.
ImportPlan(h) ==
  /\ HookAt(h, "read") /\ hook[h].kind = "import"
  /\ LET seq == SeqAt(hook[h].seen) IN
     \/ file # hook[h].raw /\ ToHook(h, IdleHook)
     \/ /\ file = hook[h].raw
        /\ \E split \in Splits(file) :
             ToHook(h, [hook[h] EXCEPT !.pc = "seal", !.raw = << >>,
                          !.todo = Pieces(split, seq, 0),
                          !.next = After(file, split, seq, None)])
  /\ UNCHANGED <<file, cursor, hidden, Queue, Uploads, object>> /\ NoFault

\* sealDeltaChunk publishes a body after its sidecar.  One that cannot be
\* written is skipped, and the cursor then stays.
SealChunk(h) ==
  /\ HookAt(h, "seal") /\ hook[h].todo # << >>
  /\ LET c == Head(hook[h].todo)
         r == [hook[h] EXCEPT !.todo = Tail(@)]
     IN  \/ /\ chunks' = chunks \cup
                 {[id |-> Len(refused) + 1, lines |-> c.lines, seq |-> c.seq,
                   baseline |-> c.baseline, attempts |-> 0, waiting |-> FALSE]}
            /\ refused' = Append(refused, 0)
            /\ ToHook(h, r) /\ NoFault
         \/ ToHook(h, [r EXCEPT !.short = TRUE]) /\ Spend("sealFailures")
            /\ UNCHANGED <<chunks, refused>>
  /\ UNCHANGED <<file, cursor, hidden, aside, expired, Uploads, object>>

\* writeCursor: a baseline that is not given is the previous cursor's.
Written(c) == [c EXCEPT !.baseline = IF @ = None THEN BaselineOf(cursor) ELSE @]

\* Mutant of MoveCursor: the cursor moves although a chunk was not sealed.
MoveCursor_Short(h) ==
  /\ HookAt(h, "seal") /\ hook[h].todo = << >>
  /\ cursor' = Written(hook[h].next) /\ NoFault
  /\ ToHook(h, IdleHook)
  /\ UNCHANGED <<file, hidden, Queue, Uploads, object>>

MoveCursor(h) ==
  /\ HookAt(h, "seal") /\ hook[h].todo = << >>
  /\ \/ hook[h].short /\ UNCHANGED cursor /\ NoFault
     \/ ~ hook[h].short /\ cursor' = Written(hook[h].next) /\ NoFault
     \/ ~ hook[h].short /\ UNCHANGED cursor /\ Spend("cursorFailures")
  /\ ToHook(h, IdleHook)
  /\ UNCHANGED <<file, hidden, Queue, Uploads, object>>

\* advanceCursorToTranscriptTail, in a period that is not recorded.
HideStart(h) ==
  /\ HookAt(h, "idle") /\ Spend("hides")
  /\ ToHook(h, [IdleHook EXCEPT !.pc = "read", !.kind = "hide", !.seen = cursor])
  /\ UNCHANGED <<file, cursor, hidden, Queue, Uploads, object>>

HideRead(h) ==
  /\ HookAt(h, "read") /\ hook[h].kind = "hide"
  /\ ToHook(h, IF file = << >> THEN IdleHook
               ELSE [hook[h] EXCEPT !.pc = "check", !.raw = file])
  /\ UNCHANGED <<file, cursor, hidden, Queue, Uploads, object>> /\ NoFault

\* A cursor written since, past everything this hook saw, is not moved back.
HideCheck(h) ==
  /\ HookAt(h, "check")
  /\ ToHook(h, IF cursor # hook[h].seen /\ Resets(hook[h].raw, cursor) THEN IdleHook
               ELSE [hook[h] EXCEPT !.pc = "write"])
  /\ UNCHANGED <<file, cursor, hidden, Queue, Uploads, object>> /\ NoFault

HideWrite(h) ==
  /\ HookAt(h, "write")
  /\ LET raw == hook[h].raw IN
     /\ cursor' = Written([last |-> Last(raw), seq |-> SeqAt(hook[h].seen),
                           baseline |-> None, discarded |-> TRUE])
     /\ hidden' = hidden \cup Range(Delta(raw, cursor))
  /\ ToHook(h, IdleHook)
  /\ UNCHANGED <<file, Queue, Uploads, object>> /\ NoFault

CrashHook(h) ==
  /\ ~ HookAt(h, "idle") /\ Spend("hookCrashes")
  /\ ToHook(h, IdleHook)
  /\ UNCHANGED <<file, cursor, hidden, Queue, Uploads, object>>

Stage(h) == StageRead(h) \/ StagePlan(h) \/ SealChunk(h) \/ MoveCursor(h)
Hide(h)  == HideStart(h) \/ HideRead(h) \/ HideCheck(h) \/ HideWrite(h)

-----------------------------------------------------------------------------
(* Draining.                                                                 *)

DrainAt(d, pc) == drain[d].pc = pc
ToDrain(d, r)  == drain' = [drain EXCEPT ![d] = r]
Ids(S)         == {c.id : c \in S}

\* Mutant of StatLock: a lock whose drain died is never taken over.
StatLock_Waits(d) ==
  /\ DrainAt(d, "idle")
  /\ ToDrain(d, [IdleDrain EXCEPT !.pc = "open"])
  /\ UNCHANGED <<Transcript, Queue, lock, net, object>> /\ NoFault

\* acquireQueueDrainLock: look at the lock file's age, ...
StatLock(d) ==
  /\ DrainAt(d, "idle")
  /\ ToDrain(d, [IdleDrain EXCEPT !.pc = IF lock = "stale" THEN "unlink" ELSE "open"])
  /\ UNCHANGED <<Transcript, Queue, lock, net, object>> /\ NoFault

\* ... remove one that was stale, whoever's it is by now, ...
UnlinkLock(d) ==
  /\ DrainAt(d, "unlink")
  /\ lock' = None
  /\ ToDrain(d, [drain[d] EXCEPT !.pc = "open"])
  /\ UNCHANGED <<Transcript, Queue, net, object>> /\ NoFault

\* ... and create it exclusively.
OpenLock(d) ==
  /\ DrainAt(d, "open")
  /\ IF lock = None
     THEN lock' = "fresh" /\ ToDrain(d, [drain[d] EXCEPT !.pc = "list"])
     ELSE UNCHANGED lock /\ ToDrain(d, IdleDrain)
  /\ UNCHANGED <<Transcript, Queue, net, object>> /\ NoFault

\* The elements of a finite set in the order that a set of pairs states.
InOrder(S, pairs) ==
  [i \in 1 .. Cardinality(S) |-> CHOOSE x \in S : Cardinality({y \in S : <<y, x>> \in pairs}) = i - 1]

\* eligibleChunksInOrder: in seq order, up to the first that waits.
Before(a, b) == a.seq < b.seq \/ (a.seq = b.seq /\ a.id < b.id)

\* Mutant of Ready: only what waits itself is passed over.
Ready_Skips(c) == ~ c.waiting

Ready(c) == ~ c.waiting /\ \A b \in chunks : Before(b, c) => ~ b.waiting
Eligible ==
  LET S       == {c \in chunks : Ready(c)}
      inOrder == InOrder(S, {p \in S \X S : Before(p[1], p[2])})
  IN  [i \in DOMAIN inOrder |-> inOrder[i].id]

ListChunks(d) ==
  /\ DrainAt(d, "list")
  /\ ToDrain(d, [drain[d] EXCEPT !.pc = "next", !.todo = Eligible])
  /\ UNCHANGED <<Transcript, Queue, lock, net, object>> /\ NoFault

\* A chunk that is not delivered holds back the ones after it.
Hold(d) == ToDrain(d, [drain[d] EXCEPT !.pc = "next", !.todo = << >>, !.meta = None])

\* touchQueueDrainLock, after every chunk.
Touch == lock' = IF lock = None THEN None ELSE "fresh"

\* uploadDeltaChunk: another drain may have removed the chunk; consent, license
\* or endpoint may be missing; otherwise it is read and sent.
Send(d) ==
  /\ DrainAt(d, "next") /\ drain[d].todo # << >>
  /\ \/ /\ Head(drain[d].todo) \notin Ids(chunks)
        /\ Hold(d) /\ Touch /\ UNCHANGED net /\ NoFault
     \/ Hold(d) /\ Touch /\ UNCHANGED net /\ Spend("withheld")
     \/ \E c \in chunks :
          /\ c.id = Head(drain[d].todo)
          /\ net' = net \cup {[by |-> d, id |-> c.id, lines |-> c.lines, baseline |-> c.baseline]}
          /\ ToDrain(d, [drain[d] EXCEPT !.pc = "waiting", !.meta = c])
          /\ UNCHANGED lock /\ NoFault
  /\ UNCHANGED <<Transcript, Queue, object>>

\* The lines of a sequence that are not in a set.
Without(lines, have) ==
  LET S  == {i \in DOMAIN lines : lines[i] \notin have}
      at == InOrder(S, {p \in S \X S : p[1] < p[2]})
  IN  [i \in DOMAIN at |-> lines[at[i]]]

\* The collector: a higher baseline replaces the object, an equal one appends
\* the lines it does not have, a lower one is ignored.
Merged(o, m) ==
  CASE m.baseline > o.baseline -> [lines |-> m.lines, baseline |-> m.baseline]
    [] m.baseline = o.baseline ->
         [o EXCEPT !.lines = @ \o Without(m.lines, Range(o.lines))]
    [] OTHER -> o

\* Accepted and acknowledged: the chunk is deleted.
Uploaded(d, m) ==
  /\ object' = Merged(object, m)
  /\ chunks' = {c \in chunks : c.id # m.id}
  /\ ToDrain(d, [drain[d] EXCEPT !.pc = "next", !.todo = Tail(@), !.meta = None])
  /\ UNCHANGED <<aside, refused>> /\ NoFault

\* noteChunkUploadFailure and noteChunkUploadDeferral rewrite the sidecar from
\* what was read before the request; a chunk that is gone stays gone.
Noted(id, c) == IF id \in Ids(chunks) THEN (chunks \ {b \in chunks : b.id = id}) \cup {c}
                ELSE chunks

\* Mutant of Deferred: an unavailable collector spends the retry budget.
Deferred_Counts(d) ==
  LET c == [drain[d].meta EXCEPT !.attempts = @ + 1, !.waiting = TRUE] IN
  /\ chunks' = IF c.attempts >= MaxAttempts THEN {b \in chunks : b.id # c.id} ELSE Noted(c.id, c)
  /\ aside' = IF c.attempts >= MaxAttempts THEN aside \cup {c} ELSE aside
  /\ Hold(d) /\ UNCHANGED refused

\* Mutant of Deferred: a chunk without an answer is taken for delivered.
Deferred_Removes(d) ==
  /\ chunks' = {c \in chunks : c.id # drain[d].meta.id}
  /\ Hold(d) /\ UNCHANGED <<aside, refused>>

\* Network errors, throttling and an unavailable collector only back off.
Deferred(d) ==
  /\ chunks' = Noted(drain[d].meta.id, [drain[d].meta EXCEPT !.waiting = TRUE])
  /\ Hold(d) /\ UNCHANGED <<aside, refused>>

\* A refusal spends the chunk's budget; exhausted, it is set aside.
Refused(d) ==
  LET c == [drain[d].meta EXCEPT !.attempts = @ + 1, !.waiting = TRUE] IN
  /\ refused' = [refused EXCEPT ![c.id] = @ + 1]
  /\ IF c.attempts >= MaxAttempts /\ c.id \in Ids(chunks)
     THEN chunks' = {b \in chunks : b.id # c.id} /\ aside' = aside \cup {c}
     ELSE chunks' = Noted(c.id, c) /\ UNCHANGED aside
  /\ Hold(d)

\* A 401: retryUnauthorizedOnce renews the license and resends that chunk only,
\* unless there is no newer license.
Rejected(d) ==
  /\ \/ ~ drain[d].retried /\ ToDrain(d, [drain[d] EXCEPT !.pc = "next", !.meta = None,
                                            !.todo = <<Head(@)>>, !.retried = TRUE])
     \/ Hold(d)
  /\ UNCHANGED <<chunks, aside, refused>>

Answer(d) ==
  /\ DrainAt(d, "waiting")
  /\ \E m \in {x \in net : x.by = d} :
       /\ net' = net \ {m}
       /\ \/ Uploaded(d, m)
          \/ UNCHANGED object /\ Refused(d) /\ Spend("refusals")
          \/ UNCHANGED object /\ Deferred(d) /\ Spend("deferrals")
          \/ UNCHANGED object /\ Rejected(d) /\ Spend("rejections")
  /\ Touch
  /\ UNCHANGED <<Transcript, expired>>

\* An answer lost on its way leaves the drain to its timeout.
LoseAnswer(m) ==
  /\ m.by # None /\ Spend("losses")
  /\ object' = Merged(object, m) /\ net' = net \ {m}
  /\ UNCHANGED <<Transcript, Queue, drain, lock>>

\* No answer in time.  The request may still be on its way, to arrive late.
Timeout(d) ==
  /\ DrainAt(d, "waiting")
  /\ \/ (\A m \in net : m.by # d) /\ UNCHANGED net /\ NoFault
     \/ \E m \in net : m.by = d /\ net' = (net \ {m}) \cup {[m EXCEPT !.by = None]}
        /\ Spend("losses")
  /\ Deferred(d) /\ Touch
  /\ UNCHANGED <<Transcript, expired, object>>

ArriveLate(m) ==
  /\ m.by = None
  /\ object' = Merged(object, m) /\ net' = net \ {m}
  /\ UNCHANGED <<Transcript, Queue, drain, lock>> /\ NoFault

\* releaseQueueDrainLock unlinks the file, whoever's it is by now.
Release(d) ==
  /\ DrainAt(d, "next") /\ drain[d].todo = << >>
  /\ lock' = None /\ ToDrain(d, IdleDrain)
  /\ UNCHANGED <<Transcript, Queue, net, object>> /\ NoFault

CrashDrain(d) ==
  /\ ~ DrainAt(d, "idle") /\ Spend("drainCrashes")
  /\ ToDrain(d, IdleDrain)
  /\ net' = {IF m.by = d THEN [m EXCEPT !.by = None] ELSE m : m \in net}
  /\ UNCHANGED <<Transcript, Queue, lock, object>>

-----------------------------------------------------------------------------
(* Time.                                                                     *)

Holding == {"list", "next", "waiting"}

\* Two minutes without a touch: nobody works under the lock, or its holder was
\* suspended, as a laptop's processes are.
LockAges ==
  /\ lock = "fresh" /\ lock' = "stale"
  /\ \/ (\A d \in Drain : drain[d].pc \notin Holding) /\ NoFault
     \/ (\E d \in Drain : drain[d].pc \in Holding) /\ Spend("stalls")
  /\ UNCHANGED <<Transcript, Queue, drain, net, object>>

BackoffOver ==
  /\ \E c \in chunks : c.waiting /\ chunks' = (chunks \ {c}) \cup {[c EXCEPT !.waiting = FALSE]}
  /\ UNCHANGED <<Transcript, aside, refused, expired, Uploads, object>> /\ NoFault

\* cleanupStaleFiles deletes what is unsent for 7 days.
Expire ==
  /\ Spend("expiries")
  /\ \E c \in chunks : chunks' = chunks \ {c} /\ expired' = expired \cup {c}
  /\ UNCHANGED <<Transcript, aside, refused, Uploads, object>>

-----------------------------------------------------------------------------

Upload(d) == \/ StatLock(d) \/ UnlinkLock(d) \/ OpenLock(d) \/ ListChunks(d) \/ Send(d)
             \/ Answer(d) \/ Timeout(d) \/ Release(d)

Next ==
  \/ AppendLine \/ Rewrite
  \/ \E h \in Hook : Stage(h) \/ ImportStart(h) \/ ImportPlan(h) \/ Hide(h) \/ CrashHook(h)
  \/ \E d \in Drain : Upload(d) \/ CrashDrain(d)
  \/ \E m \in net : LoseAnswer(m) \/ ArriveLate(m)
  \/ LockAges \/ BackoffOver \/ Expire

Spec == Init /\ [][Next]_vars

\* Drains are spawned at the end of every turn and run on their own; time passes.
Fairness ==
  /\ \A d \in Drain : WF_vars(StatLock(d)) /\ WF_vars(UnlinkLock(d)) /\ WF_vars(OpenLock(d))
                      /\ WF_vars(ListChunks(d) \/ Send(d) \/ Answer(d) \/ Timeout(d) \/ Release(d))
  /\ WF_vars(LockAges) /\ WF_vars(BackoffOver)
FairSpec == Spec /\ Fairness

-----------------------------------------------------------------------------
(* Properties.                                                               *)

\* Every state is well typed.
TypeOK ==
  /\ file \in Seq(Line) /\ cursor \in Cursor \cup {None} /\ hidden \subseteq Line
  /\ \A h \in Hook :
       /\ hook[h].pc \in {"idle", "read", "plan", "seal", "check", "write"} /\ hook[h].kind \in {"stage", "hide", "import"}
       /\ hook[h].raw \in Seq(Line) /\ hook[h].todo \in Seq(Piece)
       /\ hook[h].seen \in Cursor \cup {None}
  /\ chunks \subseteq Chunk /\ aside \subseteq Chunk /\ expired \subseteq Chunk
  /\ \A d \in Drain :
       /\ drain[d].pc \in {"idle", "unlink", "open", "list", "next", "waiting"}
       /\ drain[d].todo \in Seq(1 .. Len(refused)) /\ drain[d].meta \in Chunk \cup {None}
  /\ lock \in {None, "fresh", "stale"} /\ net \subseteq Request
  /\ object.lines \in Seq(Line) /\ object.baseline \in Nat
  /\ refused \in Seq(Nat) /\ left \in [Bounds -> Nat]

Staged == \A h \in Hook : HookAt(h, "idle")

\* When the transcript is staged to its end and every chunk was delivered, the
\* collector's object is the transcript: no line is missing, twice or left over
\* from before a rewrite, however hooks died and drains overlapped, crashed and
\* timed out on the way.
Mirrors ==
  /\ Staged /\ chunks = {} /\ aside = {} /\ expired = {} /\ hidden = {}
  /\ file # << >> /\ cursor # None /\ cursor.last = Last(file)
  => Range(object.lines) = Range(file) /\ Len(object.lines) = Len(file)

\* Every line up to the cursor that was not hidden is with the collector, in its current
\* generation, or in a chunk that will be or was given up on.  The cursor is
\* what keeps staging from sending a line again, so a line behind it that is
\* nowhere is lost for good.
CursorCovers ==
  cursor # None /\ Found(file, cursor) =>
    LET upTo == {file[i] : i \in 1 .. CHOOSE i \in DOMAIN file : file[i] = cursor.last}
        kept == UNION {Range(c.lines) : c \in {x \in chunks \cup aside \cup expired :
                                                 x.baseline = cursor.baseline}}
        held == IF object.baseline = cursor.baseline THEN Range(object.lines) ELSE {}
    IN  upTo \subseteq kept \cup held \cup hidden

\* The collector's object lists lines in the order they were written, however
\* answers were lost or put off, unless a chunk could not be sealed or was given
\* up on: then the ones after it go ahead.
LinesInOrder ==
  aside = {} /\ expired = {} /\ left["sealFailures"] = Limits["sealFailures"] =>
    \A i, j \in DOMAIN object.lines : i < j => object.lines[i] < object.lines[j]

\* A chunk is given up on only when the collector refused it MaxAttempts times:
\* being offline, throttled or signed out never costs a line, whatever two
\* drains write over each other's sidecars.
GivenUpWhenRefused == \A c \in aside : refused[c.id] >= MaxAttempts

\* A chunk numbered after the reset that began the object's generation is not
\* one of an older generation: the collector would ignore it, and the drain,
\* told that it was accepted, delete it.
NeverIgnored ==
  \A c \in chunks : c.seq > object.baseline => c.baseline >= object.baseline

\* A hidden period's cursor only moves forward: a hook that read a shorter
\* transcript does not bring back lines another hook has hidden or sealed.
HideNeverRewinds ==
  [][\A h \in Hook : HideWrite(h) /\ cursor # None => ~ Resets(hook[h].raw, cursor)]_vars

\* Two drains never work at once.
OneDrain == \A d, e \in Drain : drain[d].pc \in Holding /\ drain[e].pc \in Holding => d = e

\* Every sealed chunk is eventually delivered or given up on.
EveryChunkLeaves ==
  \A i \in 1 .. Limits["lines"] + 2 : i \in Ids(chunks) ~> i \notin Ids(chunks)
=============================================================================
