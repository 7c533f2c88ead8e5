------------------------------- MODULE MCCodex -------------------------------
(***************************************************************************)
(* The background work of the Codex client for TLC: the drain handoff and the *)
(* retry monitor, and whether the two queues are emptied.  The four parts     *)
(* share files of different names only, so each is explored on its own: a     *)
(* behaviour begins by choosing the part that moves.  Variables of the other  *)
(* parts are None, except those of the handoff, which keep their initial      *)
(* values so that its properties can be checked as they stand.                *)
(***************************************************************************)
EXTENDS CodexDrainHandoff, TLC

CONSTANTS p1, p2, p3, q1, q2

VARIABLES
  part,
  \* of the monitor
  beat, start, monitor, backlog, stales, ends, failed, overlaps,
  \* of either queue
  repo, revoked, left, queueLock, queueHook,
  \* of the transcript queue
  src, consented, pause, journal, cursor, groups, reset, hint, command, worker, store, arrived, straddled,
  \* of the event queue
  paused, files, clock, meta, poison, work, purge, received, written, late, expired, tries, spent, promised

\* Records, replacements, consent changes, pauses, hooks, drains, crashes, losses,
\* unanswered posts, and STAGE_BYTES in records.
Limits(r, rp, c, p, h, n, k, l, u, s) ==
  "records" :> r @@ "replaced" :> rp @@ "consents" :> c @@ "pauses" :> p @@ "hooks" :> h @@
  "drains" :> n @@ "crashes" :> k @@ "losses" :> l @@ "unanswered" :> u @@ "slice" :> s

TranscriptRecoveries == { Limits(2,0,0,0,2,None,0,1,1,1), Limits(1,0,1,0,2,None,1,0,0,2) }

Rows(n) ==
  [b \in {"rows", "seals", "ticks", "scopes", "consents", "locals", "pauses", "signouts", "failures", "rejections",
          "crashes", "ages", "reconciles"} |-> IF b = "rows" THEN n ELSE 0]

EventRecoveries ==
  { "crashes" :> 1 @@ "failures" :> 1 @@ "scopes" :> 1 @@ Rows(2),
    "rejections" :> 1 @@ "consents" :> 1 @@ Rows(2) }

M == INSTANCE CodexRetryMonitor WITH
       Start <- {p1, p2}, Monitor <- {q1, q2},
       MaxIdle <- 1, MaxStale <- 1, MaxEnds <- 1, MaxFailed <- 1, MaxOverlap <- 1

T == INSTANCE CodexTranscriptQueue WITH
       Hook <- {p3}, Drain <- {q1, q2}, Scenarios <- TranscriptRecoveries,
       lock <- queueLock, hook <- queueHook, drain <- worker, request <- reset

E == INSTANCE CodexEventQueue WITH
       Repo <- {q1, q2}, Hook <- {p1}, Worker <- {p3}, MaxRetries <- 2, MaxTime <- 4, MaxFiles <- 5,
       Scenarios <- EventRecoveries,
       lock <- queueLock, hook <- queueHook, slipped <- late

\* What the theorems about the monitor assume holds of the instance.
ASSUME MonitorConstants == M!Constants

MonitorVars    == <<beat, start, monitor, backlog, stales, ends, failed, overlaps>>
EitherQueue    == <<repo, revoked, left, queueLock, queueHook>>
TranscriptVars == <<src, consented, pause, journal, cursor, groups, reset, hint, command, worker, store, arrived, straddled>>
EventVars      == <<paused, files, clock, meta, poison, work, purge, received, written, late, expired, tries, spent, promised>>
AllVars        == <<part, vars, MonitorVars, EitherQueue, TranscriptVars, EventVars>>

NoMonitor ==
  /\ beat = None /\ start = None /\ monitor = None /\ backlog = None
  /\ stales = None /\ ends = None /\ failed = None /\ overlaps = None
NoQueue ==
  repo = None /\ revoked = None /\ left = None /\ queueLock = None /\ queueHook = None
NoTranscripts ==
  /\ src = None /\ consented = None /\ pause = None /\ journal = None /\ cursor = None /\ groups = None
  /\ reset = None /\ hint = None /\ command = None /\ worker = None /\ store = None /\ arrived = None
  /\ straddled = None
NoEvents ==
  /\ paused = None /\ files = None /\ clock = None /\ meta = None /\ poison = None /\ work = None
  /\ purge = None /\ received = None /\ written = None /\ late = None /\ expired = None /\ tries = None
  /\ spent = None /\ promised = None

PartsInit ==
  /\ Init
  /\ \/ part = "handoff"     /\ NoMonitor /\ NoQueue /\ NoTranscripts /\ NoEvents
     \/ part = "monitor"     /\ M!Init /\ NoQueue /\ NoTranscripts /\ NoEvents
     \/ part = "transcripts" /\ T!Init /\ NoMonitor /\ NoEvents
     \/ part = "events"      /\ E!Init /\ NoMonitor /\ NoTranscripts

Handoff     == part = "handoff"     /\ UNCHANGED <<part, MonitorVars, EitherQueue, TranscriptVars, EventVars>>
Monitoring  == part = "monitor"     /\ UNCHANGED <<part, vars, EitherQueue, TranscriptVars, EventVars>>
Transcripts == part = "transcripts" /\ UNCHANGED <<part, vars, MonitorVars, EventVars>>
Events      == part = "events"      /\ UNCHANGED <<part, vars, MonitorVars, TranscriptVars>>

PartsNext ==
  \/ Handoff /\ Next
  \/ Monitoring /\ M!Next
  \/ Transcripts /\ T!Next
  \/ Events /\ E!Next

PartsSpec == PartsInit /\ [][PartsNext]_AllVars

\* What a process must go on with: the fairness of each part.  Only one part moves, so
\* a process of one part stands for one of each.
Works(p) ==
  \/ Handoff /\ ((p \in Hook /\ HookStep(p)) \/ (p \in Drain /\ DrainStep(p)))
  \/ Monitoring /\ \/ p \in {p1, p2} /\ (M!Launch(p) \/ M!ClaimEmpty(p) \/ M!Claim(p))
                   \/ p \in {q1, q2} /\ M!MonitorStep(p)
  \/ Transcripts /\ \/ p = p1 /\ (T!CommandPurge \/ T!CommandObserve)
                    \/ p = p3 /\ T!HookObserve(p)
                    \/ p \in {q1, q2} /\ (T!DrainStep(p) \/ (T!DrainStart(p) /\ T!Alone))
  \/ Events /\ \/ p = p1 /\ E!HookStep(p)
               \/ p = p2 /\ E!PurgeStep
               \/ p = p3 /\ E!WorkStep(p)

\* What is done however often something else comes first.
Returns(t) ==
  \/ Monitoring /\ ((t = 1 /\ M!Wake(q1)) \/ (t = 2 /\ M!Wake(q2)))
  \/ Events /\ E!Take(p3, t)

\* Every step of these changes one of:
Moves == <<hook, drain, start, monitor, queueHook, command, worker, work, purge>>

\* Drains of the transcript queue come one after another.
PartsFairSpec ==
  /\ PartsInit
  /\ [][PartsNext /\ (part = "transcripts" => T!Alone)]_AllVars
  /\ \A p \in {p1, p2, p3, q1, q2} : WF_Moves(Works(p))
  /\ \A t \in E!Times : SF_Moves(Returns(t))

-----------------------------------------------------------------------------
(* The parts' properties.                                                    *)

\* Every state of each part is well typed.
Types ==
  /\ TypeOK
  /\ part = "monitor" => M!TypeOK
  /\ part = "transcripts" => T!TypeOK
  /\ part = "events" => E!TypeOK

\* A monitor stands down only when another goes on (retry_daemon.js).
LeavesAnother == [][part = "monitor" => M!StandsDownForAnother]_AllVars

\* In the end everything a hook queued has been tried, but for the exceptions of the
\* handoff (logger.js, drain_once.js); what waits while a monitor runs leaves the queues, and
\* one monitor is left at most (retry_daemon.js); what a hook observed and asked to capture
\* has arrived (transcript-delta.js); and no batch with rows that may be sent stays
\* (logger.js, processLockedBatch).
WorkGetsDone ==
  /\ <>[]CASE part = "handoff"     -> EverythingTried
           [] part = "monitor"     -> M!OneStays
           [] part = "transcripts" -> T!Delivered
           [] part = "events"      -> E!NothingStays
  /\ part = "monitor" /\ M!Attended ~> part = "monitor" /\ M!Relieved
=============================================================================
