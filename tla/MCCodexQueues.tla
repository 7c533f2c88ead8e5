---------------------------- MODULE MCCodexQueues ----------------------------
(***************************************************************************)
(* The two queues of the Codex client for TLC, with two drains or workers and  *)
(* one mishap or another: a transcript, and the event logs.  They share no     *)
(* file, so a behaviour begins by choosing one.  Variables of the event queue  *)
(* are None next to the other; those of the transcript queue keep their        *)
(* initial values.                                                          *)
(***************************************************************************)
EXTENDS CodexTranscriptQueue, TLC

CONSTANTS p1, p2, p3, q1, q2

VARIABLES
  part,
  \* of the event queue
  paused, files, clock, meta, poison, work, purge, received, written, late, expired, tries, spent, promised,
  eventRepo, eventRevoked, eventLock, eventHook, eventLeft

\* Records, replacements, consent changes, pauses, hooks, drains, crashes, losses,
\* unanswered posts, and STAGE_BYTES in records.
Limits(r, rp, c, p, h, n, k, l, u, s) ==
  "records" :> r @@ "replaced" :> rp @@ "consents" :> c @@ "pauses" :> p @@ "hooks" :> h @@
  "drains" :> n @@ "crashes" :> k @@ "losses" :> l @@ "unanswered" :> u @@ "slice" :> s

TranscriptRaces ==
  { Limits(2,1,0,0,1,2,1,0,0,2), \* a replaced source, two drains, a crash
    Limits(2,0,0,0,1,2,1,0,0,1), \* small batches and a crash
    Limits(3,0,0,0,2,2,0,0,0,1), \* several batches, two drains
    Limits(2,0,0,0,2,2,0,1,1,2), \* a lost object and a lost answer
    Limits(2,0,2,0,1,1,0,0,0,2), \* consent off and on
    Limits(2,0,0,2,2,1,0,0,0,2), \* pause and resume
    Limits(1,0,1,0,1,2,1,0,0,2), \* consent changes, a drain dies
    Limits(3,1,0,0,2,1,0,1,0,2) }\* a replaced source and a lost object

Rows(n) ==
  [b \in {"rows", "seals", "ticks", "scopes", "consents", "locals", "pauses", "signouts", "failures", "rejections",
          "crashes", "ages", "reconciles"} |-> IF b = "rows" THEN n ELSE 0]

EventRaces ==
  { "crashes" :> 1 @@ "failures" :> 1 @@ "ticks" :> 1 @@ Rows(2),
    "crashes" :> 1 @@ "failures" :> 1 @@ "consents" :> 1 @@ Rows(2),
    "crashes" :> 1 @@ "locals" :> 1 @@ Rows(2),
    "seals" :> 1 @@ "ages" :> 1 @@ "pauses" :> 1 @@ Rows(2),
    "scopes" :> 2 @@ "failures" :> 2 @@ Rows(2),
    "consents" :> 1 @@ "signouts" :> 1 @@ Rows(2),
    "consents" :> 1 @@ "reconciles" :> 1 @@ Rows(2),
    "scopes" :> 1 @@ "crashes" :> 2 @@ "rejections" :> 1 @@ Rows(2) }

\* What the theorems about the queues assume holds of the instance.
ASSUME TranscriptConstants == Constants

E == INSTANCE CodexEventQueue WITH
       Repo <- {q1, q2}, Hook <- {p1, p2}, Worker <- {p3}, MaxRetries <- 2, MaxTime <- 4, MaxFiles <- 5,
       Scenarios <- EventRaces,
       repo <- eventRepo, revoked <- eventRevoked, lock <- eventLock, hook <- eventHook, left <- eventLeft,
       slipped <- late

ASSUME EventConstants == E!Constants

EventVars ==
  <<paused, files, clock, meta, poison, work, purge, received, written, late, expired, tries, spent, promised,
    eventRepo, eventRevoked, eventLock, eventHook, eventLeft>>
AllVars == <<part, vars, EventVars>>

NoEvents ==
  /\ paused = None /\ files = None /\ clock = None /\ meta = None /\ poison = None /\ work = None
  /\ purge = None /\ received = None /\ written = None /\ late = None /\ expired = None /\ tries = None
  /\ spent = None /\ promised = None /\ eventRepo = None /\ eventRevoked = None /\ eventLock = None
  /\ eventHook = None /\ eventLeft = None

\* The transcript queue as it stands while the other moves.
Resting == Init /\ left = CHOOSE s \in Scenarios : TRUE

QueuesInit ==
  \/ part = "transcripts" /\ Init /\ NoEvents
  \/ part = "events" /\ Resting /\ E!Init

QueuesNext ==
  \/ part = "transcripts" /\ Next /\ UNCHANGED <<part, EventVars>>
  \/ part = "events" /\ E!Next /\ UNCHANGED <<part, vars>>

QueuesSpec == QueuesInit /\ [][QueuesNext]_AllVars

\* p1 and p2 are hooks, q1 and q2 drains or repositories.
Symmetry == Permutations({p1, p2}) \cup Permutations({q1, q2})

-----------------------------------------------------------------------------
(* Properties of the event queue, and what holds of either all the time.      *)

\* A record stands once in the collector's object, a sequence number for one line, and
\* chunks arrive in the order of their numbers (stage, drainDirectory).
StoredOnceInOrder == [][ArrivesInOrder /\ (StoredOnce /\ NumbersUnique)']_AllVars

\* A recorded row waits, has arrived, or was deleted on purpose, and is given up on for its
\* own failures only (logger.js, processLockedBatch).
RowsKept == part = "events" => E!RowsKept

\* A complete purge leaves nothing of what it covers, and no upload under way brings it to
\* the collector (purgeUnsentTelemetry).
PurgeIsFinal == [][part = "events" => E!ArrivesUnpurged /\ E!PurgeMeansGone']_AllVars
=============================================================================
