--------------------------- MODULE MCClaudeLiveness ---------------------------
(***************************************************************************)
(* What must eventually happen in the Claude Code client, for TLC: the        *)
(* credential lock, transcript delivery and the history import, each explored *)
(* on its own.  A behaviour begins by choosing the part that moves; the other *)
(* parts' variables are None.                                                *)
(***************************************************************************)
EXTENDS Naturals, Sequences, FiniteSets, TLC

CONSTANTS p1, p2, p3, t1, t2, t3, t4, h1, d1, None

VARIABLES
  part,
  \* of the lock
  published, alive, call, crashes, restarts,
  \* of transcript delivery
  file, cursor, hook, chunks, aside, drain, lock, net, object, refused, expired, hidden, left,
  \* of the history import
  state, judged, tenant, cursors, worker, upload, settler, queue, setAside, acks, result, event,
  accepted, sealed, arrived, dropped, slipped, failures, reports, faults

\* Two processes and the pid of one that died before, four tokens, one crash.
L == INSTANCE CredentialLock WITH
       Pid <- {p1, p2, p3}, Token <- {t1, t2, t3, t4}, Departed <- {p3},
       MaxDepth <- 8, MaxCrashes <- 1, MaxRestarts <- 0

\* Whatever may delay an upload.
DelayLimits ==
  [b \in {"lines", "rewrites", "hides", "imports", "hookCrashes", "sealFailures",
          "cursorFailures", "drainCrashes", "stalls", "withheld", "losses", "refusals",
          "deferrals", "rejections", "expiries"} |->
     CASE b \in {"lines", "refusals"} -> 2
       [] b \in {"drainCrashes", "losses", "deferrals", "rejections", "withheld"} -> 1
       [] OTHER -> 0]

T == INSTANCE TranscriptDelivery WITH
       Hook <- {h1}, Drain <- {d1}, MaxAttempts <- 2, Limits <- DelayLimits

\* One import, whatever may delay it.
ImportLimits ==
  [b \in {"signins", "signouts", "spawns", "crashes", "stalls", "scopes", "reads", "seals", "busy",
          "losses", "setAsides", "deferrals", "expiries", "purges"} |->
     IF b \in {"crashes", "losses", "setAsides"} THEN 1 ELSE 0]

B == INSTANCE BackfillLifecycle WITH
       MaxOffers <- 1, Transcripts <- 2, MaxPrior <- 1, Tenant <- {p1}, Limits <- ImportLimits,
       drain <- upload, chunks <- queue, aside <- setAside, left <- faults

LockVars     == <<published, alive, call, crashes, restarts>>
DeliveryVars == <<file, cursor, hook, chunks, aside, drain, lock, net, object, refused, expired,
                  hidden, left>>

ImportVars   == <<state, judged, tenant, cursors, worker, upload, settler, queue, setAside, acks,
                  result, event, accepted, sealed, arrived, dropped, slipped, failures, reports, faults>>

NoLock     == published = None /\ alive = None /\ call = None /\ crashes = None /\ restarts = None
NoDelivery ==
  /\ file = None /\ cursor = None /\ hook = None /\ chunks = None /\ aside = None /\ drain = None
  /\ lock = None /\ net = None /\ object = None /\ refused = None /\ expired = None
  /\ hidden = None /\ left = None
NoImport ==
  /\ state = None /\ judged = None /\ tenant = None /\ cursors = None /\ worker = None
  /\ upload = None /\ settler = None /\ queue = None /\ setAside = None /\ acks = None
  /\ result = None /\ event = None /\ accepted = None /\ sealed = None /\ arrived = None
  /\ dropped = None /\ slipped = None /\ failures = None /\ reports = None /\ faults = None

PartsInit == \/ part = "lock"     /\ L!Init /\ NoDelivery /\ NoImport
             \/ part = "delivery" /\ T!Init /\ NoLock /\ NoImport
             \/ part = "import"   /\ cursors = {} /\ B!Init /\ NoLock /\ NoDelivery

Locks    == part = "lock"     /\ UNCHANGED <<part, DeliveryVars, ImportVars>>
Delivers == part = "delivery" /\ UNCHANGED <<part, LockVars, ImportVars>>
Imports  == part = "import"   /\ UNCHANGED <<part, LockVars, DeliveryVars>>

PartsNext == \/ (Locks /\ L!Next) \/ (Delivers /\ T!Next) \/ (Imports /\ B!Next)

\* A process that runs goes on and hooks keep asking for the lock; drains keep being
\* spawned at the end of every turn, and commands and hooks keep asking for the import.
Works(p) == \/ Locks /\ (L!Step(p) \/ L!Begin(p))
            \/ p = p1 /\ Delivers /\ T!Upload(d1)
            \/ p = p1 /\ Imports /\ (B!DrainStep \/ B!SettleStep(B!DrainId))
            \/ p = p2 /\ Imports /\ (B!WorkerStep(1) \/ B!SettleStep(1))

\* Time passes for a lock nobody touches, for a chunk that backs off and for a run without
\* a sign of life, which somebody then asks for; a request is answered.
Passes == \/ Delivers /\ (T!LockAges \/ T!BackoffOver)
          \/ Imports /\ ((B!Age /\ UNCHANGED faults) \/ B!Judge \/ B!Demote)

\* Sessions keep starting.
Starts == Imports /\ (B!StartSettles \/ B!SettleStep(B!StartId))

Moves == <<call, drain, lock, chunks, state, judged, worker, upload, settler>>
FairSpec ==
  /\ PartsInit /\ [][PartsNext]_<<part, LockVars, DeliveryVars, ImportVars>>
  /\ WF_Moves(Works(p1)) /\ WF_Moves(Works(p2)) /\ WF_Moves(Passes)
  /\ WF_Moves(Starts)

-----------------------------------------------------------------------------

\* A dead owner's lock does not stay locked, and acquireLock returns (credential-lock.js).
LockMovesOn ==
  /\ \A p \in {p1, p2, p3} : (part = "lock" /\ L!Stranded(p)) ~> (part = "lock" /\ L!Recovered(p))
  /\ \A p \in {p1, p2} : (part = "lock" /\ L!Calling(p)) ~> (part = "lock" /\ L!Returned(p))

\* Every sealed chunk leaves the queue (transfer.js, uploadDeltaChunk).
EveryChunkLeaves ==
  \A i \in 1 .. DelayLimits["lines"] + 2 :
    (part = "delivery" /\ i \in T!Ids(chunks)) ~> (part = "delivery" /\ i \notin T!Ids(chunks))

\* An accepted import ends: its snapshot finishes or is found dead, and what it counted is
\* reported once nothing of it waits (isBackfillRunning, settleBackfillDelivery).
ImportEnds == (part = "import" /\ B!Running(1)) ~> (part = "import" /\ B!Over(1))
=============================================================================
