----------------------------- MODULE MCDelivery -----------------------------
(***************************************************************************)
(* The Claude Code queues for TLC, in four scenarios: transcript drains that   *)
(* get in each other's way, staging that fails, staging that is killed or      *)
(* competes, and event queues next to consent decisions.  They share no file,   *)
(* so a behaviour begins by choosing one.  Variables of the others are None,    *)
(* except those of TranscriptDelivery, which keep their initial values.         *)
(***************************************************************************)
EXTENDS TranscriptDelivery, TLC

CONSTANTS h1, d1, d2, d3, c1, c2, r1

VARIABLES
  scenario,
  \* of TelemetryConsent
  policy, consentLock, session, chooser, log, sealed, logHook, logDrain, posts, sent, under,
  void, off, deleted, leftOver

Never == [b \in Bounds |-> 0]

\* Drains that overlap, time out and get every kind of answer, on a transcript
\* that is rewritten.
DrainLimits ==
  [Never EXCEPT !["lines"] = 2, !["rewrites"] = 1, !["stalls"] = 1, !["losses"] = 1,
                !["refusals"] = 1, !["deferrals"] = 1]

\* Of a rewrite, a lost answer, a refusal and a deferral, two happen in one behaviour.
TwoOfThem ==
  Cardinality({b \in {"rewrites", "losses", "refusals", "deferrals"} : left'[b] = 0}) <= 2

\* Staging that cannot write a chunk or the cursor.  (A rewrite as well, between such a
\* failure and the next staging, leaves the lines of the sealed chunks in the object:
\* Mirrors is then violated, see the README.)
FailureLimits == [Never EXCEPT !["lines"] = 3, !["sealFailures"] = 1, !["cursorFailures"] = 1]

\* Staging that is killed, with a period that is not recorded, an import, and chunks
\* nobody could send.
StagingLimits ==
  [Never EXCEPT !["lines"] = 2, !["hides"] = 1, !["imports"] = 1, !["hookCrashes"] = 1,
                !["expiries"] = 1]

Failing == INSTANCE TranscriptDelivery WITH Limits <- FailureLimits, Drain <- {d3}
Staging == INSTANCE TranscriptDelivery WITH Limits <- StagingLimits, Drain <- {d3}

\* Two commands that pause or turn a repository off, events on their way, a drain; one
\* command may die.
Consent == INSTANCE TelemetryConsent WITH
  Chooser <- {c1, c2}, Hook <- {h1}, Drain <- {d1}, Repo <- {r1},
  Decisions <- {[kind |-> "global", repos |-> {}, value |-> "on"],
                [kind |-> "global", repos |-> {}, value |-> "off"],
                [kind |-> "repository", repos |-> {r1}, value |-> "off"]},
  Limits <- [b \in {"decisions", "lists", "signouts", "signins", "events", "crashes", "stalls",
                    "busy", "failures", "losses"} |->
               CASE b \in {"decisions", "events"} -> 2
                 [] b \in {"losses", "crashes"} -> 1
                 [] OTHER -> 0],
  lock <- consentLock, hook <- logHook, drain <- logDrain, net <- posts, left <- leftOver

ConsentVars == <<policy, consentLock, session, chooser, log, sealed, logHook, logDrain, posts,
                 sent, under, void, off, deleted, leftOver>>

NoConsent ==
  /\ policy = None /\ consentLock = None /\ session = None /\ chooser = None /\ log = None
  /\ sealed = None /\ logHook = None /\ logDrain = None /\ posts = None /\ sent = None
  /\ under = None /\ void = None /\ off = None /\ deleted = None /\ leftOver = None

EitherInit == \/ scenario = "drains" /\ Init /\ NoConsent
              \/ scenario = "failing" /\ Failing!Init /\ NoConsent
              \/ scenario = "staging" /\ Staging!Init /\ NoConsent
              \/ scenario = "queues" /\ Init /\ Consent!Init

Transcripts == UNCHANGED <<scenario, ConsentVars>>
EitherNext ==
  \/ scenario = "drains" /\ Transcripts /\ Next /\ TwoOfThem
  \/ scenario = "failing" /\ Transcripts /\ Failing!Next
  \/ scenario = "staging" /\ Transcripts /\ Staging!Next
  \/ scenario = "queues" /\ Consent!Next /\ UNCHANGED <<scenario, vars>>
EitherSpec == EitherInit /\ [][EitherNext]_<<scenario, vars, ConsentVars>>

\* Processes are only compared for equality.
Symmetry == Permutations({d1, d2}) \cup Permutations({c1, c2})

\* Every state is well typed, and the generation a cursor names is one it has numbered
\* (buildChunkPlan: a reset takes the next seq).
Types ==
  /\ CASE scenario = "drains"  -> TypeOK
       [] scenario = "failing" -> Failing!TypeOK
       [] scenario = "staging" -> Staging!TypeOK
       [] scenario = "queues"  -> Consent!TypeOK
  /\ cursor # None => cursor.baseline <= cursor.seq

\* Lines arrive in the order they were written, except where an import brings back earlier
\* lines that a hook had hidden: it does not look at the cursor (stageTranscriptSnapshot).
InLineOrder ==
  CASE scenario \in {"drains", "queues"} -> LinesInOrder
    [] scenario = "failing" -> Failing!LinesInOrder
    [] scenario = "staging" -> left["imports"] = StagingLimits["imports"] => Staging!LinesInOrder

\* A transcript that was staged and delivered to its end is in the collector's object
\* whole, and what is there is in order, unless a chunk was given up on or could not be
\* sealed (uploadInTranscriptOrder); and no chunk carries a baseline that the collector
\* ignores (buildChunkPlan).
MirrorsInOrder == Mirrors /\ InLineOrder /\ NeverIgnored

\* What an OFF covers is gone when its command returns (clearRepositoryPayloads), and
\* nothing is deleted but after an OFF or a sign-out (queueDisposition).
OnlyOffDeletes == scenario = "queues" => Consent!OffDeletes /\ Consent!DeletedOnlyByOff
=============================================================================
