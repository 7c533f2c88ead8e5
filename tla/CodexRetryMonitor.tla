-------------------------- MODULE CodexRetryMonitor --------------------------
(***************************************************************************)
(* The retry monitor of the Codex client (monitors/retry_daemon.js and the   *)
(* heartbeat of logger.js).  A session start that sees no live heartbeat     *)
(* launches a detached monitor and claims the heartbeat for it.  A monitor   *)
(* sweeps the queues at intervals: it stands down when the heartbeat names   *)
(* another process, else it refreshes it, tries what is queued, and ends     *)
(* after some idle sweeps or a maximum lifetime.  The heartbeat is a plain   *)
(* file: it is read, written and unlinked without a lock, and writing it     *)
(* empties it first.                                                         *)
(***************************************************************************)
EXTENDS Naturals

CONSTANTS
  Start,      \* session starts
  Monitor,    \* monitor processes
  None,
  MaxIdle,    \* MAX_IDLE_SWEEPS
  MaxStale,   \* times a heartbeat is not refreshed for five minutes
  MaxEnds,    \* monitors killed, signalled or at the end of their lifetime
  MaxFailed,  \* sweeps whose uploads fail
  MaxOverlap  \* times a monitor looks while another is about to refresh

\* What the constants are: a monitor ends after at least one idle sweep.
Constants ==
  /\ None \notin Monitor
  /\ MaxIdle \in Nat \ {0} /\ MaxStale \in Nat /\ MaxEnds \in Nat /\ MaxFailed \in Nat /\ MaxOverlap \in Nat

VARIABLES
  beat,       \* heartbeat: [pid, stale], pid None when the file is missing or empty
  start,      \* what each session start is doing, and the child it launched
  monitor,    \* what each monitor is doing, its idle sweeps, and (history) how many of
              \* its last sweeps began with nothing queued
  backlog,    \* something waits in the queues
  stales, ends, failed, overlaps

vars == <<beat, start, monitor, backlog, stales, ends, failed, overlaps>>

StartPC   == {"idle", "spawn", "empty", "claim", "done"}
MonitorPC == {"absent", "empty", "boot", "wait", "refresh", "write", "sweep", "decide",
              "clear", "unlink", "gone"}

Init ==
  /\ beat = [pid |-> None, stale |-> FALSE]
  /\ start = [s \in Start |-> [pc |-> "idle", child |-> None]]
  /\ monitor = [m \in Monitor |-> [pc |-> "absent", idle |-> 0, quiet |-> 0]]
  /\ backlog \in BOOLEAN
  /\ stales = 0 /\ ends = 0 /\ failed = 0 /\ overlaps = 0

At(m, pc)   == monitor[m].pc = pc
Step(m, pc) == monitor' = [monitor EXCEPT ![m].pc = pc]
Live(m)     == monitor[m].pc \notin {"absent", "gone"}
Empty       == beat' = [pid |-> None, stale |-> FALSE]
Beat(m)     == beat' = [pid |-> m, stale |-> FALSE]

-----------------------------------------------------------------------------
(* Session starts.                                                           *)

\* isRetryDaemonRunning.
Running == beat.pid # None /\ ~ beat.stale /\ Live(beat.pid)

Check(s) ==
  /\ start[s].pc = "idle"
  /\ start' = [start EXCEPT ![s].pc = IF Running THEN "done" ELSE "spawn"]
  /\ UNCHANGED <<beat, monitor, backlog, stales, ends, failed, overlaps>>

\* spawnRetryDaemon launches a child, or it does not start ...
Launch(s) ==
  /\ start[s].pc = "spawn"
  /\ \/ \E m \in Monitor :
          /\ At(m, "absent") /\ Step(m, "empty")
          /\ start' = [start EXCEPT ![s] = [pc |-> "empty", child |-> m]]
     \/ start' = [start EXCEPT ![s].pc = "done"] /\ UNCHANGED monitor
  /\ UNCHANGED <<beat, backlog, stales, ends, failed, overlaps>>

\* ... and the heartbeat is written for it.
ClaimEmpty(s) ==
  /\ start[s].pc = "empty"
  /\ start' = [start EXCEPT ![s].pc = "claim"]
  /\ Empty
  /\ UNCHANGED <<monitor, backlog, stales, ends, failed, overlaps>>

Claim(s) ==
  /\ start[s].pc = "claim"
  /\ start' = [start EXCEPT ![s].pc = "done"]
  /\ Beat(start[s].child)
  /\ UNCHANGED <<monitor, backlog, stales, ends, failed, overlaps>>

\* The hook is killed between the launch and the claim.
CrashStart(s) ==
  /\ start[s].pc \in {"spawn", "empty", "claim"} /\ ends < MaxEnds
  /\ start' = [start EXCEPT ![s].pc = "done"]
  /\ ends' = ends + 1
  /\ UNCHANGED <<beat, monitor, backlog, stales, failed, overlaps>>

-----------------------------------------------------------------------------
(* Monitors.                                                                 *)

\* main and sweep write the heartbeat: the file is emptied and then filled.
Refresh(m) ==
  /\ \/ At(m, "empty")   /\ Step(m, "boot")  /\ Empty
     \/ At(m, "boot")    /\ Step(m, "wait")  /\ Beat(m)
     \/ At(m, "refresh") /\ Step(m, "write") /\ Empty
     \/ At(m, "write")   /\ Step(m, "sweep") /\ Beat(m)
  /\ UNCHANGED <<start, backlog, stales, ends, failed, overlaps>>

\* sweep begins: does the heartbeat still name this monitor?  The initial delay of
\* a minute outlasts the session start that launched it (its timeout is ten seconds).
Owns(m) == beat.pid = m

Refreshing(m) == \E n \in Monitor \ {m} : monitor[n].pc \in {"refresh", "write"}

\* Mutant of Wake: nobody stands down.
Wake_Always(m) ==
  /\ At(m, "wait")
  /\ overlaps' = overlaps + (IF Refreshing(m) THEN 1 ELSE 0) /\ overlaps' <= MaxOverlap
  /\ Step(m, "refresh")
  /\ UNCHANGED <<beat, start, backlog, stales, ends, failed>>

Wake(m) ==
  /\ At(m, "wait")
  /\ \A s \in Start : start[s].child = m => start[s].pc = "done"
  /\ overlaps' = overlaps + (IF Refreshing(m) THEN 1 ELSE 0) /\ overlaps' <= MaxOverlap
  /\ Step(m, IF Owns(m) THEN "refresh" ELSE "clear")
  /\ UNCHANGED <<beat, start, backlog, stales, ends, failed>>

\* drainQueuesOnce: what waits is sent, or its upload fails.  The sweep counts what
\* it found, whether or not it was sent.
Swept(m, idle) ==
  monitor' = [monitor EXCEPT ![m] =
                [pc |-> "decide", idle |-> idle, quiet |-> IF backlog THEN 0 ELSE @.quiet + 1]]

\* Mutant of Sweep: acknowledged uploads are counted instead of found ones.
Sweep_CountSent(m) ==
  /\ At(m, "sweep")
  /\ \/ /\ backlog' = FALSE /\ UNCHANGED failed
        /\ Swept(m, IF backlog THEN 0 ELSE monitor[m].idle + 1)
     \/ /\ backlog /\ failed < MaxFailed /\ failed' = failed + 1 /\ UNCHANGED backlog
        /\ Swept(m, monitor[m].idle + 1)
  /\ UNCHANGED <<beat, start, stales, ends, overlaps>>

Sweep(m) ==
  /\ At(m, "sweep")
  /\ Swept(m, IF backlog THEN 0 ELSE monitor[m].idle + 1)
  /\ \/ backlog' = FALSE /\ UNCHANGED failed
     \/ backlog /\ failed < MaxFailed /\ failed' = failed + 1 /\ UNCHANGED backlog
  /\ UNCHANGED <<beat, start, stales, ends, overlaps>>

\* Mutant of Decide: one idle sweep more.
Decide_Late(m) ==
  /\ At(m, "decide")
  /\ Step(m, IF monitor[m].idle > MaxIdle THEN "clear" ELSE "wait")
  /\ UNCHANGED <<beat, start, backlog, stales, ends, failed, overlaps>>

\* The loop of main: end of the lifetime, too many idle sweeps, or another interval.
Decide(m) ==
  /\ At(m, "decide")
  /\ \/ ends < MaxEnds /\ ends' = ends + 1 /\ Step(m, "clear")
     \/ Step(m, IF monitor[m].idle >= MaxIdle THEN "clear" ELSE "wait") /\ UNCHANGED ends
  /\ UNCHANGED <<beat, start, backlog, stales, failed, overlaps>>

\* Mutant of Clear: whoever ends removes the heartbeat.
Clear_Any(m) ==
  /\ At(m, "clear")
  /\ Step(m, "unlink")
  /\ UNCHANGED <<beat, start, backlog, stales, ends, failed, overlaps>>

\* clearRetryDaemonLock: an own heartbeat is unlinked.
Clear(m) ==
  /\ At(m, "clear")
  /\ Step(m, IF Owns(m) THEN "unlink" ELSE "gone")
  /\ UNCHANGED <<beat, start, backlog, stales, ends, failed, overlaps>>

Unlink(m) ==
  /\ At(m, "unlink")
  /\ Step(m, "gone")
  /\ Empty
  /\ UNCHANGED <<start, backlog, stales, ends, failed, overlaps>>

\* SIGTERM and SIGINT reach the handler while the monitor awaits something.
Signal(m) ==
  /\ monitor[m].pc \in {"wait", "sweep"} /\ ends < MaxEnds
  /\ Step(m, "clear")
  /\ ends' = ends + 1
  /\ UNCHANGED <<beat, start, backlog, stales, failed, overlaps>>

Crash(m) ==
  /\ Live(m) /\ ends < MaxEnds
  /\ Step(m, "gone")
  /\ ends' = ends + 1
  /\ UNCHANGED <<beat, start, backlog, stales, failed, overlaps>>

-----------------------------------------------------------------------------
(* Surroundings.                                                             *)

\* Five minutes without a refresh: a long sweep, or a machine asleep.
Age ==
  /\ beat.pid # None /\ ~ beat.stale /\ stales < MaxStale
  /\ beat' = [beat EXCEPT !.stale = TRUE]
  /\ stales' = stales + 1
  /\ UNCHANGED <<start, monitor, backlog, ends, failed, overlaps>>

\* A hook queues something while a session runs.
Arrive ==
  /\ ~ backlog
  /\ backlog' = TRUE
  /\ UNCHANGED <<beat, start, monitor, stales, ends, failed, overlaps>>

StartStep(s) == Check(s) \/ Launch(s) \/ ClaimEmpty(s) \/ Claim(s)

MonitorStep(m) ==
  Refresh(m) \/ Wake(m) \/ Sweep(m) \/ Decide(m) \/ Clear(m) \/ Unlink(m)

Next ==
  \/ \E s \in Start : StartStep(s) \/ CrashStart(s)
  \/ \E m \in Monitor : MonitorStep(m) \/ Signal(m) \/ Crash(m)
  \/ Age \/ Arrive

Spec == Init /\ [][Next]_vars

\* A process that was started goes on; sessions need not start.
Fairness ==
  /\ \A s \in Start : WF_vars(Launch(s) \/ ClaimEmpty(s) \/ Claim(s))
  /\ \A m \in Monitor : WF_vars(MonitorStep(m)) /\ SF_vars(Wake(m))
FairSpec == Spec /\ Fairness

-----------------------------------------------------------------------------
(* Properties.                                                               *)

TypeOK ==
  /\ beat \in [pid : Monitor \cup {None}, stale : BOOLEAN]
  /\ start \in [Start -> [pc : StartPC, child : Monitor \cup {None}]]
  /\ monitor \in [Monitor -> [pc : MonitorPC, idle : 0 .. MaxIdle, quiet : 0 .. MaxIdle]]
  /\ backlog \in BOOLEAN
  /\ stales \in 0 .. MaxStale /\ ends \in 0 .. MaxEnds /\ failed \in 0 .. MaxFailed /\ overlaps \in 0 .. MaxOverlap

\* Some monitor found nothing to do for MaxIdle sweeps.
IdledOut == \E m \in Monitor : At(m, "gone") /\ monitor[m].quiet = MaxIdle

\* A monitor that stands down for another leaves one behind: session starts that
\* race, heartbeats that went stale and half-written heartbeats never make all
\* monitors go, unless one was killed, signalled or too old, or another ended idle
\* just then and took the heartbeat with it (retry_daemon.js:60).
StandsDownForAnother ==
  \A m \in Monitor : At(m, "wait") /\ At(m, "clear")' =>
    ends' > 0 \/ IdledOut \/ \E n \in Monitor \ {m} : Live(n)

\* In the end one monitor is left at most: all others stand down or end.
OneStays == \A m, n \in Monitor : Live(m) /\ Live(n) => m = n

\* What waits while a monitor runs leaves the queues, also after an outage that
\* outlasts MaxIdle sweeps, with the same exceptions (drainPendingTranscripts counts
\* what it finds, so that an outage does not look like an idle queue, logger.js:1124).
Attended == backlog /\ \E m \in Monitor : Live(m)
Relieved == ~ backlog \/ ends > 0 \/ IdledOut
BacklogLeaves == Attended ~> Relieved
=============================================================================
