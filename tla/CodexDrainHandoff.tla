--------------------------- MODULE CodexDrainHandoff ---------------------------
(***************************************************************************)
(* How Codex hooks wake a drain (logger.js, drain_once.js).                  *)
(*                                                                         *)
(* A hook queues what it recorded, writes a request with a fresh id, and     *)
(* starts a detached drain unless the request is already served or a drain   *)
(* is at work.  A drain works under a lock; it reads the request, tries      *)
(* everything queued, records the request as completed, gives the lock up    *)
(* and looks for a newer request.  One step is one file read, write, rename  *)
(* or unlink.  The lock is transcript-delta.js's: an exclusive file that is  *)
(* taken over from a dead owner, one step here.                              *)
(***************************************************************************)
EXTENDS Naturals, FiniteSets

CONSTANTS
  Hook,       \* hooks; each queues one item and asks for a drain
  Drain,      \* places for drain processes
  None,
  MaxCrashes, \* drains and hooks that are killed
  MaxFaults   \* children that do not start, completions that cannot be written

ASSUME NoneAssumption == None \notin Hook \cup Drain
ASSUME HooksAssumption == IsFiniteSet(Hook) /\ Hook \cap Drain = {}
ASSUME BoundsAssumption == MaxCrashes \in Nat /\ MaxFaults \in Nat

VARIABLES
  queued,     \* items in the queues
  tried,      \* items a drain has tried to upload since they were queued
  request,    \* drain-once request file: an id, 0 when there is none
  completed,  \* drain-once completion file
  lock,       \* owner of the drain lock, or None
  hook,       \* what each hook is doing, and the request it read
  drain,      \* the same of each drain, with the request it serves
  covers,     \* history: what was queued when each request was written
  slipped,    \* history: requests that a drain without work left behind
  crashes, faults

vars == <<queued, tried, request, completed, lock, hook, drain, covers, slipped, crashes, faults>>

Files == <<queued, tried, request, completed, lock, covers>>

HookPC  == {"idle", "request", "look", "compare", "probe", "spawn", "done", "dead"}
DrainPC == {"absent", "acquire", "read", "check", "quit", "sweep", "finish", "release", "throw",
            "recheck", "look", "compare", "probe", "spawn", "dead"}

\* States in which a drain owns the lock.
Working == {"read", "check", "quit", "sweep", "finish", "release", "throw"}

Init ==
  /\ queued = {} /\ tried = {}
  /\ request = 0 /\ completed = 0 /\ lock = None
  /\ hook = [h \in Hook |-> [pc |-> "idle", seen |-> 0]]
  /\ drain = [d \in Drain |-> [pc |-> "absent", run |-> 0, seen |-> 0]]
  /\ covers = [r \in {0} |-> {}]
  /\ slipped = {} /\ crashes = 0 /\ faults = 0

At(d, pc) == drain[d].pc = pc
Go(d, pc) == drain' = [drain EXCEPT ![d].pc = pc]

\* isProcessAlive of the lock's owner.
Alive(d) == drain[d].pc # "dead"
Busy     == lock # None /\ Alive(lock)

-----------------------------------------------------------------------------
(* Hooks.                                                                    *)

\* sealFinalSessionArtifacts, runHook: something is queued ...
Enqueue(h) ==
  /\ hook[h].pc = "idle"
  /\ hook' = [hook EXCEPT ![h].pc = "request"]
  /\ queued' = queued \cup {h}
  /\ UNCHANGED <<tried, request, completed, lock, drain, covers, slipped, crashes, faults>>

\* Mutant of WriteRequest: a request is left out while a drain is at work.
WriteRequest_Coalesced(h) ==
  /\ hook[h].pc = "request"
  /\ IF Busy THEN /\ hook' = [hook EXCEPT ![h].pc = "done"]
                  /\ UNCHANGED <<request, covers>>
     ELSE LET r == Cardinality(DOMAIN covers) IN
          /\ hook' = [hook EXCEPT ![h].pc = "look"]
          /\ request' = r
          /\ covers' = [i \in DOMAIN covers \cup {r} |-> IF i = r THEN queued ELSE covers[i]]
  /\ UNCHANGED <<queued, tried, completed, lock, drain, slipped, crashes, faults>>

\* ... and spawnDetachedDrain writes a request, also when a drain is at work.
WriteRequest(h) ==
  /\ hook[h].pc = "request"
  /\ hook' = [hook EXCEPT ![h].pc = "look"]
  /\ LET r == Cardinality(DOMAIN covers) IN
     /\ request' = r
     /\ covers' = [i \in DOMAIN covers \cup {r} |-> IF i = r THEN queued ELSE covers[i]]
  /\ UNCHANGED <<queued, tried, completed, lock, drain, slipped, crashes, faults>>

\* shouldSpawnDrainOnce, of a hook or of a drain that ends: the request, ...
HookLook(h) ==
  /\ hook[h].pc = "look"
  /\ hook' = [hook EXCEPT ![h] = [pc |-> "compare", seen |-> request]]
  /\ UNCHANGED <<Files, drain, slipped, crashes, faults>>

\* ... whether it is served, ...
HookCompare(h) ==
  /\ hook[h].pc = "compare"
  /\ hook' = [hook EXCEPT ![h].pc =
                IF hook[h].seen # 0 /\ hook[h].seen = completed THEN "done" ELSE "probe"]
  /\ UNCHANGED <<Files, drain, slipped, crashes, faults>>

\* ... and whether the owner of the lock lives.
HookProbe(h) ==
  /\ hook[h].pc = "probe"
  /\ hook' = [hook EXCEPT ![h].pc = IF Busy THEN "done" ELSE "spawn"]
  /\ UNCHANGED <<Files, drain, slipped, crashes, faults>>

Child(d) == Go(d, "acquire")

\* Mutant of HookSpawn: when no child starts the hook takes the lock and drains itself.
HookSpawn_Inline(h) ==
  /\ hook[h].pc = "spawn"
  /\ hook' = [hook EXCEPT ![h].pc = "done"]
  /\ \/ \E d \in Drain : At(d, "absent") /\ Child(d) /\ UNCHANGED <<faults, lock, tried>>
     \/ faults < MaxFaults /\ faults' = faults + 1 /\ lock' = h /\ tried' = tried \cup queued /\ UNCHANGED drain
  /\ UNCHANGED <<queued, request, completed, covers, slipped, crashes>>

\* startDetachedDrain: the child runs drain_once.js --requested, or does not start.
HookSpawn(h) ==
  /\ hook[h].pc = "spawn"
  /\ hook' = [hook EXCEPT ![h].pc = "done"]
  /\ \/ \E d \in Drain : At(d, "absent") /\ Child(d) /\ UNCHANGED faults
     \/ faults < MaxFaults /\ faults' = faults + 1 /\ UNCHANGED drain
  /\ UNCHANGED <<Files, slipped, crashes>>

CrashHook(h) ==
  /\ hook[h].pc \notin {"idle", "done", "dead"} /\ crashes < MaxCrashes
  /\ hook' = [hook EXCEPT ![h].pc = "dead"]
  /\ crashes' = crashes + 1
  /\ UNCHANGED <<Files, drain, slipped, faults>>

-----------------------------------------------------------------------------
(* Drains.                                                                   *)

\* Mutant of Acquire: the lock is not looked at.
Acquire_Shared(d) ==
  /\ At(d, "acquire")
  /\ Go(d, "read") /\ lock' = d
  /\ UNCHANGED <<queued, tried, request, completed, covers, hook, slipped, crashes, faults>>

\* beginDrainOnce: acquireLock takes a free lock or a dead owner's, ...
Acquire(d) ==
  /\ At(d, "acquire")
  /\ IF Busy THEN Go(d, "absent") /\ UNCHANGED lock
     ELSE Go(d, "read") /\ lock' = d
  /\ UNCHANGED <<queued, tried, request, completed, covers, hook, slipped, crashes, faults>>

\* ... the request is read under it, ...
ReadRequest(d) ==
  /\ At(d, "read")
  /\ drain' = [drain EXCEPT ![d].pc = "check", ![d].run = request]
  /\ UNCHANGED <<Files, hook, slipped, crashes, faults>>

\* ... and a served one leaves nothing to do.
CheckCompleted(d) ==
  /\ At(d, "check")
  /\ Go(d, IF drain[d].run # 0 /\ drain[d].run = completed THEN "quit" ELSE "sweep")
  /\ UNCHANGED <<Files, hook, slipped, crashes, faults>>

\* The lock is given up without another look at the request.
Quit(d) ==
  /\ At(d, "quit")
  /\ lock' = (IF lock = d THEN None ELSE lock)
  /\ Go(d, "absent")
  /\ slipped' = slipped \cup ({request} \ {drain[d].run})
  /\ UNCHANGED <<queued, tried, request, completed, covers, hook, crashes, faults>>

\* drainQueuesOnce lists the queues and tries what it finds; an item is sent or stays.
Sweep(d) ==
  /\ At(d, "sweep")
  /\ tried' = tried \cup queued
  /\ Go(d, "finish")
  /\ UNCHANGED <<queued, request, completed, lock, covers, hook, slipped, crashes, faults>>

\* Mutant of Complete: the request of the moment is recorded instead.
Complete_Latest(d) ==
  /\ At(d, "finish")
  /\ completed' = request
  /\ Go(d, "release")
  /\ UNCHANGED <<queued, tried, request, lock, covers, hook, slipped, crashes, faults>>

\* finishDrainOnce: the request this drain began with is served, whatever was sent, ...
Complete(d) ==
  /\ At(d, "finish")
  /\ \/ /\ completed' = (IF drain[d].run # 0 THEN drain[d].run ELSE completed)
        /\ Go(d, "release") /\ UNCHANGED faults
     \/ /\ faults < MaxFaults /\ faults' = faults + 1
        /\ Go(d, "throw") /\ UNCHANGED completed
  /\ UNCHANGED <<queued, tried, request, lock, covers, hook, slipped, crashes>>

\* ... the lock is given up, ...
Release(d) ==
  /\ drain[d].pc \in {"release", "throw"}
  /\ lock' = (IF lock = d THEN None ELSE lock)
  /\ Go(d, IF At(d, "release") THEN "recheck" ELSE "absent")
  /\ UNCHANGED <<queued, tried, request, completed, covers, hook, slipped, crashes, faults>>

\* Mutant of Recheck: no second look.
Recheck_Never(d) ==
  /\ At(d, "recheck")
  /\ Go(d, "absent")
  /\ UNCHANGED <<Files, hook, slipped, crashes, faults>>

\* ... and a request written meanwhile starts another drain.
Recheck(d) ==
  /\ At(d, "recheck")
  /\ Go(d, IF request # drain[d].run THEN "look" ELSE "absent")
  /\ UNCHANGED <<Files, hook, slipped, crashes, faults>>

DrainLook(d) ==
  /\ At(d, "look")
  /\ drain' = [drain EXCEPT ![d].pc = "compare", ![d].seen = request]
  /\ UNCHANGED <<Files, hook, slipped, crashes, faults>>

DrainCompare(d) ==
  /\ At(d, "compare")
  /\ Go(d, IF drain[d].seen # 0 /\ drain[d].seen = completed THEN "absent" ELSE "probe")
  /\ UNCHANGED <<Files, hook, slipped, crashes, faults>>

DrainProbe(d) ==
  /\ At(d, "probe")
  /\ Go(d, IF Busy THEN "absent" ELSE "spawn")
  /\ UNCHANGED <<Files, hook, slipped, crashes, faults>>

\* The child takes the place of the drain that ends.
DrainSpawn(d) ==
  /\ At(d, "spawn")
  /\ \/ Child(d) /\ UNCHANGED faults
     \/ faults < MaxFaults /\ faults' = faults + 1 /\ Go(d, "absent")
  /\ UNCHANGED <<Files, hook, slipped, crashes>>

\* A killed drain leaves its lock behind; its pid is not given out again.
CrashDrain(d) ==
  /\ drain[d].pc \notin {"absent", "dead"} /\ crashes < MaxCrashes
  /\ Go(d, "dead")
  /\ crashes' = crashes + 1
  /\ UNCHANGED <<Files, hook, slipped, faults>>

HookStep(h) ==
  \/ WriteRequest(h) \/ HookLook(h) \/ HookCompare(h) \/ HookProbe(h) \/ HookSpawn(h)

DrainStep(d) ==
  \/ Acquire(d) \/ ReadRequest(d) \/ CheckCompleted(d) \/ Quit(d) \/ Sweep(d) \/ Complete(d)
  \/ Release(d) \/ Recheck(d) \/ DrainLook(d) \/ DrainCompare(d) \/ DrainProbe(d) \/ DrainSpawn(d)

Next ==
  \/ \E h \in Hook : Enqueue(h) \/ HookStep(h) \/ CrashHook(h)
  \/ \E d \in Drain : DrainStep(d) \/ CrashDrain(d)

Spec == Init /\ [][Next]_vars

\* Processes that run go on; no hook has to begin.
Fairness == (\A h \in Hook : WF_vars(HookStep(h))) /\ (\A d \in Drain : WF_vars(DrainStep(d)))
FairSpec == Spec /\ Fairness

-----------------------------------------------------------------------------
(* Properties.                                                               *)

TypeOK ==
  /\ queued \subseteq Hook /\ tried \subseteq Hook
  /\ request \in Nat /\ completed \in Nat /\ slipped \subseteq Nat
  /\ lock \in Drain \cup {None}
  /\ hook \in [Hook -> [pc : HookPC, seen : Nat]]
  /\ drain \in [Drain -> [pc : DrainPC, run : Nat, seen : Nat]]
  /\ DOMAIN covers \subseteq Nat /\ IsFiniteSet(DOMAIN covers)
  /\ covers \in [DOMAIN covers -> SUBSET Hook]
  /\ {request, completed, 0} \subseteq DOMAIN covers
  /\ crashes \in Nat /\ faults \in Nat

\* One drain lists and uploads at a time: the request, the sweep and the completion
\* of two drains never mix (beginDrainOnce, logger.js:1191).
OneDrain == \A c, d \in Drain : drain[c].pc \in Working /\ drain[d].pc \in Working => c = d

\* A request is recorded as completed only when everything that was queued before
\* it was written has been tried: a hook that finds its request completed may rely
\* on it (finishDrainOnce, shouldSpawnDrainOnce).
CompletionCovers == covers[completed] \subseteq tried

\* Someone is still going to look at the request.
Awake ==
  \/ \E h \in Hook : hook[h].pc \in {"request", "look", "compare", "probe", "spawn"}
  \/ \E d \in Drain : drain[d].pc \notin {"absent", "dead"}

\* When nobody is awake the last request has been served, unless a process was
\* killed, a child did not start, a completion could not be written, or a drain
\* that had nothing to do gave the lock up past a newer request.
ForgottenOnlyBySlip ==
  ~ Awake /\ crashes = 0 /\ faults = 0 => request = completed \/ request \in slipped

\* One drain works at a time, a request counts as completed when all that it covers was
\* tried, and none is left to nobody (beginDrainOnce, finishDrainOnce, spawnDetachedDrain).
RequestsServed == OneDrain /\ CompletionCovers /\ ForgottenOnlyBySlip

\* What the comment at spawnDetachedDrain promises: with no fault at all, no
\* request is left behind.
NoRequestForgotten ==
  ~ Awake /\ crashes = 0 /\ faults = 0 => request = completed

\* Whatever is queued is tried in the end, without another hook, with the same
\* exceptions.
EverythingTried == queued \subseteq tried \/ crashes > 0 \/ faults > 0 \/ slipped # {}
=============================================================================
