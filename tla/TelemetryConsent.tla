--------------------------- MODULE TelemetryConsent ---------------------------
(***************************************************************************)
(* Consent in the Claude Code client, and what it does to recorded events    *)
(* (lib/telemetry-store.js, repository-queue.js, repository-telemetry.js,    *)
(* telemetry-policy.js, logger.js, transfer.js, signout.js).                *)
(*                                                                         *)
(* Commands change the consent record under a lock file that ages out, and   *)
(* empty the queues of what they turn off.  Hooks check consent and record   *)
(* an event, Stop hooks seal the event log, drains check again and upload.   *)
(* One organization owns every repository.  Transcript chunks are            *)
(* TranscriptDelivery's, renewal of the license SessionRenewal's; a drain    *)
(* that dies leaves what it had not uploaded, and is left out here.         *)
(***************************************************************************)
EXTENDS Naturals, FiniteSets

CONSTANTS
  Chooser,    \* commands that decide: telemetry, org consent, sign-out
  Hook, Drain,
  Repo, None,
  Decisions,  \* the decisions users make
  Limits      \* how often each thing below may happen

Bounds == {"decisions", "lists", "signouts", "signins", "events",
           "crashes", "stalls", "busy", "failures", "losses"}

ASSUME LimitsAssumption == Limits \in [Bounds -> Nat]

VARIABLES
  policy,   \* the consent record
  lock,     \* its lock file: None, "fresh" or "stale"
  session,  \* the current sign-in, 0 when signed out
  chooser,  \* what each command is doing
  log,      \* each repository's open event log
  sealed,   \* each repository's sealed logs
  hook, drain,
  net,      \* uploads waiting for an answer
  sent,     \* history: events the collector has, and under which sign-in it got them
  under,    \* history: the sign-in each event was recorded under
  void,     \* history: events a finished command had to delete
  off,      \* history: events whose collection was off at some time since
  deleted,  \* history: events deleted unsent
  left      \* the bounds that remain

Record  == <<policy, lock>>
Queue   == <<log, sealed, deleted>>
Senders == <<drain, net, sent>>
vars    == <<Record, session, chooser, Queue, hook, Senders, under, void, off, left>>

C == INSTANCE ConsentDecisions WITH asked <-
       [c \in Chooser |-> IF chooser[c].pc \in {"open", "remove", "read", "write"}
                          THEN chooser[c].ask ELSE None]

ASSUME DecisionsAssumption == Decisions \subseteq C!Decision

Event   == 1 .. Limits["events"]
Idle    == [pc |-> "idle", ask |-> None, base |-> None, sweep |-> [r \in Repo |-> 0], repo |-> None,
            names |-> None, owes |-> {}, seen |-> None, revision |-> 0, act |-> None, todo |-> {}]
IdleHook  == [pc |-> "idle", repo |-> None, session |-> 0]
IdleDrain == [pc |-> "idle", repos |-> {}, sweep |-> 0, back |-> None, repo |-> None,
              names |-> None, todo |-> {}, batch |-> None, session |-> 0]
Names   == [log : BOOLEAN, batches : SUBSET (SUBSET Event)]
Request == [by : Drain, repo : Repo, batch : SUBSET Event, session : Nat]

Spend(k) == left[k] > 0 /\ left' = [left EXCEPT ![k] = @ - 1]
NoFault  == UNCHANGED left

Init ==
  /\ chooser = [c \in Chooser |-> Idle] /\ C!Init
  /\ lock = None /\ session = 1
  /\ log = [r \in Repo |-> {}] /\ sealed = [r \in Repo |-> {}]
  /\ hook = [h \in Hook |-> IdleHook] /\ drain = [d \in Drain |-> IdleDrain]
  /\ net = {} /\ sent = {} /\ under = << >>
  /\ void = {} /\ off = {} /\ deleted = {}
  /\ left = Limits

-----------------------------------------------------------------------------
(* Consent and queues.                                                       *)

Granted(p, r) == p.org = "on" /\ p.repos[r] = "on"

\* isTelemetryTransmissionAllowed, and resolveTelemetryGate for a repository.
Allowed(r) == policy.global = "on" /\ session # 0 /\ Granted(policy, r)

\* Mutant of Disposition: a pause deletes as an OFF does.
Disposition_PauseDeletes(r) ==
  CASE policy.global = "off" \/ ~ Granted(policy, r) -> "delete"
    [] OTHER                                         -> "send"

\* queueDisposition: a pause holds what an OFF decision deletes.
Disposition(r) ==
  CASE policy.global = "off"        -> "pause"
    [] ~ Granted(policy, r)         -> "delete"
    [] OTHER                        -> "send"

Queued(r) == log[r] \cup UNION sealed[r]

\* What clearRepositoryPayloads finds in a queue's directory, ...
Listed(r) == [log |-> log[r] # {}, batches |-> sealed[r]]

\* ... and removes by name.
Erase(r, names) ==
  /\ log' = [log EXCEPT ![r] = IF names.log THEN {} ELSE @]
  /\ sealed' = [sealed EXCEPT ![r] = @ \ names.batches]
  /\ deleted' = deleted \cup (Queued(r) \ (log'[r] \cup UNION sealed'[r]))

-----------------------------------------------------------------------------
(* Commands.                                                                 *)

At(c, pc)        == chooser[c].pc = pc
To(c, r)         == chooser' = [chooser EXCEPT ![c] = r]
Critical         == {"read", "write", "unlock"}
Toggling(c)      == chooser[c].act # None
\* A toggle goes on to its next repository whatever became of this one.
Over(c, r)       == To(c, IF Toggling(c) THEN [r EXCEPT !.pc = "toggle", !.ask = None, !.base = None]
                          ELSE Idle)

\* telemetry, org_telemetry_consent and repository_telemetry onboard.
Decide(c) ==
  /\ At(c, "idle") /\ Spend("decisions")
  /\ \E d \in Decisions : To(c, [Idle EXCEPT !.pc = "open", !.ask =
       [decision |-> d, expected |-> IF d.kind = "onboard" THEN policy.revision ELSE None]])
  /\ UNCHANGED <<Record, session, Queue, hook, Senders, under, void, off>>

\* What a toggle would set each repository to, if it may.
Action(r) ==
  CASE policy.global = "off" \/ session = 0 \/ policy.org # "on" -> None
    [] policy.repos[r] = "on"                                    -> "off"
    [] OTHER                                                     -> "on"

\* repository_telemetry list: the settings, ...
List(c) ==
  /\ At(c, "idle") /\ Spend("lists")
  /\ To(c, [Idle EXCEPT !.pc = "listing", !.seen = [r \in Repo |-> Action(r)]])
  /\ UNCHANGED <<Record, session, Queue, hook, Senders, under, void, off>>

\* ... and then the revision they are shown with.
ListRevision(c) ==
  /\ At(c, "listing")
  /\ To(c, [chooser[c] EXCEPT !.pc = "shown", !.revision = policy.revision])
  /\ UNCHANGED <<Record, session, Queue, hook, Senders, under, void, off>> /\ NoFault

\* repository_telemetry toggle, for what the user picked: it loads the settings
\* again, ...
Select(c) ==
  /\ At(c, "shown")
  /\ \E R \in SUBSET Repo \ {{}} :
       To(c, [chooser[c] EXCEPT !.pc = "confirm", !.todo = R, !.act = [r \in Repo |-> Action(r)]])
  /\ UNCHANGED <<Record, session, Queue, hook, Senders, under, void, off>> /\ NoFault

\* ... and goes on if the revision is still the one that was shown.
Confirm(c) ==
  /\ At(c, "confirm")
  /\ To(c, IF policy.revision = chooser[c].revision THEN [chooser[c] EXCEPT !.pc = "toggle"] ELSE Idle)
  /\ UNCHANGED <<Record, session, Queue, hook, Senders, under, void, off>> /\ NoFault

Toggle(c) ==
  /\ At(c, "toggle")
  /\ LET k == chooser[c] IN
     \/ k.todo = {} /\ To(c, Idle)
     \/ \E r \in k.todo :
          To(c, IF k.act[r] = None THEN [k EXCEPT !.todo = @ \ {r}]
                ELSE [k EXCEPT !.pc = "open", !.todo = @ \ {r}, !.ask =
                        [decision |-> [kind |-> "repository", repos |-> {r}, value |-> k.act[r]],
                         expected |-> k.revision]])
  /\ UNCHANGED <<Record, session, Queue, hook, Senders, under, void, off>> /\ NoFault

\* Mutant of OpenLock: the lock file is not created exclusively.
OpenLock_Shared(c) ==
  /\ At(c, "open")
  /\ lock' = "fresh" /\ To(c, [chooser[c] EXCEPT !.pc = "read"]) /\ NoFault
  /\ UNCHANGED <<policy, session, Queue, hook, Senders, under, void, off>>

\* acquireLock: creates the file, or finds it old, or gives up after 50 tries.
OpenLock(c) ==
  /\ At(c, "open")
  /\ \/ lock = None /\ lock' = "fresh" /\ To(c, [chooser[c] EXCEPT !.pc = "read"]) /\ NoFault
     \/ lock = "stale" /\ UNCHANGED lock /\ To(c, [chooser[c] EXCEPT !.pc = "remove"]) /\ NoFault
     \/ lock # None /\ UNCHANGED lock /\ Over(c, chooser[c]) /\ Spend("busy")
  /\ UNCHANGED <<policy, session, Queue, hook, Senders, under, void, off>>

RemoveLock(c) ==
  /\ At(c, "remove")
  /\ lock' = None /\ To(c, [chooser[c] EXCEPT !.pc = "open"])
  /\ UNCHANGED <<policy, session, Queue, hook, Senders, under, void, off>> /\ NoFault

\* mutatePolicy reads the record and refuses one of another revision.
ReadPolicy(c) ==
  /\ At(c, "read")
  /\ To(c, IF chooser[c].ask.expected \in {None, policy.revision}
           THEN [chooser[c] EXCEPT !.pc = "write", !.base = policy]
           ELSE [chooser[c] EXCEPT !.pc = "unlock"])
  /\ UNCHANGED <<Record, session, Queue, hook, Senders, under, void, off>> /\ NoFault

\* Mutant of Sweeps: an OFF of a repository sweeps every queue.
Sweeps_All(d) == [r \in Repo |-> CASE d.value = "on" -> 0 [] d.kind = "organization" -> 1 [] OTHER -> 2]

\* Mutant of Sweeps: each queue is emptied in one pass.
Sweeps_Once(d) == [r \in Repo |-> IF d.value = "off" /\ (r \in d.repos \/ d.kind = "organization") THEN 1 ELSE 0]

\* How often each repository's queue is emptied: purgeRepositoryQueue does so
\* by path and again by inventory, purgeOrganizationQueues once, a pause never.
Sweeps(d) ==
  [r \in Repo |-> CASE d.value = "on"                -> 0
                    [] d.kind = "organization"       -> 1
                    [] r \in d.repos                 -> 2
                    [] OTHER                         -> 0]

\* Writes the record from what was read.
WritePolicy(c) ==
  /\ At(c, "write")
  /\ LET k == chooser[c]
         s == Sweeps(k.ask.decision)
     IN  /\ policy' = C!Apply(k.ask.decision, k.base)
         /\ off' = off \cup UNION {Queued(r) : r \in {x \in Repo : ~ Granted(policy', x)}}
         /\ To(c, [k EXCEPT !.pc = "unlock", !.sweep = s, !.revision = @ + 1,
                     !.owes = UNION {Queued(r) : r \in {x \in Repo : s[x] > 0}}])
  /\ UNCHANGED <<lock, session, Queue, hook, Senders, under, void>> /\ NoFault

\* withPolicyLock unlinks the file, whoever's it is by now.
Unlock(c) ==
  /\ At(c, "unlock")
  /\ lock' = None /\ To(c, [chooser[c] EXCEPT !.pc = "sweep"])
  /\ UNCHANGED <<policy, session, Queue, hook, Senders, under, void, off>> /\ NoFault

\* Empties the queues of what was turned off, one by one.
Sweep(c) ==
  /\ At(c, "sweep")
  /\ LET k == chooser[c] IN
     \/ /\ \A r \in Repo : k.sweep[r] = 0
        /\ void' = void \cup k.owes /\ Over(c, [k EXCEPT !.owes = {}])
     \/ /\ \E r \in Repo : k.sweep[r] > 0
              /\ To(c, [k EXCEPT !.pc = "erase", !.repo = r, !.names = Listed(r),
                          !.sweep[r] = @ - 1])
        /\ UNCHANGED void
  /\ UNCHANGED <<Record, session, Queue, hook, Senders, under, off>> /\ NoFault

SweepErase(c) ==
  /\ At(c, "erase")
  /\ Erase(chooser[c].repo, chooser[c].names)
  /\ To(c, [chooser[c] EXCEPT !.pc = "sweep", !.repo = None, !.names = None])
  /\ UNCHANGED <<Record, session, hook, Senders, under, void, off>> /\ NoFault

\* signout ends the sign-in and empties every queue.
SignOut(c) ==
  /\ At(c, "idle") /\ session # 0 /\ Spend("signouts")
  /\ session' = 0
  /\ off' = off \cup UNION {Queued(r) : r \in Repo}
  /\ To(c, [Idle EXCEPT !.pc = "sweep", !.sweep = [r \in Repo |-> 1],
              !.owes = UNION {Queued(r) : r \in Repo}])
  /\ UNCHANGED <<Record, Queue, hook, Senders, under, void>>

SignIn ==
  /\ session = 0 /\ Spend("signins")
  /\ session' = 2 + Limits["signins"] - left["signins"]
  /\ UNCHANGED <<Record, chooser, Queue, hook, Senders, under, void, off>>

CrashChooser(c) ==
  /\ ~ At(c, "idle") /\ Spend("crashes")
  /\ To(c, Idle)
  /\ UNCHANGED <<Record, session, Queue, hook, Senders, under, void, off>>

\* Ten seconds: nobody is at work under the lock, or its holder was suspended.
LockAges ==
  /\ lock = "fresh" /\ lock' = "stale"
  /\ \/ (\A c \in Chooser : chooser[c].pc \notin Critical) /\ NoFault
     \/ (\E c \in Chooser : chooser[c].pc \in Critical) /\ Spend("stalls")
  /\ UNCHANGED <<policy, session, chooser, Queue, hook, Senders, under, void, off>>

Update(c) == \/ OpenLock(c) \/ RemoveLock(c) \/ ReadPolicy(c) \/ WritePolicy(c) \/ Unlock(c)
             \/ Sweep(c) \/ SweepErase(c)
Pick(c)   == List(c) \/ ListRevision(c) \/ Select(c) \/ Confirm(c) \/ Toggle(c)

-----------------------------------------------------------------------------
(* Recording.                                                                *)

\* runHook's gate, and logEvent's check of it right before the write.
HookCheck(h) ==
  /\ hook[h].pc = "idle" /\ Spend("events")
  /\ \E r \in Repo : Allowed(r) /\ hook' = [hook EXCEPT ![h] = [pc |-> "append", repo |-> r, session |-> session]]
  /\ UNCHANGED <<Record, session, chooser, Queue, Senders, under, void, off>>

HookAppend(h) ==
  /\ hook[h].pc = "append"
  /\ LET e == Cardinality(DOMAIN under) + 1
         r == hook[h].repo
     IN  /\ log' = [log EXCEPT ![r] = @ \cup {e}]
         /\ under' = [i \in 1 .. e |-> IF i = e THEN hook[h].session ELSE under[i]]
         /\ off' = IF Granted(policy, r) /\ session # 0 THEN off ELSE off \cup {e}
  /\ hook' = [hook EXCEPT ![h] = IdleHook]
  /\ UNCHANGED <<Record, session, chooser, sealed, deleted, Senders, void>> /\ NoFault

\* sealEventLog renames the open log.
Seal(r) ==
  /\ log[r] # {}
  /\ sealed' = [sealed EXCEPT ![r] = @ \cup {log[r]}]
  /\ log' = [log EXCEPT ![r] = {}]
  /\ UNCHANGED <<Record, session, chooser, deleted, hook, Senders, under, void, off>> /\ NoFault

-----------------------------------------------------------------------------
(* Draining.                                                                 *)

DrainAt(d, pc) == drain[d].pc = pc
ToDrain(d, r)  == drain' = [drain EXCEPT ![d] = r]

DrainStart(d) ==
  /\ DrainAt(d, "idle")
  /\ ToDrain(d, [IdleDrain EXCEPT !.pc = "purge", !.repos = Repo])
  /\ UNCHANGED <<Record, session, chooser, Queue, hook, net, sent, under, void, off>> /\ NoFault

\* Mutant of DrainPurge: a queue with nothing but an open log is passed over.
DrainPurge_Sealed(d) ==
  /\ DrainAt(d, "purge") /\ drain[d].repos # {}
  /\ \E r \in drain[d].repos :
       ToDrain(d, IF Disposition(r) = "delete" /\ sealed[r] # {}
                  THEN [drain[d] EXCEPT !.pc = "clear", !.back = "purge", !.sweep = 1,
                          !.repos = @ \ {r}, !.repo = r]
                  ELSE [drain[d] EXCEPT !.repos = @ \ {r}])
  /\ UNCHANGED <<Record, session, chooser, Queue, hook, net, sent, under, void, off>> /\ NoFault

\* purgeDisallowedQueues, one repository after another.
DrainPurge(d) ==
  /\ DrainAt(d, "purge") /\ drain[d].repos # {}
  /\ \E r \in drain[d].repos :
       ToDrain(d, IF Disposition(r) = "delete"
                  THEN [drain[d] EXCEPT !.pc = "clear", !.back = "purge", !.sweep = 1,
                          !.repos = @ \ {r}, !.repo = r]
                  ELSE [drain[d] EXCEPT !.repos = @ \ {r}])
  /\ UNCHANGED <<Record, session, chooser, Queue, hook, net, sent, under, void, off>> /\ NoFault

\* clearRepositoryPayloads, once or twice.
DrainClear(d) ==
  /\ DrainAt(d, "clear")
  /\ LET k == drain[d] IN
     ToDrain(d, IF k.sweep = 0 THEN [k EXCEPT !.pc = k.back, !.back = None, !.repo = None]
                ELSE [k EXCEPT !.pc = "erase", !.sweep = @ - 1, !.names = Listed(k.repo)])
  /\ UNCHANGED <<Record, session, chooser, Queue, hook, net, sent, under, void, off>> /\ NoFault

DrainErase(d) ==
  /\ DrainAt(d, "erase")
  /\ Erase(drain[d].repo, drain[d].names)
  /\ ToDrain(d, [drain[d] EXCEPT !.pc = "clear", !.names = None])
  /\ UNCHANGED <<Record, session, chooser, hook, net, sent, under, void, off>> /\ NoFault

DrainList(d) ==
  /\ DrainAt(d, "purge") /\ drain[d].repos = {}
  /\ ToDrain(d, IF policy.global = "off" THEN IdleDrain
                ELSE [drain[d] EXCEPT !.pc = "next", !.todo = UNION {{r} \X sealed[r] : r \in Repo}])
  /\ UNCHANGED <<Record, session, chooser, Queue, hook, net, sent, under, void, off>> /\ NoFault

\* transferEventLog: checks consent and license, reads the log and ...
Take(d) ==
  /\ DrainAt(d, "next")
  /\ \E f \in drain[d].todo :
       LET r == f[1]
           k == [drain[d] EXCEPT !.todo = @ \ {f}]
       IN  ToDrain(d,
             CASE f[2] \notin sealed[r]       -> k
               [] Disposition(r) = "delete"   ->
                    [k EXCEPT !.pc = "clear", !.back = "next", !.sweep = 2, !.repo = r]
               [] ~ Allowed(r)                -> k
               [] OTHER                       ->
                    [k EXCEPT !.pc = "recheck", !.repo = r, !.batch = f[2], !.session = session])
  /\ UNCHANGED <<Record, session, chooser, Queue, hook, net, sent, under, void, off>> /\ NoFault

\* ... checks again before the request.
Recheck(d) ==
  /\ DrainAt(d, "recheck")
  /\ LET k == drain[d] IN
     /\ net' = IF Disposition(k.repo) = "send" /\ Allowed(k.repo)
               THEN net \cup {[by |-> d, repo |-> k.repo, batch |-> k.batch, session |-> k.session]}
               ELSE net
     /\ ToDrain(d, [k EXCEPT !.pc = "next", !.repo = None, !.batch = None, !.session = 0])
  /\ UNCHANGED <<Record, session, chooser, Queue, hook, sent, under, void, off>> /\ NoFault

\* Accepted, and acknowledged unless the answer is lost; or not accepted.
Answer(m) ==
  /\ \/ /\ sealed' = [sealed EXCEPT ![m.repo] = @ \ {m.batch}]
        /\ sent' = sent \cup {[event |-> e, session |-> m.session] : e \in m.batch} /\ NoFault
     \/ /\ sent' = sent \cup {[event |-> e, session |-> m.session] : e \in m.batch}
        /\ UNCHANGED sealed /\ Spend("losses")
     \/ UNCHANGED <<sealed, sent>> /\ Spend("failures")
  /\ net' = net \ {m}
  /\ UNCHANGED <<Record, session, chooser, log, deleted, hook, drain, under, void, off>>

DrainEnd(d) ==
  /\ DrainAt(d, "next") /\ drain[d].todo = {} /\ \A m \in net : m.by # d
  /\ ToDrain(d, IdleDrain)
  /\ UNCHANGED <<Record, session, chooser, Queue, hook, net, sent, under, void, off>> /\ NoFault

Work(d) == \/ DrainStart(d) \/ DrainPurge(d) \/ DrainClear(d) \/ DrainErase(d) \/ DrainList(d)
           \/ Take(d) \/ Recheck(d) \/ DrainEnd(d)

-----------------------------------------------------------------------------

Next ==
  \/ \E c \in Chooser : Decide(c) \/ Pick(c) \/ Update(c) \/ SignOut(c) \/ CrashChooser(c)
  \/ SignIn \/ LockAges
  \/ \E h \in Hook : HookCheck(h) \/ HookAppend(h)
  \/ \E r \in Repo : Seal(r)
  \/ \E d \in Drain : Work(d)
  \/ \E m \in net : Answer(m)

Spec == Init /\ [][Next]_vars

\* Hooks run on, and a drain is spawned at the end of every turn.
Fairness ==
  /\ \A h \in Hook : WF_vars(HookAppend(h))
  /\ \A d \in Drain : WF_vars(Work(d))
  /\ WF_vars(\E m \in net : Answer(m))
FairSpec == Spec /\ Fairness

-----------------------------------------------------------------------------
(* Properties.                                                               *)

\* Every state is well typed.
TypeOK ==
  /\ policy \in C!Policy /\ lock \in {None, "fresh", "stale"} /\ session \in Nat
  /\ \A c \in Chooser :
       LET k == chooser[c] IN
       /\ k.pc \in {"idle", "listing", "shown", "confirm", "toggle", "sweep", "erase"}
                    \cup {"open", "remove", "read", "write", "unlock"}
       /\ k.pc \in {"open", "remove", "read", "write", "unlock"} =>
            k.ask.decision \in C!Decision /\ k.ask.expected \in Nat \cup {None}
       /\ k.sweep \in [Repo -> 0 .. 2] /\ k.repo \in Repo \cup {None}
       /\ (k.pc = "erase") = (k.names # None)
  /\ log \in [Repo -> SUBSET Event] /\ \A r \in Repo : sealed[r] \subseteq SUBSET Event
  /\ \A d \in Drain : drain[d].pc \in {"idle", "purge", "clear", "erase", "next", "recheck"}
                      /\ drain[d].sweep \in 0 .. 2 /\ drain[d].repo \in Repo \cup {None}
  /\ net \subseteq Request /\ sent \subseteq [event : Event, session : Nat]
  /\ void \cup off \cup deleted \subseteq Event /\ left \in [Bounds -> Nat]

\* Decisions take effect one at a time, each on top of the ones before, however
\* commands interleave on the lock file.
DecisionsInTurn == C!Spec

\* An OFF survives the other decisions made meanwhile: a repository that was
\* turned off comes on again only by a decision about it.
OffSurvives ==
  [][\A r \in Repo : policy.repos[r] = "off" /\ policy'.repos[r] = "on" =>
       \E c \in Chooser : At(c, "write") /\ r \in chooser[c].ask.decision.repos]_vars

\* A repository the user picked from the list switches as the list showed it.
SwitchesAsShown ==
  \A c \in Chooser : At(c, "write") /\ Toggling(c) =>
    \A r \in chooser[c].ask.decision.repos : chooser[c].ask.decision.value = chooser[c].seen[r]

\* When a command that turned a repository off returns, nothing recorded before
\* the decision is queued any more, even if Stop hooks and drains were at work
\* on the queue meanwhile: turning it on again sends none of it.
OffDeletes == \A r \in Repo : Queued(r) \cap void = {}

\* An event is deleted unsent only if its repository was off, or its user signed
\* out, at some time since it was recorded; a pause deletes nothing.
DeletedOnlyByOff == deleted \subseteq off

\* What was recorded under a sign-in is not sent under another one.
StaysWithSignin == \A s \in sent : s.session = under[s.event]

\* The queue of a repository that stays off is emptied, even if the command that
\* turned it off died before it came to that and a hook recorded late.
OffEmptiesQueue ==
  \A r \in Repo : <>[](Disposition(r) = "delete") => <>[](Queued(r) = {})
=============================================================================
