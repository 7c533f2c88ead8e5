# SkillMeter clients: a TLA+ model

SkillMeter records how Claude Code and Codex are used and sends what it recorded to a collector.
Two plugins do it: `clients/claude-code/skillmeter` and `clients/codex/plugins/skillmeter`. Their
scripts are short-lived processes (a hook per event, detached drains that upload, commands a user
runs, an import worker) that share nothing but files under the plugin's data directory. Whatever is
hard about them is therefore concurrency through files: locks that must survive crashes, records read
by one process and changed by another, queues renamed while they are read, and a network between the
queue and the collector.

`shared/lib` is the source of the modules that are copied into both clients (`scripts/lib`, one header
line added); the map names the copies and `shared/lib` where they are the same code. Paths below
are relative to the repository; `claude/` and `codex/` abbreviate the two `scripts/` directories.

## 1. The system

| Component | State it keeps | Operations | Talks to | What is hard | Correct means |
|---|---|---|---|---|---|
| Credential lock (`shared/lib/credential-lock.js`) | one lock file per store, holding `{pid, token}`, published by hard link; one "reaper" lock per dead owner | `acquireLock`, `release`, `stillHeld` | every writer of a credential store, renewals | owners and reapers die at any step; reads and unlinks are separate calls | exclusion; a live owner is never evicted; a dead one always is |
| Credential stores (`store-file.js`, `device-identity.js`, `claude/credstore.js`, `codex/credstore.js`) | `session.json` (license, refresh token, generation, sign-out), device identity | `mutateFile`, `beginSignin`, `commitSignin`, `storeRenewed...`, `signOut` | the lock; renewals, sign-ins, sign-outs | the caller read the session before it waited for the network | no session comes back, no two sign-ins mix |
| Renewal (`license-renewal.js`, `license-exchange.js`, `license-activation.js`, `broker.js`) | `.renew.lock`; the outcome in `license-status.json` | `ensureFresh`, `renewAndRecord` | the broker, which rotates refresh tokens and ends a chain when a spent one returns | lost answers, crashes between answer and write, sign-ins meanwhile | the chain ends only by a loss; the outcome belongs to the session it is recorded for |
| Sign-in and sign-out (`signin-flow.js`, `signin.js`, `signout.js`) | the marker of the sign-in that waits for approval | start, mark, poll, commit, fail; clear, revoke | session, broker | several at once, approved in any order | the last one started wins; marker and status tell the truth |
| License status (`claude/lib/license-status.js`) | `license-status.json` | read, conditional update | renewals, notices | compare and rename are two steps | no update lost |
| Transcript delivery (`claude/lib/transfer.js`, `transcript-delta.js`, `chunk-retry.js`) | cursor per transcript, sealed chunks and sidecars, quarantine, drain lock | stage, seal, move cursor, hide, import; list, upload, defer, set aside, expire | hooks, drains, the collector | crash between seal and cursor, overlapping hooks and drains, late answers, rewritten transcripts | the object at the collector is the transcript: nothing lost, doubled or mixed |
| Consent (`claude/lib/telemetry-store.js`, `repository-telemetry.js`, `telemetry-policy.js`, the telemetry commands) | the consent record with a revision, its lock file | list, toggle, set global / organization / repository, onboard | hooks and drains read it, commands empty queues | a lock that ages out; lists read setting by setting | each decision whole and in turn; OFF deletes what it must, and only OFF does |
| Event queue (`claude/logger.js`, `repository-queue.js`, `drain_once.js`) | one open event log and sealed logs per repository | record, seal, drain, purge | consent, the session, the collector | consent read, then acted on; renames under a reader | what is off is deleted in the end, the rest is sent |
| History import (`claude/lib/backfill-*.js`, `backfill_worker.js`) | offer, progress and delivery record; a log of what was sent | claim, accept, snapshot, finish, upload, settle, announce | transcript queue, tenant, notices | a worker taken for dead goes on; two settlers; another tenant signs in | its chunks reach the tenant that accepted it; reported once, and truly |
| Organization audit queue (`organization-audit-queue.js`, `tenant.js`) | a second queue keyed by tenant | record, drain, purge | session | tenant changes under it | nothing of one tenant sent for another |
| Collection state and notices (`collection-*.js`, `session-status.js`, `banner.js`) | seen marks | resolve, announce | all of the above | reads several files at different moments | the user is told what is so |
| Transcript queue, Codex (`codex/lib/transcript-delta.js`) | state, journal of consent boundaries, batches | stage, observe, recover, drain, purge, reset | hooks, drains, collector | multi-file commits recovered after a crash | no byte recorded while off is sent; each batch once |
| Consent, Codex (`codex/lib/consent-store.js`) | the record and a marker of what was observed | read, mutate, reconcile | hooks | a lock nobody evicts, partial failures | a choice takes effect or is reported as failed |
| Drain handoff and retry monitor, Codex (`codex/logger.js`, `drain_once.js`, `monitors/retry_daemon.js`) | request and completion ids, drain lock, heartbeat | request, begin, finish, hand over; sweep, stand down | every hook | the last hook of a session must not be forgotten | no lost wake-up; one monitor |
| Event queue, Codex (`codex/logger.js`) | logs of rows with their own authorization | append, seal, partition, quarantine, salvage | consent, collector | part of a batch fails | a row is sent at most under its own consent |
| Pure parts (`repo-scope.js`, `harness.js`, sanitizers, tokens, paths, configuration, terminal output) | none | | | | |

`PROJECT.json` lists the same components with their files and what is modelled of each, and under
`hazards` each place where the code can go wrong in a way a test would hardly reach, with the
properties that would notice.

## 2. Modules

```
LockService       <-- implements --  CredentialLock     CredentialLockProofs     MCCredentialLock
     ^ used as renewLock                                                         MCClaudeLiveness
SessionRenewal                                          SessionRenewalProofs     MCSessionRenewal
ConsentDecisions  <-- implements --  TelemetryConsent   TelemetryConsentProofs   MCTelemetryConsent, MCDelivery
TranscriptDelivery                                      TranscriptDeliveryProofs MCDelivery, MCClaudeLiveness
BackfillLifecycle                                       BackfillLifecycleProofs  MCRecords, MCClaudeLiveness
CodexConsent                                            CodexConsentProofs       MCRecords
CodexDrainHandoff                                       CodexLoggerProofs        MCCodex
CodexTranscriptQueue                                    CodexTranscriptQueueProofs  MCCodexQueues, MCCodex
CodexEventQueue                                         CodexLoggerProofs        MCCodexQueues, MCCodex
CodexRetryMonitor                                       CodexLoggerProofs        MCCodex
```

An `MC...` module gives specifications their processes, symmetry and bounds; there is one `.cfg` per
question. Where one MC module holds several specifications, they share no file of the program, so that
interleaving them shows nothing that each of them does not show: a behaviour begins by choosing one, and the
variables of the others keep their value. Specifications that do share a file (hooks, drains and commands
on one queue, workers and drains on one record) are one module, with every interleaving.

Definitions whose name ends in `_Something` next to another (`Publish_Overwrite` before `Publish`) are
mutants: the same operation with a plausible mistake, used to see that a property can fail. They are not part
of the specifications.

### CredentialLock and LockService

`published` is the directory: the set of lock files with their owners. `call[p]` is the
`acquireLock` call of process `p`: its program counter names the file operation it does next, `file` the
lock it works on, `depths` the recursion depth of every frame. A lock file is named by the dead owners whose
reaping led to it, so a reaper lock is `Append(file, deadOwner)`; the code's name is a SHA-256 of
the same data and is taken not to collide. One action is one file operation or one `kill(pid, 0)`:
`Publish`/`LinkFails` (the hard link), `ReadOwner`, `ProbeOwner`, then under the reaper lock `Recheck`,
`Reprobe`, `UnlinkDead`, and `UnreapCheck`/`Unreap` and `ReleaseCheck`/`Release` for the two halves of a
release. A process may crash anywhere; its pid may be reused, which makes the lock it left look alive.
`LockService` is what callers rely on: free, held, orphaned or foreign, and from one process to the next only
through free.

Left out: I/O errors other than "exists" and "not there", leftover temporary files, and
older clients that evict by age (the code states that they are gone).

### SessionRenewal

One client's session against the broker. `session` is `session.json`; `proc[p]` holds what a process read
earlier and still acts on; `broker` keeps each chain of refresh tokens with those spent, accepted twice within
the grace period and past it; `status` and `pending` are the status record and the marker. A locked mutation is
one step (CredentialLock excludes) and may fail as busy. `ensureFresh` is RenewStart, AcquireLock, Reread,
Expect, Send, Grant or GrantFails, CommitRotation, Exchange, CommitRefresh, Record or DropSession, Release; a
sign-in is SigninStart, SigninEngage, SigninClear, SigninMark, SigninApproved, SigninCommit or SigninFailed; a
sign-out is SignoutStart, Signout, Revoke. `Codex` chooses between the two clients where they differ
(which generation a status record carries, whether starting a sign-in ends a sign-out, what the marker does).

Abstracted: device identity (written once), token formats, the tenant pin, `invalid_client` (as the end of the
chain), the legacy import. `renewNow` has no caller in production. Queue purges at a sign-out are
TelemetryConsent's. The update of the status record is one step. The renewal lock starts free.

### TranscriptDelivery

One repository, one transcript. A line is its uuid, a number that grows in writing order. `hook[h]` holds what a
staging process read (`raw`, `seen`) and still has to write (`todo`, `next`): reading the transcript, reading the
cursor, each sealed chunk and the cursor write are separate steps, and a hook may die between any two. Drains
stat, unlink and create the lock in separate steps, list, and send chunk after chunk; an answer may be lost,
late, a refusal, a deferral or a rejection. The collector keeps one object per transcript, drops what it has, and
starts over at a newer baseline: it is external and modelled from what `transfer.js` says it relies on.

Abstracted: wire ids; routing of turns to several repositories; lines without a uuid (a tail of them is sent
again at every Stop); lines too large to send; marks of unrecorded turns; `updatedAt >= readAt` as "the cursor is
not the one read". Late copies of one request are one request. A chunk is set aside in one step. The lock ages
only when nobody works under it or its holder is suspended (bound `stalls`), which is what a ten-minute lease is for.

### TelemetryConsent and ConsentDecisions

`policy` is the consent record (revision, global pause, one organization, its repositories), `lock` its lock file.
A command is Decide or List/ListRevision/Select/Confirm/Toggle, then OpenLock, RemoveLock, ReadPolicy, WritePolicy,
Unlock, and Sweep/SweepErase for the queues of what it turned off; SignOut empties all of them. A hook is HookCheck
then HookAppend; Stop's rename is Seal; a drain reads consent (DrainStart), purges what must be deleted (DrainPurge,
DrainClear, DrainErase), and for the rest DrainList, Take, Recheck, Answer, DrainEnd. `ConsentDecisions` is the
abstract record: decisions take effect whole, in turn, from the revision they were made from.

Abstracted: the record starts empty or onboarded; a list is one read and the revision another; the append of an
event is one step once checked (the split is a hazard listed without a property); from its first check to its
request a drain runs synchronously, so that is one step; the drain lock is left out, so any number of drains may
work; a drain that crashes leaves its queue and is left out; chunks preserved by a purge and chunk queues are not
here. "Recorded before" means appended before. Signing in is possible only while signed out. A command gives the
lock up as busy after fifty tries (bound `busy`).

### BackfillLifecycle

The history import from offer to notice. `state` is the lifecycle record of `backfill-state.js` (offer, status,
tenant, counts, the runs before it), changed under its lock, so each change is one step. An offer is claimed (Claim),
declined or accepted for the tenant that is signed in (Accept), and snapshotted by a detached worker, which checks
its authorization, writes its pid, and for each transcript seals a chunk, moves the cursor and records progress; it
finishes or fails. A run without a sign of life for thirty minutes is judged dead and demoted, although its worker may
only have been suspended (Age, Judge, Demote). A drain lists the chunks, asks for a token, posts, logs the
acknowledgement, removes the chunk, may set it aside, and purges those of offers that no longer count. Worker, drain and
session start settle: read the record, look for chunks, mark delivered, write the notice, queue the event, as separate steps
any of which may be the last.

`cursors` starts with any set of transcripts: live sessions have a cursor, and the snapshot skips them.

Abstracted: a transcript makes one chunk; attempts and backoffs of a chunk are TranscriptDelivery's; the record's lock
is TelemetryConsent's once more; the scan that selects sessions and the binding of a data root are left out. The user's
tenant changes at any time (ChangeTenant), within a bound.

### CodexConsent

The consent record of the Codex client: `saved` the records that were renamed into place, oldest first, the last of
which counts unless it is `lost`; `synced` how far a crash of the machine keeps them; `marker` the file that says a
record was seen once. A command reads the record and the local restrictions and shows them, the user answers, and it
checks the answer against a fresh read, takes the lock, compares revisions, writes the marker, looks at its lock once
more, renames, syncs, unlocks and reports (Show, Submit or Direct, Lock, Compare, Mark, CheckLock, Rename, Sync, Unlock,
Report); a failure rolls back what was created (Rollback, Unmark). Nobody evicts a lock; a lock
held for ten seconds no longer commits (Age), and the user may remove it (RemoveLock). Processes crash, the machine
crashes (Reboot), the record may be deleted (Lose), restrictions change next to it.

Abstracted: one organization owns every repository; clocks (a stamp is the revision that decided); what the preview
says; the search for repositories. Emptying queues is the queues' modules'.

### CodexDrainHandoff and CodexRetryMonitor

`CodexDrainHandoff`: a hook queues what it recorded, writes a request with a fresh id, and looks whether it is already
served or a drain is at work before it spawns one (Enqueue, WriteRequest, HookLook, HookCompare, HookProbe, HookSpawn). A drain takes the lock,
reads the request, tries everything queued, records the request as completed, releases, and looks for a newer one
(Acquire, ReadRequest, CheckCompleted, Sweep, Complete, Release, Recheck).
One step is one file read, write, rename or unlink; hooks and drains may be killed anywhere, a spawn or a write may fail.
`slipped` collects the requests past which a drain with nothing to do gave up the lock.

`CodexRetryMonitor`: a session start that sees no live heartbeat launches a detached monitor and claims the
heartbeat for it; a monitor sweeps, stands down when the heartbeat names another, refreshes it otherwise, and ends
after idle sweeps or a maximum lifetime. The heartbeat is read, written (emptied first) and unlinked without a lock.

### CodexTranscriptQueue

One source. `journal` is the record of the ranges written while collection was off, `cursor` and `groups` the queue
(a batch of chunks with the cursor that follows it), `lock` the file that guards both, `request` the collector's demand for
a new baseline, `hint` a hook's request to capture. Hooks observe the length of the source at each lifecycle event
(HookRead, HookObserve); commands change consent, purge and note the boundary in separate steps and may die between; a
drain recovers what a dead one left, stages by rename, writes the cursor, marks the batch ready, and sends chunk after
chunk, reading consent before each. A record is its serial number; the source (`Write`, `Replace`) and the collector's
object (`store`, `Lose`) are external.

Abstracted: the line of the session's identity that goes with every chunk, what a record says, the projection of
a compaction, `STAGE_BYTES` as a number of records.

### CodexEventQueue

`files` are the log files by identity: an append goes to the file that was opened, wherever it has been renamed since. A
row is its number, its repository and the stamps of the consent it was recorded under. A hook registers, opens and
writes, or seals by a rename that carries the time; workers take a batch by a lock file, drop revoked rows, hold those
whose repository may not send now, post the rest, salvage or quarantine what is refused, and write back what remains;
`meta` counts attempts. Commands change consent, then purge, skipping batches under upload; batches expire.

Abstracted: the contents of an event, times as a small clock, the directory listing as a choice of the next batch. A batch
has a name below `MaxTime` and a log one of `MaxFiles` identities: a hook that would need another one does not go on, a bound
of the model, not of the code. The configurations give more of both than their rows can use. Commands that purge run one after
another; nothing in the code keeps a second one from changing a choice while the first still scans.

## 3. What is checked

Every property of a passing run has a mutant of the code's operation that breaks it under the same bounds.

| Run | Shows | Bounds, and why they suffice |
|---|---|---|
| `credential_lock_safety` | exclusion, live owners kept, each unlink removes only its target, LockService implemented | 3 processes: an owner, its reaper, and the reaper's reaper or a newcomer; 2 crashes (one nested), 1 pid reuse, 5 tokens so that every publication of interest is distinct; depth 8 as in the code |
| `claude_liveness` | dead owners are reaped although a reaper dies, and `acquireLock` returns; every sealed chunk leaves; an accepted import ends | three parts: a lock with one process dead from the start and one crash; a hook and a drain that dies under the lock, 1 lost answer, 2 refusals (the budget), 1 deferral, 1 rejected and 1 missing license; an import of 2 transcripts with 1 crash, 1 loss, 1 chunk set aside |
| `session_races` | no resurrection, no mixing, a signed-out store is empty, status and marker true (Claude Code) | 3 processes, 2 sign-ins, 1 sign-out, 1 expiry: a renewal between two sign-ins and a sign-out |
| `session_failures` | a chain ends, or its session is on a spent token, only after a lost successor; an expired license is renewed or the session ends | 2 processes, 2 expiries, 1 forced renewal, 1 session start, 1 fault, 1 crash: the retry after either, and a bystander |
| `delivery_safety` | the object mirrors the transcript, in order, nothing ignored; what the cursor covers is not lost; only refusals spend the budget; an OFF empties its event queue, a pause deletes nothing | `drains`: 2 drains, one suspended past its lease, 2 lines, two of a rewrite, a lost answer, a refusal and a deferral; `failing`: 3 lines, one chunk and one cursor that cannot be written; `staging`: 2 lines, a hidden period, an import, a killed hook, an expiry; `queues` (TelemetryConsent): 2 commands, a hook, a drain, Stop, 2 events, 1 lost upload, 1 crash |
| `consent_decisions` | decisions whole and in turn (implements ConsentDecisions) | 3 commands, one toggling several of 2 repositories, 1 given up as busy or 1 that dies |
| `consent_liveness` | the queue of what stays off is emptied | 1 command, a hook, a drain; a crash, a suspension, a failed upload, and 2 events or 1 event with a sign-out and a sign-in |
| `codex_safety` | nothing unconsented arrives; the cursor covers; each record once, in order; rows kept and charged for their own failures; a purge is final | transcripts: eight scenarios of 1-3 records with up to 2 drains, pairing replacement, loss, consent, pause and crash; events: eight scenarios of 2 rows about 2 repositories |
| `codex_liveness` | requests served; a monitor stands down only for another; queued work is tried, one monitor stays, the transcript arrives, no sendable batch is left | handoff: 2 hooks, 2 drains, 1 crash, 1 fault; monitor: 2 starts, 2 monitors, one of each mishap; the queues' recovery scenarios: a lost object and a lost answer, consent off and on with a crash, failures and refusals of batches |
| `client_records` | an import keeps to its tenant, reports once and truly, drops for cause; a Codex decision is made from what was shown, reported truly, and neither record nor stamps are lost | imports: one instance with each scenario's share of the mishaps: crashes (2 offers, 2 transcripts, another tenant), offers (3 offers, failing runs, expiry, a live session's cursor), worker (taken for dead and goes on), user (signs in twice, out, turns a repository off); consent: 2 commands, 2 repositories, one mishap of each kind or a fault with a crash of the machine |
| `codex_stale_outcome` (violation) | Codex: a renewal that outlives its sign-in marks the next one as ended | 3 processes, 2 sign-ins, 1 sign-out |
| `off_lost` (violation) | a consent lock judged stale is unlinked after another command renewed it, and an OFF is undone | 3 commands, 1 crash |

`session_races` and `session_failures` are Claude Code's session (`Codex = FALSE`); section 4 says which theorems hold of
both clients. `CHECK_DEADLOCK FALSE` is set where users act a bounded number of times and every process may then have
ended or died.

### Disagreements with what the repository says

The two violation runs are findings, with the lines they contradict. TLC refutes these as well; where a property is
named it is defined in the module, and the bounds are those of a behaviour that violates it (all others 0).

| Property | Under | What happens |
|---|---|---|
| `NeverThrows` | SessionRenewal, 2 processes, 1 expiry, 1 fault | a busy store while the outcome is recorded makes `ensureFresh` throw (`license-renewal.js:118`; "never throws", line 157) |
| `RotationIsStored` | 2 processes, 1 sign-in, 1 expiry | a sign-in that only starts makes a renewal drop the rotated token (`license-renewal.js:71`, comment at 48-50) |
| `RevokesWhatItEnds` | 2 processes, 1 sign-in, 1 sign-out, 1 expiry | a sign-out racing a sign-in revokes another session than it ends (`claude/signout.js:18`, comment at 5-6) |
| `WaitingSigninReported` | `Codex = TRUE`, 3 processes, 2 sign-ins | an older attempt overwrites or removes the marker of the one that waits (`signin-flow.js:225`, comment at 11) |
| `Mirrors` | TranscriptDelivery, 2 lines, 1 killed hook, 1 rewrite; or 1 failed seal or cursor write and 1 rewrite | the cursor does not know the sealed chunk, then a rewrite: two generations in one object (`transfer.js:1105`) |
| `NeverIgnored`, `CursorCovers` | 2 hooks, 2 lines, 1 rewrite | two hooks stage at once; the cursor loses the generation, later chunks are ignored and deleted (`transfer.js:1057`) |
| `NeverIgnored`, `CursorCovers` | 1 rewrite, then 1 import | an imported snapshot after a reset carries baseline 0 and is ignored (`transfer.js:1208`) |
| `CursorCovers` | 1 hook, 3 lines, 1 rewrite, 1 killed hook, 1 hidden period | a hook that seals a new generation is killed before it moves the cursor; a hidden period then writes a cursor with the old baseline, and later chunks are ignored and deleted (`transfer.js:1286`). The proof of `NoLineLost` found it |
| `LinesInOrder` | 1 hidden period, 1 import | an import does not look at the cursor and sends earlier, hidden lines after later ones (`transfer.js:1208`) |
| `HideNeverRewinds` | 2 hooks, 1 hidden period | the cursor moves back over lines another hook has hidden (`transfer.js:1286`, comment at 1279) |
| `OneDrain` | TranscriptDelivery, 2 drains, 1 drain crash | the lock of a dead drain is removed by two others in turn (`transfer.js:117`) |
| `SwitchesAsShown` | TelemetryConsent, 2 commands, 1 list | a list with the new revision and the old settings (`repository-telemetry.js:407`) |
| `OffDeletes` | 1 organization OFF, 1 event | a log sealed during an organization's OFF, which sweeps once, stays queued (`repository-queue.js:164`) |
| `DeletedOnlyByOff` | repository OFF then ON, 1 event | the sweep of an OFF deletes what was recorded after the following ON (`repository-queue.js:183`) |
| `StaysWithSignin` | 1 sign-out, 1 sign-in, 1 event | an event recorded after the sign-out's sweep goes out under the next sign-in (`claude/logger.js:96`) |
| `FailedMeansNothingSent` without its condition | BackfillLifecycle, 1 failed seal, busy record or stall | what such a run has queued is not counted, and uploads (`backfill-delivery.js:158-161`) |
| `SettledIsFinal` without its condition | 1 stall | a worker taken for dead seals on after the import is delivered (`backfill-delivery.js:104`) |
| the "complete" notice | 1 crash or failed seal, 1 refusal | it is given although a counted chunk was not sent (`backfill-delivery.js:115`) |
| `DroppedOnlyForCause` without `slipped` | 1 purge | a purge that scans, then deletes, drops an authorized chunk sealed in between (`repository-queue.js:102-127`, comment at 169-171) |
| exactly one report | 1 crash | a crash between mark and write loses notice and event (`backfill-delivery.js:109`); two takers may both show the notice (`backfill-delivery.js:251-264`) |
| `FromWhatWasShown`, `StampsFresh` without `Slipped` | CodexConsent, 1 stall | a command looks at its lock, is suspended for ten seconds, the user removes the lock and another decides: the rename undoes that decision |
| `StampsFresh`, `FromWhatWasShown` without `Forgotten` | 1 fault, 1 crash of the machine, 1 loss | the marker could not be synced and is gone with the record: revisions and stamps begin anew. The proof of `StampsFresh` found it; the run's bounds had left it out |
| `ReportIsTrue` without its exceptions | 1 loss | a record deleted between the comparison and the rename, or before the record is read again, is reported as an error although it was saved |
| `NoRequestForgotten` | CodexDrainHandoff, 2 hooks, 2 drains | a drain with nothing to do gives the lock up past a newer request; the hook that wrote it saw the drain at work (`codex/logger.js:1222-1223`) |
| `EveryRowKept` without `slipped` | CodexEventQueue | rows appended between a seal and the reading of the batch, or sealed twice under one name, are lost (`codex/logger.js:812-816`, `406-414`) |
| `Delivered` without `Alone` | CodexTranscriptQueue, 2 drains | two drains that restart at once may find each other's lock forever |

The conditions of the checked properties and of the theorems (`Slipped`, `Forgotten`, `slipped`, `Spent(...)`, `Evicts`,
`Overtakes`, `Forgets`) name exactly these windows, so that what is promised is what remains.

### Fairness

Weak fairness on each process's own steps says that a process that runs goes on: nothing in the code waits for a user
while it holds a lock.

- Session: renewals keep being asked for while the license is expired, as every hook does; exchanges answer or time out
  (`AbortSignal.timeout`).
- Claude Code delivery, consent and import: a drain is spawned at the end of every turn, sessions keep starting (each
  settles), locks age, backoffs end, a run without a sign of life ages.
- Codex: a hook or a drain that was started goes on; no hook has to begin. A monitor that waits wakes however often its
  heartbeat is written first (strong fairness on Wake: a timer), and a drain goes over all batches it lists (strong fairness on
  Take). While the transcript queue has a backlog, drains are started, one after another (`Alone`): they start a minute apart
  and take seconds.

In MC modules of several parts the fairness subscript is the tuple of variables that every step of a process changes
(`Moves`), which is the same as `vars` for those steps and cheaper for TLC. Users, crashes, faults, the transcript and
the collector's losses owe nothing.

## 4. What is proved

`tlapm` checks these for every value of the constants: any number of processes, and any bound on faults,
crashes and decisions. In each module TLC checked the invariant on a small instance first.

| Module | Theorems | Assumes |
|---|---|---|
| CredentialLockProofs | `MutualExclusionHolds`, `LiveOwnerNeverEvicted`, `ReaperSafety`, `LockRefinesService`, `LockInvariantHolds`, `TypeCorrect` | `NoneAssumption`, `DepartedAssumption`, `BoundsAssumption` |
| SessionRenewalProofs | `SessionInvariantHolds`, `TypeCorrect`, `SignOutIsKept`, `SigninsNeverMix`, `SessionsStayEnded`, `RenewalsKeepTheChain` (both clients); `SigninAskedForCause`, `WaitingSigninIsReported` (`~ Codex`: run `codex_stale_outcome` and section 3 show that Codex violates them) | the assumptions of SessionRenewal |
| TelemetryConsentProofs | `DecisionsTakeTurns`, `OffIsKept`: `Spec /\ [][~ Evicts]_vars => ...`; `UndisturbedTakeTurns`: `Spec => ...` where `Limits` allows no crash and no stall; `TypeCorrect` | `LimitsAssumption`, `DecisionsAssumption`, and `Constants`: `None` is no lock state, question or listing |
| TranscriptDeliveryProofs | `NoLineLost`: `Spec /\ [][~ Overtakes /\ ~ Forgets]_vars => []CursorCovers`; `AloneNoLineLost`: `Spec => []CursorCovers` with one hook, no import and no hidden period; `GivenUpOnlyWhenRefused`, `TypeCorrect` | `LimitsAssumption`, `AttemptsAssumption`, `NoneAssumption` |
| BackfillLifecycleProofs | `ImportsStayWithTheirTenant`, `ImportsAreReportedTruly`, `ImportsAreSettledForGood`, `NothingIsDroppedWithoutCause`, `ImportInvariantHolds`, `PromiseInvariantHolds`, `TypeCorrect` | `LimitsAssumption`, `CountsAssumption`, `NoneAssumption` |
| CodexConsentProofs | `DecisionsAreAsShown`, `ReportsAreTrue`, `DecisionsAreKept` (from `LossesAreSeen` and `StampsStayFresh`), `ConsentInvariantHolds`, `TypeCorrect` | `Constants`: the bounds are numbers, `None` is no record, lock or outcome |
| CodexTranscriptQueueProofs | `OnlyConsentedArrives`, `CursorCoversAlways`, `StoredOnceAlways`, `ArrivesInOrderAlways`, `QueueInvariantHolds`, `QueueTypesHold` | `Constants` of CodexTranscriptQueue: bounds are numbers or absent, `None` is the content of no file; TLC evaluates it for the instance (MCCodexQueues) |
| CodexLoggerProofs | `RequestsAreServed`, `HandoffInvariantHolds`, `TypeCorrect` of CodexDrainHandoff | `NoneAssumption`, `HooksAssumption` (finitely many hooks), `BoundsAssumption` |
| (the same) | `RowsAreKept`, `PurgesAreFinal`, `QueueInvariantHolds`, `TypesHold` of CodexEventQueue | `E!Constants`: bounds are numbers or absent, `None` is no worker; TLC evaluates it for the instance (MCCodexQueues) |
| (the same) | `MonitorsLeaveAnother`, `MonitorInvariantHolds`, `MonitorTypesHold` of CodexRetryMonitor | `M!Constants`: bounds are numbers, `MaxIdle` at least 1, `None` is no monitor; TLC evaluates it for the instance (MCCodex) |

**The credential lock.** Exclusion alone is not inductive. The invariant adds that a file has one owner
(`OneOwnerPerFile`), where each process stands in its recursion (`Placement`), that whoever holds a root or reaper lock
owns the file on disk (`LiveOwnerKeepsLock`), that an owner once seen dead is nobody's current owner (`DeadStayDead`,
where tokens matter: pids are reused, tokens are not), and that after the second read under the reaper lock the dead
owner's file is still in place (`RecheckStands`). With the reaper lock excluded for each dead owner, by the same
invariant one level up, no two reapers unlink the same file, which closes the gap between read and unlink. The refinement
maps the files to LockService's state; each step maps to one of its steps or a stutter.

**The session.** `SessionInvariant` adds single flight (whoever is between acquiring and releasing holds the renewal
lock), that stored or carried tokens were issued by the broker, that what a process carries stems from the session it
read (`InHand`), and that each approval belongs to its own intent (`OwnApproval`). Then a write conditioned on an
unchanged session cannot bring another one back.

`ChainInvariant`, relative to it, says who may hold a token the session does not: one renewer whose answer is not stored
yet, or one sign-in about to commit, whose chain is in nobody else's hands (`OwnChain`). A token is sent twice only after
its successor was lost (`SentOnce`), so the broker sees a replay for no other reason. The status and the marker have
invariants of their own: an outcome is recorded for the session the renewer expected, and the marker of an older
attempt is only removed or replaced by one that looked at its generation first.

**Consent of Claude Code.** `Turns` is the argument: who is between taking and leaving the lock is there alone, has
read the record as it is, and no command knows a revision that is to come. Every step keeps it but two: the lock ages
while its holder is suspended, or is removed by a command that had seen an older one. `Evicts` is exactly those, and the
theorem assumes that they do not happen rather than that nobody crashes: a crash by itself costs no decision. `off_lost`
shows a behaviour with such a step that loses an OFF, so the condition cannot be dropped; `UndisturbedTakeTurns` shows that
without crashes and suspensions it need not be assumed. The refinement maps a command's question (from the moment it
waits for the lock until it writes or gives up) to ConsentDecisions' `asked`. `Types` adds that recorded and checked events
together stay within the bound they were taken from (`EventsCounted`), without which a hook's event has no type.

**Transcript delivery.** `ChargedAsRefused` says that the attempts in a sidecar never exceed the collector's refusals, also
in what a drain read before it sent and may write back over another drain's sidecar; that gives the retry budget.

`Covering` is the argument that no line behind the cursor is lost. A line is accounted for (`Kept`) if it is hidden, in a chunk
of a generation or in the collector's object of that generation. While the transcript still has the cursor's line, the cursor's
generation is the newest anywhere (`CursorStands`), so that the collector cannot have replaced its object by a later one
or ignore a chunk of it, and every line up to the cursor's is accounted for in it; after a rewrite at most one generation has
been begun past the cursor (`GenerationsBounded`). What a hook read is a state the transcript was in, and two states that share a
line agree up to it (`ReadOK`, `Agree`): that is what makes an outdated read harmless. Whoever seals carries the cursor's
generation on or begins the next, and what it has sealed, with what it still owes, completes what its cursor will stand for
(`SealOK`); dying or failing in between leaves the old cursor, which stands. A request, a chunk and what a waiting drain has read
are one chunk's (`Copies`), so an answer deletes what was delivered, and every step of drains, collector and time is a `Shifts`,
which loses no line of the newest generation. Two kinds of step break this: `Overtakes`, a cursor written while another hook of the
transcript is at work, and `Forgets`, an import or a hidden period that goes back to an older generation. Section 3 has a behaviour
that loses a line for each, so neither can be dropped; `AloneNoLineLost` shows where neither need be assumed. Deaths of hooks
between any two writes, failing writes, rewrites, and everything about drains need no condition.

**The history import.** `TenantKept` needs that a worker and its chunks exist only for an accepted offer, and that the
record knows the tenant of every offer it still names (`Fresh`, `RecordInvariant`): a drain compares its token with that.
`ReportedTruly` needs a count (`WorkersCount`: a worker without an error has counted what it sealed), that a completed import
has no worker that could seal more (`Completed`), and that of the processes that settle one alone marks, so that whoever
writes the notice read a log that does not change any more (`SettlersInvariant`).

`SettledForGood` and `DroppedOnlyForCause` are promises with exceptions, and a second invariant, relative to the first, follows the
exceptions as they are spent (`Budget`: no mishap more often than it may). Unless a live worker was taken for dead, one that lives has
its run and a judged run's worker is dead (`Trusted`); then nothing of what counts as delivered waits, nor of what a
settler has counted between its look at the queue and its mark (`Emptied`). If besides every cursor and every progress was written, the record counts what
its worker sealed at each step up to the announcement (`NothingHidden`, `Told`), so that "nothing was sent" is said of
nothing queued. A chunk is dropped by a drain that finds another tenant, by age, or by a purge that does not find its offer in
the record: an accepted offer is in the record until `MaxPrior` later ones are (`Remembered`, over the order of the history,
`Latest`), nobody else is signed in unless somebody else signed in (`SameTenant`), and what a purge is about to delete was unremembered when it
looked, or sealed since, which is `slipped` (`Spared`).

**Consent of Codex.** A command whose lock is younger than ten seconds is the only one that renames (`Locked`), so
from its comparison to its rename the newest record is the one it has seen (`Shown`), and each record's choices are those of
an earlier one or decided later (`Chained`). `Marked` keeps a record that is gone from being taken for none yet. What a
command will say is tied to what it has made, renamed and synced (`Phased`, `Kept`, `Reported`).

**The transcript queue of Codex.** None of the four properties is inductive. What carries them is `Recovered`, the cursor
that is in force once a dead owner's batch is made good: a batch is published by a rename before the cursor is written, so the cursor
on disk may be one batch behind, and every part of the invariant speaks of both. `Locked` says that whoever stands between
taking and leaving the lock owns it alone, and that but for the step between publication and cursor the two are the same.
`Numbered` and `ChunksNumbered` order the batches, `Kin` and `Generations` tie a batch, the cursor and what is in force by
generation, baseline and consent token; from `Arrivals` and `OnePlace` follows that a number and a record of a generation have one line
each, queued or arrived. A plan is made under the lock but published two checks of the consent later: `PlanStands` says that it
still continues what is in force (`PlanFits`), or begins the next generation, whatever commands have purged and hooks observed in between.

That gives order, uniqueness and, with `Covering` (a record up to the cursor is excluded by the journal, queued or has
arrived, unless the cursor's epoch or consent is over), what the cursor covers. For consent, `Noted` says that what the
journal of a source does not exclude up to its boundary was written under consent, and past it too while the consent in force is the
one noted; `Committed` carries that to the cursors, and `Consented` to every line queued, planned or arrived. All of `Consented` is under
`~ straddled`: a hook or a drain reads the consent first and notes the boundary with it later; when the consent has changed in
between, it is noted for the wrong interval. `straddled` records that this has happened, and nothing else is excepted. The positions a purge, a close and a plan keep
are listed by `Ascending` and `Picked`, whose lemmas (`AscendingLists`, `PickedKeepsOrder`) hold for any finite set of numbers.

**The drain handoff.** `Watched` says that without crash and fault somebody awake will look at the present request or
finds it completed, by where each process stands (`Looks`); `Serving` and `Numbered` tie the number a drain works on to what has been
completed and tried, which gives `CompletionCovers`, that a completed request is a promise kept.

**The event queue of Codex.** That no row is lost (`EveryRowKept`) and that rows are given up for their own failures only
(`ChargedForOwn`) hold at each step because of what a worker knows when it decides. Its batch has its lock and no other worker's
(`Locked`); what the batch holds is what it has read, divided into ready and held, but for rows that came by a late append
or a rename over the same name, which are `slipped` (`Divided`); what it takes out at the next write has arrived, or is in
quarantine already (`Secured`), so dying between the two writes leaves a row twice, never nowhere. The
attempts in the metadata are failures of each row named there (`Charged`). One log is open and a name is one
batch (`OneFile`).

`PurgesAreFinal` is an action property and needs a second invariant, relative to the first: no row is stamped with what is to
come (`Stamped`), so a consent that ended stays over; while a purge has skipped nothing, the batches behind it hold nothing that
it has to remove, in quarantine, in a sent copy or in the hands of a worker (`Purged`); and what is being sent was checked
against every promise (`Unpromised`). A worker that holds a lock makes the purge incomplete, and in the model no other command changes a choice
during a purge; the proof needs both.

**The retry monitor.** A heartbeat that names another process says nothing by itself. `Beating` is what makes it a reason to
stand down: unless a monitor was killed, signalled or too old, or ended idle, the heartbeat names one that lives, or it is empty and
somebody is about to fill it (`Filling`). It is inductive with two facts about order: a child whose session start has not
claimed the heartbeat for it yet has not looked at it (`Children`: the minute before the first sweep outlasts the
session start), and who stands down does not get the heartbeat back before it unlinks (`Disowned`).

**Only model-checked:** liveness and everything about ENABLED, which tlapm cannot do. `NeverIgnored`, `Mirrors` and
`LinesInOrder` hold under the conditions of section 3 only, and `Mirrors` not even under those of `NoLineLost` (a hook killed before
a rewrite leaves lines too many, never too few); `OffDeletes` and `DeletedOnlyByOff` likewise.

## 5. Plan, and what is not modelled

Not modelled yet, and worth it: a choice changed by one command while another's purge scans the Codex event queue;
the license status record's comparison and rename as two steps; marks of unrecorded turns,
routing of turns to several repositories and the two renames of a quarantined chunk (transcript boundaries); periods
without recording (a resumed session's history is sent again if another hook moves the cursor between the reading of
the transcript and of the cursor, `transfer.js:1027` and `1058`); the append of an event next to the rename of its log in
Claude Code; the debounce of drain spawns; the organization audit queue; what the user is told (collection state).

Not to be modelled: sanitizers, repository scope and the harness report (pure functions of text and settings), paths,
configuration, wording and layout, the scan of directories for repositories.
