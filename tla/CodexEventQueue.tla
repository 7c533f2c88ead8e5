-------------------------- MODULE CodexEventQueue --------------------------
(***************************************************************************)
(* The event queue of the Codex client (logger.js, lib/repository-queue.js).  *)
(*                                                                         *)
(* Hooks append rows to one active log, whatever repository they are about.   *)
(* The log is sealed by renaming it to a batch with a time in its name.       *)
(* Drains take a batch by its lock file, drop the rows whose consent was      *)
(* revoked, hold those whose repository may not send now and post the rest;   *)
(* what is accepted leaves the batch, what is refused for good is salvaged    *)
(* or moved to quarantine, what fails is tried again a bounded number of      *)
(* times.  Commands change consent and then empty the queue of what they      *)
(* revoked, skipping batches that are being uploaded.                        *)
(*                                                                         *)
(* A row is its number, its repository and the stamps of the consent it was   *)
(* recorded under.  A file has an identity besides its name, for an append    *)
(* goes to the file that was opened, wherever it has been moved since.        *)
(***************************************************************************)
EXTENDS Naturals, FiniteSets, FiniteSetsExt

CONSTANTS
  Repo, Hook, Worker, None,
  MaxRetries,  \* MAX_BATCH_RETRIES
  MaxTime,     \* the times that name batches
  MaxFiles,    \* the log files that are opened
  Scenarios    \* each a choice of how often the things below may happen

Bounds == {"rows", "seals", "ticks", "scopes", "consents", "locals", "pauses", "signouts", "failures", "rejections",
           "crashes", "ages", "reconciles"}

\* What the constants are: bounds are numbers, or None for no bound, but for the rows, which
\* are numbered.
Constants ==
  /\ MaxRetries \in Nat \ {0} /\ MaxTime \in Nat /\ MaxFiles \in Nat
  /\ None \notin Worker
  /\ Scenarios \subseteq [Bounds -> Nat \cup {None}] /\ \A s \in Scenarios : s["rows"] \in Nat

VARIABLES
  repo,      \* of each repository: the shared and the local choice, the stamps of the last ones,
             \* and whether it is in the scope of the license and its settings can be read
  paused,    \* the global pause
  revoked,   \* of each repository: the tokens that were seen revoked
  files,     \* the log files by identity: where each is, its time and its rows
  clock,     \* the time of day, which names batches
  meta,      \* of each batch: failed attempts, and the rows they were about
  lock,      \* of each batch: the worker that holds its lock, or None
  poison,    \* of each batch: the rows in quarantine
  hook,      \* what each hook is doing
  work,      \* what each worker, one per batch a drain processes, is doing
  purge,     \* what a command that empties the queue has still to do
  received,  \* rows the collector has
  written,   \* history: rows that were written whole
  slipped,   \* history: rows written to, or renamed over in, a file whose rows were taken
  expired,   \* history: rows deleted for their age or by a sign-out
  tries,     \* history: of each row, the posts of it that failed
  spent,     \* history: rows given up for the number of failures
  promised,  \* history: of each repository, the last token and epoch a complete purge covers
  left       \* the bounds that remain

consent == <<repo, paused>>
queue   == <<files, meta, poison>>
history == <<written, slipped, expired, tries, spent, promised>>
vars    == <<consent, revoked, queue, clock, lock, hook, work, purge, received, history, left>>

\* A bound of None is no bound.
Spend(k) ==
  /\ left[k] # 0
  /\ left' = IF left[k] = None THEN left ELSE [left EXCEPT ![k] = @ - 1]

NoFile == [at |-> "none", ts |-> 0, rows |-> {}]
NoMeta == [attempts |-> 0, payload |-> {}]
NoWork == [pc |-> "idle", ts |-> 0, ready |-> {}, held |-> {}, again |-> FALSE, spends |-> FALSE]
NoPurge == [pc |-> "none", todo |-> {}, complete |-> TRUE, all |-> FALSE]
NoHook == [pc |-> "idle", row |-> None, fd |-> 0, ts |-> 0]

Times == 1 .. MaxTime
Ids   == 1 .. MaxFiles

Init ==
  /\ repo = [r \in Repo |-> [shared |-> TRUE, local |-> TRUE, scope |-> TRUE, token |-> 1, epoch |-> 0]]
  /\ paused = FALSE /\ revoked = [r \in Repo |-> {}]
  /\ files = [i \in Ids |-> NoFile] /\ clock = 1
  /\ meta = [t \in Times |-> NoMeta] /\ lock = [t \in Times |-> None]
  /\ poison = [t \in Times |-> {}]
  /\ hook = [h \in Hook |-> NoHook]
  /\ work = [w \in Worker |-> NoWork] /\ purge = NoPurge
  /\ received = {} /\ written = {} /\ slipped = {} /\ expired = {} /\ spent = {}
  /\ promised = [r \in Repo |-> [token |-> 0, epoch |-> 0]]
  /\ left \in Scenarios /\ tries = [n \in 1 .. left["rows"] |-> 0]

Allowed(r) == repo[r].shared /\ repo[r].local /\ repo[r].scope /\ ~ paused

File(place, t) == {i \in Ids : files[i].at = place /\ files[i].ts = t}
Active == {i \in Ids : files[i].at = "active"}

-----------------------------------------------------------------------------
(* Routing.                                                                  *)

\* synchronize: an OFF of the shared record that is seen revokes every earlier token.
Seen(R) ==
  [r \in Repo |-> IF r \in R /\ ~ repo[r].shared THEN revoked[r] \cup 1 .. repo[r].token - 1 ELSE revoked[r]]

ReposOf(rows) == {x.repo : x \in {y \in rows : y.whole}}

\* filter: rows of an earlier local choice or of a revoked token are dropped, ...
Dropped(rows, seen) ==
  {x \in rows : x.whole /\ (x.epoch # repo[x.repo].epoch \/ x.token \in seen[x.repo])}

\* ... those recorded under another token, or whose repository may not send, are held.
Held(rows) ==
  {x \in rows : x.whole /\ (x.token # repo[x.repo].token \/ ~ Allowed(x.repo))}

\* pruneFile without authorization: the rows of a batch, its sent copy and its quarantine.
Kept(rows) == rows \ Dropped(rows, Seen(ReposOf(rows)))

-----------------------------------------------------------------------------
(* Hooks.                                                                    *)

\* runHook: the gate, the registration of the repository, ...
HookRegister(h, r) ==
  /\ hook[h].pc = "idle" /\ Allowed(r) /\ Spend("rows")
  /\ hook' = [hook EXCEPT ![h].pc = "recheck",
       ![h].row = [n |-> left["rows"], repo |-> r, token |-> repo[r].token, epoch |-> repo[r].epoch, whole |-> TRUE]]
  /\ UNCHANGED <<consent, revoked, queue, clock, lock, work, purge, received, history>>

\* ... and the gate again.
HookRecheck(h) ==
  /\ hook[h].pc = "recheck"
  /\ hook' = [hook EXCEPT ![h] = IF Allowed(hook[h].row.repo) THEN [@ EXCEPT !.pc = "open"] ELSE NoHook]
  /\ UNCHANGED <<consent, revoked, queue, clock, lock, work, purge, received, history, left>>

\* atomicAppendLine opens the log, creating it, ...
HookOpen(h) ==
  /\ hook[h].pc = "open" /\ (Active = {} => \E i \in Ids : files[i].at = "none")
  /\ LET fresh == Min({i \in Ids : files[i].at = "none"})
         fd    == IF Active = {} THEN fresh ELSE Min(Active)
     IN  /\ files' = [files EXCEPT ![fd].at = "active"]
         /\ hook' = [hook EXCEPT ![h].pc = "write", ![h].fd = fd]
  /\ UNCHANGED <<consent, revoked, meta, poison, clock, lock, work, purge, received, history, left>>

\* A worker has read the rows of this file and will replace it.
Taken(i) ==
  \/ files[i].at \in {"sent", "gone"}
  \/ files[i].at = "sealed" /\ lock[files[i].ts] # None

\* ... and writes the row in one write; a process that is killed, or a full disk, leaves
\* part of a line.  Stop hooks then seal the log.
HookWrite(h) ==
  /\ hook[h].pc = "write"
  /\ LET fd  == hook[h].fd
         row == hook[h].row
     IN  \/ /\ files' = [files EXCEPT ![fd].rows = @ \cup {row}]
            /\ written' = written \cup {row}
            /\ slipped' = IF Taken(fd) THEN slipped \cup {row} ELSE slipped
            /\ hook' = [hook EXCEPT ![h] = [NoHook EXCEPT !.pc = "ended"]]
            /\ UNCHANGED left
         \/ /\ Spend("crashes")
            /\ files' = [files EXCEPT ![fd].rows = @ \cup {[row EXCEPT !.whole = FALSE]}]
            /\ hook' = [hook EXCEPT ![h] = NoHook]
            /\ UNCHANGED <<written, slipped>>
  /\ UNCHANGED <<consent, revoked, meta, poison, clock, lock, work, purge, received, expired, tries, spent, promised>>

\* Stop, SubagentStop and SessionEnd seal, a session start seals a stale log, others do not.
HookSeals(h) ==
  /\ \/ hook[h].pc = "ended" /\ UNCHANGED left
     \/ hook[h].pc = "idle" /\ Active # {} /\ Spend("seals")
  /\ hook' = [hook EXCEPT ![h].pc = "name"]
  /\ UNCHANGED <<consent, revoked, queue, clock, lock, work, purge, received, history>>

HookEnds(h) ==
  /\ hook[h].pc = "ended" /\ hook' = [hook EXCEPT ![h] = NoHook]
  /\ UNCHANGED <<consent, revoked, queue, clock, lock, work, purge, received, history, left>>

\* sealEventLog looks for a name that is not taken, ...
FreeNames == {t \in Times : t >= clock /\ File("sealed", t) = {}}
FreeName  == Min(FreeNames)

HookName(h) ==
  /\ hook[h].pc = "name" /\ (Active # {} => FreeNames # {})
  /\ hook' = [hook EXCEPT ![h] = IF Active = {} THEN NoHook ELSE [@ EXCEPT !.pc = "rename", !.ts = FreeName]]
  /\ UNCHANGED <<consent, revoked, queue, clock, lock, work, purge, received, history, left>>

\* ... and renames the log to it, over a batch that has taken the name meanwhile.
Renamed(t) ==
  [i \in Ids |-> IF i \in Active THEN [files[i] EXCEPT !.at = "sealed", !.ts = t]
                 ELSE IF i \in File("sealed", t) THEN [files[i] EXCEPT !.at = "gone"] ELSE files[i]]

HookRename(h) ==
  /\ hook[h].pc = "rename"
  /\ hook' = [hook EXCEPT ![h] = NoHook]
  /\ IF Active = {} THEN UNCHANGED <<files, slipped>>
     ELSE /\ files' = Renamed(hook[h].ts)
          /\ slipped' = slipped \cup UNION {files[i].rows : i \in File("sealed", hook[h].ts) \cup
                                    IF lock[hook[h].ts] = None THEN {} ELSE Active}
  /\ UNCHANGED <<consent, revoked, meta, poison, clock, lock, work, purge, received,
                 written, expired, tries, spent, promised, left>>

Tick ==
  /\ Spend("ticks") /\ clock' = clock + 1
  /\ UNCHANGED <<consent, revoked, queue, lock, hook, work, purge, received, history>>

-----------------------------------------------------------------------------
(* Workers.                                                                  *)

At(w, pc) == work[w].pc = pc
To(w, pc) == work' = [work EXCEPT ![w].pc = pc]
Batch(w)  == File("sealed", work[w].ts)
RowsOf(w) == UNION {files[i].rows : i \in Batch(w)}

\* The batch is replaced by a file of these rows, or unlinked when there are none.
Replaced(t, rows) ==
  [i \in Ids |-> IF i \notin File("sealed", t) THEN files[i]
                 ELSE IF rows = {} THEN [files[i] EXCEPT !.at = "gone"] ELSE [files[i] EXCEPT !.rows = rows]]

\* What pruneFile finds: it rewrites the batch when rows are dropped.
Prune(w, t, next) ==
  LET rows == UNION {files[i].rows : i \in File("sealed", t)}
      seen == Seen(ReposOf(rows))
      kept == rows \ Dropped(rows, seen)
  IN  /\ revoked' = seen
      /\ files' = Replaced(t, kept)
      /\ work' = [work EXCEPT ![w] = [@ EXCEPT !.pc = IF kept \ Held(kept) = {} THEN "close" ELSE next,
                    !.ts = t, !.ready = kept \ Held(kept), !.held = Held(kept)]]
      /\ meta' = IF kept = {} THEN [meta EXCEPT ![t] = NoMeta] ELSE meta

\* processSealedBatch: a batch whose lock is free; nothing is done while paused.
Take(w, t) ==
  /\ At(w, "idle") /\ lock[t] = None /\ File("sealed", t) # {} /\ ~ paused
  /\ lock' = [lock EXCEPT ![t] = w]
  /\ Prune(w, t, "post")
  /\ UNCHANGED <<consent, poison, clock, hook, purge, received, history, left>>

\* A batch of 14 days is given up.
TooOld(w) ==
  /\ At(w, "post") /\ ~ work[w].again /\ Spend("ages") /\ To(w, "quarantine")
  /\ UNCHANGED <<consent, revoked, queue, clock, lock, hook, purge, received, history>>

Failed(w) ==
  tries' = [n \in DOMAIN tries |-> IF \E x \in work[w].ready : x.n = n THEN tries[n] + 1 ELSE tries[n]]

\* transferAuthorizedEventLog: no license or no permission to send leaves the batch; the
\* collector takes the rows, refuses them for good (rows that are not whole, always), or
\* the request fails, after the rows arrived or before.
Post(w) ==
  /\ At(w, "post") /\ ~ paused
  /\ LET ready == work[w].ready
         whole == \A x \in ready : x.whole
     IN  \/ /\ whole /\ received' = received \cup ready /\ To(w, "sent")
            /\ UNCHANGED <<tries, left>>
         \/ /\ IF whole THEN Spend("rejections") ELSE UNCHANGED left
            /\ To(w, IF work[w].again THEN "quarantine" ELSE "refused")
            /\ UNCHANGED <<tries, received>>
         \/ /\ Spend("failures") /\ Failed(w)
            /\ received' \in IF whole THEN {received, received \cup ready} ELSE {received}
            /\ To(w, IF work[w].again THEN "close" ELSE "failed")
         \/ /\ Spend("failures") /\ To(w, "close")
            /\ UNCHANGED <<tries, received>>
  /\ UNCHANGED <<consent, revoked, queue, clock, lock, hook, purge, written, slipped, expired, spent, promised>>

\* A pause that came since leaves the batch, with no attempt on record.
PausedPost(w) ==
  /\ At(w, "post") /\ paused /\ To(w, "close")
  /\ meta' = IF work[w].again THEN meta ELSE [meta EXCEPT ![work[w].ts] = NoMeta]
  /\ UNCHANGED <<consent, revoked, files, poison, clock, lock, hook, purge, received, history, left>>

\* Mutant of Sent: the batch is renamed whatever it holds.
Sent_Whole(w) ==
  /\ At(w, "sent") /\ To(w, "close")
  /\ files' = [i \in Ids |-> IF i \in Batch(w) THEN [files[i] EXCEPT !.at = "sent"] ELSE files[i]]
  /\ meta' = [meta EXCEPT ![work[w].ts] = NoMeta]
  /\ UNCHANGED <<consent, revoked, poison, clock, lock, hook, purge, received, history, left>>

\* markSent: held rows stay, or the batch is renamed.
Sent(w) ==
  /\ At(w, "sent") /\ To(w, "close")
  /\ files' = IF work[w].held # {} THEN Replaced(work[w].ts, work[w].held)
              ELSE [i \in Ids |-> IF i \in Batch(w) THEN [files[i] EXCEPT !.at = "sent"]
                                  ELSE IF i \in File("sent", work[w].ts) THEN [files[i] EXCEPT !.at = "gone"]
                                  ELSE files[i]]
  /\ meta' = [meta EXCEPT ![work[w].ts] = NoMeta]
  /\ UNCHANGED <<consent, revoked, poison, clock, lock, hook, purge, received, history, left>>

\* salvageBatch: lines that are not whole are taken out, and consent is looked at again.
Salvage(w) ==
  /\ At(w, "refused")
  /\ LET whole == {x \in work[w].ready : x.whole} IN
     IF whole = work[w].ready \/ whole = {}
     THEN To(w, "quarantine") /\ UNCHANGED files
     ELSE /\ files' = Replaced(work[w].ts, whole \cup work[w].held)
          /\ work' = [work EXCEPT ![w].pc = "again"]
  /\ UNCHANGED <<consent, revoked, meta, poison, clock, lock, hook, purge, received, history, left>>

PostAgain(w) ==
  /\ At(w, "again")
  /\ LET rows == RowsOf(w)
         seen == Seen(ReposOf(rows))
         kept == rows \ Dropped(rows, seen)
     IN  /\ revoked' = seen
         /\ files' = Replaced(work[w].ts, kept)
         /\ work' = [work EXCEPT ![w].pc = IF kept \ Held(kept) = {} THEN "close" ELSE "post",
                       ![w].ready = kept \ Held(kept), ![w].held = Held(kept), ![w].again = TRUE]
         /\ meta' = IF kept = {} THEN [meta EXCEPT ![work[w].ts] = NoMeta] ELSE meta
  /\ UNCHANGED <<consent, poison, clock, lock, hook, purge, received, history, left>>

\* Mutant of Attempts: failures of one part of a batch count for another.
Attempts_Shared(m, ready, held) == m.attempts + 1

\* Attempts count for the rows they were about.
Attempts(m, ready, held) ==
  IF m.payload = ready \/ (m.payload = {} /\ held = {}) THEN m.attempts + 1 ELSE 1

\* Mutant of Enough: off by one.
Enough_Late(n) == n > MaxRetries

Enough(n) == n >= MaxRetries

Retry(w) ==
  /\ At(w, "failed")
  /\ LET n == Attempts(meta[work[w].ts], work[w].ready, work[w].held) IN
     IF Enough(n)
     THEN work' = [work EXCEPT ![w].pc = "quarantine", ![w].spends = TRUE] /\ UNCHANGED meta
     ELSE /\ meta' = [meta EXCEPT ![work[w].ts] = [attempts |-> n, payload |-> work[w].ready]]
          /\ To(w, "close")
  /\ UNCHANGED <<consent, revoked, files, poison, clock, lock, hook, purge, received, history, left>>

\* quarantinePartition: the whole file is moved when nothing is held, otherwise the rows
\* are added to the quarantine first ...
Quarantine(w) ==
  /\ At(w, "quarantine")
  /\ LET t == work[w].ts IN
     IF work[w].held = {} /\ poison[t] = {}
     THEN /\ poison' = [poison EXCEPT ![t] = RowsOf(w)]
          /\ files' = Replaced(t, {})
          /\ meta' = [meta EXCEPT ![t] = NoMeta]
          /\ To(w, "close")
     ELSE /\ poison' = [poison EXCEPT ![t] = @ \cup work[w].ready]
          /\ To(w, "cut") /\ UNCHANGED <<files, meta>>
  /\ spent' = IF work[w].spends THEN spent \cup work[w].ready ELSE spent
  /\ UNCHANGED <<consent, revoked, clock, lock, hook, purge, received, left,
                 written, slipped, expired, tries, promised>>

\* ... and taken from the batch after that.
Cut(w) ==
  /\ At(w, "cut") /\ To(w, "close")
  /\ files' = Replaced(work[w].ts, work[w].held)
  /\ meta' = [meta EXCEPT ![work[w].ts] = NoMeta]
  /\ UNCHANGED <<consent, revoked, poison, clock, lock, hook, purge, received, history, left>>

\* withEventLogLock: an OFF that found the lock held is made good before it is released.
Pruned(t) ==
  LET of(i) == i \in File("sealed", t) \cup File("sent", t)
      rows  == (UNION {files[i].rows : i \in {k \in Ids : of(k)}}) \cup poison[t]
      out   == Dropped(rows, Seen(ReposOf(rows)))
  IN  /\ revoked' = Seen(ReposOf(rows))
      /\ files' = [i \in Ids |->
            IF ~ of(i) \/ files[i].rows \cap out = {} THEN files[i]
            ELSE IF files[i].rows \subseteq out THEN [files[i] EXCEPT !.at = "gone"]
            ELSE [files[i] EXCEPT !.rows = @ \ out]]
      /\ poison' = [poison EXCEPT ![t] = @ \ out]

Close(w) ==
  /\ At(w, "close")
  /\ Pruned(work[w].ts)
  /\ lock' = [lock EXCEPT ![work[w].ts] = None]
  /\ work' = [work EXCEPT ![w] = NoWork]
  /\ UNCHANGED <<consent, meta, clock, hook, purge, received, history, left>>

\* Mutant of Crash: the lock of a dead process stays.
Crash_Locked(w) ==
  /\ work[w].pc # "idle" /\ Spend("crashes")
  /\ work' = [work EXCEPT ![w] = NoWork]
  /\ UNCHANGED <<consent, revoked, queue, clock, lock, hook, purge, received, history>>

\* A worker that is killed; its lock is evicted by whoever wants it next.
Crash(w) ==
  /\ work[w].pc # "idle" /\ Spend("crashes")
  /\ lock' = [lock EXCEPT ![work[w].ts] = None]
  /\ work' = [work EXCEPT ![w] = NoWork]
  /\ UNCHANGED <<consent, revoked, queue, clock, hook, purge, received, history>>

\* cleanupStaleFiles: a batch of 30 days, by the time in its name, is deleted.
Expire(t) ==
  /\ lock[t] = None /\ File("sealed", t) # {} /\ Spend("ages")
  /\ expired' = expired \cup UNION {files[i].rows : i \in File("sealed", t)}
  /\ files' = Replaced(t, {})
  /\ meta' = [meta EXCEPT ![t] = NoMeta]
  /\ UNCHANGED <<consent, revoked, poison, clock, lock, hook, work, purge, received,
                 written, slipped, tries, spent, promised>>

-----------------------------------------------------------------------------
(* Commands.                                                                 *)

\* Mutant of Batches: the quarantine and the sent copies are not looked at.
Batches_Pending == {t \in Times : File("sealed", t) # {}}

\* The batches a purge looks at: by a pending file, a sent copy or a quarantine.
Batches == {t \in Times : File("sealed", t) \cup File("sent", t) # {} \/ poison[t] # {}}

\* consent-set: the shared record gets a new decision, and the command then purges
\* (reconcileConsentRevocations).
SetConsent(r) ==
  /\ purge.pc = "none" /\ Spend("consents")
  /\ repo' = [repo EXCEPT ![r].shared = ~ @, ![r].token = @ + 1]
  /\ purge' = [NoPurge EXCEPT !.pc = "seal"]
  /\ UNCHANGED <<paused, revoked, queue, clock, lock, hook, work, received, history>>

\* saveTelemetryOptIn: the project's own setting; an OFF starts an epoch and purges.
SetLocal(r) ==
  /\ purge.pc = "none" /\ Spend("locals")
  /\ repo' = [repo EXCEPT ![r].local = ~ @, ![r].epoch = IF repo[r].local THEN @ + 1 ELSE @]
  /\ purge' = IF repo[r].local THEN [NoPurge EXCEPT !.pc = "sealall"] ELSE purge
  /\ UNCHANGED <<paused, revoked, queue, clock, lock, hook, work, received, history>>

\* A checkout leaves the scope of the license, or its settings file, and comes back.
SetScope(r) ==
  /\ Spend("scopes") /\ repo' = [repo EXCEPT ![r].scope = ~ @]
  /\ UNCHANGED <<paused, revoked, queue, clock, lock, hook, work, purge, received, history>>

SetPause ==
  /\ Spend("pauses") /\ paused' = ~ paused
  /\ UNCHANGED <<repo, revoked, queue, clock, lock, hook, work, purge, received, history>>

\* signout.js: whatever is queued goes, quarantine excepted (purgeEventLogs).
SignOut ==
  /\ purge.pc = "none" /\ Spend("signouts")
  /\ purge' = [pc |-> "scan", todo |-> {t \in Times : File("sealed", t) \cup File("sent", t) # {}}, complete |-> TRUE, all |-> TRUE]
  /\ expired' = expired \cup UNION {files[i].rows : i \in Active}
  /\ files' = [i \in Ids |-> IF i \in Active THEN [files[i] EXCEPT !.at = "gone"] ELSE files[i]]
  /\ UNCHANGED <<consent, revoked, meta, poison, clock, lock, hook, work, received,
                 written, slipped, tries, spent, promised>>

\* A drain, and a hook in a repository whose consent is revoked, purge as well.
Reconcile ==
  /\ purge.pc = "none" /\ Spend("reconciles")
  /\ purge' = [NoPurge EXCEPT !.pc = "seal"]
  /\ UNCHANGED <<consent, revoked, queue, clock, lock, hook, work, received, history>>

\* The active log is sealed when it holds revoked rows, by the project's setting always.
PurgeSeal ==
  /\ purge.pc \in {"seal", "sealall"} /\ (Active # {} => FreeNames # {})
  /\ LET rows == UNION {files[i].rows : i \in Active} IN
     /\ revoked' = Seen(ReposOf(rows))
     /\ files' = IF Active = {} \/ (purge.pc = "seal" /\ Dropped(rows, Seen(ReposOf(rows))) = {})
                 THEN files ELSE Renamed(FreeName)
  /\ purge' = [purge EXCEPT !.pc = "list"]
  /\ UNCHANGED <<consent, meta, poison, clock, lock, hook, work, received, history, left>>

\* purgeEvents lists the names ...
PurgeList ==
  /\ purge.pc = "list"
  /\ purge' = [purge EXCEPT !.pc = "scan", !.todo = Batches]
  /\ UNCHANGED <<consent, revoked, queue, clock, lock, hook, work, received, history, left>>

\* Mutant of Busy: a batch that is being uploaded is not reported.
Busy_Silent(t) == FALSE

Busy(t) == lock[t] # None

\* ... and takes the lock of each batch, skipping those that are at work.
PurgeBatch(t) ==
  /\ purge.pc = "scan" /\ t \in purge.todo
  /\ purge' = [purge EXCEPT !.todo = @ \ {t}, !.complete = @ /\ ~ Busy(t)]
  /\ IF lock[t] # None THEN UNCHANGED <<files, poison, revoked, meta, expired>>
     ELSE IF purge.all
     THEN /\ expired' = expired \cup UNION {files[i].rows : i \in File("sealed", t)}
          /\ files' = [i \in Ids |-> IF i \in File("sealed", t) \cup File("sent", t) THEN [files[i] EXCEPT !.at = "gone"] ELSE files[i]]
          /\ meta' = [meta EXCEPT ![t] = NoMeta]
          /\ UNCHANGED <<poison, revoked>>
     ELSE Pruned(t) /\ UNCHANGED <<meta, expired>>
  /\ UNCHANGED <<consent, clock, lock, hook, work, received, written, slipped, tries, spent, promised, left>>

\* The command reports whether the queue is clean.
PurgeDone ==
  /\ purge.pc = "scan" /\ purge.todo = {}
  /\ promised' = IF purge.complete /\ ~ purge.all
                 THEN [r \in Repo |->
                        [token |-> IF repo[r].shared THEN promised[r].token ELSE repo[r].token - 1,
                         epoch |-> repo[r].epoch]]
                 ELSE promised
  /\ purge' = NoPurge
  /\ UNCHANGED <<consent, revoked, queue, clock, lock, hook, work, received,
                 written, slipped, expired, tries, spent, left>>

-----------------------------------------------------------------------------

HookStep(h) ==
  HookRecheck(h) \/ HookOpen(h) \/ HookWrite(h) \/ HookEnds(h) \/ HookName(h) \/ HookRename(h)

WorkStep(w) ==
  Post(w) \/ PausedPost(w) \/ Sent(w) \/ Salvage(w) \/ PostAgain(w) \/ Retry(w) \/ Quarantine(w) \/ Cut(w) \/ Close(w)

PurgeStep == PurgeSeal \/ PurgeList \/ PurgeDone \/ \E t \in Times : PurgeBatch(t)

Next ==
  \/ \E h \in Hook : HookSeals(h) \/ HookStep(h) \/ \E r \in Repo : HookRegister(h, r)
  \/ \E w \in Worker : WorkStep(w) \/ TooOld(w) \/ Crash(w) \/ \E t \in Times : Take(w, t)
  \/ \E t \in Times : Expire(t)
  \/ \E r \in Repo : SetConsent(r) \/ SetLocal(r) \/ SetScope(r)
  \/ Tick \/ SetPause \/ SignOut \/ Reconcile \/ PurgeStep

Spec == Init /\ [][Next]_vars

\* Processes go on, and a drain goes over all batches it lists.
FairSpec ==
  /\ Spec
  /\ \A w \in Worker : WF_vars(WorkStep(w)) /\ \A t \in Times : SF_vars(Take(w, t))
  /\ \A h \in Hook : WF_vars(HookStep(h))
  /\ WF_vars(PurgeStep)

-----------------------------------------------------------------------------
(* Properties.                                                               *)

Row == [n : Nat, repo : Repo, token : Nat, epoch : Nat, whole : BOOLEAN]

TypeOK ==
  /\ repo \in [Repo -> [shared : BOOLEAN, local : BOOLEAN, scope : BOOLEAN, token : Nat, epoch : Nat]]
  /\ paused \in BOOLEAN /\ \A r \in Repo : revoked[r] \subseteq 1 .. repo[r].token - 1
  /\ \A i \in Ids : files[i].at \in {"none", "active", "sealed", "sent", "gone"} /\ files[i].rows \subseteq Row
  /\ \A t \in Times : /\ poison[t] \subseteq Row /\ lock[t] \in Worker \cup {None}
                      /\ meta[t].attempts \in 0 .. MaxRetries - 1
                      /\ Cardinality(File("sealed", t)) <= 1
  /\ Cardinality(Active) <= 1
  /\ received \subseteq Row /\ written \subseteq Row

\* A row that was recorded is never lost: it waits in the queue, has arrived, is in
\* quarantine, or was deleted for a revoked consent, its age or a sign-out, also when a
\* worker dies between two writes of a batch that mixes sendable and held rows.  Rows
\* appended to a log that was sealed and read between their open and their write, and
\* a batch that two hooks sealed under one name, are excepted.
EveryRowKept ==
  \A x \in written \ (slipped \cup received \cup expired) :
    \/ \E i \in Ids : files[i].at \in {"active", "sealed"} /\ x \in files[i].rows
    \/ \E t \in Times : x \in poison[t]
    \/ x.epoch # repo[x.repo].epoch \/ x.token \in revoked[x.repo]

\* Rows are given up for failures only when they failed as often themselves: those that
\* were held meanwhile do not inherit the attempts of others (processLockedBatch).
ChargedForOwn == \A x \in spent : tries[x.n] >= MaxRetries

\* Both.
RowsKept == EveryRowKept /\ ChargedForOwn

\* What a purge that reported itself complete has covered is not in a sent copy or in
\* quarantine, nor does it ever arrive: an uploader that had read the rows keeps the
\* purge from being complete.
Clean(x) == x.token <= promised[x.repo].token \/ x.epoch < promised[x.repo].epoch
PurgeMeansGone ==
  \A t \in Times : \A x \in poison[t] \cup UNION {files[i].rows : i \in File("sent", t)} :
    x.whole => x \in slipped \/ ~ Clean(x)
ArrivesUnpurged == \A x \in received' \ received : ~ Clean(x)
PurgeIsFinal == [][ArrivesUnpurged /\ PurgeMeansGone']_vars

\* A batch with rows that may be sent does not stay, after failures, refusals, deaths of
\* workers and batches that mix repositories.
Sendable(x) == ~ x.whole \/ (x.token = repo[x.repo].token /\ Allowed(x.repo))
NothingStays ==
  ~ paused => \A i \in Ids : files[i].at = "sealed" => ~ \E x \in files[i].rows : Sendable(x)
=============================================================================
