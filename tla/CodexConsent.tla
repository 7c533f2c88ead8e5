----------------------------- MODULE CodexConsent -----------------------------
(***************************************************************************)
(* The Codex consent record (lib/consent-store.js), and the commands and     *)
(* forms that change it (mcp_server.js, telemetry.js, repository_telemetry.js,*)
(* lib/consent-actions.js, consent-apply.js, repository-inventory.js).       *)
(*                                                                         *)
(* A command reads the record and what is restricted locally, the user        *)
(* answers, and the command checks the answer against a fresh read, locks      *)
(* the record, compares revisions, renames the new record into place and       *)
(* syncs its directory.  A marker says that a record was seen once, so that     *)
(* one that is gone does not read as none yet.  Nobody evicts a lock; one held   *)
(* for ten seconds no longer commits, and the user may remove it.  One           *)
(* organization owns every repository.  Emptying the queues of what was turned   *)
(* off is CodexEventQueue's and CodexTranscriptQueue's.                        *)
(***************************************************************************)
EXTENDS Naturals, Sequences, SequencesExt

CONSTANTS Command, Repo, None,
  Limits      \* how often each thing below may happen

Bounds == {"crashes", "reboots", "losses", "faults", "stalls", "locals"}

VARIABLES
  saved,    \* the records renamed into place, of which the last is the file's
  lost,     \* the file is gone
  synced,   \* how many of saved a machine crash leaves
  marker,   \* of a record once seen: "none", "volatile" or "synced"
  lock,     \* None, or whose it is and whether ten seconds have passed
  local,    \* repositories restricted by their own settings
  command,  \* what each command is doing
  known,    \* history: a record was read or written
  left      \* the bounds that remain

File == <<saved, lost, synced, marker, known>>
vars == <<File, lock, local, command, left>>

Grants    == {"none", "legacy", "on", "off"} \* legacy: ON without the acknowledgement
Choice    == [is : Grants, at : Nat]         \* at: decided_at
Policy    == [revision : Nat, paused : BOOLEAN, org : Choice, repos : [Repo -> Choice]]
Unset     == [is |-> "none", at |-> 0]
NoPolicy  == [revision |-> 0, paused |-> FALSE, org |-> Unset, repos |-> [r \in Repo |-> Unset]]

Answer ==
  [kind : {"toggle"}, on : {TRUE}, repos : SUBSET Repo]
  \cup [kind : {"onboard"}, on : BOOLEAN, repos : SUBSET Repo]
  \cup [kind : {"repository"}, on : BOOLEAN, repos : {{r} : r \in Repo}]
  \cup [kind : {"organization", "global"}, on : BOOLEAN, repos : {{}}]

Outcomes == {"saved", "unsynced", "stale", "refused", "unchanged", "busy", "missing", "failed"}

Idle == [pc |-> "idle", seen |-> None, restricted |-> {}, answer |-> None, base |-> None, made |-> None,
         created |-> FALSE, slipped |-> FALSE, outcome |-> None]

Use(b) == left[b] > 0 /\ left' = [left EXCEPT ![b] = @ - 1]
At(c, pc) == command[c].pc = pc
To(c, next) == command' = [command EXCEPT ![c] = next]
Go(c, pc) == To(c, [command[c] EXCEPT !.pc = pc])
End(c, pc, outcome) == To(c, [command[c] EXCEPT !.pc = pc, !.outcome = outcome])

-----------------------------------------------------------------------------
(* The record (lib/consent-store.js).                                        *)

Present  == saved # << >> /\ ~ lost
Current  == IF Present THEN Last(saved) ELSE None
Revision(p) == IF p = None THEN 0 ELSE p.revision
OrNew(p)  == IF p = None THEN NoPolicy ELSE p

\* readPolicy: a record that is gone but was seen is an error; one that is there is marked
\* as seen, and an error if the marker cannot be synced.
Readable == Present \/ marker = "none"
\* Mutant of Marking: the marker is not synced.
Marking_Unsynced == marker' = IF marker = "none" THEN "volatile" ELSE marker

Marking  == marker' = IF marker = "none" THEN "synced" ELSE marker

Reads ==
  /\ Readable
  /\ IF Present THEN Marking ELSE UNCHANGED marker
  /\ known' = (known \/ Present)
  /\ UNCHANGED <<saved, lost, synced, left>>

ReadFails ==
  \/ ~ Readable /\ UNCHANGED <<File, left>>
  \/ Present /\ marker = "none" /\ marker' = "volatile" /\ Use("faults")
     /\ UNCHANGED <<saved, lost, synced, known>>

\* Mutant of Decide: the time of a clock that stands still.
Decide_Clock(previous, on) == [is |-> IF on THEN "on" ELSE "off", at |-> 1]

\* decision: later than the one before, whatever the clock says.
Decide(previous, on) == [is |-> IF on THEN "on" ELSE "off", at |-> previous.at + 1]

\* What an answer makes of a record (setRepositoryChoices, setOrganizationRepositories,
\* setOrganizationConsent, setRepositoryOverride, setGlobalEnabled).  A toggle flips what is
\* on; onboarding keeps an organization's record that is ON already.
Written(p, a) ==
  [revision |-> p.revision + 1,
   paused   |-> IF a.kind = "global" THEN ~ a.on ELSE p.paused,
   org      |-> IF a.kind = "organization" \/ (a.kind = "onboard" /\ p.org.is # "on")
                THEN Decide(p.org, a.kind = "onboard" \/ a.on) ELSE p.org,
   repos    |-> [r \in Repo |->
                  IF r \notin a.repos THEN p.repos[r]
                  ELSE Decide(p.repos[r], IF a.kind = "toggle" THEN p.repos[r].is # "on" ELSE a.on)]]

-----------------------------------------------------------------------------
(* Questions and answers.                                                    *)

\* buildInventory: what the picker offers to flip.
Actionable(p, restricted) ==
  IF p.paused \/ p.org.is # "on" THEN {} ELSE Repo \ restricted

Open(choice) == choice.is \in {"none", "legacy"}

\* What the forms offer for what they show (onboardOrganization, reviewRepositories), and the
\* choices consent-set takes with a revision.
Offered(p, restricted) ==
  LET listed == Repo \ restricted
      fresh  == {r \in listed : Open(p.repos[r])}
  IN  {a \in Answer :
         \/ a.kind = "toggle" /\ a.repos # {} /\ a.repos \subseteq Actionable(p, restricted)
         \/ a.kind = "onboard" /\ Open(p.org) /\ a.repos = listed /\ (a.on => listed # {})
         \/ a.kind = "onboard" /\ p.org.is = "on" /\ a.on /\ a.repos = fresh /\ fresh # {}
         \/ a.kind \in {"organization", "repository"}}

\* consent-apply.js: a local OFF refuses an ON, and a repository's needs the organization's.
Refused(p, a) ==
  /\ a.on
  /\ \/ a.kind = "onboard" /\ a.repos \cap local # {}
     \/ a.kind = "repository" /\ (a.repos \cap local # {} \/ p.org.is # "on")

\* A toggle leaves alone what can no longer be flipped (applyRepositoryToggles).
Now(p, a) ==
  IF a.kind = "toggle" THEN [a EXCEPT !.repos = @ \cap Actionable(p, local)] ELSE a

Show(c) ==
  /\ At(c, "idle")
  /\ \/ Reads /\ To(c, [command[c] EXCEPT !.pc = "asked", !.seen = Current, !.restricted = local])
     \/ ReadFails /\ End(c, "done", "missing")
  /\ UNCHANGED <<lock, local>>

\* The answer arrives and is checked against a fresh inventory; the reads up to the lock are
\* one step (runConsentAction, recordConsent, mutate).
Submit(c) ==
  /\ At(c, "asked")
  /\ \E a \in Offered(OrNew(command[c].seen), command[c].restricted) :
       LET p == OrNew(Current)
           next == [command[c] EXCEPT !.answer = Now(p, a)]
       IN  \/ ReadFails /\ To(c, [next EXCEPT !.pc = "done", !.outcome = "missing"])
           \/ /\ Reads
              /\ \/ /\ Revision(Current) # Revision(command[c].seen)
                    /\ To(c, [next EXCEPT !.pc = "done", !.outcome = "stale"])
                 \/ /\ Revision(Current) = Revision(command[c].seen)
                    /\ To(c, CASE Refused(p, a) -> [next EXCEPT !.pc = "done", !.outcome = "refused"]
                               [] a.kind = "toggle" /\ Now(p, a).repos = {} ->
                                    [next EXCEPT !.pc = "done", !.outcome = "unchanged"]
                               [] OTHER -> [next EXCEPT !.pc = "lock"])
  /\ UNCHANGED <<lock, local>>

\* `enable`, `disable` and the pause read the revision themselves (telemetry.js,
\* setTelemetryGloballyDisabled).
Direct(c) ==
  /\ At(c, "idle")
  /\ \E a \in {x \in Answer : x.kind \in {"repository", "global"}} :
       LET next == [command[c] EXCEPT !.answer = a, !.seen = Current, !.restricted = local]
       IN  \/ ReadFails /\ To(c, [next EXCEPT !.pc = "done", !.outcome = "missing"])
           \/ /\ Reads
              /\ To(c, IF Refused(OrNew(Current), a)
                       THEN [next EXCEPT !.pc = "done", !.outcome = "refused"]
                       ELSE [next EXCEPT !.pc = "lock"])
  /\ UNCHANGED <<lock, local>>

-----------------------------------------------------------------------------
(* Writing (withLock, mutate).                                               *)

Owned(c)   == lock # None /\ lock.owner = c
Asserts(c) == Owned(c) /\ ~ lock.old

Lock(c) ==
  /\ At(c, "lock")
  /\ \/ lock = None /\ lock' = [owner |-> c, old |-> FALSE] /\ Go(c, "compare")
     \/ lock # None /\ UNCHANGED lock /\ End(c, "done", "busy")
  /\ UNCHANGED <<File, local, left>>

\* Mutant of Compare: the revision is not compared again under the lock.
Compare_Blind(c) ==
  /\ At(c, "compare")
  /\ \/ ReadFails /\ End(c, "unlock", "missing")
     \/ Reads /\ To(c, [command[c] EXCEPT !.pc = "mark", !.base = Current])
  /\ UNCHANGED <<lock, local>>

Compare(c) ==
  /\ At(c, "compare")
  /\ \/ ReadFails /\ End(c, "unlock", "missing")
     \/ /\ Reads
        /\ IF Revision(Current) = Revision(command[c].seen)
           THEN To(c, [command[c] EXCEPT !.pc = "mark", !.base = Current])
           ELSE End(c, "unlock", "stale")
  /\ UNCHANGED <<lock, local>>

\* The marker precedes the first record, so that a record that is lost is missed; the
\* temporary file is written and synced.
Mark(c) ==
  /\ At(c, "mark")
  /\ LET next == [command[c] EXCEPT !.created = (marker = "none")]
     IN  \/ Marking /\ To(c, [next EXCEPT !.pc = "assert"]) /\ UNCHANGED left
         \/ Use("faults") /\ To(c, [next EXCEPT !.pc = "rollback", !.outcome = "failed"])
            /\ marker' \in IF marker = "none" THEN {"volatile", "synced"} ELSE {marker}
  /\ UNCHANGED <<saved, lost, synced, known, lock, local>>

CheckLock(c) ==
  /\ At(c, "assert")
  /\ IF Asserts(c) THEN Go(c, "rename") ELSE End(c, "rollback", "busy")
  /\ UNCHANGED <<File, lock, local, left>>

Rename(c) ==
  /\ At(c, "rename")
  /\ \/ LET made == Written(OrNew(command[c].base), command[c].answer)
        IN  /\ saved' = Append(saved, made) /\ lost' = FALSE /\ known' = TRUE
            /\ To(c, [command[c] EXCEPT !.pc = "sync", !.made = made])
            /\ UNCHANGED <<synced, marker, left>>
     \/ Use("faults") /\ End(c, "rollback", "failed") /\ UNCHANGED File
  /\ UNCHANGED <<lock, local>>

\* Mutant of Sync: a sync that fails is taken for done.
Sync_Ignored(c) ==
  /\ At(c, "sync")
  /\ \/ synced' = Len(saved) /\ UNCHANGED left
     \/ Use("faults") /\ UNCHANGED synced
  /\ End(c, "unlock", "saved")
  /\ UNCHANGED <<saved, lost, marker, known, lock, local>>

\* A sync that fails, or that the platform does not have, is reported only after the local
\* reconciliation.
Sync(c) ==
  /\ At(c, "sync")
  /\ \/ synced' = Len(saved) /\ End(c, "unlock", "saved") /\ UNCHANGED left
     \/ Use("faults") /\ End(c, "unlock", "unsynced") /\ UNCHANGED synced
  /\ UNCHANGED <<saved, lost, marker, known, lock, local>>

\* A first write that failed takes back its own marker, under its lock and while there is
\* no record.
Rollback(c) ==
  /\ At(c, "rollback")
  /\ Go(c, IF command[c].base = None /\ command[c].created /\ Asserts(c) THEN "unmark" ELSE "unlock")
  /\ UNCHANGED <<File, lock, local, left>>

Unmark(c) ==
  /\ At(c, "unmark")
  /\ marker' = IF Present THEN marker ELSE "none"
  /\ Go(c, "unlock")
  /\ UNCHANGED <<saved, lost, synced, known, lock, local, left>>

Unlock(c) ==
  /\ At(c, "unlock")
  /\ lock' = IF Owned(c) THEN None ELSE lock
  /\ Go(c, IF command[c].outcome = "saved" THEN "report" ELSE "done")
  /\ UNCHANGED <<File, local, left>>

\* The choices shown afterwards are read once more; the read may fail (runConsentAction), or
\* its failure is only shown (recordConsent).
Report(c) ==
  /\ At(c, "report")
  /\ \/ Reads /\ Go(c, "done")
     \/ ReadFails /\ \E o \in {"saved", "missing"} : End(c, "done", o)
  /\ UNCHANGED <<lock, local>>

-----------------------------------------------------------------------------
(* What else happens.                                                        *)

Running(c) == command[c].pc \notin {"idle", "done", "dead"}

Crash(c) ==
  /\ Running(c) /\ Use("crashes")
  /\ Go(c, "dead")
  /\ UNCHANGED <<File, lock, local>>

\* The machine crashes: renames since the last sync may be undone, and a marker that was
\* not synced, and the lock.
Reboot ==
  /\ Use("reboots")
  /\ \E n \in synced .. Len(saved) : saved' = SubSeq(saved, 1, n) /\ synced' = n
  /\ marker' \in IF marker = "volatile" THEN {"none", "volatile"} ELSE {marker}
  /\ lock' \in {lock, None}
  /\ command' = [c \in Command |-> IF Running(c) THEN [command[c] EXCEPT !.pc = "dead"] ELSE command[c]]
  /\ UNCHANGED <<lost, known, local>>

\* Somebody deletes the record.
Lose ==
  /\ Present /\ Use("losses")
  /\ lost' = TRUE
  /\ UNCHANGED <<saved, synced, marker, known, lock, local, command>>

\* Ten seconds pass under the lock.  A command that looked at the lock before and renames
\* after has slipped.
Age ==
  /\ lock # None /\ ~ lock.old
  /\ IF Running(lock.owner) THEN Use("stalls") ELSE UNCHANGED left
  /\ lock' = [lock EXCEPT !.old = TRUE]
  /\ command' = [command EXCEPT ![lock.owner].slipped = At(lock.owner, "rename") \/ At(lock.owner, "unmark")]
  /\ UNCHANGED <<File, local>>

\* "Leave even an old lock for explicit recovery": by the user.
RemoveLock ==
  /\ lock # None /\ lock.old
  /\ lock' = None
  /\ UNCHANGED <<File, local, command, left>>

\* `restrict` and `unrestrict` write a repository's own settings (saveTelemetryOptIn).
Restriction(r) ==
  /\ Use("locals")
  /\ local' = IF r \in local THEN local \ {r} ELSE local \cup {r}
  /\ UNCHANGED <<File, lock, command>>

Step(c) ==
  \/ Show(c) \/ Submit(c) \/ Direct(c) \/ Lock(c) \/ Compare(c) \/ Mark(c) \/ CheckLock(c) \/ Rename(c)
  \/ Sync(c) \/ Rollback(c) \/ Unmark(c) \/ Unlock(c) \/ Report(c)

Next ==
  \/ \E c \in Command : Step(c) \/ Crash(c)
  \/ Reboot \/ Lose \/ Age \/ RemoveLock
  \/ \E r \in Repo : Restriction(r)

\* No record yet, or one of this or an earlier version.
FirstPolicy(o, r) ==
  [revision |-> 1, paused |-> FALSE, org |-> [is |-> o, at |-> 1],
   repos |-> [x \in Repo |-> IF r = "none" THEN Unset ELSE [is |-> r, at |-> 1]]]

Init ==
  /\ saved \in {<< >>} \cup {<<FirstPolicy(o, "none")>> : o \in {"on", "off"}}
                       \cup {<<FirstPolicy("on", "on")>>, <<FirstPolicy("legacy", "legacy")>>}
  /\ lost = FALSE /\ synced = Len(saved) /\ known = (saved # << >>)
  /\ marker = IF known THEN "synced" ELSE "none"
  /\ lock = None /\ local = {}
  /\ command = [c \in Command |-> Idle]
  /\ left = Limits

Spec == Init /\ [][Next]_vars

-----------------------------------------------------------------------------
(* Properties.                                                               *)

Spent(b) == left[b] < Limits[b]
Slipped == \E c \in Command : command[c].slipped

\* A marker that could not be synced may be gone after a crash of the machine; a record that
\* is lost as well then reads as none yet.
Unmarked == Spent("faults") /\ Spent("reboots")
Forgotten == Unmarked /\ Spent("losses")

\* Every state is well typed.
TypeOK ==
  /\ saved \in Seq(Policy) /\ lost \in BOOLEAN /\ synced \in 0 .. Len(saved) /\ known \in BOOLEAN
  /\ marker \in {"none", "volatile", "synced"}
  /\ lock \in [owner : Command, old : BOOLEAN] \cup {None} /\ local \subseteq Repo
  /\ \A c \in Command :
       /\ command[c].seen \in Policy \cup {None} /\ command[c].base \in Policy \cup {None}
       /\ command[c].made \in Policy \cup {None} /\ command[c].answer \in Answer \cup {None}
       /\ command[c].outcome \in Outcomes \cup {None}
       /\ At(c, "done") => command[c].outcome # None
  /\ left \in [Bounds -> Nat]

\* A decision is made from exactly the record that its user was shown, so that no other
\* decision is overwritten and a toggle switches the way it showed; and a repository is
\* turned on only under an organization that is ON (mutate, runConsentAction,
\* applyRepositoryConsent), unless ten seconds pass between the last look at the lock and
\* the rename, or a record and its marker were both forgotten and revisions began anew.
FromWhatWasShown ==
  \A c \in Command : Rename(c) /\ saved' # saved /\ ~ Slipped /\ ~ Forgotten =>
    LET made   == command'[c].made
        before == OrNew(command[c].seen)
    IN  /\ Present => command[c].seen = Current
        /\ \A r \in Repo :
             made.repos[r] # before.repos[r] /\ made.repos[r].is = "on" => made.org.is = "on"
DecidedAsShown == [][FromWhatWasShown]_vars

\* What a command says of its decision is true, whatever failed on the way: one that it
\* says was saved is in the record or in one that followed, also after the machine crashed;
\* after an error nothing was saved, but for the one error that says so, or the record was
\* deleted before it was shown again, or a marker by a rollback that had lost its lock.
ReportIsTrue ==
  \A c \in Command : At(c, "done") =>
    CASE command[c].outcome = "saved"    -> command[c].made \in ToSet(saved)
      [] command[c].outcome = "unsynced" -> command[c].made # None
      [] command[c].outcome = "missing"  -> command[c].made = None \/ Spent("losses") \/ Slipped
      [] OTHER                           -> command[c].made = None

\* A record that was read or written and is gone never reads as none yet, unless the marker
\* could not be synced before a crash of the machine.
LossIsSeen ==
  known /\ ~ Unmarked /\ ~ Slipped => marker # "none"

\* A repository's stamp never comes back after another decision, so that what was queued
\* under a grant that was revoked is not sent under a later one, also if the clock stands
\* still (decision, evaluateRepositoryConsent), with the two exceptions of FromWhatWasShown.
Stamp(p, r) == <<p.org, p.repos[r]>>
StampsFresh ==
  ~ Slipped /\ ~ Forgotten =>
    \A r \in Repo : \A i, k \in DOMAIN saved :
      i < k /\ Stamp(saved[i], r) = Stamp(saved[k], r) =>
        \A n \in i .. k : Stamp(saved[n], r) = Stamp(saved[i], r)

\* Neither a record that was lost nor a stamp that was replaced comes back (readPolicy,
\* decision).
DecisionsStay == LossIsSeen /\ StampsFresh
=============================================================================
