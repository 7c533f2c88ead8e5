--------------------------- MODULE CodexConsentProofs ---------------------------
(***************************************************************************)
(* Proofs about CodexConsent, for any commands, repositories and bounds.     *)
(* Everything rests on one argument: a command that holds a lock younger than *)
(* ten seconds is the only one that renames, so that from its comparison of    *)
(* revisions to its rename the record is the one that its user was shown; and  *)
(* on the marker, which keeps a record that is gone from being taken for none   *)
(* yet, for then revisions and stamps would begin anew.                        *)
(***************************************************************************)
EXTENDS CodexConsent, SequenceTheorems, TLAPS

LockSet == [owner : Command, old : BOOLEAN]
Phases  == {"idle", "asked", "lock", "compare", "mark", "assert", "rename", "sync", "rollback",
            "unmark", "unlock", "report", "done", "dead"}
CommandSet ==
  [pc : Phases, seen : Policy \cup {None}, restricted : SUBSET Repo, answer : Answer \cup {None},
   base : Policy \cup {None}, made : Policy \cup {None}, created : BOOLEAN, slipped : BOOLEAN,
   outcome : Outcomes \cup {None}]

\* What is assumed of the constants.
Constants == /\ Limits \in [Bounds -> Nat]
             /\ None \notin Policy /\ None \notin LockSet /\ None \notin Outcomes

Types ==
  /\ Constants
  /\ saved \in Seq(Policy) /\ lost \in BOOLEAN /\ synced \in 0 .. Len(saved) /\ known \in BOOLEAN
  /\ marker \in {"none", "volatile", "synced"}
  /\ lock \in LockSet \cup {None} /\ local \subseteq Repo
  /\ command \in [Command -> CommandSet]
  /\ \A c \in Command :
       command[c].pc \in {"lock", "compare", "mark", "assert", "rename"} =>
         command[c].answer \in Answer
  /\ left \in [Bounds -> Nat] /\ \A b \in Bounds : left[b] <= Limits[b]

\* A lock that was looked at in time and has not aged since is still the command's own.
Locked ==
  \A c \in Command :
    /\ command[c].pc \in {"idle", "asked", "lock"} => ~ command[c].slipped
    /\ Asserts(c) => ~ command[c].slipped
    /\ command[c].pc \in {"rename", "unmark"} /\ ~ command[c].slipped => Asserts(c)

\* What a command has made, will say and began with, by how far it is.
Phase(pc, outcome, made, base) ==
  /\ pc \in {"idle", "asked", "lock", "compare", "mark", "assert", "rename"} =>
       made = None /\ outcome = None
  /\ pc \in {"rollback", "unmark"} => made = None /\ outcome \in {"failed", "busy"}
  /\ pc = "unmark" => base = None
  /\ pc = "sync" => made # None /\ outcome = None
  /\ pc = "report" => outcome = "saved"
  /\ pc \in {"unlock", "report", "done"} =>
       /\ outcome # None
       /\ outcome \in {"saved", "unsynced"} => made # None
       /\ outcome \notin {"saved", "unsynced", "missing"} => made = None
  /\ pc = "unlock" /\ outcome = "missing" => made = None
PhaseOf(n) == Phase(n.pc, n.outcome, n.made, n.base)
Phased     == \A c \in Command : PhaseOf(command[c])

\* What was renamed into place is in the record, and once it was synced it stays there.
Kept ==
  \A c \in Command :
    /\ command[c].pc = "sync" => \E i \in 1 .. Len(saved) : saved[i] = command[c].made
    /\ command[c].outcome = "saved" => \E i \in 1 .. synced : saved[i] = command[c].made

Writers == {"mark", "assert", "rename", "rollback", "unmark"}

\* The command has renamed its record and not reported yet.
Renamed(c) ==
  \/ command[c].pc \in {"sync", "report"}
  \/ command[c].pc = "unlock" /\ command[c].outcome = "saved"

\* Whoever renames has a marker; and no command begins anew a record that was known.
Marked ==
  /\ marker = "volatile" => Spent("faults")
  /\ saved # << >> => known
  /\ lost => known /\ Spent("losses")
  /\ LossIsSeen
  /\ ~ Slipped => \A c \in Command :
       /\ Asserts(c) /\ command[c].pc \in {"assert", "rename"} => marker # "none"
       /\ Renamed(c) /\ ~ Spent("losses") => marker # "none" /\ saved # << >>
       /\ /\ ~ Unmarked /\ Asserts(c) /\ command[c].base = None
          /\ command[c].pc \in Writers
          => ~ known

\* Each choice of a record is the one of an earlier record or decided later.
Later(x, y)   == x.at <= y.at /\ (x.at = y.at => x = y)
Follows(p, q) == /\ p.revision < q.revision /\ Later(p.org, q.org)
                 /\ \A r \in Repo : Later(p.repos[r], q.repos[r])
Chained(s)    == \A i, k \in 1 .. Len(s) : i < k => Follows(s[i], s[k])

\* The newest record, lost or not.
Newest == IF saved = << >> THEN None ELSE saved[Len(saved)]

\* An answer turns repositories on only if the record has its organization on, or will.
Fits(p, a) ==
  /\ a \in Answer
  /\ a.kind = "toggle" /\ a.repos # {} => p.org.is = "on"
  /\ a.kind = "repository" /\ a.on => p.org.is = "on"

\* Every command has seen a record that there was; and under its lock the one it has seen is
\* the newest.
Shown ==
  /\ \A i \in 1 .. Len(saved) : saved[i].revision > 0
  /\ \A c \in Command : Running(c) =>
       command[c].seen = None \/ \E i \in 1 .. Len(saved) : saved[i] = command[c].seen
  /\ ~ Slipped /\ ~ Forgotten =>
       /\ Chained(saved)
       /\ \A c \in Command :
            /\ command[c].pc \in {"lock", "compare", "mark", "assert", "rename"} =>
                 Fits(OrNew(command[c].seen), command[c].answer)
            /\ Asserts(c) /\ command[c].pc \in {"mark", "assert", "rename"} =>
                 command[c].seen = Newest /\ command[c].base = Newest

\* Whoever reports a loss that was none has slipped.
Reported ==
  \A c \in Command : command[c].pc = "done" /\ command[c].outcome = "missing" =>
    command[c].made = None \/ Spent("losses") \/ Slipped

ConsentInvariant == Types /\ Locked /\ Phased /\ Kept /\ Marked /\ Shown /\ Reported

\* What a step of a command leaves of its record, and of all others.
Others(c)      == \A d \in Command \ {c} : command'[d] = command[d]
Moves(c, p, o) == /\ command'[c].pc = p /\ command'[c].outcome = o
                  /\ command'[c].slipped = command[c].slipped /\ Others(c)
SameSeen(c)    == command'[c].seen = command[c].seen /\ command'[c].answer = command[c].answer
SameBase(c)    == command'[c].base = command[c].base /\ command'[c].created = command[c].created
SameMade(c)    == command'[c].made = command[c].made
Same(c)        == SameSeen(c) /\ SameBase(c) /\ SameMade(c)

LEMMA ShowMoves ==
  ASSUME Types, NEW c \in Command, Show(c)
  PROVE  /\ At(c, "idle") /\ lock' = lock /\ local' = local /\ SameMade(c) /\ SameBase(c)
         /\ \/ /\ Reads /\ Moves(c, "asked", command[c].outcome)
               /\ command'[c].seen = Current /\ command'[c].answer = command[c].answer
            \/ ReadFails /\ Moves(c, "done", "missing") /\ SameSeen(c)
  <1>1. command \in [Command -> CommandSet] /\ command[c] \in CommandSet
    BY DEF Types
  <1>2. QED
    BY <1>1, ZenonT(30)
       DEF Show, To, End, CommandSet, Moves, Others, SameSeen, SameBase, SameMade

LEMMA SubmitMoves ==
  ASSUME Types, NEW c \in Command, Submit(c)
  PROVE  /\ At(c, "asked") /\ lock' = lock /\ local' = local /\ SameMade(c) /\ SameBase(c)
         /\ command'[c].seen = command[c].seen
         /\ \E a \in Offered(OrNew(command[c].seen), command[c].restricted) :
              /\ command'[c].answer = Now(OrNew(Current), a)
              /\ \/ ReadFails /\ Moves(c, "done", "missing")
                 \/ Reads /\ \E o \in {"stale", "refused", "unchanged"} : Moves(c, "done", o)
                 \/ /\ Reads /\ Moves(c, "lock", command[c].outcome)
                    /\ Revision(Current) = Revision(command[c].seen)
                    /\ ~ Refused(OrNew(Current), a)
  <1>1. command \in [Command -> CommandSet] /\ command[c] \in CommandSet
    BY DEF Types
  <1>2. PICK a \in Offered(OrNew(command[c].seen), command[c].restricted) :
       LET p == OrNew(Current)
           next == [command[c] EXCEPT !.answer = Now(p, a)]
       IN  \/ ReadFails /\ To(c, [next EXCEPT !.pc = "done", !.outcome = "missing"])
           \/ /\ Reads
              /\ \/ /\ Revision(Current) # Revision(command[c].seen)
                    /\ To(c, [next EXCEPT !.pc = "done", !.outcome = "stale"])
                 \/ /\ Revision(Current) = Revision(command[c].seen)
                    /\ To(c, CASE Refused(p, a) ->
                                    [next EXCEPT !.pc = "done", !.outcome = "refused"]
                               [] a.kind = "toggle" /\ Now(p, a).repos = {} ->
                                    [next EXCEPT !.pc = "done", !.outcome = "unchanged"]
                               [] OTHER -> [next EXCEPT !.pc = "lock"])
    BY DEF Submit
  <1> DEFINE p == OrNew(Current)
               next == [command[c] EXCEPT !.answer = Now(p, a)]
               R == command'[c]
  <1>4. ASSUME NEW q, NEW o, To(c, [next EXCEPT !.pc = q, !.outcome = o])
        PROVE  /\ Moves(c, q, o) /\ SameBase(c) /\ SameMade(c)
               /\ R.seen = command[c].seen /\ R.answer = Now(p, a)
    BY <1>1, <1>4 DEF To, CommandSet, Moves, Others, SameBase, SameMade
  <1>5. ASSUME To(c, [next EXCEPT !.pc = "lock"])
        PROVE  /\ Moves(c, "lock", command[c].outcome) /\ SameBase(c) /\ SameMade(c)
               /\ R.seen = command[c].seen /\ R.answer = Now(p, a)
    BY <1>1, <1>5 DEF To, CommandSet, Moves, Others, SameBase, SameMade
  <1>6. At(c, "asked") /\ lock' = lock /\ local' = local
    BY DEF Submit
  <1>7. CASE ReadFails /\ To(c, [next EXCEPT !.pc = "done", !.outcome = "missing"])
    BY <1>4, <1>6, <1>7
  <1>8. CASE Reads /\ Revision(Current) # Revision(command[c].seen)
    BY <1>2, <1>4, <1>6, <1>8
  <1>9. CASE Reads /\ Revision(Current) = Revision(command[c].seen) /\ Refused(p, a)
    BY <1>2, <1>4, <1>6, <1>9
  <1>10. CASE Reads /\ Revision(Current) = Revision(command[c].seen) /\ ~ Refused(p, a)
    BY <1>2, <1>4, <1>5, <1>6, <1>10
  <1>11. QED
    BY <1>2, <1>7, <1>8, <1>9, <1>10

LEMMA GoesAndEnds ==
  ASSUME Types, NEW c \in Command
  PROVE  /\ \A q : Go(c, q) => Moves(c, q, command[c].outcome) /\ Same(c)
         /\ \A q, o : End(c, q, o) => Moves(c, q, o) /\ Same(c)
  <1>1. command \in [Command -> CommandSet] /\ command[c] \in CommandSet
    BY DEF Types
  <1>2. ASSUME NEW q, Go(c, q)
        PROVE  Moves(c, q, command[c].outcome) /\ Same(c)
    BY <1>1, <1>2 DEF Go, To, CommandSet, Moves, Others, Same, SameSeen, SameBase, SameMade
  <1>3. ASSUME NEW q, NEW o, End(c, q, o)
        PROVE  Moves(c, q, o) /\ Same(c)
    BY <1>1, <1>3 DEF End, To, CommandSet, Moves, Others, Same, SameSeen, SameBase, SameMade
  <1>4. QED
    BY <1>2, <1>3

LEMMA LockMoves ==
  ASSUME Types, NEW c \in Command, Lock(c)
  PROVE  /\ At(c, "lock") /\ Same(c) /\ UNCHANGED <<File, local, left>>
         /\ \/ /\ lock = None /\ lock' = [owner |-> c, old |-> FALSE]
               /\ Moves(c, "compare", command[c].outcome)
            \/ lock' = lock /\ Moves(c, "done", "busy")
  BY GoesAndEnds DEF Lock, At, File

LEMMA CompareMoves ==
  ASSUME Types, NEW c \in Command, Compare(c)
  PROVE  /\ At(c, "compare") /\ lock' = lock /\ local' = local /\ SameSeen(c) /\ SameMade(c)
         /\ command'[c].created = command[c].created
         /\ \/ ReadFails /\ Moves(c, "unlock", "missing")
            \/ Reads /\ Moves(c, "unlock", "stale")
            \/ /\ Reads /\ Moves(c, "mark", command[c].outcome)
               /\ Revision(Current) = Revision(command[c].seen) /\ command'[c].base = Current
  <1>1. command \in [Command -> CommandSet] /\ command[c] \in CommandSet
    BY DEF Types
  <1>2. ASSUME To(c, [command[c] EXCEPT !.pc = "mark", !.base = Current])
        PROVE  /\ Moves(c, "mark", command[c].outcome) /\ SameSeen(c) /\ SameMade(c)
               /\ command'[c].created = command[c].created /\ command'[c].base = Current
    BY <1>1, <1>2 DEF To, CommandSet, Moves, Others, SameSeen, SameMade
  <1>3. QED
    BY <1>2, GoesAndEnds DEF Compare, At, Same, SameBase

LEMMA MarkMoves ==
  ASSUME Types, NEW c \in Command, Mark(c)
  PROVE  /\ At(c, "mark") /\ UNCHANGED <<saved, lost, synced, known, lock, local>>
         /\ SameSeen(c) /\ SameMade(c) /\ command'[c].base = command[c].base
         /\ \/ /\ Marking /\ left' = left
               /\ Moves(c, "assert", command[c].outcome)
            \/ /\ Use("faults") /\ Moves(c, "rollback", "failed")
               /\ marker' \in IF marker = "none" THEN {"volatile", "synced"} ELSE {marker}
  <1>1. command \in [Command -> CommandSet] /\ command[c] \in CommandSet
    BY DEF Types
  <1>2. ASSUME NEW x, To(c, [[command[c] EXCEPT !.created = x] EXCEPT !.pc = "assert"])
        PROVE  /\ Moves(c, "assert", command[c].outcome) /\ SameSeen(c) /\ SameMade(c)
               /\ command'[c].base = command[c].base
    BY <1>1, <1>2 DEF To, CommandSet, Moves, Others, SameSeen, SameMade
  <1>3. ASSUME NEW x,
               To(c, [[command[c] EXCEPT !.created = x]
                        EXCEPT !.pc = "rollback", !.outcome = "failed"])
        PROVE  /\ Moves(c, "rollback", "failed") /\ SameSeen(c) /\ SameMade(c)
               /\ command'[c].base = command[c].base
    BY <1>1, <1>3 DEF To, CommandSet, Moves, Others, SameSeen, SameMade
  <1>4. QED
    BY <1>2, <1>3 DEF Mark, At

LEMMA CheckLockMoves ==
  ASSUME Types, NEW c \in Command, CheckLock(c)
  PROVE  /\ At(c, "assert") /\ UNCHANGED <<File, lock, local, left>> /\ Same(c)
         /\ \/ Asserts(c) /\ Moves(c, "rename", command[c].outcome)
            \/ Moves(c, "rollback", "busy")
  BY GoesAndEnds DEF CheckLock, At, File

LEMMA RenameMoves ==
  ASSUME Types, NEW c \in Command, Rename(c)
  PROVE  /\ At(c, "rename") /\ UNCHANGED <<lock, local>> /\ SameSeen(c) /\ SameBase(c)
         /\ \/ /\ saved' = Append(saved, command'[c].made) /\ lost' = FALSE /\ known' = TRUE
               /\ command'[c].made = Written(OrNew(command[c].base), command[c].answer)
               /\ Moves(c, "sync", command[c].outcome) /\ UNCHANGED <<synced, marker, left>>
            \/ /\ Use("faults") /\ UNCHANGED File /\ SameMade(c)
               /\ Moves(c, "rollback", "failed")
  <1>1. command \in [Command -> CommandSet] /\ command[c] \in CommandSet
    BY DEF Types
  <1>2. ASSUME NEW x, To(c, [command[c] EXCEPT !.pc = "sync", !.made = x])
        PROVE  /\ Moves(c, "sync", command[c].outcome) /\ SameSeen(c) /\ SameBase(c)
               /\ command'[c].made = x
    BY <1>1, <1>2 DEF To, CommandSet, Moves, Others, SameSeen, SameBase
  <1>3. QED
    BY <1>2, GoesAndEnds DEF Rename, At, File, Same

LEMMA SyncMoves ==
  ASSUME Types, NEW c \in Command, Sync(c)
  PROVE  /\ At(c, "sync") /\ UNCHANGED <<saved, lost, marker, known, lock, local>> /\ Same(c)
         /\ \/ synced' = Len(saved) /\ left' = left /\ Moves(c, "unlock", "saved")
            \/ Use("faults") /\ synced' = synced /\ Moves(c, "unlock", "unsynced")
  BY GoesAndEnds DEF Sync, At, File

LEMMA RollbackMoves ==
  ASSUME Types, NEW c \in Command, Rollback(c)
  PROVE  /\ At(c, "rollback") /\ UNCHANGED <<File, lock, local, left>> /\ Same(c)
         /\ \/ /\ command[c].base = None /\ Asserts(c)
               /\ Moves(c, "unmark", command[c].outcome)
            \/ Moves(c, "unlock", command[c].outcome)
  BY GoesAndEnds DEF Rollback, At, File

LEMMA UnmarkMoves ==
  ASSUME Types, NEW c \in Command, Unmark(c)
  PROVE  /\ At(c, "unmark") /\ UNCHANGED <<saved, lost, synced, known, lock, local, left>>
         /\ Same(c) /\ marker' = (IF Present THEN marker ELSE "none")
         /\ Moves(c, "unlock", command[c].outcome)
  BY GoesAndEnds DEF Unmark, At, File

LEMMA UnlockMoves ==
  ASSUME Types, NEW c \in Command, Unlock(c)
  PROVE  /\ At(c, "unlock") /\ UNCHANGED <<File, local, left>> /\ Same(c)
         /\ lock' = (IF Owned(c) THEN None ELSE lock)
         /\ \/ command[c].outcome = "saved" /\ Moves(c, "report", command[c].outcome)
            \/ command[c].outcome # "saved" /\ Moves(c, "done", command[c].outcome)
  BY GoesAndEnds DEF Unlock, At, File

LEMMA ReportMoves ==
  ASSUME Types, NEW c \in Command, Report(c)
  PROVE  /\ At(c, "report") /\ UNCHANGED <<lock, local>> /\ Same(c)
         /\ \/ Reads /\ Moves(c, "done", command[c].outcome)
            \/ ReadFails /\ \E o \in {"saved", "missing"} : Moves(c, "done", o)
  BY GoesAndEnds DEF Report, At, File

LEMMA CrashMoves ==
  ASSUME Types, NEW c \in Command, Crash(c)
  PROVE  /\ Running(c) /\ Use("crashes") /\ UNCHANGED <<File, lock, local>> /\ Same(c)
         /\ Moves(c, "dead", command[c].outcome)
  BY GoesAndEnds DEF Crash, At, File

LEMMA DirectMoves ==
  ASSUME Types, NEW c \in Command, Direct(c)
  PROVE  /\ At(c, "idle") /\ lock' = lock /\ local' = local /\ SameMade(c) /\ SameBase(c)
         /\ command'[c].seen = Current
         /\ \E a \in Answer :
              /\ command'[c].answer = a /\ a.kind \in {"repository", "global"}
              /\ \/ ReadFails /\ Moves(c, "done", "missing")
                 \/ Reads /\ Moves(c, "done", "refused")
                 \/ /\ Reads /\ Moves(c, "lock", command[c].outcome)
                    /\ ~ Refused(OrNew(Current), a)
  <1>1. command \in [Command -> CommandSet] /\ command[c] \in CommandSet
    BY DEF Types
  <1>2. PICK a \in {x \in Answer : x.kind \in {"repository", "global"}} :
       LET next == [command[c] EXCEPT !.answer = a, !.seen = Current, !.restricted = local]
       IN  \/ ReadFails /\ To(c, [next EXCEPT !.pc = "done", !.outcome = "missing"])
           \/ /\ Reads
              /\ To(c, IF Refused(OrNew(Current), a)
                       THEN [next EXCEPT !.pc = "done", !.outcome = "refused"]
                       ELSE [next EXCEPT !.pc = "lock"])
    BY DEF Direct
  <1> DEFINE next == [command[c] EXCEPT !.answer = a, !.seen = Current, !.restricted = local]
             R == command'[c]
  <1>3. ASSUME NEW q, NEW o, To(c, [next EXCEPT !.pc = q, !.outcome = o])
        PROVE  Moves(c, q, o) /\ SameBase(c) /\ SameMade(c) /\ R.seen = Current /\ R.answer = a
    BY <1>1, <1>3 DEF To, CommandSet, Moves, Others, SameBase, SameMade
  <1>4. ASSUME To(c, [next EXCEPT !.pc = "lock"])
        PROVE  /\ Moves(c, "lock", command[c].outcome) /\ SameBase(c) /\ SameMade(c)
               /\ R.seen = Current /\ R.answer = a
    BY <1>1, <1>4 DEF To, CommandSet, Moves, Others, SameBase, SameMade
  <1>5. At(c, "idle") /\ lock' = lock /\ local' = local
    BY DEF Direct
  <1>6. CASE ReadFails /\ To(c, [next EXCEPT !.pc = "done", !.outcome = "missing"])
    BY <1>2, <1>3, <1>5, <1>6
  <1>7. CASE /\ Reads /\ Refused(OrNew(Current), a)
             /\ To(c, [next EXCEPT !.pc = "done", !.outcome = "refused"])
    BY <1>2, <1>3, <1>5, <1>7
  <1>8. CASE Reads /\ ~ Refused(OrNew(Current), a) /\ To(c, [next EXCEPT !.pc = "lock"])
    BY <1>2, <1>4, <1>5, <1>8
  <1>9. QED
    BY <1>2, <1>6, <1>7, <1>8

LEMMA AgeMoves ==
  ASSUME Types, Age
  PROVE  /\ lock \in LockSet /\ lock # None /\ ~ lock.old /\ UNCHANGED <<File, local>>
         /\ lock' \in LockSet /\ lock'.owner = lock.owner /\ lock'.old
         /\ \A c \in Command :
              /\ Same(c) /\ command'[c].pc = command[c].pc
              /\ command'[c].outcome = command[c].outcome
              /\ command'[c].slipped =
                   IF c = lock.owner THEN command[c].pc \in {"rename", "unmark"}
                   ELSE command[c].slipped
  <1>1. lock \in LockSet /\ command \in [Command -> CommandSet] /\ lock # None /\ ~ lock.old
    BY DEF Types, Age
  <1>2. lock.owner \in Command /\ lock' = [owner |-> lock.owner, old |-> TRUE]
    BY <1>1 DEF Age, LockSet
  <1>3. \A c \in Command : command[c] \in CommandSet
    BY <1>1
  <1>4. command' = [command EXCEPT ![lock.owner].slipped =
                      At(lock.owner, "rename") \/ At(lock.owner, "unmark")]
    BY DEF Age
  <1>5. \A c \in Command :
           /\ Same(c) /\ command'[c].pc = command[c].pc
           /\ command'[c].outcome = command[c].outcome
           /\ command'[c].slipped =
                IF c = lock.owner THEN command[c].pc \in {"rename", "unmark"}
                ELSE command[c].slipped
    BY <1>1, <1>2, <1>3, <1>4 DEF CommandSet, Same, SameSeen, SameBase, SameMade, At
  <1>6. QED
    BY <1>1, <1>2, <1>5 DEF Age, LockSet

LEMMA RebootMoves ==
  ASSUME Types, Reboot
  PROVE  /\ Use("reboots") /\ lock' \in {lock, None} /\ UNCHANGED <<lost, known, local>>
         /\ \E n \in synced .. Len(saved) : saved' = SubSeq(saved, 1, n) /\ synced' = n
         /\ marker' \in (IF marker = "volatile" THEN {"none", "volatile"} ELSE {marker})
         /\ \A c \in Command :
              /\ Same(c) /\ command'[c].outcome = command[c].outcome
              /\ command'[c].slipped = command[c].slipped
              /\ command'[c].pc = IF Running(c) THEN "dead" ELSE command[c].pc
  <1>1. \A c \in Command : command[c] \in CommandSet
    BY DEF Types
  <1>2. \A c \in Command :
          command'[c] = IF Running(c) THEN [command[c] EXCEPT !.pc = "dead"] ELSE command[c]
    BY DEF Reboot
  <1>3. \A c \in Command :
          /\ Same(c) /\ command'[c].outcome = command[c].outcome
          /\ command'[c].slipped = command[c].slipped
          /\ command'[c].pc = IF Running(c) THEN "dead" ELSE command[c].pc
    BY <1>1, <1>2 DEF CommandSet, Same, SameSeen, SameBase, SameMade
  <1>4. QED
    BY <1>3 DEF Reboot

\* Applying an answer makes a record of a record.
LEMMA WrittenIsPolicy ==
  ASSUME NEW p \in Policy, NEW a \in Answer
  PROVE  Written(p, a) \in Policy
  <1>1. /\ p.revision \in Nat /\ p.paused \in BOOLEAN /\ p.org \in Choice
        /\ p.repos \in [Repo -> Choice]
    BY DEF Policy
  <1>2. \A x \in Choice, on \in BOOLEAN : Decide(x, on) \in Choice
    BY DEF Choice, Grants, Decide
  <1>3. a.on \in BOOLEAN
    BY DEF Answer
  <1>4. (IF a.kind = "global" THEN ~ a.on ELSE p.paused) \in BOOLEAN
    BY <1>1, <1>3
  <1>5. (IF a.kind = "organization" \/ (a.kind = "onboard" /\ p.org.is # "on")
         THEN Decide(p.org, a.kind = "onboard" \/ a.on) ELSE p.org) \in Choice
    <2>1. (a.kind = "onboard" \/ a.on) \in BOOLEAN
      BY <1>3
    <2>2. QED
      BY <1>1, <1>2, <2>1
  <1>6. \A r \in Repo :
          (IF r \notin a.repos THEN p.repos[r]
           ELSE Decide(p.repos[r], IF a.kind = "toggle" THEN p.repos[r].is # "on"
                                   ELSE a.on)) \in Choice
    <2>1. SUFFICES ASSUME NEW r \in Repo
                   PROVE  (IF r \notin a.repos THEN p.repos[r]
                           ELSE Decide(p.repos[r], IF a.kind = "toggle" THEN p.repos[r].is # "on"
                                                   ELSE a.on)) \in Choice
      OBVIOUS
    <2>2. (IF a.kind = "toggle" THEN p.repos[r].is # "on" ELSE a.on) \in BOOLEAN
      BY <1>3
    <2>3. QED
      BY <1>1, <1>2, <2>2
  <1>7. QED
    BY <1>1, <1>4, <1>5, <1>6 DEF Written, Policy

LEMMA RecordIsPolicy ==
  ASSUME Types
  PROVE  /\ Current \in Policy \cup {None} /\ OrNew(Current) \in Policy
         /\ NoPolicy \in Policy
         /\ Present => /\ Current = saved[Len(saved)] /\ saved[Len(saved)] \in Policy
                       /\ Len(saved) \in 1 .. Len(saved)
  <1>1. saved \in Seq(Policy)
    BY DEF Types
  <1>2. saved # << >> => Len(saved) \in 1 .. Len(saved) /\ saved[Len(saved)] \in Policy
    BY <1>1, EmptySeq, LenProperties, ElementOfSeq
  <1>3. NoPolicy \in Policy
    BY DEF NoPolicy, Policy, Unset, Choice, Grants
  <1>4. QED
    BY <1>2, <1>3 DEF Current, Present, Last, OrNew

\* An answer stays one when what can no longer be flipped is left out of it.
LEMMA NowIsAnswer ==
  ASSUME Types, NEW p, NEW a \in Answer
  PROVE  Now(p, a) \in Answer
  <1>1. CASE a.kind = "toggle"
    <2>1. a \in [kind : {"toggle"}, on : {TRUE}, repos : SUBSET Repo]
      BY <1>1 DEF Answer
    <2>2. [a EXCEPT !.repos = @ \cap Actionable(p, local)]
            \in [kind : {"toggle"}, on : {TRUE}, repos : SUBSET Repo]
      BY <2>1
    <2>3. QED
      BY <1>1, <2>2 DEF Now, Answer
  <1>2. QED
    BY <1>1 DEF Now

\* So does the command that renames.
LEMMA MadeIsPolicy ==
  ASSUME Types, NEW c \in Command, At(c, "rename")
  PROVE  Written(OrNew(command[c].base), command[c].answer) \in Policy
  <1>1. command[c].answer \in Answer /\ command[c].base \in Policy \cup {None}
    BY DEF Types, At, CommandSet
  <1>2. OrNew(command[c].base) \in Policy
    BY <1>1, RecordIsPolicy DEF OrNew
  <1>3. QED
    BY <1>1, <1>2, WrittenIsPolicy

\* A record that changes in some fields stays one.
LEMMA ChangeTyped ==
  ASSUME NEW m \in CommandSet, NEW q \in Phases
  PROVE  /\ [m EXCEPT !.pc = q] \in CommandSet
         /\ \A o \in Outcomes : [m EXCEPT !.pc = q, !.outcome = o] \in CommandSet
         /\ \A p \in Policy \cup {None} :
              /\ [m EXCEPT !.pc = q, !.base = p] \in CommandSet
              /\ [m EXCEPT !.pc = q, !.made = p] \in CommandSet
              /\ \A R \in SUBSET Repo :
                   /\ [m EXCEPT !.pc = q, !.seen = p, !.restricted = R] \in CommandSet
                   /\ \A a \in Answer :
                        [m EXCEPT !.answer = a, !.seen = p, !.restricted = R] \in CommandSet
         /\ \A a \in Answer : [m EXCEPT !.answer = a] \in CommandSet
         /\ \A b \in BOOLEAN : [m EXCEPT !.created = b] \in CommandSet
         /\ \A b \in BOOLEAN : [m EXCEPT !.slipped = b] \in CommandSet
  BY ZenonT(30) DEF CommandSet

LEMMA GoTyped ==
  ASSUME Types, NEW c \in Command
  PROVE  /\ \A n \in CommandSet : To(c, n) => command' \in [Command -> CommandSet]
         /\ \A q \in Phases : Go(c, q) => command' \in [Command -> CommandSet]
         /\ \A q \in Phases, o \in Outcomes : End(c, q, o) => command' \in [Command -> CommandSet]
  <1>1. command \in [Command -> CommandSet] /\ command[c] \in CommandSet
    BY DEF Types
  <1>2. \A n \in CommandSet : To(c, n) => command' \in [Command -> CommandSet]
    BY <1>1 DEF To
  <1>3. \A q \in Phases : [command[c] EXCEPT !.pc = q] \in CommandSet
    BY <1>1, ChangeTyped
  <1>4. \A q \in Phases, o \in Outcomes : [command[c] EXCEPT !.pc = q, !.outcome = o] \in CommandSet
    BY <1>1, ChangeTyped
  <1>5. QED
    BY <1>2, <1>3, <1>4 DEF Go, End

\* A command keeps its type.
LEMMA CommandTyped ==
  ASSUME Types, [Next]_vars
  PROVE  command' \in [Command -> CommandSet]
  <1>0. /\ command \in [Command -> CommandSet] /\ local \in SUBSET Repo
        /\ \A c \in Command : command[c] \in CommandSet
    BY DEF Types
  <1>1. ASSUME NEW c \in Command, Show(c)
        PROVE  command' \in [Command -> CommandSet]
    BY <1>0, RecordIsPolicy, GoTyped, ChangeTyped, <1>1 DEF Show, At, File, Present, Phases,
       Outcomes
  <1>2. ASSUME NEW c \in Command, Submit(c)
        PROVE  command' \in [Command -> CommandSet]
    <2>1. PICK a \in Offered(OrNew(command[c].seen), command[c].restricted) :
            LET next == [command[c] EXCEPT !.answer = Now(OrNew(Current), a)] IN
            \/ To(c, [next EXCEPT !.pc = "lock"])
            \/ \E o \in {"missing", "stale", "refused", "unchanged"} :
                 To(c, [next EXCEPT !.pc = "done", !.outcome = o])
      BY <1>2 DEF Submit
    <2>2. Now(OrNew(Current), a) \in Answer
      BY NowIsAnswer DEF Offered
    <2>3. {"lock", "done"} \subseteq Phases
      BY DEF Phases
    <2>4. [command[c] EXCEPT !.answer = Now(OrNew(Current), a)] \in CommandSet
      BY <1>0, <2>2, <2>3, ChangeTyped
    <2>5. {"missing", "stale", "refused", "unchanged"} \subseteq Outcomes
      BY DEF Outcomes
    <2>6. QED
      BY <2>1, <2>3, <2>4, <2>5, GoTyped, ChangeTyped
  <1>3. ASSUME NEW c \in Command, Direct(c)
        PROVE  command' \in [Command -> CommandSet]
    BY <1>0, RecordIsPolicy, GoTyped, ChangeTyped, ZenonT(30), <1>3 DEF Direct, Phases, Outcomes
  <1>4. ASSUME NEW c \in Command, Lock(c)
        PROVE  command' \in [Command -> CommandSet]
    BY <1>0, RecordIsPolicy, GoTyped, ChangeTyped, <1>4 DEF Lock, At, File, Phases, Outcomes
  <1>5. ASSUME NEW c \in Command, Compare(c)
        PROVE  command' \in [Command -> CommandSet]
    BY <1>0, RecordIsPolicy, GoTyped, ChangeTyped, <1>5 DEF Compare, At, File, Present, Phases,
       Outcomes
  <1>6. ASSUME NEW c \in Command, Mark(c)
        PROVE  command' \in [Command -> CommandSet]
    BY <1>0, RecordIsPolicy, GoTyped, ChangeTyped, <1>6 DEF Mark, At, Phases, Outcomes
  <1>7. ASSUME NEW c \in Command, CheckLock(c)
        PROVE  command' \in [Command -> CommandSet]
    BY <1>0, RecordIsPolicy, GoTyped, ChangeTyped, <1>7 DEF CheckLock, At, Owned, Asserts,
       File, Phases, Outcomes
  <1>8. ASSUME NEW c \in Command, Rename(c)
        PROVE  command' \in [Command -> CommandSet]
    <2>3. Written(OrNew(command[c].base), command[c].answer) \in Policy
      BY <1>8, MadeIsPolicy DEF Rename
    <2>4. QED
      BY <1>0, <1>8, <2>3, GoTyped, ChangeTyped DEF Rename, Phases, Outcomes
  <1>9. ASSUME NEW c \in Command, Sync(c)
        PROVE  command' \in [Command -> CommandSet]
    BY <1>0, RecordIsPolicy, GoTyped, ChangeTyped, <1>9 DEF Sync, At, Phases, Outcomes
  <1>10. ASSUME NEW c \in Command, Rollback(c)
        PROVE  command' \in [Command -> CommandSet]
    BY <1>0, RecordIsPolicy, GoTyped, ChangeTyped, <1>10 DEF Rollback, At, Owned, Asserts,
       File, Phases, Outcomes
  <1>11. ASSUME NEW c \in Command, Unmark(c)
        PROVE  command' \in [Command -> CommandSet]
    BY <1>0, RecordIsPolicy, GoTyped, ChangeTyped, <1>11 DEF Unmark, At, Present, Phases,
       Outcomes
  <1>12. ASSUME NEW c \in Command, Unlock(c)
        PROVE  command' \in [Command -> CommandSet]
    BY <1>0, RecordIsPolicy, GoTyped, ChangeTyped, <1>12 DEF Unlock, At, Owned, File, Phases,
       Outcomes
  <1>13. ASSUME NEW c \in Command, Report(c)
        PROVE  command' \in [Command -> CommandSet]
    BY <1>0, RecordIsPolicy, GoTyped, ChangeTyped, <1>13 DEF Report, At, File, Present, Phases,
       Outcomes
  <1>14. ASSUME NEW c \in Command, Crash(c)
        PROVE  command' \in [Command -> CommandSet]
    BY <1>0, RecordIsPolicy, GoTyped, ChangeTyped, <1>14 DEF Crash, File, Running, Phases,
       Outcomes
  <1>15. ASSUME Reboot
        PROVE  command' \in [Command -> CommandSet]
    BY <1>0, RecordIsPolicy, GoTyped, ChangeTyped, <1>15 DEF Reboot, Running, Phases, Outcomes
  <1>16. ASSUME Lose
        PROVE  command' \in [Command -> CommandSet]
    BY <1>0, RecordIsPolicy, GoTyped, ChangeTyped, <1>16 DEF Lose, Present, Phases, Outcomes
  <1>17. ASSUME Age
        PROVE  command' \in [Command -> CommandSet]
    <2>1. lock.owner \in Command /\ "idle" \in Phases
      BY <1>17 DEF Types, Age, LockSet, Phases
    <2>2. \A b \in BOOLEAN : [command[lock.owner] EXCEPT !.slipped = b] \in CommandSet
      BY <1>0, <2>1, ChangeTyped
    <2>3. command' = [command EXCEPT ![lock.owner].slipped =
                        At(lock.owner, "rename") \/ At(lock.owner, "unmark")]
      BY <1>17 DEF Age
    <2>4. QED
      BY <1>0, <2>1, <2>2, <2>3 DEF At
  <1>18. ASSUME RemoveLock
        PROVE  command' \in [Command -> CommandSet]
    BY <1>0, RecordIsPolicy, GoTyped, ChangeTyped, <1>18 DEF RemoveLock, File, Phases, Outcomes
  <1>19. ASSUME NEW r \in Repo, Restriction(r)
        PROVE  command' \in [Command -> CommandSet]
    BY <1>0, RecordIsPolicy, GoTyped, ChangeTyped, <1>19 DEF Restriction, File, Phases, Outcomes
  <1>20. ASSUME UNCHANGED vars
        PROVE  command' \in [Command -> CommandSet]
    BY <1>0, RecordIsPolicy, GoTyped, ChangeTyped, <1>20 DEF vars, File, Phases, Outcomes
  <1>21. QED
    BY <1>1, <1>2, <1>3, <1>4, <1>5, <1>6, <1>7, <1>8, <1>9, <1>10, <1>11, <1>12, <1>13, <1>14,
       <1>15, <1>16, <1>17, <1>18, <1>19, <1>20 DEF Next, Step

\* A command's step leaves the others alone, and gives nobody else a lock.
LEMMA OthersRest ==
  ASSUME Types, NEW c \in Command, Step(c) \/ Crash(c), NEW d \in Command \ {c}
  PROVE  command'[d] = command[d] /\ (Asserts(d)' => Asserts(d))
  <1>0. lock # None => lock \in LockSet
    BY DEF Types
  <1> DEFINE Goal == Others(c) /\ (Asserts(d)' => Asserts(d))
  <1>1. ASSUME Show(c)
        PROVE  Goal
    BY <1>0, <1>1, ShowMoves DEF Moves, Asserts, Owned
  <1>2. ASSUME Submit(c)
        PROVE  Goal
    BY <1>0, <1>2, SubmitMoves DEF Moves, Asserts, Owned
  <1>3. ASSUME Direct(c)
        PROVE  Goal
    BY <1>0, <1>3, DirectMoves DEF Moves, Asserts, Owned
  <1>4. ASSUME Lock(c)
        PROVE  Goal
    BY <1>0, <1>4, LockMoves DEF Moves, Asserts, Owned
  <1>5. ASSUME Compare(c)
        PROVE  Goal
    BY <1>0, <1>5, CompareMoves DEF Moves, Asserts, Owned
  <1>6. ASSUME Mark(c)
        PROVE  Goal
    BY <1>0, <1>6, MarkMoves DEF Moves, Asserts, Owned
  <1>7. ASSUME CheckLock(c)
        PROVE  Goal
    BY <1>0, <1>7, CheckLockMoves DEF Moves, Asserts, Owned
  <1>8. ASSUME Rename(c)
        PROVE  Goal
    BY <1>0, <1>8, RenameMoves DEF Moves, Asserts, Owned
  <1>9. ASSUME Sync(c)
        PROVE  Goal
    BY <1>0, <1>9, SyncMoves DEF Moves, Asserts, Owned
  <1>10. ASSUME Rollback(c)
        PROVE  Goal
    BY <1>0, <1>10, RollbackMoves DEF Moves, Asserts, Owned
  <1>11. ASSUME Unmark(c)
        PROVE  Goal
    BY <1>0, <1>11, UnmarkMoves DEF Moves, Asserts, Owned
  <1>12. ASSUME Unlock(c)
        PROVE  Goal
    BY <1>0, <1>12, UnlockMoves DEF Moves, Asserts, Owned
  <1>13. ASSUME Report(c)
        PROVE  Goal
    BY <1>0, <1>13, ReportMoves DEF Moves, Asserts, Owned
  <1>14. ASSUME Crash(c)
        PROVE  Goal
    BY <1>0, <1>14, CrashMoves DEF Moves, Asserts, Owned
  <1>15. QED
    BY <1>1, <1>2, <1>3, <1>4, <1>5, <1>6, <1>7, <1>8, <1>9, <1>10, <1>11, <1>12, <1>13,
       <1>14 DEF Step, Others

\* What a read of the record does.
LEMMA ReadTyped ==
  ASSUME Types
  PROVE  /\ Reads => /\ UNCHANGED <<saved, lost, synced, left>> /\ known' = (known \/ Present)
                     /\ marker' \in {"none", "volatile", "synced"}
         /\ ReadFails => /\ UNCHANGED <<saved, lost, synced, known>>
                         /\ marker' \in {"none", "volatile", "synced"}
                         /\ left' \in [Bounds -> Nat] /\ \A b \in Bounds : left'[b] <= left[b]
         /\ \A b \in Bounds : Use(b) =>
              left' \in [Bounds -> Nat] /\ \A d \in Bounds : left'[d] <= left[d]
  <1>1. \A b \in Bounds : Use(b) =>
          left' \in [Bounds -> Nat] /\ \A d \in Bounds : left'[d] <= left[d]
    BY DEF Types, Use
  <1>2. "faults" \in Bounds
    BY DEF Bounds
  <1>3. QED
    BY <1>1, <1>2 DEF Types, Reads, ReadFails, Marking, File

\* The files keep their types.
LEMMA FileTyped ==
  ASSUME Types, [Next]_vars
  PROVE  /\ saved' \in Seq(Policy) /\ lost' \in BOOLEAN /\ synced' \in 0 .. Len(saved')
         /\ known' \in BOOLEAN /\ marker' \in {"none", "volatile", "synced"}
  <1> DEFINE Goal == /\ saved' \in Seq(Policy) /\ lost' \in BOOLEAN /\ synced' \in 0 .. Len(saved')
                     /\ known' \in BOOLEAN /\ marker' \in {"none", "volatile", "synced"}
  <1>1. ASSUME NEW c \in Command, Show(c)
        PROVE  Goal
    BY ReadTyped, <1>1, ShowMoves DEF Types, File, Marking
  <1>2. ASSUME NEW c \in Command, Submit(c)
        PROVE  Goal
    BY ReadTyped, <1>2, SubmitMoves DEF Types, File, Marking
  <1>3. ASSUME NEW c \in Command, Direct(c)
        PROVE  Goal
    BY ReadTyped, <1>3, DirectMoves DEF Types, File, Marking
  <1>4. ASSUME NEW c \in Command, Lock(c)
        PROVE  Goal
    BY ReadTyped, <1>4, LockMoves DEF Types, File, Marking
  <1>5. ASSUME NEW c \in Command, Compare(c)
        PROVE  Goal
    BY ReadTyped, <1>5, CompareMoves DEF Types, File, Marking
  <1>6. ASSUME NEW c \in Command, Mark(c)
        PROVE  Goal
    BY ReadTyped, <1>6, MarkMoves DEF Types, File, Marking
  <1>7. ASSUME NEW c \in Command, CheckLock(c)
        PROVE  Goal
    BY ReadTyped, <1>7, CheckLockMoves DEF Types, File, Marking
  <1>8. ASSUME NEW c \in Command, Rename(c)
        PROVE  Goal
    <2>1. CASE UNCHANGED File
      BY <2>1 DEF Types, File
    <2>2. CASE saved' # saved \/ ~ UNCHANGED File
      <3>3. Written(OrNew(command[c].base), command[c].answer) \in Policy
        BY <1>8, MadeIsPolicy DEF Rename
      <3>4. saved' = Append(saved, Written(OrNew(command[c].base), command[c].answer))
            /\ lost' = FALSE /\ known' = TRUE /\ UNCHANGED <<synced, marker>>
        BY <1>8, <2>2, RenameMoves DEF File
      <3>5. saved' \in Seq(Policy) /\ Len(saved') = Len(saved) + 1
        BY <3>3, <3>4, AppendProperties DEF Types
      <3>6. Len(saved) \in Nat
        BY LenProperties DEF Types
      <3>7. synced \in 0 .. Len(saved) /\ marker \in {"none", "volatile", "synced"}
        BY DEF Types
      <3>8. synced' \in 0 .. Len(saved')
        BY <3>4, <3>5, <3>6, <3>7
      <3>9. QED
        BY <3>4, <3>5, <3>7, <3>8
    <2>3. QED
      BY <2>1, <2>2
  <1>9. ASSUME NEW c \in Command, Sync(c)
        PROVE  Goal
    BY ReadTyped, <1>9, SyncMoves DEF Types, File, Marking
  <1>10. ASSUME NEW c \in Command, Rollback(c)
        PROVE  Goal
    BY ReadTyped, <1>10, RollbackMoves DEF Types, File, Marking
  <1>11. ASSUME NEW c \in Command, Unmark(c)
        PROVE  Goal
    BY ReadTyped, <1>11, UnmarkMoves DEF Types, File, Marking
  <1>12. ASSUME NEW c \in Command, Unlock(c)
        PROVE  Goal
    BY ReadTyped, <1>12, UnlockMoves DEF Types, File, Marking
  <1>13. ASSUME NEW c \in Command, Report(c)
        PROVE  Goal
    BY ReadTyped, <1>13, ReportMoves DEF Types, File, Marking
  <1>14. ASSUME NEW c \in Command, Crash(c)
        PROVE  Goal
    BY ReadTyped, <1>14, CrashMoves DEF Types, File, Marking
  <1>15. ASSUME Reboot
        PROVE  Goal
    <2>1. PICK n \in synced .. Len(saved) : saved' = SubSeq(saved, 1, n) /\ synced' = n
      BY <1>15, RebootMoves
    <2>2. Len(saved) \in Nat /\ n \in 0 .. Len(saved)
      BY LenProperties DEF Types
    <2>3. saved' \in Seq(Policy) /\ Len(saved') = n
      BY <2>1, <2>2, SubSeqProperties DEF Types
    <2>4. QED
      BY <1>15, <2>1, <2>2, <2>3, RebootMoves DEF Types
  <1>16. ASSUME Lose
        PROVE  Goal
    BY ReadTyped, <1>16 DEF Lose, Types, File, Marking
  <1>17. ASSUME Age
        PROVE  Goal
    BY ReadTyped, <1>17, AgeMoves DEF Types, File, Marking
  <1>18. ASSUME RemoveLock
        PROVE  Goal
    BY ReadTyped, <1>18 DEF RemoveLock, Types, File, Marking
  <1>19. ASSUME NEW r \in Repo, Restriction(r)
        PROVE  Goal
    BY ReadTyped, <1>19 DEF Restriction, Types, File, Marking
  <1>20. ASSUME UNCHANGED vars
        PROVE  Goal
    BY ReadTyped, <1>20 DEF vars, File, Types, Marking
  <1>21. QED
    BY <1>1, <1>2, <1>3, <1>4, <1>5, <1>6, <1>7, <1>8, <1>9, <1>10, <1>11, <1>12, <1>13, <1>14,
       <1>15, <1>16, <1>17, <1>18, <1>19, <1>20 DEF Next, Step

\* So does what else there is.
LEMMA OthersTyped ==
  ASSUME Types, [Next]_vars
  PROVE  /\ lock' \in LockSet \cup {None} /\ local' \subseteq Repo
         /\ left' \in [Bounds -> Nat] /\ \A b \in Bounds : left'[b] <= left[b]
  <1>0. /\ lock \in LockSet \cup {None} /\ local \subseteq Repo
        /\ left \in [Bounds -> Nat] /\ \A b \in Bounds : left[b] <= left[b]
        /\ Reads => left' = left
        /\ ReadFails \/ Use("faults") =>
             left' \in [Bounds -> Nat] /\ \A b \in Bounds : left'[b] <= left[b]
    <2>1. left \in [Bounds -> Nat] /\ \A b \in Bounds : left[b] <= left[b]
      BY DEF Types
    <2>2. "faults" \in Bounds
      BY DEF Bounds
    <2>3. QED
      BY <2>1, <2>2, ReadTyped DEF Types
  <1> DEFINE Goal == /\ lock' \in LockSet \cup {None} /\ local' \subseteq Repo
                     /\ left' \in [Bounds -> Nat] /\ \A b \in Bounds : left'[b] <= left[b]
  <1>1. ASSUME NEW c \in Command, Show(c)
        PROVE  Goal
    BY <1>0, <1>1, ShowMoves
  <1>2. ASSUME NEW c \in Command, Submit(c)
        PROVE  Goal
    BY <1>0, <1>2, SubmitMoves
  <1>3. ASSUME NEW c \in Command, Direct(c)
        PROVE  Goal
    BY <1>0, <1>3, DirectMoves
  <1>4. ASSUME NEW c \in Command, Lock(c)
        PROVE  Goal
    <2>1. UNCHANGED <<local, left>> /\ (lock' = lock \/ lock' = [owner |-> c, old |-> FALSE])
      BY <1>4, LockMoves
    <2>2. [owner |-> c, old |-> FALSE] \in LockSet
      BY DEF LockSet
    <2>3. lock \in LockSet \cup {None} /\ local \subseteq Repo /\ left \in [Bounds -> Nat]
      BY DEF Types
    <2>4. \A b \in Bounds : left[b] <= left[b]
      BY <2>3
    <2>5. lock' \in LockSet \cup {None}
      BY <2>1, <2>2, <2>3
    <2>6. QED
      BY <2>1, <2>3, <2>4, <2>5
  <1>5. ASSUME NEW c \in Command, Compare(c)
        PROVE  Goal
    BY <1>0, <1>5, CompareMoves
  <1>6. ASSUME NEW c \in Command, Mark(c)
        PROVE  Goal
    BY <1>0, <1>6, MarkMoves
  <1>7. ASSUME NEW c \in Command, CheckLock(c)
        PROVE  Goal
    BY <1>0, <1>7, CheckLockMoves
  <1>8. ASSUME NEW c \in Command, Rename(c)
        PROVE  Goal
    <2>1. UNCHANGED <<lock, local>> /\ (left' = left \/ Use("faults"))
      BY <1>8, RenameMoves
    <2>2. "faults" \in Bounds
      BY DEF Bounds
    <2>3. QED
      BY <2>1, <2>2, ReadTyped DEF Types
  <1>9. ASSUME NEW c \in Command, Sync(c)
        PROVE  Goal
    BY <1>0, <1>9, SyncMoves
  <1>10. ASSUME NEW c \in Command, Rollback(c)
        PROVE  Goal
    BY <1>0, <1>10, RollbackMoves
  <1>11. ASSUME NEW c \in Command, Unmark(c)
        PROVE  Goal
    BY <1>0, <1>11, UnmarkMoves
  <1>12. ASSUME NEW c \in Command, Unlock(c)
        PROVE  Goal
    BY <1>0, <1>12, UnlockMoves
  <1>13. ASSUME NEW c \in Command, Report(c)
        PROVE  Goal
    BY <1>0, <1>13, ReportMoves
  <1>14. ASSUME NEW c \in Command, Crash(c)
        PROVE  Goal
    BY ReadTyped, <1>14, CrashMoves DEF Types, File, Bounds, LockSet
  <1>15. ASSUME Reboot
        PROVE  Goal
    BY ReadTyped, <1>15, RebootMoves DEF Types, File, Bounds, LockSet
  <1>16. ASSUME Lose
        PROVE  Goal
    BY ReadTyped, <1>16 DEF Lose, Types, File, Bounds, LockSet
  <1>17. ASSUME Age
        PROVE  Goal
    <2>1. lock' \in LockSet /\ local' = local /\ (left' = left \/ Use("stalls"))
      BY <1>17, AgeMoves DEF Age, File
    <2>2. "stalls" \in Bounds
      BY DEF Bounds
    <2>3. QED
      BY <2>1, <2>2, ReadTyped DEF Types
  <1>18. ASSUME RemoveLock
        PROVE  Goal
    BY ReadTyped, <1>18 DEF RemoveLock, Types, File, Bounds, LockSet
  <1>19. ASSUME NEW r \in Repo, Restriction(r)
        PROVE  Goal
    BY ReadTyped, <1>19 DEF Restriction, Types, File, Bounds, LockSet
  <1>20. ASSUME UNCHANGED vars
        PROVE  Goal
    BY ReadTyped, <1>20 DEF vars, File, Types, Bounds, LockSet
  <1>21. QED
    BY <1>1, <1>2, <1>3, <1>4, <1>5, <1>6, <1>7, <1>8, <1>9, <1>10, <1>11, <1>12, <1>13, <1>14,
       <1>15, <1>16, <1>17, <1>18, <1>19, <1>20 DEF Next, Step

\* Whoever wants to write has an answer.
LEMMA AnswersTyped ==
  ASSUME Types, [Next]_vars
  PROVE  \A d \in Command :
     command'[d].pc \in {"lock", "compare", "mark", "assert", "rename"} =>
       command'[d].answer \in Answer
  <1>0. \A d \in Command :
          command[d].pc \in {"lock", "compare", "mark", "assert", "rename"} =>
            command[d].answer \in Answer
    BY DEF Types
  <1> DEFINE Goal == \A d \in Command :
                       command'[d].pc \in {"lock", "compare", "mark", "assert", "rename"} =>
                         command'[d].answer \in Answer
  <1>1. ASSUME NEW c \in Command, Show(c)
        PROVE  Goal
    BY <1>0, <1>1, ShowMoves DEF Moves, Others, Same, SameSeen, At
  <1>2. ASSUME NEW c \in Command, Submit(c)
        PROVE  Goal
    <2>1. \A a \in Offered(OrNew(command[c].seen), command[c].restricted) :
            Now(OrNew(Current), a) \in Answer
      BY NowIsAnswer DEF Offered
    <2>2. QED
      BY <1>0, <1>2, <2>1, SubmitMoves DEF Moves, Others
  <1>3. ASSUME NEW c \in Command, Direct(c)
        PROVE  Goal
    BY <1>0, <1>3, DirectMoves DEF Moves, Others, Same, SameSeen, At
  <1>4. ASSUME NEW c \in Command, Lock(c)
        PROVE  Goal
    BY <1>0, <1>4, LockMoves DEF Moves, Others, Same, SameSeen, At
  <1>5. ASSUME NEW c \in Command, Compare(c)
        PROVE  Goal
    BY <1>0, <1>5, CompareMoves DEF Moves, Others, Same, SameSeen, At
  <1>6. ASSUME NEW c \in Command, Mark(c)
        PROVE  Goal
    BY <1>0, <1>6, MarkMoves DEF Moves, Others, Same, SameSeen, At
  <1>7. ASSUME NEW c \in Command, CheckLock(c)
        PROVE  Goal
    BY <1>0, <1>7, CheckLockMoves DEF Moves, Others, Same, SameSeen, At
  <1>8. ASSUME NEW c \in Command, Rename(c)
        PROVE  Goal
    BY <1>0, <1>8, RenameMoves DEF Moves, Others, Same, SameSeen, At
  <1>9. ASSUME NEW c \in Command, Sync(c)
        PROVE  Goal
    BY <1>0, <1>9, SyncMoves DEF Moves, Others, Same, SameSeen, At
  <1>10. ASSUME NEW c \in Command, Rollback(c)
        PROVE  Goal
    BY <1>0, <1>10, RollbackMoves DEF Moves, Others, Same, SameSeen, At
  <1>11. ASSUME NEW c \in Command, Unmark(c)
        PROVE  Goal
    BY <1>0, <1>11, UnmarkMoves DEF Moves, Others, Same, SameSeen, At
  <1>12. ASSUME NEW c \in Command, Unlock(c)
        PROVE  Goal
    BY <1>0, <1>12, UnlockMoves DEF Moves, Others, Same, SameSeen, At
  <1>13. ASSUME NEW c \in Command, Report(c)
        PROVE  Goal
    BY <1>0, <1>13, ReportMoves DEF Moves, Others, Same, SameSeen, At
  <1>14. ASSUME NEW c \in Command, Crash(c)
        PROVE  Goal
    <2>1. command'[c].pc = "dead" /\ Others(c)
      BY <1>14, CrashMoves DEF Moves
    <2>2. QED
      BY <1>0, <2>1 DEF Others
  <1>15. ASSUME Reboot
        PROVE  Goal
    BY <1>0, <1>15, RebootMoves DEF Moves, Others, Same, SameSeen, At
  <1>16. ASSUME Lose
        PROVE  Goal
    BY <1>0, <1>16 DEF Lose, Moves, Others, Same, SameSeen, At
  <1>17. ASSUME Age
        PROVE  Goal
    BY <1>0, <1>17, AgeMoves DEF Moves, Others, Same, SameSeen, At
  <1>18. ASSUME RemoveLock
        PROVE  Goal
    BY <1>0, <1>18 DEF RemoveLock, Moves, Others, Same, SameSeen, At
  <1>19. ASSUME NEW r \in Repo, Restriction(r)
        PROVE  Goal
    BY <1>0, <1>19 DEF Restriction, Moves, Others, Same, SameSeen, At
  <1>20. ASSUME UNCHANGED vars
        PROVE  Goal
    BY <1>0, <1>20 DEF vars, File, Moves, Others, Same, SameSeen, At
  <1>21. QED
    BY <1>1, <1>2, <1>3, <1>4, <1>5, <1>6, <1>7, <1>8, <1>9, <1>10, <1>11, <1>12, <1>13, <1>14,
       <1>15, <1>16, <1>17, <1>18, <1>19, <1>20 DEF Next, Step

LEMMA TypesStep ==
  ASSUME Types, [Next]_vars
  PROVE  Types'
  <1>1. /\ left \in [Bounds -> Nat] /\ Limits \in [Bounds -> Nat]
        /\ \A b \in Bounds : left[b] <= Limits[b]
    BY DEF Types, Constants
  <1>2. \A b \in Bounds : left'[b] <= Limits[b]
    BY <1>1, OthersTyped
  <1>3. QED
    BY <1>2, AnswersTyped, CommandTyped, FileTyped, OthersTyped DEF Types, Constants

\* A lock is aged once.
LEMMA LockedStep ==
  ASSUME Types, Locked, [Next]_vars
  PROVE  Locked'
  <1>0. /\ Constants /\ \A e \in Command : command[e].slipped \in BOOLEAN
        /\ (lock # None => lock.owner \in Command)
    BY DEF Types, CommandSet, LockSet
  <1>1. ASSUME NEW c \in Command, Show(c)
        PROVE  Locked'
    BY <1>0, <1>1, ShowMoves DEF Locked, Asserts, Owned, Moves, Others, At, Running
  <1>2. ASSUME NEW c \in Command, Submit(c)
        PROVE  Locked'
    BY <1>0, <1>2, SubmitMoves DEF Locked, Asserts, Owned, Moves, Others, At, Running
  <1>3. ASSUME NEW c \in Command, Direct(c)
        PROVE  Locked'
    BY <1>0, <1>3, DirectMoves DEF Locked, Asserts, Owned, Moves, Others, At, Running
  <1>4. ASSUME NEW c \in Command, Lock(c)
        PROVE  Locked'
    <2>1. CASE lock' = lock /\ Moves(c, "done", "busy")
      BY <1>4, <2>1, LockMoves DEF Locked, Asserts, Owned, Moves, Others, At
    <2>2. CASE /\ lock = None /\ lock' = [owner |-> c, old |-> FALSE]
               /\ Moves(c, "compare", command[c].outcome)
      <3>0. lock' \in LockSet /\ None \notin LockSet
        BY <1>0, <2>2 DEF Constants, LockSet
      <3>1. lock' # None /\ lock'.owner = c /\ ~ lock'.old
        BY <2>2, <3>0
      <3>2. ~ command'[c].slipped /\ command'[c].pc = "compare" /\ Others(c)
        BY <1>4, <2>2, LockMoves DEF Locked, Moves, At
      <3>3. \A d \in Command \ {c} : ~ Asserts(d)
        BY <2>2 DEF Asserts, Owned
      <3>4. QED
        BY <3>1, <3>2, <3>3 DEF Locked, Asserts, Owned, Others
    <2>3. QED
      BY <1>4, <2>1, <2>2, LockMoves
  <1>5. ASSUME NEW c \in Command, Compare(c)
        PROVE  Locked'
    BY <1>0, <1>5, CompareMoves DEF Locked, Asserts, Owned, Moves, Others, At, Running
  <1>6. ASSUME NEW c \in Command, Mark(c)
        PROVE  Locked'
    BY <1>0, <1>6, MarkMoves DEF Locked, Asserts, Owned, Moves, Others, At, Running
  <1>7. ASSUME NEW c \in Command, CheckLock(c)
        PROVE  Locked'
    BY <1>0, <1>7, CheckLockMoves DEF Locked, Asserts, Owned, Moves, Others, At, Running
  <1>8. ASSUME NEW c \in Command, Rename(c)
        PROVE  Locked'
    <2>1. /\ At(c, "rename") /\ UNCHANGED lock /\ Others(c)
          /\ command'[c].pc \in {"sync", "rollback"} /\ command'[c].slipped = command[c].slipped
      BY <1>8, RenameMoves DEF Moves
    <2>2. QED
      BY <1>0, <2>1 DEF Locked, Asserts, Owned, Others, At
  <1>9. ASSUME NEW c \in Command, Sync(c)
        PROVE  Locked'
    BY <1>0, <1>9, SyncMoves DEF Locked, Asserts, Owned, Moves, Others, At, Running
  <1>10. ASSUME NEW c \in Command, Rollback(c)
        PROVE  Locked'
    BY <1>0, <1>10, RollbackMoves DEF Locked, Asserts, Owned, Moves, Others, At, Running
  <1>11. ASSUME NEW c \in Command, Unmark(c)
        PROVE  Locked'
    BY <1>0, <1>11, UnmarkMoves DEF Locked, Asserts, Owned, Moves, Others, At, Running
  <1>12. ASSUME NEW c \in Command, Unlock(c)
        PROVE  Locked'
    BY <1>0, <1>12, UnlockMoves DEF Locked, Asserts, Owned, Moves, Others, At, Running
  <1>13. ASSUME NEW c \in Command, Report(c)
        PROVE  Locked'
    BY <1>0, <1>13, ReportMoves DEF Locked, Asserts, Owned, Moves, Others, At, Running
  <1>14. ASSUME NEW c \in Command, Crash(c)
        PROVE  Locked'
    BY <1>0, <1>14, CrashMoves DEF Locked, Asserts, Owned, Moves, Others, At, Running
  <1>15. ASSUME Reboot
        PROVE  Locked'
    BY <1>0, <1>15, RebootMoves DEF Locked, Asserts, Owned, Moves, Others, At, Running
  <1>16. ASSUME Lose
        PROVE  Locked'
    BY <1>0, <1>16 DEF Lose, Locked, Asserts, Owned, Moves, Others, At, Running
  <1>17. ASSUME Age
        PROVE  Locked'
    BY <1>0, <1>17, AgeMoves, ZenonT(30) DEF Locked, Asserts, Owned
  <1>18. ASSUME RemoveLock
        PROVE  Locked'
    BY <1>0, <1>18 DEF RemoveLock, Locked, Asserts, Owned, Moves, Others, At, Running
  <1>19. ASSUME NEW r \in Repo, Restriction(r)
        PROVE  Locked'
    BY <1>0, <1>19 DEF Restriction, Locked, Asserts, Owned, Moves, Others, At, Running
  <1>20. ASSUME UNCHANGED vars
        PROVE  Locked'
    BY <1>0, <1>20 DEF vars, File, Locked, Asserts, Owned, Moves, Others, At, Running
  <1>21. QED
    BY <1>1, <1>2, <1>3, <1>4, <1>5, <1>6, <1>7, <1>8, <1>9, <1>10, <1>11, <1>12, <1>13, <1>14,
       <1>15, <1>16, <1>17, <1>18, <1>19, <1>20 DEF Next, Step

\* Whoever has slipped is remembered.
LEMMA SlippedStays ==
  ASSUME Types, Locked, [Next]_vars, NEW d \in Command
  PROVE  command[d].slipped => command'[d].slipped
  <1>0. /\ Constants /\ \A e \in Command : command[e].slipped \in BOOLEAN
        /\ (lock # None => lock.owner \in Command)
    BY DEF Types, CommandSet, LockSet
  <1>1. CASE \E c \in Command \ {d} : Step(c) \/ Crash(c)
    BY <1>0, <1>1, OthersRest
  <1>2. CASE Show(d)
    BY <1>0, <1>2, ShowMoves DEF Moves
  <1>3. CASE Submit(d)
    BY <1>0, <1>3, SubmitMoves DEF Moves
  <1>4. CASE Direct(d)
    BY <1>0, <1>4, DirectMoves DEF Moves
  <1>5. CASE Lock(d)
    BY <1>0, <1>5, LockMoves DEF Moves
  <1>6. CASE Compare(d)
    BY <1>0, <1>6, CompareMoves DEF Moves
  <1>7. CASE Mark(d)
    BY <1>0, <1>7, MarkMoves DEF Moves
  <1>8. CASE CheckLock(d)
    BY <1>0, <1>8, CheckLockMoves DEF Moves
  <1>9. CASE Rename(d)
    BY <1>0, <1>9, RenameMoves DEF Moves
  <1>10. CASE Sync(d)
    BY <1>0, <1>10, SyncMoves DEF Moves
  <1>11. CASE Rollback(d)
    BY <1>0, <1>11, RollbackMoves DEF Moves
  <1>12. CASE Unmark(d)
    BY <1>0, <1>12, UnmarkMoves DEF Moves
  <1>13. CASE Unlock(d)
    BY <1>0, <1>13, UnlockMoves DEF Moves
  <1>14. CASE Report(d)
    BY <1>0, <1>14, ReportMoves DEF Moves
  <1>15. CASE Crash(d)
    BY <1>0, <1>15, CrashMoves DEF Moves
  <1>16. CASE Reboot
    BY <1>0, <1>16, RebootMoves DEF Moves
  <1>17. CASE Lose
    BY <1>0, <1>17 DEF Lose
  <1>18. CASE Age
    BY <1>0, <1>18, AgeMoves DEF Locked, Asserts, Owned
  <1>19. CASE RemoveLock
    BY <1>0, <1>19 DEF RemoveLock
  <1>20. CASE \E r \in Repo : Restriction(r)
    BY <1>0, <1>20 DEF Restriction
  <1>21. CASE UNCHANGED vars
    BY <1>0, <1>21 DEF vars
  <1>22. QED
    BY <1>1, <1>2, <1>3, <1>4, <1>5, <1>6, <1>7, <1>8, <1>9, <1>10, <1>11, <1>12, <1>13, <1>14,
       <1>15, <1>16, <1>17, <1>18, <1>19, <1>20, <1>21 DEF Next, Step

LEMMA HistoryStays ==
  ASSUME Types, Locked, [Next]_vars
  PROVE  /\ Slipped => Slipped'
         /\ \A b \in Bounds : Spent(b) => Spent(b)'
         /\ Unmarked => Unmarked'
         /\ Forgotten => Forgotten'
         /\ Spent("losses") => Spent("losses")'
  <1>1. Slipped => Slipped'
    BY SlippedStays DEF Slipped
  <1>2. ASSUME NEW b \in Bounds, Spent(b)
        PROVE  Spent(b)'
    <2>1. left[b] \in Nat /\ Limits[b] \in Nat /\ left'[b] \in Nat /\ left'[b] <= left[b]
      BY OthersTyped DEF Types, Constants
    <2>2. QED
      BY <1>2, <2>1 DEF Spent
  <1>3. {"faults", "reboots", "losses"} \subseteq Bounds
    BY DEF Bounds
  <1>4. QED
    BY <1>1, <1>2, <1>3 DEF Unmarked, Forgotten

\* A command makes its record in one step, and then ends as it did.
LEMMA PhasedStep ==
  ASSUME Types, Phased, [Next]_vars, NEW d \in Command
  PROVE  PhaseOf(command'[d])
  <1>0. None \notin Policy /\ None \notin Outcomes /\ PhaseOf(command[d])
    BY DEF Types, Constants, Phased
  <1>1. CASE \E c \in Command \ {d} : Step(c) \/ Crash(c)
    BY <1>0, <1>1, OthersRest
  <1>2. CASE Show(d)
    BY <1>0, <1>2, ShowMoves DEF PhaseOf, Phase, Outcomes, Moves, Same, SameBase, SameMade, At
  <1>3. CASE Submit(d)
    BY <1>0, <1>3, SubmitMoves DEF PhaseOf, Phase, Outcomes, Moves, Same, SameBase, SameMade, At
  <1>4. CASE Direct(d)
    BY <1>0, <1>4, DirectMoves DEF PhaseOf, Phase, Outcomes, Moves, Same, SameBase, SameMade, At
  <1>5. CASE Lock(d)
    BY <1>0, <1>5, LockMoves DEF PhaseOf, Phase, Outcomes, Moves, Same, SameBase, SameMade, At
  <1>6. CASE Compare(d)
    BY <1>0, <1>6, CompareMoves DEF PhaseOf, Phase, Outcomes, Moves, Same, SameBase, SameMade,
       At
  <1>7. CASE Mark(d)
    BY <1>0, <1>7, MarkMoves DEF PhaseOf, Phase, Outcomes, Moves, Same, SameBase, SameMade, At
  <1>8. CASE CheckLock(d)
    BY <1>0, <1>8, CheckLockMoves DEF PhaseOf, Phase, Outcomes, Moves, Same, SameBase,
       SameMade, At
  <1>9. CASE Rename(d)
    BY <1>0, <1>9, RenameMoves, MadeIsPolicy
       DEF PhaseOf, Phase, Outcomes, Moves, SameBase, SameMade, At
  <1>10. CASE Sync(d)
    BY <1>0, <1>10, SyncMoves DEF PhaseOf, Phase, Outcomes, Moves, Same, SameBase, SameMade, At
  <1>11. CASE Rollback(d)
    BY <1>0, <1>11, RollbackMoves DEF PhaseOf, Phase, Outcomes, Moves, Same, SameBase,
       SameMade, At
  <1>12. CASE Unmark(d)
    BY <1>0, <1>12, UnmarkMoves DEF PhaseOf, Phase, Outcomes, Moves, Same, SameBase, SameMade,
       At
  <1>13. CASE Unlock(d)
    BY <1>0, <1>13, UnlockMoves DEF PhaseOf, Phase, Outcomes, Moves, Same, SameBase, SameMade,
       At
  <1>14. CASE Report(d)
    BY <1>0, <1>14, ReportMoves DEF PhaseOf, Phase, Outcomes, Moves, Same, SameBase, SameMade,
       At
  <1>15. CASE Crash(d)
    BY <1>0, <1>15, CrashMoves DEF PhaseOf, Phase, Outcomes, Moves, Same, SameBase, SameMade, At
  <1>16. CASE Reboot
    BY <1>0, <1>16, RebootMoves DEF PhaseOf, Phase, Same, SameMade, SameBase, Running
  <1>17. CASE Lose
    BY <1>0, <1>17 DEF Lose
  <1>18. CASE Age
    BY <1>0, <1>18, AgeMoves DEF PhaseOf, Same, SameMade, SameBase
  <1>19. CASE RemoveLock
    BY <1>0, <1>19 DEF RemoveLock
  <1>20. CASE \E r \in Repo : Restriction(r)
    BY <1>0, <1>20 DEF Restriction
  <1>21. CASE UNCHANGED vars
    BY <1>0, <1>21 DEF vars
  <1>22. QED
    BY <1>1, <1>2, <1>3, <1>4, <1>5, <1>6, <1>7, <1>8, <1>9, <1>10, <1>11, <1>12, <1>13, <1>14,
       <1>15, <1>16, <1>17, <1>18, <1>19, <1>20, <1>21 DEF Next, Step

\* What a rename appends is a record.
LEMMA RenameAppends ==
  ASSUME Types, NEW c \in Command, Rename(c)
  PROVE  /\ saved \in Seq(Policy) /\ Len(saved) \in Nat
         /\ \/ /\ command'[c].made \in Policy /\ saved' = Append(saved, command'[c].made)
               /\ saved' \in Seq(Policy) /\ Len(saved') = Len(saved) + 1 /\ saved' # << >>
               /\ \A i \in 1 .. Len(saved) : saved'[i] = saved[i]
               /\ saved'[Len(saved) + 1] = command'[c].made
               /\ command'[c].made = Written(OrNew(command[c].base), command[c].answer)
               /\ lost' = FALSE /\ known' = TRUE /\ UNCHANGED <<synced, marker, left>>
               /\ Moves(c, "sync", command[c].outcome)
            \/ Use("faults") /\ UNCHANGED File /\ SameMade(c) /\ Moves(c, "rollback", "failed")
  <1>1. saved \in Seq(Policy) /\ Len(saved) \in Nat
    BY LenProperties DEF Types
  <1>2. CASE /\ saved' = Append(saved, command'[c].made) /\ lost' = FALSE /\ known' = TRUE
             /\ command'[c].made = Written(OrNew(command[c].base), command[c].answer)
             /\ Moves(c, "sync", command[c].outcome) /\ UNCHANGED <<synced, marker, left>>
    <2>1. command'[c].made \in Policy
      BY <1>2, RenameMoves, MadeIsPolicy
    <2>2. /\ saved' \in Seq(Policy) /\ Len(saved') = Len(saved) + 1
          /\ \A i \in 1 .. Len(saved) : saved'[i] = saved[i]
          /\ saved'[Len(saved) + 1] = command'[c].made
      BY <1>1, <1>2, <2>1, AppendProperties
    <2>3. saved' # << >>
      BY <1>1, <2>2
    <2>4. QED
      BY <1>1, <1>2, <2>1, <2>2, <2>3
  <1>3. QED
    BY <1>1, <1>2, RenameMoves

\* Who changes the files.
LEMMA FileSteps ==
  ASSUME Types, [Next]_vars
  PROVE  \/ /\ saved' = saved /\ lost' = lost /\ synced' = synced
            /\ known' \in {known, known \/ Present}
         \/ \E d \in Command : Rename(d) \/ Sync(d)
         \/ Reboot \/ Lose
  <1> DEFINE Goal == \/ /\ saved' = saved /\ lost' = lost /\ synced' = synced
                        /\ known' \in {known, known \/ Present}
                     \/ \E d \in Command : Rename(d) \/ Sync(d)
                     \/ Reboot \/ Lose
  <1>1. ASSUME NEW c \in Command, Show(c)
        PROVE  Goal
    BY <1>1, ShowMoves DEF File, Reads, ReadFails
  <1>2. ASSUME NEW c \in Command, Submit(c)
        PROVE  Goal
    BY <1>2, SubmitMoves DEF File, Reads, ReadFails
  <1>3. ASSUME NEW c \in Command, Direct(c)
        PROVE  Goal
    BY <1>3, DirectMoves DEF File, Reads, ReadFails
  <1>4. ASSUME NEW c \in Command, Lock(c)
        PROVE  Goal
    BY <1>4, LockMoves DEF File, Reads, ReadFails
  <1>5. ASSUME NEW c \in Command, Compare(c)
        PROVE  Goal
    BY <1>5, CompareMoves DEF File, Reads, ReadFails
  <1>6. ASSUME NEW c \in Command, Mark(c)
        PROVE  Goal
    BY <1>6, MarkMoves DEF File, Reads, ReadFails
  <1>7. ASSUME NEW c \in Command, CheckLock(c)
        PROVE  Goal
    BY <1>7, CheckLockMoves DEF File, Reads, ReadFails
  <1>8. ASSUME NEW c \in Command, Rename(c)
        PROVE  Goal
    BY <1>8
  <1>9. ASSUME NEW c \in Command, Sync(c)
        PROVE  Goal
    BY <1>9
  <1>10. ASSUME NEW c \in Command, Rollback(c)
        PROVE  Goal
    BY <1>10, RollbackMoves DEF File, Reads, ReadFails
  <1>11. ASSUME NEW c \in Command, Unmark(c)
        PROVE  Goal
    BY <1>11, UnmarkMoves DEF File, Reads, ReadFails
  <1>12. ASSUME NEW c \in Command, Unlock(c)
        PROVE  Goal
    BY <1>12, UnlockMoves DEF File, Reads, ReadFails
  <1>13. ASSUME NEW c \in Command, Report(c)
        PROVE  Goal
    BY <1>13, ReportMoves DEF File, Reads, ReadFails
  <1>14. ASSUME NEW c \in Command, Crash(c)
        PROVE  Goal
    BY <1>14, CrashMoves DEF File, Reads, ReadFails
  <1>15. ASSUME Reboot
        PROVE  Goal
    BY <1>15
  <1>16. ASSUME Lose
        PROVE  Goal
    BY <1>16
  <1>17. ASSUME Age
        PROVE  Goal
    BY <1>17, AgeMoves DEF File, Reads, ReadFails
  <1>18. ASSUME RemoveLock
        PROVE  Goal
    BY <1>18 DEF RemoveLock, File, Reads, ReadFails
  <1>19. ASSUME NEW r \in Repo, Restriction(r)
        PROVE  Goal
    BY <1>19 DEF Restriction, File, Reads, ReadFails
  <1>20. ASSUME UNCHANGED vars
        PROVE  Goal
    BY <1>20 DEF vars, File, Reads, ReadFails
  <1>21. QED
    BY <1>1, <1>2, <1>3, <1>4, <1>5, <1>6, <1>7, <1>8, <1>9, <1>10, <1>11, <1>12, <1>13, <1>14,
       <1>15, <1>16, <1>17, <1>18, <1>19, <1>20 DEF Next, Step

\* What is saved is appended to, but by a crash of the machine, which leaves what is synced.
LEMMA SavedStays ==
  ASSUME Types, [Next]_vars
  PROVE  /\ \/ \A i \in 1 .. Len(saved) : i \in 1 .. Len(saved') /\ saved'[i] = saved[i]
            \/ \A d \in Command : ~ Running(d)'
         /\ \A i \in 1 .. synced : i \in 1 .. synced' /\ saved'[i] = saved[i]
  <1> DEFINE Goal == /\ \/ \A i \in 1 .. Len(saved) : i \in 1 .. Len(saved') /\ saved'[i] = saved[i]
                        \/ \A d \in Command : ~ Running(d)'
                     /\ \A i \in 1 .. synced : i \in 1 .. synced' /\ saved'[i] = saved[i]
  <1>0. /\ saved \in Seq(Policy) /\ Len(saved) \in Nat /\ synced \in 0 .. Len(saved)
        /\ lost \in BOOLEAN /\ known \in BOOLEAN
    BY LenProperties DEF Types
  <1>1. CASE /\ saved' = saved /\ lost' = lost /\ synced' = synced
             /\ known' \in {known, known \/ Present}
    BY <1>0, <1>1
  <1>2. ASSUME NEW c \in Command, Rename(c)
        PROVE  Goal
    <2>1. CASE UNCHANGED File
      BY <2>1 DEF File
    <2>2. CASE ~ UNCHANGED File
      <3>1. /\ Len(saved') = Len(saved) + 1 /\ synced' = synced
            /\ \A i \in 1 .. Len(saved) : saved'[i] = saved[i]
        BY <1>2, <2>2, RenameAppends
      <3>2. \A i \in 1 .. Len(saved) : i \in 1 .. Len(saved')
        BY <1>0, <3>1
      <3>3. \A i \in 1 .. synced : i \in 1 .. Len(saved)
        BY <1>0
      <3>4. QED
        BY <3>1, <3>2, <3>3
    <2>3. QED
      BY <2>1, <2>2
  <1>3. ASSUME NEW c \in Command, Sync(c)
        PROVE  Goal
    BY <1>0, <1>3, SyncMoves
  <1>4. CASE Reboot
    <2>1. PICK n \in synced .. Len(saved) : saved' = SubSeq(saved, 1, n) /\ synced' = n
      BY <1>4, RebootMoves
    <2>2. n \in Nat /\ n <= Len(saved)
      BY <1>0, <2>1
    <2>3. \A i \in 1 .. n : saved'[i] = saved[i]
      BY <1>0, <2>1, <2>2, SubSeqProperties
    <2>4. \A d \in Command : ~ Running(d)'
      BY <1>4, RebootMoves DEF Running
    <2>5. \A i \in 1 .. synced : i \in 1 .. synced' /\ saved'[i] = saved[i]
      BY <1>0, <2>1, <2>2, <2>3
    <2>6. QED
      BY <2>4, <2>5
  <1>5. CASE Lose
    BY <1>0, <1>5 DEF Lose
  <1>6. QED
    BY <1>1, <1>2, <1>3, <1>4, <1>5, FileSteps

\* Who is about to sync has appended; who says that it is saved has synced.
LEMMA MadeMoves ==
  ASSUME Types, Phased, [Next]_vars, NEW d \in Command
  PROVE  /\ command'[d].pc = "sync" =>
              \/ command[d].pc = "sync" /\ command'[d].made = command[d].made
              \/ /\ Len(saved') = Len(saved) + 1
                 /\ saved'[Len(saved) + 1] = command'[d].made
         /\ command'[d].outcome = "saved" =>
              \/ command[d].outcome = "saved" /\ command'[d].made = command[d].made
              \/ /\ saved' = saved /\ synced' = Len(saved)
                 /\ command[d].pc = "sync" /\ command'[d].made = command[d].made
  <1>0. PhaseOf(command[d]) /\ saved \in Seq(Policy) /\ None \notin Outcomes
    BY DEF Phased, Types, Constants
  <1>1. CASE \E c \in Command \ {d} : Step(c) \/ Crash(c)
    BY <1>0, <1>1, OthersRest
  <1>2. CASE Show(d)
    BY <1>0, <1>2, ShowMoves DEF Moves, Same, SameMade, At, Phase, PhaseOf
  <1>3. CASE Submit(d)
    BY <1>0, <1>3, SubmitMoves DEF Moves, Same, SameMade, At, Phase, PhaseOf
  <1>4. CASE Direct(d)
    BY <1>0, <1>4, DirectMoves DEF Moves, Same, SameMade, At, Phase, PhaseOf
  <1>5. CASE Lock(d)
    BY <1>0, <1>5, LockMoves DEF Moves, Same, SameMade, At, Phase, PhaseOf
  <1>6. CASE Compare(d)
    BY <1>0, <1>6, CompareMoves DEF Moves, Same, SameMade, At, Phase, PhaseOf
  <1>7. CASE Mark(d)
    BY <1>0, <1>7, MarkMoves DEF Moves, Same, SameMade, At, Phase, PhaseOf
  <1>8. CASE CheckLock(d)
    BY <1>0, <1>8, CheckLockMoves DEF Moves, Same, SameMade, At, Phase, PhaseOf
  <1>9. CASE Rename(d)
    <2>1. command[d].outcome = None /\ "saved" # None
      BY <1>0, <1>9, RenameMoves DEF Phase, PhaseOf, At, Outcomes
    <2>2. QED
      BY <1>9, <2>1, RenameAppends DEF Moves
  <1>10. CASE Sync(d)
    BY <1>0, <1>10, SyncMoves DEF Moves, Same, SameMade, At, Phase, PhaseOf
  <1>11. CASE Rollback(d)
    BY <1>0, <1>11, RollbackMoves DEF Moves, Same, SameMade, At, Phase, PhaseOf
  <1>12. CASE Unmark(d)
    BY <1>0, <1>12, UnmarkMoves DEF Moves, Same, SameMade, At, Phase, PhaseOf
  <1>13. CASE Unlock(d)
    BY <1>0, <1>13, UnlockMoves DEF Moves, Same, SameMade, At, Phase, PhaseOf
  <1>14. CASE Report(d)
    BY <1>0, <1>14, ReportMoves DEF Moves, Same, SameMade, At, Phase, PhaseOf
  <1>15. CASE Crash(d)
    BY <1>0, <1>15, CrashMoves DEF Moves, Same, SameMade, At, Phase, PhaseOf
  <1>16. CASE Reboot
    BY <1>16, RebootMoves DEF Same, SameMade, Running
  <1>17. CASE Lose
    BY <1>0, <1>17 DEF Lose
  <1>18. CASE Age
    BY <1>18, AgeMoves DEF Same, SameMade
  <1>19. CASE RemoveLock
    BY <1>0, <1>19 DEF RemoveLock
  <1>20. CASE \E r \in Repo : Restriction(r)
    BY <1>0, <1>20 DEF Restriction
  <1>21. CASE UNCHANGED vars
    BY <1>0, <1>21 DEF vars
  <1>22. QED
    BY <1>1, <1>2, <1>3, <1>4, <1>5, <1>6, <1>7, <1>8, <1>9, <1>10, <1>11, <1>12, <1>13, <1>14,
       <1>15, <1>16, <1>17, <1>18, <1>19, <1>20, <1>21 DEF Next, Step

LEMMA KeptStep ==
  ASSUME Types, Phased, Kept, [Next]_vars
  PROVE  Kept'
  <1>0. Len(saved) \in Nat /\ synced \in 0 .. Len(saved) /\ Len(saved') \in Nat
    BY FileTyped, LenProperties DEF Types
  <1>1. ASSUME NEW d \in Command, command'[d].pc = "sync"
        PROVE  \E i \in 1 .. Len(saved') : saved'[i] = command'[d].made
    <2>1. CASE command[d].pc = "sync" /\ command'[d].made = command[d].made
      <3>1. PICK i \in 1 .. Len(saved) : saved[i] = command[d].made
        BY <2>1 DEF Kept
      <3>2. i \in 1 .. Len(saved') /\ saved'[i] = saved[i]
        BY <1>1, <3>1, SavedStays DEF Running
      <3>3. QED
        BY <2>1, <3>1, <3>2
    <2>2. CASE Len(saved') = Len(saved) + 1 /\ saved'[Len(saved) + 1] = command'[d].made
      BY <1>0, <2>2
    <2>3. \/ command[d].pc = "sync" /\ command'[d].made = command[d].made
          \/ Len(saved') = Len(saved) + 1 /\ saved'[Len(saved) + 1] = command'[d].made
      BY <1>1, MadeMoves
    <2>4. QED
      BY <2>1, <2>2, <2>3
  <1>2. ASSUME NEW d \in Command, command'[d].outcome = "saved"
        PROVE  \E i \in 1 .. synced' : saved'[i] = command'[d].made
    <2>1. CASE command[d].outcome = "saved" /\ command'[d].made = command[d].made
      <3>1. PICK i \in 1 .. synced : saved[i] = command[d].made
        BY <2>1 DEF Kept
      <3>2. i \in 1 .. synced' /\ saved'[i] = saved[i]
        BY <3>1, SavedStays
      <3>3. QED
        BY <2>1, <3>1, <3>2
    <2>2. CASE /\ saved' = saved /\ synced' = Len(saved)
               /\ command[d].pc = "sync" /\ command'[d].made = command[d].made
      BY <2>2 DEF Kept
    <2>3. \/ command[d].outcome = "saved" /\ command'[d].made = command[d].made
          \/ /\ saved' = saved /\ synced' = Len(saved)
             /\ command[d].pc = "sync" /\ command'[d].made = command[d].made
      BY <1>2, MadeMoves
    <2>4. QED
      BY <2>1, <2>2, <2>3
  <1>3. QED
    BY <1>1, <1>2 DEF Kept

\* What was used up is spent.
LEMMA UseSpends ==
  ASSUME Types
  PROVE  \A b \in {"faults", "reboots", "losses"} : Use(b) => Spent(b)'
  <1>1. {"faults", "reboots", "losses"} \subseteq Bounds
    BY DEF Bounds
  <1>2. ASSUME NEW b \in Bounds, Use(b)
        PROVE  Spent(b)'
    <2>1. left[b] \in Nat /\ Limits[b] \in Nat /\ left[b] <= Limits[b] /\ left \in [Bounds -> Nat]
      BY DEF Types, Constants
    <2>2. left'[b] = left[b] - 1
      BY <1>2, <2>1 DEF Use
    <2>3. QED
      BY <2>1, <2>2 DEF Spent
  <1>3. QED
    BY <1>1, <1>2

\* A marker goes with a rollback, or with the machine if it was not synced.
LEMMA MarkerMoves ==
  ASSUME Types, [Next]_vars
  PROVE  /\ marker' = "volatile" => marker = "volatile" \/ Spent("faults")'
         /\ marker' = "none" =>
              \/ marker = "none"
              \/ marker = "volatile" /\ Spent("reboots")' /\ \A d \in Command : ~ Running(d)'
              \/ ~ Present /\ \E d \in Command : command[d].pc = "unmark" /\ lock' = lock
  <1>0. marker \in {"none", "volatile", "synced"}
    BY DEF Types
  <1> DEFINE Goal == /\ marker' = "volatile" => marker = "volatile" \/ Spent("faults")'
                     /\ marker' = "none" =>
                          \/ marker = "none"
                          \/ marker = "volatile" /\ Spent("reboots")' /\ \A d \in Command : ~ Running(d)'
                          \/ ~ Present /\ \E d \in Command : command[d].pc = "unmark" /\ lock' = lock
  <1>1. ASSUME NEW c \in Command, Show(c)
        PROVE  Goal
    BY <1>0, UseSpends, <1>1, ShowMoves DEF File, Reads, ReadFails, Marking, At
  <1>2. ASSUME NEW c \in Command, Submit(c)
        PROVE  Goal
    BY <1>0, UseSpends, <1>2, SubmitMoves DEF File, Reads, ReadFails, Marking, At
  <1>3. ASSUME NEW c \in Command, Direct(c)
        PROVE  Goal
    BY <1>0, UseSpends, <1>3, DirectMoves DEF File, Reads, ReadFails, Marking, At
  <1>4. ASSUME NEW c \in Command, Lock(c)
        PROVE  Goal
    BY <1>0, UseSpends, <1>4, LockMoves DEF File, Reads, ReadFails, Marking, At
  <1>5. ASSUME NEW c \in Command, Compare(c)
        PROVE  Goal
    BY <1>0, UseSpends, <1>5, CompareMoves DEF File, Reads, ReadFails, Marking, At
  <1>6. ASSUME NEW c \in Command, Mark(c)
        PROVE  Goal
    BY <1>0, UseSpends, <1>6, MarkMoves DEF File, Reads, ReadFails, Marking, At
  <1>7. ASSUME NEW c \in Command, CheckLock(c)
        PROVE  Goal
    BY <1>0, UseSpends, <1>7, CheckLockMoves DEF File, Reads, ReadFails, Marking, At
  <1>8. ASSUME NEW c \in Command, Rename(c)
        PROVE  Goal
    BY <1>0, UseSpends, <1>8, RenameMoves DEF File, Reads, ReadFails, Marking, At
  <1>9. ASSUME NEW c \in Command, Sync(c)
        PROVE  Goal
    BY <1>0, UseSpends, <1>9, SyncMoves DEF File, Reads, ReadFails, Marking, At
  <1>10. ASSUME NEW c \in Command, Rollback(c)
        PROVE  Goal
    BY <1>0, UseSpends, <1>10, RollbackMoves DEF File, Reads, ReadFails, Marking, At
  <1>11. ASSUME NEW c \in Command, Unmark(c)
        PROVE  Goal
    BY <1>0, <1>11, UnmarkMoves DEF At
  <1>12. ASSUME NEW c \in Command, Unlock(c)
        PROVE  Goal
    BY <1>0, UseSpends, <1>12, UnlockMoves DEF File, Reads, ReadFails, Marking, At
  <1>13. ASSUME NEW c \in Command, Report(c)
        PROVE  Goal
    BY <1>0, UseSpends, <1>13, ReportMoves DEF File, Reads, ReadFails, Marking, At
  <1>14. ASSUME NEW c \in Command, Crash(c)
        PROVE  Goal
    BY <1>0, UseSpends, <1>14, CrashMoves DEF File, Reads, ReadFails, Marking, At
  <1>15. ASSUME Reboot
        PROVE  Goal
    <2>1. Spent("reboots")' /\ \A d \in Command : ~ Running(d)'
      BY <1>15, RebootMoves, UseSpends DEF Running
    <2>2. QED
      BY <1>15, <2>1, RebootMoves
  <1>16. ASSUME Lose
        PROVE  Goal
    BY <1>0, UseSpends, <1>16 DEF Lose, File, Reads, ReadFails, Marking, At
  <1>17. ASSUME Age
        PROVE  Goal
    BY <1>0, UseSpends, <1>17, AgeMoves DEF File, Reads, ReadFails, Marking, At
  <1>18. ASSUME RemoveLock
        PROVE  Goal
    BY <1>0, UseSpends, <1>18 DEF RemoveLock, File, Reads, ReadFails, Marking, At
  <1>19. ASSUME NEW r \in Repo, Restriction(r)
        PROVE  Goal
    BY <1>0, UseSpends, <1>19 DEF Restriction, File, Reads, ReadFails, Marking, At
  <1>20. ASSUME UNCHANGED vars
        PROVE  Goal
    BY <1>0, UseSpends, <1>20 DEF vars, File, Reads, ReadFails, Marking, At
  <1>21. QED
    BY <1>1, <1>2, <1>3, <1>4, <1>5, <1>6, <1>7, <1>8, <1>9, <1>10, <1>11, <1>12, <1>13, <1>14,
       <1>15, <1>16, <1>17, <1>18, <1>19, <1>20 DEF Next, Step

\* A record is known from a read or a rename on, and is gone for a reason.
LEMMA KnownMoves ==
  ASSUME Types, [Next]_vars
  PROVE  /\ known => known'
         /\ known' =>
              \/ known \/ Present
              \/ \E d \in Command : /\ command[d].pc = "rename" /\ command'[d].pc = "sync"
                                    /\ marker' = marker /\ lock' = lock
         /\ saved' # << >> => saved # << >> \/ known'
         /\ saved' = << >> => saved = << >> \/ \A d \in Command : ~ Running(d)'
         /\ lost' => lost \/ (Present /\ Spent("losses")')
  <1> DEFINE Goal == /\ known => known'
                     /\ known' =>
                          \/ known \/ Present
                          \/ \E d \in Command : /\ command[d].pc = "rename" /\ command'[d].pc = "sync"
                                                /\ marker' = marker /\ lock' = lock
                     /\ saved' # << >> => saved # << >> \/ known'
                     /\ saved' = << >> => saved = << >> \/ \A d \in Command : ~ Running(d)'
                     /\ lost' => lost \/ (Present /\ Spent("losses")')
  <1>0. /\ saved \in Seq(Policy) /\ Len(saved) \in Nat /\ synced \in 0 .. Len(saved)
        /\ lost \in BOOLEAN /\ known \in BOOLEAN
    BY LenProperties DEF Types
  <1>1. CASE /\ saved' = saved /\ lost' = lost /\ synced' = synced
             /\ known' \in {known, known \/ Present}
    BY <1>0, <1>1
  <1>2. ASSUME NEW c \in Command, Rename(c)
        PROVE  Goal
    <2>1. CASE UNCHANGED File
      BY <2>1 DEF File
    <2>2. CASE ~ UNCHANGED File
      <3>1. /\ saved' # << >> /\ lost' = FALSE /\ known' = TRUE /\ marker' = marker
            /\ command'[c].pc = "sync"
        BY <1>2, <2>2, RenameAppends DEF Moves
      <3>2. QED
        BY <1>2, <3>1, RenameMoves DEF At
    <2>3. QED
      BY <2>1, <2>2
  <1>3. ASSUME NEW c \in Command, Sync(c)
        PROVE  Goal
    BY <1>3, SyncMoves
  <1>4. CASE Reboot
    <2>1. \A d \in Command : ~ Running(d)'
      BY <1>4, RebootMoves DEF Running
    <2>2. PICK n \in synced .. Len(saved) : saved' = SubSeq(saved, 1, n) /\ synced' = n
      BY <1>4, RebootMoves
    <2>3. saved = << >> => saved' = << >>
      <3>1. SUFFICES ASSUME saved = << >> PROVE saved' = << >>
        OBVIOUS
      <3>2. n = 0
        BY <1>0, <2>2, <3>1
      <3>3. QED
        BY <1>0, <2>2, <3>1, <3>2, SubSeqProperties, EmptySeq
    <2>4. QED
      BY <1>4, <2>1, <2>3, RebootMoves
  <1>5. CASE Lose
    BY <1>0, <1>5, UseSpends DEF Lose
  <1>6. QED
    BY <1>1, <1>2, <1>3, <1>4, <1>5, FileSteps

LEMMA WriterRests ==
  ASSUME NEW d \in Command, command'[d] = command[d], Asserts(d)' => Asserts(d)
  PROVE  /\ Asserts(d)' => Asserts(d) \/ command'[d].pc \in {"compare", "done"}
         /\ command'[d].pc = "assert" => command[d].pc = "assert" \/ marker' # "none"
         /\ command'[d].pc = "rename" =>
              \/ command[d].pc = "rename"
              \/ command[d].pc = "assert" /\ marker' = marker
         /\ Renamed(d)' =>
              \/ Renamed(d)
              \/ /\ command[d].pc = "rename" /\ command'[d].pc = "sync"
                 /\ marker' = marker /\ saved' # << >>
         /\ command'[d].base = None /\ command'[d].pc \in Writers =>
              \/ command[d].base = None /\ command[d].pc \in Writers
              \/ Readable /\ ~ Present /\ known' = known
  BY DEF Renamed

\* How a command comes to write, and to begin a record anew.
LEMMA WriterMoves ==
  ASSUME Types, Phased, [Next]_vars, NEW d \in Command
  PROVE  /\ Asserts(d)' => Asserts(d) \/ command'[d].pc \in {"compare", "done"}
         /\ command'[d].pc = "assert" => command[d].pc = "assert" \/ marker' # "none"
         /\ command'[d].pc = "rename" =>
              \/ command[d].pc = "rename"
              \/ command[d].pc = "assert" /\ marker' = marker
         /\ Renamed(d)' =>
              \/ Renamed(d)
              \/ /\ command[d].pc = "rename" /\ command'[d].pc = "sync"
                 /\ marker' = marker /\ saved' # << >>
         /\ command'[d].base = None /\ command'[d].pc \in Writers =>
              \/ command[d].base = None /\ command[d].pc \in Writers
              \/ Readable /\ ~ Present /\ known' = known
  <1> USE DEF Writers
  <1>0. /\ PhaseOf(command[d]) /\ None \notin Outcomes /\ None \notin LockSet /\ None \notin Policy
        /\ lock \in LockSet \cup {None} /\ marker \in {"none", "volatile", "synced"}
        /\ known \in BOOLEAN
    BY DEF Phased, Types, Constants
  <1>1. CASE \E c \in Command \ {d} : Step(c) \/ Crash(c)
    BY <1>0, <1>1, OthersRest, WriterRests
  <1>2. CASE Show(d)
    BY <1>0, <1>2, ShowMoves DEF Moves, Same, SameBase, At, Asserts, Owned, Renamed, File,
       PhaseOf, Phase
  <1>3. CASE Submit(d)
    BY <1>0, <1>3, SubmitMoves DEF Moves, Same, SameBase, At, Asserts, Owned, Renamed, File,
       PhaseOf, Phase
  <1>4. CASE Direct(d)
    BY <1>0, <1>4, DirectMoves DEF Moves, Same, SameBase, At, Asserts, Owned, Renamed, File,
       PhaseOf, Phase
  <1>5. CASE Lock(d)
    BY <1>0, <1>5, LockMoves DEF Moves, Same, SameBase, At, Asserts, Owned, Renamed, File,
       PhaseOf, Phase
  <1>6. CASE Compare(d)
    <2>1. Current = None => ~ Present
      BY <1>0, RecordIsPolicy
    <2>2. Reads => Readable /\ (~ Present => known' = known)
      BY <1>0 DEF Reads
    <2>3. QED
      BY <1>0, <1>6, <2>1, <2>2, CompareMoves DEF Moves, At, Asserts, Owned, Renamed
  <1>7. CASE Mark(d)
    BY <1>0, <1>7, MarkMoves DEF Moves, At, Asserts, Owned, Renamed, Marking
  <1>8. CASE CheckLock(d)
    BY <1>0, <1>8, CheckLockMoves DEF Moves, Same, SameBase, At, Asserts, Owned, Renamed, File,
       PhaseOf, Phase
  <1>9. CASE Rename(d)
    BY <1>0, <1>9, RenameAppends, RenameMoves DEF Moves, SameBase, At, Asserts, Owned, Renamed
  <1>10. CASE Sync(d)
    BY <1>0, <1>10, SyncMoves DEF Moves, Same, SameBase, At, Asserts, Owned, Renamed, PhaseOf,
       Phase, Outcomes
  <1>11. CASE Rollback(d)
    BY <1>0, <1>11, RollbackMoves DEF Moves, Same, SameBase, At, Asserts, Owned, Renamed, File,
       PhaseOf, Phase
  <1>12. CASE Unmark(d)
    BY <1>0, <1>12, UnmarkMoves DEF Moves, Same, SameBase, At, Asserts, Owned, Renamed, File,
       PhaseOf, Phase
  <1>13. CASE Unlock(d)
    BY <1>0, <1>13, UnlockMoves DEF Moves, Same, SameBase, At, Asserts, Owned, Renamed, File,
       PhaseOf, Phase
  <1>14. CASE Report(d)
    BY <1>0, <1>14, ReportMoves DEF Moves, Same, SameBase, At, Asserts, Owned, Renamed, File,
       PhaseOf, Phase
  <1>15. CASE Crash(d)
    BY <1>0, <1>15, CrashMoves DEF Moves, Same, SameBase, At, Asserts, Owned, Renamed, File,
       PhaseOf, Phase
  <1>16. CASE Reboot
    BY <1>0, <1>16, RebootMoves DEF Same, SameBase, Running, Asserts, Owned, Renamed
  <1>17. CASE Lose
    BY <1>0, <1>17, WriterRests DEF Lose, Asserts, Owned
  <1>18. CASE Age
    <2>1. Asserts(d)' => Asserts(d)
      BY <1>0, <1>18, AgeMoves DEF Asserts, Owned
    <2>2. QED
      BY <1>0, <1>18, <2>1, AgeMoves DEF Same, SameBase, Renamed
  <1>19. CASE RemoveLock
    BY <1>0, <1>19, WriterRests DEF RemoveLock, Asserts, Owned
  <1>20. CASE \E r \in Repo : Restriction(r)
    BY <1>0, <1>20, WriterRests DEF Restriction, Asserts, Owned
  <1>21. CASE UNCHANGED vars
    BY <1>0, <1>21, WriterRests DEF vars, Asserts, Owned
  <1>22. QED
    BY <1>1, <1>2, <1>3, <1>4, <1>5, <1>6, <1>7, <1>8, <1>9, <1>10, <1>11, <1>12, <1>13, <1>14,
       <1>15, <1>16, <1>17, <1>18, <1>19, <1>20, <1>21 DEF Next, Step

\* Whoever holds the lock is the only one that does.
LEMMA OneAsserts ==
  ASSUME NEW c \in Command, NEW d \in Command, Asserts(c), Asserts(d)
  PROVE  c = d
  BY DEF Asserts, Owned

\* Who takes back a marker does it under a young lock, and then no record was known.
LEMMA UnmarkIsRight ==
  ASSUME Types, Locked, Phased, Marked, ~ Slipped, NEW c \in Command, command[c].pc = "unmark"
  PROVE  Asserts(c) /\ (~ Unmarked => ~ known)
  <1>1. ~ command[c].slipped /\ command[c].base = None
    BY DEF Slipped, Phased, PhaseOf, Phase
  <1>2. Asserts(c)
    BY <1>1 DEF Locked
  <1>3. QED
    BY <1>1, <1>2 DEF Marked, Writers

\* And who renames does it under a young lock and with a marker.
LEMMA RenameIsRight ==
  ASSUME Types, Locked, Marked, ~ Slipped, NEW c \in Command, command[c].pc = "rename"
  PROVE  Asserts(c) /\ marker # "none"
  <1>1. ~ command[c].slipped
    BY DEF Slipped
  <1>2. Asserts(c)
    BY <1>1 DEF Locked
  <1>3. QED
    BY <1>2 DEF Marked

LEMMA LossSeenStep ==
  ASSUME Types, Locked, Phased, Marked, [Next]_vars
  PROVE  LossIsSeen'
  <1>1. SUFFICES ASSUME known', ~ Unmarked', ~ Slipped'
                 PROVE  marker' # "none"
    BY DEF LossIsSeen
  <1>2. ~ Unmarked /\ ~ Slipped
    BY <1>1, HistoryStays
  <1>3. CASE known
    <2>1. marker # "none"
      BY <1>2, <1>3 DEF Marked, LossIsSeen
    <2>2. ~ (marker = "volatile" /\ Spent("reboots")')
      <3>1. SUFFICES ASSUME marker = "volatile", Spent("reboots")' PROVE FALSE
        OBVIOUS
      <3>2. Spent("faults")
        BY <3>1 DEF Marked
      <3>3. Spent("faults")'
        BY <3>2, HistoryStays DEF Bounds
      <3>4. QED
        BY <1>1, <3>1, <3>3 DEF Unmarked
    <2>3. \A d \in Command : command[d].pc # "unmark"
      BY <1>2, <1>3, UnmarkIsRight
    <2>4. QED
      BY <2>1, <2>2, <2>3, MarkerMoves
  <1>4. CASE ~ known
    <2>1. ~ Present
      BY <1>4 DEF Marked, Present
    <2>2. PICK d \in Command : command[d].pc = "rename" /\ marker' = marker
      BY <1>1, <1>4, <2>1, KnownMoves
    <2>3. QED
      BY <1>2, <2>2, RenameIsRight
  <1>5. QED
    BY <1>3, <1>4

\* A marker stays for who needs it.
LEMMA MarkerStays ==
  ASSUME Types, Locked, Phased, Marked, [Next]_vars, ~ Slipped, marker # "none",
         NEW d \in Command, Running(d)',
         (Asserts(d) /\ Asserts(d)' /\ command[d].pc # "unmark") \/ Present
  PROVE  marker' # "none"
  <1>1. SUFFICES ASSUME marker' = "none"
                 PROVE  FALSE
    OBVIOUS
  <1>2. PICK c \in Command : ~ Present /\ command[c].pc = "unmark"
    BY <1>1, MarkerMoves
  <1>3. Asserts(c)
    BY <1>2, UnmarkIsRight
  <1>4. QED
    BY <1>2, <1>3, OneAsserts

LEMMA MarkedStep ==
  ASSUME Types, Locked, Phased, Marked, [Next]_vars
  PROVE  Marked'
  <1>1. (marker = "volatile" => Spent("faults"))'
    <2>1. Spent("faults") => Spent("faults")'
      BY HistoryStays DEF Bounds
    <2>2. QED
      BY <2>1, MarkerMoves DEF Marked
  <1>2. (saved # << >> => known)'
    BY KnownMoves DEF Marked
  <1>3. (lost => known /\ Spent("losses"))'
    <2>1. Present => known
      BY DEF Present, Marked
    <2>2. QED
      BY <2>1, KnownMoves, HistoryStays DEF Marked
  <1>4. LossIsSeen'
    BY LossSeenStep
  <1>5. ASSUME ~ Slipped', NEW d \in Command
        PROVE  /\ Asserts(d)' /\ command'[d].pc \in {"assert", "rename"} => marker' # "none"
               /\ Renamed(d)' /\ ~ Spent("losses")' => marker' # "none" /\ saved' # << >>
               /\ /\ ~ Unmarked' /\ Asserts(d)' /\ command'[d].base = None
                  /\ command'[d].pc \in Writers
                  => ~ known'
    <2>1. ~ Slipped
      BY <1>5, HistoryStays
    <2>2. ASSUME Asserts(d)', command'[d].pc \in {"assert", "rename"}
          PROVE  marker' # "none"
      <3>1. Asserts(d) /\ Running(d)'
        BY <2>2, WriterMoves DEF Running
      <3>2. CASE command[d].pc \in {"assert", "rename"}
        <4>1. marker # "none" /\ command[d].pc # "unmark"
          BY <2>1, <3>1, <3>2 DEF Marked
        <4>2. QED
          BY <2>1, <2>2, <3>1, <4>1, MarkerStays
      <3>3. CASE command[d].pc \notin {"assert", "rename"}
        BY <2>2, <3>3, WriterMoves
      <3>4. QED
        BY <3>2, <3>3
    <2>3. ASSUME Renamed(d)', ~ Spent("losses")'
          PROVE  marker' # "none" /\ saved' # << >>
      <3>1. Running(d)' /\ ~ Spent("losses")
        BY <2>3, HistoryStays DEF Renamed, Running
      <3>2. CASE Renamed(d)
        <4>1. marker # "none" /\ saved # << >> /\ ~ lost
          BY <2>1, <3>1, <3>2 DEF Marked
        <4>2. Present
          BY <4>1 DEF Present
        <4>3. marker' # "none"
          BY <2>1, <3>1, <4>1, <4>2, MarkerStays
        <4>4. saved' # << >>
          BY <3>1, <4>1, KnownMoves
        <4>5. QED
          BY <4>3, <4>4
      <3>3. CASE command[d].pc = "rename" /\ marker' = marker /\ saved' # << >>
        BY <2>1, <3>3, RenameIsRight
      <3>4. QED
        BY <2>3, <3>2, <3>3, WriterMoves
    <2>4. ASSUME ~ Unmarked', Asserts(d)', command'[d].base = None,
                 command'[d].pc \in Writers
          PROVE  ~ known'
      <3>1. ~ Unmarked /\ Asserts(d)
        BY <2>4, HistoryStays, WriterMoves DEF Writers
      <3>2. CASE command[d].base = None /\ command[d].pc \in Writers
        <4>1. ~ known
          BY <2>1, <3>1, <3>2 DEF Marked
        <4>2. ~ Present
          BY <4>1 DEF Present, Marked
        <4>3. \A c \in Command : command[c].pc = "rename" => command'[c].pc # "sync"
          <5>1. SUFFICES ASSUME NEW c \in Command, command[c].pc = "rename", command'[c].pc = "sync"
                         PROVE  FALSE
            OBVIOUS
          <5>2. c = d
            BY <2>1, <3>1, <5>1, RenameIsRight, OneAsserts
          <5>3. QED
            BY <2>4, <5>1, <5>2 DEF Writers
        <4>4. QED
          BY <4>1, <4>2, <4>3, KnownMoves
      <3>3. CASE Readable /\ ~ Present /\ known' = known
        <4>1. marker = "none"
          BY <3>3 DEF Readable
        <4>2. QED
          BY <2>1, <3>1, <3>3, <4>1 DEF Marked, LossIsSeen
      <3>4. QED
        BY <2>4, <3>2, <3>3, WriterMoves
    <2>5. QED
      BY <2>2, <2>3, <2>4
  <1>6. QED
    BY <1>1, <1>2, <1>3, <1>4, <1>5 DEF Marked

\* Who reports a loss has made nothing, or could not read what it made.
LEMMA MissingMoves ==
  ASSUME Types, Phased, [Next]_vars, NEW d \in Command
  PROVE  command'[d].pc = "done" /\ command'[d].outcome = "missing" =>
           \/ command'[d].made = None
           \/ /\ command[d].pc = "done" /\ command[d].outcome = "missing"
              /\ command'[d].made = command[d].made
           \/ command[d].pc = "report" /\ ReadFails
  <1>0. PhaseOf(command[d]) /\ None \notin Outcomes
    BY DEF Phased, Types, Constants
  <1>1. CASE \E c \in Command \ {d} : Step(c) \/ Crash(c)
    BY <1>0, <1>1, OthersRest
  <1>2. CASE Show(d)
    BY <1>0, <1>2, ShowMoves DEF Moves, Same, SameMade, At, PhaseOf, Phase
  <1>3. CASE Submit(d)
    BY <1>0, <1>3, SubmitMoves DEF Moves, Same, SameMade, At, PhaseOf, Phase
  <1>4. CASE Direct(d)
    BY <1>0, <1>4, DirectMoves DEF Moves, Same, SameMade, At, PhaseOf, Phase
  <1>5. CASE Lock(d)
    BY <1>0, <1>5, LockMoves DEF Moves, Same, SameMade, At, PhaseOf, Phase
  <1>6. CASE Compare(d)
    BY <1>0, <1>6, CompareMoves DEF Moves, Same, SameMade, At, PhaseOf, Phase
  <1>7. CASE Mark(d)
    BY <1>0, <1>7, MarkMoves DEF Moves, Same, SameMade, At, PhaseOf, Phase
  <1>8. CASE CheckLock(d)
    BY <1>0, <1>8, CheckLockMoves DEF Moves, Same, SameMade, At, PhaseOf, Phase
  <1>9. CASE Rename(d)
    BY <1>0, <1>9, RenameMoves DEF Moves, Same, SameMade, At, PhaseOf, Phase
  <1>10. CASE Sync(d)
    BY <1>0, <1>10, SyncMoves DEF Moves, Same, SameMade, At, PhaseOf, Phase
  <1>11. CASE Rollback(d)
    BY <1>0, <1>11, RollbackMoves DEF Moves, Same, SameMade, At, PhaseOf, Phase
  <1>12. CASE Unmark(d)
    BY <1>0, <1>12, UnmarkMoves DEF Moves, Same, SameMade, At, PhaseOf, Phase
  <1>13. CASE Unlock(d)
    BY <1>0, <1>13, UnlockMoves DEF Moves, Same, SameMade, At, PhaseOf, Phase
  <1>14. CASE Report(d)
    BY <1>0, <1>14, ReportMoves DEF Moves, Same, SameMade, At, PhaseOf, Phase
  <1>15. CASE Crash(d)
    BY <1>0, <1>15, CrashMoves DEF Moves, Same, SameMade, At, PhaseOf, Phase
  <1>16. CASE Reboot
    BY <1>0, <1>16, RebootMoves DEF Same, SameMade
  <1>17. CASE Lose
    BY <1>0, <1>17 DEF Lose
  <1>18. CASE Age
    BY <1>0, <1>18, AgeMoves DEF Same, SameMade
  <1>19. CASE RemoveLock
    BY <1>0, <1>19 DEF RemoveLock
  <1>20. CASE \E r \in Repo : Restriction(r)
    BY <1>0, <1>20 DEF Restriction
  <1>21. CASE UNCHANGED vars
    BY <1>0, <1>21 DEF vars
  <1>22. QED
    BY <1>1, <1>2, <1>3, <1>4, <1>5, <1>6, <1>7, <1>8, <1>9, <1>10, <1>11, <1>12, <1>13, <1>14,
       <1>15, <1>16, <1>17, <1>18, <1>19, <1>20, <1>21 DEF Next, Step

LEMMA ReportedStep ==
  ASSUME Types, Locked, Phased, Marked, Reported, [Next]_vars
  PROVE  Reported'
  <1>1. SUFFICES ASSUME NEW d \in Command, command'[d].pc = "done", command'[d].outcome = "missing",
                        command'[d].made # None, ~ Spent("losses")', ~ Slipped'
                 PROVE  FALSE
    BY DEF Reported
  <1>2. ~ Spent("losses") /\ ~ Slipped
    BY <1>1, HistoryStays
  <1>3. CASE /\ command[d].pc = "done" /\ command[d].outcome = "missing"
             /\ command'[d].made = command[d].made
    BY <1>1, <1>2, <1>3 DEF Reported
  <1>4. CASE command[d].pc = "report" /\ ReadFails
    <2>1. marker # "none" /\ saved # << >> /\ ~ lost
      BY <1>2, <1>4 DEF Marked, Renamed
    <2>2. QED
      BY <1>4, <2>1 DEF ReadFails, Readable, Present
  <1>5. QED
    BY <1>1, <1>3, <1>4, MissingMoves

\* What becomes of the record.
LEMMA SavedMoves ==
  ASSUME Types, [Next]_vars
  PROVE  \/ saved' = saved
         \/ /\ \A d \in Command : ~ Running(d)'
            /\ Len(saved') <= Len(saved) /\ \A i \in 1 .. Len(saved') : saved'[i] = saved[i]
         \/ \E d \in Command :
              /\ command[d].pc = "rename" /\ command'[d].pc = "sync"
              /\ Len(saved') = Len(saved) + 1
              /\ \A i \in 1 .. Len(saved) : saved'[i] = saved[i]
              /\ saved'[Len(saved) + 1] = Written(OrNew(command[d].base), command[d].answer)
  <1> DEFINE Goal == \/ saved' = saved
                     \/ /\ \A d \in Command : ~ Running(d)'
                        /\ Len(saved') <= Len(saved) /\ \A i \in 1 .. Len(saved') : saved'[i] = saved[i]
                     \/ \E d \in Command :
                          /\ command[d].pc = "rename" /\ command'[d].pc = "sync"
                          /\ Len(saved') = Len(saved) + 1
                          /\ \A i \in 1 .. Len(saved) : saved'[i] = saved[i]
                          /\ saved'[Len(saved) + 1] = Written(OrNew(command[d].base), command[d].answer)
  <1>0. /\ saved \in Seq(Policy) /\ Len(saved) \in Nat /\ synced \in 0 .. Len(saved)
        /\ lost \in BOOLEAN /\ known \in BOOLEAN
    BY LenProperties DEF Types
  <1>1. CASE /\ saved' = saved /\ lost' = lost /\ synced' = synced
             /\ known' \in {known, known \/ Present}
    BY <1>1
  <1>2. ASSUME NEW c \in Command, Rename(c)
        PROVE  Goal
    <2>1. CASE UNCHANGED File
      BY <2>1 DEF File
    <2>2. CASE ~ UNCHANGED File
      <3>1. At(c, "rename") /\ command'[c].pc = "sync"
        BY <1>2, <2>2, RenameAppends, RenameMoves DEF Moves
      <3>2. QED
        BY <1>2, <2>2, <3>1, RenameAppends DEF At
    <2>3. QED
      BY <2>1, <2>2
  <1>3. ASSUME NEW c \in Command, Sync(c)
        PROVE  Goal
    BY <1>3, SyncMoves
  <1>4. CASE Reboot
    <2>1. PICK n \in synced .. Len(saved) : saved' = SubSeq(saved, 1, n) /\ synced' = n
      BY <1>4, RebootMoves
    <2>2. n \in 0 .. Len(saved)
      BY <1>0, <2>1
    <2>3. Len(saved') = n /\ \A i \in 1 .. n : saved'[i] = saved[i]
      BY <1>0, <2>1, <2>2, SubSeqProperties
    <2>4. \A d \in Command : ~ Running(d)'
      BY <1>4, RebootMoves DEF Running
    <2>5. Len(saved') <= Len(saved) /\ \A i \in 1 .. Len(saved') : saved'[i] = saved[i]
      BY <1>0, <2>2, <2>3
    <2>6. QED
      BY <2>4, <2>5
  <1>5. CASE Lose
    BY <1>5 DEF Lose
  <1>6. QED
    BY <1>1, <1>2, <1>3, <1>4, <1>5, FileSteps

LEMMA SeenRests ==
  ASSUME NEW d \in Command, command'[d] = command[d]
  PROVE  /\ Running(d)' =>
              \/ Running(d) /\ command'[d].seen = command[d].seen
              \/ command'[d].seen = Current /\ saved' = saved
         /\ command'[d].pc \in {"lock", "compare", "mark", "assert", "rename"} =>
              \/ command[d].pc \in {"lock", "compare", "mark", "assert", "rename"} /\ SameSeen(d)
              \/ /\ Running(d) /\ command'[d].seen = command[d].seen
                 /\ Revision(Current) = Revision(command[d].seen)
                 /\ \E a \in Answer : /\ command'[d].answer = Now(OrNew(Current), a)
                                      /\ ~ Refused(OrNew(Current), a)
              \/ /\ command'[d].seen = Current
                 /\ \E a \in Answer : /\ a.kind \in {"repository", "global"}
                                      /\ command'[d].answer = a
                                      /\ ~ Refused(OrNew(Current), a)
         /\ command'[d].pc \in {"mark", "assert", "rename"} =>
              \/ /\ command[d].pc \in {"mark", "assert", "rename"} /\ SameSeen(d)
                 /\ command'[d].base = command[d].base
              \/ /\ command[d].pc = "compare" /\ Readable /\ saved' = saved /\ SameSeen(d)
                 /\ command'[d].base = Current
                 /\ Revision(Current) = Revision(command[d].seen)
  BY DEF Running, SameSeen

\* What a command has seen, and what it goes on.
LEMMA SeenMoves ==
  ASSUME Types, [Next]_vars, NEW d \in Command
  PROVE  /\ Running(d)' =>
              \/ Running(d) /\ command'[d].seen = command[d].seen
              \/ command'[d].seen = Current /\ saved' = saved
         /\ command'[d].pc \in {"lock", "compare", "mark", "assert", "rename"} =>
              \/ command[d].pc \in {"lock", "compare", "mark", "assert", "rename"} /\ SameSeen(d)
              \/ /\ Running(d) /\ command'[d].seen = command[d].seen
                 /\ Revision(Current) = Revision(command[d].seen)
                 /\ \E a \in Answer : /\ command'[d].answer = Now(OrNew(Current), a)
                                      /\ ~ Refused(OrNew(Current), a)
              \/ /\ command'[d].seen = Current
                 /\ \E a \in Answer : /\ a.kind \in {"repository", "global"}
                                      /\ command'[d].answer = a
                                      /\ ~ Refused(OrNew(Current), a)
         /\ command'[d].pc \in {"mark", "assert", "rename"} =>
              \/ /\ command[d].pc \in {"mark", "assert", "rename"} /\ SameSeen(d)
                 /\ command'[d].base = command[d].base
              \/ /\ command[d].pc = "compare" /\ Readable /\ saved' = saved /\ SameSeen(d)
                 /\ command'[d].base = Current
                 /\ Revision(Current) = Revision(command[d].seen)
  <1>1. CASE \E c \in Command \ {d} : Step(c) \/ Crash(c)
    BY <1>1, OthersRest, SeenRests
  <1>2. CASE Show(d)
    BY <1>2, ShowMoves DEF Moves, Running, Reads
  <1>3. CASE Submit(d)
    <2>1. PICK a \in Offered(OrNew(command[d].seen), command[d].restricted) :
            /\ command'[d].answer = Now(OrNew(Current), a)
            /\ \/ ReadFails /\ Moves(d, "done", "missing")
               \/ Reads /\ \E o \in {"stale", "refused", "unchanged"} : Moves(d, "done", o)
               \/ /\ Reads /\ Moves(d, "lock", command[d].outcome)
                  /\ Revision(Current) = Revision(command[d].seen)
                  /\ ~ Refused(OrNew(Current), a)
      BY <1>3, SubmitMoves
    <2>2. a \in Answer
      BY DEF Offered
    <2>3. At(d, "asked") /\ command'[d].seen = command[d].seen
      BY <1>3, SubmitMoves
    <2>4. QED
      BY <2>1, <2>2, <2>3 DEF Moves, At, Running
  <1>4. CASE Direct(d)
    BY <1>4, DirectMoves DEF Moves, At, Running, Reads
  <1>5. CASE Lock(d)
    BY <1>5, LockMoves DEF Moves, Same, SameSeen, SameBase, At, Running
  <1>6. CASE Compare(d)
    BY <1>6, CompareMoves DEF Moves, SameSeen, At, Running, Reads
  <1>7. CASE Mark(d)
    BY <1>7, MarkMoves DEF Moves, Same, SameSeen, SameBase, At, Running
  <1>8. CASE CheckLock(d)
    BY <1>8, CheckLockMoves DEF Moves, Same, SameSeen, SameBase, At, Running
  <1>9. CASE Rename(d)
    BY <1>9, RenameMoves DEF Moves, Same, SameSeen, SameBase, At, Running
  <1>10. CASE Sync(d)
    BY <1>10, SyncMoves DEF Moves, Same, SameSeen, SameBase, At, Running
  <1>11. CASE Rollback(d)
    BY <1>11, RollbackMoves DEF Moves, Same, SameSeen, SameBase, At, Running
  <1>12. CASE Unmark(d)
    BY <1>12, UnmarkMoves DEF Moves, Same, SameSeen, SameBase, At, Running
  <1>13. CASE Unlock(d)
    BY <1>13, UnlockMoves DEF Moves, Same, SameSeen, SameBase, At, Running
  <1>14. CASE Report(d)
    BY <1>14, ReportMoves DEF Moves, Same, SameSeen, SameBase, At, Running
  <1>15. CASE Crash(d)
    BY <1>15, CrashMoves DEF Moves, Same, SameSeen, SameBase, At, Running
  <1>16. CASE Reboot
    BY <1>16, RebootMoves DEF Same, SameSeen, SameBase, Running
  <1>17. CASE Lose
    BY <1>17, SeenRests DEF Lose
  <1>18. CASE Age
    BY <1>18, AgeMoves DEF Same, SameSeen, SameBase, Running
  <1>19. CASE RemoveLock
    BY <1>19, SeenRests DEF RemoveLock
  <1>20. CASE \E r \in Repo : Restriction(r)
    BY <1>20, SeenRests DEF Restriction
  <1>21. CASE UNCHANGED vars
    BY <1>21, SeenRests DEF vars
  <1>22. QED
    BY <1>1, <1>2, <1>3, <1>4, <1>5, <1>6, <1>7, <1>8, <1>9, <1>10, <1>11, <1>12, <1>13, <1>14,
       <1>15, <1>16, <1>17, <1>18, <1>19, <1>20, <1>21 DEF Next, Step

\* Every decision is later than the one it replaces, and following is transitive.
LEMMA WrittenFollows ==
  ASSUME NEW p \in Policy, NEW a \in Answer
  PROVE  Follows(p, Written(p, a)) /\ Written(p, a).revision > 0
  <1>1. /\ p.revision \in Nat /\ p.org \in Choice /\ \A r \in Repo : p.repos[r] \in Choice
    BY DEF Policy
  <1>2. \A x \in Choice : \A on : Later(x, Decide(x, on)) /\ Later(x, x)
    BY DEF Choice, Later, Decide
  <1>3. /\ Written(p, a).revision = p.revision + 1
        /\ Written(p, a).org = p.org \/ \E on : Written(p, a).org = Decide(p.org, on)
        /\ \A r \in Repo : \/ Written(p, a).repos[r] = p.repos[r]
                           \/ \E on : Written(p, a).repos[r] = Decide(p.repos[r], on)
    BY DEF Written
  <1>4. Later(p.org, Written(p, a).org)
    BY <1>1, <1>2, <1>3
  <1>5. \A r \in Repo : Later(p.repos[r], Written(p, a).repos[r])
    BY <1>1, <1>2, <1>3
  <1>6. p.revision < Written(p, a).revision /\ Written(p, a).revision > 0
    BY <1>1, <1>3
  <1>7. QED
    BY <1>4, <1>5, <1>6 DEF Follows

LEMMA FollowsOn ==
  ASSUME NEW p \in Policy, NEW q \in Policy, NEW r \in Policy, Follows(p, q), Follows(q, r)
  PROVE  Follows(p, r)
  <1>1. \A x, y, z \in Choice : Later(x, y) /\ Later(y, z) => Later(x, z)
    BY DEF Choice, Later
  <1>2. \A x \in {p, q, r} :
          x.org \in Choice /\ x.revision \in Nat /\ \A n \in Repo : x.repos[n] \in Choice
    BY DEF Policy
  <1>3. Later(p.org, r.org)
    BY <1>1, <1>2 DEF Follows
  <1>4. \A n \in Repo : Later(p.repos[n], r.repos[n])
    BY <1>1, <1>2 DEF Follows
  <1>5. p.revision < r.revision
    BY <1>2 DEF Follows
  <1>6. QED
    BY <1>3, <1>4, <1>5 DEF Follows

\* A record appended to a chain that follows its newest keeps it a chain.
LEMMA ChainGrows ==
  ASSUME NEW s \in Seq(Policy), NEW t \in Seq(Policy), Chained(s), Len(t) = Len(s) + 1,
         \A i \in 1 .. Len(s) : t[i] = s[i],
         s # << >> => Follows(s[Len(s)], t[Len(t)])
  PROVE  Chained(t)
  <1>0. Len(s) \in Nat
    BY LenProperties
  <1>1. SUFFICES ASSUME NEW i \in 1 .. Len(t), NEW k \in 1 .. Len(t), i < k
                 PROVE  Follows(t[i], t[k])
    BY DEF Chained
  <1>2. CASE k \in 1 .. Len(s)
    BY <1>0, <1>1, <1>2 DEF Chained
  <1>3. CASE k = Len(t)
    <2>1. i \in 1 .. Len(s) /\ s # << >> /\ Len(s) \in 1 .. Len(s)
      BY <1>0, <1>1, <1>3, EmptySeq
    <2>2. s[i] \in Policy /\ s[Len(s)] \in Policy /\ t[Len(t)] \in Policy
      BY <1>3, <2>1, ElementOfSeq
    <2>3. i = Len(s) \/ i < Len(s)
      BY <1>0, <2>1
    <2>4. i < Len(s) => Follows(s[i], s[Len(s)])
      BY <2>1 DEF Chained
    <2>5. QED
      BY <1>3, <2>1, <2>2, <2>3, <2>4, FollowsOn
  <1>4. QED
    BY <1>0, <1>1, <1>2, <1>3

\* While nothing was forgotten a record that is not there is not there yet.
LEMMA NoneIsNoneYet ==
  ASSUME Types, Marked, ~ Slipped, ~ Forgotten, Readable
  PROVE  Current = Newest
  <1>1. CASE Present
    BY <1>1, RecordIsPolicy DEF Newest, Present
  <1>2. CASE ~ Present
    <2>1. marker = "none"
      BY <1>2 DEF Readable
    <2>2. saved = << >>
      <3>1. SUFFICES ASSUME saved # << >> PROVE FALSE
        OBVIOUS
      <3>2. known /\ Spent("losses")
        BY <1>2, <3>1 DEF Marked, Present
      <3>3. ~ Unmarked
        BY <3>2 DEF Forgotten
      <3>4. QED
        BY <2>1, <3>2, <3>3 DEF Marked, LossIsSeen
    <2>3. QED
      BY <1>2, <2>2 DEF Newest, Current
  <1>3. QED
    BY <1>1, <1>2

\* A revision names one record.
LEMMA SameRevision ==
  ASSUME Types, Shown, ~ Slipped, ~ Forgotten, NEW c \in Command, Running(c),
         Revision(Current) = Revision(command[c].seen)
  PROVE  Current = command[c].seen
  <1>1. saved \in Seq(Policy) /\ Len(saved) \in Nat /\ None \notin Policy
    BY LenProperties DEF Types, Constants
  <1>2. Current # None => /\ Len(saved) \in 1 .. Len(saved) /\ Current = saved[Len(saved)]
                          /\ Revision(Current) = saved[Len(saved)].revision
                          /\ saved[Len(saved)].revision \in Nat /\ saved[Len(saved)].revision > 0
    <2>1. Current # None => Present
      BY DEF Current
    <2>2. Present => saved[Len(saved)] \in Policy
      BY RecordIsPolicy
    <2>3. \A p \in Policy : p.revision \in Nat
      BY DEF Policy
    <2>4. QED
      BY <1>1, <2>1, <2>2, <2>3, RecordIsPolicy DEF Revision, Shown
  <1>3. CASE command[c].seen = None
    <2>1. Revision(Current) = 0
      BY <1>3 DEF Revision
    <2>2. QED
      BY <1>2, <1>3, <2>1
  <1>4. CASE command[c].seen # None
    <2>1. PICK i \in 1 .. Len(saved) : saved[i] = command[c].seen
      BY <1>4 DEF Shown
    <2>2. saved[i] \in Policy /\ Revision(command[c].seen) = saved[i].revision
      BY <1>1, <1>4, <2>1, ElementOfSeq DEF Revision
    <2>3. saved[i].revision \in Nat /\ saved[i].revision > 0
      BY <2>2 DEF Policy, Shown
    <2>4. Current # None
      BY <2>2, <2>3 DEF Revision
    <2>5. ~ (i < Len(saved))
      <3>1. SUFFICES ASSUME i < Len(saved) PROVE FALSE
        OBVIOUS
      <3>2. saved[i].revision < saved[Len(saved)].revision
        BY <1>2, <2>1, <2>4, <3>1 DEF Shown, Chained, Follows
      <3>3. QED
        BY <1>2, <2>2, <2>3, <2>4, <3>2
    <2>6. i = Len(saved)
      BY <1>1, <2>5
    <2>7. QED
      BY <1>2, <2>1, <2>4, <2>6
  <1>5. QED
    BY <1>3, <1>4

\* An answer that the form takes fits the record.
LEMMA NowFits ==
  ASSUME Types, NEW p \in Policy, NEW a \in Answer, ~ Refused(p, a)
  PROVE  Fits(p, Now(p, a)) /\ (a.kind \in {"repository", "global"} => Fits(p, a))
  <1>1. Now(p, a) \in Answer
    BY NowIsAnswer
  <1>2. CASE a.kind = "toggle"
    <2>1. a \in [kind : {"toggle"}, on : {TRUE}, repos : SUBSET Repo]
      BY <1>2 DEF Answer
    <2>2. Now(p, a).kind = "toggle" /\ Now(p, a).repos = a.repos \cap Actionable(p, local)
      BY <1>2, <2>1 DEF Now
    <2>3. QED
      BY <1>1, <1>2, <2>2 DEF Fits, Actionable
  <1>3. CASE a.kind # "toggle"
    BY <1>1, <1>3 DEF Now, Fits, Refused
  <1>4. QED
    BY <1>2, <1>3

LEMMA RecordsStep ==
  ASSUME Types, Shown, [Next]_vars
  PROVE  /\ \A i \in 1 .. Len(saved') : saved'[i].revision > 0
         /\ \A d \in Command : Running(d)' =>
              command'[d].seen = None \/ \E i \in 1 .. Len(saved') : saved'[i] = command'[d].seen
  <1>0. saved \in Seq(Policy) /\ Len(saved) \in Nat /\ saved' \in Seq(Policy) /\ Len(saved') \in Nat
    BY FileTyped, LenProperties DEF Types
  <1>1. \A i \in 1 .. Len(saved') : saved'[i].revision > 0
    <2>1. CASE \E d \in Command :
                 /\ command[d].pc = "rename" /\ Len(saved') = Len(saved) + 1
                 /\ \A i \in 1 .. Len(saved) : saved'[i] = saved[i]
                 /\ saved'[Len(saved) + 1] = Written(OrNew(command[d].base), command[d].answer)
      <3>1. PICK d \in Command :
                 /\ command[d].pc = "rename" /\ Len(saved') = Len(saved) + 1
                 /\ \A i \in 1 .. Len(saved) : saved'[i] = saved[i]
                 /\ saved'[Len(saved) + 1] = Written(OrNew(command[d].base), command[d].answer)
        BY <2>1
      <3>2. command[d].answer \in Answer /\ OrNew(command[d].base) \in Policy
        BY <3>1, RecordIsPolicy DEF Types, CommandSet, OrNew
      <3>3. saved'[Len(saved) + 1].revision > 0
        BY <3>1, <3>2, WrittenFollows
      <3>4. \A i \in 1 .. Len(saved') : i \in 1 .. Len(saved) \/ i = Len(saved) + 1
        BY <1>0, <3>1
      <3>5. QED
        BY <3>1, <3>3, <3>4 DEF Shown
    <2>2. CASE /\ Len(saved') <= Len(saved)
               /\ \A i \in 1 .. Len(saved') : saved'[i] = saved[i]
      <3>1. \A i \in 1 .. Len(saved') : i \in 1 .. Len(saved)
        BY <1>0, <2>2
      <3>2. QED
        BY <2>2, <3>1 DEF Shown
    <2>3. CASE saved' = saved
      BY <2>3 DEF Shown
    <2>4. QED
      BY <2>1, <2>2, <2>3, SavedMoves
  <1>2. ASSUME NEW d \in Command, Running(d)'
        PROVE  command'[d].seen = None \/ \E i \in 1 .. Len(saved') : saved'[i] = command'[d].seen
    <2>1. CASE Running(d) /\ command'[d].seen = command[d].seen
      <3>1. \A i \in 1 .. Len(saved) : i \in 1 .. Len(saved') /\ saved'[i] = saved[i]
        BY <1>2, SavedStays
      <3>2. QED
        BY <2>1, <3>1 DEF Shown
    <2>2. CASE command'[d].seen = Current /\ saved' = saved
      BY <2>2, RecordIsPolicy DEF Current
    <2>3. QED
      BY <1>2, <2>1, <2>2, SeenMoves
  <1>3. QED
    BY <1>1, <1>2

\* Who writes under a young lock writes after the newest record.
LEMMA RenameIsNext ==
  ASSUME Types, Locked, Marked, Shown, ~ Slipped, ~ Forgotten,
         NEW c \in Command, command[c].pc = "rename"
  PROVE  /\ Asserts(c) /\ command[c].seen = Newest /\ command[c].base = Newest
         /\ OrNew(Newest) \in Policy /\ Fits(OrNew(Newest), command[c].answer)
         /\ saved # << >> => Newest = saved[Len(saved)] /\ OrNew(Newest) = Newest
  <1>1. Asserts(c)
    BY RenameIsRight
  <1>2. command[c].seen = Newest /\ command[c].base = Newest
    BY <1>1 DEF Shown
  <1>3. Fits(OrNew(Newest), command[c].answer)
    BY <1>2 DEF Shown
  <1>4. command[c].base \in Policy \cup {None}
    BY DEF Types, CommandSet
  <1>5. OrNew(Newest) \in Policy
    BY <1>2, <1>4, RecordIsPolicy DEF OrNew
  <1>6. saved # << >> => Newest = saved[Len(saved)] /\ OrNew(Newest) = Newest
    <2>1. saved # << >> => Newest = saved[Len(saved)] /\ saved[Len(saved)] \in Policy
      <3>1. saved \in Seq(Policy)
        BY DEF Types
      <3>2. saved # << >> => Len(saved) \in 1 .. Len(saved)
        BY <3>1, EmptySeq, LenProperties
      <3>3. QED
        BY <3>1, <3>2, ElementOfSeq DEF Newest
    <2>2. QED
      BY <2>1 DEF OrNew, Types, Constants
  <1>7. QED
    BY <1>1, <1>2, <1>3, <1>5, <1>6

LEMMA ChainStep ==
  ASSUME Types, Locked, Marked, Shown, ~ Slipped, ~ Forgotten, [Next]_vars
  PROVE  Chained(saved')
  <1>0. saved \in Seq(Policy) /\ Len(saved) \in Nat /\ saved' \in Seq(Policy) /\ Len(saved') \in Nat
    BY FileTyped, LenProperties DEF Types
  <1>1. Chained(saved)
    BY DEF Shown
  <1>2. ASSUME NEW d \in Command, command[d].pc = "rename", Len(saved') = Len(saved) + 1,
               \A i \in 1 .. Len(saved) : saved'[i] = saved[i],
               saved'[Len(saved) + 1] = Written(OrNew(command[d].base), command[d].answer)
        PROVE  Chained(saved')
    <2>1. /\ saved'[Len(saved')] = Written(OrNew(Newest), command[d].answer)
          /\ command[d].answer \in Answer
      BY <1>2, RenameIsNext DEF Types
    <2>2. saved # << >> => Follows(saved[Len(saved)], saved'[Len(saved')])
      BY <1>2, <2>1, RenameIsNext, WrittenFollows
    <2>3. QED
      BY <1>0, <1>1, <1>2, <2>2, ChainGrows
  <1>3. CASE /\ Len(saved') <= Len(saved)
             /\ \A i \in 1 .. Len(saved') : saved'[i] = saved[i]
    <2>1. \A i \in 1 .. Len(saved') : i \in 1 .. Len(saved)
      BY <1>0, <1>3
    <2>2. QED
      BY <1>1, <1>3, <2>1 DEF Chained
  <1>4. CASE saved' = saved
    BY <1>1, <1>4
  <1>5. QED
    BY <1>2, <1>3, <1>4, SavedMoves

LEMMA FitsStep ==
  ASSUME Types, Shown, ~ Slipped, ~ Forgotten, [Next]_vars, NEW d \in Command,
         command'[d].pc \in {"lock", "compare", "mark", "assert", "rename"}
  PROVE  Fits(OrNew(command'[d].seen), command'[d].answer)
  <1>1. OrNew(Current) \in Policy
    BY RecordIsPolicy
  <1>2. CASE command[d].pc \in {"lock", "compare", "mark", "assert", "rename"} /\ SameSeen(d)
    BY <1>2 DEF Shown, SameSeen
  <1>3. ASSUME Running(d), command'[d].seen = command[d].seen,
               Revision(Current) = Revision(command[d].seen),
               NEW a \in Answer, command'[d].answer = Now(OrNew(Current), a),
               ~ Refused(OrNew(Current), a)
        PROVE  Fits(OrNew(command'[d].seen), command'[d].answer)
    BY <1>1, <1>3, SameRevision, NowFits
  <1>4. ASSUME command'[d].seen = Current, NEW a \in Answer, a.kind \in {"repository", "global"},
               command'[d].answer = a, ~ Refused(OrNew(Current), a)
        PROVE  Fits(OrNew(command'[d].seen), command'[d].answer)
    BY <1>1, <1>4, NowFits
  <1>5. QED
    BY <1>2, <1>3, <1>4, SeenMoves

LEMMA NewestStep ==
  ASSUME Types, Locked, Phased, Marked, Shown, ~ Slipped, ~ Forgotten, [Next]_vars,
         NEW d \in Command,
         Asserts(d)', command'[d].pc \in {"mark", "assert", "rename"}
  PROVE  command'[d].seen = Newest' /\ command'[d].base = Newest'
  <1>1. Asserts(d) /\ Running(d)'
    BY WriterMoves DEF Running
  <1>2. saved' = saved
    <2>1. ~ \E c \in Command : command[c].pc = "rename" /\ command'[c].pc = "sync"
      <3>1. SUFFICES ASSUME NEW c \in Command, command[c].pc = "rename", command'[c].pc = "sync"
                     PROVE  FALSE
        OBVIOUS
      <3>2. c = d
        BY <1>1, <3>1, RenameIsRight, OneAsserts
      <3>3. QED
        BY <3>1, <3>2
    <2>2. QED
      BY <1>1, <2>1, SavedMoves
  <1>3. Newest' = Newest
    BY <1>2 DEF Newest
  <1>4. CASE /\ command[d].pc \in {"mark", "assert", "rename"} /\ SameSeen(d)
             /\ command'[d].base = command[d].base
    BY <1>1, <1>3, <1>4 DEF Shown, SameSeen
  <1>5. CASE /\ command[d].pc = "compare" /\ Readable /\ SameSeen(d) /\ command'[d].base = Current
             /\ Revision(Current) = Revision(command[d].seen)
    <2>1. Current = command[d].seen
      BY <1>5, SameRevision DEF Running
    <2>2. Current = Newest
      BY <1>5, NoneIsNoneYet
    <2>3. QED
      BY <1>3, <1>5, <2>1, <2>2 DEF SameSeen
  <1>6. QED
    BY <1>4, <1>5, SeenMoves

LEMMA ShownStep ==
  ASSUME Types, Locked, Phased, Marked, Shown, [Next]_vars
  PROVE  Shown'
  <1>1. ASSUME ~ Slipped', ~ Forgotten'
        PROVE  /\ Chained(saved')
               /\ \A d \in Command :
                    /\ command'[d].pc \in {"lock", "compare", "mark", "assert", "rename"} =>
                         Fits(OrNew(command'[d].seen), command'[d].answer)
                    /\ Asserts(d)' /\ command'[d].pc \in {"mark", "assert", "rename"} =>
                         command'[d].seen = Newest' /\ command'[d].base = Newest'
    <2>1. ~ Slipped /\ ~ Forgotten
      BY <1>1, HistoryStays
    <2>2. QED
      BY <2>1, ChainStep, FitsStep, NewestStep
  <1>2. QED
    BY <1>1, RecordsStep DEF Shown

LEMMA InitHolds ==
  ASSUME Constants, Init
  PROVE  ConsentInvariant
  <1>1. saved = << >> \/ \E p \in Policy : saved = <<p>> /\ p.revision = 1
    <2>1. \A o \in Grants, r \in Grants :
            FirstPolicy(o, r) \in Policy /\ FirstPolicy(o, r).revision = 1
      BY DEF FirstPolicy, Policy, Choice, Unset, Grants
    <2>2. {"none", "on", "off", "legacy"} \subseteq Grants
      BY DEF Grants
    <2>3. QED
      BY <2>1, <2>2 DEF Init
  <1>2. /\ saved \in Seq(Policy) /\ Len(saved) \in Nat
        /\ \A i \in 1 .. Len(saved) : saved[i].revision > 0
        /\ \A i, k \in 1 .. Len(saved) : ~ (i < k)
    <2>1. CASE saved = << >>
      BY <2>1
    <2>2. ASSUME NEW p \in Policy, saved = <<p>>, p.revision = 1
          PROVE  /\ saved \in Seq(Policy) /\ Len(saved) \in Nat
                 /\ \A i \in 1 .. Len(saved) : saved[i].revision > 0
                 /\ \A i, k \in 1 .. Len(saved) : ~ (i < k)
      <3>1. Len(saved) = 1 /\ saved[1] = p /\ saved \in Seq(Policy)
        BY <2>2
      <3>2. \A i \in 1 .. Len(saved) : i = 1
        BY <3>1
      <3>3. QED
        BY <2>2, <3>1, <3>2
    <2>3. QED
      BY <1>1, <2>1, <2>2
  <1>3. \A c \in Command : command[c] = Idle
    BY DEF Init
  <1>4. Idle \in CommandSet
    BY DEF Idle, CommandSet, Phases
  <1>5. left = Limits /\ Limits \in [Bounds -> Nat]
    BY DEF Init, Constants
  <1>6. Types
    <2>1. left \in [Bounds -> Nat] /\ \A b \in Bounds : left[b] <= Limits[b]
      BY <1>5
    <2>2. command \in [Command -> CommandSet]
      BY <1>4 DEF Init
    <2>3. \A c \in Command : command[c].pc = "idle"
      BY <1>3 DEF Idle
    <2>4. synced \in 0 .. Len(saved)
      BY <1>2 DEF Init
    <2>5. QED
      BY <1>2, <2>1, <2>2, <2>3, <2>4 DEF Types, Init
  <1>7. /\ Idle.pc = "idle" /\ ~ Idle.slipped /\ Idle.made = None /\ Idle.outcome = None
        /\ "saved" # None
    BY DEF Idle, Constants, Outcomes
  <1>8. lock = None /\ ~ lost /\ (saved # << >> => known) /\ (known => marker # "none")
        /\ marker # "volatile"
    BY DEF Init
  <1>9. Locked /\ Phased /\ Kept /\ Reported
    BY <1>3, <1>7, <1>8 DEF Locked, Phased, PhaseOf, Phase, Kept, Reported, Asserts, Owned
  <1>10. Marked
    BY <1>3, <1>7, <1>8 DEF Marked, LossIsSeen, Asserts, Owned, Renamed
  <1>11. Shown
    BY <1>2, <1>3, <1>7, <1>8 DEF Shown, Chained, Running, Asserts, Owned
  <1>12. QED
    BY <1>6, <1>9, <1>10, <1>11 DEF ConsentInvariant

LEMMA InvariantStep ==
  ASSUME ConsentInvariant, [Next]_vars
  PROVE  ConsentInvariant'
  <1>1. Phased'
    BY PhasedStep DEF ConsentInvariant, Phased
  <1>2. QED
    BY <1>1, TypesStep, LockedStep, KeptStep, MarkedStep, ShownStep, ReportedStep
       DEF ConsentInvariant

\* The invariant behind the others holds in every state.
THEOREM ConsentInvariantHolds ==
  ASSUME Constants
  PROVE  Spec => []ConsentInvariant
  <1>1. Init => ConsentInvariant
    BY InitHolds
  <1>2. ConsentInvariant /\ [Next]_vars => ConsentInvariant'
    BY InvariantStep
  <1>3. QED
    BY <1>1, <1>2, PTL DEF Spec

\* The record, its marker and what the commands do keep their types.
THEOREM TypeCorrect ==
  ASSUME Constants
  PROVE  Spec => []TypeOK
  <1>1. ConsentInvariant => TypeOK
    <2>1. SUFFICES ASSUME ConsentInvariant PROVE TypeOK
      OBVIOUS
    <2>2. ASSUME NEW c \in Command
          PROVE  /\ command[c].seen \in Policy \cup {None} /\ command[c].base \in Policy \cup {None}
                 /\ command[c].made \in Policy \cup {None} /\ command[c].answer \in Answer \cup {None}
                 /\ command[c].outcome \in Outcomes \cup {None}
                 /\ At(c, "done") => command[c].outcome # None
      BY <2>1 DEF ConsentInvariant, Types, CommandSet, Phased, PhaseOf, Phase, At
    <2>3. QED
      BY <2>1, <2>2 DEF ConsentInvariant, Types, TypeOK, LockSet
  <1>2. QED
    BY <1>1, ConsentInvariantHolds, PTL

\* What a command says of its decision is true, whatever failed on the way (mutate,
\* runConsentAction): what it says was saved is in the record, also after a crash of the
\* machine, and after any other error nothing was saved.
THEOREM ReportsAreTrue ==
  ASSUME Constants
  PROVE  Spec => []ReportIsTrue
  <1>1. ConsentInvariant => ReportIsTrue
    <2>1. SUFFICES ASSUME ConsentInvariant, NEW c \in Command, command[c].pc = "done"
                   PROVE  CASE command[c].outcome = "saved"    -> command[c].made \in ToSet(saved)
                            [] command[c].outcome = "unsynced" -> command[c].made # None
                            [] command[c].outcome = "missing"  ->
                                 command[c].made = None \/ Spent("losses") \/ Slipped
                            [] OTHER                           -> command[c].made = None
      BY DEF ReportIsTrue, At
    <2>2. PhaseOf(command[c])
      BY <2>1 DEF ConsentInvariant, Phased
    <2>3. CASE command[c].outcome = "saved"
      <3>1. synced \in 0 .. Len(saved) /\ saved \in Seq(Policy) /\ Len(saved) \in Nat
        BY <2>1, LenProperties DEF ConsentInvariant, Types
      <3>2. PICK i \in 1 .. synced : saved[i] = command[c].made
        BY <2>1, <2>3 DEF ConsentInvariant, Kept
      <3>3. i \in DOMAIN saved
        BY <3>1, <3>2
      <3>4. command[c].made \in ToSet(saved)
        BY <3>2, <3>3 DEF ToSet
      <3>5. QED
        BY <2>3, <3>4
    <2>4. CASE command[c].outcome = "missing"
      BY <2>1, <2>4 DEF ConsentInvariant, Reported
    <2>5. CASE command[c].outcome \notin {"saved", "missing"}
      BY <2>1, <2>2, <2>5 DEF PhaseOf, Phase
    <2>6. QED
      BY <2>3, <2>4, <2>5
  <1>2. QED
    BY <1>1, ConsentInvariantHolds, PTL

\* A record that was seen and is gone never reads as none yet (readPolicy, mark).
THEOREM LossesAreSeen ==
  ASSUME Constants
  PROVE  Spec => []LossIsSeen
  <1>1. ConsentInvariant => LossIsSeen
    BY DEF ConsentInvariant, Marked
  <1>2. QED
    BY <1>1, ConsentInvariantHolds, PTL

\* A repository's stamp never comes back after another decision (decision,
\* evaluateRepositoryConsent).
THEOREM StampsStayFresh ==
  ASSUME Constants
  PROVE  Spec => []StampsFresh
  <1>1. ConsentInvariant => StampsFresh
    <2>1. SUFFICES ASSUME ConsentInvariant, ~ Slipped, ~ Forgotten, NEW r \in Repo,
                          NEW i \in DOMAIN saved, NEW k \in DOMAIN saved, i < k,
                          Stamp(saved[i], r) = Stamp(saved[k], r), NEW n \in i .. k
                   PROVE  Stamp(saved[n], r) = Stamp(saved[i], r)
      BY DEF StampsFresh
    <2>2. saved \in Seq(Policy) /\ Len(saved) \in Nat /\ DOMAIN saved = 1 .. Len(saved)
      BY <2>1, LenProperties DEF ConsentInvariant, Types
    <2>3. n \in 1 .. Len(saved) /\ i \in 1 .. Len(saved) /\ k \in 1 .. Len(saved)
      BY <2>1, <2>2
    <2>4. saved[i] \in Policy /\ saved[n] \in Policy /\ saved[k] \in Policy
      <3>1. \A x \in 1 .. Len(saved) : saved[x] \in Policy
        BY <2>2, ElementOfSeq
      <3>2. QED
        BY <2>3, <3>1
    <2>5. n = i \/ n = k \/ (i < n /\ n < k)
      <3>1. i \in Nat /\ n \in Nat /\ k \in Nat /\ i <= n /\ n <= k
        BY <2>1, <2>2, <2>3
      <3>2. QED
        BY <3>1
    <2>6. CASE i < n /\ n < k
      <3>1. Follows(saved[i], saved[n]) /\ Follows(saved[n], saved[k])
        BY <2>1, <2>3, <2>6 DEF ConsentInvariant, Shown, Chained
      <3>2. saved[i].org = saved[k].org /\ saved[i].repos[r] = saved[k].repos[r]
        BY <2>1 DEF Stamp
      <3>3. \A x, y \in Choice : Later(x, y) /\ Later(y, x) => x = y
        BY DEF Choice, Later
      <3>4. /\ saved[i].org \in Choice /\ saved[n].org \in Choice
            /\ saved[i].repos[r] \in Choice /\ saved[n].repos[r] \in Choice
        BY <2>4 DEF Policy
      <3>5. saved[n].org = saved[i].org /\ saved[n].repos[r] = saved[i].repos[r]
        BY <3>1, <3>2, <3>3, <3>4 DEF Follows
      <3>6. QED
        BY <3>5 DEF Stamp
    <2>7. QED
      BY <2>1, <2>5, <2>6
  <1>2. QED
    BY <1>1, ConsentInvariantHolds, PTL

\* An answer that fits the record turns repositories on only under an organization that is.
LEMMA WrittenUnderOrganization ==
  ASSUME NEW p \in Policy, NEW a, Fits(p, a), NEW r \in Repo,
         Written(p, a).repos[r] # p.repos[r], Written(p, a).repos[r].is = "on"
  PROVE  Written(p, a).org.is = "on"
  <1>1. a \in Answer /\ r \in a.repos
    BY DEF Fits, Written
  <1>2. Written(p, a).org = IF a.kind = "organization" \/ (a.kind = "onboard" /\ p.org.is # "on")
                            THEN Decide(p.org, a.kind = "onboard" \/ a.on) ELSE p.org
    BY DEF Written
  <1>3. a.kind \in {"toggle", "onboard", "repository"}
    BY <1>1 DEF Answer
  <1>4. CASE a.kind = "onboard"
    <2>1. p.org.is # "on" => Written(p, a).org = Decide(p.org, TRUE)
      BY <1>2, <1>4
    <2>2. p.org.is = "on" => Written(p, a).org = p.org
      BY <1>2, <1>4
    <2>3. QED
      BY <2>1, <2>2 DEF Decide
  <1>5. CASE a.kind = "toggle"
    BY <1>1, <1>2, <1>5 DEF Fits
  <1>6. CASE a.kind = "repository"
    <2>1. a.on
      <3>1. Written(p, a).repos[r] = Decide(p.repos[r], a.on)
        BY <1>1, <1>6 DEF Written
      <3>2. QED
        BY <3>1 DEF Decide
    <2>2. QED
      BY <1>2, <1>6, <2>1 DEF Fits
  <1>7. QED
    BY <1>3, <1>4, <1>5, <1>6

\* Neither a record that was lost nor a stamp that was replaced comes back (readPolicy,
\* decision).
THEOREM DecisionsAreKept ==
  ASSUME Constants
  PROVE  Spec => []DecisionsStay
  BY LossesAreSeen, StampsStayFresh, PTL DEF DecisionsStay

\* A decision is made from exactly the record that its user was shown, and turns a
\* repository on only under an organization that is ON (mutate, runConsentAction,
\* applyRepositoryConsent).
THEOREM DecisionsAreAsShown ==
  ASSUME Constants
  PROVE  Spec => DecidedAsShown
  <1>1. ConsentInvariant /\ [Next]_vars => [FromWhatWasShown]_vars
    <2>1. SUFFICES ASSUME ConsentInvariant, NEW c \in Command, Rename(c), saved' # saved,
                          ~ Slipped, ~ Forgotten
                   PROVE  /\ Present => command[c].seen = Current
                          /\ \A r \in Repo :
                               /\ command'[c].made.repos[r] # OrNew(command[c].seen).repos[r]
                               /\ command'[c].made.repos[r].is = "on"
                               => command'[c].made.org.is = "on"
      BY DEF FromWhatWasShown
    <2>2. Types /\ Locked /\ Marked /\ Shown
      BY <2>1 DEF ConsentInvariant
    <2>3. command[c].pc = "rename"
      BY <2>1 DEF Rename, At
    <2>4. /\ command[c].seen = Newest /\ command[c].base = Newest
          /\ OrNew(Newest) \in Policy /\ Fits(OrNew(Newest), command[c].answer)
      BY <2>1, <2>2, <2>3, RenameIsNext
    <2>5. Present => Current = Newest
      BY <2>2, RecordIsPolicy DEF Newest, Present
    <2>6. command'[c].made = Written(OrNew(Newest), command[c].answer)
      BY <2>1, <2>2, <2>4, RenameAppends DEF File
    <2>7. \A r \in Repo :
            /\ command'[c].made.repos[r] # OrNew(command[c].seen).repos[r]
            /\ command'[c].made.repos[r].is = "on"
            => command'[c].made.org.is = "on"
      BY <2>4, <2>6, WrittenUnderOrganization
    <2>8. QED
      BY <2>4, <2>5, <2>7
  <1>2. QED
    BY <1>1, ConsentInvariantHolds, PTL DEF Spec, DecidedAsShown
=============================================================================
