---------------------------- MODULE CredentialLock ----------------------------
(***************************************************************************)
(* The advisory lock of shared/lib/credential-lock.js, which serializes     *)
(* every writer of the credential stores and makes license renewal          *)
(* single-flight.  A lock is a file published by an exclusive hard link and *)
(* holding its owner {pid, token}.  Nobody evicts a live owner; the lock of *)
(* a crashed one is removed under a "reaper" lock that is taken by the same *)
(* algorithm, so a reaper may itself crash and be reaped.                   *)
(*                                                                         *)
(* A lock file is named here by the owners whose deaths led to it: << >> is *)
(* the lock the caller asked for, and Append(f, o) is the reaper lock for   *)
(* the dead owner o of f (the code names it by a SHA-256 of both, taken to  *)
(* be collision-free).  One acquireLock call recurses along that path, so   *)
(* its frames are the prefixes of the current name and only their depths    *)
(* are kept.                                                                *)
(***************************************************************************)
EXTENDS Naturals, SequencesExt

CONSTANTS
  Pid,          \* process identifiers; one can be reused after a crash
  Departed,     \* those of processes that are dead at the start
  Token,        \* the random UUIDs owners are told apart by
  None,         \* no owner: of a lock file readOwner cannot verify, or of none
  MaxDepth,     \* acquireLock gives up beyond this recursion depth (8)
  MaxCrashes,   \* bound: crashes in one behaviour
  MaxRestarts   \* bound: reuses of a crashed process's pid

Owner == [pid : Pid, token : Token]
File  == Seq(Owner)
Root  == << >>

ASSUME NoneAssumption   == None \notin Owner /\ None \notin Token
ASSUME DepartedAssumption == Departed \subseteq Pid
ASSUME BoundsAssumption == MaxDepth \in Nat /\ MaxCrashes \in Nat /\ MaxRestarts \in Nat

VARIABLES
  published,  \* the lock files that exist: a set of [file, owner]
  alive,      \* the pids for which kill(pid, 0) does not say ESRCH
  call,       \* call[p]: the acquireLock call of process p, and what it holds
  crashes, restarts

vars == <<published, alive, call, crashes, restarts>>

PC == {"idle",       \* outside acquireLock, holding nothing
       "publish",    \* about to link its owner file to call.file
       "read",       \* the link failed: about to read the owner
       "probe",      \* about to ask whether the observed owner is dead
       "recheck",    \* holds the reaper lock: about to read the owner again
       "reprobe",    \* ... and to ask again whether it is dead
       "unlink",     \* ... and to remove the dead owner's lock
       "unreap",     \* about to check that the reaper lock is still its own
       "unreapNow",  \* ... and to remove it
       "critical",   \* acquired the lock: the caller's critical section
       "releaseNow"} \* release() saw its own token: about to unlink

Reaping == {"recheck", "reprobe", "unlink", "unreap", "unreapNow"}
Holding == {"critical", "releaseNow"}

\* depths[i] is the recursion depth of the frame working on the prefix of
\* file of length i - 1; token is that of the lock the process holds.
Call == [pc : PC, file : File, depths : Seq(Nat),
         observed : Owner \cup {None}, token : Token \cup {None}]
Idle == [pc |-> "idle", file |-> Root, depths |-> <<0>>, observed |-> None, token |-> None]

Links(f)   == {l \in published : l.file = f}
Owns(f, o) == [file |-> f, owner |-> o] \in published
Me(p)      == [pid |-> p, token |-> call[p].token]

\* Process p holds a lock it published, and the file name of that lock.
Holds(p)    == call[p].pc \in Holding \cup Reaping
HeldFile(p) == IF call[p].pc \in Holding THEN Root
               ELSE Append(call[p].file, call[p].observed)

\* A random UUID differs from every token that can still be compared with it.
Fresh(t) ==
  /\ \A l \in published : l.owner # None => l.owner.token # t
  /\ \A p \in Pid :
       /\ call[p].observed # None => call[p].observed.token # t
       /\ \A i \in DOMAIN call[p].file : call[p].file[i].token # t

-----------------------------------------------------------------------------
\* A lock can be there already: left by a process that died, or by a format that
\* cannot be verified and is then held forever.
Init ==
  /\ alive = Pid \ Departed
  /\ \/ published = {}
     \/ \E o \in {None} \cup {d \in Owner : d.pid \in Departed} :
          published = {[file |-> Root, owner |-> o]}
  /\ call = [p \in Pid |-> Idle]
  /\ crashes = 0
  /\ restarts = 0

Goto(p, pc)   == call' = [call EXCEPT ![p].pc = pc]
\* What a returned or crashed call leaves behind: nothing.
Return(p)     == call' = [call EXCEPT ![p] = Idle]
\* Mutants of Retry: the retry keeps its depth; it leaves its frame behind.
Retry_SameDepth(p) == call' = [call EXCEPT ![p].pc = "publish",
                                 ![p].observed = None, ![p].token = None]
Retry_NewFrame(p) == call' = [call EXCEPT ![p].pc = "publish",
                                ![p].observed = None, ![p].token = None,
                                ![p].depths = Append(@, Last(@) + 1)]

\* return acquireLock(file, depth + 1)
Retry(p)      == call' = [call EXCEPT ![p].pc = "publish",
                            ![p].observed = None, ![p].token = None,
                            ![p].depths = Append(Front(@), Last(@) + 1)]
Environment   == UNCHANGED <<alive, crashes, restarts>>
At(p, pc)     == p \in alive /\ call[p].pc = pc

Begin(p) ==
  /\ At(p, "idle")
  /\ Goto(p, "publish")
  /\ UNCHANGED published /\ Environment

\* if (depth > 8) return null
TooDeep(p) ==
  /\ At(p, "publish")
  /\ Last(call[p].depths) > MaxDepth
  /\ Return(p)
  /\ UNCHANGED published /\ Environment

\* linkSync says EEXIST
LinkFails(p) ==
  /\ At(p, "publish")
  /\ Last(call[p].depths) <= MaxDepth
  /\ Links(call[p].file) # {}
  /\ Goto(p, "read")
  /\ UNCHANGED published /\ Environment

\* Mutant of Publish: the owner file is renamed over the lock file, not linked.
Publish_Overwrite(p) ==
  /\ At(p, "publish")
  /\ Last(call[p].depths) <= MaxDepth
  /\ call[p].file = Root
  /\ \E t \in Token :
       /\ Fresh(t)
       /\ published' = (published \ Links(Root)) \cup
                         {[file |-> Root, owner |-> [pid |-> p, token |-> t]]}
       /\ call' = [call EXCEPT ![p].pc = "critical", ![p].token = t]
  /\ Environment

\* linkSync publishes the owner file atomically.  The root lock is returned to
\* the caller, a reaper lock to the frame that waits for it.
Publish(p) ==
  /\ At(p, "publish")
  /\ Last(call[p].depths) <= MaxDepth
  /\ Links(call[p].file) = {}
  /\ \E t \in Token :
       /\ Fresh(t)
       /\ published' = published \cup
                         {[file |-> call[p].file, owner |-> [pid |-> p, token |-> t]]}
       /\ IF call[p].file = Root
          THEN call' = [call EXCEPT ![p].pc = "critical", ![p].token = t]
          ELSE call' = [call EXCEPT ![p].pc = "recheck", ![p].token = t,
                          ![p].file = Front(@), ![p].depths = Front(@),
                          ![p].observed = Last(call[p].file)]
  /\ Environment

\* readOwner(file): gone, unverifiable, or an owner to ask about
ReadOwner(p) ==
  /\ At(p, "read")
  /\ \/ Links(call[p].file) = {} /\ Retry(p)
     \/ Owns(call[p].file, None) /\ Return(p)
     \/ \E o \in Owner :
          /\ Owns(call[p].file, o)
          /\ call' = [call EXCEPT ![p].pc = "probe", ![p].observed = o]
  /\ UNCHANGED published /\ Environment

\* Mutants of ProbeOwner: the dead owner's lock is removed without a reaper
\* lock; only the root lock, not a crashed reaper's, is recovered.
ProbeOwner_NoReaperLock(p) ==
  /\ At(p, "probe")
  /\ IF call[p].observed.pid \in alive THEN Return(p) ELSE Goto(p, "recheck")
  /\ UNCHANGED published /\ Environment
ProbeOwner_RootOnly(p) ==
  /\ At(p, "probe")
  /\ IF call[p].observed.pid \in alive \/ call[p].file # Root
     THEN Return(p)
     ELSE call' = [call EXCEPT ![p].pc = "publish", ![p].observed = None,
                     ![p].file = Append(@, call[p].observed),
                     ![p].depths = Append(@, Last(@) + 1)]
  /\ UNCHANGED published /\ Environment

\* A live owner holds the lock; for a dead one, acquire its reaper lock first.
ProbeOwner(p) ==
  /\ At(p, "probe")
  /\ IF call[p].observed.pid \in alive
     THEN Return(p)
     ELSE call' = [call EXCEPT ![p].pc = "publish", ![p].observed = None,
                     ![p].file = Append(@, call[p].observed),
                     ![p].depths = Append(@, Last(@) + 1)]
  /\ UNCHANGED published /\ Environment

\* Mutant of Recheck: the owner is not read again under the reaper lock.
Recheck_Skipped(p) ==
  /\ At(p, "recheck")
  /\ Goto(p, "reprobe")
  /\ UNCHANGED published /\ Environment

\* sameOwner(readOwner(file), observed), under the reaper lock
Recheck(p) ==
  /\ At(p, "recheck")
  /\ Goto(p, IF Owns(call[p].file, call[p].observed) THEN "reprobe" ELSE "unreap")
  /\ UNCHANGED published /\ Environment

\* ... && dead(observed.pid)
Reprobe(p) ==
  /\ At(p, "reprobe")
  /\ Goto(p, IF call[p].observed.pid \in alive THEN "unreap" ELSE "unlink")
  /\ UNCHANGED published /\ Environment

\* unlinkSync(file): removes whatever is there by now
UnlinkDead(p) ==
  /\ At(p, "unlink")
  /\ published' = published \ Links(call[p].file)
  /\ Goto(p, "unreap")
  /\ Environment

\* releaseReaper(): ownedByUs() and then unlinkSync, two separate steps
UnreapCheck(p) ==
  /\ At(p, "unreap")
  /\ IF Owns(HeldFile(p), Me(p)) THEN Goto(p, "unreapNow") ELSE Retry(p)
  /\ UNCHANGED published /\ Environment

Unreap(p) ==
  /\ At(p, "unreapNow")
  /\ published' = published \ Links(HeldFile(p))
  /\ Retry(p)
  /\ Environment

\* release(), called by the holder of the root lock
ReleaseCheck(p) ==
  /\ At(p, "critical")
  /\ IF Owns(Root, Me(p)) THEN Goto(p, "releaseNow") ELSE Return(p)
  /\ UNCHANGED published /\ Environment

Release(p) ==
  /\ At(p, "releaseNow")
  /\ published' = published \ Links(Root)
  /\ Return(p)
  /\ Environment

\* A process can die between any two steps; its lock files stay.
Crash(p) ==
  /\ p \in alive
  /\ crashes < MaxCrashes
  /\ crashes' = crashes + 1
  /\ alive' = alive \ {p}
  /\ Return(p)
  /\ UNCHANGED <<published, restarts>>

\* The operating system gives a dead process's pid to a new one.
ReusePid(p) ==
  /\ p \notin alive
  /\ restarts < MaxRestarts
  /\ restarts' = restarts + 1
  /\ alive' = alive \cup {p}
  /\ UNCHANGED <<published, call, crashes>>

Step(p) ==
  \/ TooDeep(p) \/ LinkFails(p) \/ Publish(p) \/ ReadOwner(p) \/ ProbeOwner(p)
  \/ Recheck(p) \/ Reprobe(p) \/ UnlinkDead(p) \/ UnreapCheck(p) \/ Unreap(p)
  \/ ReleaseCheck(p) \/ Release(p)

Next == \E p \in Pid : Begin(p) \/ Step(p) \/ Crash(p) \/ ReusePid(p)

Spec == Init /\ [][Next]_vars

\* A process that runs keeps executing its call, and hooks keep asking for the
\* lock (every prompt and tool call starts one).  Crashes and pid reuse are not
\* fair.
Fairness == \A p \in Pid : WF_vars(Step(p)) /\ WF_vars(Begin(p))
FairSpec == Spec /\ Fairness

-----------------------------------------------------------------------------
TypeOK ==
  /\ published \in SUBSET [file : File, owner : Owner \cup {None}]
  /\ alive \in SUBSET Pid
  /\ call \in [Pid -> Call]
  /\ \A p \in Pid :
       /\ Len(call[p].depths) = Len(call[p].file) + 1
       /\ call[p].pc \in Reaping \cup {"probe"} => call[p].observed \in Owner
       /\ call[p].pc \in Holding \cup Reaping => call[p].token \in Token
  /\ crashes \in Nat /\ restarts \in Nat

\* Two processes are never inside the critical section of the lock together,
\* however many owners and reapers crashed before (acquireLock, release).
MutualExclusion ==
  \A p, q \in Pid : call[p].pc \in Holding /\ call[q].pc \in Holding => p = q

\* "No live process is evicted": as long as a process holds a lock, a root or
\* a reaper lock, the file on disk is the one it published.
LiveOwnerKeepsLock ==
  \A p \in Pid : Holds(p) => Owns(HeldFile(p), Me(p))

\* "A delayed reaper cannot remove a later owner": every unlink, of a dead
\* owner's lock or of one's own, removes exactly the owner it was meant for.
UnlinksOnlyItsTarget ==
  \A p \in Pid :
    /\ call[p].pc = "unlink" =>
         \A l \in Links(call[p].file) : l.owner = call[p].observed
    /\ call[p].pc \in {"unreapNow", "releaseNow"} =>
         \A l \in Links(HeldFile(p)) : l.owner = Me(p)

\* At most one owner per file: linkSync is exclusive.
OneOwnerPerFile ==
  \A k, l \in published : k.file = l.file => k = l

\* What a process has established of a dead owner stays true while it reaps it:
\* no lock held by a running process is that owner's.
DeadStayDead ==
  \A p, q \in Pid : Holds(q) =>
    /\ \A i \in DOMAIN call[p].file : call[p].file[i] # Me(q)
    /\ call[p].pc \in Reaping => call[p].observed # Me(q)

\* Once rechecked under the reaper lock, the dead owner's file stays in place
\* until the reaper itself removes it.
RecheckStands ==
  \A p \in Pid : call[p].pc \in {"reprobe", "unlink"} =>
    Owns(call[p].file, call[p].observed)

\* A dead process executes nothing; the root lock is taken at the end of the
\* recursion.
Placement ==
  \A p \in Pid :
    /\ call[p].pc # "idle" => p \in alive
    /\ call[p].pc \in Holding => call[p].file = Root

\* The inductive invariant behind the safety properties.
LockInvariant ==
  /\ TypeOK /\ OneOwnerPerFile /\ Placement
  /\ LiveOwnerKeepsLock /\ DeadStayDead /\ RecheckStands

\* A lock file whose owner died, while the pid in it belongs to another process
\* by now: it reads as a live owner's for as long as that process runs.
Impersonated(l) ==
  /\ l.owner # None
  /\ l.owner.pid \in alive
  /\ ~ (Holds(l.owner.pid) /\ Me(l.owner.pid) = l.owner)

\* The lock is held by p, who died ...
Stranded(p) == p \notin alive /\ \E l \in Links(Root) : l.owner # None /\ l.owner.pid = p

\* ... and it no longer is, or nobody is left to ask for it, or the pid of that owner or
\* of a crashed reaper is in use again.
Recovered(p) ==
  \/ alive = {}
  \/ \E l \in published : Impersonated(l)
  \/ \A l \in Links(Root) : l.owner # None => l.owner.pid # p

\* p has called acquireLock, and the call has returned, to its caller or with null.
Calling(p)  == call[p].pc = "publish"
Returned(p) == call[p].pc \in {"idle", "critical"}

\* A lock whose owner died does not stay locked while some client is left to
\* ask for it: someone removes it, through reapers that may crash as well.
DeadOwnerRecovered == \A p \in Pid : Stranded(p) ~> Recovered(p)

\* acquireLock returns: the recursion over retries and reaper locks is bounded by
\* the depth.
AcquireReturns == \A p \in Pid : Calling(p) ~> Returned(p)

\* The lock implements LockService: seen from its callers, it is free, held by
\* the live process that published it, orphaned, or foreign, and changes hands
\* only through "free".
UnheldState ==
  CASE Links(Root) = {}  -> "free"
    [] Owns(Root, None) -> "foreign"
    [] OTHER            -> "orphaned"
LockState ==
  IF \E p \in Pid : call[p].pc \in Holding
  THEN CHOOSE p \in Pid : call[p].pc \in Holding
  ELSE UnheldState

Service == INSTANCE LockService WITH
  Client <- Pid, Free <- "free", Orphaned <- "orphaned", Foreign <- "foreign",
  state <- LockState
ImplementsLockService == Service!LockSpec
=============================================================================
