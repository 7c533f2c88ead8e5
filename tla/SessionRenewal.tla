---------------------------- MODULE SessionRenewal ----------------------------
(***************************************************************************)
(* One client's session (credstore.js), and everything that changes it at   *)
(* once: license renewals started by upload drains (license-renewal.js),    *)
(* sign-ins waiting for browser approval (signin-flow.js, signin.js),        *)
(* sign-outs (signout.js), the status record and the waiting-sign-in marker, *)
(* against an authorization broker that rotates refresh tokens.              *)
(*                                                                         *)
(* A step is one read of the session, one locked mutation of it (store-file  *)
(* .js runs mutations under the lock of CredentialLock, which excludes), or  *)
(* one network exchange.  A mutation may also fail with                      *)
(* "credential-store-busy" and an exchange without an answer: a fault.  The   *)
(* renewal lock is LockService, which CredentialLock implements.              *)
(***************************************************************************)
EXTENDS Naturals

CONSTANTS
  Process,      \* hooks, drains and commands of this client
  Codex,        \* TRUE: the Codex client's session code; FALSE: Claude Code's
  None, Free, Orphaned, Foreign,
  MaxSignins, MaxSignouts, MaxExpiries, MaxForced,  \* bounds on what is asked
  MaxSessionStarts, MaxFaults, MaxCrashes           \* ... and on what goes wrong

ASSUME CodexAssumption == Codex \in BOOLEAN
ASSUME LimitsAssumption ==
  {MaxSignins, MaxSignouts, MaxExpiries, MaxForced, MaxSessionStarts,
   MaxFaults, MaxCrashes} \subseteq Nat

\* Every approved sign-in starts a chain of refresh tokens at the broker, and
\* licenses are issued from it.  A token is the n-th of its chain.
Chain == 1 .. MaxSignins + 1
Token == [chain : Chain, n : Nat]
Maybe(S) == S \cup {None}

ASSUME NoneAssumption == None \notin Token
ASSUME LockAssumption == {Free, Orphaned, Foreign} \cap Process = {}
                         /\ Free # Orphaned /\ Free # Foreign /\ Orphaned # Foreign

VARIABLES
  session,    \* session.json: license_jwt, refresh_token, auth_generation, signed_out
  expired,    \* the license in it is past its expiry (less the skew)
  status,     \* license-status.json
  pending,    \* signin-result.json (Claude Code), signin-pending.json (Codex)
  renewLock,  \* .renew.lock
  proc,       \* what each process is doing, and what it has read
  broker,     \* the refresh token chains, as the broker knows them
  lost,       \* history: spent tokens whose successor was never stored
  newest,     \* history: the latest intent or end of session that took effect
  left        \* the bounds that remain

vars == <<session, expired, status, pending, renewLock, proc, broker, lost, newest, left>>

\* auth_generation is a random UUID, here the number of those made so far: the
\* code only compares it for equality, only the properties use its order.
Session == [license : Maybe(Token), refresh : Maybe(Token),
            generation : Nat, signedOut : BOOLEAN]
NoSession == [license |-> None, refresh |-> None, generation |-> 0, signedOut |-> FALSE]

Reason  == {"none", "reactivation_required", "revoked"}
Stamp   == [generation : Nat, license : Maybe(Token), signedOut : BOOLEAN]
Status  == [stamp : Stamp, terminal : Reason, backoff : BOOLEAN, last : Reason]
Pending == [result : {"none", "pending", "success", "failure"}, intent : Nat]

PC == {"idle",
       "acquire", "reread", "expect", "send", "waiting",  \* ensureFresh
       "rotate", "exchange", "refresh", "record", "drop", "release",
       "engage", "clear", "mark", "poll", "commit", "fail",  \* signin
       "signout", "revoke"}
Proc == [pc : PC, snap : Maybe(Token), exp : Session, sent : Maybe(Token),
         got : Maybe(Token), license : Maybe(Token), intent : Nat,
         outcome : {"none", "rotated", "rejected", "transient", "threw", "unmarked"}]
Idle == [pc |-> "idle", snap |-> None, exp |-> NoSession, sent |-> None, got |-> None,
         license |-> None, intent |-> 0, outcome |-> "none"]

\* A chain does not exist yet, is live, or was ended: by revocation or by the
\* reuse of a spent token.  reused holds the tokens already accepted twice, late
\* those whose grace period is over.
ChainState == [state : {"none", "live", "revoked", "reused"}, intent : Nat, issued : Nat,
               licenses : Nat, spent : SUBSET Nat, reused : SUBSET Nat, late : SUBSET Nat]
NoChain == [state |-> "none", intent |-> 0, issued |-> 0, licenses |-> 0,
            spent |-> {}, reused |-> {}, late |-> {}]

Later(a, b) == IF a > b THEN a ELSE b

Bounds == {"signins", "signouts", "expiries", "forced", "starts", "faults", "crashes"}
Spend(k) == left[k] > 0 /\ left' = [left EXCEPT ![k] = @ - 1]
Fault    == Spend("faults")
NoFault  == UNCHANGED left

RenewLock == INSTANCE LockService WITH Client <- Process, state <- renewLock

-----------------------------------------------------------------------------
(* The session and the status record.                                        *)

SignedIn(s) == s.license # None /\ ~ s.signedOut

\* snapshotMatches: the session is still exactly the one read before
Matches(e) == session = e /\ ~ e.signedOut

\* What a status record is bound to: Claude Code hashes the generation, the
\* license and the sign-out; Codex stores the generation alone.
Context(s) == [generation |-> s.generation,
               license    |-> IF Codex THEN None ELSE s.license,
               signedOut  |-> IF Codex THEN FALSE ELSE s.signedOut]

LastTerminal(st) == IF st.terminal # "none" THEN st.terminal ELSE st.last
NoOutcome(last)  == [stamp |-> Context(NoSession), terminal |-> "none",
                     backoff |-> FALSE, last |-> last]

\* A record from another session reads as empty, but for its last reason.
ReadStatus == IF status.stamp = Context(session) THEN status
              ELSE NoOutcome(LastTerminal(status))
Blocked    == ReadStatus.terminal # "none" \/ ReadStatus.backoff

SessionEnded ==
  /\ session.license # None
  /\ IF Codex THEN ReadStatus.terminal # "none"
     ELSE LastTerminal(ReadStatus) = "reactivation_required"

Stamped(st, s) == [st EXCEPT !.stamp = Context(s)]
Ended(reason)  == [NoOutcome(IF Codex THEN "none" ELSE reason) EXCEPT !.terminal = reason]
\* A late failure does not lift a terminal state; Codex overwrites it.
Failed == IF Codex \/ ReadStatus.terminal = "none"
          THEN [ReadStatus EXCEPT !.terminal = "none", !.backoff = TRUE]
          ELSE ReadStatus

\* isPending: the marker counts for the intent that wrote it
IsPending == pending.result = "pending" /\ pending.intent = session.generation

Init ==
  /\ session \in {NoSession,
                  [license |-> [chain |-> 1, n |-> 1], refresh |-> [chain |-> 1, n |-> 1],
                   generation |-> 1, signedOut |-> FALSE]}
  /\ expired = FALSE
  /\ status = NoOutcome("none")
  /\ pending = [result |-> "none", intent |-> 0]
  /\ renewLock = Free
  /\ proc = [p \in Process |-> Idle]
  /\ broker = [c \in Chain |->
                IF c = 1 /\ session # NoSession
                THEN [NoChain EXCEPT !.state = "live", !.issued = 1, !.licenses = 1]
                ELSE NoChain]
  /\ lost = {}
  /\ newest = 0
  /\ left = [k \in Bounds |->
              CASE k = "signins" -> MaxSignins [] k = "signouts" -> MaxSignouts
                [] k = "expiries" -> MaxExpiries [] k = "forced" -> MaxForced
                [] k = "starts" -> MaxSessionStarts [] k = "faults" -> MaxFaults
                [] k = "crashes" -> MaxCrashes]

At(p, pc)   == proc[p].pc = pc
To(p, r)    == proc' = [proc EXCEPT ![p] = r]
Goto(p, pc) == To(p, [proc[p] EXCEPT !.pc = pc])
Settle(p, o) == To(p, [proc[p] EXCEPT !.pc = "record", !.outcome = o])
\* ensureFresh ends: its finally releases the lock
Finish(p) == To(p, [Idle EXCEPT !.pc = "release"])
Throw(p)  == To(p, [Idle EXCEPT !.pc = "release", !.outcome = "threw"])

\* What a step leaves alone, by what it is about.
Store    == <<session, expired, newest>>
Records  == <<status, pending>>

-----------------------------------------------------------------------------
(* Renewal: ensureFresh, renewAndRecord and renewViaBroker.                  *)

\* An upload asks for a license: the one at hand expired, or the collector
\* rejected it and the renewal is forced.
RenewStart(p) ==
  /\ At(p, "idle")
  /\ SignedIn(session)
  /\ \/ expired /\ NoFault
     \/ Spend("forced")
  /\ To(p, [Idle EXCEPT !.pc = "acquire", !.snap = session.license])
  /\ UNCHANGED <<Store, Records, renewLock, broker, lost>>

\* Not now (backoff, terminal), or another process is renewing: the caller keeps
\* the license it has.
RenewSkipped(p) ==
  /\ At(p, "acquire")
  /\ Blocked \/ renewLock \in Process
  /\ To(p, Idle)
  /\ UNCHANGED <<Store, Records, renewLock, broker, lost, left>>

\* Mutant of AcquireLock: a lock that is held is taken over (by its age, say).
AcquireLock_TakesOver(p) ==
  /\ At(p, "acquire")
  /\ ~ Blocked
  /\ renewLock' = p
  /\ Goto(p, "reread")
  /\ UNCHANGED <<Store, Records, broker, lost, left>>

AcquireLock(p) ==
  /\ At(p, "acquire")
  /\ ~ Blocked
  /\ RenewLock!Acquire(p)
  /\ Goto(p, "reread")
  /\ UNCHANGED <<Store, Records, broker, lost, left>>

\* Mutant of RecoverLock: a dead owner's lock is not told from a live one's.
RecoverLock_Foreign(p) ==
  /\ At(p, "acquire")
  /\ renewLock = Foreign
  /\ RenewLock!Recover
  /\ UNCHANGED <<Store, Records, proc, broker, lost, left>>

\* acquireLock removes the lock of a dead owner and tries again
RecoverLock(p) ==
  /\ At(p, "acquire")
  /\ ~ Blocked
  /\ RenewLock!Recover
  /\ UNCHANGED <<Store, Records, proc, broker, lost, left>>

\* Read again under the lock: the renewal may just have happened elsewhere.
Reread(p) ==
  /\ At(p, "reread")
  /\ IF SignedIn(session) /\ (session.license = proc[p].snap \/ expired)
     THEN Goto(p, "expect") ELSE Finish(p)
  /\ UNCHANGED <<Store, Records, renewLock, broker, lost, left>>

\* renewAndRecord takes the snapshot to settle against.
Expect(p) ==
  /\ At(p, "expect")
  /\ \/ ~ SignedIn(session) /\ Finish(p)
     \/ /\ SignedIn(session)
        /\ session.refresh # None
        /\ To(p, [proc[p] EXCEPT !.pc = "send", !.exp = session])
     \/ /\ SignedIn(session)
        /\ session.refresh = None
        /\ To(p, [proc[p] EXCEPT !.pc = "record", !.exp = session, !.outcome = "rejected"])
  /\ UNCHANGED <<Store, Records, renewLock, broker, lost, left>>

Send(p) ==
  /\ At(p, "send")
  /\ IF Matches(proc[p].exp)
     THEN To(p, [proc[p] EXCEPT !.pc = "waiting", !.sent = session.refresh])
     ELSE Finish(p)
  /\ UNCHANGED <<Store, Records, renewLock, broker, lost, left>>

\* External: the broker's answer to a refresh token grant.  It spends the token
\* and returns the next one; a spent token is accepted once more within the
\* grace period, and any other use of it ends the chain.
Accepts(t)  == LET b == broker[t.chain] IN
  b.state = "live" /\ (t.n \in b.spent => t.n \notin b.reused \cup b.late)
Rotated(t)  == [broker EXCEPT ![t.chain].issued = @ + 1, ![t.chain].spent = @ \cup {t.n},
                  ![t.chain].reused = IF t.n \in broker[t.chain].spent THEN @ \cup {t.n} ELSE @]
NextOf(t)   == [t EXCEPT !.n = broker[t.chain].issued + 1]
Rejected(t) == [broker EXCEPT ![t.chain].state = IF @ = "live" THEN "reused" ELSE @]

Grant(p) ==
  /\ At(p, "waiting")
  /\ LET t == proc[p].sent IN
     \/ /\ Accepts(t)
        /\ broker' = Rotated(t)
        /\ To(p, [proc[p] EXCEPT !.pc = "rotate", !.got = NextOf(t)])
        /\ UNCHANGED lost /\ NoFault
     \/ /\ Accepts(t) /\ t.n \notin broker[t.chain].spent  \* no rotation
        /\ Goto(p, "exchange")
        /\ UNCHANGED <<broker, lost>> /\ NoFault
     \/ /\ ~ Accepts(t)
        /\ broker' = Rejected(t)
        /\ Settle(p, "rejected")
        /\ UNCHANGED lost /\ NoFault
  /\ UNCHANGED <<Store, Records, renewLock>>

\* refreshGrant gets no usable answer: the request was lost, or the answer was,
\* after the broker rotated.
GrantFails(p) ==
  /\ At(p, "waiting")
  /\ Fault
  /\ Settle(p, "transient")
  /\ \/ UNCHANGED <<broker, lost>>
     \/ /\ Accepts(proc[p].sent)
        /\ broker' = Rotated(proc[p].sent)
        /\ lost' = lost \cup {proc[p].sent}
  /\ UNCHANGED <<Store, Records, renewLock>>

\* Mutant of CommitRotation: the new token is kept in memory until the license is
\* there.
CommitRotation_Deferred(p) ==
  /\ At(p, "rotate") /\ NoFault
  /\ Goto(p, "exchange")
  /\ UNCHANGED <<Store, Records, renewLock, broker, lost>>

\* commitRotation: the new refresh token is stored before anything else.
CommitRotation(p) ==
  /\ At(p, "rotate")
  /\ \/ /\ Matches(proc[p].exp) /\ NoFault
        /\ session' = [session EXCEPT !.refresh = proc[p].got]
        /\ To(p, [proc[p] EXCEPT !.pc = "exchange", !.exp.refresh = proc[p].got,
                                 !.got = None])
        /\ UNCHANGED lost
     \/ /\ ~ Matches(proc[p].exp) /\ NoFault  \* superseded
        /\ Finish(p)
        /\ lost' = lost \cup {proc[p].sent}
        /\ UNCHANGED session
     \/ /\ Fault
        /\ To(p, [proc[p] EXCEPT !.pc = "record", !.outcome = "transient", !.got = None])
        /\ lost' = lost \cup {proc[p].sent}
        /\ UNCHANGED session
  /\ UNCHANGED <<expired, newest, Records, renewLock, broker>>

\* External: /activate issues a license for the chain's user, or says that the
\* workspace no longer licenses them.
Exchange(p) ==
  /\ At(p, "exchange")
  /\ LET c == proc[p].exp.refresh.chain IN
     \/ /\ broker' = [broker EXCEPT ![c].licenses = @ + 1]
        /\ To(p, [proc[p] EXCEPT !.pc = "refresh",
                    !.license = [chain |-> c, n |-> broker[c].licenses + 1]])
        /\ NoFault
     \/ Goto(p, "drop") /\ UNCHANGED broker /\ NoFault
     \/ Settle(p, "transient") /\ UNCHANGED broker /\ Fault
  /\ UNCHANGED <<Store, Records, renewLock, lost>>

\* Mutant of CommitRefresh: the session is not compared.
CommitRefresh_Unchecked(p) ==
  /\ At(p, "refresh") /\ NoFault
  /\ session' = [session EXCEPT !.license = proc[p].license]
  /\ expired' = FALSE
  /\ To(p, [proc[p] EXCEPT !.pc = "record", !.outcome = "rotated",
              !.exp.license = proc[p].license])
  /\ UNCHANGED <<newest, Records, renewLock, broker, lost>>

\* commitRefresh.  A thrown error settles against the first snapshot, whose
\* refresh token is spent by now.
CommitRefresh(p) ==
  /\ At(p, "refresh")
  /\ \/ /\ Matches(proc[p].exp) /\ NoFault
        /\ session' = [session EXCEPT !.license = proc[p].license]
        /\ expired' = FALSE
        /\ To(p, [proc[p] EXCEPT !.pc = "record", !.outcome = "rotated",
                    !.exp.license = proc[p].license])
     \/ /\ ~ Matches(proc[p].exp) /\ NoFault
        /\ Finish(p)
        /\ UNCHANGED <<session, expired>>
     \/ /\ Fault
        /\ To(p, [proc[p] EXCEPT !.pc = "record", !.outcome = "transient",
                    !.exp.refresh = proc[p].sent])
        /\ UNCHANGED <<session, expired>>
  /\ UNCHANGED <<newest, Records, renewLock, broker, lost>>

\* recordSuccess, recordFailure and recordTerminal of the client.  Claude Code
\* records only while the settled session is current, under the session's lock;
\* Codex stamps the record with whatever session is current by now.
OutcomeStatus(o) == CASE o = "rotated"   -> NoOutcome("none")
                      [] o = "transient" -> Failed
                      [] OTHER           -> Ended("reactivation_required")
\* Mutant of Record: recorded whatever session is current.
Record_Unchecked(p) ==
  /\ At(p, "record") /\ NoFault
  /\ status' = Stamped(OutcomeStatus(proc[p].outcome), session)
  /\ Finish(p)
  /\ UNCHANGED <<Store, pending, renewLock, broker, lost>>

Record(p) ==
  /\ At(p, "record")
  /\ \/ /\ NoFault
        /\ status' = IF Codex \/ Matches(proc[p].exp)
                     THEN Stamped(OutcomeStatus(proc[p].outcome), session) ELSE status
        /\ Finish(p)
     \/ /\ Fault  \* Codex swallows it; withRecoveryCurrent throws
        /\ UNCHANGED status
        /\ IF Codex THEN Finish(p) ELSE Throw(p)
  /\ UNCHANGED <<Store, pending, renewLock, broker, lost>>

\* dropSession: the license is gone, and the status says why in the same lock.
DropSession(p) ==
  /\ At(p, "drop")
  /\ \/ /\ Matches(proc[p].exp) /\ NoFault
        /\ session' = [NoSession EXCEPT !.generation = session.generation + 1]
        /\ expired' = FALSE
        /\ newest' = session'.generation
        /\ status' = Stamped(Ended("revoked"), session')
        /\ To(p, [Idle EXCEPT !.pc = "revoke", !.got = proc[p].exp.refresh,
                              !.sent = proc[p].exp.refresh])
     \/ /\ ~ Matches(proc[p].exp) /\ NoFault
        /\ Finish(p)
        /\ UNCHANGED <<Store, status>>
     \/ /\ Fault
        /\ Throw(p)
        /\ UNCHANGED <<Store, status>>
  /\ UNCHANGED <<pending, renewLock, broker, lost>>

Release(p) ==
  /\ At(p, "release")
  /\ RenewLock!Unlock(p)
  /\ To(p, Idle)
  /\ UNCHANGED <<Store, Records, broker, lost, left>>

\* broker.revoke, best effort, after a dropped session and after a sign-out
Revoke(p) ==
  /\ At(p, "revoke")
  /\ \/ broker' = [broker EXCEPT ![proc[p].got.chain].state = "revoked"] /\ NoFault
     \/ UNCHANGED broker /\ Fault
  /\ IF renewLock = p THEN Finish(p) ELSE To(p, Idle)
  /\ UNCHANGED <<Store, Records, renewLock, lost>>

-----------------------------------------------------------------------------
(* Sign-in: signin, completeSignin and the client's side of it.              *)

\* A waiting sign-in is reported, not cancelled, unless the user restarts it; a
\* valid license is kept.
SigninStart(p, restart) ==
  /\ At(p, "idle")
  /\ restart \/ ~ IsPending
  /\ session.license = None \/ SessionEnded \/ expired
  /\ Spend("signins")
  /\ Goto(p, "engage")
  /\ UNCHANGED <<Store, Records, renewLock, broker, lost>>

\* markEngaged: a new intent
SigninEngage(p) ==
  /\ At(p, "engage")
  /\ \/ /\ NoFault
        /\ session' = [session EXCEPT !.generation = @ + 1,
                         !.signedOut = IF Codex THEN FALSE ELSE @]
        /\ To(p, [Idle EXCEPT !.pc = IF Codex THEN "mark" ELSE "clear",
                              !.intent = session.generation + 1])
     \/ Fault /\ To(p, Idle) /\ UNCHANGED session
  /\ UNCHANGED <<expired, newest, Records, renewLock, broker, lost>>

\* clearLicenseStatus (Claude Code)
SigninClear(p) ==
  /\ At(p, "clear")
  /\ status' = Stamped(NoOutcome(LastTerminal(ReadStatus)), session)
  /\ Goto(p, "mark")
  /\ UNCHANGED <<Store, pending, renewLock, broker, lost, left>>

\* requestDeviceCode and pending.mark.  Claude Code marks under the session's
\* lock and only for the current intent, Codex always.
SigninMark(p) ==
  /\ At(p, "mark")
  /\ \/ /\ NoFault
        /\ pending' = IF Codex \/ proc[p].intent = session.generation
                      THEN [result |-> "pending", intent |-> proc[p].intent] ELSE pending
        /\ Goto(p, "poll")
     \/ /\ Fault  \* no device code, or a marker that could not be written
        /\ UNCHANGED pending
        /\ \/ To(p, Idle)
           \/ To(p, [proc[p] EXCEPT !.pc = "poll", !.outcome = "unmarked"])
  /\ UNCHANGED <<Store, status, renewLock, broker, lost>>

\* External: the user approves, the broker starts a chain and /activate issues
\* its first license; or the code expires, or is denied, or not exchanged.
SigninApproved(p) ==
  /\ At(p, "poll")
  /\ \/ Goto(p, "fail") /\ UNCHANGED broker
     \/ \E c \in Chain :
          /\ broker[c].state = "none"
          /\ \A d \in Chain : d < c => broker[d].state # "none"
          /\ broker' = [broker EXCEPT ![c].state = "live", ![c].intent = proc[p].intent,
                          ![c].issued = 1, ![c].licenses = 1]
          /\ \E got \in {None, [chain |-> c, n |-> 1]} :
               To(p, [proc[p] EXCEPT !.pc = "commit", !.got = got,
                        !.license = [chain |-> c, n |-> 1]])
  /\ UNCHANGED <<Store, Records, renewLock, lost, left>>

\* Mutants of SigninCommit: an earlier refresh token survives a sign-in that has
\* none; it commits for whatever intent is current.
SigninCommit_KeepsRefresh(p) ==
  /\ At(p, "commit") /\ NoFault
  /\ proc[p].intent = session.generation
  /\ session' = [license |-> proc[p].license,
                 refresh |-> IF proc[p].got = None THEN session.refresh ELSE proc[p].got,
                 generation |-> session.generation + 1, signedOut |-> FALSE]
  /\ expired' = FALSE
  /\ newest' = Later(newest, proc[p].intent)
  /\ To(p, Idle)
  /\ UNCHANGED <<Records, renewLock, broker, lost>>
SigninCommit_AnyIntent(p) ==
  /\ At(p, "commit") /\ NoFault
  /\ session' = [license |-> proc[p].license, refresh |-> proc[p].got,
                 generation |-> session.generation + 1, signedOut |-> FALSE]
  /\ expired' = FALSE
  /\ newest' = Later(newest, proc[p].intent)
  /\ status' = Stamped(NoOutcome("none"), session')
  /\ pending' = [result |-> "success", intent |-> 0]
  /\ To(p, Idle)
  /\ UNCHANGED <<renewLock, broker, lost>>

\* commitSignin; Claude Code publishes the result in the same lock
SigninCommit(p) ==
  /\ At(p, "commit")
  /\ \/ /\ NoFault
        /\ proc[p].intent = session.generation
        /\ Codex => ~ session.signedOut
        /\ session' = [license |-> proc[p].license, refresh |-> proc[p].got,
                       generation |-> session.generation + 1,
                       signedOut |-> IF Codex THEN session.signedOut ELSE FALSE]
        /\ expired' = FALSE
        /\ newest' = Later(newest, proc[p].intent)
        /\ IF Codex THEN UNCHANGED Records
           ELSE /\ status' = Stamped(NoOutcome("none"), session')
                /\ pending' = [result |-> "success", intent |-> 0]
        /\ To(p, Idle)
     \/ /\ NoFault
        /\ proc[p].intent # session.generation \/ (Codex /\ session.signedOut)
        /\ To(p, Idle)
        /\ UNCHANGED <<Store, Records>>
     \/ Fault /\ Goto(p, "fail") /\ UNCHANGED <<Store, Records>>
  /\ UNCHANGED <<renewLock, broker, lost>>

\* Mutant of SigninFailed: the marker is replaced whatever intent it is of.
SigninFailed_Unchecked(p) ==
  /\ At(p, "fail") /\ NoFault
  /\ pending' = [result |-> "failure", intent |-> 0]
  /\ To(p, Idle)
  /\ UNCHANGED <<Store, status, renewLock, broker, lost>>

\* failed: Claude Code replaces the marker if the intent is still current, Codex
\* removes the file.
SigninFailed(p) ==
  /\ At(p, "fail")
  /\ \/ /\ NoFault
        /\ pending' = CASE Codex -> [result |-> "none", intent |-> 0]
                        [] ~ Codex /\ proc[p].intent = session.generation ->
                             [result |-> "failure", intent |-> 0]
                        [] OTHER -> pending
     \/ Fault /\ UNCHANGED pending
  /\ To(p, Idle)
  /\ UNCHANGED <<Store, status, renewLock, broker, lost>>

-----------------------------------------------------------------------------
(* Sign-out, and what happens around the commands.                           *)

\* The token to revoke is read first, the session is ended after.
SignoutStart(p) ==
  /\ At(p, "idle")
  /\ Spend("signouts")
  /\ To(p, [Idle EXCEPT !.pc = "signout", !.got = session.refresh])
  /\ UNCHANGED <<Store, Records, renewLock, broker, lost>>

\* Mutant of Signout: the sign-in intent is deleted, not replaced.
Signout_NoIntent(p) ==
  /\ At(p, "signout") /\ NoFault
  /\ session' = [NoSession EXCEPT !.generation = None, !.signedOut = TRUE]
  /\ expired' = FALSE
  /\ To(p, Idle)
  /\ UNCHANGED <<newest, Records, renewLock, broker, lost>>

Signout(p) ==
  /\ At(p, "signout")
  /\ \/ /\ NoFault
        /\ session' = [NoSession EXCEPT !.generation = session.generation + 1,
                                        !.signedOut = TRUE]
        /\ expired' = FALSE
        /\ newest' = session'.generation
        /\ IF proc[p].got = None THEN To(p, Idle)
           ELSE To(p, [proc[p] EXCEPT !.pc = "revoke", !.sent = session.refresh])
     \/ Fault /\ To(p, Idle) /\ UNCHANGED Store
  /\ UNCHANGED <<Records, renewLock, broker, lost>>

\* SessionStart of Claude Code: one fresh attempt (clearTerminal)
ClearTerminal ==
  /\ ~ Codex
  /\ Blocked
  /\ Spend("starts")
  /\ status' = Stamped(NoOutcome(LastTerminal(ReadStatus)), session)
  /\ UNCHANGED <<Store, pending, renewLock, proc, broker, lost>>

\* Time passes: the license expires, a retry falls due, a grace period ends, a
\* device code nobody polls any more expires with its marker.
Expire ==
  /\ session.license # None /\ ~ expired
  /\ Spend("expiries")
  /\ expired' = TRUE
  /\ UNCHANGED <<session, newest, Records, renewLock, proc, broker, lost>>

RetryDue ==
  /\ status.backoff
  /\ status' = [status EXCEPT !.backoff = FALSE]
  /\ UNCHANGED <<Store, pending, renewLock, proc, broker, lost, left>>

GraceOver ==
  /\ \E c \in Chain : broker[c].late # broker[c].spent
  /\ broker' = [c \in Chain |-> [broker[c] EXCEPT !.late = broker[c].spent]]
  /\ UNCHANGED <<Store, Records, renewLock, proc, lost, left>>

MarkerExpires ==
  /\ pending.result = "pending"
  /\ \A p \in Process : proc[p].intent # pending.intent
  /\ pending' = [pending EXCEPT !.result = "none"]
  /\ UNCHANGED <<Store, status, renewLock, proc, broker, lost, left>>

\* A process dies: what it holds in memory is gone, its lock stays behind.
Crash(p) ==
  /\ proc[p].pc # "idle"
  /\ Spend("crashes")
  /\ To(p, Idle)
  /\ IF renewLock = p THEN RenewLock!Die(p) ELSE UNCHANGED renewLock
  /\ lost' = IF At(p, "rotate") THEN lost \cup {proc[p].sent} ELSE lost
  /\ UNCHANGED <<Store, Records, broker>>

Renewal(p) ==
  \/ RenewSkipped(p) \/ AcquireLock(p) \/ RecoverLock(p) \/ Reread(p) \/ Expect(p)
  \/ Send(p) \/ Grant(p) \/ GrantFails(p) \/ CommitRotation(p) \/ Exchange(p)
  \/ CommitRefresh(p) \/ Record(p) \/ DropSession(p) \/ Revoke(p) \/ Release(p)
Signin(p) ==
  \/ SigninEngage(p) \/ SigninClear(p) \/ SigninMark(p) \/ SigninApproved(p)
  \/ SigninCommit(p) \/ SigninFailed(p)
Start(p) ==
  \/ RenewStart(p) \/ SignoutStart(p)
  \/ \E restart \in BOOLEAN : SigninStart(p, restart)
Time == Expire \/ RetryDue \/ GraceOver \/ MarkerExpires

Next ==
  \/ \E p \in Process : Start(p) \/ Renewal(p) \/ Signin(p) \/ Signout(p) \/ Crash(p)
  \/ ClearTerminal \/ Time

Spec == Init /\ [][Next]_vars

\* Whoever runs goes on, drains keep asking for a license while the one at hand
\* is expired, and time passes.  Users, crashes and faults owe nothing.
Fairness ==
  /\ \A p \in Process :
       WF_vars(Renewal(p)) /\ WF_vars(Signin(p)) /\ WF_vars(Signout(p))
       /\ WF_vars(expired /\ RenewStart(p))
  /\ WF_vars(RetryDue)
FairSpec == Spec /\ Fairness

-----------------------------------------------------------------------------
TypeOK ==
  /\ session \in Session /\ expired \in BOOLEAN
  /\ status \in Status /\ pending \in Pending
  /\ renewLock \in Process \cup {Free, Orphaned}
  /\ proc \in [Process -> Proc]
  /\ broker \in [Chain -> ChainState]
  /\ lost \in SUBSET Token
  /\ newest \in Nat
  /\ left \in [Bounds -> Nat]

\* While the user is signed out there is no license and no refresh token, so
\* nothing is recorded: no renewal or sign-in that was under way at the sign-out
\* puts one back (signOut, snapshotMatches, commitSignin).
SignedOutHoldsNothing ==
  session.signedOut => session.license = None /\ session.refresh = None

\* "renewal never mixes two sign-ins": the license and the refresh token kept
\* with it come from the same approval, whatever overlapped.
OneSignin ==
  session.license # None /\ session.refresh # None =>
    session.license.chain = session.refresh.chain

\* A session that ended stays ended: the license held comes from the newest
\* sign-in that committed, never from before the last sign-out, revocation or
\* newer sign-in.
NoResurrection ==
  session.license # None => broker[session.license.chain].intent >= newest

\* Renewal is single-flight: the broker sees a refresh token twice, and ends its
\* chain for it, only if the answer to the first use never reached the store.
ChainEndsOnlyByLoss ==
  \A c \in Chain : broker[c].state = "reused" => \E t \in lost : t.chain = c

\* The session is never left on a spent refresh token, except while a renewal
\* that holds its successor is about to store it, or after a loss.
NotStranded ==
  /\ session.refresh # None
  /\ session.refresh.n \in broker[session.refresh.chain].spent
  => \/ session.refresh \in lost
     \/ \E p \in Process : proc[p].pc = "rotate" /\ proc[p].sent = session.refresh

\* Renewals never cost a session its chain.
ChainKept == ChainEndsOnlyByLoss /\ NotStranded

\* A session reads as "sign in again" only if that is so: the broker ended its
\* chain, or it has no refresh token to renew with.  (The status record belongs
\* to one sign-in: a late outcome of an older one says nothing about this one.)
TerminalIsTrue ==
  session.license # None /\ ReadStatus.terminal = "reactivation_required" =>
    \/ session.refresh = None
    \/ broker[session.refresh.chain].state \in {"revoked", "reused"}

\* "A sign-in waiting for approval is not cancelled by running sign-in again":
\* while the newest attempt polls for approval, its marker says so, and a plain
\* sign-in reports it.
WaitingSigninReported ==
  \A p \in Process :
    proc[p].pc = "poll" /\ proc[p].intent = session.generation
    /\ proc[p].outcome # "unmarked" => IsPending

\* A renewal that no crash and no fault disturbs never strands the session: the
\* rotated token "is stored before the exchange so a later failure cannot strand
\* the session on a spent token" (license-renewal.js).
RotationIsStored ==
  left.faults = MaxFaults /\ left.crashes = MaxCrashes =>
    \A t \in lost : session.refresh # t

\* A revocation ends the session that was ended locally, "so a copy of the
\* session cannot renew anywhere else" (signout.js, dropSession).
RevokesWhatItEnds ==
  \A p \in Process : proc[p].pc = "revoke" =>
    proc[p].sent # None /\ proc[p].got.chain = proc[p].sent.chain

\* ensureFresh "never throws" (license-renewal.js).
NeverThrows == \A p \in Process : proc[p].outcome # "threw"

\* An expired license of a session that is still good is renewed, or the session
\* ends, or the status says that only a new sign-in helps: renewals do not wait
\* on each other or on a dead process's lock, and an outage ends.
ExpiredRenewed ==
  (session.license # None /\ expired) ~>
    (~ expired \/ session.license = None \/ ReadStatus.terminal # "none")
=============================================================================
