----------------------------- MODULE MCRecords -----------------------------
(***************************************************************************)
(* Records that processes of a client share, for TLC: the history import of    *)
(* Claude Code in four scenarios, and the consent record of Codex.  They share  *)
(* no file, so a behaviour begins by choosing one.  Variables of the other are  *)
(* None, except those of BackfillLifecycle, which keep their initial values.    *)
(***************************************************************************)
EXTENDS BackfillLifecycle, TLC

CONSTANTS ten1, ten2, com1, com2, rep1, rep2

VARIABLES
  scenario,
  \* of CodexConsent
  saved, lost, synced, marker, lock, local, command, known, budget

\* Each scenario's share of what may happen.  Crashes: two offers, a crash of a worker or a
\* drain anywhere, another tenant's sign-in, and a chunk that is given up on.  Offers: three,
\* the first of which is forgotten; runs that fail at once or because a cursor cannot be
\* written, and a chunk that expires.  Worker: one that is taken for dead and goes on, finds
\* the record busy, the repositories changed or a transcript unreadable, while the collector
\* is slow.  User: signs in to another tenant and back, or out, and turns a repository off.
Share ==
  LET Each(n, S) == [k \in S |-> n]
      With(f)    == f @@ Each(0, Bounds)
  IN  [crashes |-> With(Each(1, {"crashes", "signins", "setAsides"})),
       offers  |-> With(Each(1, {"seals", "spawns", "expiries"})),
       worker  |-> With(Each(1, {"reads", "busy", "stalls", "scopes", "losses", "deferrals"})),
       user    |-> With("signins" :> 2 @@ Each(1, {"signouts", "purges"}))]
Scenario == DOMAIN Share
Offers(s) == CASE s = "crashes" -> 2 [] s = "offers" -> 3 [] OTHER -> 1

\* The transcripts that are live already.
Live(s) == IF s = "offers" THEN {2} ELSE {}

\* All of it.
AllLimits == [k \in Bounds |-> Max({Share[s][k] : s \in Scenario})]

ConsentLimits ==
  [k \in {"crashes", "reboots", "losses", "faults", "stalls", "locals"} |-> 1]

Consent == INSTANCE CodexConsent WITH
  Command <- {com1, com2}, Repo <- {rep1, rep2}, Limits <- ConsentLimits, left <- budget

ConsentVars == <<saved, lost, synced, marker, lock, local, command, known, budget>>

NoConsent ==
  /\ saved = None /\ lost = None /\ synced = None /\ marker = None /\ lock = None
  /\ local = None /\ command = None /\ known = None /\ budget = None

\* One thing goes wrong with the consent record, or a fault and a crash of the machine.
Together ==
  LET happened == {k \in DOMAIN budget : budget'[k] = 0}
  IN  Cardinality(happened) <= 1 \/ happened = {"faults", "reboots"}

AnyInit ==
  /\ Init
  /\ \/ scenario \in Scenario /\ cursors = Live(scenario) /\ NoConsent
     \/ scenario = "consent" /\ cursors = {} /\ tenant = ten1 /\ Consent!Init

\* A scenario has its share and its offers.
Within ==
  /\ left' # left => \A k \in Bounds : Limits[k] - left'[k] <= Share[scenario][k]
  /\ state'.offer <= Offers(scenario)
AnyNext ==
  \/ scenario \in Scenario /\ Next /\ Within /\ UNCHANGED <<scenario, ConsentVars>>
  \/ scenario = "consent" /\ Consent!Next /\ Together /\ UNCHANGED <<scenario, vars>>
AnySpec == AnyInit /\ [][AnyNext]_<<scenario, vars, ConsentVars>>

\* Tenants, commands and repositories.
Symmetry == Permutations({ten1, ten2}) \cup Permutations({com1, com2}) \cup Permutations({rep1, rep2})

\* Every state is well typed.
Types == TypeOK /\ (scenario = "consent" => Consent!TypeOK)

\* A Codex decision is made from the record that its user was shown (mutate,
\* runConsentAction).
DecidedAsShown == [][scenario = "consent" => Consent!FromWhatWasShown]_<<scenario, ConsentVars>>

\* What a Codex command says of its decision is true, whatever failed (mutate).
ReportIsTrue == scenario = "consent" => Consent!ReportIsTrue

\* Neither a Codex consent record that was lost nor a stamp that was replaced comes back
\* (readPolicy, decision).
DecisionsStay == scenario = "consent" => Consent!DecisionsStay
=============================================================================
