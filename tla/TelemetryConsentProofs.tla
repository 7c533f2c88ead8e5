------------------------ MODULE TelemetryConsentProofs ------------------------
(***************************************************************************)
(* What the consent lock of the Claude Code client guarantees and what it     *)
(* does not: decisions take effect whole, one at a time and from the revision  *)
(* they were made from (ConsentDecisions), for any commands, repositories and   *)
(* crashes, as long as no lock is taken from a command at work.  A lock goes    *)
(* by age and is removed by name, so it can be taken in two ways, and nothing   *)
(* else breaks the promise.                                                   *)
(***************************************************************************)
EXTENDS TelemetryConsent, FiniteSetTheorems, TLAPS

Ask     == [decision : C!Decision, expected : Nat \cup {None}]
Actions == [Repo -> {"on", "off", None}]

\* What is assumed of None: it is neither the state of a lock nor what a command has asked for
\* or has listed.
Constants == None \notin {"fresh", "stale"} /\ None \notin Ask /\ None \notin Names

HookSet == [pc : {"idle", "append"}, repo : Repo \cup {None}, session : Nat]

(* The inductive invariant, in parts.                                        *)

\* What a command has at hand, by where it is.
Asking == {"open", "remove", "read", "write"}
Command(k) ==
  /\ DOMAIN k = DOMAIN Idle
  /\ k.pc \in {"idle", "listing", "shown", "confirm", "toggle", "open", "remove", "read", "write",
               "unlock", "sweep", "erase"}
  /\ k.sweep \in [Repo -> 0 .. 2] /\ k.repo \in Repo \cup {None} /\ k.owes \in SUBSET Event
  /\ k.seen \in Actions \cup {None} /\ k.act \in Actions \cup {None}
  /\ k.revision \in Nat /\ k.todo \in SUBSET Repo
  /\ k.pc \in Asking \cup {"unlock"} => k.ask \in Ask
  /\ k.pc = "write" => k.base \in C!Policy
  /\ k.pc \in {"confirm", "toggle"} => k.act \in Actions
  /\ IF k.pc = "erase" THEN k.repo \in Repo /\ k.names \in Names ELSE k.names = None
Sender(k) ==
  /\ DOMAIN k = DOMAIN IdleDrain
  /\ k.pc \in {"idle", "purge", "clear", "erase", "next", "recheck"}
  /\ k.repos \in SUBSET Repo /\ k.sweep \in 0 .. 2 /\ k.repo \in Repo \cup {None}
  /\ k.todo \in SUBSET (Repo \X SUBSET Event) /\ k.session \in Nat
  /\ k.pc \in {"clear", "erase"} => k.back \in {"purge", "next"} /\ k.repo \in Repo
  /\ k.pc = "erase" => k.names \in Names
  /\ k.pc = "recheck" => k.repo \in Repo /\ k.batch \in SUBSET Event

CommandTypes ==
  /\ policy \in C!Policy /\ lock \in {None, "fresh", "stale"} /\ session \in Nat
  /\ DOMAIN chooser = Chooser /\ \A c \in Chooser : Command(chooser[c])
QueueTypes ==
  /\ log \in [Repo -> SUBSET Event] /\ sealed \in [Repo -> SUBSET (SUBSET Event)]
  /\ deleted \subseteq Event /\ void \subseteq Event /\ off \subseteq Event
SenderTypes ==
  /\ DOMAIN drain = Drain /\ \A d \in Drain : Sender(drain[d])
  /\ net \subseteq Request /\ sent \subseteq [event : Event, session : Nat]

\* Each event that was recorded or is about to be was taken from the bound.
Appending == {h \in Hook : hook[h].pc = "append"}
EventsCounted ==
  /\ hook \in [Hook -> HookSet] /\ \A h \in Hook : hook[h].pc = "append" => hook[h].repo \in Repo
  /\ left \in [Bounds -> Nat] /\ \A b \in Bounds : left[b] <= Limits[b]
  /\ IsFiniteSet(Appending)
  /\ \E n \in Nat : /\ DOMAIN under = 1 .. n
                    /\ n + Cardinality(Appending) + left["events"] = Limits["events"]

Types == Constants /\ CommandTypes /\ QueueTypes /\ SenderTypes /\ EventsCounted

-----------------------------------------------------------------------------
(* Type correctness.                                                         *)

\* A bound that is spent or not stays a natural number, and no bound grows.
LEMMA BoundsTyped ==
  ASSUME left \in [Bounds -> Nat], \A b \in Bounds : left[b] <= Limits[b],
         NoFault \/ \E k \in Bounds : Spend(k)
  PROVE  left' \in [Bounds -> Nat] /\ \A b \in Bounds : left'[b] <= Limits[b]
  BY LimitsAssumption DEF NoFault, Spend

\* Nothing is recorded: no bound but another than "events" is spent.
LEMMA NothingRecorded ==
  ASSUME EventsCounted, UNCHANGED <<hook, under>>,
         NoFault \/ \E k \in Bounds \ {"events"} : Spend(k)
  PROVE  EventsCounted'
  <1>1. left' \in [Bounds -> Nat] /\ \A b \in Bounds : left'[b] <= Limits[b]
    BY BoundsTyped DEF EventsCounted
  <1>2. left'["events"] = left["events"]
    BY DEF EventsCounted, NoFault, Spend, Bounds
  <1>3. Appending' = Appending
    BY DEF Appending
  <1>4. QED
    BY <1>1, <1>2, <1>3 DEF EventsCounted

\* A command goes to a new record.
LEMMA CommandGoes ==
  ASSUME DOMAIN chooser = Chooser, \A d \in Chooser : Command(chooser[d]),
         NEW c \in Chooser, NEW r, Command(r), To(c, r)
  PROVE  /\ DOMAIN chooser' = Chooser /\ \A d \in Chooser : Command(chooser'[d])
         /\ chooser'[c] = r /\ \A d \in Chooser \ {c} : chooser'[d] = chooser[d]
  <1>1. chooser' = [chooser EXCEPT ![c] = r]
    BY DEF To
  <1>2. DOMAIN chooser' = Chooser /\ chooser'[c] = r
        /\ \A d \in Chooser \ {c} : chooser'[d] = chooser[d]
    BY <1>1
  <1>3. QED
    BY <1>2

LEMMA IdleTyped ==
  ASSUME Constants
  PROVE  Command(Idle)
  <1>1. [r \in Repo |-> 0] \in [Repo -> 0 .. 2]
    OBVIOUS
  <1>2. QED
    BY <1>1 DEF Idle, Command, Asking

\* A command that is through with a decision goes on to the next or is idle.
LEMMA OverTyped ==
  ASSUME Constants, DOMAIN chooser = Chooser, \A d \in Chooser : Command(chooser[d]),
         NEW c \in Chooser, NEW r, Command(r), r.act = chooser[c].act, r.pc # "erase", Over(c, r)
  PROVE  /\ DOMAIN chooser' = Chooser /\ \A d \in Chooser : Command(chooser'[d])
         /\ chooser'[c].pc \in {"idle", "toggle"} /\ chooser'[c].revision \in {0, r.revision}
         /\ \A d \in Chooser \ {c} : chooser'[d] = chooser[d]
  <1> DEFINE s == [r EXCEPT !.pc = "toggle", !.ask = None, !.base = None]
  <1>1. CASE Toggling(c)
    <2>1. r.act \in Actions
      BY <1>1 DEF Command, Toggling
    <2>2. Command(s) /\ s.pc = "toggle" /\ s.revision = r.revision
      BY <2>1 DEF Command, Asking, Idle
    <2>3. To(c, s)
      BY <1>1 DEF Over
    <2> HIDE DEF s
    <2>4. QED
      BY <2>2, <2>3, CommandGoes
  <1>2. CASE ~ Toggling(c)
    <2>1. To(c, Idle)
      BY <1>2 DEF Over
    <2>2. Idle.pc = "idle" /\ Idle.revision = 0
      BY DEF Idle
    <2>3. QED
      BY <2>1, <2>2, IdleTyped, CommandGoes
  <1>3. QED
    BY <1>1, <1>2

-----------------------------------------------------------------------------
(* What each step of a command does.                                         *)

Others(c)    == \A d \in Chooser \ {c} : chooser'[d] = chooser[d]
Moves(c, pc) == chooser'[c].pc = pc /\ Others(c)
SameAsk(c)   == chooser'[c].ask = chooser[c].ask /\ chooser'[c].revision = chooser[c].revision
Typed        == Constants /\ CommandTypes /\ QueueTypes

\* What a repository has queued are events.
LEMMA QueuedTyped ==
  ASSUME QueueTypes, NEW r \in Repo
  PROVE  Queued(r) \subseteq Event /\ Listed(r) \in Names
  <1>1. log[r] \subseteq Event /\ sealed[r] \in SUBSET (SUBSET Event)
    BY DEF QueueTypes
  <1>2. QED
    BY <1>1 DEF Queued, Listed, Names

LEMMA DecideMoves ==
  ASSUME Typed, NEW c \in Chooser, Decide(c)
  PROVE  /\ CommandTypes' /\ At(c, "idle") /\ Moves(c, "open") /\ chooser'[c].revision = 0
         /\ chooser'[c].ask.decision \in C!Decision
         /\ chooser'[c].ask.expected \in {None, policy.revision}
  <1>1. PICK d \in Decisions : To(c, [Idle EXCEPT !.pc = "open", !.ask =
          [decision |-> d, expected |-> IF d.kind = "onboard" THEN policy.revision ELSE None]])
    BY DEF Decide
  <1> DEFINE e == IF d.kind = "onboard" THEN policy.revision ELSE None
             a == [decision |-> d, expected |-> e]
             r == [Idle EXCEPT !.pc = "open", !.ask = a]
  <1>2. policy.revision \in Nat
    BY DEF Typed, CommandTypes, C!Policy
  <1>3. a \in Ask
    BY <1>2, DecisionsAssumption DEF Ask
  <1>4. Command(Idle)
    BY IdleTyped DEF Typed
  <1>5. To(c, r)
    BY <1>1
  <1>6. r.pc = "open" /\ r.ask = a /\ r.revision = 0
    BY DEF Idle
  <1>7. Command(r)
    <2> HIDE DEF a
    <2>1. QED
      BY <1>3, <1>4 DEF Command, Asking, Idle
  <1> HIDE DEF r
  <1>8. /\ DOMAIN chooser' = Chooser /\ \A x \in Chooser : Command(chooser'[x])
        /\ chooser'[c] = r /\ Others(c)
    BY <1>5, <1>7, CommandGoes DEF Typed, CommandTypes, Others
  <1>9. CommandTypes'
    BY <1>8 DEF Decide, Typed, CommandTypes, Record
  <1>10. QED
    BY <1>6, <1>8, <1>9, DecisionsAssumption DEF Decide, At, Moves

LEMMA ActionsTyped ==
  ASSUME Typed
  PROVE  [r \in Repo |-> Action(r)] \in Actions
  BY DEF Typed, CommandTypes, Action, Actions

LEMMA ListMoves ==
  ASSUME Typed, NEW c \in Chooser, List(c)
  PROVE  CommandTypes' /\ At(c, "idle") /\ Moves(c, "listing") /\ chooser'[c].revision = 0
  <1> DEFINE A == [r \in Repo |-> Action(r)]
             r == [Idle EXCEPT !.pc = "listing", !.seen = A]
  <1>1. A \in Actions
    BY ActionsTyped
  <1>2. To(c, r)
    BY DEF List
  <1> HIDE DEF A
  <1>3. r.pc = "listing" /\ r.revision = 0
    BY DEF Idle
  <1>4. Command(Idle)
    BY IdleTyped DEF Typed
  <1>5. Command(r)
    BY <1>1, <1>4 DEF Command, Asking, Idle
  <1> HIDE DEF r
  <1>6. /\ DOMAIN chooser' = Chooser /\ \A x \in Chooser : Command(chooser'[x])
        /\ chooser'[c] = r /\ Others(c)
    BY <1>2, <1>5, CommandGoes DEF Typed, CommandTypes, Others
  <1>7. CommandTypes'
    BY <1>6 DEF List, Typed, CommandTypes, Record
  <1>8. QED
    BY <1>3, <1>6, <1>7 DEF List, At, Moves

\* A command changes some fields of its record and nothing else of the commands' state.
LEMMA RecordMoves ==
  ASSUME Typed, NEW c \in Chooser, NEW r, To(c, r), Command(r), UNCHANGED <<Record, session>>
  PROVE  CommandTypes' /\ chooser'[c] = r /\ Others(c)
  <1>1. /\ DOMAIN chooser' = Chooser /\ \A x \in Chooser : Command(chooser'[x])
        /\ chooser'[c] = r /\ Others(c)
    BY CommandGoes DEF Typed, CommandTypes, Others
  <1>2. QED
    BY <1>1 DEF Typed, CommandTypes, Record

LEMMA ListRevisionMoves ==
  ASSUME Typed, NEW c \in Chooser, ListRevision(c)
  PROVE  CommandTypes' /\ At(c, "listing") /\ Moves(c, "shown")
         /\ chooser'[c].revision = policy.revision
  <1> DEFINE r == [chooser[c] EXCEPT !.pc = "shown", !.revision = policy.revision]
  <1>1. policy.revision \in Nat /\ Command(chooser[c]) /\ At(c, "listing")
    BY DEF Typed, CommandTypes, C!Policy, ListRevision
  <1>2. Command(r) /\ r.pc = "shown" /\ r.revision = policy.revision
    BY <1>1 DEF Command, Asking, Idle, At
  <1>3. To(c, r)
    BY DEF ListRevision
  <1> HIDE DEF r
  <1>4. QED
    BY <1>1, <1>2, <1>3, RecordMoves DEF ListRevision, Moves

LEMMA SelectMoves ==
  ASSUME Typed, NEW c \in Chooser, Select(c)
  PROVE  CommandTypes' /\ At(c, "shown") /\ Moves(c, "confirm")
         /\ chooser'[c].revision = chooser[c].revision
  <1> DEFINE A == [r \in Repo |-> Action(r)]
  <1>1. PICK R \in SUBSET Repo : To(c, [chooser[c] EXCEPT !.pc = "confirm", !.todo = R, !.act = A])
    BY DEF Select
  <1> DEFINE r == [chooser[c] EXCEPT !.pc = "confirm", !.todo = R, !.act = A]
  <1>2. A \in Actions /\ Command(chooser[c]) /\ At(c, "shown")
    BY ActionsTyped DEF Typed, CommandTypes, Select
  <1> HIDE DEF A
  <1>3. Command(r) /\ r.pc = "confirm" /\ r.revision = chooser[c].revision
    BY <1>2 DEF Command, Asking, Idle, At
  <1>4. To(c, r)
    BY <1>1
  <1> HIDE DEF r
  <1>5. QED
    BY <1>2, <1>3, <1>4, RecordMoves DEF Select, Moves

LEMMA ConfirmMoves ==
  ASSUME Typed, NEW c \in Chooser, Confirm(c)
  PROVE  /\ CommandTypes' /\ At(c, "confirm") /\ Others(c)
         /\ chooser'[c].pc \in {"toggle", "idle"}
         /\ chooser'[c].revision \in {chooser[c].revision, 0}
  <1> DEFINE r == [chooser[c] EXCEPT !.pc = "toggle"]
  <1>1. Command(chooser[c]) /\ At(c, "confirm") /\ Command(Idle)
    BY IdleTyped DEF Typed, CommandTypes, Confirm
  <1>2. Command(r) /\ r.pc = "toggle" /\ r.revision = chooser[c].revision
    BY <1>1 DEF Command, Asking, Idle, At
  <1>3. Idle.pc = "idle" /\ Idle.revision = 0
    BY DEF Idle
  <1>4. To(c, r) \/ To(c, Idle)
    BY DEF Confirm
  <1> HIDE DEF r
  <1>5. QED
    BY <1>1, <1>2, <1>3, <1>4, RecordMoves DEF Confirm

LEMMA ToggleMoves ==
  ASSUME Typed, NEW c \in Chooser, Toggle(c)
  PROVE  /\ CommandTypes' /\ At(c, "toggle") /\ Others(c)
         /\ chooser'[c].revision \in {chooser[c].revision, 0}
         /\ \/ chooser'[c].pc \in {"toggle", "idle"}
            \/ /\ chooser'[c].pc = "open" /\ chooser'[c].ask.decision \in C!Decision
               /\ chooser'[c].ask.expected = chooser[c].revision
  <1> DEFINE k == chooser[c]
  <1>1. Command(k) /\ At(c, "toggle") /\ Command(Idle) /\ Idle.pc = "idle" /\ Idle.revision = 0
    <2>1. Idle.pc = "idle" /\ Idle.revision = 0
      BY DEF Idle
    <2>2. QED
      BY <2>1, IdleTyped DEF Typed, CommandTypes, Toggle
  <1>2. CASE To(c, Idle)
    BY <1>1, <1>2, RecordMoves DEF Toggle
  <1>3. ASSUME NEW r \in k.todo, k.act[r] = None, To(c, [k EXCEPT !.todo = @ \ {r}])
        PROVE  /\ CommandTypes' /\ Others(c) /\ chooser'[c].pc = "toggle"
               /\ chooser'[c].revision = k.revision
    <2> DEFINE n == [k EXCEPT !.todo = @ \ {r}]
    <2>1. Command(n) /\ n.pc = "toggle" /\ n.revision = k.revision
      BY <1>1 DEF Command, Asking, Idle, At
    <2>2. To(c, n)
      BY <1>3
    <2> HIDE DEF n
    <2>3. QED
      BY <2>1, <2>2, RecordMoves DEF Toggle
  <1>4. ASSUME NEW r \in k.todo, k.act[r] # None,
               To(c, [k EXCEPT !.pc = "open", !.todo = @ \ {r}, !.ask =
                        [decision |-> [kind |-> "repository", repos |-> {r}, value |-> k.act[r]],
                         expected |-> k.revision]])
        PROVE  /\ CommandTypes' /\ Others(c) /\ chooser'[c].pc = "open"
               /\ chooser'[c].revision = k.revision
               /\ chooser'[c].ask.decision \in C!Decision /\ chooser'[c].ask.expected = k.revision
    <2> DEFINE d == [kind |-> "repository", repos |-> {r}, value |-> k.act[r]]
               a == [decision |-> d, expected |-> k.revision]
               n == [k EXCEPT !.pc = "open", !.todo = @ \ {r}, !.ask = a]
    <2>1. k.revision \in Nat /\ r \in Repo /\ k.act[r] \in {"on", "off"}
      BY <1>1, <1>4 DEF Command, Actions, At
    <2>2. d \in C!Decision
      BY <2>1 DEF C!Decision
    <2> HIDE DEF d
    <2>3. a \in Ask /\ a.decision = d /\ a.expected = k.revision
      BY <2>1, <2>2 DEF Ask
    <2>4. To(c, n)
      BY <1>4 DEF d
    <2> HIDE DEF a
    <2>5. Command(n) /\ n.pc = "open" /\ n.revision = k.revision /\ n.ask = a
      BY <1>1, <2>3 DEF Command, Asking, Idle, At
    <2> HIDE DEF n
    <2>6. QED
      BY <2>2, <2>3, <2>4, <2>5, RecordMoves DEF Toggle
  <1>5. QED
    BY <1>1, <1>2, <1>3, <1>4 DEF Toggle

\* A command goes on with its decision and its record otherwise as it is.
LEMMA GoesOn ==
  ASSUME Typed, NEW c \in Chooser, chooser[c].pc \in Asking, NEW pc \in Asking \cup {"unlock"},
         To(c, [chooser[c] EXCEPT !.pc = pc]), pc = "write" => chooser[c].base \in C!Policy
  PROVE  /\ DOMAIN chooser' = Chooser /\ \A d \in Chooser : Command(chooser'[d])
         /\ Moves(c, pc) /\ SameAsk(c)
  <1> DEFINE r == [chooser[c] EXCEPT !.pc = pc]
  <1>1. Command(chooser[c])
    BY DEF Typed, CommandTypes
  <1>2. Command(r) /\ r.pc = pc /\ r.ask = chooser[c].ask /\ r.revision = chooser[c].revision
    BY <1>1 DEF Command, Asking, Idle
  <1>3. To(c, r)
    OBVIOUS
  <1> HIDE DEF r
  <1>4. QED
    BY <1>2, <1>3, CommandGoes DEF Typed, CommandTypes, Moves, Others, SameAsk

LEMMA OpenLockMoves ==
  ASSUME Typed, NEW c \in Chooser, OpenLock(c)
  PROVE  /\ CommandTypes' /\ At(c, "open") /\ policy' = policy
         /\ \/ lock = None /\ lock' = "fresh" /\ Moves(c, "read") /\ SameAsk(c)
            \/ lock = "stale" /\ lock' = lock /\ Moves(c, "remove") /\ SameAsk(c)
            \/ /\ lock' = lock /\ Others(c) /\ chooser'[c].pc \in {"idle", "toggle"}
               /\ chooser'[c].revision \in {chooser[c].revision, 0}
  <1>1. Command(chooser[c]) /\ chooser[c].pc \in Asking /\ At(c, "open")
    BY DEF Typed, CommandTypes, OpenLock, Asking, At
  <1>2. CASE lock = None /\ lock' = "fresh" /\ To(c, [chooser[c] EXCEPT !.pc = "read"])
    BY <1>1, <1>2, GoesOn DEF OpenLock, Typed, CommandTypes, Asking
  <1>3. CASE lock = "stale" /\ UNCHANGED lock /\ To(c, [chooser[c] EXCEPT !.pc = "remove"])
    BY <1>1, <1>3, GoesOn DEF OpenLock, Typed, CommandTypes, Asking
  <1>4. CASE UNCHANGED lock /\ Over(c, chooser[c])
    <2>1. /\ DOMAIN chooser' = Chooser /\ \A d \in Chooser : Command(chooser'[d])
          /\ chooser'[c].pc \in {"idle", "toggle"}
          /\ chooser'[c].revision \in {0, chooser[c].revision} /\ Others(c)
      BY <1>1, <1>4, OverTyped DEF Typed, CommandTypes, At, Others
    <2>2. QED
      BY <1>1, <1>4, <2>1 DEF OpenLock, Typed, CommandTypes
  <1>5. QED
    BY <1>2, <1>3, <1>4 DEF OpenLock

LEMMA RemoveLockMoves ==
  ASSUME Typed, NEW c \in Chooser, RemoveLock(c)
  PROVE  /\ CommandTypes' /\ At(c, "remove") /\ policy' = policy /\ lock' = None
         /\ Moves(c, "open") /\ SameAsk(c)
  BY GoesOn DEF RemoveLock, Typed, CommandTypes, Asking, At

LEMMA ReadPolicyMoves ==
  ASSUME Typed, NEW c \in Chooser, ReadPolicy(c)
  PROVE  /\ CommandTypes' /\ At(c, "read") /\ policy' = policy /\ lock' = lock
         /\ Others(c) /\ chooser'[c].revision = chooser[c].revision
         /\ \/ /\ chooser'[c].pc = "write" /\ chooser'[c].base = policy
               /\ chooser'[c].ask = chooser[c].ask
               /\ chooser[c].ask.expected \in {None, policy.revision}
            \/ chooser'[c].pc = "unlock"
  <1>1. Command(chooser[c]) /\ chooser[c].pc \in Asking /\ At(c, "read") /\ policy \in C!Policy
        /\ policy' = policy /\ lock' = lock /\ session' = session
    BY DEF Typed, CommandTypes, ReadPolicy, Asking, At, Record
  <1>2. CASE chooser[c].ask.expected \in {None, policy.revision}
    <2> DEFINE r == [chooser[c] EXCEPT !.pc = "write", !.base = policy]
    <2>1. To(c, r)
      BY <1>2 DEF ReadPolicy
    <2>2. /\ Command(r) /\ r.pc = "write" /\ r.base = policy /\ r.ask = chooser[c].ask
          /\ r.revision = chooser[c].revision
      BY <1>1 DEF Command, Asking, Idle, At
    <2> HIDE DEF r
    <2>3. QED
      BY <1>1, <1>2, <2>1, <2>2, RecordMoves DEF Record
  <1>3. CASE ~ (chooser[c].ask.expected \in {None, policy.revision})
    <2>1. To(c, [chooser[c] EXCEPT !.pc = "unlock"])
      BY <1>3 DEF ReadPolicy
    <2>2. QED
      BY <1>1, <2>1, GoesOn DEF Typed, CommandTypes, Moves, SameAsk
  <1>4. QED
    BY <1>2, <1>3

\* A decision makes a record of a record.
LEMMA AppliedTyped ==
  ASSUME NEW d \in C!Decision, NEW p \in C!Policy
  PROVE  C!Apply(d, p) \in C!Policy /\ C!Apply(d, p).revision = p.revision + 1
  <1>1. d.value \in {"on", "off"} /\ p.revision \in Nat /\ p.global \in {"on", "off"}
        /\ p.org \in C!Settings /\ p.repos \in [Repo -> C!Settings]
    BY DEF C!Decision, C!Policy
  <1> DEFINE R == [r \in Repo |-> IF r \in d.repos THEN d.value ELSE p.repos[r]]
             O == CASE d.kind = "organization" -> d.value
                    [] d.kind = "onboard"      -> "on"
                    [] OTHER                   -> p.org
             G == IF d.kind = "global" THEN d.value ELSE p.global
  <1>2. R \in [Repo -> C!Settings]
    BY <1>1 DEF C!Settings
  <1>3. O \in C!Settings
    BY <1>1 DEF C!Settings
  <1>4. G \in {"on", "off"} /\ p.revision + 1 \in Nat
    BY <1>1
  <1>5. C!Apply(d, p) = [revision |-> p.revision + 1, global |-> G, org |-> O, repos |-> R]
    BY DEF C!Apply
  <1> HIDE DEF R, O, G
  <1>6. QED
    BY <1>2, <1>3, <1>4, <1>5 DEF C!Policy

LEMMA WritePolicyMoves ==
  ASSUME Typed, NEW c \in Chooser, WritePolicy(c)
  PROVE  /\ CommandTypes' /\ At(c, "write") /\ lock' = lock /\ Moves(c, "unlock")
         /\ policy' = C!Apply(chooser[c].ask.decision, chooser[c].base)
         /\ policy'.revision = chooser[c].base.revision + 1
         /\ chooser'[c].revision = chooser[c].revision + 1
  <1> DEFINE k == chooser[c]
             s == Sweeps(k.ask.decision)
             o == UNION {Queued(r) : r \in {x \in Repo : s[x] > 0}}
             n == [k EXCEPT !.pc = "unlock", !.sweep = s, !.revision = @ + 1, !.owes = o]
  <1>1. Command(k) /\ At(c, "write") /\ k.ask.decision \in C!Decision /\ k.base \in C!Policy
    BY DEF Typed, CommandTypes, Command, WritePolicy, Asking, At, Ask
  <1>2. policy' \in C!Policy /\ policy' = C!Apply(k.ask.decision, k.base)
        /\ policy'.revision = k.base.revision + 1
    BY <1>1, AppliedTyped DEF WritePolicy
  <1>3. s \in [Repo -> 0 .. 2]
    BY DEF Sweeps
  <1>4. o \subseteq Event
    BY QueuedTyped DEF Typed
  <1>5. To(c, n)
    BY DEF WritePolicy
  <1> HIDE DEF s, o
  <1>6. Command(n) /\ n.pc = "unlock" /\ n.revision = k.revision + 1
    BY <1>1, <1>3, <1>4 DEF Command, Asking, Idle, At
  <1> HIDE DEF n
  <1>7. /\ DOMAIN chooser' = Chooser /\ \A x \in Chooser : Command(chooser'[x])
        /\ chooser'[c] = n /\ Others(c)
    BY <1>5, <1>6, CommandGoes DEF Typed, CommandTypes, Others
  <1>8. lock' = lock /\ session' = session
    BY DEF WritePolicy
  <1>9. CommandTypes'
    BY <1>2, <1>7, <1>8 DEF Typed, CommandTypes
  <1>10. QED
    BY <1>1, <1>2, <1>6, <1>7, <1>8, <1>9 DEF Moves

LEMMA UnlockMoves ==
  ASSUME Typed, NEW c \in Chooser, Unlock(c)
  PROVE  /\ CommandTypes' /\ At(c, "unlock") /\ policy' = policy /\ lock' = None
         /\ Moves(c, "sweep") /\ chooser'[c].revision = chooser[c].revision
  <1> DEFINE r == [chooser[c] EXCEPT !.pc = "sweep"]
  <1>1. Command(chooser[c]) /\ At(c, "unlock") /\ lock' = None /\ policy' = policy /\ session' = session
    BY DEF Typed, CommandTypes, Unlock
  <1>2. Command(r) /\ r.pc = "sweep" /\ r.revision = chooser[c].revision
    BY <1>1 DEF Command, Asking, Idle, At
  <1>3. To(c, r)
    BY DEF Unlock
  <1> HIDE DEF r
  <1>4. /\ DOMAIN chooser' = Chooser /\ \A x \in Chooser : Command(chooser'[x])
        /\ chooser'[c] = r /\ Others(c)
    BY <1>2, <1>3, CommandGoes DEF Typed, CommandTypes, Others
  <1>5. QED
    BY <1>1, <1>2, <1>4 DEF Typed, CommandTypes, Moves

LEMMA SweepMoves ==
  ASSUME Typed, NEW c \in Chooser, Sweep(c)
  PROVE  /\ CommandTypes' /\ At(c, "sweep") /\ UNCHANGED Record /\ Others(c)
         /\ chooser'[c].pc \in {"idle", "toggle", "erase"}
         /\ chooser'[c].revision \in {chooser[c].revision, 0}
         /\ void' \subseteq Event
  <1> DEFINE k == chooser[c]
  <1>1. Command(k) /\ At(c, "sweep") /\ UNCHANGED <<Record, session>>
    BY DEF Typed, CommandTypes, Sweep
  <1>2. CASE void' = void \cup k.owes /\ Over(c, [k EXCEPT !.owes = {}])
    <2> DEFINE r == [k EXCEPT !.owes = {}]
    <2>1. Command(r) /\ r.act = k.act /\ r.pc = "sweep" /\ r.revision = k.revision
      BY <1>1 DEF Command, Asking, Idle, At
    <2>2. Over(c, r)
      BY <1>2
    <2> HIDE DEF r
    <2>3. /\ DOMAIN chooser' = Chooser /\ \A d \in Chooser : Command(chooser'[d])
          /\ chooser'[c].pc \in {"idle", "toggle"} /\ chooser'[c].revision \in {0, k.revision}
          /\ Others(c)
      BY <2>1, <2>2, OverTyped DEF Typed, CommandTypes, Others
    <2>4. CommandTypes'
      BY <1>1, <2>3 DEF Typed, CommandTypes, Record
    <2>5. void' \subseteq Event
      BY <1>1, <1>2 DEF Typed, QueueTypes, Command
    <2>6. QED
      BY <1>1, <2>3, <2>4, <2>5
  <1>3. ASSUME NEW r \in Repo, k.sweep[r] > 0, UNCHANGED void,
               To(c, [k EXCEPT !.pc = "erase", !.repo = r, !.names = Listed(r), !.sweep[r] = @ - 1])
        PROVE  CommandTypes' /\ Moves(c, "erase") /\ chooser'[c].revision = k.revision
               /\ void' \subseteq Event
    <2> DEFINE l == Listed(r)
               s == [k.sweep EXCEPT ![r] = @ - 1]
               n == [k EXCEPT !.pc = "erase", !.repo = r, !.names = l, !.sweep = s]
    <2>1. l \in Names
      BY QueuedTyped DEF Typed
    <2>2. s \in [Repo -> 0 .. 2]
      BY <1>1, <1>3 DEF Command
    <2>3. To(c, n)
      BY <1>3
    <2> HIDE DEF l, s
    <2>4. Command(n) /\ n.pc = "erase" /\ n.revision = k.revision
      BY <1>1, <2>1, <2>2 DEF Command, Asking, Idle, At
    <2> HIDE DEF n
    <2>5. QED
      BY <1>1, <1>3, <2>3, <2>4, RecordMoves DEF Typed, QueueTypes, Moves
  <1>4. QED
    BY <1>1, <1>2, <1>3 DEF Sweep, Moves

LEMMA SweepEraseMoves ==
  ASSUME Typed, NEW c \in Chooser, SweepErase(c)
  PROVE  /\ CommandTypes' /\ At(c, "erase") /\ Moves(c, "sweep")
         /\ chooser'[c].revision = chooser[c].revision
         /\ chooser[c].repo \in Repo /\ chooser[c].names \in Names
  <1> DEFINE r == [chooser[c] EXCEPT !.pc = "sweep", !.repo = None, !.names = None]
  <1>1. Command(chooser[c]) /\ At(c, "erase") /\ UNCHANGED <<Record, session>>
    BY DEF Typed, CommandTypes, SweepErase
  <1>2. Command(r) /\ r.pc = "sweep" /\ r.revision = chooser[c].revision
    BY <1>1 DEF Command, Asking, Idle, At
  <1>3. To(c, r)
    BY DEF SweepErase
  <1> HIDE DEF r
  <1>4. QED
    BY <1>1, <1>2, <1>3, RecordMoves DEF Moves, Command, At

LEMMA SignOutMoves ==
  ASSUME Typed, NEW c \in Chooser, SignOut(c)
  PROVE  /\ CommandTypes' /\ At(c, "idle") /\ Moves(c, "sweep") /\ UNCHANGED Record
         /\ chooser'[c].revision = 0
  <1> DEFINE o == UNION {Queued(r) : r \in Repo}
             s == [r \in Repo |-> 1]
             r == [Idle EXCEPT !.pc = "sweep", !.sweep = s, !.owes = o]
  <1>1. o \subseteq Event /\ s \in [Repo -> 0 .. 2]
    BY QueuedTyped DEF Typed
  <1>2. To(c, r)
    BY DEF SignOut
  <1> HIDE DEF o, s
  <1>3. Command(Idle) /\ Idle.pc = "idle" /\ Idle.revision = 0
    <2>1. Idle.pc = "idle" /\ Idle.revision = 0
      BY DEF Idle
    <2>2. QED
      BY <2>1, IdleTyped DEF Typed
  <1>4. Command(r) /\ r.pc = "sweep" /\ r.revision = 0
    BY <1>1, <1>3 DEF Command, Asking, Idle
  <1> HIDE DEF r
  <1>5. /\ DOMAIN chooser' = Chooser /\ \A x \in Chooser : Command(chooser'[x])
        /\ chooser'[c] = r /\ Others(c)
    BY <1>2, <1>4, CommandGoes DEF Typed, CommandTypes, Others
  <1>6. UNCHANGED Record /\ session' = 0 /\ At(c, "idle")
    BY DEF SignOut
  <1>7. QED
    BY <1>4, <1>5, <1>6 DEF Typed, CommandTypes, Record, Moves

LEMMA CrashMoves ==
  ASSUME Typed, NEW c \in Chooser, CrashChooser(c)
  PROVE  CommandTypes' /\ Moves(c, "idle") /\ UNCHANGED Record /\ chooser'[c].revision = 0
  <1>1. Command(Idle) /\ Idle.pc = "idle" /\ Idle.revision = 0
    <2>1. Idle.pc = "idle" /\ Idle.revision = 0
      BY DEF Idle
    <2>2. QED
      BY <2>1, IdleTyped DEF Typed
  <1>2. To(c, Idle) /\ UNCHANGED <<Record, session>>
    BY DEF CrashChooser
  <1>3. QED
    BY <1>1, <1>2, RecordMoves DEF Moves

-----------------------------------------------------------------------------
(* Decisions take turns.                                                     *)

\* A step that takes the lock from a command at work, or lets it be taken: it ages while
\* its holder is suspended, or a command that saw an old lock removes a newer one.
Evicts ==
  \/ LockAges /\ \E c \in Chooser : chooser[c].pc \in Critical
  \/ lock = "fresh" /\ \E c \in Chooser : RemoveLock(c)

\* Who is at work under the lock is so alone, and writes what it has just read; no command
\* has a revision of the future.
Holds(c) ==
  /\ chooser[c].pc \in Critical =>
       lock = "fresh" /\ \A d \in Chooser : chooser[d].pc \in Critical => d = c
  /\ chooser[c].pc = "write" =>
       chooser[c].base = policy /\ chooser[c].ask.expected \in {None, policy.revision}
  /\ chooser[c].revision <= policy.revision
Turns == \A c \in Chooser : Holds(c)

\* A command that neither is at work under the lock nor begins to leaves all as it was.
LEMMA AsideTurns ==
  ASSUME Typed, Turns, NEW c \in Chooser, Others(c), policy' = policy, lock' = lock,
         chooser'[c].pc \notin {"read", "write"},
         chooser'[c].pc = "unlock" => chooser[c].pc \in Critical,
         chooser'[c].revision \in {chooser[c].revision, policy.revision, 0}
  PROVE  Turns'
  <1>1. policy.revision \in Nat
    BY DEF Typed, CommandTypes, C!Policy
  <1>2. \A d \in Chooser : chooser'[d].pc \in Critical => chooser[d].pc \in Critical
    BY DEF Others, Critical
  <1>3. ASSUME NEW d \in Chooser
        PROVE  Holds(d)'
    BY <1>1, <1>2, <1>3 DEF Turns, Holds, Others, Critical
  <1>4. QED
    BY <1>3 DEF Turns

LEMMA UpdateTurns ==
  ASSUME Typed, Turns, NEW c \in Chooser, Update(c), ~ Evicts
  PROVE  Turns'
  <1>1. policy.revision \in Nat /\ Command(chooser[c])
    BY DEF Typed, CommandTypes, C!Policy
  <1>2. CASE OpenLock(c)
    <2>1. CASE lock = None /\ lock' = "fresh" /\ Moves(c, "read") /\ SameAsk(c) /\ policy' = policy
      <3>1. \A d \in Chooser : chooser[d].pc \notin Critical
        BY <2>1 DEF Turns, Holds, Typed, Constants
      <3>2. ASSUME NEW d \in Chooser
            PROVE  Holds(d)'
        BY <2>1, <3>1, <3>2 DEF Turns, Holds, Moves, Others, SameAsk, Critical
      <3>3. QED
        BY <3>2 DEF Turns
    <2>2. QED
      BY <1>2, <2>1, OpenLockMoves, AsideTurns DEF Moves, SameAsk, At
  <1>3. CASE RemoveLock(c)
    <2>1. lock # "fresh"
      BY <1>3 DEF Evicts
    <2>2. \A d \in Chooser : chooser[d].pc \notin Critical
      BY <2>1 DEF Turns, Holds
    <2>3. /\ policy' = policy /\ Moves(c, "open") /\ SameAsk(c)
      BY <1>3, RemoveLockMoves
    <2>4. ASSUME NEW d \in Chooser
          PROVE  Holds(d)'
      BY <2>2, <2>3, <2>4 DEF Turns, Holds, Moves, Others, SameAsk, Critical
    <2>5. QED
      BY <2>4 DEF Turns
  <1>4. CASE ReadPolicy(c)
    <2>1. /\ At(c, "read") /\ policy' = policy /\ lock' = lock /\ Others(c)
          /\ chooser'[c].revision = chooser[c].revision
          /\ \/ /\ chooser'[c].pc = "write" /\ chooser'[c].base = policy
                /\ chooser'[c].ask = chooser[c].ask
                /\ chooser[c].ask.expected \in {None, policy.revision}
             \/ chooser'[c].pc = "unlock"
      BY <1>4, ReadPolicyMoves
    <2>2. \A d \in Chooser : chooser'[d].pc \in Critical => chooser[d].pc \in Critical
      BY <2>1 DEF Others, Critical, At
    <2>3. ASSUME NEW d \in Chooser
          PROVE  Holds(d)'
      BY <2>1, <2>2, <2>3 DEF Turns, Holds, Others, Critical
    <2>4. QED
      BY <2>3 DEF Turns
  <1>5. CASE WritePolicy(c)
    <2>1. /\ At(c, "write") /\ lock' = lock /\ Moves(c, "unlock")
          /\ policy'.revision = chooser[c].base.revision + 1
          /\ chooser'[c].revision = chooser[c].revision + 1
      BY <1>5, WritePolicyMoves
    <2>2. chooser[c].base = policy /\ \A d \in Chooser : chooser[d].pc \in Critical => d = c
      BY <2>1 DEF Turns, Holds, At, Critical
    <2>3. ASSUME NEW d \in Chooser
          PROVE  chooser[d].revision \in Nat
      BY <2>3 DEF Typed, CommandTypes, Command
    <2>4. ASSUME NEW d \in Chooser
          PROVE  Holds(d)'
      BY <1>1, <2>1, <2>2, <2>3, <2>4 DEF Turns, Holds, Moves, Others, Critical, At
    <2>5. QED
      BY <2>4 DEF Turns
  <1>6. CASE Unlock(c)
    <2>1. /\ At(c, "unlock") /\ policy' = policy /\ Moves(c, "sweep")
          /\ chooser'[c].revision = chooser[c].revision
      BY <1>6, UnlockMoves
    <2>2. \A d \in Chooser : chooser[d].pc \in Critical => d = c
      BY <2>1 DEF Turns, Holds, At, Critical
    <2>3. ASSUME NEW d \in Chooser
          PROVE  Holds(d)'
      BY <2>1, <2>2, <2>3 DEF Turns, Holds, Moves, Others, Critical, At
    <2>4. QED
      BY <2>3 DEF Turns
  <1>7. CASE Sweep(c)
    BY <1>7, SweepMoves, AsideTurns DEF Record
  <1>8. CASE SweepErase(c)
    <2>1. UNCHANGED Record
      BY <1>8 DEF SweepErase
    <2>2. QED
      BY <1>8, <2>1, SweepEraseMoves, AsideTurns DEF Record, Moves
  <1>9. QED
    BY <1>2, <1>3, <1>4, <1>5, <1>6, <1>7, <1>8 DEF Update

LEMMA PickTurns ==
  ASSUME Typed, Turns, NEW c \in Chooser,
         Decide(c) \/ Pick(c) \/ SignOut(c) \/ CrashChooser(c)
  PROVE  Turns' /\ UNCHANGED Record
  <1>1. UNCHANGED Record
    BY DEF Decide, Pick, SignOut, CrashChooser, List, ListRevision, Select, Confirm, Toggle
  <1>2. CASE Decide(c)
    BY <1>1, <1>2, DecideMoves, AsideTurns DEF Record, Moves
  <1>3. CASE List(c)
    BY <1>1, <1>3, ListMoves, AsideTurns DEF Record, Moves
  <1>4. CASE ListRevision(c)
    BY <1>1, <1>4, ListRevisionMoves, AsideTurns DEF Record, Moves
  <1>5. CASE Select(c)
    BY <1>1, <1>5, SelectMoves, AsideTurns DEF Record, Moves
  <1>6. CASE Confirm(c)
    BY <1>1, <1>6, ConfirmMoves, AsideTurns DEF Record
  <1>7. CASE Toggle(c)
    BY <1>1, <1>7, ToggleMoves, AsideTurns DEF Record
  <1>8. CASE SignOut(c)
    BY <1>1, <1>8, SignOutMoves, AsideTurns DEF Record, Moves
  <1>9. CASE CrashChooser(c)
    BY <1>1, <1>9, CrashMoves, AsideTurns DEF Record, Moves
  <1>10. QED
    BY <1>1, <1>2, <1>3, <1>4, <1>5, <1>6, <1>7, <1>8, <1>9 DEF Pick

\* What is neither a command's step nor the ageing of the lock.
Elsewhere ==
  \/ SignIn \/ (\E h \in Hook : HookCheck(h) \/ HookAppend(h)) \/ (\E r \in Repo : Seal(r))
  \/ (\E d \in Drain : Work(d)) \/ \E m \in net : Answer(m)

LEMMA ElsewhereLeaves ==
  ASSUME Elsewhere
  PROVE  UNCHANGED <<Record, chooser>>
  <1>1. CASE SignIn \/ (\E h \in Hook : HookCheck(h) \/ HookAppend(h)) \/ (\E r \in Repo : Seal(r))
             \/ \E m \in net : Answer(m)
    BY <1>1 DEF SignIn, HookCheck, HookAppend, Seal, Answer
  <1>2. ASSUME NEW d \in Drain, Work(d)
        PROVE  UNCHANGED <<Record, chooser>>
    BY <1>2 DEF Work, DrainStart, DrainPurge, DrainClear, DrainErase, DrainList, Take, Recheck,
                DrainEnd
  <1>3. QED
    BY <1>1, <1>2 DEF Elsewhere

\* Every step keeps the turns, unless it takes the lock from a command at work.
LEMMA StepTurns ==
  ASSUME Typed, Turns, [Next]_vars, ~ Evicts
  PROVE  Turns'
  <1>1. CASE UNCHANGED <<Record, chooser>>
    <2>1. ASSUME NEW c \in Chooser
          PROVE  Holds(c)'
      BY <1>1, <2>1 DEF Turns, Holds, Record
    <2>2. QED
      BY <2>1 DEF Turns
  <1>2. CASE LockAges
    <2>1. \A c \in Chooser : chooser[c].pc \notin Critical
      BY <1>2 DEF Evicts
    <2>2. ASSUME NEW c \in Chooser
          PROVE  Holds(c)'
      BY <1>2, <2>1, <2>2 DEF Turns, Holds, LockAges, Critical
    <2>3. QED
      BY <2>2 DEF Turns
  <1>3. CASE \E c \in Chooser : Decide(c) \/ Pick(c) \/ Update(c) \/ SignOut(c) \/ CrashChooser(c)
    BY <1>3, UpdateTurns, PickTurns
  <1>4. CASE UNCHANGED vars
    BY <1>1, <1>4 DEF vars, Record
  <1>5. QED
    BY <1>1, <1>2, <1>3, <1>4, ElsewhereLeaves DEF Next, Elsewhere

-----------------------------------------------------------------------------
(* The refinement of ConsentDecisions.                                       *)

AskedBy(k) == IF k.pc \in Asking THEN k.ask ELSE None
Asks       == [c \in Chooser |-> AskedBy(chooser[c])]

\* The commands' questions are ConsentDecisions' variable.
LEMMA AsksAre ==
  /\ Asks = [c \in Chooser |-> IF chooser[c].pc \in {"open", "remove", "read", "write"}
                              THEN chooser[c].ask ELSE None]
  /\ Asks' = [c \in Chooser |-> IF chooser'[c].pc \in {"open", "remove", "read", "write"}
                               THEN chooser'[c].ask ELSE None]
  BY DEF Asks, AskedBy, Asking

LEMMA AskChanges ==
  ASSUME NEW c \in Chooser, Others(c)
  PROVE  Asks' = [Asks EXCEPT ![c] = AskedBy(chooser'[c])]
  BY DEF Asks, Others

LEMMA AskStays ==
  ASSUME NEW c \in Chooser, Others(c), AskedBy(chooser'[c]) = AskedBy(chooser[c])
  PROVE  Asks' = Asks
  BY DEF Asks, Others

\* A command asks.
LEMMA AskIsChosen ==
  ASSUME Typed, CommandTypes', NEW c \in Chooser, Others(c), policy' = policy,
         chooser[c].pc \notin Asking, chooser'[c].pc = "open",
         chooser'[c].ask.expected \in (0 .. policy.revision) \cup {None}
  PROVE  C!Choose(c)
  <1>1. chooser'[c].ask \in Ask
    BY DEF CommandTypes, Command, Asking
  <1> DEFINE d == chooser'[c].ask.decision
             e == chooser'[c].ask.expected
  <1>2. chooser'[c].ask = [decision |-> d, expected |-> e] /\ d \in C!Decision
    BY <1>1 DEF Ask
  <1>3. Asks' = [Asks EXCEPT ![c] = [decision |-> d, expected |-> e]]
    BY <1>2, AskChanges DEF AskedBy, Asking
  <1>4. Asks[c] = None
    BY DEF Asks, AskedBy
  <1> HIDE DEF d, e
  <1>5. QED
    BY <1>2, <1>3, <1>4, AsksAre DEF C!Choose, d, e

\* A command gives its question up.
LEMMA AskIsDropped ==
  ASSUME Typed, NEW c \in Chooser, Others(c), policy' = policy, chooser[c].pc \in Asking,
         chooser'[c].pc \notin Asking
  PROVE  C!Drop(c)
  <1>1. chooser[c].ask \in Ask
    BY DEF Typed, CommandTypes, Command
  <1>2. Asks[c] # None
    BY <1>1 DEF Asks, AskedBy, Typed, Constants
  <1>3. Asks' = [Asks EXCEPT ![c] = None]
    BY AskChanges DEF AskedBy
  <1>4. QED
    BY <1>2, <1>3, AsksAre DEF C!Drop

\* A command writes what it has asked for into the record as it is.
LEMMA AskIsDecided ==
  ASSUME Typed, Turns, NEW c \in Chooser, WritePolicy(c)
  PROVE  C!Decide(c)
  <1>1. /\ At(c, "write") /\ Moves(c, "unlock")
        /\ policy' = C!Apply(chooser[c].ask.decision, chooser[c].base)
    BY WritePolicyMoves
  <1>2. chooser[c].base = policy /\ chooser[c].ask.expected \in {None, policy.revision}
    BY <1>1 DEF Turns, Holds, At
  <1>3. chooser[c].ask \in Ask
    BY <1>1 DEF Typed, CommandTypes, Command, Asking, At
  <1>4. Asks[c] = chooser[c].ask /\ Asks[c] # None
    BY <1>1, <1>3 DEF Asks, AskedBy, Asking, At, Typed, Constants
  <1>5. Asks' = [Asks EXCEPT ![c] = None]
    BY <1>1, AskChanges DEF AskedBy, Asking, Moves
  <1>6. /\ Asks[c].expected \in {None, policy.revision}
        /\ policy' = C!Apply(Asks[c].decision, policy)
    BY <1>1, <1>2, <1>4
  <1>7. QED
    BY <1>4, <1>5, <1>6, AsksAre DEF C!Decide

Unasked == UNCHANGED <<policy, Asks>>

LEMMA UpdateRefines ==
  ASSUME Typed, Turns, NEW c \in Chooser, Update(c)
  PROVE  C!Decide(c) \/ C!Drop(c) \/ Unasked
  <1>1. CASE OpenLock(c)
    <2>1. CASE (Moves(c, "read") \/ Moves(c, "remove")) /\ SameAsk(c) /\ policy' = policy /\ At(c, "open")
      BY <2>1, AskStays DEF Moves, SameAsk, AskedBy, Asking, At, Unasked
    <2>2. CASE Others(c) /\ chooser'[c].pc \in {"idle", "toggle"} /\ policy' = policy /\ At(c, "open")
      BY <2>2, AskIsDropped DEF Asking, At
    <2>3. QED
      BY <1>1, <2>1, <2>2, OpenLockMoves
  <1>2. CASE RemoveLock(c)
    BY <1>2, RemoveLockMoves, AskStays DEF Moves, SameAsk, AskedBy, Asking, At, Unasked
  <1>3. CASE ReadPolicy(c)
    <2>1. /\ At(c, "read") /\ policy' = policy /\ Others(c)
          /\ \/ chooser'[c].pc = "write" /\ chooser'[c].ask = chooser[c].ask
             \/ chooser'[c].pc = "unlock"
      BY <1>3, ReadPolicyMoves
    <2>2. CASE chooser'[c].pc = "write" /\ chooser'[c].ask = chooser[c].ask
      BY <2>1, <2>2, AskStays DEF AskedBy, Asking, At, Unasked
    <2>3. CASE chooser'[c].pc = "unlock"
      BY <2>1, <2>3, AskIsDropped DEF Asking, At
    <2>4. QED
      BY <2>1, <2>2, <2>3
  <1>4. CASE WritePolicy(c)
    BY <1>4, AskIsDecided
  <1>5. CASE Unlock(c) \/ Sweep(c) \/ SweepErase(c)
    <2>1. policy' = policy
      BY <1>5 DEF Unlock, Sweep, SweepErase, Record
    <2>2. Others(c) /\ chooser[c].pc \notin Asking /\ chooser'[c].pc \notin Asking
      BY <1>5, UnlockMoves, SweepMoves, SweepEraseMoves DEF Moves, At, Asking
    <2>3. QED
      BY <2>1, <2>2, AskStays DEF AskedBy, Unasked
  <1>6. QED
    BY <1>1, <1>2, <1>3, <1>4, <1>5 DEF Update

LEMMA PickRefines ==
  ASSUME Typed, Turns, NEW c \in Chooser,
         Decide(c) \/ Pick(c) \/ SignOut(c) \/ CrashChooser(c)
  PROVE  C!Choose(c) \/ C!Drop(c) \/ Unasked
  <1>1. policy' = policy /\ policy.revision \in Nat
    BY PickTurns DEF Record, Typed, CommandTypes, C!Policy
  <1>2. CASE Decide(c)
    <2>1. policy.revision \in 0 .. policy.revision
      BY <1>1
    <2>2. QED
      BY <1>1, <1>2, <2>1, DecideMoves, AskIsChosen DEF Moves, At, Asking
  <1>3. CASE Toggle(c) /\ chooser'[c].pc = "open"
    <2>1. chooser[c].revision \in 0 .. policy.revision
      BY <1>1 DEF Typed, CommandTypes, Command, Turns, Holds
    <2>2. QED
      BY <1>1, <1>3, <2>1, ToggleMoves, AskIsChosen DEF At, Asking
  <1>4. CASE CrashChooser(c) /\ chooser[c].pc \in Asking
    BY <1>1, <1>4, CrashMoves, AskIsDropped DEF Moves, Asking
  <1>5. CASE \/ Toggle(c) /\ chooser'[c].pc # "open"
             \/ CrashChooser(c) /\ chooser[c].pc \notin Asking
             \/ List(c) \/ ListRevision(c) \/ Select(c) \/ Confirm(c) \/ SignOut(c)
    <2>1. Others(c) /\ chooser[c].pc \notin Asking /\ chooser'[c].pc \notin Asking
      BY <1>5, ToggleMoves, CrashMoves, ListMoves, ListRevisionMoves, SelectMoves, ConfirmMoves,
         SignOutMoves DEF Moves, At, Asking
    <2>2. QED
      BY <1>1, <2>1, AskStays DEF AskedBy, Unasked
  <1>6. QED
    BY <1>2, <1>3, <1>4, <1>5 DEF Pick

\* Every step is a step of ConsentDecisions or leaves decisions and questions as they are.
LEMMA StepRefines ==
  ASSUME Typed, Turns, [Next]_vars
  PROVE  C!Next \/ Unasked
  <1>1. CASE UNCHANGED <<Record, chooser>> \/ LockAges
    BY <1>1 DEF Unasked, Asks, Record, LockAges
  <1>2. CASE \E c \in Chooser : Decide(c) \/ Pick(c) \/ Update(c) \/ SignOut(c) \/ CrashChooser(c)
    BY <1>2, UpdateRefines, PickRefines DEF C!Next
  <1>3. CASE UNCHANGED vars
    BY <1>1, <1>3 DEF vars, Record
  <1>4. QED
    BY <1>1, <1>2, <1>3, ElsewhereLeaves DEF Next, Elsewhere

-----------------------------------------------------------------------------
(* Type correctness of the queues, hooks and drains.                         *)

\* What removing a queue by name leaves.
LEMMA EraseTyped ==
  ASSUME QueueTypes, NEW r \in Repo, NEW names \in Names, Erase(r, names), UNCHANGED <<void, off>>
  PROVE  QueueTypes'
  <1>1. log' \in [Repo -> SUBSET Event]
    BY DEF Erase, QueueTypes
  <1>2. sealed' \in [Repo -> SUBSET (SUBSET Event)]
    BY DEF Erase, QueueTypes
  <1>3. deleted' \subseteq Event
    BY QueuedTyped DEF Erase, QueueTypes
  <1>4. QED
    BY <1>1, <1>2, <1>3 DEF QueueTypes

LEMMA CommandStepTyped ==
  ASSUME Typed, NEW c \in Chooser,
         Decide(c) \/ Pick(c) \/ Update(c) \/ SignOut(c) \/ CrashChooser(c)
  PROVE  CommandTypes' /\ QueueTypes'
  <1>1. CommandTypes'
    BY DecideMoves, ListMoves, ListRevisionMoves, SelectMoves, ConfirmMoves, ToggleMoves,
       OpenLockMoves, RemoveLockMoves, ReadPolicyMoves, WritePolicyMoves, UnlockMoves, SweepMoves,
       SweepEraseMoves, SignOutMoves, CrashMoves DEF Pick, Update
  <1>2. CASE UNCHANGED <<Queue, void, off>>
    BY <1>1, <1>2 DEF Typed, QueueTypes, Queue
  <1>3. CASE WritePolicy(c)
    <2>1. UNCHANGED <<Queue, void>>
          /\ off' = off \cup UNION {Queued(r) : r \in {x \in Repo : ~ Granted(policy', x)}}
      BY <1>3 DEF WritePolicy
    <2>2. off' \subseteq Event
      BY <2>1, QueuedTyped DEF Typed, QueueTypes
    <2>3. QED
      BY <1>1, <2>1, <2>2 DEF Typed, QueueTypes, Queue
  <1>4. CASE SignOut(c)
    <2>1. UNCHANGED <<Queue, void>> /\ off' = off \cup UNION {Queued(r) : r \in Repo}
      BY <1>4 DEF SignOut
    <2>2. off' \subseteq Event
      BY <2>1, QueuedTyped DEF Typed, QueueTypes
    <2>3. QED
      BY <1>1, <2>1, <2>2 DEF Typed, QueueTypes, Queue
  <1>5. CASE Sweep(c)
    <2>1. UNCHANGED <<Queue, off>> /\ void' \subseteq Event
      BY <1>5, SweepMoves DEF Sweep
    <2>2. QED
      BY <1>1, <2>1 DEF Typed, QueueTypes, Queue
  <1>6. CASE SweepErase(c)
    BY <1>1, <1>6, SweepEraseMoves, EraseTyped DEF SweepErase, Typed
  <1>7. QED
    BY <1>1, <1>2, <1>3, <1>4, <1>5, <1>6
       DEF Decide, Pick, List, ListRevision, Select, Confirm, Toggle, Update, OpenLock, RemoveLock,
           ReadPolicy, Unlock, CrashChooser

\* A command spends no bound on recording, and no hook or drain moves.
LEMMA CommandStepCounted ==
  ASSUME EventsCounted, SenderTypes, NEW c \in Chooser,
         Decide(c) \/ Pick(c) \/ Update(c) \/ SignOut(c) \/ CrashChooser(c)
  PROVE  EventsCounted' /\ SenderTypes'
  <1>1. UNCHANGED <<hook, Senders, under>>
        /\ (NoFault \/ \E k \in {"decisions", "lists", "busy", "signouts", "crashes"} : Spend(k))
    BY DEF Decide, Pick, List, ListRevision, Select, Confirm, Toggle, Update, OpenLock, RemoveLock,
           ReadPolicy, WritePolicy, Unlock, Sweep, SweepErase, SignOut, CrashChooser
  <1>2. EventsCounted'
    BY <1>1, NothingRecorded DEF Bounds
  <1>3. SenderTypes'
    BY <1>1 DEF SenderTypes, Senders
  <1>4. QED
    BY <1>2, <1>3

\* Hooks record no more events than there are.
LEMMA HookCheckTyped ==
  ASSUME Types, NEW h \in Hook, HookCheck(h)
  PROVE  EventsCounted'
  <1>1. PICK r \in Repo : hook' = [hook EXCEPT ![h] = [pc |-> "append", repo |-> r, session |-> session]]
    BY DEF HookCheck
  <1>2. hook[h].pc = "idle" /\ Spend("events") /\ under' = under /\ session \in Nat
    BY DEF HookCheck, Types, CommandTypes
  <1>3. PICK n \in Nat : DOMAIN under = 1 .. n
                          /\ n + Cardinality(Appending) + left["events"] = Limits["events"]
    BY DEF Types, EventsCounted
  <1>4. hook' \in [Hook -> HookSet] /\ \A x \in Hook : hook'[x].pc = "append" => hook'[x].repo \in Repo
    BY <1>1, <1>2 DEF Types, EventsCounted, HookSet
  <1>5. Appending' = Appending \cup {h} /\ h \notin Appending
    BY <1>1, <1>2 DEF Appending, Types, EventsCounted, HookSet
  <1>6. IsFiniteSet(Appending') /\ Cardinality(Appending') = Cardinality(Appending) + 1
        /\ Cardinality(Appending) \in Nat
    BY <1>5, FS_AddElement, FS_CardinalityType DEF Types, EventsCounted
  <1>7. left' \in [Bounds -> Nat] /\ \A b \in Bounds : left'[b] <= Limits[b]
    BY <1>2, BoundsTyped DEF Types, EventsCounted, Bounds
  <1>8. left'["events"] = left["events"] - 1 /\ left["events"] \in Nat /\ left["events"] > 0
    BY <1>2 DEF Spend, Types, EventsCounted, Bounds
  <1>9. n + Cardinality(Appending') + left'["events"] = Limits["events"]
    BY <1>3, <1>6, <1>8
  <1>10. QED
    BY <1>2, <1>3, <1>4, <1>6, <1>7, <1>9 DEF EventsCounted

LEMMA HookAppendTyped ==
  ASSUME Types, NEW h \in Hook, HookAppend(h)
  PROVE  EventsCounted' /\ QueueTypes'
  <1>1. hook[h].pc = "append" /\ hook' = [hook EXCEPT ![h] = IdleHook] /\ left' = left
        /\ hook[h].repo \in Repo /\ UNCHANGED <<sealed, deleted, void>>
    BY DEF HookAppend, Types, EventsCounted, NoFault
  <1>2. PICK n \in Nat : DOMAIN under = 1 .. n
                          /\ n + Cardinality(Appending) + left["events"] = Limits["events"]
    BY DEF Types, EventsCounted
  <1>3. Cardinality(DOMAIN under) = n
    BY <1>2, FS_Interval
  <1> DEFINE e == Cardinality(DOMAIN under) + 1
  <1>4. hook' \in [Hook -> HookSet] /\ \A x \in Hook : hook'[x].pc = "append" => hook'[x].repo \in Repo
    BY <1>1 DEF Types, EventsCounted, HookSet, IdleHook
  <1>5. Appending' = Appending \ {h} /\ h \in Appending
    BY <1>1 DEF Appending, Types, EventsCounted, HookSet, IdleHook
  <1>6. IsFiniteSet(Appending') /\ Cardinality(Appending') = Cardinality(Appending) - 1
        /\ Cardinality(Appending) \in Nat /\ Cardinality(Appending') \in Nat
    BY <1>5, FS_RemoveElement, FS_CardinalityType DEF Types, EventsCounted
  <1>7. left["events"] \in Nat /\ Limits["events"] \in Nat
    BY LimitsAssumption DEF Types, EventsCounted, Bounds
  <1>8. n + 1 \in Event /\ e = n + 1
    BY <1>2, <1>3, <1>6, <1>7 DEF Event
  <1>9. DOMAIN under' = 1 .. n + 1
    BY <1>8 DEF HookAppend
  <1>10. (n + 1) + Cardinality(Appending') + left'["events"] = Limits["events"]
    BY <1>1, <1>2, <1>6, <1>7
  <1>11. EventsCounted'
    BY <1>1, <1>4, <1>6, <1>9, <1>10 DEF EventsCounted, Types
  <1>12. log' = [log EXCEPT ![hook[h].repo] = @ \cup {e}] /\ off' \subseteq off \cup {e}
    BY DEF HookAppend
  <1>13. QueueTypes'
    BY <1>1, <1>8, <1>12 DEF Types, QueueTypes
  <1>14. QED
    BY <1>11, <1>13

\* A drain goes to a new record.
LEMMA DrainGoes ==
  ASSUME SenderTypes, NEW d \in Drain, NEW r, Sender(r), ToDrain(d, r), UNCHANGED sent,
         net' \subseteq Request
  PROVE  SenderTypes'
  <1>1. DOMAIN drain' = Drain /\ drain'[d] = r /\ \A x \in Drain \ {d} : drain'[x] = drain[x]
    BY DEF ToDrain, SenderTypes
  <1>2. \A x \in Drain : Sender(drain'[x])
    BY <1>1 DEF SenderTypes
  <1>3. QED
    BY <1>1, <1>2 DEF SenderTypes

LEMMA IdleDrainTyped == Sender(IdleDrain)
  BY DEF Sender, IdleDrain

LEMMA WorkTyped ==
  ASSUME Types, NEW d \in Drain, Work(d)
  PROVE  SenderTypes' /\ QueueTypes'
  <1> DEFINE k == drain[d]
  <1>1. Sender(k) /\ net \subseteq Request /\ SenderTypes /\ QueueTypes /\ session \in Nat
    BY DEF Types, SenderTypes, CommandTypes
  <1>2. CASE DrainStart(d)
    <2> DEFINE n == [IdleDrain EXCEPT !.pc = "purge", !.repos = Repo]
    <2>1. Sender(n)
      BY IdleDrainTyped DEF Sender, IdleDrain
    <2>2. ToDrain(d, n) /\ UNCHANGED <<Queue, net, sent, void, off>>
      BY <1>2 DEF DrainStart
    <2> HIDE DEF n
    <2>3. QED
      BY <1>1, <2>1, <2>2, DrainGoes DEF QueueTypes, Queue
  <1>3. CASE DrainPurge(d)
    <2>1. PICK r \in k.repos :
            ToDrain(d, IF Disposition(r) = "delete"
                       THEN [k EXCEPT !.pc = "clear", !.back = "purge", !.sweep = 1,
                               !.repos = @ \ {r}, !.repo = r]
                       ELSE [k EXCEPT !.repos = @ \ {r}])
      BY <1>3 DEF DrainPurge
    <2> DEFINE n == [k EXCEPT !.pc = "clear", !.back = "purge", !.sweep = 1,
                       !.repos = @ \ {r}, !.repo = r]
               m == [k EXCEPT !.repos = @ \ {r}]
    <2>2. k.pc = "purge" /\ UNCHANGED <<Queue, net, sent, void, off>>
      BY <1>3 DEF DrainPurge, DrainAt
    <2>3. Sender(n) /\ Sender(m)
      BY <1>1, <2>2 DEF Sender, IdleDrain
    <2>4. ToDrain(d, n) \/ ToDrain(d, m)
      BY <2>1
    <2> HIDE DEF n, m
    <2>5. QED
      BY <1>1, <2>2, <2>3, <2>4, DrainGoes DEF QueueTypes, Queue
  <1>4. CASE DrainClear(d)
    <2> DEFINE n == [k EXCEPT !.pc = k.back, !.back = None, !.repo = None]
               l == Listed(k.repo)
               m == [k EXCEPT !.pc = "erase", !.sweep = @ - 1, !.names = l]
    <2>1. k.pc = "clear" /\ UNCHANGED <<Queue, net, sent, void, off>>
      BY <1>4 DEF DrainClear, DrainAt
    <2>2. l \in Names
      BY <1>1, <2>1, QueuedTyped DEF Sender
    <2>3. (k.sweep = 0 /\ ToDrain(d, n)) \/ (k.sweep # 0 /\ ToDrain(d, m))
      BY <1>4 DEF DrainClear
    <2> HIDE DEF l
    <2>4. Sender(n)
      BY <1>1, <2>1 DEF Sender, IdleDrain
    <2>5. k.sweep # 0 => Sender(m)
      BY <1>1, <2>1, <2>2 DEF Sender, IdleDrain
    <2> HIDE DEF n, m
    <2>6. QED
      BY <1>1, <2>1, <2>3, <2>4, <2>5, DrainGoes DEF QueueTypes, Queue
  <1>5. CASE DrainErase(d)
    <2> DEFINE n == [k EXCEPT !.pc = "clear", !.names = None]
    <2>1. k.pc = "erase" /\ ToDrain(d, n) /\ Erase(k.repo, k.names) /\ UNCHANGED <<net, sent, void, off>>
      BY <1>5 DEF DrainErase, DrainAt
    <2>2. Sender(n)
      BY <1>1, <2>1 DEF Sender, IdleDrain
    <2> HIDE DEF n
    <2>3. SenderTypes'
      BY <1>1, <2>1, <2>2, DrainGoes
    <2>4. QueueTypes'
      BY <1>1, <2>1, EraseTyped DEF Sender
    <2>5. QED
      BY <2>3, <2>4
  <1>6. CASE DrainList(d)
    <2> DEFINE t == UNION {{r} \X sealed[r] : r \in Repo}
               n == [k EXCEPT !.pc = "next", !.todo = t]
    <2>1. k.pc = "purge" /\ UNCHANGED <<Queue, net, sent, void, off>>
          /\ (ToDrain(d, IdleDrain) \/ ToDrain(d, n))
      BY <1>6 DEF DrainList, DrainAt
    <2>2. t \subseteq Repo \X SUBSET Event
      BY <1>1 DEF QueueTypes
    <2> HIDE DEF t
    <2>3. Sender(n)
      BY <1>1, <2>1, <2>2 DEF Sender, IdleDrain
    <2> HIDE DEF n
    <2>4. QED
      BY <1>1, <2>1, <2>3, IdleDrainTyped, DrainGoes DEF QueueTypes, Queue
  <1>7. CASE Take(d)
    <2>1. PICK f \in k.todo :
            LET r == f[1]
                j == [k EXCEPT !.todo = @ \ {f}]
            IN  ToDrain(d,
                  CASE f[2] \notin sealed[r]       -> j
                    [] Disposition(r) = "delete"   ->
                         [j EXCEPT !.pc = "clear", !.back = "next", !.sweep = 2, !.repo = r]
                    [] ~ Allowed(r)                -> j
                    [] OTHER                       ->
                         [j EXCEPT !.pc = "recheck", !.repo = r, !.batch = f[2], !.session = session])
      BY <1>7 DEF Take
    <2> DEFINE j == [k EXCEPT !.todo = @ \ {f}]
               m == [j EXCEPT !.pc = "clear", !.back = "next", !.sweep = 2, !.repo = f[1]]
               n == [j EXCEPT !.pc = "recheck", !.repo = f[1], !.batch = f[2], !.session = session]
    <2>2. k.pc = "next" /\ UNCHANGED <<Queue, net, sent, void, off>>
      BY <1>7 DEF Take, DrainAt
    <2>3. f[1] \in Repo /\ f[2] \in SUBSET Event
      BY <1>1 DEF Sender
    <2>4. Sender(j) /\ j.pc = "next"
      BY <1>1, <2>2 DEF Sender, IdleDrain
    <2>5. ToDrain(d, j) \/ ToDrain(d, m) \/ ToDrain(d, n)
      BY <2>1
    <2> HIDE DEF j
    <2>6. Sender(m) /\ Sender(n)
      BY <1>1, <2>3, <2>4 DEF Sender, IdleDrain
    <2> HIDE DEF m, n
    <2>7. QED
      BY <1>1, <2>2, <2>4, <2>5, <2>6, DrainGoes DEF QueueTypes, Queue
  <1>8. CASE Recheck(d)
    <2> DEFINE n == [k EXCEPT !.pc = "next", !.repo = None, !.batch = None, !.session = 0]
    <2>1. k.pc = "recheck" /\ ToDrain(d, n) /\ UNCHANGED <<Queue, sent, void, off>>
      BY <1>8 DEF Recheck, DrainAt
    <2>2. [by |-> d, repo |-> k.repo, batch |-> k.batch, session |-> k.session] \in Request
      BY <1>1, <2>1 DEF Sender, Request
    <2>3. net' \subseteq Request
      BY <1>1, <1>8, <2>2 DEF Recheck
    <2>4. Sender(n)
      BY <1>1, <2>1 DEF Sender, IdleDrain
    <2> HIDE DEF n
    <2>5. QED
      BY <1>1, <2>1, <2>3, <2>4, DrainGoes DEF QueueTypes, Queue
  <1>9. CASE DrainEnd(d)
    <2>1. ToDrain(d, IdleDrain) /\ UNCHANGED <<Queue, net, sent, void, off>>
      BY <1>9 DEF DrainEnd
    <2>2. QED
      BY <1>1, <2>1, IdleDrainTyped, DrainGoes DEF QueueTypes, Queue
  <1>10. QED
    BY <1>2, <1>3, <1>4, <1>5, <1>6, <1>7, <1>8, <1>9 DEF Work

LEMMA AnswerTyped ==
  ASSUME Types, NEW m \in net, Answer(m)
  PROVE  SenderTypes' /\ QueueTypes' /\ EventsCounted'
  <1>1. m \in Request /\ m.repo \in Repo /\ m.batch \subseteq Event /\ m.session \in Nat
    BY DEF Types, SenderTypes, Request
  <1>2. {[event |-> e, session |-> m.session] : e \in m.batch} \subseteq [event : Event, session : Nat]
    BY <1>1
  <1>3. sent' \subseteq [event : Event, session : Nat]
    BY <1>2 DEF Answer, Types, SenderTypes
  <1>4. SenderTypes'
    BY <1>3 DEF Answer, Types, SenderTypes
  <1>5. sealed' \in [Repo -> SUBSET (SUBSET Event)]
    BY <1>1 DEF Answer, Types, QueueTypes
  <1>6. QueueTypes'
    BY <1>5 DEF Answer, Types, QueueTypes
  <1>7. EventsCounted'
    BY NothingRecorded DEF Answer, Types, Bounds
  <1>8. QED
    BY <1>4, <1>6, <1>7

-----------------------------------------------------------------------------

LEMMA TypesStep ==
  ASSUME Types, [Next]_vars
  PROVE  Types'
  <1>1. Typed /\ Constants' /\ EventsCounted /\ SenderTypes
    BY DEF Types, Typed, Constants, Ask, Names
  <1>2. CASE \E c \in Chooser : Decide(c) \/ Pick(c) \/ Update(c) \/ SignOut(c) \/ CrashChooser(c)
    BY <1>1, <1>2, CommandStepTyped, CommandStepCounted DEF Types
  <1>3. CASE SignIn
    <2>0. left["signins"] \in Nat /\ Limits["signins"] \in Nat /\ left["signins"] <= Limits["signins"]
      BY <1>1, LimitsAssumption DEF EventsCounted, Bounds
    <2>1. session' \in Nat
      BY <1>3, <2>0 DEF SignIn
    <2>2. EventsCounted'
      BY <1>1, <1>3, NothingRecorded DEF SignIn, Bounds
    <2>3. QED
      BY <1>1, <1>3, <2>1, <2>2
         DEF SignIn, Types, CommandTypes, QueueTypes, SenderTypes, Record, Queue, Senders
  <1>4. CASE LockAges
    <2>1. EventsCounted'
      BY <1>1, <1>4, NothingRecorded DEF LockAges, Bounds
    <2>2. QED
      BY <1>1, <1>4, <2>1
         DEF LockAges, Types, CommandTypes, QueueTypes, SenderTypes, Queue, Senders
  <1>5. ASSUME NEW h \in Hook, HookCheck(h)
        PROVE  Types'
    BY <1>1, <1>5, HookCheckTyped
       DEF HookCheck, Types, CommandTypes, QueueTypes, SenderTypes, Record, Queue, Senders
  <1>6. ASSUME NEW h \in Hook, HookAppend(h)
        PROVE  Types'
    BY <1>1, <1>6, HookAppendTyped DEF HookAppend, Types, CommandTypes, SenderTypes, Record, Senders
  <1>7. ASSUME NEW r \in Repo, Seal(r)
        PROVE  Types'
    <2>1. EventsCounted'
      BY <1>1, <1>7, NothingRecorded DEF Seal, Bounds
    <2>2. log' \in [Repo -> SUBSET Event] /\ sealed' \in [Repo -> SUBSET (SUBSET Event)]
      BY <1>1, <1>7 DEF Seal, Types, QueueTypes
    <2>3. QED
      BY <1>1, <1>7, <2>1, <2>2 DEF Seal, Types, CommandTypes, QueueTypes, SenderTypes, Record, Senders
  <1>8. ASSUME NEW d \in Drain, Work(d)
        PROVE  Types'
    <2>1. UNCHANGED <<Record, session, chooser, hook, under>> /\ NoFault
      BY <1>8 DEF Work, DrainStart, DrainPurge, DrainClear, DrainErase, DrainList, Take, Recheck,
                  DrainEnd
    <2>2. EventsCounted'
      BY <1>1, <2>1, NothingRecorded
    <2>3. QED
      BY <1>1, <1>8, <2>1, <2>2, WorkTyped DEF Types, CommandTypes, Record
  <1>9. ASSUME NEW m \in net, Answer(m)
        PROVE  Types'
    BY <1>1, <1>9, AnswerTyped DEF Answer, Types, CommandTypes, Record
  <1>10. CASE UNCHANGED vars
    <2>1. EventsCounted'
      BY <1>1, <1>10, NothingRecorded DEF vars, NoFault
    <2>2. QED
      BY <1>1, <1>10, <2>1
         DEF vars, Types, CommandTypes, QueueTypes, SenderTypes, Record, Queue, Senders
  <1>11. QED
    BY <1>2, <1>3, <1>4, <1>5, <1>6, <1>7, <1>8, <1>9, <1>10 DEF Next

LEMMA InitTypes ==
  ASSUME Constants, Init
  PROVE  Types
  <1>1. policy \in C!Policy
    BY DEF Init, C!Init, C!Policy, C!Settings
  <1>2. CommandTypes
    BY <1>1, IdleTyped DEF Init, CommandTypes
  <1>3. QueueTypes
    BY DEF Init, QueueTypes
  <1>4. SenderTypes
    BY IdleDrainTyped DEF Init, SenderTypes
  <1>5. EventsCounted
    <2>1. hook \in [Hook -> HookSet] /\ \A h \in Hook : hook[h].pc # "append"
      BY DEF Init, IdleHook, HookSet
    <2>2. Appending = {}
      BY <2>1 DEF Appending
    <2>3. IsFiniteSet(Appending) /\ Cardinality(Appending) = 0
      BY <2>2, FS_EmptySet
    <2>4. Limits["events"] \in Nat /\ left = Limits
      BY LimitsAssumption DEF Init, Bounds
    <2>5. \A b \in Bounds : left[b] <= Limits[b]
      BY <2>4, LimitsAssumption
    <2>6. DOMAIN under = 1 .. 0
      BY DEF Init
    <2>7. QED
      BY <2>1, <2>3, <2>4, <2>5, <2>6, LimitsAssumption DEF EventsCounted
  <1>6. QED
    BY <1>2, <1>3, <1>4, <1>5 DEF Types

LEMMA InitTurns ==
  ASSUME Init
  PROVE  Turns
  <1>1. policy.revision = 1
    BY DEF Init, C!Init
  <1>2. \A c \in Chooser : chooser[c].pc = "idle" /\ chooser[c].revision = 0
    BY DEF Init, Idle
  <1>3. QED
    BY <1>1, <1>2 DEF Turns, Holds, Critical

LEMMA TypesImply ==
  ASSUME Types
  PROVE  TypeOK
  <1>1. ASSUME NEW c \in Chooser
        PROVE  LET k == chooser[c] IN
               /\ k.pc \in {"idle", "listing", "shown", "confirm", "toggle", "sweep", "erase"}
                            \cup {"open", "remove", "read", "write", "unlock"}
               /\ k.pc \in {"open", "remove", "read", "write", "unlock"} =>
                    k.ask.decision \in C!Decision /\ k.ask.expected \in Nat \cup {None}
               /\ k.sweep \in [Repo -> 0 .. 2] /\ k.repo \in Repo \cup {None}
               /\ (k.pc = "erase") = (k.names # None)
    <2>1. Command(chooser[c])
      BY <1>1 DEF Types, CommandTypes
    <2>2. chooser[c].pc \in Asking \cup {"unlock"} =>
            chooser[c].ask.decision \in C!Decision /\ chooser[c].ask.expected \in Nat \cup {None}
      BY <2>1 DEF Command, Ask
    <2>3. (chooser[c].pc = "erase") <=> (chooser[c].names # None)
      BY <2>1 DEF Command, Types, Constants
    <2>4. QED
      BY <2>1, <2>2, <2>3 DEF Command, Asking
  <1>2. ASSUME NEW d \in Drain
        PROVE  drain[d].pc \in {"idle", "purge", "clear", "erase", "next", "recheck"}
               /\ drain[d].sweep \in 0 .. 2 /\ drain[d].repo \in Repo \cup {None}
    BY <1>2 DEF Types, SenderTypes, Sender
  <1>3. void \cup off \cup deleted \subseteq Event /\ left \in [Bounds -> Nat]
        /\ log \in [Repo -> SUBSET Event] /\ \A r \in Repo : sealed[r] \subseteq SUBSET Event
    BY DEF Types, QueueTypes, EventsCounted
  <1>4. QED
    BY <1>1, <1>2, <1>3 DEF Types, CommandTypes, SenderTypes, TypeOK

-----------------------------------------------------------------------------
(* The theorems.                                                             *)

\* Types, and the bound on events with it, hold throughout.
LEMMA TypesHold ==
  ASSUME Constants
  PROVE  Spec => []Types
  <1>1. Init => Types
    BY InitTypes
  <1>2. Types /\ [Next]_vars => Types'
    BY TypesStep
  <1>3. QED
    BY <1>1, <1>2, PTL DEF Spec

\* Every state of commands, queues, hooks and drains is well typed, for any of them and any
\* bounds.
THEOREM TypeCorrect ==
  ASSUME Constants
  PROVE  Spec => []TypeOK
  <1>1. Types => TypeOK
    BY TypesImply
  <1>2. QED
    BY <1>1, TypesHold, PTL

\* Commands hold the lock in turns, as long as none is taken from a command at work.
LEMMA TurnsHold ==
  ASSUME Constants
  PROVE  Spec /\ [][~ Evicts]_vars => [](Typed /\ Turns)
  <1>1. Init => Typed /\ Turns
    BY InitTypes, InitTurns DEF Types, Typed
  <1>2. Types => Typed
    BY DEF Types, Typed
  <1>3. Typed /\ Turns /\ [Next]_vars /\ [~ Evicts]_vars => Turns'
    <2>1. CASE UNCHANGED vars
      <3>1. ASSUME NEW c \in Chooser, Turns
            PROVE  Holds(c)'
        BY <2>1, <3>1 DEF Turns, Holds, vars, Record
      <3>2. QED
        BY <3>1 DEF Turns
    <2>2. CASE ~ Evicts
      BY <2>2, StepTurns
    <2>3. QED
      BY <2>1, <2>2
  <1>4. QED
    BY <1>1, <1>2, <1>3, TypesHold, PTL DEF Spec

\* Decisions take effect one at a time, each on top of the ones before and from the revision
\* it was made from, however commands interleave on the lock file, crash or give up, as long
\* as no lock is taken from a command at work.
THEOREM DecisionsTakeTurns ==
  ASSUME Constants
  PROVE  Spec /\ [][~ Evicts]_vars => DecisionsInTurn
  <1>1. Init => C!Init
    BY DEF Init
  <1>2. Typed /\ Turns /\ [Next]_vars =>
          C!Next \/ UNCHANGED <<policy, [c \in Chooser |->
            IF chooser[c].pc \in {"open", "remove", "read", "write"} THEN chooser[c].ask ELSE None]>>
    BY StepRefines, AsksAre DEF Unasked
  <1>3. QED
    BY <1>1, <1>2, TurnsHold, PTL DEF Spec, DecisionsInTurn, C!Spec

\* An OFF then survives every decision that is not about its repository.
THEOREM OffIsKept ==
  ASSUME Constants
  PROVE  Spec /\ [][~ Evicts]_vars => OffSurvives
  <1> DEFINE Survives == \A r \in Repo : policy.repos[r] = "off" /\ policy'.repos[r] = "on" =>
                           \E c \in Chooser : At(c, "write") /\ r \in chooser[c].ask.decision.repos
  <1>1. Typed /\ Turns /\ [Next]_vars => [Survives]_vars
    <2> SUFFICES ASSUME Typed, Turns, [Next]_vars, NEW r \in Repo, policy.repos[r] = "off",
                        policy'.repos[r] = "on"
                 PROVE  \E c \in Chooser : At(c, "write") /\ r \in chooser[c].ask.decision.repos
      OBVIOUS
    <2>1. PICK c \in Chooser : WritePolicy(c)
      <3>1. policy' # policy
        OBVIOUS
      <3>2. ~ (LockAges \/ UNCHANGED vars)
        BY <3>1 DEF LockAges, vars, Record
      <3>3. PICK c \in Chooser : Update(c)
        BY <3>1, <3>2, ElsewhereLeaves, PickTurns DEF Next, Elsewhere, Record
      <3>4. WritePolicy(c)
        BY <3>1, <3>3 DEF Update, OpenLock, RemoveLock, ReadPolicy, Unlock, Sweep, SweepErase, Record
      <3>5. QED
        BY <3>4
    <2>2. At(c, "write") /\ policy' = C!Apply(chooser[c].ask.decision, policy)
      BY <2>1, WritePolicyMoves DEF Turns, Holds, At
    <2>3. r \in chooser[c].ask.decision.repos
      BY <2>2 DEF C!Apply
    <2>4. QED
      BY <2>2, <2>3
  <1>2. QED
    BY <1>1, TurnsHold, PTL DEF Spec, OffSurvives

-----------------------------------------------------------------------------
(* When no command dies or is suspended, no lock is taken from one at work.    *)

Undisturbed ==
  /\ left["crashes"] = 0 /\ left["stalls"] = 0
  /\ lock # "stale" /\ (lock = "fresh" => \E c \in Chooser : chooser[c].pc \in Critical)
  /\ \A c \in Chooser : chooser[c].pc # "remove"

\* Neither a crash nor a suspension is left to spend.
LEMMA NoneSpent ==
  ASSUME Types, Undisturbed, [Next]_vars
  PROVE  /\ left'["crashes"] = 0 /\ left'["stalls"] = 0
         /\ \A c \in Chooser : ~ CrashChooser(c)
         /\ LockAges => \A c \in Chooser : chooser[c].pc \notin Critical
  <1>1. left \in [Bounds -> Nat] /\ left["crashes"] = 0 /\ left["stalls"] = 0
    BY DEF Types, EventsCounted, Undisturbed
  <1>2. ~ Spend("crashes") /\ ~ Spend("stalls")
    BY <1>1 DEF Spend
  <1>3. (\A c \in Chooser : ~ CrashChooser(c)) /\ (LockAges => NoFault)
        /\ (LockAges => \A c \in Chooser : chooser[c].pc \notin Critical)
    BY <1>2 DEF CrashChooser, LockAges
  <1>4. ASSUME NEW c \in Chooser, Decide(c) \/ Pick(c) \/ Update(c) \/ SignOut(c)
        PROVE  NoFault \/ \E k \in Bounds \ {"crashes", "stalls"} : Spend(k)
    BY <1>4 DEF Decide, Pick, Update, SignOut, List, ListRevision, Select, Confirm, Toggle,
                OpenLock, RemoveLock, ReadPolicy, WritePolicy, Unlock, Sweep, SweepErase, Bounds
  <1>5. ASSUME Elsewhere
        PROVE  NoFault \/ \E k \in Bounds \ {"crashes", "stalls"} : Spend(k)
    <2>1. CASE SignIn \/ \E h \in Hook : HookCheck(h) \/ HookAppend(h)
      BY <2>1 DEF SignIn, HookCheck, HookAppend, Bounds
    <2>2. CASE \E r \in Repo : Seal(r)
      BY <2>2 DEF Seal
    <2>3. ASSUME NEW m \in net, Answer(m)
          PROVE  NoFault \/ Spend("losses") \/ Spend("failures")
      BY <2>3 DEF Answer
    <2>4. ASSUME NEW d \in Drain, Work(d)
          PROVE  NoFault
      BY <2>4 DEF Work, DrainStart, DrainPurge, DrainClear, DrainErase, DrainList, Take, Recheck,
                  DrainEnd
    <2>5. {"losses", "failures"} \subseteq Bounds \ {"crashes", "stalls"}
      BY DEF Bounds
    <2>6. QED
      BY <1>5, <2>1, <2>2, <2>3, <2>4, <2>5 DEF Elsewhere
  <1>6. NoFault \/ \E k \in Bounds \ {"crashes", "stalls"} : Spend(k)
    <2>1. CASE UNCHANGED vars
      BY <2>1 DEF vars, NoFault
    <2>2. CASE Next
      <3>1. Elsewhere \/ LockAges \/ \E c \in Chooser : Decide(c) \/ Pick(c) \/ Update(c) \/ SignOut(c)
        BY <1>3, <2>2 DEF Next, Elsewhere
      <3>2. QED
        BY <1>3, <1>4, <1>5, <3>1
    <2>3. QED
      BY <2>1, <2>2
  <1>7. left'["crashes"] = 0 /\ left'["stalls"] = 0
    BY <1>1, <1>6 DEF NoFault, Spend, Bounds
  <1>8. QED
    BY <1>3, <1>7

\* A command that does not touch the lock leaves the rest undisturbed.
LEMMA AsideUndisturbed ==
  ASSUME Undisturbed, left'["crashes"] = 0, left'["stalls"] = 0, NEW c \in Chooser, Others(c),
         lock' = lock, chooser'[c].pc # "remove",
         chooser[c].pc \in Critical => chooser'[c].pc \in Critical
  PROVE  Undisturbed'
  <1>1. \A d \in Chooser : chooser'[d].pc # "remove"
    BY DEF Undisturbed, Others
  <1>2. \A d \in Chooser : chooser[d].pc \in Critical => chooser'[d].pc \in Critical
    BY DEF Others
  <1>3. lock' = "fresh" => \E d \in Chooser : chooser'[d].pc \in Critical
    BY <1>2 DEF Undisturbed
  <1>4. QED
    BY <1>1, <1>3 DEF Undisturbed, Critical

LEMMA UndisturbedStep ==
  ASSUME Types, Turns, Undisturbed, [Next]_vars
  PROVE  ~ Evicts /\ Undisturbed'
  <1>1. /\ left'["crashes"] = 0 /\ left'["stalls"] = 0 /\ Typed
        /\ \A c \in Chooser : ~ CrashChooser(c)
        /\ LockAges => \A c \in Chooser : chooser[c].pc \notin Critical
    BY NoneSpent DEF Types, Typed
  <1>2. ~ Evicts
    BY <1>1 DEF Undisturbed, Evicts, RemoveLock, At
  <1>3. ~ LockAges
    BY <1>1 DEF LockAges, Undisturbed
  <1>4. CASE UNCHANGED <<Record, chooser>>
    <2>1. lock' = lock /\ chooser' = chooser
      BY <1>4 DEF Record
    <2>2. QED
      BY <1>1, <1>2, <2>1 DEF Undisturbed, Critical
  <1>5. ASSUME NEW c \in Chooser, Decide(c) \/ Pick(c) \/ SignOut(c)
        PROVE  Undisturbed'
    <2>1. lock' = lock
      BY <1>1, <1>5, PickTurns DEF Record
    <2>2. Others(c) /\ chooser'[c].pc # "remove" /\ chooser[c].pc \notin Critical
      BY <1>1, <1>5, DecideMoves, ListMoves, ListRevisionMoves, SelectMoves, ConfirmMoves, ToggleMoves,
         SignOutMoves DEF Pick, Moves, At, Critical
    <2>3. QED
      BY <1>1, <2>1, <2>2, AsideUndisturbed
  <1>6. ASSUME NEW c \in Chooser, Update(c)
        PROVE  Undisturbed'
    <2>1. CASE OpenLock(c)
      <3>1. At(c, "open") /\ lock # "stale"
        BY <1>1, <2>1, OpenLockMoves DEF Undisturbed
      <3>2. CASE lock' = "fresh" /\ Moves(c, "read")
        <4>1. chooser'[c].pc \in Critical /\ \A d \in Chooser : chooser'[d].pc # "remove"
          BY <3>2 DEF Moves, Others, Undisturbed, Critical
        <4>2. QED
          BY <1>1, <3>2, <4>1 DEF Undisturbed, Critical
      <3>3. CASE lock' = lock /\ Others(c) /\ chooser'[c].pc \in {"idle", "toggle"}
        BY <1>1, <3>1, <3>3, AsideUndisturbed DEF At, Critical
      <3>4. QED
        BY <1>1, <2>1, <3>1, <3>2, <3>3, OpenLockMoves
    <2>2. CASE RemoveLock(c)
      BY <2>2 DEF RemoveLock, At, Undisturbed
    <2>3. CASE ReadPolicy(c)
      BY <1>1, <2>3, ReadPolicyMoves, AsideUndisturbed DEF Critical
    <2>4. CASE WritePolicy(c)
      BY <1>1, <2>4, WritePolicyMoves, AsideUndisturbed DEF Moves, Critical
    <2>5. CASE Unlock(c)
      <3>1. lock' = None /\ Moves(c, "sweep")
        BY <1>1, <2>5, UnlockMoves
      <3>2. \A d \in Chooser : chooser'[d].pc # "remove"
        BY <3>1 DEF Moves, Others, Undisturbed
      <3>3. None # "fresh" /\ None # "stale"
        BY <1>1 DEF Typed, Constants
      <3>4. QED
        BY <1>1, <3>1, <3>2, <3>3 DEF Undisturbed
    <2>6. CASE Sweep(c)
      BY <1>1, <2>6, SweepMoves, AsideUndisturbed DEF Record, At, Critical
    <2>7. CASE SweepErase(c)
      <3>1. lock' = lock
        BY <2>7 DEF SweepErase, Record
      <3>2. QED
        BY <1>1, <2>7, <3>1, SweepEraseMoves, AsideUndisturbed DEF Moves, At, Critical
    <2>8. QED
      BY <1>6, <2>1, <2>2, <2>3, <2>4, <2>5, <2>6, <2>7 DEF Update
  <1>7. QED
    BY <1>1, <1>2, <1>3, <1>4, <1>5, <1>6, ElsewhereLeaves DEF Next, Elsewhere, vars, Record

\* When no command dies and none is suspended for ten seconds, decisions take effect one at a
\* time, each on top of the ones before and from the revision it was made from, whatever the
\* number of commands and however they interleave on the lock file.
THEOREM UndisturbedTakeTurns ==
  ASSUME Constants, Limits["crashes"] = 0, Limits["stalls"] = 0
  PROVE  Spec => DecisionsInTurn
  <1>1. Init => Undisturbed
    BY DEF Init, Undisturbed, Constants, Idle
  <1>2. Types /\ Turns /\ Undisturbed /\ [Next]_vars => ~ Evicts /\ Undisturbed'
    BY UndisturbedStep
  <1>3. Types /\ Turns /\ [Next]_vars /\ ~ Evicts => Turns'
    BY StepTurns DEF Types, Typed
  <1>4. Init => Turns
    BY InitTurns
  <1>5. Spec => [][~ Evicts]_vars
    BY <1>1, <1>2, <1>3, <1>4, TypesHold, PTL DEF Spec
  <1>6. QED
    BY <1>5, DecisionsTakeTurns
=============================================================================
