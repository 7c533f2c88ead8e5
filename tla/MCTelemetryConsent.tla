------------------------- MODULE MCTelemetryConsent -------------------------
(* Decisions and bounds for TelemetryConsent.                                *)
EXTENDS TelemetryConsent, TLC
CONSTANTS r1, r2, c1, c2, c3, h1, d1

Symmetry == Permutations(Chooser) \cup Permutations(Repo)

Never == [b \in Bounds |-> 0]

Global(v)        == [kind |-> "global", repos |-> {}, value |-> v]
Organization(v)  == [kind |-> "organization", repos |-> {}, value |-> v]
Repository(r, v) == [kind |-> "repository", repos |-> {r}, value |-> v]
Onboard(R, v)    == [kind |-> "onboard", repos |-> R, value |-> v]

SomeDecisions == {Global("off")} \cup {Organization(v) : v \in {"on", "off"}}
                 \cup {Repository(r, "off") : r \in Repo} \cup {Onboard(Repo, "on")}
RepositoryGlobal     == {Global("on")} \cup {Repository(r, "off") : r \in Repo}
Off                  == {Organization("off")} \cup {Repository(r, "off") : r \in Repo}
                        \cup {Onboard({r}, "off") : r \in Repo}

\* Three commands at once, one of them a toggle, one given up as busy, or two of which one
\* dies and leaves its lock to age.
DecisionLimits ==
  [Never EXCEPT !["decisions"] = 2, !["lists"] = 1, !["busy"] = 1, !["crashes"] = 1]
CrashOrMore ==
  left'["crashes"] = DecisionLimits["crashes"]
  \/ \A k \in {"lists", "busy"} : left'[k] = DecisionLimits[k]
DecisionSpec == Init /\ [][Next /\ CrashOrMore]_vars

\* An OFF whose command may die or be suspended, with two events or one and a change of
\* sign-in.
EmptyLimits == [Never EXCEPT !["decisions"] = 1, !["events"] = 2, !["crashes"] = 1, !["failures"] = 1,
                             !["stalls"] = 1, !["signouts"] = 1, !["signins"] = 1]
EventOrSignOut ==
  left'["events"] > 0 \/ left'["signouts"] = EmptyLimits["signouts"]
EmptySpec == Init /\ [][Next /\ EventOrSignOut]_vars /\ Fairness

\* A command died under the lock.
LostLimits == [Never EXCEPT !["decisions"] = 3, !["crashes"] = 1]
=============================================================================
