--------------------------- MODULE ConsentDecisions ---------------------------
(***************************************************************************)
(* What the consent record promises (lib/telemetry-store.js): the user's     *)
(* decisions take effect one at a time, each on top of the ones before, and  *)
(* one made from a revision that has passed does not take effect.            *)
(***************************************************************************)
EXTENDS Naturals

CONSTANTS Chooser, Repo, None

VARIABLES policy, asked

Settings == {"unset", "on", "off"}
Policy   == [revision : Nat, global : {"on", "off"}, org : Settings, repos : [Repo -> Settings]]

\* What a user can decide, about everything, the organization or repositories.
Decision == [kind : {"global", "organization"}, repos : {{}}, value : {"on", "off"}]
            \cup [kind : {"repository"}, repos : {{r} : r \in Repo}, value : {"on", "off"}]
            \cup [kind : {"onboard"}, repos : SUBSET Repo, value : {"on", "off"}]

\* The record after a decision.  Onboarding authorizes the organization as well.
Apply(d, p) ==
  [revision |-> p.revision + 1,
   global   |-> IF d.kind = "global" THEN d.value ELSE p.global,
   org      |-> CASE d.kind = "organization" -> d.value
                  [] d.kind = "onboard"      -> "on"
                  [] OTHER                   -> p.org,
   repos    |-> [r \in Repo |-> IF r \in d.repos THEN d.value ELSE p.repos[r]]]

Init ==
  /\ asked = [c \in Chooser |-> None]
  /\ policy \in {[revision |-> 1, global |-> "on", org |-> o, repos |-> [r \in Repo |-> o]] :
                   o \in {"unset", "on"}}

Choose(c) ==
  /\ asked[c] = None
  /\ \E d \in Decision, e \in (0 .. policy.revision) \cup {None} :
       asked' = [asked EXCEPT ![c] = [decision |-> d, expected |-> e]]
  /\ UNCHANGED policy

Decide(c) ==
  /\ asked[c] # None
  /\ asked[c].expected \in {None, policy.revision}
  /\ policy' = Apply(asked[c].decision, policy)
  /\ asked' = [asked EXCEPT ![c] = None]

\* Refused, or its process did not live to apply it.
Drop(c) ==
  /\ asked[c] # None
  /\ asked' = [asked EXCEPT ![c] = None]
  /\ UNCHANGED policy

Next == \E c \in Chooser : Choose(c) \/ Decide(c) \/ Drop(c)

Spec == Init /\ [][Next]_<<policy, asked>>
=============================================================================
