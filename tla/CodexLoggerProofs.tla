--------------------------- MODULE CodexLoggerProofs ---------------------------
EXTENDS CodexDrainHandoff, FiniteSetTheorems, WellFoundedInduction, TLAPS

(***************************************************************************)
(* What the parts of the Codex logger (logger.js) promise.  First the      *)
(* hand-off of the drain between hooks, CodexDrainHandoff: a request that  *)
(* is completed was served.  Then the event queue its drains empty,        *)
(* CodexEventQueue, as the instance E: no row is lost but by a decision    *)
(* on record, and a purge that reports itself complete leaves nothing of   *)
(* the consent that ended.  Last the monitor that empties it between       *)
(* sessions, CodexRetryMonitor, as the instance M: a monitor that stands   *)
(* down leaves another.                                                    *)
(***************************************************************************)

(* The inductive invariant of the hand-off, in parts.                        *)

\* The lock is its owner's, who works or was killed.
LockHeld ==
  /\ \A d \in Drain : drain[d].pc \in Working => lock = d
  /\ lock # None => drain[lock].pc \in Working \cup {"dead"}

\* Requests are numbered as they are written: nobody has read one of the future, and what
\* a request covers was queued.
Numbered ==
  /\ DOMAIN covers = 0 .. request /\ completed <= request
  /\ \A h \in Hook : hook[h].seen <= request
  /\ \A d \in Drain : drain[d].run <= request /\ drain[d].seen <= request
  /\ \A r \in DOMAIN covers : covers[r] \subseteq queued

\* Where a drain stands between the request it began with and the one that is completed.
Serving ==
  \A d \in Drain :
    /\ drain[d].pc \in {"check", "sweep", "finish"} => completed <= drain[d].run
    /\ drain[d].pc = "quit" => completed = drain[d].run
    /\ drain[d].pc = "finish" => covers[drain[d].run] \subseteq tried
    /\ drain[d].pc \in {"release", "recheck"} => drain[d].run <= completed
    /\ drain[d].pc = "throw" => faults > 0

\* Somebody will look at the present request, or finds it completed.
Looks(p) ==
  \/ p.pc \in {"look", "probe", "spawn"}
  \/ p.pc = "compare" /\ (p.seen = 0 \/ p.seen = request \/ p.seen # completed)
Watching ==
  \/ \E h \in Hook : Looks(hook[h])
  \/ \E d \in Drain : Looks(drain[d]) \/ drain[d].pc \in Working \cup {"acquire", "recheck"}

NobodyDied == crashes = 0 => \A d \in Drain : drain[d].pc # "dead"
Watched == crashes = 0 /\ faults = 0 => request = completed \/ request \in slipped \/ Watching

HandoffInvariant ==
  TypeOK /\ LockHeld /\ Numbered /\ Serving /\ CompletionCovers /\ NobodyDied /\ Watched

-----------------------------------------------------------------------------

\* A new request is numbered after all others.
LEMMA NextRequest ==
  ASSUME TypeOK, Numbered
  PROVE  Cardinality(DOMAIN covers) = request + 1
  <1>1. request \in Nat /\ DOMAIN covers = 0 .. request
    BY DEF TypeOK, Numbered
  <1>2. Cardinality(0 .. request) = request - 0 + 1
    BY <1>1, FS_Interval
  <1>3. QED
    BY <1>1, <1>2

\* Every step keeps the types.
LEMMA TypeStep ==
  ASSUME TypeOK, Numbered, [Next]_vars
  PROVE  TypeOK'
  <1> USE DEF TypeOK, HookPC, DrainPC
  <1>1. ASSUME NEW h \in Hook, Enqueue(h)
        PROVE  TypeOK'
    BY <1>1 DEF Enqueue, Files
  <1>2. ASSUME NEW h \in Hook, WriteRequest(h)
        PROVE  TypeOK'
    BY SMTT(30), <1>2, NextRequest, FS_AddElement DEF WriteRequest, Files
  <1>3. ASSUME NEW h \in Hook, HookLook(h)
        PROVE  TypeOK'
    BY <1>3 DEF HookLook, Files
  <1>4. ASSUME NEW h \in Hook, HookCompare(h)
        PROVE  TypeOK'
    BY <1>4 DEF HookCompare, Files
  <1>5. ASSUME NEW h \in Hook, HookProbe(h)
        PROVE  TypeOK'
    BY <1>5 DEF HookProbe, Files
  <1>6. ASSUME NEW h \in Hook, HookSpawn(h)
        PROVE  TypeOK'
    BY SMTT(30), <1>6 DEF HookSpawn, Files, Child, Go, At
  <1>7. ASSUME NEW h \in Hook, CrashHook(h)
        PROVE  TypeOK'
    BY <1>7 DEF CrashHook, Files
  <1>8. ASSUME NEW d \in Drain, Acquire(d)
        PROVE  TypeOK'
    BY SMTT(30), <1>8 DEF Acquire, Files, Go, At
  <1>9. ASSUME NEW d \in Drain, ReadRequest(d)
        PROVE  TypeOK'
    BY ZenonT(30), <1>9 DEF ReadRequest, Files, Go, At
  <1>10. ASSUME NEW d \in Drain, CheckCompleted(d)
        PROVE  TypeOK'
    BY <1>10 DEF CheckCompleted, Files, Go, At
  <1>11. ASSUME NEW d \in Drain, Quit(d)
        PROVE  TypeOK'
    BY <1>11 DEF Quit, Files, Go, At
  <1>12. ASSUME NEW d \in Drain, Sweep(d)
        PROVE  TypeOK'
    BY <1>12 DEF Sweep, Files, Go, At
  <1>13. ASSUME NEW d \in Drain, Complete(d)
        PROVE  TypeOK'
    <2>1. drain[d].run \in DOMAIN covers /\ drain[d].run \in Nat
      BY DEF Numbered
    <2>2. completed' \in DOMAIN covers /\ completed' \in Nat
      BY <1>13, <2>1 DEF Complete
    <2>3. Go(d, "release") \/ Go(d, "throw")
      BY <1>13 DEF Complete
    <2>4. drain' \in [Drain -> [pc : DrainPC, run : Nat, seen : Nat]]
      BY <2>3 DEF Go
    <2>5. faults' \in Nat
      BY <1>13 DEF Complete
    <2>6. QED
      BY <1>13, <2>2, <2>4, <2>5 DEF Complete
  <1>14. ASSUME NEW d \in Drain, Release(d)
        PROVE  TypeOK'
    BY <1>14 DEF Release, Files, Go, At
  <1>15. ASSUME NEW d \in Drain, Recheck(d)
        PROVE  TypeOK'
    BY <1>15 DEF Recheck, Files, Go, At
  <1>16. ASSUME NEW d \in Drain, DrainLook(d)
        PROVE  TypeOK'
    BY ZenonT(30), <1>16 DEF DrainLook, Files, Go, At
  <1>17. ASSUME NEW d \in Drain, DrainCompare(d)
        PROVE  TypeOK'
    BY <1>17 DEF DrainCompare, Files, Go, At
  <1>18. ASSUME NEW d \in Drain, DrainProbe(d)
        PROVE  TypeOK'
    BY <1>18 DEF DrainProbe, Files, Go, At
  <1>19. ASSUME NEW d \in Drain, DrainSpawn(d)
        PROVE  TypeOK'
    BY <1>19 DEF DrainSpawn, Files, Child, Go, At
  <1>20. ASSUME NEW d \in Drain, CrashDrain(d)
        PROVE  TypeOK'
    BY <1>20 DEF CrashDrain, Files, Go, At
  <1>21. CASE UNCHANGED vars
    BY <1>21 DEF vars
  <1>22. QED
    BY <1>1, <1>2, <1>3, <1>4, <1>5, <1>6, <1>7, <1>8, <1>9, <1>10, <1>11, <1>12, <1>13, <1>14, <1>15, <1>16, <1>17, <1>18, <1>19, <1>20, <1>21 DEF Next, HookStep, DrainStep

\* Whoever takes the lock found it free or its owner dead.
LEMMA LockStep ==
  ASSUME TypeOK, LockHeld, [Next]_vars
  PROVE  LockHeld'
  <1> USE DEF TypeOK, LockHeld, Working
  <1>1. ASSUME NEW h \in Hook, Enqueue(h)
        PROVE  LockHeld'
    BY <1>1 DEF Enqueue, Files
  <1>2. ASSUME NEW h \in Hook, WriteRequest(h)
        PROVE  LockHeld'
    BY <1>2 DEF WriteRequest, Files
  <1>3. ASSUME NEW h \in Hook, HookLook(h)
        PROVE  LockHeld'
    BY <1>3 DEF HookLook, Files
  <1>4. ASSUME NEW h \in Hook, HookCompare(h)
        PROVE  LockHeld'
    BY <1>4 DEF HookCompare, Files
  <1>5. ASSUME NEW h \in Hook, HookProbe(h)
        PROVE  LockHeld'
    BY <1>5 DEF HookProbe, Files
  <1>6. ASSUME NEW h \in Hook, HookSpawn(h)
        PROVE  LockHeld'
    BY <1>6 DEF HookSpawn, Files, Child, Go, At
  <1>7. ASSUME NEW h \in Hook, CrashHook(h)
        PROVE  LockHeld'
    BY <1>7 DEF CrashHook, Files
  <1>8. ASSUME NEW d \in Drain, Acquire(d)
        PROVE  LockHeld'
    BY <1>8, NoneAssumption DEF Acquire, Files, Go, At, Busy, Alive
  <1>9. ASSUME NEW d \in Drain, ReadRequest(d)
        PROVE  LockHeld'
    BY <1>9 DEF ReadRequest, Files, Go, At
  <1>10. ASSUME NEW d \in Drain, CheckCompleted(d)
        PROVE  LockHeld'
    BY <1>10 DEF CheckCompleted, Files, Go, At
  <1>11. ASSUME NEW d \in Drain, Quit(d)
        PROVE  LockHeld'
    BY <1>11 DEF Quit, Files, Go, At
  <1>12. ASSUME NEW d \in Drain, Sweep(d)
        PROVE  LockHeld'
    BY <1>12 DEF Sweep, Files, Go, At
  <1>13. ASSUME NEW d \in Drain, Complete(d)
        PROVE  LockHeld'
    BY <1>13 DEF Complete, Files, Go, At
  <1>14. ASSUME NEW d \in Drain, Release(d)
        PROVE  LockHeld'
    BY <1>14 DEF Release, Files, Go, At
  <1>15. ASSUME NEW d \in Drain, Recheck(d)
        PROVE  LockHeld'
    BY <1>15 DEF Recheck, Files, Go, At
  <1>16. ASSUME NEW d \in Drain, DrainLook(d)
        PROVE  LockHeld'
    BY <1>16 DEF DrainLook, Files, Go, At
  <1>17. ASSUME NEW d \in Drain, DrainCompare(d)
        PROVE  LockHeld'
    BY <1>17 DEF DrainCompare, Files, Go, At
  <1>18. ASSUME NEW d \in Drain, DrainProbe(d)
        PROVE  LockHeld'
    BY <1>18 DEF DrainProbe, Files, Go, At
  <1>19. ASSUME NEW d \in Drain, DrainSpawn(d)
        PROVE  LockHeld'
    BY <1>19 DEF DrainSpawn, Files, Child, Go, At
  <1>20. ASSUME NEW d \in Drain, CrashDrain(d)
        PROVE  LockHeld'
    BY <1>20 DEF CrashDrain, Files, Go, At
  <1>21. CASE UNCHANGED vars
    BY <1>21 DEF vars
  <1>22. QED
    BY <1>1, <1>2, <1>3, <1>4, <1>5, <1>6, <1>7, <1>8, <1>9, <1>10, <1>11, <1>12, <1>13, <1>14, <1>15, <1>16, <1>17, <1>18, <1>19, <1>20, <1>21 DEF Next, HookStep, DrainStep

\* A request is numbered after all others, and covers what is queued.
LEMMA NumberedStep ==
  ASSUME TypeOK, Numbered, [Next]_vars
  PROVE  Numbered'
  <1> USE DEF TypeOK, Numbered
  <1>1. ASSUME NEW h \in Hook, Enqueue(h)
        PROVE  Numbered'
    BY <1>1 DEF Enqueue, Files
  <1>2. ASSUME NEW h \in Hook, WriteRequest(h)
        PROVE  Numbered'
    BY <1>2, NextRequest DEF WriteRequest, Files
  <1>3. ASSUME NEW h \in Hook, HookLook(h)
        PROVE  Numbered'
    BY <1>3 DEF HookLook, Files
  <1>4. ASSUME NEW h \in Hook, HookCompare(h)
        PROVE  Numbered'
    BY <1>4 DEF HookCompare, Files
  <1>5. ASSUME NEW h \in Hook, HookProbe(h)
        PROVE  Numbered'
    BY <1>5 DEF HookProbe, Files
  <1>6. ASSUME NEW h \in Hook, HookSpawn(h)
        PROVE  Numbered'
    BY ZenonT(30), <1>6 DEF HookSpawn, Files, Child, Go, At
  <1>7. ASSUME NEW h \in Hook, CrashHook(h)
        PROVE  Numbered'
    BY <1>7 DEF CrashHook, Files
  <1>8. ASSUME NEW d \in Drain, Acquire(d)
        PROVE  Numbered'
    BY <1>8 DEF Acquire, Files, Go, At
  <1>9. ASSUME NEW d \in Drain, ReadRequest(d)
        PROVE  Numbered'
    BY <1>9 DEF ReadRequest, Files, Go, At
  <1>10. ASSUME NEW d \in Drain, CheckCompleted(d)
        PROVE  Numbered'
    BY <1>10 DEF CheckCompleted, Files, Go, At
  <1>11. ASSUME NEW d \in Drain, Quit(d)
        PROVE  Numbered'
    BY <1>11 DEF Quit, Files, Go, At
  <1>12. ASSUME NEW d \in Drain, Sweep(d)
        PROVE  Numbered'
    BY <1>12 DEF Sweep, Files, Go, At
  <1>13. ASSUME NEW d \in Drain, Complete(d)
        PROVE  Numbered'
    BY ZenonT(30), <1>13 DEF Complete, Files, Go, At
  <1>14. ASSUME NEW d \in Drain, Release(d)
        PROVE  Numbered'
    BY <1>14 DEF Release, Files, Go, At
  <1>15. ASSUME NEW d \in Drain, Recheck(d)
        PROVE  Numbered'
    BY <1>15 DEF Recheck, Files, Go, At
  <1>16. ASSUME NEW d \in Drain, DrainLook(d)
        PROVE  Numbered'
    BY <1>16 DEF DrainLook, Files, Go, At
  <1>17. ASSUME NEW d \in Drain, DrainCompare(d)
        PROVE  Numbered'
    BY <1>17 DEF DrainCompare, Files, Go, At
  <1>18. ASSUME NEW d \in Drain, DrainProbe(d)
        PROVE  Numbered'
    BY <1>18 DEF DrainProbe, Files, Go, At
  <1>19. ASSUME NEW d \in Drain, DrainSpawn(d)
        PROVE  Numbered'
    BY ZenonT(60), <1>19 DEF DrainSpawn, Files, Child, Go, At
  <1>20. ASSUME NEW d \in Drain, CrashDrain(d)
        PROVE  Numbered'
    BY <1>20 DEF CrashDrain, Files, Go, At
  <1>21. CASE UNCHANGED vars
    BY <1>21 DEF vars
  <1>22. QED
    BY <1>1, <1>2, <1>3, <1>4, <1>5, <1>6, <1>7, <1>8, <1>9, <1>10, <1>11, <1>12, <1>13, <1>14, <1>15, <1>16, <1>17, <1>18, <1>19, <1>20, <1>21 DEF Next, HookStep, DrainStep

\* Only the lock's owner completes, the request that it read.
LEMMA ServingStep ==
  ASSUME TypeOK, LockHeld, Numbered, Serving, CompletionCovers, [Next]_vars
  PROVE  Serving'
  <1> USE DEF TypeOK, LockHeld, Numbered, Serving, Working
  <1>1. ASSUME NEW h \in Hook, Enqueue(h)
        PROVE  Serving'
    BY <1>1 DEF Enqueue, Files
  <1>2. ASSUME NEW h \in Hook, WriteRequest(h)
        PROVE  Serving'
    BY SMTT(30), <1>2, NextRequest DEF WriteRequest, Files
  <1>3. ASSUME NEW h \in Hook, HookLook(h)
        PROVE  Serving'
    BY <1>3 DEF HookLook, Files
  <1>4. ASSUME NEW h \in Hook, HookCompare(h)
        PROVE  Serving'
    BY <1>4 DEF HookCompare, Files
  <1>5. ASSUME NEW h \in Hook, HookProbe(h)
        PROVE  Serving'
    BY <1>5 DEF HookProbe, Files
  <1>6. ASSUME NEW h \in Hook, HookSpawn(h)
        PROVE  Serving'
    <2>1. UNCHANGED <<completed, covers, tried>> /\ faults' \in Nat /\ faults' >= faults
      BY <1>6 DEF HookSpawn, Files
    <2>2. \A d \in Drain : drain'[d] = drain[d] \/ drain'[d].pc = "acquire"
      BY <1>6 DEF HookSpawn, Child, Go
    <2>3. faults > 0 => faults' > 0
      BY <2>1
    <2> HIDE DEF TypeOK
    <2>4. QED
      BY <2>1, <2>2, <2>3
  <1>7. ASSUME NEW h \in Hook, CrashHook(h)
        PROVE  Serving'
    BY <1>7 DEF CrashHook, Files
  <1>8. ASSUME NEW d \in Drain, Acquire(d)
        PROVE  Serving'
    BY <1>8 DEF Acquire, Files, Go, At
  <1>9. ASSUME NEW d \in Drain, ReadRequest(d)
        PROVE  Serving'
    BY <1>9 DEF ReadRequest, Files, Go, At
  <1>10. ASSUME NEW d \in Drain, CheckCompleted(d)
        PROVE  Serving'
    BY <1>10 DEF CheckCompleted, Files, Go, At
  <1>11. ASSUME NEW d \in Drain, Quit(d)
        PROVE  Serving'
    BY <1>11 DEF Quit, Files, Go, At
  <1>12. ASSUME NEW d \in Drain, Sweep(d)
        PROVE  Serving'
    BY <1>12 DEF Sweep, Files, Go, At
  <1>13. ASSUME NEW d \in Drain, Complete(d)
        PROVE  Serving'
    <2>1. completed <= drain[d].run /\ lock = d /\ drain[d].run \in Nat
      BY <1>13 DEF Complete, At
    <2>2. completed' \in {completed, drain[d].run} /\ completed' \in Nat /\ completed' >= completed
      BY <1>13, <2>1 DEF Complete
    <2>3. \/ drain'[d] = [drain[d] EXCEPT !.pc = "release"] /\ completed' >= drain[d].run
          \/ drain'[d] = [drain[d] EXCEPT !.pc = "throw"] /\ faults' > 0
      <3>1. CASE /\ completed' = (IF drain[d].run # 0 THEN drain[d].run ELSE completed)
                 /\ Go(d, "release")
        BY <2>1, <3>1 DEF Go
      <3>2. CASE faults' = faults + 1 /\ Go(d, "throw")
        BY <3>2 DEF Go
      <3>3. QED
        BY <1>13, <3>1, <3>2 DEF Complete
    <2>4. \A e \in Drain \ {d} : drain'[e] = drain[e] /\ drain[e].pc \notin Working
      BY <1>13, <2>1 DEF Complete, Go
    <2>5. \A e \in Drain : drain[e].run \in Nat
      OBVIOUS
    <2>6. UNCHANGED <<covers, tried>> /\ faults' \in Nat /\ faults' >= faults
      BY <1>13 DEF Complete
    <2>7. ASSUME NEW e \in Drain, e # d
          PROVE  /\ drain'[e] = drain[e]
                 /\ drain'[e].pc \notin {"check", "sweep", "finish", "quit", "throw"}
                 /\ drain'[e].pc \in {"release", "recheck"} => drain[e].run <= completed'
      BY <2>2, <2>4, <2>5, <2>7
    <2>8. /\ drain'[d].run = drain[d].run /\ drain'[d].pc \in {"release", "throw"}
          /\ drain'[d].pc = "release" => completed' >= drain[d].run
          /\ drain'[d].pc = "throw" => faults' > 0
      BY <2>3
    <2>9. QED
      BY <2>7, <2>8
  <1>14. ASSUME NEW d \in Drain, Release(d)
        PROVE  Serving'
    BY <1>14 DEF Release, Files, Go, At
  <1>15. ASSUME NEW d \in Drain, Recheck(d)
        PROVE  Serving'
    BY <1>15 DEF Recheck, Files, Go, At
  <1>16. ASSUME NEW d \in Drain, DrainLook(d)
        PROVE  Serving'
    BY <1>16 DEF DrainLook, Files, Go, At
  <1>17. ASSUME NEW d \in Drain, DrainCompare(d)
        PROVE  Serving'
    BY <1>17 DEF DrainCompare, Files, Go, At
  <1>18. ASSUME NEW d \in Drain, DrainProbe(d)
        PROVE  Serving'
    BY <1>18 DEF DrainProbe, Files, Go, At
  <1>19. ASSUME NEW d \in Drain, DrainSpawn(d)
        PROVE  Serving'
    <2>1. UNCHANGED <<completed, covers, tried>> /\ faults' \in Nat /\ faults' >= faults
      BY <1>19 DEF DrainSpawn, Files
    <2>2. \A e \in Drain : drain'[e] = drain[e] \/ drain'[e].pc \in {"acquire", "absent"}
      BY <1>19 DEF DrainSpawn, Child, Go
    <2>3. faults > 0 => faults' > 0
      BY <2>1
    <2> HIDE DEF TypeOK
    <2>4. QED
      BY <2>1, <2>2, <2>3
  <1>20. ASSUME NEW d \in Drain, CrashDrain(d)
        PROVE  Serving'
    BY <1>20 DEF CrashDrain, Files, Go, At
  <1>21. CASE UNCHANGED vars
    BY <1>21 DEF vars
  <1>22. QED
    BY <1>1, <1>2, <1>3, <1>4, <1>5, <1>6, <1>7, <1>8, <1>9, <1>10, <1>11, <1>12, <1>13, <1>14, <1>15, <1>16, <1>17, <1>18, <1>19, <1>20, <1>21 DEF Next, HookStep, DrainStep

\* What is completed has been tried.
LEMMA CompletionStep ==
  ASSUME TypeOK, LockHeld, Numbered, Serving, CompletionCovers, [Next]_vars
  PROVE  CompletionCovers'
  <1> USE DEF TypeOK, Numbered, Serving, CompletionCovers
  <1>1. ASSUME NEW h \in Hook, Enqueue(h)
        PROVE  CompletionCovers'
    BY <1>1 DEF Enqueue, Files
  <1>2. ASSUME NEW h \in Hook, WriteRequest(h)
        PROVE  CompletionCovers'
    BY <1>2, NextRequest DEF WriteRequest, Files
  <1>3. ASSUME NEW h \in Hook, HookLook(h)
        PROVE  CompletionCovers'
    BY <1>3 DEF HookLook, Files
  <1>4. ASSUME NEW h \in Hook, HookCompare(h)
        PROVE  CompletionCovers'
    BY <1>4 DEF HookCompare, Files
  <1>5. ASSUME NEW h \in Hook, HookProbe(h)
        PROVE  CompletionCovers'
    BY <1>5 DEF HookProbe, Files
  <1>6. ASSUME NEW h \in Hook, HookSpawn(h)
        PROVE  CompletionCovers'
    BY <1>6 DEF HookSpawn, Files, Child, Go, At
  <1>7. ASSUME NEW h \in Hook, CrashHook(h)
        PROVE  CompletionCovers'
    BY <1>7 DEF CrashHook, Files
  <1>8. ASSUME NEW d \in Drain, Acquire(d)
        PROVE  CompletionCovers'
    BY <1>8 DEF Acquire, Files, Go, At
  <1>9. ASSUME NEW d \in Drain, ReadRequest(d)
        PROVE  CompletionCovers'
    BY <1>9 DEF ReadRequest, Files, Go, At
  <1>10. ASSUME NEW d \in Drain, CheckCompleted(d)
        PROVE  CompletionCovers'
    BY <1>10 DEF CheckCompleted, Files, Go, At
  <1>11. ASSUME NEW d \in Drain, Quit(d)
        PROVE  CompletionCovers'
    BY <1>11 DEF Quit, Files, Go, At
  <1>12. ASSUME NEW d \in Drain, Sweep(d)
        PROVE  CompletionCovers'
    BY <1>12 DEF Sweep, Files, Go, At
  <1>13. ASSUME NEW d \in Drain, Complete(d)
        PROVE  CompletionCovers'
    BY <1>13 DEF Complete, Files, Go, At
  <1>14. ASSUME NEW d \in Drain, Release(d)
        PROVE  CompletionCovers'
    BY <1>14 DEF Release, Files, Go, At
  <1>15. ASSUME NEW d \in Drain, Recheck(d)
        PROVE  CompletionCovers'
    BY <1>15 DEF Recheck, Files, Go, At
  <1>16. ASSUME NEW d \in Drain, DrainLook(d)
        PROVE  CompletionCovers'
    BY <1>16 DEF DrainLook, Files, Go, At
  <1>17. ASSUME NEW d \in Drain, DrainCompare(d)
        PROVE  CompletionCovers'
    BY <1>17 DEF DrainCompare, Files, Go, At
  <1>18. ASSUME NEW d \in Drain, DrainProbe(d)
        PROVE  CompletionCovers'
    BY <1>18 DEF DrainProbe, Files, Go, At
  <1>19. ASSUME NEW d \in Drain, DrainSpawn(d)
        PROVE  CompletionCovers'
    BY <1>19 DEF DrainSpawn, Files, Child, Go, At
  <1>20. ASSUME NEW d \in Drain, CrashDrain(d)
        PROVE  CompletionCovers'
    BY <1>20 DEF CrashDrain, Files, Go, At
  <1>21. CASE UNCHANGED vars
    BY <1>21 DEF vars
  <1>22. QED
    BY <1>1, <1>2, <1>3, <1>4, <1>5, <1>6, <1>7, <1>8, <1>9, <1>10, <1>11, <1>12, <1>13, <1>14, <1>15, <1>16, <1>17, <1>18, <1>19, <1>20, <1>21 DEF Next, HookStep, DrainStep

\* Nobody is dead without a crash.
LEMMA DeathStep ==
  ASSUME TypeOK, NobodyDied, [Next]_vars
  PROVE  NobodyDied'
  <1> USE DEF TypeOK, NobodyDied
  <1>1. ASSUME NEW h \in Hook, Enqueue(h)
        PROVE  NobodyDied'
    BY <1>1 DEF Enqueue, Files
  <1>2. ASSUME NEW h \in Hook, WriteRequest(h)
        PROVE  NobodyDied'
    BY <1>2 DEF WriteRequest, Files
  <1>3. ASSUME NEW h \in Hook, HookLook(h)
        PROVE  NobodyDied'
    BY <1>3 DEF HookLook, Files
  <1>4. ASSUME NEW h \in Hook, HookCompare(h)
        PROVE  NobodyDied'
    BY <1>4 DEF HookCompare, Files
  <1>5. ASSUME NEW h \in Hook, HookProbe(h)
        PROVE  NobodyDied'
    BY <1>5 DEF HookProbe, Files
  <1>6. ASSUME NEW h \in Hook, HookSpawn(h)
        PROVE  NobodyDied'
    BY <1>6 DEF HookSpawn, Files, Child, Go, At
  <1>7. ASSUME NEW h \in Hook, CrashHook(h)
        PROVE  NobodyDied'
    BY <1>7 DEF CrashHook, Files
  <1>8. ASSUME NEW d \in Drain, Acquire(d)
        PROVE  NobodyDied'
    BY <1>8 DEF Acquire, Files, Go, At
  <1>9. ASSUME NEW d \in Drain, ReadRequest(d)
        PROVE  NobodyDied'
    BY <1>9 DEF ReadRequest, Files, Go, At
  <1>10. ASSUME NEW d \in Drain, CheckCompleted(d)
        PROVE  NobodyDied'
    BY <1>10 DEF CheckCompleted, Files, Go, At
  <1>11. ASSUME NEW d \in Drain, Quit(d)
        PROVE  NobodyDied'
    BY <1>11 DEF Quit, Files, Go, At
  <1>12. ASSUME NEW d \in Drain, Sweep(d)
        PROVE  NobodyDied'
    BY <1>12 DEF Sweep, Files, Go, At
  <1>13. ASSUME NEW d \in Drain, Complete(d)
        PROVE  NobodyDied'
    BY <1>13 DEF Complete, Files, Go, At
  <1>14. ASSUME NEW d \in Drain, Release(d)
        PROVE  NobodyDied'
    BY <1>14 DEF Release, Files, Go, At
  <1>15. ASSUME NEW d \in Drain, Recheck(d)
        PROVE  NobodyDied'
    BY <1>15 DEF Recheck, Files, Go, At
  <1>16. ASSUME NEW d \in Drain, DrainLook(d)
        PROVE  NobodyDied'
    BY <1>16 DEF DrainLook, Files, Go, At
  <1>17. ASSUME NEW d \in Drain, DrainCompare(d)
        PROVE  NobodyDied'
    BY <1>17 DEF DrainCompare, Files, Go, At
  <1>18. ASSUME NEW d \in Drain, DrainProbe(d)
        PROVE  NobodyDied'
    BY <1>18 DEF DrainProbe, Files, Go, At
  <1>19. ASSUME NEW d \in Drain, DrainSpawn(d)
        PROVE  NobodyDied'
    BY <1>19 DEF DrainSpawn, Files, Child, Go, At
  <1>20. ASSUME NEW d \in Drain, CrashDrain(d)
        PROVE  NobodyDied'
    BY <1>20 DEF CrashDrain, Files, Go, At
  <1>21. CASE UNCHANGED vars
    BY <1>21 DEF vars
  <1>22. QED
    BY <1>1, <1>2, <1>3, <1>4, <1>5, <1>6, <1>7, <1>8, <1>9, <1>10, <1>11, <1>12, <1>13, <1>14, <1>15, <1>16, <1>17, <1>18, <1>19, <1>20, <1>21 DEF Next, HookStep, DrainStep

\* Whoever stops looking leaves the request to another, completed or slipped.
LEMMA WatchedStep ==
  ASSUME TypeOK, LockHeld, Numbered, Serving, NobodyDied, Watched, [Next]_vars
  PROVE  Watched'
  <1> USE DEF TypeOK, LockHeld, Numbered, Serving, NobodyDied, Watched, Watching, Looks, Working
  <1>1. ASSUME NEW h \in Hook, Enqueue(h)
        PROVE  Watched'
    BY <1>1 DEF Enqueue, Files
  <1>2. ASSUME NEW h \in Hook, WriteRequest(h)
        PROVE  Watched'
    BY <1>2, NextRequest DEF WriteRequest, Files
  <1>3. ASSUME NEW h \in Hook, HookLook(h)
        PROVE  Watched'
    BY <1>3 DEF HookLook, Files
  <1>4. ASSUME NEW h \in Hook, HookCompare(h)
        PROVE  Watched'
    BY <1>4 DEF HookCompare, Files
  <1>5. ASSUME NEW h \in Hook, HookProbe(h)
        PROVE  Watched'
    BY <1>5 DEF HookProbe, Files, Go, At, Busy, Alive
  <1>6. ASSUME NEW h \in Hook, HookSpawn(h)
        PROVE  Watched'
    BY <1>6 DEF HookSpawn, Files, Child, Go, At
  <1>7. ASSUME NEW h \in Hook, CrashHook(h)
        PROVE  Watched'
    BY <1>7 DEF CrashHook, Files
  <1>8. ASSUME NEW d \in Drain, Acquire(d)
        PROVE  Watched'
    BY <1>8 DEF Acquire, Files, Go, At, Busy, Alive
  <1>9. ASSUME NEW d \in Drain, ReadRequest(d)
        PROVE  Watched'
    BY <1>9 DEF ReadRequest, Files, Go, At
  <1>10. ASSUME NEW d \in Drain, CheckCompleted(d)
        PROVE  Watched'
    BY <1>10 DEF CheckCompleted, Files, Go, At
  <1>11. ASSUME NEW d \in Drain, Quit(d)
        PROVE  Watched'
    BY <1>11 DEF Quit, Files, Go, At
  <1>12. ASSUME NEW d \in Drain, Sweep(d)
        PROVE  Watched'
    BY <1>12 DEF Sweep, Files, Go, At
  <1>13. ASSUME NEW d \in Drain, Complete(d)
        PROVE  Watched'
    BY <1>13 DEF Complete, Files, Go, At
  <1>14. ASSUME NEW d \in Drain, Release(d)
        PROVE  Watched'
    BY <1>14 DEF Release, Files, Go, At
  <1>15. ASSUME NEW d \in Drain, Recheck(d)
        PROVE  Watched'
    BY <1>15 DEF Recheck, Files, Go, At
  <1>16. ASSUME NEW d \in Drain, DrainLook(d)
        PROVE  Watched'
    BY <1>16 DEF DrainLook, Files, Go, At
  <1>17. ASSUME NEW d \in Drain, DrainCompare(d)
        PROVE  Watched'
    BY <1>17 DEF DrainCompare, Files, Go, At
  <1>18. ASSUME NEW d \in Drain, DrainProbe(d)
        PROVE  Watched'
    BY <1>18 DEF DrainProbe, Files, Go, At, Busy, Alive
  <1>19. ASSUME NEW d \in Drain, DrainSpawn(d)
        PROVE  Watched'
    BY <1>19 DEF DrainSpawn, Files, Child, Go, At
  <1>20. ASSUME NEW d \in Drain, CrashDrain(d)
        PROVE  Watched'
    BY <1>20 DEF CrashDrain, Files, Go, At
  <1>21. CASE UNCHANGED vars
    BY <1>21 DEF vars
  <1>22. QED
    BY <1>1, <1>2, <1>3, <1>4, <1>5, <1>6, <1>7, <1>8, <1>9, <1>10, <1>11, <1>12, <1>13, <1>14, <1>15, <1>16, <1>17, <1>18, <1>19, <1>20, <1>21 DEF Next, HookStep, DrainStep

\* At the start nothing is queued, requested or under way.
LEMMA HandoffInit == Init => HandoffInvariant
  <1> SUFFICES ASSUME Init PROVE HandoffInvariant
    OBVIOUS
  <1> USE DEF Init
  <1>1. DOMAIN covers = 0 .. 0 /\ covers[0] = {} /\ IsFiniteSet(DOMAIN covers)
    <2>1. DOMAIN covers = {0} /\ covers[0] = {}
      OBVIOUS
    <2>2. 0 .. 0 = {0}
      OBVIOUS
    <2>3. QED
      BY <2>1, <2>2, FS_Singleton
  <1>2. TypeOK
    BY <1>1 DEF TypeOK, HookPC, DrainPC
  <1>3. LockHeld /\ Numbered /\ Serving
    BY <1>1 DEF LockHeld, Numbered, Serving, Working
  <1>4. QED
    BY <1>1, <1>2, <1>3 DEF HandoffInvariant, CompletionCovers, NobodyDied, Watched

\* The invariant is inductive.
LEMMA HandoffStep == HandoffInvariant /\ [Next]_vars => HandoffInvariant'
  BY TypeStep, LockStep, NumberedStep, ServingStep, CompletionStep, DeathStep, WatchedStep
  DEF HandoffInvariant

\* When nobody is awake, nobody looks.
LEMMA AsleepMeansServed == HandoffInvariant => RequestsServed
  <1> SUFFICES ASSUME HandoffInvariant PROVE RequestsServed
    OBVIOUS
  <1>1. OneDrain
    BY DEF HandoffInvariant, LockHeld, OneDrain
  <1>2. Watching => Awake
    BY DEF Watching, Looks, Awake, Working
  <1>3. ForgottenOnlyBySlip
    BY <1>2 DEF HandoffInvariant, Watched, ForgottenOnlyBySlip
  <1>4. QED
    BY <1>1, <1>3 DEF HandoffInvariant, RequestsServed

-----------------------------------------------------------------------------

\* The inductive invariant holds, whatever hooks and drains do, die and fail.
THEOREM HandoffInvariantHolds == Spec => []HandoffInvariant
  BY HandoffInit, HandoffStep, PTL DEF Spec

\* Every variable keeps its type.
THEOREM TypeCorrect == Spec => []TypeOK
  <1>1. HandoffInvariant => TypeOK
    BY DEF HandoffInvariant
  <1>2. QED
    BY <1>1, HandoffInvariantHolds, PTL

\* One drain works at a time; a completed request had everything it covers tried; and
\* without a crash or a fault, the last request is completed once nobody is awake, unless
\* a drain that had nothing to do gave the lock up past it (beginDrainOnce,
\* finishDrainOnce, spawnDetachedDrain).
THEOREM RequestsAreServed == Spec => []RequestsServed
  BY AsleepMeansServed, HandoffInvariantHolds, PTL

-----------------------------------------------------------------------------
(* The event queue.                                                          *)

CONSTANTS Repo, Worker, MaxRetries, MaxTime, MaxFiles, Scenarios
VARIABLES repo, paused, revoked, files, clock, meta, batchLock, poison, recorder, work, purge,
          received, written, late, expired, tries, spent, promised, left

\* The hooks that record are those that wake the drains.
E == INSTANCE CodexEventQueue WITH lock <- batchLock, hook <- recorder, slipped <- late

(* The inductive invariant, in parts.                                        *)

\* Rows are numbered, and stamped with tokens from 1.
Rows == {x \in E!Row : x.n \in DOMAIN tries /\ x.token # 0}

Deciding == {"post", "sent", "refused", "again", "failed", "quarantine", "cut"}
WorkPC   == Deciding \cup {"idle", "close"}
RecorderPC   == {"idle", "recheck", "open", "write", "ended", "name", "rename"}
PurgePC  == {"none", "seal", "sealall", "list", "scan"}
Places   == {"none", "active", "sealed", "sent", "gone"}
Counts   == 0 .. MaxRetries - 1

\* Every variable keeps its type.
Typed ==
  /\ repo \in [Repo -> [shared : BOOLEAN, local : BOOLEAN, scope : BOOLEAN, token : Nat \ {0}, epoch : Nat]]
  /\ paused \in BOOLEAN /\ clock \in Nat
  /\ revoked \in [Repo -> SUBSET Nat] /\ \A r \in Repo : revoked[r] \subseteq 1 .. repo[r].token - 1
  /\ files \in [E!Ids -> [at : Places, ts : Nat, rows : SUBSET Rows]]
  /\ meta \in [E!Times -> [attempts : Counts, payload : SUBSET Rows]]
  /\ poison \in [E!Times -> SUBSET Rows] /\ batchLock \in [E!Times -> Worker \cup {None}]
  /\ recorder \in [Hook -> [pc : RecorderPC, row : Rows \cup {None}, fd : Nat, ts : Nat]]
  /\ work \in [Worker -> [pc : WorkPC, ts : Nat, ready : SUBSET Rows, held : SUBSET Rows,
                          again : BOOLEAN, spends : BOOLEAN]]
  /\ purge \in [pc : PurgePC, todo : SUBSET E!Times, complete : BOOLEAN, all : BOOLEAN]
  /\ received \subseteq Rows /\ written \subseteq Rows /\ late \subseteq Rows /\ expired \subseteq Rows
  /\ spent \subseteq Rows
  /\ DOMAIN tries \subseteq Nat /\ tries \in [DOMAIN tries -> Nat]
  /\ promised \in [Repo -> [token : Nat, epoch : Nat]]
  /\ left \in [E!Bounds -> Nat \cup {None}] /\ left["rows"] \in Nat /\ 1 .. left["rows"] \subseteq DOMAIN tries

\* What a hook carries: a row of a consent that was given, and a file that it has opened.
Carried ==
  \A h \in Hook :
    /\ recorder[h].pc \in {"recheck", "open", "write"} => recorder[h].row \in Rows /\ recorder[h].row.whole
    /\ recorder[h].pc = "write" => recorder[h].fd \in E!Ids /\ files[recorder[h].fd].at # "none"
    /\ recorder[h].pc = "rename" => recorder[h].ts \in E!Times

\* No row is stamped with what is to come, and recorded rows are whole.
Past(x) == x.token <= repo[x.repo].token /\ x.epoch <= repo[x.repo].epoch
Stamped ==
  /\ \A x \in written : x.whole /\ Past(x)
  /\ \A i \in E!Ids : \A x \in files[i].rows : Past(x)
  /\ \A t \in E!Times : \A x \in poison[t] : Past(x)
  /\ \A h \in Hook : recorder[h].pc \in {"recheck", "open", "write"} => Past(recorder[h].row)
  /\ \A w \in Worker : \A x \in work[w].ready \cup work[w].held : Past(x)

\* A batch that is worked on is locked by the one who does, and is there until it is decided.
Locked ==
  /\ \A w \in Worker : work[w].pc # "idle" => work[w].ts \in E!Times /\ batchLock[work[w].ts] = w
  /\ \A t \in E!Times : batchLock[t] # None => work[batchLock[t]].pc # "idle" /\ work[batchLock[t]].ts = t
  /\ \A w \in Worker : work[w].pc \in Deciding => E!Batch(w) # {}

\* What a worker has read of its batch is what the batch holds, but for rows that slipped in,
\* and it decides about some.
Divided ==
  \A w \in Worker : work[w].pc \in Deciding =>
    /\ work[w].ready # {}
    /\ \A i \in E!Batch(w) : \A x \in files[i].rows :
         x.whole /\ x \notin late => x \in work[w].ready \cup work[w].held

\* What is about to be taken from a batch has arrived, or is in quarantine.
Secured ==
  \A w \in Worker :
    /\ work[w].pc = "sent" => work[w].ready \subseteq received
    /\ work[w].pc = "cut" => work[w].ready \subseteq poison[work[w].ts]

\* Attempts on record are failures of the rows on record.
Charged ==
  /\ \A t \in E!Times : /\ meta[t].payload = {} => meta[t].attempts = 0
                      /\ \A x \in meta[t].payload : meta[t].attempts <= tries[x.n]
  /\ \A w \in Worker :
       /\ work[w].pc = "failed" =>
            \A x \in work[w].ready :
              /\ 1 <= tries[x.n]
              /\ meta[work[w].ts].payload = work[w].ready => meta[work[w].ts].attempts < tries[x.n]
       /\ work[w].spends => work[w].pc \in {"quarantine", "cut", "close"}
       /\ work[w].spends /\ work[w].pc = "quarantine" =>
            \A x \in work[w].ready : MaxRetries <= tries[x.n]

\* One log is open, and a name stands for one sealed file.
OneFile ==
  /\ \A i, j \in E!Active : i = j
  /\ \A t \in E!Times : \A i, j \in E!File("sealed", t) : i = j

QueueInvariant ==
  /\ Typed /\ Carried /\ Stamped /\ Locked /\ Divided /\ Secured /\ Charged /\ OneFile
  /\ E!EveryRowKept /\ E!ChargedForOwn

(* What a purge promises.                                                    *)

\* Promises are about the past.
Promises ==
  \A r \in Repo : promised[r].token < repo[r].token /\ promised[r].epoch <= repo[r].epoch

\* A row that no purge has to remove.
Uptodate(x) ==
  x.epoch = repo[x.repo].epoch /\ (~ repo[x.repo].shared => x.token = repo[x.repo].token)

\* What is being sent is covered by no promise.
Unpromised == \A w \in Worker : work[w].pc \in Deciding => \A x \in work[w].ready : x.whole => ~ E!Clean(x)

\* A purge that is complete up to a batch has left nothing there that it has to remove.
Scanned(t) == purge.pc = "scan" /\ ~ purge.all /\ purge.complete /\ t \notin purge.todo
Purged ==
  \A t \in E!Times : Scanned(t) =>
    /\ \A w \in Worker : work[w].pc \in Deciding /\ work[w].ts = t =>
         \A x \in work[w].ready : x.whole => Uptodate(x)
    /\ \A x \in poison[t] \cup UNION {files[i].rows : i \in E!File("sent", t)} :
         x.whole /\ x \notin late => Uptodate(x)

PurgeInvariant == Promises /\ Unpromised /\ Purged /\ E!PurgeMeansGone

-----------------------------------------------------------------------------
(* What the operators of the queue make of its files.                        *)

\* A set of numbers that is not empty has a least one, which Min gives.
LEMMA MinIsLeast ==
  ASSUME NEW S \in SUBSET Nat, S # {}
  PROVE  E!Min(S) \in S
  <1> PICK top \in S : TRUE
    OBVIOUS
  <1> DEFINE All  == 1 .. top
             Upto == {1 .. n : n \in {m \in S : m <= top}}
  <1>1. IsFiniteSet(All)
    BY FS_Interval
  <1>2. Upto \subseteq FiniteSubsetsOf(All)
    <2>1. ASSUME NEW n \in S, n <= top
          PROVE  1 .. n \subseteq All /\ IsFiniteSet(1 .. n)
      BY <2>1, FS_Interval, SMT
    <2>2. QED
      BY <2>1 DEF FiniteSubsetsOf
  <1>3. IsWellFoundedOn(StrictSubsetOrdering(All), FiniteSubsetsOf(All))
    BY FS_StrictSubsetOrderingWellFounded
  <1>4. PICK x \in Upto : \A y \in Upto : ~ (<<y, x>> \in StrictSubsetOrdering(All))
    <2>1. Upto # {}
      OBVIOUS
    <2> HIDE DEF Upto, All
    <2>2. QED
      BY <1>2, <1>3, <2>1, WFMin
  <1>5. PICK n \in S : n <= top /\ x = 1 .. n
    BY <1>4
  <1>6. ASSUME NEW m \in S, m < n
        PROVE  FALSE
    <2>1. 1 .. m \in Upto
      BY <1>5, <1>6, SMT
    <2>2. 1 .. m \subseteq 1 .. n /\ 1 .. m # 1 .. n /\ 1 .. n \subseteq All
      BY <1>5, <1>6, SMT
    <2>3. QED
      BY <1>4, <1>5, <2>1, <2>2 DEF StrictSubsetOrdering
  <1>7. \E k \in S : \A m \in S : k <= m
    BY <1>6, SMT
  <1>8. QED
    BY <1>7 DEF E!Min

\* The parts of a file.
FileSet == [at : Places, ts : Nat, rows : SUBSET Rows]
LEMMA FileParts ==
  ASSUME Typed, NEW i \in E!Ids
  PROVE  /\ files[i] \in FileSet
         /\ files[i].at \in Places /\ files[i].ts \in Nat /\ files[i].rows \subseteq Rows
  BY DEF Typed, FileSet

\* The batch is rewritten or unlinked, and no other file.
LEMMA ReplacedFiles ==
  ASSUME Typed, NEW t \in E!Times, NEW rows \in SUBSET Rows
  PROVE  /\ E!Replaced(t, rows) \in [E!Ids -> FileSet]
         /\ \A i \in E!Ids :
              /\ i \notin E!File("sealed", t) => E!Replaced(t, rows)[i] = files[i]
              /\ i \in E!File("sealed", t) /\ rows = {} =>
                   /\ E!Replaced(t, rows)[i].at = "gone" /\ E!Replaced(t, rows)[i].ts = files[i].ts
                   /\ E!Replaced(t, rows)[i].rows = files[i].rows
              /\ i \in E!File("sealed", t) /\ rows # {} =>
                   /\ E!Replaced(t, rows)[i].at = "sealed" /\ E!Replaced(t, rows)[i].ts = t
                   /\ E!Replaced(t, rows)[i].rows = rows
  <1>1. \A i \in E!Ids : files[i] \in FileSet
    BY FileParts
  <1>2. QED
    BY <1>1 DEF E!Replaced, E!File, FileSet, Places

\* The open log becomes a batch, over one of its name.
LEMMA RenamedFiles ==
  ASSUME Typed, NEW t \in E!Times
  PROVE  /\ E!Renamed(t) \in [E!Ids -> FileSet]
         /\ \A i \in E!Ids :
              /\ i \in E!Active => /\ E!Renamed(t)[i].at = "sealed" /\ E!Renamed(t)[i].ts = t
                                 /\ E!Renamed(t)[i].rows = files[i].rows
              /\ i \notin E!Active /\ i \in E!File("sealed", t) =>
                   /\ E!Renamed(t)[i].at = "gone" /\ E!Renamed(t)[i].ts = t
                   /\ E!Renamed(t)[i].rows = files[i].rows
              /\ i \notin E!Active /\ i \notin E!File("sealed", t) => E!Renamed(t)[i] = files[i]
  <1>1. \A i \in E!Ids : files[i] \in FileSet
    BY FileParts
  <1>2. E!Times \subseteq Nat
    BY DEF E!Times
  <1>3. QED
    BY <1>1, <1>2 DEF E!Renamed, E!File, E!Active, FileSet, Places

\* A file is moved.
LEMMA MovedFile ==
  ASSUME Typed, NEW i \in E!Ids, NEW at \in Places
  PROVE  /\ [files[i] EXCEPT !.at = at] \in FileSet
         /\ [files[i] EXCEPT !.at = at].at = at
         /\ [files[i] EXCEPT !.at = at].ts = files[i].ts
         /\ [files[i] EXCEPT !.at = at].rows = files[i].rows
  BY FileParts DEF FileSet

\* Revoked tokens are earlier ones, and none is forgotten.
LEMMA SeenTokens ==
  ASSUME Typed, NEW R
  PROVE  /\ E!Seen(R) \in [Repo -> SUBSET Nat]
         /\ \A r \in Repo : /\ E!Seen(R)[r] \subseteq 1 .. repo[r].token - 1
                            /\ revoked[r] \subseteq E!Seen(R)[r]
                            /\ r \in R /\ ~ repo[r].shared => E!Seen(R)[r] = 1 .. repo[r].token - 1
  <1>1. \A r \in Repo : /\ revoked[r] \subseteq 1 .. repo[r].token - 1 /\ repo[r].token \in Nat \ {0}
                        /\ repo[r].shared \in BOOLEAN
    BY DEF Typed
  <1>2. \A r \in Repo : 1 .. repo[r].token - 1 \subseteq Nat
    BY <1>1
  <1>3. \A r \in Repo : E!Seen(R)[r] = IF r \in R /\ ~ repo[r].shared THEN 1 .. repo[r].token - 1 ELSE revoked[r]
    BY <1>1 DEF E!Seen
  <1>4. E!Seen(R) \in [Repo -> SUBSET Nat]
    <2>1. \A r \in Repo : E!Seen(R)[r] \in SUBSET Nat
      BY <1>1, <1>2, <1>3
    <2>2. QED
      BY <2>1 DEF E!Seen
  <1>5. QED
    BY <1>1, <1>3, <1>4

\* What is dropped was recorded whole, under a consent that is over.
LEMMA DroppedRows ==
  ASSUME Typed, NEW rows \in SUBSET Rows
  PROVE  /\ E!Dropped(rows, E!Seen(E!ReposOf(rows))) \subseteq rows
         /\ \A x \in rows :
              x \in E!Dropped(rows, E!Seen(E!ReposOf(rows))) <=>
                x.whole /\ (x.epoch # repo[x.repo].epoch \/ x.token \in E!Seen(E!ReposOf(rows))[x.repo])
         /\ E!Held(rows) \subseteq rows
  BY DEF E!Dropped, E!Held

\* A purge takes rows out of the batch, its sent copy and its quarantine, and nothing else;
\* it takes none but those of a consent that is over.
LEMMA PrunedRows ==
  ASSUME Typed, NEW t \in E!Times, E!Pruned(t)
  PROVE  LET rows == (UNION {files[i].rows : i \in E!File("sealed", t) \cup E!File("sent", t)}) \cup poison[t]
             out  == E!Dropped(rows, E!Seen(E!ReposOf(rows)))
         IN  /\ rows \subseteq Rows /\ revoked' = E!Seen(E!ReposOf(rows))
             /\ poison' = [poison EXCEPT ![t] = @ \ out]
             /\ files' \in [E!Ids -> FileSet]
             /\ \A i \in E!Ids :
                  \/ files'[i] = files[i] /\ (i \notin E!File("sealed", t) \cup E!File("sent", t) \/ files[i].rows \cap out = {})
                  \/ /\ i \in E!File("sealed", t) \cup E!File("sent", t) /\ files[i].rows \subseteq out
                     /\ files'[i].at = "gone" /\ files'[i].ts = files[i].ts /\ files'[i].rows = files[i].rows
                  \/ /\ i \in E!File("sealed", t) \cup E!File("sent", t)
                     /\ files'[i].at = files[i].at /\ files'[i].ts = files[i].ts
                     /\ files'[i].rows = files[i].rows \ out /\ files'[i].rows # {}
  <1> DEFINE S    == E!File("sealed", t) \cup E!File("sent", t)
             rows == (UNION {files[i].rows : i \in S}) \cup poison[t]
             out  == E!Dropped(rows, E!Seen(E!ReposOf(rows)))
  <1>1. {k \in E!Ids : k \in S} = S
    BY DEF E!File
  <1>2. \A i \in E!Ids : files[i] \in FileSet
    BY FileParts
  <1>3. rows \subseteq Rows
    BY <1>2 DEF E!File, FileSet, Typed
  <1>4. /\ revoked' = E!Seen(E!ReposOf(rows)) /\ poison' = [poison EXCEPT ![t] = @ \ out]
        /\ files' = [i \in E!Ids |->
             IF ~ (i \in S) \/ files[i].rows \cap out = {} THEN files[i]
             ELSE IF files[i].rows \subseteq out THEN [files[i] EXCEPT !.at = "gone"]
             ELSE [files[i] EXCEPT !.rows = @ \ out]]
    BY <1>1 DEF E!Pruned
  <1> HIDE DEF out, S
  <1>5. files' \in [E!Ids -> FileSet]
    BY <1>2, <1>4 DEF FileSet, Places
  <1>6. ASSUME NEW i \in E!Ids
        PROVE  \/ files'[i] = files[i] /\ (i \notin S \/ files[i].rows \cap out = {})
               \/ /\ i \in S /\ files[i].rows \subseteq out
                  /\ files'[i].at = "gone" /\ files'[i].ts = files[i].ts /\ files'[i].rows = files[i].rows
               \/ /\ i \in S /\ files'[i].at = files[i].at /\ files'[i].ts = files[i].ts
                  /\ files'[i].rows = files[i].rows \ out /\ files'[i].rows # {}
    <2>1. files[i] \in FileSet
      BY <1>2
    <2>2. QED
      BY <1>4, <2>1 DEF FileSet
  <1>7. QED
    BY <1>3, <1>4, <1>5, <1>6 DEF out, S

-----------------------------------------------------------------------------
(* Who changes what.                                                         *)

Writers ==
  /\ \/ UNCHANGED repo
     \/ \E r \in Repo : E!SetConsent(r) \/ E!SetLocal(r) \/ E!SetScope(r)
  /\ \/ UNCHANGED files
     \/ \E h \in Hook : E!HookOpen(h) \/ E!HookWrite(h) \/ E!HookRename(h)
     \/ \E w \in Worker : E!Sent(w) \/ E!Salvage(w) \/ E!PostAgain(w) \/ E!Quarantine(w) \/ E!Cut(w) \/ E!Close(w)
     \/ \E w \in Worker, t \in E!Times : E!Take(w, t)
     \/ \E t \in E!Times : E!Expire(t) \/ E!PurgeBatch(t)
     \/ E!SignOut
     \/ E!PurgeSeal
  /\ \/ UNCHANGED revoked
     \/ \E w \in Worker : E!PostAgain(w) \/ E!Close(w)
     \/ \E w \in Worker, t \in E!Times : E!Take(w, t)
     \/ \E t \in E!Times : E!PurgeBatch(t)
     \/ E!PurgeSeal
  /\ \/ UNCHANGED meta
     \/ \E w \in Worker : E!PausedPost(w) \/ E!Sent(w) \/ E!PostAgain(w) \/ E!Retry(w) \/ E!Quarantine(w) \/ E!Cut(w)
     \/ \E w \in Worker, t \in E!Times : E!Take(w, t)
     \/ \E t \in E!Times : E!Expire(t) \/ E!PurgeBatch(t)
  /\ \/ UNCHANGED poison
     \/ \E w \in Worker : E!Quarantine(w) \/ E!Close(w)
     \/ \E t \in E!Times : E!PurgeBatch(t)
  /\ \/ UNCHANGED batchLock
     \/ \E w \in Worker : E!Close(w) \/ E!Crash(w) \/ \E t \in E!Times : E!Take(w, t)
  /\ \/ UNCHANGED recorder
     \/ \E h \in Hook : E!HookStep(h) \/ E!HookSeals(h) \/ \E r \in Repo : E!HookRegister(h, r)
  /\ \/ UNCHANGED work
     \/ \E w \in Worker : E!WorkStep(w) \/ E!TooOld(w) \/ E!Crash(w) \/ \E t \in E!Times : E!Take(w, t)
  /\ \/ UNCHANGED purge
     \/ \E r \in Repo : E!SetConsent(r) \/ E!SetLocal(r)
     \/ E!SignOut
     \/ E!Reconcile
     \/ E!PurgeStep
  /\ \/ UNCHANGED <<received, tries>>
     \/ \E w \in Worker : E!Post(w)
  /\ \/ UNCHANGED written
     \/ \E h \in Hook : E!HookWrite(h)
  /\ \/ UNCHANGED late
     \/ \E h \in Hook : E!HookWrite(h) \/ E!HookRename(h)
  /\ \/ UNCHANGED expired
     \/ E!SignOut
     \/ \E t \in E!Times : E!Expire(t) \/ E!PurgeBatch(t)
  /\ \/ UNCHANGED spent
     \/ \E w \in Worker : E!Quarantine(w)
  /\ \/ UNCHANGED promised
     \/ E!PurgeDone

\* Whoever changes a variable is one of these.
LEMMA WhoWrites ==
  ASSUME [E!Next]_(E!vars)
  PROVE  Writers
  <1>1. ASSUME NEW h \in Hook, E!HookSeals(h)
        PROVE  Writers
    BY <1>1 DEF Writers, E!HookSeals, E!consent, E!queue, E!history
  <1>2. ASSUME NEW h \in Hook, E!HookRecheck(h)
        PROVE  Writers
    BY <1>2 DEF Writers, E!HookRecheck, E!HookStep, E!consent, E!queue, E!history
  <1>3. ASSUME NEW h \in Hook, E!HookOpen(h)
        PROVE  Writers
    BY <1>3 DEF Writers, E!HookOpen, E!HookStep, E!consent, E!queue, E!history
  <1>4. ASSUME NEW h \in Hook, E!HookWrite(h)
        PROVE  Writers
    BY <1>4 DEF Writers, E!HookWrite, E!HookStep, E!consent, E!queue, E!history
  <1>5. ASSUME NEW h \in Hook, E!HookEnds(h)
        PROVE  Writers
    BY <1>5 DEF Writers, E!HookEnds, E!HookStep, E!consent, E!queue, E!history
  <1>6. ASSUME NEW h \in Hook, E!HookName(h)
        PROVE  Writers
    BY <1>6 DEF Writers, E!HookName, E!HookStep, E!consent, E!queue, E!history
  <1>7. ASSUME NEW h \in Hook, E!HookRename(h)
        PROVE  Writers
    BY <1>7 DEF Writers, E!HookRename, E!HookStep, E!consent, E!queue, E!history
  <1>8. ASSUME NEW h \in Hook, NEW r \in Repo, E!HookRegister(h, r)
        PROVE  Writers
    BY <1>8 DEF Writers, E!HookRegister, E!consent, E!queue, E!history
  <1>9. ASSUME NEW w \in Worker, E!Post(w)
        PROVE  Writers
    BY <1>9 DEF Writers, E!Post, E!WorkStep, E!consent, E!queue, E!history
  <1>10. ASSUME NEW w \in Worker, E!PausedPost(w)
        PROVE  Writers
    BY <1>10 DEF Writers, E!PausedPost, E!WorkStep, E!consent, E!queue, E!history
  <1>11. ASSUME NEW w \in Worker, E!Sent(w)
        PROVE  Writers
    BY <1>11 DEF Writers, E!Sent, E!WorkStep, E!consent, E!queue, E!history
  <1>12. ASSUME NEW w \in Worker, E!Salvage(w)
        PROVE  Writers
    BY <1>12 DEF Writers, E!Salvage, E!WorkStep, E!consent, E!queue, E!history
  <1>13. ASSUME NEW w \in Worker, E!PostAgain(w)
        PROVE  Writers
    BY <1>13 DEF Writers, E!PostAgain, E!WorkStep, E!consent, E!queue, E!history
  <1>14. ASSUME NEW w \in Worker, E!Retry(w)
        PROVE  Writers
    BY <1>14 DEF Writers, E!Retry, E!WorkStep, E!consent, E!queue, E!history
  <1>15. ASSUME NEW w \in Worker, E!Quarantine(w)
        PROVE  Writers
    BY <1>15 DEF Writers, E!Quarantine, E!WorkStep, E!consent, E!queue, E!history
  <1>16. ASSUME NEW w \in Worker, E!Cut(w)
        PROVE  Writers
    BY <1>16 DEF Writers, E!Cut, E!WorkStep, E!consent, E!queue, E!history
  <1>17. ASSUME NEW w \in Worker, E!Close(w)
        PROVE  Writers
    BY <1>17 DEF Writers, E!Close, E!WorkStep, E!consent, E!queue, E!history
  <1>18. ASSUME NEW w \in Worker, E!TooOld(w)
        PROVE  Writers
    BY <1>18 DEF Writers, E!TooOld, E!consent, E!queue, E!history
  <1>19. ASSUME NEW w \in Worker, E!Crash(w)
        PROVE  Writers
    BY <1>19 DEF Writers, E!Crash, E!consent, E!queue, E!history
  <1>20. ASSUME NEW w \in Worker, NEW t \in E!Times, E!Take(w, t)
        PROVE  Writers
    BY <1>20 DEF Writers, E!Take, E!consent, E!queue, E!history
  <1>21. ASSUME NEW t \in E!Times, E!Expire(t)
        PROVE  Writers
    BY <1>21 DEF Writers, E!Expire, E!consent, E!queue, E!history
  <1>22. ASSUME NEW r \in Repo, E!SetConsent(r)
        PROVE  Writers
    BY <1>22 DEF Writers, E!SetConsent, E!consent, E!queue, E!history
  <1>23. ASSUME NEW r \in Repo, E!SetLocal(r)
        PROVE  Writers
    BY <1>23 DEF Writers, E!SetLocal, E!consent, E!queue, E!history
  <1>24. ASSUME NEW r \in Repo, E!SetScope(r)
        PROVE  Writers
    BY <1>24 DEF Writers, E!SetScope, E!consent, E!queue, E!history
  <1>25. ASSUME E!Tick
        PROVE  Writers
    BY <1>25 DEF Writers, E!Tick, E!consent, E!queue, E!history
  <1>26. ASSUME E!SetPause
        PROVE  Writers
    BY <1>26 DEF Writers, E!SetPause, E!consent, E!queue, E!history
  <1>27. ASSUME E!SignOut
        PROVE  Writers
    BY <1>27 DEF Writers, E!SignOut, E!consent, E!queue, E!history
  <1>28. ASSUME E!Reconcile
        PROVE  Writers
    BY <1>28 DEF Writers, E!Reconcile, E!consent, E!queue, E!history
  <1>29. ASSUME E!PurgeSeal
        PROVE  Writers
    BY <1>29 DEF Writers, E!PurgeSeal, E!PurgeStep, E!consent, E!queue, E!history
  <1>30. ASSUME E!PurgeList
        PROVE  Writers
    BY <1>30 DEF Writers, E!PurgeList, E!PurgeStep, E!consent, E!queue, E!history
  <1>31. ASSUME E!PurgeDone
        PROVE  Writers
    BY <1>31 DEF Writers, E!PurgeDone, E!PurgeStep, E!consent, E!queue, E!history
  <1>32. ASSUME NEW t \in E!Times, E!PurgeBatch(t)
        PROVE  Writers
    BY <1>32 DEF Writers, E!PurgeBatch, E!PurgeStep, E!consent, E!queue, E!history
  <1>33. CASE UNCHANGED E!vars
    BY <1>33 DEF Writers, E!vars, E!consent, E!queue, E!history
  <1>34. QED
    BY <1>1, <1>2, <1>3, <1>4, <1>5, <1>6, <1>7, <1>8, <1>9, <1>10, <1>11, <1>12, <1>13, <1>14, <1>15, <1>16, <1>17, <1>18, <1>19, <1>20, <1>21, <1>22, <1>23, <1>24, <1>25, <1>26, <1>27, <1>28, <1>29, <1>30, <1>31, <1>32, <1>33 DEF E!Next, E!HookStep, E!WorkStep, E!PurgeStep

-----------------------------------------------------------------------------
(* What reading and purging a batch does.                                    *)

Content(t) == UNION {files[i].rows : i \in E!File("sealed", t)}
Copies(t)  == (UNION {files[i].rows : i \in E!File("sealed", t) \cup E!File("sent", t)}) \cup poison[t]
Over(x)    == x.epoch # repo[x.repo].epoch \/ x.token \in revoked'[x.repo]

Grown ==
  /\ revoked' \in [Repo -> SUBSET Nat]
  /\ \A r \in Repo : revoked[r] \subseteq revoked'[r] /\ revoked'[r] \subseteq 1 .. repo[r].token - 1

\* A worker drops the rows of a batch whose consent is over and sorts the rest.
Reads(w, t, kept, held) ==
  /\ kept \in SUBSET Rows /\ kept \subseteq Content(t) /\ held \subseteq kept
  /\ Grown /\ UNCHANGED repo
  /\ \A x \in Content(t) \ kept : x.whole /\ Over(x)
  /\ \A x \in kept \ held : x.whole =>
       x.token = repo[x.repo].token /\ x.epoch = repo[x.repo].epoch /\ repo[x.repo].shared
  /\ files' = E!Replaced(t, kept)
  /\ \/ UNCHANGED meta
     \/ kept = {} /\ meta' = [meta EXCEPT ![t] = E!NoMeta]
  /\ work' = [work EXCEPT ![w] = work'[w]]
  /\ work'[w] \in [pc : {IF kept \ held = {} THEN "close" ELSE "post"}, ts : {t}, ready : {kept \ held},
                   held : {held}, again : BOOLEAN, spends : {work[w].spends}]

LEMMA ContentRows ==
  ASSUME Typed, NEW t \in E!Times
  PROVE  Content(t) \subseteq Rows /\ Copies(t) \subseteq Rows
  <1>1. \A i \in E!Ids : files[i].rows \subseteq Rows
    BY FileParts
  <1>2. poison[t] \subseteq Rows
    BY DEF Typed
  <1>3. QED
    BY <1>1, <1>2 DEF Content, Copies, E!File

\* What a worker does is one of these things.
WorkSet == [pc : WorkPC, ts : Nat, ready : SUBSET Rows, held : SUBSET Rows, again : BOOLEAN, spends : BOOLEAN]
LEMMA WorkParts ==
  ASSUME Typed, NEW w \in Worker
  PROVE  /\ work[w] \in WorkSet /\ work \in [Worker -> WorkSet]
         /\ work[w].pc \in WorkPC /\ work[w].ts \in Nat /\ work[w].ready \subseteq Rows
         /\ work[w].held \subseteq Rows /\ work[w].again \in BOOLEAN /\ work[w].spends \in BOOLEAN
  BY DEF Typed, WorkSet

\* A sorted batch.
LEMMA Sorting ==
  ASSUME Typed, NEW t \in E!Times, NEW seen, seen = E!Seen(E!ReposOf(Content(t))), revoked' = seen, UNCHANGED repo,
         NEW kept, kept = Content(t) \ E!Dropped(Content(t), seen)
  PROVE  /\ kept \in SUBSET Rows /\ kept \subseteq Content(t) /\ E!Held(kept) \subseteq kept
         /\ Grown
         /\ \A x \in Content(t) \ kept : x.whole /\ Over(x)
         /\ \A x \in kept \ E!Held(kept) : x.whole =>
              x.token = repo[x.repo].token /\ x.epoch = repo[x.repo].epoch /\ repo[x.repo].shared
  <1>1. Content(t) \in SUBSET Rows
    BY ContentRows
  <1>2. Grown
    BY SeenTokens DEF Grown
  <1>3. kept \in SUBSET Rows /\ kept \subseteq Content(t) /\ E!Held(kept) \subseteq kept
    BY <1>1, DroppedRows
  <1>4. \A x \in Content(t) \ kept : x.whole /\ Over(x)
    BY DEF E!Dropped, Over
  <1>5. ASSUME NEW x \in kept \ E!Held(kept), x.whole
        PROVE  x.token = repo[x.repo].token /\ x.epoch = repo[x.repo].epoch /\ repo[x.repo].shared
    BY <1>5 DEF E!Dropped, E!Held, E!Allowed
  <1>6. QED
    BY <1>2, <1>3, <1>4, <1>5

\* A worker that takes a batch sorts it, ...
LEMMA TakeReads ==
  ASSUME Typed, NEW w \in Worker, NEW t \in E!Times, E!Take(w, t)
  PROVE  \E kept, held : Reads(w, t, kept, held)
  <1> DEFINE seen == E!Seen(E!ReposOf(Content(t)))
             kept == Content(t) \ E!Dropped(Content(t), seen)
             new  == [work[w] EXCEPT !.pc = IF kept \ E!Held(kept) = {} THEN "close" ELSE "post",
                                     !.ts = t, !.ready = kept \ E!Held(kept), !.held = E!Held(kept)]
  <1>1. /\ revoked' = seen /\ files' = E!Replaced(t, kept) /\ UNCHANGED repo
        /\ work' = [work EXCEPT ![w] = new]
        /\ meta' = IF kept = {} THEN [meta EXCEPT ![t] = E!NoMeta] ELSE meta
    BY DEF E!Take, E!Prune, Content, E!consent
  <1>2. work[w] \in WorkSet /\ work \in [Worker -> WorkSet]
    BY WorkParts
  <1> HIDE DEF kept
  <1>3. new \in [pc : {IF kept \ E!Held(kept) = {} THEN "close" ELSE "post"}, ts : {t}, ready : {kept \ E!Held(kept)},
                 held : {E!Held(kept)}, again : BOOLEAN, spends : {work[w].spends}]
    BY <1>2 DEF WorkSet
  <1> HIDE DEF new
  <1>4. work'[w] = new /\ work' = [work EXCEPT ![w] = work'[w]]
    BY <1>1, <1>2
  <1>5. /\ kept \in SUBSET Rows /\ kept \subseteq Content(t) /\ E!Held(kept) \subseteq kept
        /\ Grown
        /\ \A x \in Content(t) \ kept : x.whole /\ Over(x)
        /\ \A x \in kept \ E!Held(kept) : x.whole =>
             x.token = repo[x.repo].token /\ x.epoch = repo[x.repo].epoch /\ repo[x.repo].shared
    BY <1>1, Sorting DEF kept
  <1>6. Reads(w, t, kept, E!Held(kept))
    BY <1>1, <1>3, <1>4, <1>5 DEF Reads
  <1>7. QED
    BY <1>6

\* ... and again after a salvage.
LEMMA PostAgainReads ==
  ASSUME Typed, NEW w \in Worker, E!PostAgain(w), work[w].ts \in E!Times
  PROVE  \E kept, held : Reads(w, work[w].ts, kept, held)
  <1> DEFINE t    == work[w].ts
             seen == E!Seen(E!ReposOf(Content(t)))
             kept == Content(t) \ E!Dropped(Content(t), seen)
             new  == [work[w] EXCEPT !.pc = IF kept \ E!Held(kept) = {} THEN "close" ELSE "post",
                                     !.ready = kept \ E!Held(kept), !.held = E!Held(kept), !.again = TRUE]
  <1>1. /\ revoked' = seen /\ files' = E!Replaced(t, kept) /\ UNCHANGED repo
        /\ meta' = IF kept = {} THEN [meta EXCEPT ![t] = E!NoMeta] ELSE meta
    BY DEF E!PostAgain, E!RowsOf, E!Batch, Content, E!consent
  <1>2. work[w] \in WorkSet /\ work \in [Worker -> WorkSet]
    BY WorkParts
  <1>3. work' = [work EXCEPT ![w] = new]
    BY <1>2 DEF E!PostAgain, E!RowsOf, E!Batch, Content, WorkSet
  <1> HIDE DEF kept
  <1>4. new \in [pc : {IF kept \ E!Held(kept) = {} THEN "close" ELSE "post"}, ts : {t}, ready : {kept \ E!Held(kept)},
                 held : {E!Held(kept)}, again : BOOLEAN, spends : {work[w].spends}]
    BY <1>2 DEF WorkSet
  <1> HIDE DEF new
  <1>5. work'[w] = new /\ work' = [work EXCEPT ![w] = work'[w]]
    BY <1>2, <1>3
  <1>6. /\ kept \in SUBSET Rows /\ kept \subseteq Content(t) /\ E!Held(kept) \subseteq kept
        /\ Grown
        /\ \A x \in Content(t) \ kept : x.whole /\ Over(x)
        /\ \A x \in kept \ E!Held(kept) : x.whole =>
             x.token = repo[x.repo].token /\ x.epoch = repo[x.repo].epoch /\ repo[x.repo].shared
    BY <1>1, Sorting DEF kept
  <1>7. Reads(w, t, kept, E!Held(kept))
    BY <1>1, <1>4, <1>5, <1>6 DEF Reads
  <1>8. QED
    BY <1>7

\* A purge takes rows whose consent is over from the copies of a batch, all of them, ...
Prunes(t, out) ==
  /\ out \in SUBSET Copies(t) /\ Grown
  /\ \A x \in out : x.whole /\ Over(x)
  /\ \A x \in Copies(t) \ out : x.whole =>
       /\ x.epoch = repo[x.repo].epoch
       /\ ~ repo[x.repo].shared => x.token \notin 1 .. repo[x.repo].token - 1
  /\ poison' = [poison EXCEPT ![t] = @ \ out]
  /\ files' \in [E!Ids -> FileSet]
  /\ \A i \in E!Ids :
       \/ files'[i] = files[i] /\ (i \notin E!File("sealed", t) \cup E!File("sent", t) \/ files[i].rows \cap out = {})
       \/ /\ i \in E!File("sealed", t) \cup E!File("sent", t) /\ files[i].rows \subseteq out
          /\ files'[i].at = "gone" /\ files'[i].ts = files[i].ts /\ files'[i].rows = files[i].rows
       \/ /\ i \in E!File("sealed", t) \cup E!File("sent", t)
          /\ files'[i].at = files[i].at /\ files'[i].ts = files[i].ts
          /\ files'[i].rows = files[i].rows \ out /\ files'[i].rows # {}

LEMMA PrunedPrunes ==
  ASSUME Typed, NEW t \in E!Times, E!Pruned(t)
  PROVE  \E out : Prunes(t, out)
  <1> DEFINE out == E!Dropped(Copies(t), E!Seen(E!ReposOf(Copies(t))))
  <1>1. /\ revoked' = E!Seen(E!ReposOf(Copies(t)))
        /\ poison' = [poison EXCEPT ![t] = @ \ out]
        /\ files' \in [E!Ids -> FileSet]
        /\ \A i \in E!Ids :
             \/ files'[i] = files[i] /\ (i \notin E!File("sealed", t) \cup E!File("sent", t) \/ files[i].rows \cap out = {})
             \/ /\ i \in E!File("sealed", t) \cup E!File("sent", t) /\ files[i].rows \subseteq out
                /\ files'[i].at = "gone" /\ files'[i].ts = files[i].ts /\ files'[i].rows = files[i].rows
             \/ /\ i \in E!File("sealed", t) \cup E!File("sent", t)
                /\ files'[i].at = files[i].at /\ files'[i].ts = files[i].ts
                /\ files'[i].rows = files[i].rows \ out /\ files'[i].rows # {}
    BY PrunedRows DEF Copies
  <1>2. Copies(t) \in SUBSET Rows
    BY ContentRows
  <1>3. Grown
    BY <1>1, SeenTokens DEF Grown
  <1>4. \A x \in out : x.whole /\ Over(x)
    BY <1>1 DEF E!Dropped, Over
  <1>5. ASSUME NEW x \in Copies(t) \ out, x.whole
        PROVE  /\ x.epoch = repo[x.repo].epoch
               /\ ~ repo[x.repo].shared => x.token \notin 1 .. repo[x.repo].token - 1
    <2>1. x.epoch = repo[x.repo].epoch /\ x.token \notin E!Seen(E!ReposOf(Copies(t)))[x.repo]
      BY <1>5 DEF E!Dropped
    <2>2. x.repo \in E!ReposOf(Copies(t)) /\ x.repo \in Repo
      BY <1>2, <1>5 DEF E!ReposOf, Rows, E!Row
    <2>3. QED
      BY <2>1, <2>2, SeenTokens
  <1>6. out \in SUBSET Copies(t)
    BY DEF E!Dropped
  <1> HIDE DEF out
  <1>7. Prunes(t, out)
    BY <1>1, <1>3, <1>4, <1>5, <1>6 DEF Prunes
  <1>8. QED
    BY <1>7

-----------------------------------------------------------------------------
(* Types.                                                                    *)

\* The rows stay numbered, and what has failed has failed.
LEMMA TriesStay ==
  ASSUME Typed, [E!Next]_(E!vars)
  PROVE  /\ Rows' = Rows /\ DOMAIN tries' = DOMAIN tries /\ tries' \in [DOMAIN tries -> Nat]
         /\ \A n \in DOMAIN tries : tries[n] \in Nat /\ tries'[n] \in Nat /\ tries[n] <= tries'[n]
  <1>1. tries \in [DOMAIN tries -> Nat]
    BY DEF Typed
  <1>2. UNCHANGED tries \/ \E w \in Worker : E!Failed(w)
    <2>1. ASSUME NEW w \in Worker, E!Post(w)
          PROVE  UNCHANGED tries \/ E!Failed(w)
      BY <2>1 DEF E!Post
    <2>2. QED
      BY <2>1, WhoWrites DEF Writers
  <1>3. /\ DOMAIN tries' = DOMAIN tries
        /\ \A n \in DOMAIN tries : tries'[n] \in {tries[n], tries[n] + 1}
        /\ tries' = [n \in DOMAIN tries |-> tries'[n]]
    BY <1>1, <1>2 DEF E!Failed
  <1>4. QED
    BY <1>1, <1>3 DEF Rows

\* The consent record keeps its form.
RepoSet == [shared : BOOLEAN, local : BOOLEAN, scope : BOOLEAN, token : Nat \ {0}, epoch : Nat]
LEMMA RepoStep ==
  ASSUME Typed, [E!Next]_(E!vars)
  PROVE  /\ repo' \in [Repo -> RepoSet]
         /\ \A r \in Repo : repo[r].token <= repo'[r].token /\ repo[r].epoch <= repo'[r].epoch
  <1>0. repo \in [Repo -> RepoSet]
    BY DEF Typed, RepoSet
  <1>1. CASE UNCHANGED repo
    BY <1>0, <1>1 DEF RepoSet
  <1>2. ASSUME NEW r \in Repo, E!SetConsent(r) \/ E!SetLocal(r) \/ E!SetScope(r)
        PROVE  \E x \in RepoSet : /\ repo' = [repo EXCEPT ![r] = x]
                                  /\ repo[r].token <= x.token /\ repo[r].epoch <= x.epoch
    <2>0. repo[r] \in RepoSet
      BY <1>0
    <2>5. repo[r].shared \in BOOLEAN /\ repo[r].local \in BOOLEAN /\ repo[r].token \in Nat /\ repo[r].epoch \in Nat
      BY <2>0 DEF RepoSet
    <2>1. CASE E!SetConsent(r)
      <3>1. ASSUME NEW a \in BOOLEAN, NEW b \in Nat \ {0}, repo[r].token <= b
            PROVE  /\ [repo[r] EXCEPT !.shared = a, !.token = b] \in RepoSet
                   /\ repo[r].token <= [repo[r] EXCEPT !.shared = a, !.token = b].token
                   /\ repo[r].epoch <= [repo[r] EXCEPT !.shared = a, !.token = b].epoch
        <4>1. [repo[r] EXCEPT !.shared = a, !.token = b] \in RepoSet
          BY <2>0 DEF RepoSet
        <4>2. QED
          BY <2>0, <2>5, <3>1, <4>1 DEF RepoSet
      <3>2. repo' = [repo EXCEPT ![r] = [repo[r] EXCEPT !.shared = ~ repo[r].shared, !.token = repo[r].token + 1]]
        BY <2>1 DEF E!SetConsent
      <3>3. (~ repo[r].shared) \in BOOLEAN /\ repo[r].token + 1 \in Nat \ {0} /\ repo[r].token <= repo[r].token + 1
        BY <2>5
      <3>4. QED
        BY <3>1, <3>2, <3>3
    <2>2. CASE E!SetLocal(r)
      <3> DEFINE b == IF repo[r].local THEN repo[r].epoch + 1 ELSE repo[r].epoch
      <3>1. ASSUME NEW a \in BOOLEAN, NEW c \in Nat, repo[r].epoch <= c
            PROVE  /\ [repo[r] EXCEPT !.local = a, !.epoch = c] \in RepoSet
                   /\ repo[r].token <= [repo[r] EXCEPT !.local = a, !.epoch = c].token
                   /\ repo[r].epoch <= [repo[r] EXCEPT !.local = a, !.epoch = c].epoch
        <4>1. [repo[r] EXCEPT !.local = a, !.epoch = c] \in RepoSet
          BY <2>0 DEF RepoSet
        <4>2. QED
          BY <2>0, <2>5, <3>1, <4>1 DEF RepoSet
      <3>2. repo' = [repo EXCEPT ![r] = [repo[r] EXCEPT !.local = ~ repo[r].local, !.epoch = b]]
        BY <2>2 DEF E!SetLocal
      <3>3. (~ repo[r].local) \in BOOLEAN /\ b \in Nat /\ repo[r].epoch <= b
        BY <2>5
      <3> HIDE DEF b
      <3>4. QED
        BY <3>1, <3>2, <3>3
    <2>3. CASE E!SetScope(r)
      <3>1. ASSUME NEW a \in BOOLEAN
            PROVE  /\ [repo[r] EXCEPT !.scope = a] \in RepoSet
                   /\ repo[r].token <= [repo[r] EXCEPT !.scope = a].token
                   /\ repo[r].epoch <= [repo[r] EXCEPT !.scope = a].epoch
        <4>1. [repo[r] EXCEPT !.scope = a] \in RepoSet
          BY <2>0 DEF RepoSet
        <4>2. QED
          BY <2>0, <2>5, <4>1 DEF RepoSet
      <3>2. repo' = [repo EXCEPT ![r] = [repo[r] EXCEPT !.scope = ~ repo[r].scope]]
        BY <2>3 DEF E!SetScope
      <3>3. (~ repo[r].scope) \in BOOLEAN
        OBVIOUS
      <3>4. QED
        BY <3>1, <3>2, <3>3
    <2>4. QED
      BY <1>2, <2>1, <2>2, <2>3
  <1>3. ASSUME NEW r \in Repo, NEW x \in RepoSet, repo' = [repo EXCEPT ![r] = x],
               repo[r].token <= x.token, repo[r].epoch <= x.epoch
        PROVE  /\ repo' \in [Repo -> RepoSet]
               /\ \A k \in Repo : repo[k].token <= repo'[k].token /\ repo[k].epoch <= repo'[k].epoch
    <2>1. \A k \in Repo : repo[k].token \in Nat /\ repo[k].epoch \in Nat
      BY <1>0 DEF RepoSet
    <2>2. \A k \in Repo : repo'[k] = IF k = r THEN x ELSE repo[k]
      BY <1>0, <1>3
    <2>3. QED
      BY <1>0, <1>3, <2>1, <2>2
  <1>4. QED
    BY <1>1, <1>2, <1>3, WhoWrites DEF Writers

\* Revoked tokens grow, and are earlier ones.
LEMMA RevokedStep ==
  ASSUME Typed, Locked, [E!Next]_(E!vars)
  PROVE  /\ revoked' \in [Repo -> SUBSET Nat]
         /\ \A r \in Repo : revoked[r] \subseteq revoked'[r] /\ revoked'[r] \subseteq 1 .. repo'[r].token - 1
  <1>0. /\ revoked \in [Repo -> SUBSET Nat] /\ \A r \in Repo : revoked[r] \subseteq 1 .. repo[r].token - 1
        /\ \A r \in Repo : repo[r].token \in Nat
    BY DEF Typed
  <1>1. \A r \in Repo : repo'[r].token \in Nat /\ repo[r].token <= repo'[r].token
    BY RepoStep DEF RepoSet
  <1>2. UNCHANGED revoked \/ Grown
    <2>1. ASSUME NEW w \in Worker, E!PostAgain(w) \/ E!Close(w)
          PROVE  Grown
      <3>1. work[w].ts \in E!Times
        BY <2>1 DEF Locked, E!PostAgain, E!Close, E!At
      <3>2. CASE E!PostAgain(w)
        BY <3>1, <3>2, PostAgainReads DEF Reads
      <3>3. CASE E!Close(w)
        BY <3>1, <3>3, PrunedPrunes DEF E!Close, Prunes
      <3>4. QED
        BY <2>1, <3>2, <3>3
    <2>2. ASSUME NEW w \in Worker, NEW t \in E!Times, E!Take(w, t)
          PROVE  Grown
      BY <2>2, TakeReads DEF Reads
    <2>3. ASSUME NEW t \in E!Times, E!PurgeBatch(t)
          PROVE  UNCHANGED revoked \/ Grown
      BY <2>3, PrunedPrunes DEF E!PurgeBatch, Prunes
    <2>4. ASSUME E!PurgeSeal
          PROVE  Grown
      BY <2>4, SeenTokens DEF E!PurgeSeal, Grown
    <2>5. QED
      BY <2>1, <2>2, <2>3, <2>4, WhoWrites DEF Writers
  <1>3. \A r \in Repo : 1 .. repo[r].token - 1 \subseteq 1 .. repo'[r].token - 1
    BY <1>0, <1>1
  <1>4. QED
    BY <1>0, <1>2, <1>3 DEF Grown

\* Hooks keep their form.
HookSet == [pc : RecorderPC, row : Rows \cup {None}, fd : Nat, ts : Nat]
LEMMA HookTypeStep ==
  ASSUME Typed, Carried, [E!Next]_(E!vars)
  PROVE  recorder' \in [Hook -> HookSet]
  <1>0. recorder \in [Hook -> HookSet] /\ E!NoHook \in HookSet
    BY DEF Typed, HookSet, E!NoHook, RecorderPC
  <1>1. ASSUME NEW h \in Hook, NEW x \in HookSet, recorder' = [recorder EXCEPT ![h] = x]
        PROVE  recorder' \in [Hook -> HookSet]
    BY <1>0, <1>1
  <1>2. ASSUME NEW h \in Hook, NEW r \in Repo, E!HookRegister(h, r)
        PROVE  recorder' \in [Hook -> HookSet]
    <2> DEFINE row == [n |-> left["rows"], repo |-> r, token |-> repo[r].token, epoch |-> repo[r].epoch, whole |-> TRUE]
    <2>1. left["rows"] \in Nat /\ left["rows"] # 0 /\ 1 .. left["rows"] \subseteq DOMAIN tries
      BY <1>2 DEF E!HookRegister, E!Spend, Typed
    <2>2. repo[r].token \in Nat \ {0} /\ repo[r].epoch \in Nat
      BY DEF Typed
    <2>3. row \in Rows
      BY <2>1, <2>2 DEF Rows, E!Row
    <2> HIDE DEF row
    <2>4. [recorder[h] EXCEPT !.pc = "recheck", !.row = row] \in HookSet
      BY <1>0, <2>3 DEF HookSet, RecorderPC
    <2>5. recorder' = [recorder EXCEPT ![h] = [recorder[h] EXCEPT !.pc = "recheck", !.row = row]]
      BY <1>0, <1>2 DEF E!HookRegister, row, HookSet
    <2>6. QED
      BY <1>1, <2>4, <2>5
  <1>3. ASSUME NEW h \in Hook, E!HookOpen(h)
        PROVE  recorder' \in [Hook -> HookSet]
    <2>1. ASSUME NEW S \in SUBSET E!Ids, S # {}
          PROVE  E!Min(S) \in Nat
      <3>1. S \in SUBSET Nat
        BY DEF E!Ids
      <3>2. QED
        BY <2>1, <3>1, MinIsLeast
    <2>2. PICK fd \in Nat : recorder' = [recorder EXCEPT ![h].pc = "write", ![h].fd = fd]
      BY <1>3, <2>1 DEF E!HookOpen, E!Active
    <2>3. QED
      BY <1>0, <2>2 DEF HookSet, RecorderPC
  <1>4. ASSUME NEW h \in Hook, E!HookName(h)
        PROVE  recorder' \in [Hook -> HookSet]
    <2>1. E!FreeNames # {} => E!FreeName \in Nat
      BY MinIsLeast DEF E!FreeName, E!FreeNames, E!Times
    <2>2. CASE E!Active = {}
      BY <1>0, <1>4, <2>2 DEF E!HookName
    <2>3. CASE E!Active # {}
      BY <1>0, <1>4, <2>1, <2>3 DEF E!HookName, HookSet, RecorderPC
    <2>4. QED
      BY <2>2, <2>3
  <1>5. ASSUME NEW h \in Hook, E!HookRecheck(h) \/ E!HookWrite(h) \/ E!HookEnds(h) \/ E!HookRename(h) \/ E!HookSeals(h)
        PROVE  recorder' \in [Hook -> HookSet]
    <2>1. [E!NoHook EXCEPT !.pc = "ended"] \in HookSet /\ [recorder[h] EXCEPT !.pc = "name"] \in HookSet
          /\ [recorder[h] EXCEPT !.pc = "open"] \in HookSet
      BY <1>0 DEF HookSet, RecorderPC
    <2>2. CASE E!HookRecheck(h)
      BY <1>0, <2>1, <2>2 DEF E!HookRecheck
    <2>3. CASE E!HookWrite(h)
      BY <1>0, <2>1, <2>3 DEF E!HookWrite
    <2>4. CASE E!HookEnds(h) \/ E!HookRename(h)
      BY <1>0, <2>4 DEF E!HookEnds, E!HookRename
    <2>5. CASE E!HookSeals(h)
      BY <1>0, <2>5 DEF E!HookSeals, HookSet, RecorderPC
    <2>6. QED
      BY <1>5, <2>2, <2>3, <2>4, <2>5
  <1>6. QED
    BY <1>0, <1>2, <1>3, <1>4, <1>5, WhoWrites DEF Writers, E!HookStep

\* A hook opens the active log, or a new one when there is none.
LEMMA OpenedFile ==
  ASSUME NEW h \in Hook, E!HookOpen(h)
  PROVE  \E fd \in E!Ids : /\ fd \in E!Active \/ (E!Active = {} /\ files[fd].at = "none")
                        /\ files' = [files EXCEPT ![fd].at = "active"]
                        /\ recorder' = [recorder EXCEPT ![h].pc = "write", ![h].fd = fd]
  <1> DEFINE Free == {i \in E!Ids : files[i].at = "none"}
  <1>1. ASSUME NEW S \in SUBSET E!Ids, S # {}
        PROVE  E!Min(S) \in S
    <2>1. S \in SUBSET Nat
      BY DEF E!Ids
    <2>2. QED
      BY <1>1, <2>1, MinIsLeast
  <1>2. CASE E!Active = {}
    <2>1. E!Min(Free) \in Free
      <3>1. Free # {}
        BY <1>2 DEF E!HookOpen
      <3>2. QED
        BY <1>1, <3>1
    <2>2. /\ files' = [files EXCEPT ![E!Min(Free)].at = "active"]
          /\ recorder' = [recorder EXCEPT ![h].pc = "write", ![h].fd = E!Min(Free)]
      BY <1>2 DEF E!HookOpen
    <2>3. QED
      BY <1>2, <2>1, <2>2
  <1>3. CASE E!Active # {}
    <2>1. E!Min(E!Active) \in E!Active /\ E!Active \subseteq E!Ids
      BY <1>1, <1>3 DEF E!Active
    <2>2. /\ files' = [files EXCEPT ![E!Min(E!Active)].at = "active"]
          /\ recorder' = [recorder EXCEPT ![h].pc = "write", ![h].fd = E!Min(E!Active)]
      BY <1>3 DEF E!HookOpen
    <2>3. QED
      BY <2>1, <2>2
  <1>4. QED
    BY <1>2, <1>3


\* Log files keep their form.
LEMMA FilesTypeStep ==
  ASSUME Typed, Carried, Locked, [E!Next]_(E!vars)
  PROVE  files' \in [E!Ids -> FileSet]
  <1>0. files \in [E!Ids -> FileSet] /\ \A i \in E!Ids : files[i] \in FileSet
    BY FileParts DEF Typed, FileSet
  <1>1. ASSUME NEW h \in Hook, E!HookOpen(h)
        PROVE  files' \in [E!Ids -> FileSet]
    <2>2. PICK fd \in E!Ids : files' = [files EXCEPT ![fd].at = "active"]
      BY <1>1, OpenedFile
    <2>3. QED
      BY <1>0, <2>2 DEF FileSet, Places
  <1>2. ASSUME NEW h \in Hook, E!HookWrite(h)
        PROVE  files' \in [E!Ids -> FileSet]
    <2> DEFINE fd == recorder[h].fd
    <2>1. fd \in E!Ids /\ recorder[h].row \in Rows
      BY <1>2 DEF E!HookWrite, Carried
    <2>2. [recorder[h].row EXCEPT !.whole = FALSE] \in Rows
      BY <2>1 DEF Rows, E!Row
    <2>3. \E x \in Rows : files' = [files EXCEPT ![fd].rows = @ \cup {x}]
      BY <1>2, <2>1, <2>2 DEF E!HookWrite
    <2>4. ASSUME NEW x \in Rows
          PROVE  [files EXCEPT ![fd].rows = @ \cup {x}] \in [E!Ids -> FileSet]
      BY <1>0, <2>1 DEF FileSet
    <2>5. QED
      BY <2>3, <2>4
  <1>3. ASSUME NEW h \in Hook, E!HookRename(h)
        PROVE  files' \in [E!Ids -> FileSet]
    <2>1. recorder[h].ts \in E!Times
      BY <1>3 DEF E!HookRename, Carried
    <2>2. QED
      BY <1>0, <1>3, <2>1, RenamedFiles DEF E!HookRename
  <1>4. ASSUME NEW w \in Worker, NEW t \in E!Times, NEW kept, NEW held, Reads(w, t, kept, held)
        PROVE  files' \in [E!Ids -> FileSet]
    BY <1>4, ReplacedFiles DEF Reads
  <1>5. ASSUME NEW w \in Worker, E!Sent(w) \/ E!Salvage(w) \/ E!PostAgain(w) \/ E!Quarantine(w) \/ E!Cut(w) \/ E!Close(w)
        PROVE  files' \in [E!Ids -> FileSet]
    <2>1. work[w].ts \in E!Times
      BY <1>5 DEF Locked, E!Sent, E!Salvage, E!PostAgain, E!Quarantine, E!Cut, E!Close, E!At
    <2>2. work[w].ready \subseteq Rows /\ work[w].held \subseteq Rows
      BY WorkParts
    <2>3. CASE E!Sent(w)
      <3>1. CASE work[w].held # {}
        BY <2>1, <2>2, <2>3, <3>1, ReplacedFiles DEF E!Sent
      <3>2. CASE work[w].held = {}
        BY <1>0, <2>3, <3>2, MovedFile DEF E!Sent, Places
      <3>3. QED
        BY <3>1, <3>2
    <2>4. CASE E!Salvage(w)
      <3> DEFINE rows == {x \in work[w].ready : x.whole} \cup work[w].held
      <3>1. rows \in SUBSET Rows
        BY <2>2
      <3>2. UNCHANGED files \/ files' = E!Replaced(work[w].ts, rows)
        BY <2>4 DEF E!Salvage
      <3> HIDE DEF rows
      <3>3. QED
        BY <1>0, <2>1, <3>1, <3>2, ReplacedFiles
    <2>5. CASE E!PostAgain(w)
      BY <1>4, <2>1, <2>5, PostAgainReads
    <2>6. CASE E!Quarantine(w)
      <3>1. UNCHANGED files \/ files' = E!Replaced(work[w].ts, {})
        BY <2>6 DEF E!Quarantine
      <3>2. QED
        BY <1>0, <2>1, <3>1, ReplacedFiles
    <2>7. CASE E!Cut(w)
      BY <2>1, <2>2, <2>7, ReplacedFiles DEF E!Cut
    <2>8. CASE E!Close(w)
      BY <2>1, <2>8, PrunedPrunes DEF E!Close, Prunes
    <2>9. QED
      BY <1>5, <2>3, <2>4, <2>5, <2>6, <2>7, <2>8
  <1>6. ASSUME NEW w \in Worker, NEW t \in E!Times, E!Take(w, t)
        PROVE  files' \in [E!Ids -> FileSet]
    BY <1>4, <1>6, TakeReads
  <1>7. ASSUME NEW t \in E!Times, E!Expire(t)
        PROVE  files' \in [E!Ids -> FileSet]
    BY <1>7, ReplacedFiles DEF E!Expire
  <1>8. ASSUME NEW t \in E!Times, E!PurgeBatch(t)
        PROVE  files' \in [E!Ids -> FileSet]
    <2>1. CASE UNCHANGED files
      BY <1>0, <2>1
    <2>2. CASE files' = [i \in E!Ids |-> IF i \in E!File("sealed", t) \cup E!File("sent", t)
                                       THEN [files[i] EXCEPT !.at = "gone"] ELSE files[i]]
      BY <1>0, <2>2, MovedFile DEF Places
    <2>3. CASE E!Pruned(t)
      BY <2>3, PrunedPrunes DEF Prunes
    <2>4. QED
      BY <1>8, <2>1, <2>2, <2>3 DEF E!PurgeBatch
  <1>9. ASSUME E!SignOut
        PROVE  files' \in [E!Ids -> FileSet]
    BY <1>0, <1>9, MovedFile DEF E!SignOut, Places
  <1>10. ASSUME E!PurgeSeal
        PROVE  files' \in [E!Ids -> FileSet]
    <2>1. CASE UNCHANGED files
      BY <1>0, <2>1
    <2>2. CASE E!Active # {} /\ files' = E!Renamed(E!FreeName)
      <3>1. E!FreeNames # {} /\ E!FreeNames \in SUBSET Nat /\ E!FreeNames \subseteq E!Times
        BY <1>10, <2>2 DEF E!PurgeSeal, E!FreeNames, E!Times
      <3>2. E!FreeName \in E!Times
        BY <3>1, MinIsLeast DEF E!FreeName
      <3>3. QED
        BY <2>2, <3>2, RenamedFiles
    <2>3. QED
      BY <1>10, <2>1, <2>2 DEF E!PurgeSeal
  <1>11. QED
    BY <1>0, <1>1, <1>2, <1>3, <1>5, <1>6, <1>7, <1>8, <1>9, <1>10, WhoWrites DEF Writers

\* Records of attempts keep their form.
MetaSet == [attempts : Counts, payload : SUBSET Rows]
LEMMA MetaTypeStep ==
  ASSUME E!Constants, Typed, Locked, [E!Next]_(E!vars)
  PROVE  meta' \in [E!Times -> MetaSet]
  <1>0. meta \in [E!Times -> MetaSet] /\ E!NoMeta \in MetaSet
    BY DEF Typed, MetaSet, E!NoMeta, Counts, E!Constants
  <1>1. \A t : [meta EXCEPT ![t] = E!NoMeta] \in [E!Times -> MetaSet]
    BY <1>0
  <1>2. ASSUME NEW w \in Worker, E!Retry(w)
        PROVE  meta' \in [E!Times -> MetaSet]
    <2> DEFINE t == work[w].ts
               n == E!Attempts(meta[t], work[w].ready, work[w].held)
    <2>1. t \in E!Times
      BY <1>2 DEF Locked, E!Retry, E!At
    <2>2. n \in Nat
      <3>1. meta[t].attempts \in Nat
        BY <1>0, <2>1 DEF MetaSet, Counts
      <3>2. QED
        BY <3>1 DEF E!Attempts
    <2>3. CASE UNCHANGED meta
      BY <1>0, <2>3
    <2>4. CASE ~ E!Enough(n) /\ meta' = [meta EXCEPT ![t] = [attempts |-> n, payload |-> work[w].ready]]
      <3>1. n \in Counts
        BY <2>2, <2>4 DEF E!Enough, Counts, E!Constants
      <3>2. work[w].ready \subseteq Rows
        BY WorkParts
      <3> HIDE DEF n
      <3>3. [attempts |-> n, payload |-> work[w].ready] \in MetaSet
        BY <3>1, <3>2 DEF MetaSet
      <3>4. QED
        BY <1>0, <2>4, <3>3
    <2>5. QED
      BY <1>2, <2>3, <2>4 DEF E!Retry
  <1>3. ASSUME NEW w \in Worker, E!PausedPost(w) \/ E!Sent(w) \/ E!PostAgain(w) \/ E!Quarantine(w) \/ E!Cut(w)
        PROVE  UNCHANGED meta \/ \E t : meta' = [meta EXCEPT ![t] = E!NoMeta]
    BY <1>3 DEF E!PausedPost, E!Sent, E!PostAgain, E!Quarantine, E!Cut
  <1>4. ASSUME NEW w \in Worker, NEW t \in E!Times, E!Take(w, t)
        PROVE  UNCHANGED meta \/ meta' = [meta EXCEPT ![t] = E!NoMeta]
    BY <1>4, TakeReads DEF Reads
  <1>5. ASSUME NEW t \in E!Times, E!Expire(t) \/ E!PurgeBatch(t)
        PROVE  UNCHANGED meta \/ meta' = [meta EXCEPT ![t] = E!NoMeta]
    BY <1>5 DEF E!Expire, E!PurgeBatch
  <1>6. QED
    BY <1>0, <1>1, <1>2, <1>3, <1>4, <1>5, WhoWrites DEF Writers

\* So do quarantine and locks.
LEMMA PoisonLockTypeStep ==
  ASSUME Typed, Locked, [E!Next]_(E!vars)
  PROVE  poison' \in [E!Times -> SUBSET Rows] /\ batchLock' \in [E!Times -> Worker \cup {None}]
  <1>0. poison \in [E!Times -> SUBSET Rows] /\ batchLock \in [E!Times -> Worker \cup {None}]
    BY DEF Typed
  <1>1. ASSUME NEW w \in Worker, E!Quarantine(w)
        PROVE  poison' \in [E!Times -> SUBSET Rows]
    <2>1. work[w].ts \in E!Times
      BY <1>1 DEF Locked, E!Quarantine, E!At
    <2>2. E!RowsOf(w) \subseteq Rows /\ work[w].ready \subseteq Rows
      BY <2>1, WorkParts, ContentRows DEF E!RowsOf, E!Batch, Content
    <2>3. \/ poison' = [poison EXCEPT ![work[w].ts] = E!RowsOf(w)]
          \/ poison' = [poison EXCEPT ![work[w].ts] = @ \cup work[w].ready]
      BY <1>1 DEF E!Quarantine
    <2>4. QED
      BY <1>0, <2>1, <2>2, <2>3
  <1>2. ASSUME NEW t \in E!Times, E!Pruned(t)
        PROVE  poison' \in [E!Times -> SUBSET Rows]
    BY <1>0, <1>2, PrunedPrunes DEF Prunes
  <1>3. ASSUME NEW w \in Worker, E!Close(w)
        PROVE  poison' \in [E!Times -> SUBSET Rows]
    <2>1. work[w].ts \in E!Times
      BY <1>3 DEF Locked, E!Close, E!At
    <2>2. QED
      BY <1>2, <1>3, <2>1 DEF E!Close
  <1>4. ASSUME NEW t \in E!Times, E!PurgeBatch(t)
        PROVE  poison' \in [E!Times -> SUBSET Rows]
    BY <1>0, <1>2, <1>4 DEF E!PurgeBatch
  <1>5. ASSUME NEW w \in Worker, NEW t \in E!Times, E!Close(w) \/ E!Crash(w) \/ E!Take(w, t)
        PROVE  batchLock' \in [E!Times -> Worker \cup {None}]
    BY <1>0, <1>5 DEF E!Close, E!Crash, E!Take
  <1>6. ASSUME NEW w \in Worker, E!Close(w) \/ E!Crash(w)
        PROVE  batchLock' \in [E!Times -> Worker \cup {None}]
    BY <1>0, <1>6 DEF E!Close, E!Crash
  <1>7. QED
    BY <1>0, <1>1, <1>3, <1>4, <1>5, <1>6, WhoWrites DEF Writers


-----------------------------------------------------------------------------
Spending ==
  /\ UNCHANGED left \/ \E k \in E!Bounds : E!Spend(k)
  /\ UNCHANGED paused \/ E!SetPause
  /\ UNCHANGED clock \/ E!Tick
\* What may happen a number of times is counted down, in whatever step it happens.
LEMMA WhoSpends ==
  ASSUME [E!Next]_(E!vars)
  PROVE  Spending
  <1>1. ASSUME NEW h \in Hook, E!HookSeals(h)
        PROVE  Spending
    BY <1>1 DEF Spending, E!Bounds, E!HookSeals, E!consent, E!queue, E!history
  <1>2. ASSUME NEW h \in Hook, E!HookRecheck(h)
        PROVE  Spending
    BY <1>2 DEF Spending, E!Bounds, E!HookRecheck, E!consent, E!queue, E!history
  <1>3. ASSUME NEW h \in Hook, E!HookOpen(h)
        PROVE  Spending
    BY <1>3 DEF Spending, E!Bounds, E!HookOpen, E!consent, E!queue, E!history
  <1>4. ASSUME NEW h \in Hook, E!HookWrite(h)
        PROVE  Spending
    BY <1>4 DEF Spending, E!Bounds, E!HookWrite, E!consent, E!queue, E!history
  <1>5. ASSUME NEW h \in Hook, E!HookEnds(h)
        PROVE  Spending
    BY <1>5 DEF Spending, E!Bounds, E!HookEnds, E!consent, E!queue, E!history
  <1>6. ASSUME NEW h \in Hook, E!HookName(h)
        PROVE  Spending
    BY <1>6 DEF Spending, E!Bounds, E!HookName, E!consent, E!queue, E!history
  <1>7. ASSUME NEW h \in Hook, E!HookRename(h)
        PROVE  Spending
    BY <1>7 DEF Spending, E!Bounds, E!HookRename, E!consent, E!queue, E!history
  <1>8. ASSUME NEW h \in Hook, NEW r \in Repo, E!HookRegister(h, r)
        PROVE  Spending
    BY <1>8 DEF Spending, E!Bounds, E!HookRegister, E!consent, E!queue, E!history
  <1>9. ASSUME NEW w \in Worker, E!Post(w)
        PROVE  Spending
    BY <1>9 DEF Spending, E!Bounds, E!Post, E!consent, E!queue, E!history
  <1>10. ASSUME NEW w \in Worker, E!PausedPost(w)
        PROVE  Spending
    BY <1>10 DEF Spending, E!Bounds, E!PausedPost, E!consent, E!queue, E!history
  <1>11. ASSUME NEW w \in Worker, E!Sent(w)
        PROVE  Spending
    BY <1>11 DEF Spending, E!Bounds, E!Sent, E!consent, E!queue, E!history
  <1>12. ASSUME NEW w \in Worker, E!Salvage(w)
        PROVE  Spending
    BY <1>12 DEF Spending, E!Bounds, E!Salvage, E!consent, E!queue, E!history
  <1>13. ASSUME NEW w \in Worker, E!PostAgain(w)
        PROVE  Spending
    BY <1>13 DEF Spending, E!Bounds, E!PostAgain, E!consent, E!queue, E!history
  <1>14. ASSUME NEW w \in Worker, E!Retry(w)
        PROVE  Spending
    BY <1>14 DEF Spending, E!Bounds, E!Retry, E!consent, E!queue, E!history
  <1>15. ASSUME NEW w \in Worker, E!Quarantine(w)
        PROVE  Spending
    BY <1>15 DEF Spending, E!Bounds, E!Quarantine, E!consent, E!queue, E!history
  <1>16. ASSUME NEW w \in Worker, E!Cut(w)
        PROVE  Spending
    BY <1>16 DEF Spending, E!Bounds, E!Cut, E!consent, E!queue, E!history
  <1>17. ASSUME NEW w \in Worker, E!Close(w)
        PROVE  Spending
    BY <1>17 DEF Spending, E!Bounds, E!Close, E!consent, E!queue, E!history
  <1>18. ASSUME NEW w \in Worker, E!TooOld(w)
        PROVE  Spending
    BY <1>18 DEF Spending, E!Bounds, E!TooOld, E!consent, E!queue, E!history
  <1>19. ASSUME NEW w \in Worker, E!Crash(w)
        PROVE  Spending
    BY <1>19 DEF Spending, E!Bounds, E!Crash, E!consent, E!queue, E!history
  <1>20. ASSUME NEW w \in Worker, NEW t \in E!Times, E!Take(w, t)
        PROVE  Spending
    BY <1>20 DEF Spending, E!Bounds, E!Take, E!consent, E!queue, E!history
  <1>21. ASSUME NEW t \in E!Times, E!Expire(t)
        PROVE  Spending
    BY <1>21 DEF Spending, E!Bounds, E!Expire, E!consent, E!queue, E!history
  <1>22. ASSUME NEW r \in Repo, E!SetConsent(r)
        PROVE  Spending
    BY <1>22 DEF Spending, E!Bounds, E!SetConsent, E!consent, E!queue, E!history
  <1>23. ASSUME NEW r \in Repo, E!SetLocal(r)
        PROVE  Spending
    BY <1>23 DEF Spending, E!Bounds, E!SetLocal, E!consent, E!queue, E!history
  <1>24. ASSUME NEW r \in Repo, E!SetScope(r)
        PROVE  Spending
    BY <1>24 DEF Spending, E!Bounds, E!SetScope, E!consent, E!queue, E!history
  <1>25. ASSUME E!Tick
        PROVE  Spending
    BY <1>25 DEF Spending, E!Bounds, E!Tick, E!consent, E!queue, E!history
  <1>26. ASSUME E!SetPause
        PROVE  Spending
    BY <1>26 DEF Spending, E!Bounds, E!SetPause, E!consent, E!queue, E!history
  <1>27. ASSUME E!SignOut
        PROVE  Spending
    BY <1>27 DEF Spending, E!Bounds, E!SignOut, E!consent, E!queue, E!history
  <1>28. ASSUME E!Reconcile
        PROVE  Spending
    BY <1>28 DEF Spending, E!Bounds, E!Reconcile, E!consent, E!queue, E!history
  <1>29. ASSUME E!PurgeSeal
        PROVE  Spending
    BY <1>29 DEF Spending, E!Bounds, E!PurgeSeal, E!consent, E!queue, E!history
  <1>30. ASSUME E!PurgeList
        PROVE  Spending
    BY <1>30 DEF Spending, E!Bounds, E!PurgeList, E!consent, E!queue, E!history
  <1>31. ASSUME E!PurgeDone
        PROVE  Spending
    BY <1>31 DEF Spending, E!Bounds, E!PurgeDone, E!consent, E!queue, E!history
  <1>32. ASSUME NEW t \in E!Times, E!PurgeBatch(t)
        PROVE  Spending
    BY <1>32 DEF Spending, E!Bounds, E!PurgeBatch, E!consent, E!queue, E!history
  <1>33. CASE UNCHANGED E!vars
    BY <1>33 DEF Spending, E!Bounds, E!vars, E!consent, E!queue, E!history
  <1>34. QED
    BY <1>1, <1>2, <1>3, <1>4, <1>5, <1>6, <1>7, <1>8, <1>9, <1>10, <1>11, <1>12, <1>13, <1>14, <1>15, <1>16, <1>17, <1>18, <1>19, <1>20, <1>21, <1>22, <1>23, <1>24, <1>25, <1>26, <1>27, <1>28, <1>29, <1>30, <1>31, <1>32, <1>33 DEF E!Next, E!HookStep, E!WorkStep, E!PurgeStep

LEMMA LeftStep ==
  ASSUME Typed, [E!Next]_(E!vars)
  PROVE  /\ left' \in [E!Bounds -> Nat \cup {None}] /\ left'["rows"] \in Nat /\ 1 .. left'["rows"] \subseteq DOMAIN tries
         /\ paused' \in BOOLEAN /\ clock' \in Nat
  <1>0. /\ left \in [E!Bounds -> Nat \cup {None}] /\ left["rows"] \in Nat /\ 1 .. left["rows"] \subseteq DOMAIN tries
        /\ paused \in BOOLEAN /\ clock \in Nat /\ "rows" \in E!Bounds
    BY DEF Typed, E!Bounds
  <1>1. ASSUME NEW k \in E!Bounds, E!Spend(k)
        PROVE  /\ left' \in [E!Bounds -> Nat \cup {None}] /\ left'["rows"] \in Nat
               /\ 1 .. left'["rows"] \subseteq DOMAIN tries
    <2>1. CASE left[k] = None
      BY <1>0, <1>1, <2>1 DEF E!Spend
    <2>2. CASE left[k] # None
      <3>1. left[k] \in Nat /\ left[k] # 0 /\ left' = [left EXCEPT ![k] = left[k] - 1]
        BY <1>0, <1>1, <2>2 DEF E!Spend
      <3>2. left[k] - 1 \in Nat
        BY <3>1
      <3>3. left' \in [E!Bounds -> Nat \cup {None}]
        BY <1>0, <3>1, <3>2
      <3>4. CASE k = "rows"
        <4>1. left'["rows"] = left["rows"] - 1
          BY <1>0, <3>1, <3>4
        <4>2. 1 .. left["rows"] - 1 \subseteq 1 .. left["rows"] /\ left["rows"] - 1 \in Nat
          BY <1>0, <3>1, <3>2, <3>4
        <4>3. QED
          BY <1>0, <3>3, <4>1, <4>2
      <3>5. CASE k # "rows"
        <4>1. left'["rows"] = left["rows"]
          BY <1>0, <3>1, <3>5
        <4>2. QED
          BY <1>0, <3>3, <4>1
      <3>6. QED
        BY <3>4, <3>5
    <2>3. QED
      BY <2>1, <2>2
  <1>2. UNCHANGED left \/ \E k \in E!Bounds : E!Spend(k)
    BY WhoSpends DEF Spending
  <1>3. paused' \in BOOLEAN /\ clock' \in Nat
    <2>1. UNCHANGED paused \/ paused' = ~ paused
      BY WhoSpends DEF Spending, E!SetPause
    <2>2. UNCHANGED clock \/ clock' = clock + 1
      BY WhoSpends DEF Spending, E!Tick
    <2>3. paused' \in BOOLEAN
      BY <1>0, <2>1
    <2>4. clock' \in Nat
      BY <1>0, <2>2
    <2>5. QED
      BY <2>3, <2>4
  <1>4. QED
    BY <1>0, <1>1, <1>2, <1>3

\* What a worker does keeps its form.
LEMMA WorkTypeStep ==
  ASSUME Typed, Locked, [E!Next]_(E!vars)
  PROVE  work' \in [Worker -> WorkSet]
  <1>0. work \in [Worker -> WorkSet] /\ E!NoWork \in WorkSet /\ \A w \in Worker : work[w] \in WorkSet
    <2>1. work \in [Worker -> WorkSet]
      BY DEF Typed, WorkSet
    <2>2. E!NoWork \in WorkSet
      BY DEF E!NoWork, WorkSet, WorkPC, Deciding
    <2>3. QED
      BY <2>1, <2>2
  <1>1. ASSUME NEW w \in Worker, NEW pc \in WorkPC, E!To(w, pc)
        PROVE  work' \in [Worker -> WorkSet]
    <2>1. [work[w] EXCEPT !.pc = pc] \in WorkSet
      BY <1>0 DEF WorkSet
    <2>2. QED
      BY <1>0, <1>1, <2>1 DEF E!To
  <1>2. ASSUME NEW w \in Worker, NEW t \in E!Times, NEW kept, NEW held, Reads(w, t, kept, held)
        PROVE  work' \in [Worker -> WorkSet]
    <2> DEFINE new == work'[w]
    <2>1. /\ kept \in SUBSET Rows /\ held \subseteq kept /\ work[w].spends \in BOOLEAN /\ t \in Nat
          /\ work' = [work EXCEPT ![w] = new]
          /\ new \in [pc : {IF kept \ held = {} THEN "close" ELSE "post"}, ts : {t}, ready : {kept \ held},
                      held : {held}, again : BOOLEAN, spends : {work[w].spends}]
      BY <1>2, WorkParts DEF Reads, E!Times
    <2> HIDE DEF new
    <2>2. new \in WorkSet
      BY <2>1 DEF WorkSet, WorkPC, Deciding
    <2>3. QED
      BY <1>0, <2>1, <2>2
  <1>3. ASSUME NEW w \in Worker,
               \/ E!TooOld(w) \/ E!Post(w) \/ E!PausedPost(w) \/ E!Sent(w) \/ E!Quarantine(w) \/ E!Cut(w)
               \/ E!Salvage(w) \/ E!Retry(w)
        PROVE  \/ \E pc \in WorkPC : E!To(w, pc)
               \/ work' = [work EXCEPT ![w].pc = "quarantine", ![w].spends = TRUE]
    <2>1. /\ "close" \in WorkPC /\ "quarantine" \in WorkPC /\ "cut" \in WorkPC /\ "again" \in WorkPC
          /\ "sent" \in WorkPC /\ "refused" \in WorkPC /\ "failed" \in WorkPC
      BY DEF WorkPC, Deciding
    <2>2. CASE E!TooOld(w) \/ E!PausedPost(w) \/ E!Sent(w) \/ E!Cut(w)
      BY <2>1, <2>2 DEF E!TooOld, E!PausedPost, E!Sent, E!Cut
    <2>3. CASE E!Post(w)
      BY <2>1, <2>3 DEF E!Post
    <2>4. CASE E!Quarantine(w)
      BY <2>1, <2>4 DEF E!Quarantine
    <2>5. CASE E!Salvage(w)
      BY <2>1, <2>5 DEF E!Salvage, E!To
    <2>6. CASE E!Retry(w)
      BY <2>1, <2>6 DEF E!Retry
    <2>7. QED
      BY <1>3, <2>2, <2>3, <2>4, <2>5, <2>6
  <1>4. ASSUME NEW w \in Worker, work' = [work EXCEPT ![w].pc = "quarantine", ![w].spends = TRUE]
        PROVE  work' \in [Worker -> WorkSet]
    <2>1. [work[w] EXCEPT !.pc = "quarantine", !.spends = TRUE] \in WorkSet
      BY <1>0 DEF WorkSet, WorkPC, Deciding
    <2>2. work' = [work EXCEPT ![w] = [work[w] EXCEPT !.pc = "quarantine", !.spends = TRUE]]
      BY <1>4
    <2>3. QED
      BY <1>0, <2>1, <2>2
  <1>5. ASSUME NEW w \in Worker, E!PostAgain(w)
        PROVE  work' \in [Worker -> WorkSet]
    <2>1. work[w].ts \in E!Times
      BY <1>5 DEF Locked, E!PostAgain, E!At
    <2>2. QED
      BY <1>2, <1>5, <2>1, PostAgainReads
  <1>6. ASSUME NEW w \in Worker, NEW t \in E!Times, E!Take(w, t)
        PROVE  work' \in [Worker -> WorkSet]
    BY <1>2, <1>6, TakeReads
  <1>7. ASSUME NEW w \in Worker, E!Close(w) \/ E!Crash(w)
        PROVE  work' \in [Worker -> WorkSet]
    BY <1>0, <1>7 DEF E!Close, E!Crash
  <1>8. QED
    BY <1>0, <1>1, <1>3, <1>4, <1>5, <1>6, <1>7, WhoWrites DEF Writers, E!WorkStep

\* So does what a command has still to do.
PurgeSet == [pc : PurgePC, todo : SUBSET E!Times, complete : BOOLEAN, all : BOOLEAN]
LEMMA PurgeTypeStep ==
  ASSUME Typed, [E!Next]_(E!vars)
  PROVE  purge' \in PurgeSet
  <1>0. purge \in PurgeSet /\ E!NoPurge \in PurgeSet
    BY DEF Typed, PurgeSet, E!NoPurge, PurgePC
  <1>1. \A x \in PurgeSet, pc \in PurgePC : [x EXCEPT !.pc = pc] \in PurgeSet
    BY DEF PurgeSet
  <1>2. "seal" \in PurgePC /\ "sealall" \in PurgePC /\ "list" \in PurgePC /\ "scan" \in PurgePC
    BY DEF PurgePC
  <1>3. ASSUME NEW r \in Repo, E!SetConsent(r) \/ E!SetLocal(r)
        PROVE  purge' \in PurgeSet
    BY <1>0, <1>1, <1>2, <1>3 DEF E!SetConsent, E!SetLocal
  <1>4. CASE E!SignOut
    BY <1>4, <1>2 DEF E!SignOut, PurgeSet
  <1>5. CASE E!Reconcile
    BY <1>0, <1>1, <1>2, <1>5 DEF E!Reconcile
  <1>6. CASE E!PurgeSeal
    BY <1>0, <1>1, <1>2, <1>6 DEF E!PurgeSeal
  <1>7. CASE E!PurgeList
    BY <1>0, <1>2, <1>7 DEF E!PurgeList, PurgeSet, E!Batches
  <1>8. CASE E!PurgeDone
    BY <1>0, <1>8 DEF E!PurgeDone
  <1>9. ASSUME NEW t \in E!Times, E!PurgeBatch(t)
        PROVE  purge' \in PurgeSet
    <2>1. \A T \in SUBSET E!Times, c \in BOOLEAN : [purge EXCEPT !.todo = T, !.complete = c] \in PurgeSet
      BY <1>0 DEF PurgeSet
    <2>2. purge.todo \ {t} \in SUBSET E!Times /\ (purge.complete /\ ~ E!Busy(t)) \in BOOLEAN
      BY <1>0 DEF PurgeSet
    <2>3. QED
      BY <1>9, <2>1, <2>2 DEF E!PurgeBatch
  <1>10. QED
    BY <1>0, <1>3, <1>4, <1>5, <1>6, <1>7, <1>8, <1>9, WhoWrites DEF Writers, E!PurgeStep

\* And the history.
LEMMA HistoryTypeStep ==
  ASSUME Typed, Carried, Locked, [E!Next]_(E!vars)
  PROVE  /\ received' \subseteq Rows /\ written' \subseteq Rows /\ late' \subseteq Rows /\ expired' \subseteq Rows
         /\ spent' \subseteq Rows /\ promised' \in [Repo -> [token : Nat, epoch : Nat]]
  <1>0. /\ received \subseteq Rows /\ written \subseteq Rows /\ late \subseteq Rows /\ expired \subseteq Rows
        /\ spent \subseteq Rows /\ promised \in [Repo -> [token : Nat, epoch : Nat]]
    BY DEF Typed
  <1>1. \A S : UNION {files[i].rows : i \in S \cap E!Ids} \subseteq Rows
    BY FileParts
  <1>2. \A w \in Worker : work[w].ready \subseteq Rows
    BY WorkParts
  <1>3. received' \subseteq Rows
    <2>1. ASSUME NEW w \in Worker, E!Post(w)
          PROVE  received' \in {received, received \cup work[w].ready}
      BY <2>1 DEF E!Post
    <2>2. QED
      BY <1>0, <1>2, <2>1, WhoWrites DEF Writers
  <1>4. written' \subseteq Rows
    <2>1. ASSUME NEW h \in Hook, E!HookWrite(h)
          PROVE  written' \subseteq Rows
      BY <1>0, <2>1 DEF E!HookWrite, Carried
    <2>2. QED
      BY <1>0, <2>1, WhoWrites DEF Writers
  <1>5. late' \subseteq Rows
    <2>1. ASSUME NEW h \in Hook, E!HookWrite(h)
          PROVE  late' \subseteq Rows
      BY <1>0, <2>1 DEF E!HookWrite, Carried
    <2>2. ASSUME NEW h \in Hook, E!HookRename(h)
          PROVE  late' \subseteq Rows
      <3> DEFINE S == E!File("sealed", recorder[h].ts) \cup IF batchLock[recorder[h].ts] = None THEN {} ELSE E!Active
      <3>1. S = S \cap E!Ids
        BY DEF E!File, E!Active
      <3>2. UNCHANGED late \/ late' = late \cup UNION {files[i].rows : i \in S}
        BY <2>2 DEF E!HookRename
      <3> HIDE DEF S
      <3>3. UNION {files[i].rows : i \in S} \subseteq Rows
        BY <1>1, <3>1
      <3>4. QED
        BY <1>0, <3>2, <3>3
    <2>3. QED
      BY <1>0, <2>1, <2>2, WhoWrites DEF Writers
  <1>6. expired' \subseteq Rows
    <2>1. \A t : UNION {files[i].rows : i \in E!File("sealed", t)} \subseteq Rows
      BY FileParts DEF E!File
    <2>2. UNION {files[i].rows : i \in E!Active} \subseteq Rows
      BY FileParts DEF E!Active
    <2>3. ASSUME NEW t \in E!Times, E!Expire(t) \/ E!PurgeBatch(t)
          PROVE  UNCHANGED expired \/ expired' = expired \cup UNION {files[i].rows : i \in E!File("sealed", t)}
      BY <2>3 DEF E!Expire, E!PurgeBatch
    <2>4. ASSUME E!SignOut
          PROVE  expired' = expired \cup UNION {files[i].rows : i \in E!Active}
      BY <2>4 DEF E!SignOut
    <2>5. QED
      BY <1>0, <2>1, <2>2, <2>3, <2>4, WhoWrites DEF Writers
  <1>7. spent' \subseteq Rows
    <2>1. ASSUME NEW w \in Worker, E!Quarantine(w)
          PROVE  spent' \in {spent, spent \cup work[w].ready}
      BY <2>1 DEF E!Quarantine
    <2>2. QED
      BY <1>0, <1>2, <2>1, WhoWrites DEF Writers
  <1>8. promised' \in [Repo -> [token : Nat, epoch : Nat]]
    <2>1. ASSUME E!PurgeDone
          PROVE  promised' \in [Repo -> [token : Nat, epoch : Nat]]
      <3>1. ASSUME NEW r \in Repo
            PROVE  /\ (IF repo[r].shared THEN promised[r].token ELSE repo[r].token - 1) \in Nat
                   /\ repo[r].epoch \in Nat
        <4>1. repo[r].token \in Nat \ {0} /\ repo[r].epoch \in Nat /\ promised[r].token \in Nat
          BY DEF Typed
        <4>2. QED
          BY <4>1
      <3>2. QED
        BY <1>0, <2>1, <3>1 DEF E!PurgeDone
    <2>2. QED
      BY <1>0, <2>1, WhoWrites DEF Writers
  <1>9. QED
    BY <1>3, <1>4, <1>5, <1>6, <1>7, <1>8

\* Every variable keeps its type.
LEMMA TypedStep ==
  ASSUME E!Constants, Typed, Carried, Locked, [E!Next]_(E!vars)
  PROVE  Typed'
  <1>1. Rows' = Rows /\ DOMAIN tries' = DOMAIN tries /\ tries' \in [DOMAIN tries -> Nat] /\ DOMAIN tries' \subseteq Nat
    BY TriesStay DEF Typed
  <1>2. /\ repo' \in [Repo -> RepoSet] /\ revoked' \in [Repo -> SUBSET Nat]
        /\ \A r \in Repo : revoked'[r] \subseteq 1 .. repo'[r].token - 1
    BY RepoStep, RevokedStep
  <1>3. files' \in [E!Ids -> FileSet] /\ meta' \in [E!Times -> MetaSet]
    BY FilesTypeStep, MetaTypeStep
  <1>4. poison' \in [E!Times -> SUBSET Rows] /\ batchLock' \in [E!Times -> Worker \cup {None}]
    BY PoisonLockTypeStep
  <1>5. recorder' \in [Hook -> HookSet] /\ work' \in [Worker -> WorkSet] /\ purge' \in PurgeSet
    BY HookTypeStep, WorkTypeStep, PurgeTypeStep
  <1>6. /\ received' \subseteq Rows /\ written' \subseteq Rows /\ late' \subseteq Rows /\ expired' \subseteq Rows
        /\ spent' \subseteq Rows /\ promised' \in [Repo -> [token : Nat, epoch : Nat]]
    BY HistoryTypeStep
  <1>7. /\ left' \in [E!Bounds -> Nat \cup {None}] /\ left'["rows"] \in Nat /\ 1 .. left'["rows"] \subseteq DOMAIN tries
        /\ paused' \in BOOLEAN /\ clock' \in Nat
    BY LeftStep
  <1>8. QED
    BY <1>1, <1>2, <1>3, <1>4, <1>5, <1>6, <1>7 DEF Typed, RepoSet, FileSet, MetaSet, HookSet, WorkSet, PurgeSet

-----------------------------------------------------------------------------
(* Where files go.                                                           *)

\* A file keeps its name, and leaves its place only to be sent or gone.
Stays(i) ==
  /\ files'[i].ts = files[i].ts
  /\ \/ files'[i].at \in {files[i].at, "gone"}
     \/ files[i].at = "sealed" /\ files'[i].at = "sent"

\* But for the log that is opened, and the one that is sealed.
LEMMA FilesMove ==
  ASSUME Typed, Carried, Locked, [E!Next]_(E!vars)
  PROVE  \/ \E h \in Hook : E!HookOpen(h)
         \/ \E t \in E!Times : E!Active # {} /\ files' = E!Renamed(t)
         \/ \A i \in E!Ids : Stays(i)
  <1> DEFINE Moves == \/ \E h \in Hook : E!HookOpen(h)
                      \/ \E t \in E!Times : E!Active # {} /\ files' = E!Renamed(t)
                      \/ \A i \in E!Ids : Stays(i)
  <1>1. ASSUME UNCHANGED files
        PROVE  Moves
    BY <1>1 DEF Stays
  <1>2. ASSUME NEW h \in Hook, E!HookWrite(h)
        PROVE  Moves
    <2>1. \E x : files' = [files EXCEPT ![recorder[h].fd].rows = @ \cup {x}]
      BY <1>2 DEF E!HookWrite
    <2>2. ASSUME NEW x, files' = [files EXCEPT ![recorder[h].fd].rows = @ \cup {x}], NEW i \in E!Ids
          PROVE  files'[i].at = files[i].at /\ files'[i].ts = files[i].ts
      BY <2>2, FileParts DEF FileSet, Typed
    <2>3. QED
      BY <2>1, <2>2 DEF Stays
  <1>3. ASSUME NEW h \in Hook, E!HookRename(h)
        PROVE  Moves
    <2>1. recorder[h].ts \in E!Times
      BY <1>3 DEF E!HookRename, Carried
    <2>2. QED
      BY <1>1, <1>3, <2>1 DEF E!HookRename
  <1>4. ASSUME NEW t \in E!Times, NEW rows \in SUBSET Rows, files' = E!Replaced(t, rows)
        PROVE  Moves
    BY <1>4, ReplacedFiles DEF Stays, E!File
  <1>5. ASSUME NEW w \in Worker, NEW t \in E!Times, NEW kept, NEW held, Reads(w, t, kept, held)
        PROVE  Moves
    BY <1>4, <1>5 DEF Reads
  <1>6. ASSUME NEW t \in E!Times, NEW out, Prunes(t, out)
        PROVE  Moves
    BY <1>6 DEF Prunes, Stays
  <1>7. ASSUME NEW w \in Worker, E!Sent(w) \/ E!Salvage(w) \/ E!PostAgain(w) \/ E!Quarantine(w) \/ E!Cut(w) \/ E!Close(w)
        PROVE  Moves
    <2>1. work[w].ts \in E!Times
      BY <1>7 DEF Locked, E!Sent, E!Salvage, E!PostAgain, E!Quarantine, E!Cut, E!Close, E!At
    <2>2. work[w].ready \subseteq Rows /\ work[w].held \subseteq Rows
      BY WorkParts
    <2>3. CASE E!Sent(w)
      <3>1. CASE work[w].held # {}
        BY <1>4, <2>1, <2>2, <2>3, <3>1 DEF E!Sent
      <3>2. CASE work[w].held = {}
        <4>1. ASSUME NEW i \in E!Ids
              PROVE  \/ files'[i] = files[i]
                     \/ files[i].at = "sealed" /\ files'[i] = [files[i] EXCEPT !.at = "sent"]
                     \/ files'[i] = [files[i] EXCEPT !.at = "gone"]
          BY <2>3, <3>2 DEF E!Sent, E!Batch, E!File
        <4>2. ASSUME NEW i \in E!Ids
              PROVE  Stays(i)
          <5>1. \A at \in {"sent", "gone"} : /\ [files[i] EXCEPT !.at = at].at = at
                                             /\ [files[i] EXCEPT !.at = at].ts = files[i].ts
            BY MovedFile DEF Places
          <5>2. QED
            BY <4>1, <5>1 DEF Stays
        <4>3. QED
          BY <4>2
      <3>3. QED
        BY <3>1, <3>2
    <2>4. CASE E!Salvage(w)
      <3> DEFINE rows == {x \in work[w].ready : x.whole} \cup work[w].held
      <3>1. rows \in SUBSET Rows
        BY <2>2
      <3>2. UNCHANGED files \/ files' = E!Replaced(work[w].ts, rows)
        BY <2>4 DEF E!Salvage
      <3> HIDE DEF rows
      <3>3. QED
        BY <1>1, <1>4, <2>1, <3>1, <3>2
    <2>5. CASE E!PostAgain(w)
      BY <1>5, <2>1, <2>5, PostAgainReads
    <2>6. CASE E!Quarantine(w)
      <3>1. UNCHANGED files \/ files' = E!Replaced(work[w].ts, {})
        BY <2>6 DEF E!Quarantine
      <3>2. QED
        BY <1>1, <1>4, <2>1, <3>1
    <2>7. CASE E!Cut(w)
      BY <1>4, <2>1, <2>2, <2>7 DEF E!Cut
    <2>8. CASE E!Close(w)
      BY <1>6, <2>1, <2>8, PrunedPrunes DEF E!Close
    <2>9. QED
      BY <1>7, <2>3, <2>4, <2>5, <2>6, <2>7, <2>8
  <1>8. ASSUME NEW w \in Worker, NEW t \in E!Times, E!Take(w, t)
        PROVE  Moves
    BY <1>5, <1>8, TakeReads
  <1>9. ASSUME NEW t \in E!Times, E!Expire(t)
        PROVE  Moves
    BY <1>4, <1>9 DEF E!Expire
  <1>10. ASSUME NEW t \in E!Times, E!PurgeBatch(t)
         PROVE  Moves
    <2>1. CASE files' = [i \in E!Ids |-> IF i \in E!File("sealed", t) \cup E!File("sent", t)
                                       THEN [files[i] EXCEPT !.at = "gone"] ELSE files[i]]
      BY <2>1, MovedFile DEF Stays, Places
    <2>2. QED
      BY <1>1, <1>6, <1>10, <2>1, PrunedPrunes DEF E!PurgeBatch
  <1>11. ASSUME E!SignOut
         PROVE  Moves
    BY <1>11, MovedFile DEF E!SignOut, Stays, Places
  <1>12. ASSUME E!PurgeSeal
         PROVE  Moves
    <2>1. CASE E!Active # {} /\ files' = E!Renamed(E!FreeName)
      <3>1. E!FreeNames # {} /\ E!FreeNames \in SUBSET Nat /\ E!FreeNames \subseteq E!Times
        BY <1>12, <2>1 DEF E!PurgeSeal, E!FreeNames, E!Times
      <3>2. E!FreeName \in E!Times
        BY <3>1, MinIsLeast DEF E!FreeName
      <3>3. QED
        BY <2>1, <3>2
    <2>2. QED
      BY <1>1, <1>12, <2>1 DEF E!PurgeSeal
  <1>13. QED
    BY <1>1, <1>2, <1>3, <1>7, <1>8, <1>9, <1>10, <1>11, <1>12, WhoWrites DEF Writers

\* No file is used a second time.
LEMMA FilesStay ==
  ASSUME Typed, Carried, Locked, [E!Next]_(E!vars), NEW i \in E!Ids, files[i].at # "none"
  PROVE  files'[i].at # "none"
  <1>1. CASE \E h \in Hook : E!HookOpen(h)
    <2>1. PICK fd \in E!Ids : files' = [files EXCEPT ![fd].at = "active"]
      BY <1>1, OpenedFile
    <2>2. files \in [E!Ids -> FileSet] /\ files[fd] \in FileSet /\ files[i] \in FileSet
      BY FileParts DEF Typed, FileSet
    <2>3. QED
      BY <2>1, <2>2 DEF FileSet
  <1>2. CASE \E t \in E!Times : files' = E!Renamed(t)
    BY <1>2, RenamedFiles
  <1>3. CASE \A k \in E!Ids : Stays(k)
    BY <1>3 DEF Stays
  <1>4. QED
    BY <1>1, <1>2, <1>3, FilesMove

\* One log is open, and a name stands for one sealed file.
LEMMA OneFileStep ==
  ASSUME Typed, Carried, Locked, OneFile, [E!Next]_(E!vars)
  PROVE  OneFile'
  <1>1. ASSUME NEW h \in Hook, E!HookOpen(h)
        PROVE  OneFile'
    <2>1. PICK fd \in E!Ids : /\ fd \in E!Active \/ (E!Active = {} /\ files[fd].at = "none")
                            /\ files' = [files EXCEPT ![fd].at = "active"]
      BY <1>1, OpenedFile
    <2>2. files \in [E!Ids -> FileSet] /\ files[fd] \in FileSet
      BY FileParts DEF Typed, FileSet
    <2>3. ASSUME NEW i \in E!Ids
          PROVE  /\ i = fd => files'[i].at = "active"
                 /\ i # fd => files'[i] = files[i]
      BY <2>1, <2>2 DEF FileSet
    <2>4. \A i, j \in E!Active' : i = j
      BY <2>1, <2>3 DEF OneFile, E!Active
    <2>5. ASSUME NEW t \in E!Times, NEW i \in E!File("sealed", t)', NEW j \in E!File("sealed", t)'
          PROVE  i = j
      <3>1. i \in E!File("sealed", t) /\ j \in E!File("sealed", t)
        BY <2>3, <2>5 DEF E!File
      <3>2. QED
        BY <3>1 DEF OneFile
    <2>6. QED
      BY <2>4, <2>5 DEF OneFile
  <1>2. ASSUME NEW t \in E!Times, files' = E!Renamed(t)
        PROVE  OneFile'
    <2>1. \A i, j \in E!Active' : i = j
      BY <1>2, RenamedFiles DEF E!Active
    <2>2. ASSUME NEW s \in E!Times, NEW i \in E!File("sealed", s)', NEW j \in E!File("sealed", s)'
          PROVE  i = j
      <3>1. CASE s = t
        <4>1. i \in E!Active /\ j \in E!Active
          BY <1>2, <2>2, <3>1, RenamedFiles DEF E!File
        <4>2. QED
          BY <4>1 DEF OneFile
      <3>2. CASE s # t
        <4>1. i \in E!File("sealed", s) /\ j \in E!File("sealed", s)
          BY <1>2, <2>2, <3>2, RenamedFiles DEF E!File
        <4>2. QED
          BY <4>1 DEF OneFile
      <3>3. QED
        BY <3>1, <3>2
    <2>3. QED
      BY <2>1, <2>2 DEF OneFile
  <1>3. ASSUME \A i \in E!Ids : Stays(i)
        PROVE  OneFile'
    <2>1. E!Active' \subseteq E!Active
      BY <1>3 DEF Stays, E!Active
    <2>2. \A t \in E!Times : E!File("sealed", t)' \subseteq E!File("sealed", t)
      BY <1>3 DEF Stays, E!File
    <2>3. QED
      BY <2>1, <2>2 DEF OneFile
  <1>4. QED
    BY <1>1, <1>2, <1>3, FilesMove

\* What hooks carry.
LEMMA CarriedStep ==
  ASSUME Typed, Carried, Locked, [E!Next]_(E!vars)
  PROVE  Carried'
  <1> DEFINE Carries(h) ==
        /\ recorder'[h].pc \in {"recheck", "open", "write"} => recorder'[h].row \in Rows /\ recorder'[h].row.whole
        /\ recorder'[h].pc = "write" => recorder'[h].fd \in E!Ids /\ files'[recorder'[h].fd].at # "none"
        /\ recorder'[h].pc = "rename" => recorder'[h].ts \in E!Times
  <1>0. Rows' = Rows
    BY TriesStay
  <1>1. \A h \in Hook : recorder[h] \in HookSet /\ recorder \in [Hook -> HookSet]
    BY DEF Typed, HookSet
  <1>2. ASSUME NEW h \in Hook, recorder'[h] = recorder[h]
        PROVE  Carries(h)
    <2>1. recorder[h].pc = "write" => recorder[h].fd \in E!Ids /\ files[recorder[h].fd].at # "none"
      BY DEF Carried
    <2>2. recorder[h].pc = "write" => files'[recorder[h].fd].at # "none"
      BY <2>1, FilesStay
    <2>3. QED
      BY <1>2, <2>1, <2>2 DEF Carried
  <1>3. ASSUME NEW h \in Hook, NEW r \in Repo, E!HookRegister(h, r)
        PROVE  Carries(h) /\ \A k \in Hook : k # h => recorder'[k] = recorder[k]
    <2> DEFINE row == [n |-> left["rows"], repo |-> r, token |-> repo[r].token, epoch |-> repo[r].epoch, whole |-> TRUE]
    <2>1. left["rows"] \in Nat /\ left["rows"] # 0 /\ 1 .. left["rows"] \subseteq DOMAIN tries
      BY <1>3 DEF E!HookRegister, E!Spend, Typed
    <2>2. repo[r].token \in Nat \ {0} /\ repo[r].epoch \in Nat
      BY DEF Typed
    <2>3. row \in Rows /\ row.whole
      BY <2>1, <2>2 DEF Rows, E!Row
    <2> HIDE DEF row
    <2>4. recorder' = [recorder EXCEPT ![h].pc = "recheck", ![h].row = row]
      BY <1>3 DEF E!HookRegister, row
    <2>5. recorder'[h].pc = "recheck" /\ recorder'[h].row = row
      BY <1>1, <2>4 DEF HookSet
    <2>6. QED
      BY <1>1, <2>3, <2>4, <2>5
  <1>4. ASSUME NEW h \in Hook, E!HookOpen(h)
        PROVE  Carries(h) /\ \A k \in Hook : k # h => recorder'[k] = recorder[k]
    <2>1. PICK fd \in E!Ids : /\ files' = [files EXCEPT ![fd].at = "active"]
                            /\ recorder' = [recorder EXCEPT ![h].pc = "write", ![h].fd = fd]
      BY <1>4, OpenedFile
    <2>2. files \in [E!Ids -> FileSet] /\ files[fd] \in FileSet
      BY FileParts DEF Typed, FileSet
    <2>3. files'[fd].at = "active"
      BY <2>1, <2>2 DEF FileSet
    <2>4. recorder'[h].pc = "write" /\ recorder'[h].fd = fd /\ recorder'[h].row = recorder[h].row
      BY <1>1, <2>1 DEF HookSet
    <2>5. recorder[h].row \in Rows /\ recorder[h].row.whole
      BY <1>4 DEF E!HookOpen, Carried
    <2>6. QED
      BY <1>1, <2>1, <2>3, <2>4, <2>5
  <1>5. ASSUME NEW h \in Hook, E!HookName(h)
        PROVE  Carries(h) /\ \A k \in Hook : k # h => recorder'[k] = recorder[k]
    <2>1. E!FreeNames # {} => E!FreeName \in E!Times
      BY MinIsLeast DEF E!FreeName, E!FreeNames, E!Times
    <2>2. CASE E!Active = {}
      BY <1>1, <1>5, <2>2 DEF E!HookName, E!NoHook
    <2>3. CASE E!Active # {}
      <3>1. recorder' = [recorder EXCEPT ![h] = [@ EXCEPT !.pc = "rename", !.ts = E!FreeName]] /\ E!FreeName \in E!Times
        BY <1>5, <2>1, <2>3 DEF E!HookName
      <3>2. recorder'[h].pc = "rename" /\ recorder'[h].ts = E!FreeName
        BY <1>1, <3>1 DEF HookSet
      <3>3. QED
        BY <1>1, <3>1, <3>2
    <2>4. QED
      BY <2>2, <2>3
  <1>6. ASSUME NEW h \in Hook, E!HookRecheck(h)
        PROVE  Carries(h) /\ \A k \in Hook : k # h => recorder'[k] = recorder[k]
    <2>1. CASE recorder' = [recorder EXCEPT ![h] = E!NoHook]
      BY <1>1, <2>1 DEF E!NoHook
    <2>2. CASE recorder' = [recorder EXCEPT ![h] = [@ EXCEPT !.pc = "open"]]
      <3>1. recorder'[h].pc = "open" /\ recorder'[h].row = recorder[h].row
        BY <1>1, <2>2 DEF HookSet
      <3>2. recorder[h].row \in Rows /\ recorder[h].row.whole
        BY <1>6 DEF E!HookRecheck, Carried
      <3>3. QED
        BY <1>1, <2>2, <3>1, <3>2
    <2>3. QED
      BY <1>6, <2>1, <2>2 DEF E!HookRecheck
  <1>7. ASSUME NEW h \in Hook, E!HookWrite(h) \/ E!HookEnds(h) \/ E!HookRename(h) \/ E!HookSeals(h)
        PROVE  Carries(h) /\ \A k \in Hook : k # h => recorder'[k] = recorder[k]
    <2>1. \/ recorder' = [recorder EXCEPT ![h] = E!NoHook]
          \/ recorder' = [recorder EXCEPT ![h] = [E!NoHook EXCEPT !.pc = "ended"]]
          \/ recorder' = [recorder EXCEPT ![h].pc = "name"]
      BY <1>7 DEF E!HookWrite, E!HookEnds, E!HookRename, E!HookSeals
    <2>2. recorder'[h].pc \in {"idle", "ended", "name"}
      BY <1>1, <2>1 DEF E!NoHook, HookSet
    <2>3. QED
      BY <1>1, <2>1, <2>2
  <1>8. \A h \in Hook : Carries(h)
    <2>1. CASE UNCHANGED recorder
      BY <1>2, <2>1
    <2>2. ASSUME NEW h \in Hook, E!HookStep(h) \/ E!HookSeals(h) \/ \E r \in Repo : E!HookRegister(h, r)
          PROVE  \A k \in Hook : Carries(k)
      <3>1. Carries(h) /\ \A k \in Hook : k # h => recorder'[k] = recorder[k]
        BY <1>3, <1>4, <1>5, <1>6, <1>7, <2>2 DEF E!HookStep
      <3> HIDE DEF Carries
      <3>2. QED
        BY <1>2, <3>1
    <2>3. QED
      BY <2>1, <2>2, WhoWrites DEF Writers
  <1>9. QED
    BY <1>0, <1>8 DEF Carried

-----------------------------------------------------------------------------
(* A batch that is worked on.                                                *)

\* What others do leaves it alone, but that rows may slip in.
Holds(t) ==
  /\ E!File("sealed", t) # {} => E!File("sealed", t)' # {}
  /\ \A i \in E!File("sealed", t)' : \A x \in files'[i].rows :
       ~ x.whole \/ x \in late' \/ (i \in E!File("sealed", t) /\ x \in files[i].rows)

\* Another batch is another's.
LEMMA OthersBatch ==
  ASSUME Locked, NEW v \in Worker, NEW u \in Worker, u # v, work[v].pc # "idle", work[u].pc # "idle"
  PROVE  work[u].ts \in E!Times /\ work[v].ts \in E!Times /\ work[u].ts # work[v].ts
  BY DEF Locked

LEMMA TakenBatch ==
  ASSUME E!Constants, Locked, NEW v \in Worker, work[v].pc # "idle", NEW s \in E!Times, batchLock[s] = None
  PROVE  s # work[v].ts
  BY DEF Locked, E!Constants

\* Rewriting or purging one batch leaves the others.
LEMMA ElsewhereHolds ==
  ASSUME Typed, NEW t \in E!Times, NEW s \in E!Times, s # t,
         \/ \E rows \in SUBSET Rows : files' = E!Replaced(s, rows)
         \/ \E out : Prunes(s, out)
  PROVE  Holds(t)
  <1>1. CASE \E rows \in SUBSET Rows : files' = E!Replaced(s, rows)
    <2>1. PICK rows \in SUBSET Rows : files' = E!Replaced(s, rows)
      BY <1>1
    <2>2. ASSUME NEW i \in E!Ids
          PROVE  /\ i \notin E!File("sealed", s) => files'[i] = files[i]
                 /\ i \in E!File("sealed", s) => files'[i].at = "gone" \/ files'[i].ts = s
      BY <2>1, ReplacedFiles
    <2>3. ASSUME NEW i \in E!Ids
          PROVE  /\ i \in E!File("sealed", t) <=> files'[i].at = "sealed" /\ files'[i].ts = t
                 /\ i \in E!File("sealed", t) => files'[i] = files[i]
      <3>1. CASE i \in E!File("sealed", s)
        <4>1. i \notin E!File("sealed", t)
          BY <3>1 DEF E!File
        <4>2. files'[i].at = "gone" \/ files'[i].ts = s
          BY <2>2, <3>1
        <4>3. ~ (files'[i].at = "sealed" /\ files'[i].ts = t)
          BY <4>2
        <4>4. QED
          BY <4>1, <4>3
      <3>2. CASE i \notin E!File("sealed", s)
        <4>1. files'[i] = files[i]
          BY <2>2, <3>2
        <4>2. QED
          BY <4>1 DEF E!File
      <3>3. QED
        BY <3>1, <3>2
    <2>4. E!File("sealed", t)' = E!File("sealed", t)
      BY <2>3 DEF E!File
    <2>5. QED
      BY <2>3, <2>4 DEF Holds, E!File
  <1>2. CASE \E out : Prunes(s, out)
    <2>1. PICK out : Prunes(s, out)
      BY <1>2
    <2>2. ASSUME NEW i \in E!Ids
          PROVE  \/ files'[i] = files[i]
                 \/ /\ i \in E!File("sealed", s) \cup E!File("sent", s)
                    /\ files'[i].at \in {files[i].at, "gone"} /\ files'[i].ts = files[i].ts
      BY <2>1 DEF Prunes
    <2>3. ASSUME NEW i \in E!Ids
          PROVE  /\ i \in E!File("sealed", t) <=> files'[i].at = "sealed" /\ files'[i].ts = t
                 /\ i \in E!File("sealed", t) => files'[i] = files[i]
      BY <2>2 DEF E!File
    <2>4. E!File("sealed", t)' = E!File("sealed", t)
      BY <2>3 DEF E!File
    <2>5. QED
      BY <2>3, <2>4 DEF Holds, E!File
  <1>3. QED
    BY <1>1, <1>2

LEMMA FilesHold ==
  ASSUME E!Constants, Typed, Carried, Locked, [E!Next]_(E!vars), NEW v \in Worker, work[v].pc \in Deciding,
         ~ E!WorkStep(v), NEW t \in E!Times, work[v].ts = t
  PROVE  Holds(t)
  <1>0. batchLock[t] = v /\ v # None /\ work[v].pc # "idle" /\ E!File("sealed", t) # {}
    BY DEF Locked, E!Constants, E!Batch, Deciding
  <1>1. ASSUME UNCHANGED files
        PROVE  Holds(t)
    BY <1>1 DEF Holds, E!File
  <1>2. ASSUME NEW s \in E!Times, s # t, NEW rows \in SUBSET Rows, files' = E!Replaced(s, rows)
        PROVE  Holds(t)
    BY <1>0, <1>2, ElsewhereHolds
  <1>3. ASSUME NEW s \in E!Times, s # t, NEW out, Prunes(s, out)
        PROVE  Holds(t)
    BY <1>0, <1>3, ElsewhereHolds
  <1>4. ASSUME NEW h \in Hook, E!HookOpen(h)
        PROVE  Holds(t)
    <2>1. PICK fd \in E!Ids : /\ fd \in E!Active \/ files[fd].at = "none"
                            /\ files' = [files EXCEPT ![fd].at = "active"]
      BY <1>4, OpenedFile
    <2>2. files \in [E!Ids -> FileSet] /\ files[fd] \in FileSet
      BY FileParts DEF Typed, FileSet
    <2>3. ASSUME NEW i \in E!Ids
          PROVE  /\ i = fd => files'[i].at = "active"
                 /\ i # fd => files'[i] = files[i]
      BY <2>1, <2>2 DEF FileSet
    <2>4. fd \notin E!File("sealed", t)
      BY <2>1 DEF E!File, E!Active
    <2>5. E!File("sealed", t)' = E!File("sealed", t)
      BY <2>3, <2>4 DEF E!File
    <2>6. QED
      BY <2>3, <2>4, <2>5 DEF Holds, E!File
  <1>5. ASSUME NEW h \in Hook, E!HookWrite(h)
        PROVE  Holds(t)
    <2> DEFINE fd == recorder[h].fd
    <2>1. fd \in E!Ids /\ recorder[h].row \in Rows
      BY <1>5 DEF E!HookWrite, Carried
    <2>2. [recorder[h].row EXCEPT !.whole = FALSE].whole = FALSE
      BY <2>1 DEF Rows, E!Row
    <2>3. \E x : /\ files' = [files EXCEPT ![fd].rows = @ \cup {x}]
                 /\ ~ x.whole \/ ~ E!Taken(fd) \/ x \in late'
      BY <1>5, <2>2 DEF E!HookWrite
    <2>4. PICK x : /\ files' = [files EXCEPT ![fd].rows = @ \cup {x}]
                   /\ ~ x.whole \/ ~ E!Taken(fd) \/ x \in late'
      BY <2>3
    <2>5. files \in [E!Ids -> FileSet] /\ files[fd] \in FileSet
      BY <2>1, FileParts DEF Typed, FileSet
    <2>6. ASSUME NEW i \in E!Ids
          PROVE  /\ files'[i].at = files[i].at /\ files'[i].ts = files[i].ts
                 /\ i = fd => files'[i].rows = files[i].rows \cup {x}
                 /\ i # fd => files'[i] = files[i]
      BY <2>1, <2>4, <2>5 DEF FileSet
    <2>7. E!File("sealed", t)' = E!File("sealed", t)
      BY <2>6 DEF E!File
    <2>8. fd \in E!File("sealed", t) => E!Taken(fd)
      BY <1>0 DEF E!File, E!Taken
    <2> HIDE DEF fd
    <2>9. ASSUME NEW i \in E!File("sealed", t), NEW y \in files'[i].rows
          PROVE  ~ y.whole \/ y \in late' \/ y \in files[i].rows
      <3>1. i \in E!Ids
        BY DEF E!File
      <3>2. QED
        BY <2>4, <2>6, <2>8, <3>1
    <2>10. QED
      BY <2>7, <2>9 DEF Holds
  <1>6. ASSUME NEW s \in E!Times, files' = E!Renamed(s), E!Active # {},
               s = t => UNION {files[i].rows : i \in E!Active} \subseteq late'
        PROVE  Holds(t)
    <2>1. CASE s = t
      <3>1. E!File("sealed", t)' = E!Active
        BY <1>6, <2>1, RenamedFiles DEF E!File, E!Active
      <3>2. \A i \in E!Active : i \in E!Ids /\ files'[i].rows = files[i].rows
        BY <1>6, <2>1, RenamedFiles DEF E!Active
      <3>3. QED
        BY <1>6, <2>1, <3>1, <3>2 DEF Holds
    <2>2. CASE s # t
      <3>1. ASSUME NEW i \in E!Ids
            PROVE  /\ i \in E!File("sealed", t) <=> files'[i].at = "sealed" /\ files'[i].ts = t
                   /\ i \in E!File("sealed", t) => files'[i] = files[i]
        BY <1>6, <2>2, RenamedFiles DEF E!File, E!Active
      <3>2. E!File("sealed", t)' = E!File("sealed", t)
        BY <3>1 DEF E!File
      <3>3. QED
        BY <3>1, <3>2 DEF Holds, E!File
    <2>3. QED
      BY <2>1, <2>2
  <1>7. ASSUME NEW h \in Hook, E!HookRename(h)
        PROVE  Holds(t)
    <2>1. recorder[h].ts \in E!Times
      BY <1>7 DEF E!HookRename, Carried
    <2>2. CASE E!Active = {}
      BY <1>1, <1>7, <2>2 DEF E!HookRename
    <2>3. CASE E!Active # {}
      <3>1. /\ files' = E!Renamed(recorder[h].ts)
            /\ late' = late \cup UNION {files[i].rows : i \in E!File("sealed", recorder[h].ts) \cup
                                    IF batchLock[recorder[h].ts] = None THEN {} ELSE E!Active}
        BY <1>7, <2>3 DEF E!HookRename
      <3>2. recorder[h].ts = t => UNION {files[i].rows : i \in E!Active} \subseteq late'
        BY <1>0, <3>1
      <3>3. QED
        BY <1>6, <2>1, <2>3, <3>1, <3>2
    <2>4. QED
      BY <2>2, <2>3
  <1>8. ASSUME NEW u \in Worker, E!Sent(u) \/ E!Salvage(u) \/ E!PostAgain(u) \/ E!Quarantine(u) \/ E!Cut(u) \/ E!Close(u)
        PROVE  Holds(t)
    <2>0. E!WorkStep(u) /\ u # v
      BY <1>8 DEF E!WorkStep
    <2>1. work[u].pc # "idle" /\ u # v
      BY <1>8, <2>0 DEF E!Sent, E!Salvage, E!PostAgain, E!Quarantine, E!Cut, E!Close, E!At
    <2>2. work[u].ts \in E!Times /\ work[u].ts # t
      BY <2>1, <1>0, OthersBatch
    <2>3. work[u].ready \subseteq Rows /\ work[u].held \subseteq Rows
      BY WorkParts
    <2>4. CASE E!Sent(u)
      <3>1. CASE work[u].held # {}
        BY <1>2, <2>2, <2>3, <2>4, <3>1 DEF E!Sent
      <3>2. CASE work[u].held = {}
        <4>1. ASSUME NEW i \in E!Ids
              PROVE  \/ files'[i] = files[i]
                     \/ /\ i \in E!File("sealed", work[u].ts) \cup E!File("sent", work[u].ts)
                        /\ \/ files'[i] = [files[i] EXCEPT !.at = "sent"]
                           \/ files'[i] = [files[i] EXCEPT !.at = "gone"]
          BY <2>4, <3>2 DEF E!Sent, E!Batch
        <4>2. ASSUME NEW i \in E!Ids
              PROVE  \/ files'[i] = files[i]
                     \/ i \in E!File("sealed", work[u].ts) \cup E!File("sent", work[u].ts) /\ files'[i].at \in {"sent", "gone"}
          <5>1. \A at \in {"sent", "gone"} : [files[i] EXCEPT !.at = at].at = at
            BY MovedFile DEF Places
          <5>2. QED
            BY <4>1, <5>1
        <4>3. ASSUME NEW i \in E!Ids
              PROVE  /\ i \in E!File("sealed", t) <=> files'[i].at = "sealed" /\ files'[i].ts = t
                     /\ i \in E!File("sealed", t) => files'[i] = files[i]
          BY <2>2, <4>2 DEF E!File
        <4>4. E!File("sealed", t)' = E!File("sealed", t)
          BY <4>3 DEF E!File
        <4>5. QED
          BY <4>3, <4>4 DEF Holds, E!File
      <3>3. QED
        BY <3>1, <3>2
    <2>5. CASE E!Salvage(u)
      <3> DEFINE rows == {x \in work[u].ready : x.whole} \cup work[u].held
      <3>1. rows \in SUBSET Rows
        BY <2>3
      <3>2. UNCHANGED files \/ files' = E!Replaced(work[u].ts, rows)
        BY <2>5 DEF E!Salvage
      <3> HIDE DEF rows
      <3>3. QED
        BY <1>1, <1>2, <2>2, <3>1, <3>2
    <2>6. CASE E!PostAgain(u)
      BY <1>2, <2>2, <2>6, PostAgainReads DEF Reads
    <2>7. CASE E!Quarantine(u)
      <3>1. UNCHANGED files \/ files' = E!Replaced(work[u].ts, {})
        BY <2>7 DEF E!Quarantine
      <3>2. QED
        BY <1>1, <1>2, <2>2, <3>1
    <2>8. CASE E!Cut(u)
      BY <1>2, <2>2, <2>3, <2>8 DEF E!Cut
    <2>9. CASE E!Close(u)
      BY <1>3, <2>2, <2>9, PrunedPrunes DEF E!Close
    <2>10. QED
      BY <1>8, <2>4, <2>5, <2>6, <2>7, <2>8, <2>9
  <1>9. ASSUME NEW u \in Worker, NEW s \in E!Times, E!Take(u, s)
        PROVE  Holds(t)
    <2>1. s # t
      BY <1>9, <1>0, TakenBatch DEF E!Take
    <2>2. QED
      BY <1>2, <1>9, <2>1, TakeReads DEF Reads
  <1>10. ASSUME NEW s \in E!Times, E!Expire(s)
         PROVE  Holds(t)
    <2>1. s # t
      BY <1>10, <1>0, TakenBatch DEF E!Expire
    <2>2. QED
      BY <1>2, <1>10, <2>1 DEF E!Expire
  <1>11. ASSUME NEW s \in E!Times, E!PurgeBatch(s)
         PROVE  Holds(t)
    <2>1. CASE UNCHANGED files
      BY <1>1, <2>1
    <2>2. CASE batchLock[s] = None
      <3>1. s # t
        BY <2>2, <1>0, TakenBatch
      <3>2. CASE files' = [i \in E!Ids |-> IF i \in E!File("sealed", s) \cup E!File("sent", s)
                                         THEN [files[i] EXCEPT !.at = "gone"] ELSE files[i]]
        <4>1. ASSUME NEW i \in E!Ids
              PROVE  \/ files'[i] = files[i]
                     \/ i \in E!File("sealed", s) \cup E!File("sent", s) /\ files'[i].at = "gone"
          BY <3>2, MovedFile DEF Places
        <4>2. ASSUME NEW i \in E!Ids
              PROVE  /\ i \in E!File("sealed", t) <=> files'[i].at = "sealed" /\ files'[i].ts = t
                     /\ i \in E!File("sealed", t) => files'[i] = files[i]
          BY <3>1, <4>1 DEF E!File
        <4>3. E!File("sealed", t)' = E!File("sealed", t)
          BY <4>2 DEF E!File
        <4>4. QED
          BY <4>2, <4>3 DEF Holds, E!File
      <3>3. CASE E!Pruned(s)
        BY <1>3, <3>1, <3>3, PrunedPrunes
      <3>4. QED
        BY <1>1, <1>11, <2>2, <3>2, <3>3 DEF E!PurgeBatch
    <2>3. QED
      BY <1>11, <2>1, <2>2 DEF E!PurgeBatch
  <1>12. ASSUME E!SignOut
         PROVE  Holds(t)
    <2>1. ASSUME NEW i \in E!Ids
          PROVE  \/ files'[i] = files[i]
                 \/ i \in E!Active /\ files'[i].at = "gone"
      BY <1>12, MovedFile DEF E!SignOut, Places
    <2>2. ASSUME NEW i \in E!Ids
          PROVE  /\ i \in E!File("sealed", t) <=> files'[i].at = "sealed" /\ files'[i].ts = t
                 /\ i \in E!File("sealed", t) => files'[i] = files[i]
      BY <2>1 DEF E!File, E!Active
    <2>3. E!File("sealed", t)' = E!File("sealed", t)
      BY <2>2 DEF E!File
    <2>4. QED
      BY <2>2, <2>3 DEF Holds, E!File
  <1>13. ASSUME E!PurgeSeal
         PROVE  Holds(t)
    <2>1. CASE E!Active # {} /\ files' = E!Renamed(E!FreeName)
      <3>1. E!FreeNames # {} /\ E!FreeNames \in SUBSET Nat /\ E!FreeNames \subseteq E!Times
        BY <1>13, <2>1 DEF E!PurgeSeal, E!FreeNames, E!Times
      <3>2. E!FreeName \in E!Times /\ E!File("sealed", E!FreeName) = {}
        BY <3>1, MinIsLeast DEF E!FreeName, E!FreeNames
      <3>3. E!FreeName # t
        BY <1>0, <3>2
      <3>4. QED
        BY <1>6, <2>1, <3>2, <3>3
    <2>2. QED
      BY <1>1, <1>13, <2>1 DEF E!PurgeSeal
  <1>14. QED
    BY <1>1, <1>4, <1>5, <1>7, <1>8, <1>9, <1>10, <1>11, <1>12, <1>13, WhoWrites DEF Writers

\* Nor do others touch what a worker does, its lock, its record of attempts and its quarantine.
LEMMA OthersStep ==
  ASSUME E!Constants, Typed, Locked, [E!Next]_(E!vars), NEW v \in Worker, work[v].pc # "idle",
         ~ E!WorkStep(v), ~ E!TooOld(v), ~ E!Crash(v), NEW t \in E!Times, work[v].ts = t
  PROVE  work'[v] = work[v] /\ batchLock'[t] = batchLock[t] /\ meta'[t] = meta[t] /\ poison'[t] = poison[t]
  <1>0. /\ batchLock \in [E!Times -> Worker \cup {None}] /\ meta \in [E!Times -> MetaSet] /\ poison \in [E!Times -> SUBSET Rows]
        /\ work \in [Worker -> WorkSet]
    BY WorkParts DEF Typed, MetaSet
  <1>1. ASSUME NEW u \in Worker, E!WorkStep(u) \/ E!TooOld(u) \/ E!Crash(u)
        PROVE  work[u].ts \in E!Times /\ work[u].ts # t /\ u # v
    <2>1. u # v
      BY <1>1
    <2>2. work[u].pc # "idle"
      <3>1. ASSUME E!WorkStep(u)
            PROVE  work[u].pc # "idle"
        BY <3>1 DEF E!WorkStep, E!Post, E!PausedPost, E!Sent, E!Salvage, E!PostAgain, E!Retry, E!Quarantine, E!Cut, E!Close, E!At
      <3>2. QED
        BY <1>1, <3>1 DEF E!TooOld, E!Crash, E!At
    <2>3. QED
      BY <2>1, <2>2, OthersBatch
  <1>2. ASSUME NEW u \in Worker, NEW s \in E!Times, E!Take(u, s)
        PROVE  s # t /\ u # v
    BY <1>2, TakenBatch DEF E!Take, E!At
  <1>3. ASSUME NEW u \in Worker, NEW x, u # v, work' = [work EXCEPT ![u] = x]
        PROVE  work'[v] = work[v]
    BY <1>0, <1>3
  <1>4. work'[v] = work[v]
    <2>1. ASSUME NEW u \in Worker, E!WorkStep(u)
          PROVE  \E x : work' = [work EXCEPT ![u] = x]
      <3>1. ASSUME NEW pc, E!To(u, pc)
            PROVE  work' = [work EXCEPT ![u] = [work[u] EXCEPT !.pc = pc]]
        BY <3>1 DEF E!To
      <3>2. CASE E!Post(u) \/ E!PausedPost(u) \/ E!Sent(u) \/ E!Cut(u) \/ E!Quarantine(u)
        <4>1. \E pc : E!To(u, pc)
          BY <3>2 DEF E!Post, E!PausedPost, E!Sent, E!Cut, E!Quarantine
        <4>2. QED
          BY <3>1, <4>1
      <3>3. CASE E!Salvage(u)
        <4>1. \E pc : E!To(u, pc)
          BY <3>3 DEF E!Salvage, E!To
        <4>2. QED
          BY <3>1, <4>1
      <3>4. CASE E!Retry(u)
        <4>1. \/ \E pc : E!To(u, pc)
              \/ work' = [work EXCEPT ![u] = [work[u] EXCEPT !.pc = "quarantine", !.spends = TRUE]]
          BY <3>4 DEF E!Retry
        <4>2. QED
          BY <3>1, <4>1
      <3>5. CASE E!PostAgain(u)
        BY <1>1, <2>1, <3>5, PostAgainReads DEF Reads
      <3>6. CASE E!Close(u)
        BY <3>6 DEF E!Close
      <3>7. QED
        BY <2>1, <3>2, <3>3, <3>4, <3>5, <3>6 DEF E!WorkStep
    <2>2. ASSUME NEW u \in Worker, E!TooOld(u)
          PROVE  \E x : work' = [work EXCEPT ![u] = x]
      BY <2>2 DEF E!TooOld, E!To
    <2>3. ASSUME NEW u \in Worker, E!Crash(u)
          PROVE  \E x : work' = [work EXCEPT ![u] = x]
      BY <2>3 DEF E!Crash
    <2>4. ASSUME NEW u \in Worker, NEW s \in E!Times, E!Take(u, s)
          PROVE  \E x : work' = [work EXCEPT ![u] = x]
      BY <2>4, TakeReads DEF Reads
    <2>5. QED
      BY <1>1, <1>2, <1>3, <2>1, <2>2, <2>3, <2>4, WhoWrites DEF Writers
  <1>5. batchLock'[t] = batchLock[t]
    <2>1. ASSUME NEW u \in Worker, E!Close(u) \/ E!Crash(u)
          PROVE  batchLock' = [batchLock EXCEPT ![work[u].ts] = None]
      BY <2>1 DEF E!Close, E!Crash
    <2>2. ASSUME NEW u \in Worker, NEW s \in E!Times, E!Take(u, s)
          PROVE  batchLock' = [batchLock EXCEPT ![s] = u]
      BY <2>2 DEF E!Take
    <2>3. ASSUME NEW u \in Worker, E!Close(u) \/ E!Crash(u)
          PROVE  work[u].ts # t
      BY <1>1, <2>3 DEF E!WorkStep
    <2>4. QED
      BY <1>0, <1>2, <2>1, <2>2, <2>3, WhoWrites DEF Writers
  <1>6. meta'[t] = meta[t]
    <2>1. ASSUME NEW u \in Worker, E!PausedPost(u) \/ E!Sent(u) \/ E!PostAgain(u) \/ E!Retry(u) \/ E!Quarantine(u) \/ E!Cut(u)
          PROVE  UNCHANGED meta \/ \E x : meta' = [meta EXCEPT ![work[u].ts] = x]
      BY <2>1 DEF E!PausedPost, E!Sent, E!PostAgain, E!Retry, E!Quarantine, E!Cut
    <2>2. ASSUME NEW u \in Worker, E!PausedPost(u) \/ E!Sent(u) \/ E!PostAgain(u) \/ E!Retry(u) \/ E!Quarantine(u) \/ E!Cut(u)
          PROVE  work[u].ts # t
      BY <1>1, <2>2 DEF E!WorkStep
    <2>3. ASSUME NEW u \in Worker, NEW s \in E!Times, E!Take(u, s)
          PROVE  UNCHANGED meta \/ \E x : meta' = [meta EXCEPT ![s] = x]
      BY <2>3, TakeReads DEF Reads
    <2>4. ASSUME NEW s \in E!Times, E!Expire(s) \/ E!PurgeBatch(s)
          PROVE  UNCHANGED meta \/ (s # t /\ \E x : meta' = [meta EXCEPT ![s] = x])
      BY <2>4, TakenBatch DEF E!Expire, E!PurgeBatch
    <2>5. QED
      BY <1>0, <1>2, <2>1, <2>2, <2>3, <2>4, WhoWrites DEF Writers
  <1>7. poison'[t] = poison[t]
    <2>1. ASSUME NEW u \in Worker, E!Quarantine(u)
          PROVE  \E x : poison' = [poison EXCEPT ![work[u].ts] = x]
      BY <2>1 DEF E!Quarantine
    <2>2. ASSUME NEW s \in E!Times, E!Pruned(s)
          PROVE  \E x : poison' = [poison EXCEPT ![s] = x]
      BY <2>2, PrunedPrunes DEF Prunes
    <2>3. ASSUME NEW u \in Worker, E!Close(u)
          PROVE  \E x : poison' = [poison EXCEPT ![work[u].ts] = x]
      BY <1>1, <2>2, <2>3 DEF E!Close, E!WorkStep
    <2>4. ASSUME NEW u \in Worker, E!Quarantine(u) \/ E!Close(u)
          PROVE  work[u].ts # t
      BY <1>1, <2>4 DEF E!WorkStep
    <2>5. ASSUME NEW s \in E!Times, E!PurgeBatch(s)
          PROVE  UNCHANGED poison \/ (s # t /\ \E x : poison' = [poison EXCEPT ![s] = x])
      BY <2>2, <2>5, TakenBatch DEF E!PurgeBatch
    <2>6. QED
      BY <1>0, <2>1, <2>3, <2>4, <2>5, WhoWrites DEF Writers
  <1>8. QED
    BY <1>4, <1>5, <1>6, <1>7

\* A worker goes on by itself.
LEMMA WorkerTurn ==
  ASSUME E!Constants, Typed, Locked, [E!Next]_(E!vars), NEW v \in Worker
  PROVE  \/ work'[v] = work[v] /\ ~ E!WorkStep(v) /\ ~ E!TooOld(v) /\ ~ E!Crash(v)
         \/ E!WorkStep(v) \/ E!TooOld(v) \/ E!Crash(v)
         \/ \E t \in E!Times : E!Take(v, t)
  <1>0. work \in [Worker -> WorkSet]
    BY WorkParts
  <1>1. CASE work[v].pc # "idle"
    BY <1>1, OthersStep DEF Locked
  <1>2. CASE work[v].pc = "idle"
    <2>1. ASSUME NEW u \in Worker, u # v, E!WorkStep(u) \/ E!TooOld(u) \/ E!Crash(u)
          PROVE  work'[v] = work[v]
      <3>1. ASSUME NEW x, work' = [work EXCEPT ![u] = x]
            PROVE  work'[v] = work[v]
        BY <1>0, <2>1, <3>1
      <3>2. CASE E!Post(u) \/ E!PausedPost(u) \/ E!Sent(u) \/ E!Cut(u) \/ E!Quarantine(u) \/ E!TooOld(u)
        <4>1. \E pc : E!To(u, pc)
          BY <3>2 DEF E!Post, E!PausedPost, E!Sent, E!Cut, E!Quarantine, E!TooOld
        <4>2. QED
          BY <1>0, <2>1, <4>1 DEF E!To
      <3>3. CASE E!Salvage(u)
        BY <1>0, <2>1, <3>3 DEF E!Salvage, E!To
      <3>4. CASE E!Retry(u)
        BY <1>0, <2>1, <3>4 DEF E!Retry, E!To
      <3>5. CASE E!PostAgain(u)
        <4>1. work[u].ts \in E!Times
          BY <3>5 DEF Locked, E!PostAgain, E!At
        <4>2. QED
          BY <3>1, <3>5, <4>1, PostAgainReads DEF Reads
      <3>6. CASE E!Close(u)
        BY <3>1, <3>6 DEF E!Close
      <3>7. CASE E!Crash(u)
        BY <3>1, <3>7 DEF E!Crash
      <3>8. QED
        BY <2>1, <3>2, <3>3, <3>4, <3>5, <3>6, <3>7 DEF E!WorkStep
    <2>2. ASSUME NEW u \in Worker, u # v, NEW t \in E!Times, E!Take(u, t)
          PROVE  work'[v] = work[v]
      <3>1. ASSUME NEW x, work' = [work EXCEPT ![u] = x]
            PROVE  work'[v] = work[v]
        BY <1>0, <2>2, <3>1
      <3>2. QED
        BY <2>2, <3>1, TakeReads DEF Reads
    <2>3. ~ E!WorkStep(v) /\ ~ E!TooOld(v) /\ ~ E!Crash(v)
      BY <1>2 DEF E!WorkStep, E!TooOld, E!Crash, E!Post, E!PausedPost, E!Sent, E!Salvage, E!PostAgain, E!Retry, E!Quarantine, E!Cut, E!Close, E!At
    <2>4. QED
      BY <2>1, <2>2, <2>3, WhoWrites DEF Writers
  <1>3. QED
    BY <1>1, <1>2

LEMMA ToParts ==
  ASSUME Typed, NEW w \in Worker, NEW pc, E!To(w, pc)
  PROVE  /\ work'[w].pc = pc /\ work'[w].ts = work[w].ts /\ work'[w].ready = work[w].ready
         /\ work'[w].held = work[w].held /\ work'[w].again = work[w].again /\ work'[w].spends = work[w].spends
  <1>1. work \in [Worker -> WorkSet] /\ work[w] \in WorkSet
    BY WorkParts
  <1>2. QED
    BY <1>1 DEF E!To, WorkSet

\* What a worker's step but the last leaves of what it has in hand.
LEMMA OwnStep ==
  ASSUME Typed, Locked, NEW w \in Worker, (E!WorkStep(w) /\ ~ E!Close(w)) \/ E!TooOld(w)
  PROVE  /\ work[w].pc \in Deciding /\ work'[w].pc \in Deciding \cup {"close"} /\ work'[w].ts = work[w].ts
         /\ UNCHANGED batchLock
         /\ ~ E!PostAgain(w) => work'[w].ready = work[w].ready /\ work'[w].held = work[w].held
         /\ ~ E!Retry(w) => work'[w].spends = work[w].spends
  <1>0. work \in [Worker -> WorkSet] /\ work[w] \in WorkSet
    BY WorkParts
  <1>1. CASE E!Post(w)
    <2>1. \E pc \in {"sent", "quarantine", "refused", "close", "failed"} : E!To(w, pc)
      BY <1>1 DEF E!Post
    <2>2. QED
      BY <1>1, <2>1, ToParts DEF E!Post, E!At, Deciding
  <1>2. CASE E!PausedPost(w)
    BY <1>2, ToParts DEF E!PausedPost, E!At, Deciding
  <1>3. CASE E!Sent(w)
    BY <1>3, ToParts DEF E!Sent, E!At, Deciding
  <1>4. CASE E!Salvage(w)
    <2>1. \E pc \in {"quarantine", "again"} : E!To(w, pc)
      BY <1>4 DEF E!Salvage, E!To
    <2>2. QED
      BY <1>4, <2>1, ToParts DEF E!Salvage, E!At, Deciding
  <1>5. CASE E!PostAgain(w)
    <2>1. work[w].pc = "again" /\ work[w].ts \in E!Times /\ UNCHANGED batchLock
      BY <1>5 DEF E!PostAgain, Locked, E!At
    <2>2. PICK kept, held : Reads(w, work[w].ts, kept, held)
      BY <1>5, <2>1, PostAgainReads
    <2>3. work'[w].pc \in {"post", "close"} /\ work'[w].ts = work[w].ts /\ work'[w].spends = work[w].spends
      BY <2>2 DEF Reads
    <2>4. ~ E!Retry(w)
      BY <2>1 DEF E!Retry, E!At
    <2>5. QED
      BY <1>5, <2>1, <2>3, <2>4 DEF Deciding
  <1>6. CASE E!Retry(w)
    <2>1. CASE work' = [work EXCEPT ![w].pc = "quarantine", ![w].spends = TRUE]
      <3>1. /\ work'[w].pc = "quarantine" /\ work'[w].ts = work[w].ts /\ work'[w].ready = work[w].ready
            /\ work'[w].held = work[w].held
        BY <1>0, <2>1 DEF WorkSet
      <3>2. QED
        BY <1>6, <3>1 DEF E!Retry, E!At, Deciding
    <2>2. CASE E!To(w, "close")
      BY <1>6, <2>2, ToParts DEF E!Retry, E!At, Deciding
    <2>3. QED
      BY <1>6, <2>1, <2>2 DEF E!Retry
  <1>7. CASE E!Quarantine(w)
    <2>1. \E pc \in {"close", "cut"} : E!To(w, pc)
      BY <1>7 DEF E!Quarantine
    <2>2. QED
      BY <1>7, <2>1, ToParts DEF E!Quarantine, E!At, Deciding
  <1>8. CASE E!Cut(w)
    BY <1>8, ToParts DEF E!Cut, E!At, Deciding
  <1>9. CASE E!TooOld(w)
    BY <1>9, ToParts DEF E!TooOld, E!At, Deciding
  <1>10. QED
    BY <1>1, <1>2, <1>3, <1>4, <1>5, <1>6, <1>7, <1>8, <1>9 DEF E!WorkStep

\* What a worker that goes on to decide has of its batch.
LEMMA OwnFiles ==
  ASSUME Typed, Locked, Divided, NEW w \in Worker, E!WorkStep(w) \/ E!TooOld(w), work'[w].pc \in Deciding
  PROVE  \/ UNCHANGED files /\ work'[w].ready = work[w].ready /\ work'[w].held = work[w].held
         \/ /\ files' = E!Replaced(work[w].ts, work'[w].ready \cup work'[w].held)
            /\ work'[w].ready \cup work'[w].held \in SUBSET Rows /\ work'[w].ready # {}
         \/ /\ files' = E!Replaced(work[w].ts, {x \in work[w].ready : x.whole} \cup work[w].held)
            /\ {x \in work[w].ready : x.whole} # {}
            /\ work'[w].ready = work[w].ready /\ work'[w].held = work[w].held
  <1>1. ASSUME E!Post(w) \/ E!Retry(w) \/ E!TooOld(w)
        PROVE  UNCHANGED files /\ work'[w].ready = work[w].ready /\ work'[w].held = work[w].held
    <2>1. UNCHANGED files /\ ~ E!Close(w) /\ ~ E!PostAgain(w)
      BY <1>1 DEF E!Post, E!Retry, E!TooOld, E!Close, E!PostAgain, E!At, E!queue
    <2>2. QED
      BY <1>1, <2>1, OwnStep DEF E!WorkStep
  <1>2. ASSUME E!PausedPost(w) \/ E!Sent(w) \/ E!Cut(w)
        PROVE  FALSE
    BY <1>2, ToParts DEF E!PausedPost, E!Sent, E!Cut, Deciding
  <1>3. ASSUME E!Close(w)
        PROVE  FALSE
    BY <1>3, WorkParts DEF E!Close, E!NoWork, Deciding
  <1>4. ASSUME E!Salvage(w)
        PROVE  \/ UNCHANGED files /\ work'[w].ready = work[w].ready /\ work'[w].held = work[w].held
               \/ /\ files' = E!Replaced(work[w].ts, {x \in work[w].ready : x.whole} \cup work[w].held)
                  /\ {x \in work[w].ready : x.whole} # {}
                  /\ work'[w].ready = work[w].ready /\ work'[w].held = work[w].held
    <2>1. ~ E!Close(w) /\ ~ E!PostAgain(w)
      BY <1>4 DEF E!Salvage, E!Close, E!PostAgain, E!At
    <2>2. work'[w].ready = work[w].ready /\ work'[w].held = work[w].held
      BY <1>4, <2>1, OwnStep DEF E!WorkStep
    <2>3. \/ UNCHANGED files
          \/ /\ files' = E!Replaced(work[w].ts, {x \in work[w].ready : x.whole} \cup work[w].held)
             /\ {x \in work[w].ready : x.whole} # {}
      BY <1>4 DEF E!Salvage
    <2>4. QED
      BY <2>2, <2>3
  <1>5. ASSUME E!PostAgain(w)
        PROVE  /\ files' = E!Replaced(work[w].ts, work'[w].ready \cup work'[w].held)
               /\ work'[w].ready \cup work'[w].held \in SUBSET Rows /\ work'[w].ready # {}
    <2>1. work[w].ts \in E!Times
      BY <1>5 DEF Locked, E!PostAgain, E!At
    <2>2. PICK kept, held : Reads(w, work[w].ts, kept, held)
      BY <1>5, <2>1, PostAgainReads
    <2>3. /\ work'[w].pc = (IF kept \ held = {} THEN "close" ELSE "post")
          /\ work'[w].ready = kept \ held /\ work'[w].held = held
      BY <2>2 DEF Reads
    <2>4. kept \ held # {}
      BY <2>3 DEF Deciding
    <2>5. work'[w].ready \cup work'[w].held = kept /\ kept \in SUBSET Rows /\ files' = E!Replaced(work[w].ts, kept)
      BY <2>2, <2>3 DEF Reads
    <2>6. QED
      BY <2>3, <2>4, <2>5
  <1>6. ASSUME E!Quarantine(w)
        PROVE  UNCHANGED files /\ work'[w].ready = work[w].ready /\ work'[w].held = work[w].held
    <2>1. ~ E!To(w, "close")
      BY ToParts DEF Deciding
    <2>2. UNCHANGED files /\ ~ E!Close(w) /\ ~ E!PostAgain(w)
      BY <1>6, <2>1 DEF E!Quarantine, E!Close, E!PostAgain, E!At
    <2>3. QED
      BY <1>6, <2>2, OwnStep DEF E!WorkStep
  <1>7. QED
    BY <1>1, <1>2, <1>3, <1>4, <1>5, <1>6 DEF E!WorkStep

\* After a worker's read, its batch is what it has kept.
LEMMA ReadWork ==
  ASSUME NEW w \in Worker, NEW t \in E!Times, NEW kept, NEW held, Reads(w, t, kept, held)
  PROVE  /\ work'[w].ts = t /\ work'[w].ready = kept \ held /\ work'[w].held = held
         /\ work'[w].ready \cup work'[w].held = kept
         /\ work'[w].pc \in {"post", "close"} /\ work'[w].spends = work[w].spends
         /\ work'[w].pc = "post" => work'[w].ready # {} /\ kept # {}
  BY DEF Reads

\* A batch that is worked on is locked by the one who does.
LEMMA LockedStep ==
  ASSUME E!Constants, Typed, Carried, Locked, Divided, [E!Next]_(E!vars)
  PROVE  Locked'
  <1>0. work \in [Worker -> WorkSet] /\ batchLock \in [E!Times -> Worker \cup {None}]
    BY WorkParts DEF Typed
  <1>1. ASSUME NEW v \in Worker, work'[v].pc # "idle"
        PROVE  work'[v].ts \in E!Times /\ batchLock'[work'[v].ts] = v
    <2>1. CASE work'[v] = work[v] /\ ~ E!WorkStep(v) /\ ~ E!TooOld(v) /\ ~ E!Crash(v)
      <3>1. work[v].pc # "idle" /\ work[v].ts \in E!Times /\ batchLock[work[v].ts] = v
        BY <1>1, <2>1 DEF Locked
      <3>2. QED
        BY <2>1, <3>1, OthersStep
    <2>2. CASE (E!WorkStep(v) /\ ~ E!Close(v)) \/ E!TooOld(v)
      <3>1. work[v].pc \in Deciding /\ work'[v].ts = work[v].ts /\ UNCHANGED batchLock
        BY <2>2, OwnStep
      <3>2. QED
        BY <3>1 DEF Locked, Deciding
    <2>3. CASE E!Close(v) \/ E!Crash(v)
      BY <1>0, <1>1, <2>3 DEF E!Close, E!Crash, E!NoWork
    <2>4. ASSUME NEW t \in E!Times, E!Take(v, t)
          PROVE  work'[v].ts = t /\ batchLock'[t] = v
      <3>1. PICK kept, held : Reads(v, t, kept, held)
        BY <2>4, TakeReads
      <3>2. work'[v].ts = t
        BY <3>1, ReadWork
      <3>3. batchLock'[t] = v
        BY <1>0, <2>4 DEF E!Take
      <3>4. QED
        BY <3>2, <3>3
    <2>5. QED
      BY <2>1, <2>2, <2>3, <2>4, WorkerTurn
  <1>2. ASSUME NEW t \in E!Times, batchLock'[t] # None
        PROVE  work'[batchLock'[t]].pc # "idle" /\ work'[batchLock'[t]].ts = t
    <2>1. CASE batchLock[t] = None
      <3>1. PICK u \in Worker, s \in E!Times : E!Take(u, s)
        <4>1. ASSUME NEW u \in Worker, E!Close(u) \/ E!Crash(u)
              PROVE  FALSE
          BY <1>0, <1>2, <2>1, <4>1 DEF E!Close, E!Crash
        <4>2. QED
          BY <1>2, <2>1, <4>1, WhoWrites DEF Writers
      <3>2. s = t /\ batchLock'[t] = u
        BY <1>0, <1>2, <2>1, <3>1 DEF E!Take
      <3>3. QED
        BY <3>1, <3>2, TakeReads, ReadWork
    <2>2. CASE batchLock[t] # None
      <3> DEFINE v == batchLock[t]
      <3>1. v \in Worker /\ work[v].pc # "idle" /\ work[v].ts = t
        BY <1>0, <2>2 DEF Locked
      <3> HIDE DEF v
      <3>2. CASE work'[v] = work[v] /\ ~ E!WorkStep(v) /\ ~ E!TooOld(v) /\ ~ E!Crash(v)
        BY <3>1, <3>2, OthersStep DEF v
      <3>3. CASE (E!WorkStep(v) /\ ~ E!Close(v)) \/ E!TooOld(v)
        <4>1. work'[v].pc # "idle" /\ work'[v].ts = t /\ UNCHANGED batchLock
          BY <3>1, <3>3, OwnStep DEF Deciding
        <4>2. QED
          BY <3>1, <4>1 DEF v
      <3>4. CASE E!Close(v) \/ E!Crash(v)
        BY <1>0, <1>2, <3>1, <3>4 DEF E!Close, E!Crash
      <3>5. ASSUME NEW s \in E!Times, E!Take(v, s)
            PROVE  FALSE
        BY <3>1, <3>5 DEF E!Take, E!At
      <3>6. QED
        BY <3>1, <3>2, <3>3, <3>4, <3>5, WorkerTurn
    <2>3. QED
      BY <2>1, <2>2
  <1>3. ASSUME NEW v \in Worker, work'[v].pc \in Deciding
        PROVE  E!Batch(v)' # {}
    <2> DEFINE t == work'[v].ts
    <2>0. \A rows : E!Batch(v)' = {i \in E!Ids : files'[i].at = "sealed" /\ files'[i].ts = work'[v].ts}
      BY DEF E!Batch, E!File
    <2>1. CASE work'[v] = work[v] /\ ~ E!WorkStep(v) /\ ~ E!TooOld(v) /\ ~ E!Crash(v)
      <3>1. work[v].pc \in Deciding /\ work[v].ts \in E!Times /\ E!File("sealed", work[v].ts) # {}
        BY <1>3, <2>1 DEF Locked, Deciding, E!Batch
      <3>2. PICK s \in E!Times : s = work[v].ts
        BY <3>1
      <3>3. E!File("sealed", s)' # {}
        BY <2>1, <3>1, <3>2, FilesHold DEF Holds
      <3>4. QED
        BY <2>0, <2>1, <3>2, <3>3 DEF E!File
    <2>2. CASE (E!WorkStep(v) /\ ~ E!Close(v)) \/ E!TooOld(v)
      <3>1. work[v].pc \in Deciding /\ work'[v].ts = work[v].ts
        BY <2>2, OwnStep
      <3>2. work[v].ts \in E!Times /\ E!File("sealed", work[v].ts) # {}
        BY <3>1 DEF Locked, Deciding, E!Batch
      <3>3. PICK i \in E!Ids : i \in E!File("sealed", work[v].ts)
        BY <3>2 DEF E!File
      <3>4. ASSUME NEW rows \in SUBSET Rows, rows # {}, files' = E!Replaced(work[v].ts, rows)
            PROVE  files'[i].at = "sealed" /\ files'[i].ts = work[v].ts
        BY <3>2, <3>3, <3>4, ReplacedFiles
      <3>5. {x \in work[v].ready : x.whole} \cup work[v].held \in SUBSET Rows
        BY WorkParts
      <3>6. files'[i].at = "sealed" /\ files'[i].ts = work[v].ts
        <4>1. CASE UNCHANGED files
          BY <3>3, <4>1 DEF E!File
        <4>2. CASE ~ UNCHANGED files
          <5>1. \E rows \in SUBSET Rows : rows # {} /\ files' = E!Replaced(work[v].ts, rows)
            BY <1>3, <2>2, <3>5, <4>2, OwnFiles
          <5>2. QED
            BY <3>4, <5>1
        <4>3. QED
          BY <4>1, <4>2
      <3>7. QED
        BY <2>0, <3>1, <3>6
    <2>3. CASE E!Close(v) \/ E!Crash(v)
      BY <1>0, <1>3, <2>3 DEF E!Close, E!Crash, E!NoWork, Deciding
    <2>4. ASSUME NEW s \in E!Times, E!Take(v, s)
          PROVE  E!Batch(v)' # {}
      <3>1. PICK kept, held : Reads(v, s, kept, held)
        BY <2>4, TakeReads
      <3>2. kept # {} /\ kept \in SUBSET Rows /\ files' = E!Replaced(s, kept) /\ work'[v].ts = s
        BY <1>3, <3>1, ReadWork DEF Reads, Deciding
      <3>3. PICK i \in E!Ids : i \in E!File("sealed", s)
        BY <2>4 DEF E!Take, E!File
      <3>4. files'[i].at = "sealed" /\ files'[i].ts = s
        BY <3>2, <3>3, ReplacedFiles
      <3>5. QED
        BY <2>0, <3>2, <3>4
    <2>5. QED
      BY <2>1, <2>2, <2>3, <2>4, WorkerTurn
  <1>4. QED
    BY <1>1, <1>2, <1>3 DEF Locked

\* What a worker has read of its batch is what the batch holds.
LEMMA DividedStep ==
  ASSUME E!Constants, Typed, Carried, Locked, Divided, [E!Next]_(E!vars)
  PROVE  Divided'
  <1>0. work \in [Worker -> WorkSet]
    BY DEF Typed, WorkSet
  <1>1. late \subseteq late'
    BY WhoWrites DEF Writers, E!HookWrite, E!HookRename
  <1>2. ASSUME NEW v \in Worker, work'[v].pc \in Deciding
        PROVE  /\ work'[v].ready # {}
               /\ \A i \in E!Ids : \A x \in files'[i].rows :
                    files'[i].at = "sealed" /\ files'[i].ts = work'[v].ts /\ x.whole /\ x \notin late'
                      => x \in work'[v].ready \cup work'[v].held
    <2>1. CASE work'[v] = work[v] /\ ~ E!WorkStep(v) /\ ~ E!TooOld(v) /\ ~ E!Crash(v)
      <3>1. work[v].pc \in Deciding /\ work[v].ts \in E!Times
        BY <1>2, <2>1 DEF Locked, Deciding
      <3>2. PICK s \in E!Times : s = work[v].ts
        BY <3>1
      <3>3. Holds(s)
        BY <2>1, <3>1, <3>2, FilesHold
      <3>4. \A i \in E!File("sealed", s) : \A x \in files[i].rows :
              x.whole /\ x \notin late => x \in work[v].ready \cup work[v].held
        BY <3>1, <3>2 DEF Divided, E!Batch
      <3>5. ASSUME NEW i \in E!Ids, NEW x \in files'[i].rows, files'[i].at = "sealed", files'[i].ts = s,
                   x.whole, x \notin late'
            PROVE  x \in work[v].ready \cup work[v].held
        <4>1. i \in E!File("sealed", s)'
          BY <3>5 DEF E!File
        <4>2. i \in E!File("sealed", s) /\ x \in files[i].rows
          BY <3>3, <3>5, <4>1 DEF Holds
        <4>3. QED
          BY <1>1, <3>4, <3>5, <4>2
      <3>6. QED
        BY <2>1, <3>1, <3>2, <3>5 DEF Divided
    <2>2. CASE (E!WorkStep(v) /\ ~ E!Close(v)) \/ E!TooOld(v)
      <3>1. work[v].pc \in Deciding /\ work'[v].ts = work[v].ts
        BY <2>2, OwnStep
      <3>2. work[v].ts \in E!Times
        BY <3>1 DEF Locked, Deciding
      <3>3. PICK s \in E!Times : s = work[v].ts
        BY <3>2
      <3>4. ASSUME NEW rows \in SUBSET Rows, files' = E!Replaced(s, rows), NEW i \in E!Ids,
                   files'[i].at = "sealed", files'[i].ts = s
            PROVE  files'[i].rows = rows
        <4>1. i \in E!File("sealed", s)
          BY <3>4, ReplacedFiles DEF E!File
        <4>2. QED
          BY <3>4, <4>1, ReplacedFiles
      <3>5. CASE UNCHANGED files /\ work'[v].ready = work[v].ready /\ work'[v].held = work[v].held
        <4>1. /\ work[v].ready # {}
              /\ \A i \in E!File("sealed", s) : \A x \in files[i].rows :
                   x.whole /\ x \notin late => x \in work[v].ready \cup work[v].held
          BY <3>1, <3>3 DEF Divided, E!Batch
        <4>2. QED
          BY <1>1, <3>1, <3>3, <3>5, <4>1 DEF E!File
      <3>6. CASE /\ files' = E!Replaced(s, work'[v].ready \cup work'[v].held)
                 /\ work'[v].ready \cup work'[v].held \in SUBSET Rows /\ work'[v].ready # {}
        <4>1. \A i \in E!Ids : files'[i].at = "sealed" /\ files'[i].ts = s =>
                files'[i].rows = work'[v].ready \cup work'[v].held
          BY <3>4, <3>6
        <4>2. work'[v].ts = s
          BY <3>1, <3>3
        <4>3. QED
          BY <3>6, <4>1, <4>2
      <3>7. CASE /\ files' = E!Replaced(s, {x \in work[v].ready : x.whole} \cup work[v].held)
                 /\ work'[v].ready = work[v].ready /\ work'[v].held = work[v].held
        <4>1. {x \in work[v].ready : x.whole} \cup work[v].held \in SUBSET Rows
          BY WorkParts
        <4>2. \A i \in E!Ids : files'[i].at = "sealed" /\ files'[i].ts = s =>
                files'[i].rows = {x \in work[v].ready : x.whole} \cup work[v].held
          BY <3>4, <3>7, <4>1
        <4>3. work[v].ready # {}
          BY <3>1 DEF Divided
        <4>4. QED
          BY <3>1, <3>3, <3>7, <4>2, <4>3
      <3>8. QED
        BY <1>2, <2>2, <3>3, <3>5, <3>6, <3>7, OwnFiles
    <2>3. CASE E!Close(v) \/ E!Crash(v)
      BY <1>0, <1>2, <2>3 DEF E!Close, E!Crash, E!NoWork, Deciding
    <2>4. ASSUME NEW s \in E!Times, E!Take(v, s)
          PROVE  /\ work'[v].ready # {}
                 /\ \A i \in E!Ids : \A x \in files'[i].rows :
                      files'[i].at = "sealed" /\ files'[i].ts = work'[v].ts => x \in work'[v].ready \cup work'[v].held
      <3>1. PICK kept, held : Reads(v, s, kept, held)
        BY <2>4, TakeReads
      <3>2. /\ kept \in SUBSET Rows /\ files' = E!Replaced(s, kept) /\ work'[v].ts = s
            /\ work'[v].ready \cup work'[v].held = kept /\ work'[v].ready # {}
        BY <1>2, <3>1, ReadWork DEF Reads, Deciding
      <3>3. ASSUME NEW i \in E!Ids, files'[i].at = "sealed", files'[i].ts = s
            PROVE  files'[i].rows \subseteq kept
        <4>1. i \in E!File("sealed", s)
          BY <3>2, <3>3, ReplacedFiles DEF E!File
        <4>2. QED
          BY <3>2, <3>3, <4>1, ReplacedFiles
      <3>4. QED
        BY <3>2, <3>3
    <2>5. QED
      BY <2>1, <2>2, <2>3, <2>4, WorkerTurn
  <1>3. QED
    BY <1>2 DEF Divided, E!Batch, E!File

\* What is about to be taken from a batch has arrived, or is in quarantine.
LEMMA SecuredStep ==
  ASSUME E!Constants, Typed, Carried, Locked, Divided, Secured, [E!Next]_(E!vars)
  PROVE  Secured'
  <1>0. work \in [Worker -> WorkSet] /\ poison \in [E!Times -> SUBSET Rows]
    BY WorkParts DEF Typed
  <1>1. received \subseteq received'
    BY WhoWrites DEF Writers, E!Post
  <1>2. ASSUME NEW v \in Worker, work'[v].pc \in {"sent", "cut"}
        PROVE  /\ work'[v].pc = "sent" => work'[v].ready \subseteq received'
               /\ work'[v].pc = "cut" => work'[v].ready \subseteq poison'[work'[v].ts]
    <2>1. CASE work'[v] = work[v] /\ ~ E!WorkStep(v) /\ ~ E!TooOld(v) /\ ~ E!Crash(v)
      <3>1. work[v].pc # "idle" /\ work[v].ts \in E!Times
        BY <1>2, <2>1 DEF Locked
      <3>2. poison'[work[v].ts] = poison[work[v].ts]
        BY <2>1, <3>1, OthersStep
      <3>3. QED
        BY <1>1, <2>1, <3>2 DEF Secured
    <2>2. CASE E!Post(v) \/ E!Quarantine(v)
      <3>1. work'[v].ready = work[v].ready /\ work'[v].ts = work[v].ts /\ work[v].ts \in E!Times
        <4>1. ~ E!PostAgain(v) /\ ~ E!Close(v) /\ E!WorkStep(v)
          BY <2>2 DEF E!Post, E!Quarantine, E!PostAgain, E!Close, E!At, E!WorkStep
        <4>2. QED
          BY <4>1, OwnStep DEF Locked, Deciding
      <3>2. CASE E!Post(v)
        <4>1. \/ received' = received \cup work[v].ready
              \/ \E pc \in {"quarantine", "refused", "close", "failed"} : E!To(v, pc)
          BY <3>2 DEF E!Post
        <4>2. work'[v].pc # "sent" \/ received' = received \cup work[v].ready
          BY <4>1, ToParts
        <4>3. work'[v].pc # "cut"
          <5>1. \E pc \in {"sent", "quarantine", "refused", "close", "failed"} : E!To(v, pc)
            BY <3>2 DEF E!Post
          <5>2. QED
            BY <5>1, ToParts
        <4>4. QED
          BY <3>1, <4>2, <4>3
      <3>3. CASE E!Quarantine(v)
        <4>1. E!To(v, "close") \/ (E!To(v, "cut") /\ poison' = [poison EXCEPT ![work[v].ts] = @ \cup work[v].ready])
          BY <3>3 DEF E!Quarantine
        <4>2. CASE E!To(v, "close")
          BY <1>2, <4>2, ToParts
        <4>3. CASE E!To(v, "cut") /\ poison' = [poison EXCEPT ![work[v].ts] = @ \cup work[v].ready]
          BY <1>0, <3>1, <4>3, ToParts
        <4>4. QED
          BY <4>1, <4>2, <4>3
      <3>4. QED
        BY <2>2, <3>2, <3>3
    <2>3. CASE E!PausedPost(v) \/ E!Sent(v) \/ E!Cut(v) \/ E!Salvage(v) \/ E!Retry(v) \/ E!TooOld(v)
      <3>1. \/ \E pc \in {"close", "quarantine", "again"} : E!To(v, pc)
            \/ work' = [work EXCEPT ![v].pc = "quarantine", ![v].spends = TRUE]
        BY <2>3 DEF E!PausedPost, E!Sent, E!Cut, E!Salvage, E!Retry, E!TooOld, E!To
      <3>2. CASE work' = [work EXCEPT ![v].pc = "quarantine", ![v].spends = TRUE]
        <4>1. work'[v].pc = "quarantine"
          BY <1>0, <3>2 DEF WorkSet
        <4>2. QED
          BY <1>2, <4>1
      <3>3. QED
        BY <1>2, <3>1, <3>2, ToParts
    <2>4. CASE E!PostAgain(v)
      <3>1. work[v].ts \in E!Times
        BY <2>4 DEF Locked, E!PostAgain, E!At
      <3>2. work'[v].pc \in {"post", "close"}
        BY <2>4, <3>1, PostAgainReads, ReadWork
      <3>3. QED
        BY <1>2, <3>2
    <2>5. CASE E!Close(v) \/ E!Crash(v)
      BY <1>0, <1>2, <2>5 DEF E!Close, E!Crash, E!NoWork
    <2>6. ASSUME NEW s \in E!Times, E!Take(v, s)
          PROVE  FALSE
      BY <1>2, <2>6, TakeReads, ReadWork
    <2>7. QED
      BY <2>1, <2>2, <2>3, <2>4, <2>5, <2>6, WorkerTurn DEF E!WorkStep
  <1>3. QED
    BY <1>2 DEF Secured

\* Attempts on record are failures of the rows on record.
LEMMA AttemptsOwn ==
  ASSUME E!Constants, Typed, Locked, Divided, Charged, NEW w \in Worker, E!Retry(w)
  PROVE  LET n == E!Attempts(meta[work[w].ts], work[w].ready, work[w].held)
         IN  n \in Nat /\ work[w].ready # {} /\ \A x \in work[w].ready : n <= tries[x.n]
  <1> DEFINE m == meta[work[w].ts]
             n == E!Attempts(m, work[w].ready, work[w].held)
  <1>1. work[w].pc = "failed" /\ work[w].ts \in E!Times /\ work[w].ready # {}
    BY DEF E!Retry, E!At, Locked, Divided, Deciding
  <1>2. m.attempts \in Nat /\ (m.payload = {} => m.attempts = 0)
    BY <1>1 DEF Typed, Counts, Charged
  <1>3. ASSUME NEW x \in work[w].ready
        PROVE  tries[x.n] \in Nat /\ 1 <= tries[x.n] /\ (m.payload = work[w].ready => m.attempts < tries[x.n])
    <2>1. x \in Rows
      BY WorkParts
    <2>2. tries[x.n] \in Nat
      BY <2>1 DEF Rows, Typed
    <2>3. QED
      BY <1>1, <2>2 DEF Charged
  <1> HIDE DEF m
  <1>4. n \in Nat
    BY <1>2 DEF E!Attempts
  <1>5. \A x \in work[w].ready : n <= tries[x.n]
    BY <1>2, <1>3 DEF E!Attempts
  <1>6. QED
    BY <1>1, <1>4, <1>5 DEF m

LEMMA ChargedStep ==
  ASSUME E!Constants, Typed, Carried, Locked, Divided, Charged, [E!Next]_(E!vars)
  PROVE  Charged'
  <1>0. /\ work \in [Worker -> WorkSet] /\ meta \in [E!Times -> MetaSet] /\ work' \in [Worker -> WorkSet]
        /\ \A w \in Worker : work[w] \in WorkSet
    BY WorkTypeStep DEF Typed, WorkSet, MetaSet
  <1>1. \A x \in Rows : tries[x.n] \in Nat /\ tries'[x.n] \in Nat /\ tries[x.n] <= tries'[x.n]
    BY TriesStay DEF Rows
  <1>2. \A w \in Worker : work[w].ready \subseteq Rows /\ work'[w].ready \subseteq Rows
    BY <1>0 DEF WorkSet
  <1>3. \A t \in E!Times : meta[t].attempts \in Nat /\ meta[t].payload \subseteq Rows
    BY <1>0 DEF MetaSet, Counts
  <1>4. ASSUME NEW t \in E!Times
        PROVE  /\ meta'[t].payload = {} => meta'[t].attempts = 0
               /\ \A x \in meta'[t].payload : meta'[t].attempts <= tries'[x.n]
    <2>1. CASE meta'[t] = meta[t]
      BY <1>1, <1>3, <2>1 DEF Charged
    <2>2. CASE meta'[t] = E!NoMeta
      BY <2>2 DEF E!NoMeta
    <2>3. ASSUME NEW w \in Worker, E!Retry(w), meta'[t] # meta[t]
          PROVE  /\ meta'[t].payload = {} => meta'[t].attempts = 0
                 /\ \A x \in meta'[t].payload : meta'[t].attempts <= tries'[x.n]
      <3> DEFINE n == E!Attempts(meta[work[w].ts], work[w].ready, work[w].held)
      <3>1. n \in Nat /\ work[w].ready # {} /\ \A x \in work[w].ready : n <= tries[x.n]
        BY <2>3, AttemptsOwn
      <3>2. meta' = [meta EXCEPT ![work[w].ts] = [attempts |-> n, payload |-> work[w].ready]]
        BY <2>3 DEF E!Retry
      <3> HIDE DEF n
      <3>3. meta'[t].attempts = n /\ meta'[t].payload = work[w].ready
        BY <1>0, <2>3, <3>2
      <3>4. \A x \in work[w].ready : n <= tries'[x.n]
        BY <1>1, <1>2, <3>1
      <3>5. QED
        BY <3>1, <3>3, <3>4
    <2>4. ASSUME NEW w \in Worker, E!PausedPost(w) \/ E!Sent(w) \/ E!PostAgain(w) \/ E!Quarantine(w) \/ E!Cut(w)
          PROVE  UNCHANGED meta \/ \E s : meta' = [meta EXCEPT ![s] = E!NoMeta]
      BY <2>4 DEF E!PausedPost, E!Sent, E!PostAgain, E!Quarantine, E!Cut
    <2>5. ASSUME NEW w \in Worker, NEW s \in E!Times, E!Take(w, s)
          PROVE  UNCHANGED meta \/ meta' = [meta EXCEPT ![s] = E!NoMeta]
      BY <2>5, TakeReads DEF Reads
    <2>6. ASSUME NEW s \in E!Times, E!Expire(s) \/ E!PurgeBatch(s)
          PROVE  UNCHANGED meta \/ meta' = [meta EXCEPT ![s] = E!NoMeta]
      BY <2>6 DEF E!Expire, E!PurgeBatch
    <2>7. CASE UNCHANGED meta
      BY <2>1, <2>7
    <2>8. ASSUME NEW s, meta' = [meta EXCEPT ![s] = E!NoMeta]
          PROVE  meta'[t] = meta[t] \/ meta'[t] = E!NoMeta
      BY <1>0, <2>8
    <2>9. QED
      BY <2>1, <2>2, <2>3, <2>4, <2>5, <2>6, <2>7, <2>8, WhoWrites DEF Writers
  <1>5. ASSUME NEW v \in Worker, work'[v] = work[v], ~ E!WorkStep(v), ~ E!TooOld(v), ~ E!Crash(v)
        PROVE  /\ work'[v].pc = "failed" =>
                    \A x \in work'[v].ready :
                      /\ 1 <= tries'[x.n]
                      /\ meta'[work'[v].ts].payload = work'[v].ready => meta'[work'[v].ts].attempts < tries'[x.n]
               /\ work'[v].spends => work'[v].pc \in {"quarantine", "cut", "close"}
               /\ work'[v].spends /\ work'[v].pc = "quarantine" =>
                    \A x \in work'[v].ready : MaxRetries <= tries'[x.n]
    <2>1. work[v].pc = "failed" => work[v].ts \in E!Times /\ meta'[work[v].ts] = meta[work[v].ts]
      BY <1>5, OthersStep DEF Locked
    <2>2. MaxRetries \in Nat
      BY DEF E!Constants
    <2>3. \A x \in work[v].ready : /\ tries[x.n] \in Nat /\ tries'[x.n] \in Nat /\ tries[x.n] <= tries'[x.n]
      BY <1>1, <1>2
    <2>4. work[v].pc = "failed" => meta[work[v].ts].attempts \in Nat
      BY <1>3, <2>1
    <2>5. ASSUME work[v].pc = "failed", NEW x \in work[v].ready
          PROVE  /\ 1 <= tries'[x.n]
                 /\ meta[work[v].ts].payload = work[v].ready => meta[work[v].ts].attempts < tries'[x.n]
      BY <2>3, <2>4, <2>5 DEF Charged
    <2>6. ASSUME work[v].spends, work[v].pc = "quarantine", NEW x \in work[v].ready
          PROVE  MaxRetries <= tries'[x.n]
      BY <2>2, <2>3, <2>6 DEF Charged
    <2>7. work[v].spends => work[v].pc \in {"quarantine", "cut", "close"}
      BY DEF Charged
    <2>8. QED
      BY <1>5, <2>1, <2>5, <2>6, <2>7
  <1>6. ASSUME NEW v \in Worker, E!Post(v)
        PROVE  /\ work'[v].pc = "failed" =>
                    \A x \in work'[v].ready :
                      /\ 1 <= tries'[x.n]
                      /\ meta'[work'[v].ts].payload = work'[v].ready => meta'[work'[v].ts].attempts < tries'[x.n]
               /\ ~ work'[v].spends
    <2>1. work[v].pc = "post" /\ UNCHANGED meta /\ work[v].ts \in E!Times
      BY <1>6 DEF E!Post, E!At, E!queue, Locked
    <2>2. ~ work[v].spends
      BY <2>1 DEF Charged
    <2>3. ~ E!PostAgain(v) /\ ~ E!Close(v) /\ ~ E!Retry(v) /\ E!WorkStep(v)
      BY <1>6, <2>1 DEF E!PostAgain, E!Close, E!Retry, E!At, E!WorkStep
    <2>4. work'[v].ready = work[v].ready /\ work'[v].ts = work[v].ts /\ work'[v].spends = work[v].spends
      BY <2>3, OwnStep
    <2>5. E!Failed(v) \/ \E pc \in {"sent", "quarantine", "refused", "close"} : E!To(v, pc)
      BY <1>6 DEF E!Post
    <2>6. ASSUME work'[v].pc = "failed", NEW x \in work[v].ready
          PROVE  1 <= tries'[x.n] /\ (meta[work[v].ts].payload = work[v].ready => meta[work[v].ts].attempts < tries'[x.n])
      <3>1. E!Failed(v)
        BY <2>5, <2>6, ToParts
      <3>2. x \in Rows /\ x.n \in DOMAIN tries /\ tries[x.n] \in Nat
        BY <1>1, <1>2 DEF Rows
      <3>3. tries'[x.n] = tries[x.n] + 1
        BY <2>6, <3>1, <3>2 DEF E!Failed
      <3>4. meta[work[v].ts].payload = work[v].ready => meta[work[v].ts].attempts <= tries[x.n]
        BY <2>1, <2>6 DEF Charged
      <3>5. meta[work[v].ts].attempts \in Nat
        BY <1>3, <2>1
      <3>6. QED
        BY <3>2, <3>3, <3>4, <3>5
    <2>7. QED
      BY <2>1, <2>2, <2>4, <2>6
  <1>7. ASSUME NEW v \in Worker, E!Retry(v)
        PROVE  /\ work'[v].pc # "failed"
               /\ work'[v].spends => work'[v].pc = "quarantine" /\ \A x \in work'[v].ready : MaxRetries <= tries'[x.n]
    <2> DEFINE n == E!Attempts(meta[work[v].ts], work[v].ready, work[v].held)
    <2>1. n \in Nat /\ \A x \in work[v].ready : n <= tries[x.n]
      BY <1>7, AttemptsOwn
    <2>2. work[v].pc = "failed" /\ ~ work[v].spends
      BY <1>7 DEF E!Retry, E!At, Charged
    <2>3. \/ E!Enough(n) /\ work' = [work EXCEPT ![v].pc = "quarantine", ![v].spends = TRUE]
          \/ E!To(v, "close")
      BY <1>7 DEF E!Retry
    <2> HIDE DEF n
    <2>4. CASE E!To(v, "close")
      BY <2>2, <2>4, ToParts
    <2>5. CASE E!Enough(n) /\ work' = [work EXCEPT ![v].pc = "quarantine", ![v].spends = TRUE]
      <3>1. work'[v].pc = "quarantine" /\ work'[v].ready = work[v].ready
        BY <1>0, <2>5 DEF WorkSet
      <3>2. MaxRetries \in Nat /\ MaxRetries <= n
        BY <2>1, <2>5 DEF E!Enough, E!Constants
      <3>3. \A x \in work[v].ready : MaxRetries <= tries'[x.n]
        BY <1>1, <1>2, <2>1, <3>2
      <3>4. QED
        BY <3>1, <3>3
    <2>6. QED
      BY <2>3, <2>4, <2>5
  <1>8. ASSUME NEW v \in Worker, E!Quarantine(v)
        PROVE  work'[v].pc \in {"close", "cut"}
    BY <1>8, ToParts DEF E!Quarantine
  <1>9. ASSUME NEW v \in Worker, E!PausedPost(v) \/ E!Sent(v) \/ E!Cut(v) \/ E!Salvage(v) \/ E!TooOld(v)
        PROVE  work'[v].pc \in {"close", "quarantine", "again"} /\ (work'[v].spends => work'[v].pc = "close")
    <2>1. \E pc \in {"close", "quarantine", "again"} : E!To(v, pc) /\ (work[v].pc = "cut" => pc = "close")
      BY <1>9 DEF E!PausedPost, E!Sent, E!Cut, E!Salvage, E!TooOld, E!To, E!At
    <2>2. work[v].pc \in {"post", "sent", "cut", "refused"}
      BY <1>9 DEF E!PausedPost, E!Sent, E!Cut, E!Salvage, E!TooOld, E!At
    <2>3. work[v].spends => work[v].pc = "cut"
      BY <2>2 DEF Charged
    <2>4. QED
      BY <2>1, <2>3, ToParts
  <1>10. ASSUME NEW v \in Worker, E!PostAgain(v)
         PROVE  work'[v].pc \in {"post", "close"} /\ ~ work'[v].spends
    <2>1. work[v].ts \in E!Times /\ ~ work[v].spends
      BY <1>10 DEF Locked, E!PostAgain, E!At, Charged
    <2>2. QED
      BY <1>10, <2>1, PostAgainReads, ReadWork
  <1>11. ASSUME NEW v \in Worker, E!Close(v) \/ E!Crash(v)
         PROVE  work'[v].pc = "idle" /\ ~ work'[v].spends
    BY <1>0, <1>11 DEF E!Close, E!Crash, E!NoWork
  <1>12. ASSUME NEW v \in Worker, NEW s \in E!Times, E!Take(v, s)
         PROVE  work'[v].pc \in {"post", "close"} /\ ~ work'[v].spends
    <2>1. ~ work[v].spends
      BY <1>12 DEF E!Take, E!At, Charged
    <2>2. QED
      BY <1>12, <2>1, TakeReads, ReadWork
  <1>13. ASSUME NEW v \in Worker
         PROVE  /\ work'[v].pc = "failed" =>
                     \A x \in work'[v].ready :
                       /\ 1 <= tries'[x.n]
                       /\ meta'[work'[v].ts].payload = work'[v].ready => meta'[work'[v].ts].attempts < tries'[x.n]
                /\ work'[v].spends => work'[v].pc \in {"quarantine", "cut", "close"}
                /\ work'[v].spends /\ work'[v].pc = "quarantine" =>
                     \A x \in work'[v].ready : MaxRetries <= tries'[x.n]
    <2>1. CASE work'[v] = work[v] /\ ~ E!WorkStep(v) /\ ~ E!TooOld(v) /\ ~ E!Crash(v)
      BY <1>5, <2>1
    <2>2. CASE E!Post(v)
      BY <1>6, <2>2
    <2>3. CASE E!Retry(v)
      BY <1>7, <2>3
    <2>4. CASE E!Quarantine(v)
      BY <1>8, <2>4
    <2>5. CASE E!PausedPost(v) \/ E!Sent(v) \/ E!Cut(v) \/ E!Salvage(v) \/ E!TooOld(v)
      BY <1>9, <2>5
    <2>6. CASE E!PostAgain(v)
      BY <1>10, <2>6
    <2>7. CASE E!Close(v) \/ E!Crash(v)
      BY <1>11, <2>7
    <2>8. CASE \E s \in E!Times : E!Take(v, s)
      BY <1>12, <2>8
    <2>9. QED
      BY <2>1, <2>2, <2>3, <2>4, <2>5, <2>6, <2>7, <2>8, WorkerTurn DEF E!WorkStep
  <1>14. QED
    BY <1>4, <1>13 DEF Charged

\* Rows are given up for failures only when they failed as often themselves.
LEMMA ChargedForOwnStep ==
  ASSUME E!Constants, Typed, Charged, E!ChargedForOwn, [E!Next]_(E!vars)
  PROVE  E!ChargedForOwn'
  <1>1. \A x \in Rows : tries[x.n] \in Nat /\ tries'[x.n] \in Nat /\ tries[x.n] <= tries'[x.n]
    BY TriesStay DEF Rows
  <1>2. MaxRetries \in Nat /\ spent \subseteq Rows
    BY DEF E!Constants, Typed
  <1>3. ASSUME NEW w \in Worker, E!Quarantine(w), NEW x \in spent', x \notin spent
        PROVE  x \in Rows /\ MaxRetries <= tries[x.n]
    <2>1. work[w].pc = "quarantine" /\ work[w].spends /\ x \in work[w].ready
      BY <1>3 DEF E!Quarantine, E!At
    <2>2. QED
      BY <2>1, WorkParts DEF Charged
  <1>4. ASSUME NEW x \in spent'
        PROVE  x \in Rows /\ MaxRetries <= tries[x.n]
    <2>1. CASE x \in spent
      BY <1>2, <2>1 DEF E!ChargedForOwn
    <2>2. CASE x \notin spent
      BY <1>3, <1>4, <2>2, WhoWrites DEF Writers
    <2>3. QED
      BY <2>1, <2>2
  <1>5. \A x \in spent' : tries'[x.n] >= MaxRetries
    BY <1>1, <1>2, <1>4
  <1>6. QED
    BY <1>5 DEF E!ChargedForOwn

-----------------------------------------------------------------------------
(* Where rows come from.                                                     *)

\* A row is past, as what it has been stamped with.
LEMMA PastStays ==
  ASSUME Typed, [E!Next]_(E!vars), NEW x \in Rows, Past(x)
  PROVE  Past(x)'
  <1>1. /\ x.repo \in Repo /\ x.token \in Nat /\ x.epoch \in Nat
        /\ repo[x.repo].token \in Nat /\ repo[x.repo].epoch \in Nat
    BY DEF Rows, E!Row, Typed
  <1>2. /\ repo'[x.repo].token \in Nat /\ repo'[x.repo].epoch \in Nat
        /\ repo[x.repo].token <= repo'[x.repo].token /\ repo[x.repo].epoch <= repo'[x.repo].epoch
    BY <1>1, RepoStep DEF RepoSet
  <1>3. QED
    BY <1>1, <1>2 DEF Past

\* Every row in a file, a quarantine or a worker's hand is past.
Stamps(x) == x \in Rows /\ Past(x)
LEMMA FilesStamped ==
  ASSUME Typed, Carried, Locked, Stamped, [E!Next]_(E!vars), NEW i \in E!Ids, NEW x \in files'[i].rows
  PROVE  Stamps(x)
  <1>0. /\ files \in [E!Ids -> FileSet] /\ \A k \in E!Ids : files[k] \in FileSet /\ files[k].rows \subseteq Rows
    BY FileParts DEF Typed, FileSet
  <1>1. \A k \in E!Ids : \A y \in files[k].rows : Stamps(y)
    BY <1>0 DEF Stamps, Stamped
  <1>2. \A w \in Worker : \A y \in work[w].ready \cup work[w].held : Stamps(y)
    BY WorkParts DEF Stamps, Stamped
  <1>3. \A t : \A y \in Content(t) : Stamps(y)
    BY <1>1 DEF Content, E!File
  <1>4. CASE files'[i].rows \subseteq files[i].rows
    BY <1>1, <1>4
  <1>5. ASSUME NEW t \in E!Times, NEW rows \in SUBSET Rows, files' = E!Replaced(t, rows), \A y \in rows : Stamps(y)
        PROVE  Stamps(x)
    <2>1. files'[i].rows = files[i].rows \/ files'[i].rows = rows
      BY <1>5, ReplacedFiles
    <2>2. QED
      BY <1>1, <1>5, <2>1
  <1>6. ASSUME NEW w \in Worker, NEW t \in E!Times, NEW kept, NEW held, Reads(w, t, kept, held)
        PROVE  Stamps(x)
    BY <1>3, <1>5, <1>6 DEF Reads
  <1>7. ASSUME NEW t \in E!Times, NEW out, Prunes(t, out)
        PROVE  Stamps(x)
    <2>1. files'[i].rows \subseteq files[i].rows
      BY <1>7 DEF Prunes
    <2>2. QED
      BY <1>4, <2>1
  <1>8. ASSUME NEW h \in Hook, E!HookOpen(h)
        PROVE  files'[i].rows = files[i].rows
    <2>1. PICK fd \in E!Ids : files' = [files EXCEPT ![fd].at = "active"]
      BY <1>8, OpenedFile
    <2>2. files[fd] \in FileSet
      BY <1>0
    <2>3. QED
      BY <1>0, <2>1, <2>2 DEF FileSet
  <1>9. ASSUME NEW h \in Hook, E!HookWrite(h)
        PROVE  Stamps(x)
    <2> DEFINE fd == recorder[h].fd
               cut == [recorder[h].row EXCEPT !.whole = FALSE]
    <2>1. fd \in E!Ids /\ recorder[h].row \in Rows /\ Past(recorder[h].row)
      BY <1>9 DEF E!HookWrite, Carried, Stamped
    <2>2. /\ cut.repo = recorder[h].row.repo /\ cut.token = recorder[h].row.token /\ cut.epoch = recorder[h].row.epoch
          /\ cut \in Rows
      BY <2>1 DEF Rows, E!Row
    <2>3. Stamps(recorder[h].row) /\ Stamps(cut)
      BY <2>1, <2>2 DEF Stamps, Past
    <2>4. \E y : Stamps(y) /\ files' = [files EXCEPT ![fd].rows = @ \cup {y}]
      BY <1>9, <2>3 DEF E!HookWrite
    <2>5. ASSUME NEW y, Stamps(y), files' = [files EXCEPT ![fd].rows = @ \cup {y}]
          PROVE  files'[i].rows \subseteq files[i].rows \cup {y}
      <3>1. files[fd] \in FileSet
        BY <1>0, <2>1
      <3>2. QED
        BY <1>0, <2>1, <2>5, <3>1 DEF FileSet
    <2> HIDE DEF fd, cut
    <2>6. QED
      BY <1>1, <2>4, <2>5
  <1>10. ASSUME NEW h \in Hook, E!HookRename(h)
         PROVE  files'[i].rows = files[i].rows
    <2>1. recorder[h].ts \in E!Times
      BY <1>10 DEF E!HookRename, Carried
    <2>2. CASE files' = E!Renamed(recorder[h].ts)
      BY <2>1, <2>2, RenamedFiles
    <2>3. QED
      BY <1>10, <2>2 DEF E!HookRename
  <1>11. ASSUME NEW w \in Worker, E!Sent(w) \/ E!Salvage(w) \/ E!PostAgain(w) \/ E!Quarantine(w) \/ E!Cut(w) \/ E!Close(w)
         PROVE  Stamps(x)
    <2>1. work[w].ts \in E!Times
      BY <1>11 DEF Locked, E!Sent, E!Salvage, E!PostAgain, E!Quarantine, E!Cut, E!Close, E!At
    <2>2. work[w].ready \subseteq Rows /\ work[w].held \subseteq Rows
      BY WorkParts
    <2>3. CASE E!Sent(w)
      <3>1. CASE work[w].held # {}
        BY <1>2, <1>5, <2>1, <2>2, <2>3, <3>1 DEF E!Sent
      <3>2. CASE work[w].held = {}
        <4>1. \/ files'[i] = files[i]
              \/ files'[i] = [files[i] EXCEPT !.at = "sent"]
              \/ files'[i] = [files[i] EXCEPT !.at = "gone"]
          BY <2>3, <3>2 DEF E!Sent
        <4>2. files'[i].rows = files[i].rows
          <5>1. [files[i] EXCEPT !.at = "sent"].rows = files[i].rows
            BY MovedFile DEF Places
          <5>2. [files[i] EXCEPT !.at = "gone"].rows = files[i].rows
            BY MovedFile DEF Places
          <5>3. QED
            BY <4>1, <5>1, <5>2
        <4>3. QED
          BY <1>4, <4>2
      <3>3. QED
        BY <3>1, <3>2
    <2>4. CASE E!Salvage(w)
      <3> DEFINE rows == {y \in work[w].ready : y.whole} \cup work[w].held
      <3>1. rows \in SUBSET Rows /\ \A y \in rows : Stamps(y)
        BY <1>2, <2>2
      <3>2. UNCHANGED files \/ files' = E!Replaced(work[w].ts, rows)
        BY <2>4 DEF E!Salvage
      <3> HIDE DEF rows
      <3>3. QED
        BY <1>4, <1>5, <2>1, <3>1, <3>2
    <2>5. CASE E!PostAgain(w)
      BY <1>6, <2>1, <2>5, PostAgainReads
    <2>6. CASE E!Quarantine(w)
      <3>1. UNCHANGED files \/ files' = E!Replaced(work[w].ts, {})
        BY <2>6 DEF E!Quarantine
      <3>2. QED
        BY <1>4, <1>5, <2>1, <3>1
    <2>7. CASE E!Cut(w)
      BY <1>2, <1>5, <2>1, <2>2, <2>7 DEF E!Cut
    <2>8. CASE E!Close(w)
      BY <1>7, <2>1, <2>8, PrunedPrunes DEF E!Close
    <2>9. QED
      BY <1>11, <2>3, <2>4, <2>5, <2>6, <2>7, <2>8
  <1>12. ASSUME NEW w \in Worker, NEW t \in E!Times, E!Take(w, t)
         PROVE  Stamps(x)
    BY <1>6, <1>12, TakeReads
  <1>13. ASSUME NEW t \in E!Times, E!Expire(t)
         PROVE  Stamps(x)
    BY <1>5, <1>13 DEF E!Expire
  <1>14. ASSUME NEW t \in E!Times, E!PurgeBatch(t)
         PROVE  Stamps(x)
    <2>1. CASE files' = [k \in E!Ids |-> IF k \in E!File("sealed", t) \cup E!File("sent", t)
                                       THEN [files[k] EXCEPT !.at = "gone"] ELSE files[k]]
      <3>1. files'[i].rows = files[i].rows
        BY <2>1, MovedFile DEF Places
      <3>2. QED
        BY <1>4, <3>1
    <2>2. QED
      BY <1>4, <1>7, <1>14, <2>1, PrunedPrunes DEF E!PurgeBatch
  <1>15. ASSUME E!SignOut
         PROVE  files'[i].rows = files[i].rows
    BY <1>15, MovedFile DEF E!SignOut, Places
  <1>16. ASSUME E!PurgeSeal
         PROVE  files'[i].rows = files[i].rows
    <2>1. CASE E!Active # {} /\ files' = E!Renamed(E!FreeName)
      <3>1. E!FreeNames # {} /\ E!FreeNames \in SUBSET Nat /\ E!FreeNames \subseteq E!Times
        BY <1>16, <2>1 DEF E!PurgeSeal, E!FreeNames, E!Times
      <3>2. E!FreeName \in E!Times
        BY <3>1, MinIsLeast DEF E!FreeName
      <3>3. QED
        BY <2>1, <3>2, RenamedFiles
    <2>2. QED
      BY <1>16, <2>1 DEF E!PurgeSeal
  <1>17. QED
    BY <1>4, <1>8, <1>9, <1>10, <1>11, <1>12, <1>13, <1>14, <1>15, <1>16, WhoWrites DEF Writers

\* ... in the next state.
PastNext(x) == x.token <= repo'[x.repo].token /\ x.epoch <= repo'[x.repo].epoch

\* No row is stamped with what is to come.
LEMMA StampedStep ==
  ASSUME E!Constants, Typed, Carried, Locked, Divided, Stamped, [E!Next]_(E!vars)
  PROVE  Stamped'
  <1>0. \A x : Stamps(x) => PastNext(x)
    BY PastStays DEF Stamps, Past, PastNext
  <1>1. \A w \in Worker : \A y \in work[w].ready \cup work[w].held : Stamps(y)
    BY WorkParts DEF Stamps, Stamped
  <1>2. \A t \in E!Times : \A y \in Content(t) \cup poison[t] : Stamps(y)
    BY ContentRows, FileParts DEF Stamps, Stamped, Content, E!File, Typed
  <1>3. \A i \in E!Ids : \A x \in files'[i].rows : PastNext(x)
    BY <1>0, FilesStamped
  <1>4. \A x \in written' : x.whole /\ PastNext(x)
    <2>1. \A x \in written : x.whole /\ Stamps(x)
      BY DEF Stamped, Stamps, Typed
    <2>2. ASSUME NEW h \in Hook, E!HookWrite(h), NEW x \in written', x \notin written
          PROVE  x.whole /\ Stamps(x)
      BY <2>2 DEF E!HookWrite, Carried, Stamped, Stamps
    <2>3. QED
      BY <1>0, <2>1, <2>2, WhoWrites DEF Writers
  <1>5. \A t \in E!Times : \A x \in poison'[t] : PastNext(x)
    <2>0. poison \in [E!Times -> SUBSET Rows]
      BY DEF Typed
    <2>1. ASSUME NEW w \in Worker, E!Quarantine(w), NEW t \in E!Times, NEW x \in poison'[t]
          PROVE  Stamps(x)
      <3>1. work[w].ts \in E!Times
        BY <2>1 DEF E!Quarantine, Locked, E!At
      <3>2. E!RowsOf(w) = Content(work[w].ts)
        BY DEF E!RowsOf, Content, E!Batch
      <3>3. \/ poison' = [poison EXCEPT ![work[w].ts] = E!RowsOf(w)]
            \/ poison' = [poison EXCEPT ![work[w].ts] = @ \cup work[w].ready]
        BY <2>1 DEF E!Quarantine
      <3>4. x \in poison[t] \/ x \in work[w].ready \/ x \in Content(work[w].ts)
        BY <2>0, <2>1, <3>1, <3>2, <3>3
      <3>5. QED
        BY <1>1, <1>2, <3>1, <3>4
    <2>2. ASSUME NEW s \in E!Times, E!Pruned(s), NEW t \in E!Times, NEW x \in poison'[t]
          PROVE  Stamps(x)
      <3>1. x \in poison[t]
        BY <2>0, <2>2, PrunedPrunes DEF Prunes
      <3>2. QED
        BY <1>2, <3>1
    <2>3. ASSUME NEW w \in Worker, E!Close(w), NEW t \in E!Times, NEW x \in poison'[t]
          PROVE  Stamps(x)
      <3>1. work[w].ts \in E!Times /\ E!Pruned(work[w].ts)
        BY <2>3 DEF Locked, E!Close, E!At
      <3>2. QED
        BY <2>2, <2>3, <3>1
    <2>4. ASSUME NEW s \in E!Times, E!PurgeBatch(s), NEW t \in E!Times, NEW x \in poison'[t]
          PROVE  Stamps(x)
      <3>1. CASE UNCHANGED poison
        BY <1>2, <2>4, <3>1
      <3>2. QED
        BY <2>2, <2>4, <3>1 DEF E!PurgeBatch
    <2>5. CASE UNCHANGED poison
      BY <1>0, <1>2, <2>5
    <2>6. QED
      BY <1>0, <2>1, <2>3, <2>4, <2>5, WhoWrites DEF Writers
  <1>6. ASSUME NEW w \in Worker, NEW x \in work'[w].ready \cup work'[w].held
        PROVE  PastNext(x)
    <2>0. work \in [Worker -> WorkSet]
      BY DEF Typed, WorkSet
    <2>1. ASSUME NEW t \in E!Times, NEW kept, NEW held, Reads(w, t, kept, held)
          PROVE  Stamps(x)
      <3>1. x \in kept /\ kept \subseteq Content(t)
        BY <1>6, <2>1, ReadWork DEF Reads
      <3>2. QED
        BY <1>2, <3>1
    <2>2. CASE work'[w] = work[w]
      BY <1>0, <1>1, <1>6, <2>2
    <2>3. CASE ((E!WorkStep(w) /\ ~ E!Close(w)) \/ E!TooOld(w)) /\ ~ E!PostAgain(w)
      BY <1>0, <1>1, <1>6, <2>3, OwnStep
    <2>4. CASE E!PostAgain(w)
      <3>1. work[w].ts \in E!Times
        BY <2>4 DEF Locked, E!PostAgain, E!At
      <3>2. QED
        BY <1>0, <2>1, <2>4, <3>1, PostAgainReads
    <2>5. CASE E!Close(w) \/ E!Crash(w)
      BY <1>6, <2>0, <2>5 DEF E!Close, E!Crash, E!NoWork
    <2>6. CASE \E t \in E!Times : E!Take(w, t)
      BY <1>0, <2>1, <2>6, TakeReads
    <2>7. QED
      BY <2>2, <2>3, <2>4, <2>5, <2>6, WorkerTurn
  <1>7. ASSUME NEW h \in Hook, recorder'[h].pc \in {"recheck", "open", "write"}
        PROVE  PastNext(recorder'[h].row)
    <2>0. recorder \in [Hook -> HookSet] /\ recorder[h] \in HookSet
      BY DEF Typed, HookSet
    <2>1. CASE recorder'[h] = recorder[h]
      <3>1. Stamps(recorder[h].row)
        BY <1>7, <2>1 DEF Carried, Stamped, Stamps
      <3>2. \A x : x = recorder[h].row => PastNext(x)
        BY <1>0, <3>1
      <3>3. QED
        BY <2>1, <3>2
    <2>2. ASSUME NEW r \in Repo, E!HookRegister(h, r)
          PROVE  PastNext(recorder'[h].row)
      <3> DEFINE row == [n |-> left["rows"], repo |-> r, token |-> repo[r].token, epoch |-> repo[r].epoch, whole |-> TRUE]
      <3>1. /\ repo' = repo /\ repo[r].token \in Nat /\ repo[r].epoch \in Nat
            /\ recorder' = [recorder EXCEPT ![h].pc = "recheck", ![h].row = row]
        BY <2>2 DEF E!HookRegister, E!consent, Typed
      <3>2. row.repo = r /\ row.token = repo[r].token /\ row.epoch = repo[r].epoch
        OBVIOUS
      <3> HIDE DEF row
      <3>3. recorder'[h].row = row
        BY <2>0, <3>1 DEF HookSet
      <3>4. QED
        BY <3>1, <3>2, <3>3 DEF PastNext
    <2>3. CASE E!HookRecheck(h) \/ E!HookOpen(h)
      <3>1. /\ recorder[h].pc \in {"recheck", "open"}
            /\ recorder' = [recorder EXCEPT ![h] = E!NoHook] \/ recorder'[h].row = recorder[h].row
        <4>1. CASE E!HookRecheck(h)
          <5>1. recorder[h].pc = "recheck" /\ (recorder' = [recorder EXCEPT ![h] = E!NoHook] \/ recorder' = [recorder EXCEPT ![h] = [@ EXCEPT !.pc = "open"]])
            BY <4>1 DEF E!HookRecheck
          <5>2. QED
            BY <2>0, <5>1 DEF HookSet
        <4>2. CASE E!HookOpen(h)
          <5>1. PICK fd \in E!Ids : recorder' = [recorder EXCEPT ![h].pc = "write", ![h].fd = fd]
            BY <4>2, OpenedFile
          <5>2. QED
            BY <2>0, <4>2, <5>1 DEF HookSet, E!HookOpen
        <4>3. QED
          BY <2>3, <4>1, <4>2
      <3>2. recorder' # [recorder EXCEPT ![h] = E!NoHook]
        BY <1>7, <2>0 DEF E!NoHook
      <3>3. Stamps(recorder[h].row) /\ recorder'[h].row = recorder[h].row
        BY <3>1, <3>2 DEF Carried, Stamped, Stamps
      <3>4. \A x : x = recorder[h].row => PastNext(x)
        BY <1>0, <3>3
      <3>5. QED
        BY <3>3, <3>4
    <2>4. CASE E!HookWrite(h) \/ E!HookEnds(h) \/ E!HookRename(h) \/ E!HookSeals(h) \/ E!HookName(h)
      <3>1. \/ recorder' = [recorder EXCEPT ![h] = E!NoHook]
            \/ recorder' = [recorder EXCEPT ![h] = [E!NoHook EXCEPT !.pc = "ended"]]
            \/ recorder' = [recorder EXCEPT ![h].pc = "name"]
            \/ recorder' = [recorder EXCEPT ![h] = [@ EXCEPT !.pc = "rename", !.ts = E!FreeName]]
        BY <2>4 DEF E!HookWrite, E!HookEnds, E!HookRename, E!HookSeals, E!HookName
      <3>2. CASE recorder' = [recorder EXCEPT ![h] = [@ EXCEPT !.pc = "rename", !.ts = E!FreeName]]
        <4>1. recorder'[h].pc = "rename"
          BY <2>0, <3>2 DEF HookSet
        <4>2. QED
          BY <1>7, <4>1
      <3>3. CASE recorder' # [recorder EXCEPT ![h] = [@ EXCEPT !.pc = "rename", !.ts = E!FreeName]]
        <4>1. recorder'[h].pc \in {"idle", "ended", "name"}
          BY <2>0, <3>1, <3>3 DEF E!NoHook, HookSet
        <4>2. QED
          BY <1>7, <4>1
      <3>4. QED
        BY <3>2, <3>3
    <2>5. ASSUME NEW k \in Hook, k # h, E!HookStep(k) \/ E!HookSeals(k) \/ \E r \in Repo : E!HookRegister(k, r)
          PROVE  recorder'[h] = recorder[h]
      <3>1. CASE E!HookOpen(k)
        BY <2>0, <2>5, <3>1, OpenedFile
      <3>2. QED
        BY <2>0, <2>5, <3>1 DEF E!HookStep, E!HookSeals, E!HookRegister, E!HookRecheck, E!HookWrite, E!HookEnds, E!HookName, E!HookRename
    <2>6. QED
      BY <2>1, <2>2, <2>3, <2>4, <2>5, WhoWrites DEF Writers, E!HookStep
  <1>8. \A w \in Worker : \A x \in work'[w].ready \cup work'[w].held : PastNext(x)
    BY <1>6
  <1>9. QED
    BY <1>3, <1>4, <1>5, <1>7, <1>8 DEF Stamped, Past, PastNext
-----------------------------------------------------------------------------
(* No recorded row is lost.                                                  *)

Waits(x)    == \E i \in E!Ids : files[i].at \in {"active", "sealed"} /\ x \in files[i].rows
SetAside(x) == \E t \in E!Times : x \in poison[t]
Lapsed(x)   == x.epoch # repo[x.repo].epoch \/ x.token \in revoked[x.repo]
Accounted(x) == Waits(x) \/ SetAside(x) \/ Lapsed(x)

LEMMA HistoryGrows ==
  ASSUME Typed, Carried, Locked, [E!Next]_(E!vars)
  PROVE  received \subseteq received' /\ late \subseteq late' /\ expired \subseteq expired'
  <1>1. received \subseteq received'
    BY WhoWrites DEF Writers, E!Post
  <1>2. late \subseteq late'
    BY WhoWrites DEF Writers, E!HookWrite, E!HookRename
  <1>3. expired \subseteq expired'
    BY WhoWrites DEF Writers, E!SignOut, E!Expire, E!PurgeBatch
  <1>4. QED
    BY <1>1, <1>2, <1>3

\* A consent that is over stays over.
LEMMA LapsedStays ==
  ASSUME Typed, Locked, [E!Next]_(E!vars), NEW x \in Rows, Past(x), Lapsed(x)
  PROVE  Lapsed(x)'
  <1>1. /\ x.repo \in Repo /\ x.token \in Nat /\ x.epoch \in Nat
        /\ repo[x.repo].epoch \in Nat
    BY DEF Rows, E!Row, Typed
  <1>2. repo'[x.repo].epoch \in Nat /\ repo[x.repo].epoch <= repo'[x.repo].epoch
    BY <1>1, RepoStep DEF RepoSet
  <1>3. revoked[x.repo] \subseteq revoked'[x.repo]
    BY <1>1, RevokedStep
  <1>4. CASE x.epoch # repo[x.repo].epoch
    BY <1>1, <1>2, <1>4 DEF Past, Lapsed
  <1>5. CASE x.token \in revoked[x.repo]
    BY <1>3, <1>5 DEF Lapsed
  <1>6. QED
    BY <1>4, <1>5 DEF Lapsed

\* A batch that is rewritten keeps what it is rewritten with.
LEMMA ReplacedKeeps ==
  ASSUME Typed, NEW t \in E!Times, NEW rows \in SUBSET Rows, files' = E!Replaced(t, rows),
         NEW i \in E!Ids, files[i].at \in {"active", "sealed"}, NEW x \in files[i].rows,
         i \in E!File("sealed", t) => x \in rows
  PROVE  Waits(x)'
  <1>1. CASE i \in E!File("sealed", t)
    <2>1. files'[i].at = "sealed" /\ files'[i].rows = rows /\ x \in rows
      BY <1>1, ReplacedFiles
    <2>2. QED
      BY <2>1 DEF Waits
  <1>2. CASE i \notin E!File("sealed", t)
    <2>1. files'[i] = files[i]
      BY <1>2, ReplacedFiles
    <2>2. QED
      BY <2>1 DEF Waits
  <1>3. QED
    BY <1>1, <1>2

\* The open log becomes a batch; what it is renamed over is lost.
LEMMA RenamedKeeps ==
  ASSUME Typed, NEW t \in E!Times, files' = E!Renamed(t),
         NEW i \in E!Ids, files[i].at \in {"active", "sealed"}, NEW x \in files[i].rows
  PROVE  Waits(x)' \/ i \in E!File("sealed", t)
  <1>1. CASE i \in E!Active
    <2>1. files'[i].at = "sealed" /\ files'[i].rows = files[i].rows
      BY <1>1, RenamedFiles
    <2>2. QED
      BY <2>1 DEF Waits
  <1>2. CASE i \notin E!Active /\ i \notin E!File("sealed", t)
    <2>1. files'[i] = files[i]
      BY <1>2, RenamedFiles
    <2>2. QED
      BY <2>1 DEF Waits
  <1>3. QED
    BY <1>1, <1>2

\* A purge takes what is over and nothing else.
LEMMA PrunesKeep ==
  ASSUME Typed, NEW t \in E!Times, NEW out, Prunes(t, out), UNCHANGED repo, NEW x
  PROVE  Waits(x) \/ SetAside(x) => Accounted(x)'
  <1>1. x \in out => Lapsed(x)'
    BY DEF Prunes, Over, Lapsed
  <1>2. ASSUME Waits(x), x \notin out
        PROVE  Waits(x)'
    <2>1. PICK i \in E!Ids : files[i].at \in {"active", "sealed"} /\ x \in files[i].rows
      BY <1>2 DEF Waits
    <2>2. files'[i].at = files[i].at /\ x \in files'[i].rows
      BY <1>2, <2>1 DEF Prunes
    <2>3. QED
      BY <2>1, <2>2 DEF Waits
  <1>3. ASSUME SetAside(x), x \notin out
        PROVE  SetAside(x)'
    <2>1. PICK s \in E!Times : x \in poison[s]
      BY <1>3 DEF SetAside
    <2>2. poison \in [E!Times -> SUBSET Rows] /\ poison' = [poison EXCEPT ![t] = @ \ out]
      BY DEF Prunes, Typed
    <2>3. x \in poison'[s]
      BY <1>3, <2>1, <2>2
    <2>4. QED
      BY <2>3 DEF SetAside
  <1>4. QED
    BY <1>1, <1>2, <1>3 DEF Accounted

\* A worker that reads a batch drops what is over.
LEMMA ReadsKeep ==
  ASSUME Typed, NEW w \in Worker, NEW t \in E!Times, NEW kept, NEW held, Reads(w, t, kept, held),
         NEW i \in E!Ids, files[i].at \in {"active", "sealed"}, NEW x \in files[i].rows
  PROVE  Waits(x)' \/ Lapsed(x)'
  <1>1. CASE i \in E!File("sealed", t) /\ x \notin kept
    <2>1. x \in Content(t)
      BY <1>1 DEF Content
    <2>2. Over(x) /\ UNCHANGED repo
      BY <1>1, <2>1 DEF Reads
    <2>3. QED
      BY <2>2 DEF Over, Lapsed
  <1>2. CASE i \in E!File("sealed", t) => x \in kept
    BY <1>2, ReplacedKeeps DEF Reads
  <1>3. QED
    BY <1>1, <1>2

\* A row that waits goes on waiting, is taken care of, or was excepted.
LEMMA WaitingStep ==
  ASSUME E!Constants, Typed, Carried, Locked, Divided, Secured, [E!Next]_(E!vars),
         NEW x \in Rows, x.whole, x \notin received', x \notin late', x \notin expired', Waits(x)
  PROVE  Accounted(x)'
  <1>0. /\ files \in [E!Ids -> FileSet] /\ \A k \in E!Ids : files[k] \in FileSet /\ files[k].rows \subseteq Rows
        /\ poison \in [E!Times -> SUBSET Rows]
    BY FileParts DEF Typed, FileSet
  <1>1. PICK i \in E!Ids : files[i].at \in {"active", "sealed"} /\ x \in files[i].rows
    BY DEF Waits
  <1>2. x \notin received /\ x \notin late /\ x \notin expired
    BY HistoryGrows
  <1>3. ASSUME NEW w \in Worker, work[w].pc \in Deciding, i \in E!Batch(w)
        PROVE  x \in work[w].ready \cup work[w].held
    BY <1>1, <1>2, <1>3 DEF Divided
  <1>4. CASE UNCHANGED files
    BY <1>1, <1>4 DEF Waits, Accounted
  <1>5. ASSUME NEW h \in Hook, E!HookOpen(h)
        PROVE  Waits(x)'
    <2>1. PICK fd \in E!Ids : files' = [files EXCEPT ![fd].at = "active"]
      BY <1>5, OpenedFile
    <2>2. files[fd] \in FileSet
      BY <1>0
    <2>3. files'[i].rows = files[i].rows /\ files'[i].at \in {"active", files[i].at}
      BY <1>0, <2>1, <2>2 DEF FileSet
    <2>4. QED
      BY <1>1, <2>3 DEF Waits
  <1>6. ASSUME NEW h \in Hook, E!HookWrite(h)
        PROVE  Waits(x)'
    <2>1. recorder[h].fd \in E!Ids /\ files[recorder[h].fd] \in FileSet
      BY <1>0, <1>6 DEF E!HookWrite, Carried
    <2>2. \E y : files' = [files EXCEPT ![recorder[h].fd].rows = @ \cup {y}]
      BY <1>6 DEF E!HookWrite
    <2>3. files[i].rows \subseteq files'[i].rows /\ files'[i].at = files[i].at
      BY <1>0, <2>1, <2>2 DEF FileSet
    <2>4. QED
      BY <1>1, <2>3 DEF Waits
  <1>7. ASSUME NEW h \in Hook, E!HookRename(h), ~ UNCHANGED files
        PROVE  Waits(x)'
    <2>1. recorder[h].ts \in E!Times
      BY <1>7 DEF E!HookRename, Carried
    <2>2. files' = E!Renamed(recorder[h].ts)
      BY <1>7 DEF E!HookRename
    <2>3. i \in E!File("sealed", recorder[h].ts) => x \in late'
      BY <1>1, <1>7 DEF E!HookRename
    <2>4. QED
      BY <1>1, <2>1, <2>2, <2>3, RenamedKeeps
  <1>8. ASSUME NEW w \in Worker, E!Sent(w)
        PROVE  Waits(x)'
    <2>1. work[w].pc \in Deciding /\ work[w].ts \in E!Times /\ work[w].held \in SUBSET Rows /\ work[w].ready \subseteq received
      BY <1>8, WorkParts DEF E!Sent, E!At, Deciding, Locked, Secured
    <2>2. i \in E!Batch(w) => x \in work[w].held
      BY <1>2, <1>3, <2>1
    <2>3. CASE files' = E!Replaced(work[w].ts, work[w].held)
      BY <1>1, <2>1, <2>2, <2>3, ReplacedKeeps DEF E!Batch
    <2>4. CASE work[w].held = {}
      <3>1. i \notin E!Batch(w)
        BY <2>2, <2>4
      <3>2. files'[i] = files[i] \/ i \in E!File("sent", work[w].ts)
        BY <1>8, <2>4, <3>1 DEF E!Sent
      <3>3. i \notin E!File("sent", work[w].ts)
        BY <1>1 DEF E!File
      <3>4. QED
        BY <1>1, <3>2, <3>3 DEF Waits
    <2>5. QED
      BY <1>8, <2>3, <2>4 DEF E!Sent
  <1>9. ASSUME NEW w \in Worker, E!Salvage(w), ~ UNCHANGED files
        PROVE  Waits(x)'
    <2> DEFINE rows == {y \in work[w].ready : y.whole} \cup work[w].held
    <2>1. work[w].pc \in Deciding /\ work[w].ts \in E!Times
      BY <1>9 DEF E!Salvage, E!At, Deciding, Locked
    <2>2. rows \in SUBSET Rows
      BY WorkParts
    <2>3. i \in E!File("sealed", work[w].ts) => x \in rows
      BY <1>3, <2>1 DEF E!Batch
    <2>4. files' = E!Replaced(work[w].ts, rows)
      BY <1>9 DEF E!Salvage
    <2> HIDE DEF rows
    <2>5. QED
      BY <1>1, <2>1, <2>2, <2>3, <2>4, ReplacedKeeps
  <1>10. ASSUME NEW w \in Worker, NEW t \in E!Times, (E!PostAgain(w) /\ t = work[w].ts) \/ E!Take(w, t)
         PROVE  Accounted(x)'
    <2>1. \E kept, held : Reads(w, t, kept, held)
      BY <1>10, PostAgainReads, TakeReads
    <2>2. QED
      BY <1>1, <2>1, ReadsKeep DEF Accounted
  <1>11. ASSUME NEW w \in Worker, E!Quarantine(w), ~ UNCHANGED files
         PROVE  Accounted(x)'
    <2> DEFINE t == work[w].ts
    <2>1. t \in E!Times /\ files' = E!Replaced(t, {}) /\ poison' = [poison EXCEPT ![t] = E!RowsOf(w)]
      BY <1>11 DEF E!Quarantine, E!At, Locked
    <2>2. CASE i \in E!Batch(w)
      <3>1. x \in poison'[t]
        BY <1>0, <1>1, <2>1, <2>2 DEF E!RowsOf
      <3>2. QED
        BY <2>1, <3>1 DEF SetAside, Accounted
    <2>3. CASE i \notin E!Batch(w)
      <3>1. Waits(x)'
        BY <1>1, <2>1, <2>3, ReplacedKeeps DEF E!Batch
      <3>2. QED
        BY <3>1 DEF Accounted
    <2>4. QED
      BY <2>2, <2>3
  <1>12. ASSUME NEW w \in Worker, E!Cut(w)
         PROVE  Accounted(x)'
    <2>1. /\ work[w].pc \in Deciding /\ work[w].ts \in E!Times /\ work[w].held \in SUBSET Rows
          /\ work[w].ready \subseteq poison[work[w].ts] /\ UNCHANGED poison
      BY <1>12, WorkParts DEF E!Cut, E!At, Deciding, Locked, Secured
    <2>2. CASE x \in work[w].ready
      BY <2>1, <2>2 DEF SetAside, Accounted
    <2>3. CASE x \notin work[w].ready
      <3>1. i \in E!File("sealed", work[w].ts) => x \in work[w].held
        BY <1>3, <2>1, <2>3 DEF E!Batch
      <3>2. Waits(x)'
        BY <1>1, <1>12, <2>1, <3>1, ReplacedKeeps DEF E!Cut
      <3>3. QED
        BY <3>2 DEF Accounted
    <2>4. QED
      BY <2>2, <2>3
  <1>13. ASSUME NEW w \in Worker, E!Close(w)
         PROVE  Accounted(x)'
    <2>1. work[w].ts \in E!Times /\ E!Pruned(work[w].ts) /\ UNCHANGED repo
      BY <1>13 DEF E!Close, E!At, Locked, E!consent
    <2>2. QED
      BY <2>1, PrunedPrunes, PrunesKeep
  <1>14. ASSUME NEW t \in E!Times, E!Expire(t)
         PROVE  Waits(x)'
    <2>1. i \notin E!File("sealed", t)
      BY <1>1, <1>14 DEF E!Expire
    <2>2. QED
      BY <1>1, <1>14, <2>1, ReplacedKeeps DEF E!Expire
  <1>15. ASSUME NEW t \in E!Times, E!PurgeBatch(t), ~ UNCHANGED files
         PROVE  Accounted(x)'
    <2>1. CASE purge.all
      <3>1. i \notin E!File("sealed", t) /\ i \notin E!File("sent", t)
        BY <1>1, <1>15, <2>1 DEF E!PurgeBatch, E!File
      <3>2. files'[i] = files[i]
        BY <1>15, <2>1, <3>1 DEF E!PurgeBatch
      <3>3. QED
        BY <1>1, <3>2 DEF Waits, Accounted
    <2>2. CASE ~ purge.all
      <3>1. E!Pruned(t) /\ UNCHANGED repo
        BY <1>15, <2>2 DEF E!PurgeBatch, E!consent
      <3>2. QED
        BY <3>1, PrunedPrunes, PrunesKeep
    <2>3. QED
      BY <2>1, <2>2
  <1>16. ASSUME E!SignOut
         PROVE  Waits(x)'
    <2>1. i \notin E!Active
      BY <1>1, <1>16 DEF E!SignOut
    <2>2. files'[i] = files[i]
      BY <1>16, <2>1 DEF E!SignOut
    <2>3. QED
      BY <1>1, <2>2 DEF Waits
  <1>17. ASSUME E!PurgeSeal, ~ UNCHANGED files
         PROVE  Waits(x)'
    <2>1. files' = E!Renamed(E!FreeName) /\ E!FreeNames # {} /\ E!FreeNames \in SUBSET Nat
      BY <1>17 DEF E!PurgeSeal, E!FreeNames, E!Times
    <2>2. E!FreeName \in E!FreeNames
      BY <2>1, MinIsLeast DEF E!FreeName
    <2>3. E!FreeName \in E!Times /\ E!File("sealed", E!FreeName) = {}
      BY <2>2 DEF E!FreeNames
    <2>4. QED
      BY <1>1, <2>1, <2>3, RenamedKeeps
  <1>18. ASSUME NEW w \in Worker, E!PostAgain(w)
         PROVE  Accounted(x)'
    <2>1. work[w].ts \in E!Times
      BY <1>18 DEF E!PostAgain, E!At, Locked
    <2>2. QED
      BY <1>10, <1>18, <2>1
  <1>19. Waits(x)' => Accounted(x)'
    BY DEF Accounted
  <1>20. QED
    BY <1>4, <1>5, <1>6, <1>7, <1>8, <1>9, <1>10, <1>11, <1>12, <1>13, <1>14, <1>15, <1>16, <1>17, <1>18, <1>19,
       WhoWrites DEF Writers

\* A row in quarantine is there for good, but for a purge.
LEMMA SetAsideStep ==
  ASSUME Typed, Locked, [E!Next]_(E!vars), NEW x \in Rows, SetAside(x)
  PROVE  Accounted(x)'
  <1>0. poison \in [E!Times -> SUBSET Rows]
    BY DEF Typed
  <1>1. PICK t \in E!Times : x \in poison[t]
    BY DEF SetAside
  <1>2. CASE UNCHANGED poison
    BY <1>1, <1>2 DEF SetAside, Accounted
  <1>3. ASSUME NEW w \in Worker, E!Quarantine(w)
        PROVE  Accounted(x)'
    <2>1. x \in poison'[t]
      <3>1. \/ poison[work[w].ts] = {} /\ poison' = [poison EXCEPT ![work[w].ts] = E!RowsOf(w)]
            \/ poison' = [poison EXCEPT ![work[w].ts] = @ \cup work[w].ready]
        BY <1>3 DEF E!Quarantine
      <3>2. QED
        BY <1>0, <1>1, <3>1
    <2>2. QED
      BY <2>1 DEF SetAside, Accounted
  <1>4. ASSUME NEW w \in Worker, E!Close(w)
        PROVE  Accounted(x)'
    <2>1. work[w].ts \in E!Times /\ E!Pruned(work[w].ts) /\ UNCHANGED repo
      BY <1>4 DEF E!Close, E!At, Locked, E!consent
    <2>2. QED
      BY <2>1, PrunedPrunes, PrunesKeep
  <1>5. ASSUME NEW s \in E!Times, E!PurgeBatch(s), ~ UNCHANGED poison
        PROVE  Accounted(x)'
    <2>1. E!Pruned(s) /\ UNCHANGED repo
      BY <1>5 DEF E!PurgeBatch, E!consent
    <2>2. QED
      BY <2>1, PrunedPrunes, PrunesKeep
  <1>6. QED
    BY <1>2, <1>3, <1>4, <1>5, WhoWrites DEF Writers

\* A row that is recorded waits, unless it slipped into a file that was taken.
LEMMA RecordedStep ==
  ASSUME Typed, Carried, NEW h \in Hook, E!HookWrite(h), NEW x \in written', x \notin written, x \notin late'
  PROVE  Waits(x)'
  <1> DEFINE fd == recorder[h].fd
  <1>0. files \in [E!Ids -> FileSet] /\ fd \in E!Ids /\ files[fd] \in FileSet /\ files[fd].at # "none"
    BY FileParts DEF Typed, FileSet, E!HookWrite, Carried
  <1>1. /\ x = recorder[h].row /\ ~ E!Taken(fd)
        /\ files' = [files EXCEPT ![fd].rows = @ \cup {recorder[h].row}]
    BY DEF E!HookWrite
  <1>2. files[fd].at \in {"active", "sealed"}
    BY <1>0, <1>1 DEF E!Taken, FileSet, Places
  <1>3. files'[fd].at = files[fd].at /\ x \in files'[fd].rows
    BY <1>0, <1>1 DEF FileSet
  <1>4. QED
    BY <1>0, <1>2, <1>3 DEF Waits

LEMMA EveryRowKeptStep ==
  ASSUME E!Constants, Typed, Carried, Stamped, Locked, Divided, Secured, E!EveryRowKept, [E!Next]_(E!vars)
  PROVE  E!EveryRowKept'
  <1>1. ASSUME NEW x \in written', x \notin late', x \notin received', x \notin expired'
        PROVE  Accounted(x)'
    <2>1. x \notin late /\ x \notin received /\ x \notin expired
      BY <1>1, HistoryGrows
    <2>2. CASE x \in written
      <3>1. x \in Rows /\ x.whole /\ Past(x)
        BY <2>2 DEF Typed, Stamped
      <3>2. Waits(x) \/ SetAside(x) \/ Lapsed(x)
        BY <2>1, <2>2 DEF E!EveryRowKept, Waits, SetAside, Lapsed
      <3>3. Lapsed(x)' => Accounted(x)'
        BY DEF Accounted
      <3>4. QED
        BY <1>1, <3>1, <3>2, <3>3, WaitingStep, SetAsideStep, LapsedStays
    <2>3. CASE x \notin written
      <3>1. Waits(x)'
        BY <1>1, <2>3, RecordedStep, WhoWrites DEF Writers
      <3>2. QED
        BY <3>1 DEF Accounted
    <2>4. QED
      BY <2>2, <2>3
  <1>2. QED
    BY <1>1 DEF E!EveryRowKept, Accounted, Waits, SetAside, Lapsed
-----------------------------------------------------------------------------
(* The queue's invariant.                                                    *)

LEMMA QueueInvariantInitially ==
  ASSUME E!Constants, E!Init
  PROVE  QueueInvariant
  <1>1. left \in [E!Bounds -> Nat \cup {None}] /\ left["rows"] \in Nat
    BY DEF E!Init, E!Constants
  <1>2. tries = [n \in 1 .. left["rows"] |-> 0] /\ DOMAIN tries = 1 .. left["rows"]
    BY DEF E!Init
  <1>3. Typed
    <2>1. 0 \in Counts /\ 0 \in Nat /\ 1 \in Nat \ {0}
      BY DEF E!Constants, Counts
    <2>2. repo \in [Repo -> [shared : BOOLEAN, local : BOOLEAN, scope : BOOLEAN, token : Nat \ {0}, epoch : Nat]]
      BY <2>1 DEF E!Init
    <2>3. revoked \in [Repo -> SUBSET Nat] /\ \A r \in Repo : revoked[r] \subseteq 1 .. repo[r].token - 1
      BY DEF E!Init
    <2>4. files \in [E!Ids -> [at : Places, ts : Nat, rows : SUBSET Rows]]
      BY DEF E!Init, E!NoFile, Places
    <2>5. meta \in [E!Times -> [attempts : Counts, payload : SUBSET Rows]]
      BY <2>1 DEF E!Init, E!NoMeta
    <2>6. recorder \in [Hook -> [pc : RecorderPC, row : Rows \cup {None}, fd : Nat, ts : Nat]]
      BY DEF E!Init, E!NoHook, RecorderPC
    <2>7. work \in [Worker -> [pc : WorkPC, ts : Nat, ready : SUBSET Rows, held : SUBSET Rows,
                               again : BOOLEAN, spends : BOOLEAN]]
      BY DEF E!Init, E!NoWork, WorkPC
    <2>8. purge \in [pc : PurgePC, todo : SUBSET E!Times, complete : BOOLEAN, all : BOOLEAN]
      BY DEF E!Init, E!NoPurge, PurgePC
    <2>9. poison \in [E!Times -> SUBSET Rows] /\ batchLock \in [E!Times -> Worker \cup {None}]
      BY DEF E!Init
    <2>10. DOMAIN tries \subseteq Nat /\ tries \in [DOMAIN tries -> Nat]
      BY <1>1, <1>2
    <2>11. promised \in [Repo -> [token : Nat, epoch : Nat]]
      BY DEF E!Init
    <2>12. /\ paused \in BOOLEAN /\ clock \in Nat
           /\ received \subseteq Rows /\ written \subseteq Rows /\ late \subseteq Rows /\ expired \subseteq Rows
           /\ spent \subseteq Rows
      BY DEF E!Init
    <2>13. QED
      BY <1>1, <1>2, <2>2, <2>3, <2>4, <2>5, <2>6, <2>7, <2>8, <2>9, <2>10, <2>11, <2>12 DEF Typed
  <1>4. \A h \in Hook : recorder[h].pc = "idle"
    BY DEF E!Init, E!NoHook
  <1>5. \A w \in Worker : /\ work[w].pc = "idle" /\ work[w].ready = {} /\ work[w].held = {}
                          /\ work[w].spends = FALSE
    BY DEF E!Init, E!NoWork
  <1>6. \A i \in E!Ids : files[i].at = "none" /\ files[i].rows = {}
    BY DEF E!Init, E!NoFile
  <1>7. E!Active = {} /\ \A t : E!File("sealed", t) = {}
    BY <1>6 DEF E!Active, E!File
  <1>8. Carried
    BY <1>4 DEF Carried
  <1>9. Stamped
    BY <1>4, <1>5, <1>6 DEF E!Init, Stamped
  <1>10. \A t \in E!Times : batchLock[t] = None
    BY DEF E!Init
  <1>11. Locked
    BY <1>5, <1>10 DEF Locked, Deciding
  <1>12. Divided /\ Secured
    BY <1>5 DEF Divided, Secured, Deciding
  <1>13. Charged
    <2>1. \A t \in E!Times : meta[t].payload = {} /\ meta[t].attempts = 0
      BY DEF E!Init, E!NoMeta
    <2>2. QED
      BY <1>5, <2>1 DEF Charged
  <1>14. OneFile
    BY <1>7 DEF OneFile
  <1>15. E!EveryRowKept /\ E!ChargedForOwn
    BY DEF E!Init, E!EveryRowKept, E!ChargedForOwn
  <1>16. QED
    BY <1>3, <1>8, <1>9, <1>11, <1>12, <1>13, <1>14, <1>15 DEF QueueInvariant

LEMMA QueueInvariantKept ==
  ASSUME E!Constants, QueueInvariant, [E!Next]_(E!vars)
  PROVE  QueueInvariant'
  <1>1. Typed /\ Carried /\ Stamped /\ Locked /\ Divided /\ Secured /\ Charged /\ OneFile /\ E!EveryRowKept /\ E!ChargedForOwn
    BY DEF QueueInvariant
  <1>2. Typed' /\ Carried' /\ Stamped'
    BY <1>1, TypedStep, CarriedStep, StampedStep
  <1>3. Locked' /\ Divided' /\ Secured'
    BY <1>1, LockedStep, DividedStep, SecuredStep
  <1>4. Charged' /\ OneFile' /\ E!EveryRowKept' /\ E!ChargedForOwn'
    BY <1>1, ChargedStep, OneFileStep, EveryRowKeptStep, ChargedForOwnStep
  <1>5. QED
    BY <1>2, <1>3, <1>4 DEF QueueInvariant

\* In every behaviour the files of the queue, what workers have read of them and what is on
\* record about them fit together.
THEOREM QueueInvariantHolds ==
  ASSUME E!Constants
  PROVE  E!Spec => []QueueInvariant
  <1>1. E!Init => QueueInvariant
    BY QueueInvariantInitially
  <1>2. QueueInvariant /\ [E!Next]_(E!vars) => QueueInvariant'
    BY QueueInvariantKept
  <1>3. QED
    BY <1>1, <1>2, PTL DEF E!Spec

\* A recorded row waits, has arrived, is in quarantine or was deleted on purpose, whoever died
\* between two writes, and is given up for its own failures only (logger.js,
\* processLockedBatch).
THEOREM RowsAreKept ==
  ASSUME E!Constants
  PROVE  E!Spec => []E!RowsKept
  <1>1. QueueInvariant => E!RowsKept
    BY DEF QueueInvariant, E!RowsKept
  <1>2. QED
    BY <1>1, QueueInvariantHolds, PTL

\* Every variable of the queue keeps its type, one log is open, and a name stands for one
\* batch.
THEOREM TypesHold ==
  ASSUME E!Constants
  PROVE  E!Spec => []E!TypeOK
  <1>1. ASSUME QueueInvariant
        PROVE  E!TypeOK
    <2>0. Typed /\ Locked /\ OneFile
      BY <1>1 DEF QueueInvariant
    <2>1. Rows \subseteq E!Row
      BY DEF Rows
    <2>2. repo \in [Repo -> [shared : BOOLEAN, local : BOOLEAN, scope : BOOLEAN, token : Nat, epoch : Nat]]
      BY <2>0 DEF Typed
    <2>3. paused \in BOOLEAN /\ \A r \in Repo : revoked[r] \subseteq 1 .. repo[r].token - 1
      BY <2>0 DEF Typed
    <2>4. \A i \in E!Ids : files[i].at \in {"none", "active", "sealed", "sent", "gone"} /\ files[i].rows \subseteq E!Row
      BY <2>0, <2>1, FileParts DEF Places
    <2>5. \A t \in E!Times : /\ poison[t] \subseteq E!Row /\ batchLock[t] \in Worker \cup {None}
                           /\ meta[t].attempts \in 0 .. MaxRetries - 1
      BY <2>0, <2>1 DEF Typed, Counts
    <2>6. ASSUME NEW S, \A i, j \in S : i = j
          PROVE  Cardinality(S) <= 1
      <3>1. CASE S = {}
        BY <3>1, FS_EmptySet
      <3>2. CASE S # {}
        <4>1. PICK i : i \in S
          BY <3>2
        <4>2. S = {i}
          BY <2>6, <4>1
        <4>3. Cardinality({i}) = 1
          BY FS_Singleton
        <4>4. QED
          BY <4>2, <4>3
      <3>3. QED
        BY <3>1, <3>2
    <2>7. Cardinality(E!Active) <= 1 /\ \A t \in E!Times : Cardinality(E!File("sealed", t)) <= 1
      BY <2>0, <2>6 DEF OneFile
    <2>8. received \subseteq E!Row /\ written \subseteq E!Row
      BY <2>0, <2>1 DEF Typed
    <2>9. \A S : E!Cardinality(S) = Cardinality(S)
      BY DEF E!Cardinality, Cardinality
    <2>10. /\ E!Cardinality(E!Active) <= 1
           /\ \A t \in E!Times : E!Cardinality(E!File("sealed", t)) <= 1
      BY <2>7, <2>9
    <2>11. QED
      BY <2>2, <2>3, <2>4, <2>5, <2>8, <2>10 DEF E!TypeOK
  <1>2. QED
    BY <1>1, QueueInvariantHolds, PTL
-----------------------------------------------------------------------------
(* What a purge promises.                                                    *)

Copied(t) == UNION {files[i].rows : i \in E!File("sent", t)}

\* A file becomes a sent copy when a worker has sent what it has read of it.
LEMMA SentFileStep ==
  ASSUME E!Constants, Typed, Carried, Locked, Divided, [E!Next]_(E!vars), NEW i \in E!Ids, NEW t \in E!Times,
         files'[i].at = "sent", files'[i].ts = t, NEW x \in files'[i].rows, x.whole, x \notin late'
  PROVE  \/ i \in E!File("sent", t) /\ x \in files[i].rows
         \/ \E w \in Worker : work[w].pc \in Deciding /\ work[w].ts = t /\ x \in work[w].ready
  <1> DEFINE Same == i \in E!File("sent", t) /\ x \in files[i].rows
  <1>0. files \in [E!Ids -> FileSet] /\ \A k \in E!Ids : files[k] \in FileSet
    BY FileParts DEF Typed, FileSet
  <1>1. files'[i] = files[i] => Same
    BY DEF E!File
  <1>2. ASSUME NEW s \in E!Times, NEW rows \in SUBSET Rows, files' = E!Replaced(s, rows)
        PROVE  Same
    <2>1. i \notin E!File("sealed", s)
      BY <1>2, ReplacedFiles
    <2>2. files'[i] = files[i]
      BY <1>2, <2>1, ReplacedFiles
    <2>3. QED
      BY <1>1, <2>2
  <1>3. ASSUME NEW s \in E!Times, files' = E!Renamed(s)
        PROVE  Same
    <2>1. i \notin E!Active /\ i \notin E!File("sealed", s)
      BY <1>3, RenamedFiles
    <2>2. QED
      BY <1>1, <1>3, <2>1, RenamedFiles
  <1>4. ASSUME NEW s \in E!Times, NEW out, Prunes(s, out)
        PROVE  Same
    <2>1. files'[i].at = files[i].at /\ files'[i].ts = files[i].ts /\ files'[i].rows \subseteq files[i].rows
      BY <1>4 DEF Prunes
    <2>2. QED
      BY <2>1 DEF E!File
  <1>5. ASSUME NEW h \in Hook, E!HookOpen(h)
        PROVE  Same
    <2>1. PICK fd \in E!Ids : files' = [files EXCEPT ![fd].at = "active"]
      BY <1>5, OpenedFile
    <2>2. CASE i = fd
      <3>1. files'[i].at = "active"
        BY <1>0, <2>1, <2>2 DEF FileSet
      <3>2. QED
        BY <3>1
    <2>3. CASE i # fd
      BY <1>0, <1>1, <2>1, <2>3
    <2>4. QED
      BY <2>2, <2>3
  <1>6. ASSUME NEW h \in Hook, E!HookWrite(h)
        PROVE  Same
    <2> DEFINE fd  == recorder[h].fd
               cut == [recorder[h].row EXCEPT !.whole = FALSE]
    <2>1. fd \in E!Ids /\ files[fd] \in FileSet /\ recorder[h].row \in Rows
      BY <1>0, <1>6 DEF E!HookWrite, Carried
    <2>2. cut.whole = FALSE
      BY <2>1 DEF Rows, E!Row
    <2>3. \/ files' = [files EXCEPT ![fd].rows = @ \cup {recorder[h].row}] /\ (E!Taken(fd) => recorder[h].row \in late')
          \/ files' = [files EXCEPT ![fd].rows = @ \cup {cut}]
      BY <1>6 DEF E!HookWrite
    <2> HIDE DEF cut
    <2>4. CASE i # fd
      BY <1>0, <1>1, <2>1, <2>3, <2>4
    <2>5. CASE i = fd
      <3>1. files'[i].at = files[i].at /\ files'[i].ts = files[i].ts
        BY <1>0, <2>1, <2>3, <2>5 DEF FileSet
      <3>2. i \in E!File("sent", t) /\ E!Taken(fd)
        BY <2>5, <3>1 DEF E!File, E!Taken
      <3>3. x \in files[i].rows \/ x = cut \/ x = recorder[h].row
        BY <1>0, <2>1, <2>3, <2>5 DEF FileSet
      <3>4. CASE files' = [files EXCEPT ![fd].rows = @ \cup {cut}]
        <4>1. x \in files[i].rows \/ x = cut
          BY <1>0, <2>1, <2>5, <3>4 DEF FileSet
        <4>2. QED
          BY <2>2, <3>2, <4>1
      <3>5. CASE E!Taken(fd) => recorder[h].row \in late'
        BY <2>2, <3>2, <3>3, <3>5
      <3>6. QED
        BY <2>3, <3>4, <3>5
    <2>6. QED
      BY <2>4, <2>5
  <1>7. ASSUME NEW h \in Hook, E!HookRename(h)
        PROVE  Same
    <2>1. recorder[h].ts \in E!Times
      BY <1>7 DEF E!HookRename, Carried
    <2>2. QED
      BY <1>1, <1>3, <1>7, <2>1 DEF E!HookRename
  <1>8. ASSUME NEW w \in Worker, E!Salvage(w) \/ E!PostAgain(w) \/ E!Quarantine(w) \/ E!Cut(w) \/ E!Close(w)
        PROVE  Same
    <2>1. work[w].ts \in E!Times /\ work[w].ready \subseteq Rows /\ work[w].held \subseteq Rows
      BY <1>8, WorkParts DEF Locked, E!Salvage, E!PostAgain, E!Quarantine, E!Cut, E!Close, E!At
    <2>2. CASE E!Salvage(w)
      <3> DEFINE rows == {y \in work[w].ready : y.whole} \cup work[w].held
      <3>1. rows \in SUBSET Rows
        BY <2>1
      <3>2. UNCHANGED files \/ files' = E!Replaced(work[w].ts, rows)
        BY <2>2 DEF E!Salvage
      <3> HIDE DEF rows
      <3>3. QED
        BY <1>1, <1>2, <2>1, <3>1, <3>2
    <2>3. CASE E!PostAgain(w)
      BY <1>2, <2>1, <2>3, PostAgainReads DEF Reads
    <2>4. CASE E!Quarantine(w)
      <3>1. UNCHANGED files \/ files' = E!Replaced(work[w].ts, {})
        BY <2>4 DEF E!Quarantine
      <3>2. QED
        BY <1>1, <1>2, <2>1, <3>1
    <2>5. CASE E!Cut(w)
      BY <1>2, <2>1, <2>5 DEF E!Cut
    <2>6. CASE E!Close(w)
      BY <1>4, <2>1, <2>6, PrunedPrunes DEF E!Close
    <2>7. QED
      BY <1>8, <2>2, <2>3, <2>4, <2>5, <2>6
  <1>9. ASSUME NEW w \in Worker, E!Sent(w)
        PROVE  Same \/ (work[w].pc \in Deciding /\ work[w].ts = t /\ x \in work[w].ready)
    <2>1. work[w].pc \in Deciding /\ work[w].ts \in E!Times /\ work[w].held \in SUBSET Rows
      BY <1>9, WorkParts DEF Locked, E!Sent, E!At, Deciding
    <2>2. CASE work[w].held # {}
      BY <1>2, <1>9, <2>1, <2>2 DEF E!Sent
    <2>3. CASE work[w].held = {} /\ i \in E!Batch(w)
      <3>1. files'[i] = [files[i] EXCEPT !.at = "sent"]
        BY <1>9, <2>3 DEF E!Sent
      <3>2. files'[i].ts = files[i].ts /\ files'[i].rows = files[i].rows
        BY <3>1, MovedFile DEF Places
      <3>3. work[w].ts = t
        BY <2>3, <3>2 DEF E!Batch, E!File
      <3>4. x \in work[w].ready
        BY <2>1, <2>3, <3>2, HistoryGrows DEF Divided
      <3>5. QED
        BY <2>1, <3>3, <3>4
    <2>4. CASE work[w].held = {} /\ i \notin E!Batch(w)
      <3>1. files'[i] = files[i] \/ files'[i] = [files[i] EXCEPT !.at = "gone"]
        BY <1>9, <2>4 DEF E!Sent
      <3>2. [files[i] EXCEPT !.at = "gone"].at = "gone"
        BY MovedFile DEF Places
      <3>3. QED
        BY <1>1, <3>1, <3>2
    <2>5. QED
      BY <2>2, <2>3, <2>4
  <1>10. ASSUME NEW w \in Worker, NEW s \in E!Times, E!Take(w, s)
         PROVE  Same
    BY <1>2, <1>10, TakeReads DEF Reads
  <1>11. ASSUME NEW s \in E!Times, E!Expire(s)
         PROVE  Same
    BY <1>2, <1>11 DEF E!Expire
  <1>12. ASSUME NEW S, files' = [k \in E!Ids |-> IF k \in S THEN [files[k] EXCEPT !.at = "gone"] ELSE files[k]]
         PROVE  Same
    <2>1. files'[i] = files[i] \/ files'[i] = [files[i] EXCEPT !.at = "gone"]
      BY <1>12
    <2>2. [files[i] EXCEPT !.at = "gone"].at = "gone"
      BY MovedFile DEF Places
    <2>3. QED
      BY <1>1, <2>1, <2>2
  <1>13. ASSUME NEW s \in E!Times, E!PurgeBatch(s)
         PROVE  Same
    BY <1>1, <1>4, <1>12, <1>13, PrunedPrunes DEF E!PurgeBatch
  <1>14. ASSUME E!SignOut
         PROVE  Same
    BY <1>12, <1>14 DEF E!SignOut
  <1>15. ASSUME E!PurgeSeal
         PROVE  Same
    <2>1. CASE E!Active # {} /\ files' = E!Renamed(E!FreeName)
      <3>1. E!FreeNames # {} /\ E!FreeNames \in SUBSET Nat /\ E!FreeNames \subseteq E!Times
        BY <1>15, <2>1 DEF E!PurgeSeal, E!FreeNames, E!Times
      <3>2. E!FreeName \in E!Times
        BY <3>1, MinIsLeast DEF E!FreeName
      <3>3. QED
        BY <1>3, <2>1, <3>2
    <2>2. QED
      BY <1>1, <1>15, <2>1 DEF E!PurgeSeal
  <1> HIDE DEF Same
  <1>16. Same \/ \E w \in Worker : work[w].pc \in Deciding /\ work[w].ts = t /\ x \in work[w].ready
    BY <1>1, <1>5, <1>6, <1>7, <1>8, <1>9, <1>10, <1>11, <1>13, <1>14, <1>15, WhoWrites DEF Writers
  <1>17. QED
    BY <1>16 DEF Same

\* So does the quarantine of a batch grow.
LEMMA PoisonStep ==
  ASSUME E!Constants, Typed, Carried, Locked, Divided, [E!Next]_(E!vars), NEW t \in E!Times,
         NEW x \in poison'[t], x.whole, x \notin late'
  PROVE  \/ x \in poison[t]
         \/ \E w \in Worker : work[w].pc \in Deciding /\ work[w].ts = t /\ x \in work[w].ready
  <1>0. poison \in [E!Times -> SUBSET Rows]
    BY DEF Typed
  <1>1. ASSUME NEW s \in E!Times, NEW out, Prunes(s, out)
        PROVE  x \in poison[t]
    BY <1>0, <1>1 DEF Prunes
  <1>2. ASSUME NEW w \in Worker, E!Quarantine(w)
        PROVE  x \in poison[t] \/ (work[w].pc \in Deciding /\ work[w].ts = t /\ x \in work[w].ready)
    <2>1. work[w].pc \in Deciding /\ work[w].ts \in E!Times
      BY <1>2 DEF Locked, E!Quarantine, E!At, Deciding
    <2>2. CASE t # work[w].ts
      <3>1. poison'[t] = poison[t]
        BY <1>0, <1>2, <2>2 DEF E!Quarantine
      <3>2. QED
        BY <3>1
    <2>3. CASE t = work[w].ts /\ poison' = [poison EXCEPT ![t] = @ \cup work[w].ready]
      BY <1>0, <2>1, <2>3
    <2>4. CASE t = work[w].ts /\ poison' = [poison EXCEPT ![t] = E!RowsOf(w)] /\ work[w].held = {}
      <3>1. x \in E!RowsOf(w)
        BY <1>0, <2>4
      <3>2. PICK i \in E!Batch(w) : x \in files[i].rows
        BY <3>1 DEF E!RowsOf
      <3>3. x \in work[w].ready
        BY <2>1, <2>4, <3>2, HistoryGrows DEF Divided
      <3>4. QED
        BY <2>1, <2>4, <3>3
    <2>5. QED
      BY <1>2, <2>2, <2>3, <2>4 DEF E!Quarantine
  <1>3. ASSUME NEW w \in Worker, E!Close(w)
        PROVE  x \in poison[t]
    <2>1. work[w].ts \in E!Times /\ E!Pruned(work[w].ts)
      BY <1>3 DEF E!Close, E!At, Locked
    <2>2. QED
      BY <1>1, <2>1, PrunedPrunes
  <1>4. ASSUME NEW s \in E!Times, E!PurgeBatch(s)
        PROVE  x \in poison[t]
    BY <1>1, <1>4, PrunedPrunes DEF E!PurgeBatch
  <1>5. QED
    BY <1>2, <1>3, <1>4, WhoWrites DEF Writers

\* What is in a copy or a quarantine was there or has just been decided about.
LEMMA CopyStep ==
  ASSUME E!Constants, Typed, Carried, Locked, Divided, [E!Next]_(E!vars), NEW t \in E!Times,
         NEW x \in poison'[t] \cup Copied(t)', x.whole, x \notin late'
  PROVE  \/ x \in poison[t] \cup Copied(t)
         \/ \E w \in Worker : work[w].pc \in Deciding /\ work[w].ts = t /\ x \in work[w].ready
  <1>1. CASE x \in poison'[t]
    BY <1>1, PoisonStep
  <1>2. CASE x \in Copied(t)'
    <2>1. PICK i \in E!Ids : files'[i].at = "sent" /\ files'[i].ts = t /\ x \in files'[i].rows
      BY <1>2 DEF Copied, E!File
    <2>2. i \in E!File("sent", t) /\ x \in files[i].rows => x \in Copied(t)
      BY DEF Copied
    <2>3. QED
      BY <2>1, <2>2, SentFileStep
  <1>3. QED
    BY <1>1, <1>2
\* Promises are about the past, ...
LEMMA PromisesStep ==
  ASSUME Typed, Promises, [E!Next]_(E!vars)
  PROVE  Promises'
  <1> SUFFICES ASSUME NEW r \in Repo
               PROVE  promised'[r].token < repo'[r].token /\ promised'[r].epoch <= repo'[r].epoch
    BY DEF Promises
  <1>1. /\ repo[r].token \in Nat \ {0} /\ repo[r].epoch \in Nat /\ repo[r].shared \in BOOLEAN
        /\ promised[r].token \in Nat /\ promised[r].epoch \in Nat
        /\ promised[r].token < repo[r].token /\ promised[r].epoch <= repo[r].epoch
    BY DEF Typed, Promises
  <1>2. /\ repo'[r].token \in Nat /\ repo'[r].epoch \in Nat
        /\ repo[r].token <= repo'[r].token /\ repo[r].epoch <= repo'[r].epoch
    BY RepoStep DEF RepoSet
  <1>3. CASE UNCHANGED promised
    BY <1>1, <1>2, <1>3
  <1>4. CASE E!PurgeDone /\ ~ UNCHANGED promised
    <2>1. promised'[r] = [token |-> IF repo[r].shared THEN promised[r].token ELSE repo[r].token - 1, epoch |-> repo[r].epoch]
      BY <1>4 DEF E!PurgeDone
    <2>2. promised'[r].token \in {promised[r].token, repo[r].token - 1} /\ promised'[r].epoch = repo[r].epoch
      BY <2>1
    <2>3. QED
      BY <1>1, <1>2, <2>2
  <1>5. QED
    BY <1>3, <1>4, WhoWrites DEF Writers

\* ... and a row they do not cover is covered by no promise until a purge is done.
LEMMA CleanStays ==
  ASSUME UNCHANGED promised, NEW x
  PROVE  E!Clean(x)' <=> E!Clean(x)
  BY DEF E!Clean

\* What a purge has left is not covered by what it promises.
LEMMA DonePromises ==
  ASSUME Typed, E!PurgeDone, NEW x \in Rows, Uptodate(x), ~ E!Clean(x)
  PROVE  ~ E!Clean(x)'
  <1>1. /\ x.repo \in Repo /\ x.token \in Nat /\ x.epoch \in Nat
        /\ repo[x.repo].token \in Nat \ {0} /\ repo[x.repo].epoch \in Nat /\ repo[x.repo].shared \in BOOLEAN
        /\ promised[x.repo].token \in Nat /\ promised[x.repo].epoch \in Nat
    BY DEF Rows, E!Row, Typed
  <1>2. CASE UNCHANGED promised
    BY <1>2, CleanStays
  <1>3. CASE ~ UNCHANGED promised
    <2>1. promised'[x.repo] = [token |-> IF repo[x.repo].shared THEN promised[x.repo].token ELSE repo[x.repo].token - 1,
                               epoch |-> repo[x.repo].epoch]
      BY <1>1, <1>3 DEF E!PurgeDone
    <2>2. promised'[x.repo].epoch = repo[x.repo].epoch
      BY <2>1
    <2>3. CASE repo[x.repo].shared
      <3>1. promised'[x.repo].token = promised[x.repo].token
        BY <2>1, <2>3
      <3>2. QED
        BY <1>1, <2>2, <3>1 DEF E!Clean, Uptodate
    <2>4. CASE ~ repo[x.repo].shared
      <3>1. promised'[x.repo].token = repo[x.repo].token - 1
        BY <2>1, <2>4
      <3>2. QED
        BY <1>1, <2>2, <2>4, <3>1 DEF E!Clean, Uptodate
    <2>5. QED
      BY <2>3, <2>4
  <1>4. QED
    BY <1>2, <1>3

\* What a worker decides about it has read before, or reads now.
LEMMA ReadyStep ==
  ASSUME E!Constants, Typed, Locked, [E!Next]_(E!vars), NEW v \in Worker, work'[v].pc \in Deciding,
         NEW x \in work'[v].ready, x.whole
  PROVE  \/ work[v].pc \in Deciding /\ work[v].ts = work'[v].ts /\ x \in work[v].ready
         \/ /\ UNCHANGED <<repo, promised, purge>> /\ x \in Rows
            /\ x.token = repo[x.repo].token /\ x.epoch = repo[x.repo].epoch
  <1>1. ASSUME NEW t \in E!Times, NEW kept, NEW held, Reads(v, t, kept, held)
        PROVE  x \in Rows /\ x.token = repo[x.repo].token /\ x.epoch = repo[x.repo].epoch
    <2>1. x \in kept \ held /\ kept \subseteq Rows
      BY <1>1, ReadWork DEF Reads
    <2>2. QED
      BY <1>1, <2>1 DEF Reads
  <1>2. CASE work'[v] = work[v]
    BY <1>2
  <1>3. CASE E!PostAgain(v)
    <2>1. work[v].ts \in E!Times /\ UNCHANGED <<repo, promised, purge>>
      BY <1>3 DEF E!PostAgain, E!At, Locked, E!consent, E!history
    <2>2. QED
      BY <1>1, <1>3, <2>1, PostAgainReads
  <1>4. CASE (E!WorkStep(v) \/ E!TooOld(v)) /\ ~ E!PostAgain(v) /\ ~ E!Close(v)
    BY <1>4, OwnStep
  <1>5. CASE E!Close(v) \/ E!Crash(v)
    <2>1. work' = [work EXCEPT ![v] = E!NoWork]
      BY <1>5 DEF E!Close, E!Crash
    <2>2. work'[v].pc = "idle"
      BY <2>1, WorkParts DEF E!NoWork
    <2>3. QED
      BY <2>2 DEF Deciding
  <1>6. ASSUME NEW t \in E!Times, E!Take(v, t)
        PROVE  /\ UNCHANGED <<repo, promised, purge>> /\ x \in Rows
               /\ x.token = repo[x.repo].token /\ x.epoch = repo[x.repo].epoch
    <2>1. UNCHANGED <<repo, promised, purge>>
      BY <1>6 DEF E!Take, E!consent, E!history
    <2>2. QED
      BY <1>1, <1>6, <2>1, TakeReads
  <1>7. QED
    BY <1>2, <1>3, <1>4, <1>5, <1>6, WorkerTurn

\* Once a purge is under way, nothing is decided that makes a row old.
LEMMA UptodateStays ==
  ASSUME Typed, [E!Next]_(E!vars), purge.pc # "none", NEW x \in Rows
  PROVE  Uptodate(x)' <=> Uptodate(x)
  <1>1. x.repo \in Repo /\ repo \in [Repo -> RepoSet]
    BY DEF Rows, E!Row, Typed, RepoSet
  <1>2. UNCHANGED repo \/ \E r \in Repo : E!SetScope(r)
    BY WhoWrites DEF Writers, E!SetConsent, E!SetLocal
  <1>3. /\ repo'[x.repo].token = repo[x.repo].token /\ repo'[x.repo].epoch = repo[x.repo].epoch
        /\ repo'[x.repo].shared = repo[x.repo].shared
    <2>1. CASE UNCHANGED repo
      BY <2>1
    <2>2. ASSUME NEW r \in Repo, E!SetScope(r)
          PROVE  repo' = [repo EXCEPT ![r].scope = ~ @]
      BY <2>2 DEF E!SetScope
    <2>3. QED
      BY <1>1, <1>2, <2>1, <2>2 DEF RepoSet
  <1>4. QED
    BY <1>3 DEF Uptodate

\* A purge goes on, batch by batch.
LEMMA ScannedStep ==
  ASSUME Typed, [E!Next]_(E!vars), NEW t \in E!Times, Scanned(t)'
  PROVE  \/ UNCHANGED purge /\ Scanned(t)
         \/ E!PurgeList /\ t \notin E!Batches
         \/ \E s \in E!Times : E!PurgeBatch(s) /\ s # t /\ Scanned(t)
         \/ E!PurgeBatch(t) /\ batchLock[t] = None /\ ~ purge.all
  <1>0. purge \in PurgeSet
    BY DEF Typed, PurgeSet
  <1>1. CASE UNCHANGED purge
    BY <1>1 DEF Scanned
  <1>2. CASE \E r \in Repo : E!SetConsent(r)
    <2>1. purge'.pc = "seal"
      BY <1>2 DEF E!SetConsent, E!NoPurge
    <2>2. QED
      BY <2>1 DEF Scanned
  <1>3. CASE (\E r \in Repo : E!SetLocal(r)) /\ ~ UNCHANGED purge
    <2>1. purge'.pc = "sealall"
      BY <1>3 DEF E!SetLocal, E!NoPurge
    <2>2. QED
      BY <2>1 DEF Scanned
  <1>4. CASE E!SignOut
    <2>1. purge'.all = TRUE
      BY <1>4 DEF E!SignOut
    <2>2. QED
      BY <2>1 DEF Scanned
  <1>5. CASE E!Reconcile \/ E!PurgeDone \/ E!PurgeSeal
    <2>1. purge'.pc \in {"seal", "none", "list"}
      BY <1>0, <1>5 DEF E!Reconcile, E!PurgeDone, E!PurgeSeal, E!NoPurge, PurgeSet
    <2>2. QED
      BY <2>1 DEF Scanned
  <1>6. CASE E!PurgeList
    <2>1. purge'.todo = E!Batches
      BY <1>0, <1>6 DEF E!PurgeList, PurgeSet
    <2>2. QED
      BY <1>6, <2>1 DEF Scanned
  <1>7. ASSUME NEW s \in E!Times, E!PurgeBatch(s)
        PROVE  \/ s # t /\ Scanned(t)
               \/ s = t /\ batchLock[t] = None /\ ~ purge.all
    <2>1. /\ purge'.todo = purge.todo \ {s} /\ purge'.complete = (purge.complete /\ ~ E!Busy(s))
          /\ purge'.all = purge.all /\ purge'.pc = purge.pc
      BY <1>0, <1>7 DEF E!PurgeBatch, PurgeSet
    <2>2. QED
      BY <2>1 DEF Scanned, E!Busy
  <1>8. QED
    BY <1>1, <1>2, <1>3, <1>4, <1>5, <1>6, <1>7, WhoWrites DEF Writers, E!PurgeStep
\* What a purge has scanned stays clean of what it has to remove.
LEMMA PurgedStep ==
  ASSUME E!Constants, Typed, Carried, Stamped, Locked, Divided, Purged, [E!Next]_(E!vars)
  PROVE  Purged'
  <1>0. poison \in [E!Times -> SUBSET Rows] /\ \A i \in E!Ids : files[i].rows \subseteq Rows
    BY FileParts DEF Typed
  <1>1. \A w \in Worker : work[w].ready \subseteq Rows
    BY WorkParts
  <1>2. \A t \in E!Times : poison[t] \cup Copied(t) \subseteq Rows
    BY <1>0 DEF Copied, E!File
  <1>3. ASSUME NEW t \in E!Times, Scanned(t)'
        PROVE  purge.pc # "none" /\ \A x \in Rows : Uptodate(x) => Uptodate(x)'
    <2>1. purge.pc # "none"
      BY <1>3, ScannedStep DEF Scanned, E!PurgeList, E!PurgeBatch
    <2>2. QED
      BY <2>1, UptodateStays
  <1>4. ASSUME NEW t \in E!Times, Scanned(t)', NEW v \in Worker, work'[v].pc \in Deciding, work'[v].ts = t,
               NEW x \in work'[v].ready, x.whole
        PROVE  Uptodate(x)'
    <2>1. CASE work[v].pc \in Deciding /\ work[v].ts = t /\ x \in work[v].ready
      <3>1. CASE Scanned(t)
        <4>1. Uptodate(x) /\ x \in Rows
          BY <1>1, <1>4, <2>1, <3>1 DEF Purged
        <4>2. QED
          BY <1>3, <1>4, <4>1
      <3>2. CASE E!PurgeList /\ t \notin E!Batches
        <4>1. E!File("sealed", t) = {}
          BY <3>2 DEF E!Batches
        <4>2. QED
          BY <2>1, <4>1 DEF Locked, E!Batch
      <3>3. CASE batchLock[t] = None
        BY <2>1, <3>3 DEF Locked, Deciding, E!Constants
      <3>4. QED
        BY <1>4, <3>1, <3>2, <3>3, ScannedStep
    <2>2. CASE x \in Rows /\ x.token = repo[x.repo].token /\ x.epoch = repo[x.repo].epoch
      <3>1. Uptodate(x)
        BY <2>2 DEF Uptodate
      <3>2. QED
        BY <1>3, <1>4, <2>2, <3>1
    <2>3. QED
      BY <1>4, <2>1, <2>2, ReadyStep
  <1>5. ASSUME NEW t \in E!Times, Scanned(t)', NEW x \in poison'[t] \cup Copied(t)', x.whole, x \notin late'
        PROVE  Uptodate(x)'
    <2>1. x \notin late
      BY <1>5, HistoryGrows
    <2>2. ASSUME NEW w \in Worker, work[w].pc \in Deciding, work[w].ts = t, x \in work[w].ready
          PROVE  Uptodate(x)'
      <3>1. CASE Scanned(t)
        <4>1. Uptodate(x) /\ x \in Rows
          BY <1>1, <1>5, <2>2, <3>1 DEF Purged
        <4>2. QED
          BY <1>3, <1>5, <4>1
      <3>2. CASE E!PurgeList /\ t \notin E!Batches
        <4>1. E!File("sealed", t) = {}
          BY <3>2 DEF E!Batches
        <4>2. QED
          BY <2>2, <4>1 DEF Locked, E!Batch
      <3>3. CASE batchLock[t] = None
        BY <2>2, <3>3 DEF Locked, Deciding, E!Constants
      <3>4. QED
        BY <1>5, <3>1, <3>2, <3>3, ScannedStep
    <2>3. CASE x \in poison[t] \cup Copied(t)
      <3>1. x \in Rows
        BY <1>2, <2>3
      <3>2. CASE Scanned(t)
        <4>1. Uptodate(x)
          BY <1>5, <2>1, <2>3, <3>2 DEF Purged, Copied
        <4>2. QED
          BY <1>3, <1>5, <3>1, <4>1
      <3>3. CASE E!PurgeList /\ t \notin E!Batches
        BY <2>3, <3>3 DEF E!Batches, Copied
      <3>4. CASE E!PurgeBatch(t) /\ batchLock[t] = None /\ ~ purge.all
        <4>1. E!Pruned(t)
          BY <3>4 DEF E!PurgeBatch
        <4>2. PICK out : Prunes(t, out)
          BY <4>1, PrunedPrunes
        <4>3. x \notin out
          <5>1. CASE x \in poison'[t]
            BY <1>0, <4>2, <5>1 DEF Prunes
          <5>2. CASE x \in Copied(t)'
            <6>1. PICK i \in E!Ids : files'[i].at = "sent" /\ files'[i].ts = t /\ x \in files'[i].rows
              BY <5>2 DEF Copied, E!File
            <6>2. files[i].at = "sent" /\ files[i].ts = t
              BY <4>2, <6>1 DEF Prunes
            <6>3. i \in E!File("sent", t)
              BY <6>2 DEF E!File
            <6>4. QED
              BY <4>2, <6>1, <6>3 DEF Prunes
          <5>3. QED
            BY <1>5, <5>1, <5>2
        <4>4. x \in Copies(t) \ out
          BY <2>3, <4>3 DEF Copies, Copied
        <4>5. /\ x.epoch = repo[x.repo].epoch
              /\ ~ repo[x.repo].shared => x.token \notin 1 .. repo[x.repo].token - 1
          BY <1>5, <4>2, <4>4 DEF Prunes
        <4>6. Past(x)
          BY <2>3 DEF Stamped, Copied, E!File
        <4>7. x.repo \in Repo /\ x.token \in Nat \ {0} /\ repo[x.repo].token \in Nat
          BY <3>1 DEF Rows, E!Row, Typed
        <4>8. Uptodate(x)
          BY <4>5, <4>6, <4>7 DEF Past, Uptodate
        <4>9. QED
          BY <1>3, <1>5, <3>1, <4>8
      <3>5. QED
        BY <1>5, <3>2, <3>3, <3>4, ScannedStep
    <2>4. QED
      BY <1>5, <2>2, <2>3, CopyStep
  <1>6. QED
    BY <1>4, <1>5 DEF Purged, Copied

\* What is being decided about is covered by no promise.
LEMMA UnpromisedStep ==
  ASSUME E!Constants, Typed, Locked, Promises, Unpromised, Purged, [E!Next]_(E!vars)
  PROVE  Unpromised'
  <1> SUFFICES ASSUME NEW v \in Worker, work'[v].pc \in Deciding, NEW x \in work'[v].ready, x.whole
               PROVE  ~ E!Clean(x)'
    BY DEF Unpromised
  <1>1. CASE UNCHANGED promised /\ work[v].pc \in Deciding /\ x \in work[v].ready
    BY <1>1, CleanStays DEF Unpromised
  <1>2. CASE UNCHANGED promised /\ x \in Rows /\ x.token = repo[x.repo].token /\ x.epoch = repo[x.repo].epoch
    <2>1. /\ x.repo \in Repo /\ repo[x.repo].token \in Nat /\ repo[x.repo].epoch \in Nat
          /\ promised[x.repo].token \in Nat /\ promised[x.repo].epoch \in Nat
      BY <1>2 DEF Rows, E!Row, Typed
    <2>2. ~ E!Clean(x)
      BY <1>2, <2>1 DEF Promises, E!Clean
    <2>3. QED
      BY <1>2, <2>2, CleanStays
  <1>3. CASE E!PurgeDone /\ ~ UNCHANGED promised
    <2>1. work' = work /\ \A t \in E!Times : Scanned(t)
      BY <1>3 DEF E!PurgeDone, Scanned
    <2>2. work[v].pc \in Deciding /\ x \in work[v].ready /\ work[v].ts \in E!Times
      BY <2>1 DEF Locked, Deciding
    <2>3. Uptodate(x) /\ ~ E!Clean(x) /\ x \in Rows
      BY <2>1, <2>2, WorkParts DEF Purged, Unpromised
    <2>4. QED
      BY <1>3, <2>3, DonePromises
  <1>4. CASE UNCHANGED promised
    BY <1>1, <1>2, <1>4, ReadyStep
  <1>5. QED
    BY <1>3, <1>4, WhoWrites DEF Writers

\* A complete purge leaves nothing of what it covers, and nothing of it comes back.
LEMMA PurgeMeansGoneStep ==
  ASSUME E!Constants, Typed, Carried, Locked, Divided, Unpromised, Purged, E!PurgeMeansGone, [E!Next]_(E!vars)
  PROVE  E!PurgeMeansGone'
  <1>1. \A t \in E!Times : poison[t] \cup Copied(t) \subseteq Rows
    BY FileParts DEF Typed, Copied, E!File
  <1>2. ASSUME NEW t \in E!Times, NEW x \in poison'[t] \cup Copied(t)', x.whole, x \notin late'
        PROVE  ~ E!Clean(x)'
    <2>1. x \notin late
      BY <1>2, HistoryGrows
    <2>2. CASE UNCHANGED promised
      <3>1. ~ E!Clean(x)
        <4>1. CASE x \in poison[t] \cup Copied(t)
          BY <1>2, <2>1, <4>1 DEF E!PurgeMeansGone, Copied
        <4>2. CASE \E w \in Worker : work[w].pc \in Deciding /\ work[w].ts = t /\ x \in work[w].ready
          BY <1>2, <4>2 DEF Unpromised
        <4>3. QED
          BY <1>2, <4>1, <4>2, CopyStep
      <3>2. QED
        BY <2>2, <3>1, CleanStays
    <2>3. CASE E!PurgeDone /\ ~ UNCHANGED promised
      <3>1. Scanned(t) /\ files' = files /\ poison' = poison
        BY <2>3 DEF E!PurgeDone, Scanned, E!queue
      <3>2. x \in poison[t] \cup Copied(t)
        BY <1>2, <3>1 DEF Copied, E!File
      <3>3. x \in Rows /\ Uptodate(x) /\ ~ E!Clean(x)
        BY <1>1, <1>2, <2>1, <3>1, <3>2 DEF Purged, E!PurgeMeansGone, Copied
      <3>4. QED
        BY <2>3, <3>3, DonePromises
    <2>4. QED
      BY <2>2, <2>3, WhoWrites DEF Writers
  <1>3. QED
    BY <1>2 DEF E!PurgeMeansGone, Copied

\* What arrives has been decided about.
LEMMA ArrivesDecided ==
  ASSUME Unpromised, [E!Next]_(E!vars), NEW x \in received', x \notin received
  PROVE  ~ E!Clean(x)
  <1>1. ASSUME NEW w \in Worker, E!Post(w)
        PROVE  ~ E!Clean(x)
    <2>1. work[w].pc \in Deciding /\ x \in work[w].ready /\ x.whole
      BY <1>1 DEF E!Post, E!At, Deciding
    <2>2. QED
      BY <2>1 DEF Unpromised
  <1>2. QED
    BY <1>1, WhoWrites DEF Writers

LEMMA PurgeInvariantInitially ==
  ASSUME E!Init
  PROVE  PurgeInvariant
  <1>1. Promises
    BY DEF E!Init, Promises
  <1>2. \A w \in Worker : work[w].pc = "idle"
    BY DEF E!Init, E!NoWork
  <1>3. Unpromised
    BY <1>2 DEF Unpromised, Deciding
  <1>4. purge.pc = "none"
    BY DEF E!Init, E!NoPurge
  <1>5. Purged
    BY <1>4 DEF Purged, Scanned
  <1>6. \A t \in E!Times : poison[t] = {} /\ E!File("sent", t) = {}
    BY DEF E!Init, E!File, E!NoFile
  <1>7. E!PurgeMeansGone
    BY <1>6 DEF E!PurgeMeansGone
  <1>8. QED
    BY <1>1, <1>3, <1>5, <1>7 DEF PurgeInvariant

LEMMA PurgeInvariantKept ==
  ASSUME E!Constants, QueueInvariant, PurgeInvariant, [E!Next]_(E!vars)
  PROVE  PurgeInvariant'
  <1>1. Typed /\ Carried /\ Stamped /\ Locked /\ Divided
    BY DEF QueueInvariant
  <1>2. Promises /\ Unpromised /\ Purged /\ E!PurgeMeansGone
    BY DEF PurgeInvariant
  <1>3. Promises' /\ Unpromised'
    BY <1>1, <1>2, PromisesStep, UnpromisedStep
  <1>4. Purged' /\ E!PurgeMeansGone'
    BY <1>1, <1>2, PurgedStep, PurgeMeansGoneStep
  <1>5. QED
    BY <1>3, <1>4 DEF PurgeInvariant

\* A complete purge leaves nothing of what it covers in a sent copy or in quarantine, and no
\* upload under way brings it to the collector (purgeUnsentTelemetry).
THEOREM PurgesAreFinal ==
  ASSUME E!Constants
  PROVE  E!Spec => E!PurgeIsFinal
  <1>1. E!Init => PurgeInvariant
    BY PurgeInvariantInitially
  <1>2. QueueInvariant /\ PurgeInvariant /\ [E!Next]_(E!vars) => PurgeInvariant'
    BY PurgeInvariantKept
  <1>3. E!Spec => []PurgeInvariant
    BY <1>1, <1>2, QueueInvariantHolds, PTL DEF E!Spec
  <1>4. PurgeInvariant /\ PurgeInvariant' /\ [E!Next]_(E!vars) => [E!ArrivesUnpurged /\ E!PurgeMeansGone']_(E!vars)
    BY ArrivesDecided DEF PurgeInvariant, E!ArrivesUnpurged
  <1>5. QED
    BY <1>3, <1>4, PTL DEF E!Spec, E!PurgeIsFinal
-----------------------------------------------------------------------------
(* The retry monitor.                                                        *)

CONSTANTS Start, Monitor, MaxIdle, MaxStale, MaxEnds, MaxFailed, MaxOverlap
VARIABLES beat, start, monitor, backlog, stales, ends, failed, overlaps

M == INSTANCE CodexRetryMonitor

(* The inductive invariant, in parts.                                        *)

Started == [pc : M!StartPC, child : Monitor \cup {None}]
Sweeper == [pc : M!MonitorPC, idle : 0 .. MaxIdle, quiet : 0 .. MaxIdle]

\* Idle sweeps are those that began with nothing queued, and at MaxIdle the monitor ends.
Idles ==
  \A m \in Monitor :
    /\ monitor[m].idle = monitor[m].quiet
    /\ monitor[m].pc \notin {"decide", "clear", "unlink", "gone"} => monitor[m].idle < MaxIdle

\* While a session start has still to claim the heartbeat for its child, the child waits.
Children ==
  ends = 0 =>
    \A s \in Start : start[s].pc \in {"empty", "claim"} =>
      start[s].child \in Monitor /\ monitor[start[s].child].pc \in {"empty", "boot", "wait"}

\* Whoever ends without having been idle does not own the heartbeat, and removes none.
Disowned ==
  ends = 0 =>
    \A m \in Monitor :
      /\ M!At(m, "clear") => monitor[m].idle = MaxIdle \/ beat.pid # m
      /\ M!At(m, "unlink") => monitor[m].idle = MaxIdle

\* The heartbeat names one that lives, or somebody is about to fill it.
Filling ==
  \/ \E m \in Monitor : monitor[m].pc \in {"boot", "write"}
  \/ \E s \in Start : start[s].pc = "claim"
  \/ \A m \in Monitor : monitor[m].pc \in {"absent", "empty"}
Beating ==
  ends = 0 /\ ~ M!IdledOut => IF beat.pid = None THEN Filling ELSE beat.pid \in Monitor /\ M!Live(beat.pid)

MonitorInvariant == M!TypeOK /\ Idles /\ Children /\ Disowned /\ Beating

\* One monitor changes at a time, and keeps its counts but in a sweep.
LEMMA MonitorMoves ==
  ASSUME M!TypeOK, NEW m \in Monitor, NEW pc \in M!MonitorPC, M!Step(m, pc)
  PROVE  /\ monitor' \in [Monitor -> Sweeper]
         /\ monitor'[m].pc = pc /\ monitor'[m].idle = monitor[m].idle /\ monitor'[m].quiet = monitor[m].quiet
         /\ \A n \in Monitor \ {m} : monitor'[n] = monitor[n]
  <1>1. monitor \in [Monitor -> Sweeper] /\ monitor[m] \in Sweeper
    BY DEF M!TypeOK, Sweeper
  <1>2. monitor' = [monitor EXCEPT ![m] = [monitor[m] EXCEPT !.pc = pc]]
    BY <1>1 DEF M!Step
  <1>3. [monitor[m] EXCEPT !.pc = pc] \in Sweeper
    BY <1>1 DEF Sweeper
  <1>4. QED
    BY <1>1, <1>2, <1>3 DEF Sweeper

LEMMA SweepMoves ==
  ASSUME M!Constants, M!TypeOK, Idles, NEW m \in Monitor, M!Sweep(m)
  PROVE  /\ monitor' \in [Monitor -> Sweeper]
         /\ monitor[m].pc = "sweep" /\ monitor'[m].pc = "decide" /\ monitor'[m].idle = monitor'[m].quiet
         /\ \A n \in Monitor \ {m} : monitor'[n] = monitor[n]
  <1> DEFINE idle == IF backlog THEN 0 ELSE monitor[m].idle + 1
             new  == [pc |-> "decide", idle |-> idle, quiet |-> IF backlog THEN 0 ELSE monitor[m].quiet + 1]
  <1>1. monitor \in [Monitor -> Sweeper] /\ monitor[m] \in Sweeper
    BY DEF M!TypeOK, Sweeper
  <1>2. monitor[m].pc = "sweep" /\ monitor' = [monitor EXCEPT ![m] = new]
    BY <1>1 DEF M!Sweep, M!Swept, M!At
  <1>3. monitor[m].idle = monitor[m].quiet /\ monitor[m].idle < MaxIdle
    BY <1>2 DEF Idles
  <1>4. monitor[m].idle \in Nat /\ MaxIdle \in Nat
    BY <1>1 DEF Sweeper, M!Constants
  <1>5. idle \in 0 .. MaxIdle /\ new.quiet = idle
    BY <1>3, <1>4
  <1>6. "decide" \in M!MonitorPC
    BY DEF M!MonitorPC
  <1>7. new \in Sweeper /\ new.pc = "decide" /\ new.idle = new.quiet
    BY <1>5, <1>6 DEF Sweeper
  <1> HIDE DEF new
  <1>8. QED
    BY <1>1, <1>2, <1>7

\* What the step of a monitor changes.
LEMMA MonitorChange ==
  ASSUME M!Constants, M!TypeOK, Idles, NEW m \in Monitor,
         M!MonitorStep(m) \/ M!Signal(m) \/ M!Crash(m)
  PROVE  /\ monitor' \in [Monitor -> Sweeper] /\ monitor[m] \in Sweeper
         /\ \A n \in Monitor \ {m} : monitor'[n] = monitor[n]
         /\ UNCHANGED start
  <1>1. "boot" \in M!MonitorPC /\ "wait" \in M!MonitorPC /\ "refresh" \in M!MonitorPC /\ "write" \in M!MonitorPC
        /\ "sweep" \in M!MonitorPC /\ "clear" \in M!MonitorPC /\ "unlink" \in M!MonitorPC /\ "gone" \in M!MonitorPC
    BY DEF M!MonitorPC
  <1>2. ASSUME NEW pc \in M!MonitorPC, M!Step(m, pc)
        PROVE  monitor' \in [Monitor -> Sweeper] /\ \A n \in Monitor \ {m} : monitor'[n] = monitor[n]
    BY <1>2, MonitorMoves
  <1>3. CASE M!Sweep(m)
    BY <1>3, SweepMoves DEF M!Sweep, M!TypeOK, Sweeper
  <1>4. CASE ~ M!Sweep(m)
    <2>1. \E pc \in M!MonitorPC : M!Step(m, pc)
      BY <1>1, <1>4 DEF M!MonitorStep, M!Refresh, M!Wake, M!Decide, M!Clear, M!Unlink, M!Signal, M!Crash
    <2>2. UNCHANGED start
      BY <1>4 DEF M!MonitorStep, M!Refresh, M!Wake, M!Decide, M!Clear, M!Unlink, M!Signal, M!Crash
    <2>3. QED
      BY <1>2, <2>1, <2>2 DEF M!TypeOK, Sweeper
  <1>5. QED
    BY <1>3, <1>4

\* The heartbeat is emptied, or filled with the name of a monitor or of a start's child.
LEMMA BeatChange ==
  ASSUME M!TypeOK, [M!Next]_(M!vars)
  PROVE  \/ UNCHANGED beat
         \/ beat' = [pid |-> None, stale |-> FALSE]
         \/ \E m \in Monitor : M!Refresh(m) /\ beat' = [pid |-> m, stale |-> FALSE]
         \/ \E s \in Start : M!Claim(s) /\ beat' = [pid |-> start[s].child, stale |-> FALSE]
         \/ beat'.pid = beat.pid /\ beat' \in [pid : {beat.pid}, stale : BOOLEAN]
  <1>1. CASE M!Age
    BY <1>1 DEF M!Age, M!TypeOK
  <1>2. ASSUME NEW s \in Start, M!StartStep(s) \/ M!CrashStart(s)
        PROVE  \/ UNCHANGED beat
               \/ beat' = [pid |-> None, stale |-> FALSE]
               \/ M!Claim(s) /\ beat' = [pid |-> start[s].child, stale |-> FALSE]
    BY <1>2 DEF M!StartStep, M!CrashStart, M!Check, M!Launch, M!ClaimEmpty, M!Claim, M!Empty, M!Beat
  <1>3. ASSUME NEW m \in Monitor, M!MonitorStep(m) \/ M!Signal(m) \/ M!Crash(m)
        PROVE  \/ UNCHANGED beat
               \/ beat' = [pid |-> None, stale |-> FALSE]
               \/ M!Refresh(m) /\ beat' = [pid |-> m, stale |-> FALSE]
    BY <1>3 DEF M!MonitorStep, M!Signal, M!Crash, M!Refresh, M!Wake, M!Sweep, M!Decide, M!Clear, M!Unlink, M!Empty, M!Beat
  <1>4. CASE M!Arrive \/ UNCHANGED M!vars
    BY <1>4 DEF M!Arrive, M!vars
  <1>5. QED
    BY <1>1, <1>2, <1>3, <1>4 DEF M!Next

\* What the step of a session start changes.
LEMMA StartChange ==
  ASSUME M!TypeOK, NEW s \in Start, M!StartStep(s) \/ M!CrashStart(s)
  PROVE  /\ start' \in [Start -> Started]
         /\ \A t \in Start \ {s} : start'[t] = start[t]
         /\ \/ UNCHANGED monitor
            \/ /\ start'[s].pc = "empty" /\ start'[s].child \in Monitor
               /\ M!At(start'[s].child, "absent") /\ M!Step(start'[s].child, "empty")
         /\ \/ start'[s].pc \in {"spawn", "done"}
            \/ start'[s].pc = "empty" /\ start'[s].child \in Monitor
               /\ M!At(start'[s].child, "absent") /\ M!Step(start'[s].child, "empty")
            \/ start[s].pc = "empty" /\ start'[s].pc = "claim" /\ start'[s].child = start[s].child /\ M!ClaimEmpty(s)
  <1>1. start \in [Start -> Started] /\ start[s] \in Started
    BY DEF M!TypeOK, Started
  <1>2. ASSUME NEW pc \in M!StartPC, start' = [start EXCEPT ![s].pc = pc]
        PROVE  /\ start' \in [Start -> Started] /\ \A t \in Start \ {s} : start'[t] = start[t]
               /\ start'[s].pc = pc /\ start'[s].child = start[s].child
    <2>1. start' = [start EXCEPT ![s] = [start[s] EXCEPT !.pc = pc]]
      BY <1>1, <1>2
    <2>2. [start[s] EXCEPT !.pc = pc] \in Started
      BY <1>1, <1>2 DEF Started
    <2>3. QED
      BY <1>1, <2>1, <2>2 DEF Started
  <1>3. "spawn" \in M!StartPC /\ "empty" \in M!StartPC /\ "claim" \in M!StartPC /\ "done" \in M!StartPC
    BY DEF M!StartPC
  <1>4. CASE M!Check(s) \/ M!Claim(s) \/ M!CrashStart(s)
    <2>1. UNCHANGED monitor /\ \E pc \in {"spawn", "done"} : start' = [start EXCEPT ![s].pc = pc]
      BY <1>4 DEF M!Check, M!Claim, M!CrashStart
    <2>2. QED
      BY <1>2, <1>3, <2>1
  <1>5. CASE M!ClaimEmpty(s)
    <2>1. UNCHANGED monitor /\ start[s].pc = "empty" /\ start' = [start EXCEPT ![s].pc = "claim"]
      BY <1>5 DEF M!ClaimEmpty
    <2>2. QED
      BY <1>2, <1>3, <1>5, <2>1
  <1>6. CASE M!Launch(s)
    <2>1. CASE start' = [start EXCEPT ![s].pc = "done"] /\ UNCHANGED monitor
      BY <1>2, <1>3, <2>1
    <2>2. ASSUME NEW m \in Monitor, M!At(m, "absent"), M!Step(m, "empty"),
                 start' = [start EXCEPT ![s] = [pc |-> "empty", child |-> m]]
          PROVE  /\ start' \in [Start -> Started] /\ \A t \in Start \ {s} : start'[t] = start[t]
                 /\ start'[s].pc = "empty" /\ start'[s].child = m
      <3>1. [pc |-> "empty", child |-> m] \in Started
        BY <1>3 DEF Started
      <3>2. QED
        BY <1>1, <2>2, <3>1
    <2>3. QED
      BY <1>6, <2>1, <2>2 DEF M!Launch
  <1>7. QED
    BY <1>4, <1>5, <1>6 DEF M!StartStep

\* The types.
LEMMA MonitorTypes ==
  ASSUME M!Constants, M!TypeOK, Idles, [M!Next]_(M!vars)
  PROVE  M!TypeOK'
  <1>1. beat' \in [pid : Monitor \cup {None}, stale : BOOLEAN]
    <2>1. beat \in [pid : Monitor \cup {None}, stale : BOOLEAN]
      BY DEF M!TypeOK
    <2>2. \A s \in Start : start[s].child \in Monitor \cup {None}
      BY DEF M!TypeOK
    <2>3. ASSUME NEW p \in Monitor \cup {None}, beat' = [pid |-> p, stale |-> FALSE]
          PROVE  beat' \in [pid : Monitor \cup {None}, stale : BOOLEAN]
      BY <2>3
    <2>4. CASE beat' \in [pid : {beat.pid}, stale : BOOLEAN]
      BY <2>1, <2>4
    <2>5. QED
      BY <2>1, <2>2, <2>3, <2>4, BeatChange
  <1>2. start' \in [Start -> Started] /\ monitor' \in [Monitor -> Sweeper]
    <2>1. start \in [Start -> Started] /\ monitor \in [Monitor -> Sweeper]
      BY DEF M!TypeOK, Started, Sweeper
    <2>2. ASSUME NEW s \in Start, M!StartStep(s) \/ M!CrashStart(s)
          PROVE  start' \in [Start -> Started] /\ monitor' \in [Monitor -> Sweeper]
      <3>1. "empty" \in M!MonitorPC
        BY DEF M!MonitorPC
      <3>2. start' \in [Start -> Started]
        BY <2>2, StartChange
      <3>3. \/ UNCHANGED monitor
            \/ start'[s].child \in Monitor /\ M!Step(start'[s].child, "empty")
        BY <2>2, StartChange
      <3>4. ASSUME NEW m \in Monitor, M!Step(m, "empty")
            PROVE  monitor' \in [Monitor -> Sweeper]
        BY <3>1, <3>4, MonitorMoves
      <3>5. QED
        BY <2>1, <3>2, <3>3, <3>4
    <2>3. ASSUME NEW m \in Monitor, M!MonitorStep(m) \/ M!Signal(m) \/ M!Crash(m)
          PROVE  start' \in [Start -> Started] /\ monitor' \in [Monitor -> Sweeper]
      BY <2>1, <2>3, MonitorChange
    <2>4. CASE M!Age \/ M!Arrive \/ UNCHANGED M!vars
      BY <2>1, <2>4 DEF M!Age, M!Arrive, M!vars
    <2>5. QED
      BY <2>2, <2>3, <2>4 DEF M!Next
  <1>3. /\ backlog' \in BOOLEAN
        /\ stales' \in 0 .. MaxStale /\ ends' \in 0 .. MaxEnds /\ failed' \in 0 .. MaxFailed
        /\ overlaps' \in 0 .. MaxOverlap
    <2> USE DEF M!TypeOK, M!Constants
    <2>1. ASSUME NEW s \in Start, M!StartStep(s) \/ M!CrashStart(s)
          PROVE  UNCHANGED <<backlog, stales, failed, overlaps>> /\ ends' \in 0 .. MaxEnds
      BY <2>1 DEF M!StartStep, M!CrashStart, M!Check, M!Launch, M!ClaimEmpty, M!Claim
    <2>2. ASSUME NEW m \in Monitor, M!Refresh(m) \/ M!Clear(m) \/ M!Unlink(m)
          PROVE  UNCHANGED <<backlog, stales, failed, overlaps, ends>>
      BY <2>2 DEF M!Refresh, M!Clear, M!Unlink
    <2>3. ASSUME NEW m \in Monitor, M!Decide(m) \/ M!Signal(m) \/ M!Crash(m)
          PROVE  UNCHANGED <<backlog, stales, failed, overlaps>> /\ ends' \in 0 .. MaxEnds
      BY <2>3 DEF M!Decide, M!Signal, M!Crash
    <2>4. ASSUME NEW m \in Monitor, M!Wake(m)
          PROVE  UNCHANGED <<backlog, stales, failed, ends>> /\ overlaps' \in 0 .. MaxOverlap
      BY <2>4 DEF M!Wake
    <2>5. ASSUME NEW m \in Monitor, M!Sweep(m)
          PROVE  UNCHANGED <<stales, ends, overlaps>> /\ failed' \in 0 .. MaxFailed /\ backlog' \in BOOLEAN
      <3>1. UNCHANGED <<stales, ends, overlaps>> /\ (UNCHANGED failed \/ (failed < MaxFailed /\ failed' = failed + 1))
        BY Zenon, <2>5 DEF M!Sweep
      <3>2. backlog' \in BOOLEAN
        BY Zenon, <2>5 DEF M!Sweep
      <3>3. QED
        BY <3>1, <3>2
    <2>6. CASE M!Age
      BY <2>6 DEF M!Age
    <2>7. CASE M!Arrive \/ UNCHANGED M!vars
      <3>1. UNCHANGED <<stales, ends, failed, overlaps>>
        BY <2>7 DEF M!Arrive, M!vars
      <3>2. backlog' \in BOOLEAN
        BY Zenon, <2>7 DEF M!Arrive, M!vars
      <3>3. QED
        BY <3>1, <3>2
    <2>8. QED
      BY <2>1, <2>2, <2>3, <2>4, <2>5, <2>6, <2>7 DEF M!Next, M!MonitorStep
  <1>4. QED
    BY <1>1, <1>2, <1>3 DEF M!TypeOK, Started, Sweeper

\* Idle sweeps are counted.
LEMMA IdlesStep ==
  ASSUME M!Constants, M!TypeOK, Idles, [M!Next]_(M!vars)
  PROVE  Idles'
  <1>0. monitor \in [Monitor -> Sweeper] /\ MaxIdle \in Nat
    BY DEF M!TypeOK, Sweeper, M!Constants
  <1>1. ASSUME NEW m \in Monitor, NEW pc \in M!MonitorPC, M!Step(m, pc),
               pc \in {"clear", "unlink", "gone"} \/ monitor[m].idle < MaxIdle
        PROVE  Idles'
    BY <1>1, MonitorMoves DEF Idles
  <1>2. CASE UNCHANGED monitor
    BY <1>2 DEF Idles
  <1>3. ASSUME NEW s \in Start, M!StartStep(s) \/ M!CrashStart(s)
        PROVE  Idles'
    <2>1. ASSUME NEW m \in Monitor, M!At(m, "absent"), M!Step(m, "empty")
          PROVE  Idles'
      <3>1. monitor[m].idle < MaxIdle /\ "empty" \in M!MonitorPC
        BY <2>1 DEF Idles, M!At, M!MonitorPC
      <3>2. QED
        BY <1>1, <2>1, <3>1
    <2>2. QED
      BY <1>2, <1>3, <2>1, StartChange
  <1>4. ASSUME NEW m \in Monitor, M!MonitorStep(m) \/ M!Signal(m) \/ M!Crash(m)
        PROVE  Idles'
    <2>1. "boot" \in M!MonitorPC /\ "wait" \in M!MonitorPC /\ "refresh" \in M!MonitorPC /\ "write" \in M!MonitorPC
          /\ "sweep" \in M!MonitorPC /\ "clear" \in M!MonitorPC /\ "unlink" \in M!MonitorPC /\ "gone" \in M!MonitorPC
      BY DEF M!MonitorPC
    <2>2. monitor[m].pc \in {"empty", "boot", "wait", "refresh", "write"} => monitor[m].idle < MaxIdle
      BY DEF Idles
    <2>3. CASE M!Refresh(m)
      BY <1>1, <2>1, <2>2, <2>3 DEF M!Refresh, M!At
    <2>4. CASE M!Wake(m)
      BY <1>1, <2>1, <2>2, <2>4 DEF M!Wake, M!At
    <2>5. CASE M!Sweep(m)
      BY <2>5, SweepMoves DEF Idles
    <2>6. CASE M!Decide(m)
      <3>1. CASE M!Step(m, "clear")
        BY <1>1, <2>1, <3>1
      <3>2. CASE ~ M!Step(m, "clear")
        <4>1. M!Step(m, "wait") /\ ~ (monitor[m].idle >= MaxIdle)
          BY <2>6, <3>2 DEF M!Decide
        <4>2. monitor[m].idle < MaxIdle
          BY <1>0, <4>1 DEF Sweeper
        <4>3. QED
          BY <1>1, <2>1, <4>1, <4>2
      <3>3. QED
        BY <3>1, <3>2
    <2>7. CASE M!Clear(m) \/ M!Unlink(m) \/ M!Signal(m) \/ M!Crash(m)
      <3>1. M!Step(m, "clear") \/ M!Step(m, "unlink") \/ M!Step(m, "gone")
        BY <2>7 DEF M!Clear, M!Unlink, M!Signal, M!Crash
      <3>2. QED
        BY <1>1, <2>1, <3>1
    <2>8. QED
      BY <1>4, <2>3, <2>4, <2>5, <2>6, <2>7 DEF M!MonitorStep
  <1>5. CASE M!Age \/ M!Arrive \/ UNCHANGED M!vars
    BY <1>2, <1>5 DEF M!Age, M!Arrive, M!vars
  <1>6. QED
    BY <1>3, <1>4, <1>5 DEF M!Next

\* No step takes back that a monitor was killed, signalled or too old, or ended idle.
LEMMA MishapsStay ==
  ASSUME M!Constants, M!TypeOK, Idles, [M!Next]_(M!vars)
  PROVE  /\ ends' = 0 => ends = 0
         /\ M!IdledOut => M!IdledOut'
  <1>0. ends \in Nat /\ monitor \in [Monitor -> Sweeper]
    BY DEF M!TypeOK, M!Constants, Sweeper
  <1>1. ends' = ends \/ ends' = ends + 1
    <2>1. ASSUME NEW s \in Start, M!StartStep(s) \/ M!CrashStart(s)
          PROVE  ends' = ends \/ ends' = ends + 1
      BY <2>1 DEF M!StartStep, M!CrashStart, M!Check, M!Launch, M!ClaimEmpty, M!Claim
    <2>2. ASSUME NEW m \in Monitor, M!MonitorStep(m) \/ M!Signal(m) \/ M!Crash(m)
          PROVE  ends' = ends \/ ends' = ends + 1
      BY <2>2 DEF M!MonitorStep, M!Signal, M!Crash, M!Refresh, M!Wake, M!Sweep, M!Decide, M!Clear, M!Unlink
    <2>3. CASE M!Age \/ M!Arrive \/ UNCHANGED M!vars
      BY <2>3 DEF M!Age, M!Arrive, M!vars
    <2>4. QED
      BY <2>1, <2>2, <2>3 DEF M!Next
  <1>2. ASSUME NEW m \in Monitor, M!At(m, "gone")
        PROVE  monitor'[m] = monitor[m]
    <2>1. ASSUME NEW s \in Start, M!StartStep(s) \/ M!CrashStart(s)
          PROVE  monitor'[m] = monitor[m]
      <3>1. ASSUME NEW n \in Monitor, M!At(n, "absent"), M!Step(n, "empty")
            PROVE  monitor'[m] = monitor[m]
        <4>1. n # m /\ "empty" \in M!MonitorPC
          BY <1>2, <3>1 DEF M!At, M!MonitorPC
        <4>2. QED
          BY <3>1, <4>1, MonitorMoves
      <3>2. QED
        BY <2>1, <3>1, StartChange
    <2>2. ASSUME NEW n \in Monitor, M!MonitorStep(n) \/ M!Signal(n) \/ M!Crash(n)
          PROVE  monitor'[m] = monitor[m]
      <3>1. monitor[n].pc # "gone"
        BY <2>2 DEF M!MonitorStep, M!Signal, M!Crash, M!Refresh, M!Wake, M!Sweep, M!Decide, M!Clear, M!Unlink, M!At, M!Live
      <3>2. n # m
        BY <1>2, <3>1 DEF M!At
      <3>3. QED
        BY <2>2, <3>2, MonitorChange
    <2>3. CASE M!Age \/ M!Arrive \/ UNCHANGED M!vars
      BY <2>3 DEF M!Age, M!Arrive, M!vars
    <2>4. QED
      BY <2>1, <2>2, <2>3 DEF M!Next
  <1>3. QED
    BY <1>0, <1>1, <1>2 DEF M!IdledOut, M!At

\* A child that has not been claimed yet waits.
LEMMA ChildrenStep ==
  ASSUME M!Constants, M!TypeOK, Idles, Children, [M!Next]_(M!vars)
  PROVE  Children'
  <1> SUFFICES ASSUME ends' = 0, NEW t \in Start, start'[t].pc \in {"empty", "claim"}
               PROVE  start'[t].child \in Monitor /\ monitor'[start'[t].child].pc \in {"empty", "boot", "wait"}
    BY DEF Children
  <1>0. ends = 0 /\ ends \in Nat
    BY MishapsStay DEF M!TypeOK, M!Constants
  <1>1. start[t].pc \in {"empty", "claim"} =>
          start[t].child \in Monitor /\ monitor[start[t].child].pc \in {"empty", "boot", "wait"}
    BY <1>0 DEF Children
  <1>2. "empty" \in M!MonitorPC /\ "boot" \in M!MonitorPC /\ "wait" \in M!MonitorPC
    BY DEF M!MonitorPC
  <1>3. ASSUME NEW s \in Start, M!StartStep(s) \/ M!CrashStart(s)
        PROVE  start'[t].child \in Monitor /\ monitor'[start'[t].child].pc \in {"empty", "boot", "wait"}
    <2>1. ASSUME NEW c \in Monitor, monitor[c].pc \in {"empty", "boot", "wait"}
          PROVE  monitor'[c].pc \in {"empty", "boot", "wait"}
      <3>1. ASSUME NEW n \in Monitor, M!At(n, "absent"), M!Step(n, "empty")
            PROVE  monitor'[c] = monitor[c]
        <4>1. n # c
          BY <2>1, <3>1 DEF M!At
        <4>2. QED
          BY <1>2, <3>1, <4>1, MonitorMoves
      <3>2. QED
        BY <1>3, <2>1, <3>1, StartChange
    <2>2. ASSUME NEW n \in Monitor, M!Step(n, "empty")
          PROVE  monitor'[n].pc = "empty"
      BY <1>2, <2>2, MonitorMoves
    <2>3. CASE t # s
      <3>1. start'[t] = start[t]
        BY <1>3, <2>3, StartChange
      <3>2. QED
        BY <1>1, <2>1, <3>1
    <2>4. CASE t = s
      <3>1. CASE start'[s].pc = "empty" /\ start'[s].child \in Monitor /\ M!Step(start'[s].child, "empty")
        BY <2>2, <2>4, <3>1
      <3>2. CASE start[s].pc = "empty" /\ start'[s].child = start[s].child
        BY <1>1, <2>1, <2>4, <3>2
      <3>3. QED
        BY <1>3, <2>4, <3>1, <3>2, StartChange
    <2>5. QED
      BY <2>3, <2>4
  <1>4. ASSUME NEW m \in Monitor, M!MonitorStep(m) \/ M!Signal(m) \/ M!Crash(m)
        PROVE  start'[t].child \in Monitor /\ monitor'[start'[t].child].pc \in {"empty", "boot", "wait"}
    <2>1. start' = start
      BY <1>4, MonitorChange
    <2>2. CASE start[t].child # m
      BY <1>1, <1>4, <2>1, <2>2, MonitorChange
    <2>3. CASE start[t].child = m
      <3>1. monitor[m].pc \in {"empty", "boot", "wait"} /\ start[t].pc # "done"
        BY <1>1, <2>1, <2>3
      <3>2. ~ M!Wake(m) /\ ~ M!Signal(m) /\ ~ M!Crash(m)
        BY <1>0, <2>3, <3>1 DEF M!Wake, M!Signal, M!Crash
      <3>3. M!Refresh(m) /\ (M!Step(m, "boot") \/ M!Step(m, "wait"))
        BY <1>4, <3>1, <3>2 DEF M!MonitorStep, M!Refresh, M!Sweep, M!Decide, M!Clear, M!Unlink, M!At
      <3>4. monitor'[m].pc \in {"boot", "wait"}
        BY <1>2, <3>3, MonitorMoves
      <3>5. QED
        BY <2>1, <2>3, <3>4
    <2>4. QED
      BY <2>2, <2>3
  <1>5. CASE M!Age \/ M!Arrive \/ UNCHANGED M!vars
    BY <1>1, <1>5 DEF M!Age, M!Arrive, M!vars
  <1>6. QED
    BY <1>3, <1>4, <1>5 DEF M!Next

\* A monitor that stands down does not get the heartbeat back.
LEMMA DisownedStep ==
  ASSUME M!Constants, M!TypeOK, Idles, Children, Disowned, [M!Next]_(M!vars)
  PROVE  Disowned'
  <1> SUFFICES ASSUME ends' = 0, NEW m \in Monitor
               PROVE  /\ monitor'[m].pc = "clear" => monitor'[m].idle = MaxIdle \/ beat'.pid # m
                      /\ monitor'[m].pc = "unlink" => monitor'[m].idle = MaxIdle
    BY DEF Disowned, M!At
  <1>0. ends = 0 /\ ends \in Nat /\ monitor[m] \in Sweeper /\ MaxIdle \in Nat
    BY MishapsStay DEF M!TypeOK, M!Constants, Sweeper
  <1>1. /\ monitor[m].pc = "clear" => monitor[m].idle = MaxIdle \/ beat.pid # m
        /\ monitor[m].pc = "unlink" => monitor[m].idle = MaxIdle
    BY <1>0 DEF Disowned, M!At
  <1>2. ASSUME ~ M!Refresh(m), monitor[m].pc \notin {"absent", "empty", "boot", "wait"}, beat.pid # m
        PROVE  beat'.pid # m
    <2>1. ASSUME NEW s \in Start, M!Claim(s)
          PROVE  start[s].child # m
      BY <1>0, <1>2, <2>1 DEF M!Claim, Children
    <2>2. ASSUME NEW n \in Monitor, M!Refresh(n)
          PROVE  n # m
      BY <1>2, <2>2
    <2>3. None # m
      BY DEF M!Constants
    <2>4. QED
      BY <1>2, <2>1, <2>2, <2>3, BeatChange
  <1>3. CASE M!MonitorStep(m) \/ M!Signal(m) \/ M!Crash(m)
    <2>1. "boot" \in M!MonitorPC /\ "wait" \in M!MonitorPC /\ "refresh" \in M!MonitorPC /\ "write" \in M!MonitorPC
          /\ "sweep" \in M!MonitorPC /\ "clear" \in M!MonitorPC /\ "unlink" \in M!MonitorPC /\ "gone" \in M!MonitorPC
      BY DEF M!MonitorPC
    <2>2. ~ M!Signal(m) /\ ~ M!Crash(m)
      BY <1>0 DEF M!Signal, M!Crash
    <2>3. CASE M!Refresh(m)
      <3>1. monitor'[m].pc \in {"boot", "wait", "write", "sweep"}
        BY <2>1, <2>3, MonitorMoves DEF M!Refresh
      <3>2. QED
        BY <3>1
    <2>4. CASE M!Wake(m)
      <3>1. beat' = beat /\ (M!Step(m, "refresh") \/ (M!Step(m, "clear") /\ beat.pid # m))
        BY <2>4 DEF M!Wake, M!Owns
      <3>2. QED
        BY <2>1, <3>1, MonitorMoves
    <2>5. CASE M!Sweep(m)
      BY <2>5, SweepMoves
    <2>6. CASE M!Decide(m)
      <3>1. M!Step(m, IF monitor[m].idle >= MaxIdle THEN "clear" ELSE "wait")
        BY <1>0, <2>6 DEF M!Decide
      <3>2. monitor[m].idle <= MaxIdle
        BY <1>0 DEF Sweeper
      <3>3. CASE monitor[m].idle >= MaxIdle
        <4>1. monitor[m].idle = MaxIdle /\ M!Step(m, "clear")
          BY <1>0, <3>1, <3>2, <3>3 DEF Sweeper
        <4>2. QED
          BY <2>1, <4>1, MonitorMoves
      <3>4. CASE ~ (monitor[m].idle >= MaxIdle)
        BY <2>1, <3>1, <3>4, MonitorMoves
      <3>5. QED
        BY <3>3, <3>4
    <2>7. CASE M!Clear(m)
      <3>1. monitor[m].pc = "clear" /\ (M!Step(m, "gone") \/ (M!Step(m, "unlink") /\ beat.pid = m))
        BY <2>7 DEF M!Clear, M!Owns, M!At
      <3>2. QED
        BY <1>1, <2>1, <3>1, MonitorMoves
    <2>8. CASE M!Unlink(m)
      <3>1. M!Step(m, "gone")
        BY <2>8 DEF M!Unlink
      <3>2. QED
        BY <2>1, <3>1, MonitorMoves
    <2>9. QED
      BY <1>3, <2>2, <2>3, <2>4, <2>5, <2>6, <2>7, <2>8 DEF M!MonitorStep
  <1>4. CASE ~ (M!MonitorStep(m) \/ M!Signal(m) \/ M!Crash(m))
    <2>1. monitor'[m] = monitor[m] \/ monitor'[m].pc = "empty"
      <3>1. ASSUME NEW s \in Start, M!StartStep(s) \/ M!CrashStart(s)
            PROVE  monitor'[m] = monitor[m] \/ monitor'[m].pc = "empty"
        <4>1. ASSUME NEW n \in Monitor, M!Step(n, "empty")
              PROVE  monitor'[m] = monitor[m] \/ monitor'[m].pc = "empty"
          <5>1. "empty" \in M!MonitorPC
            BY DEF M!MonitorPC
          <5>2. QED
            BY <4>1, <5>1, MonitorMoves
        <4>2. QED
          BY <3>1, <4>1, StartChange
      <3>2. ASSUME NEW n \in Monitor, M!MonitorStep(n) \/ M!Signal(n) \/ M!Crash(n)
            PROVE  monitor'[m] = monitor[m]
        <4>1. n # m
          BY <1>4, <3>2
        <4>2. QED
          BY <3>2, <4>1, MonitorChange
      <3>3. CASE M!Age \/ M!Arrive \/ UNCHANGED M!vars
        BY <3>3 DEF M!Age, M!Arrive, M!vars
      <3>4. QED
        BY <3>1, <3>2, <3>3 DEF M!Next
    <2>2. ~ M!Refresh(m)
      BY <1>4 DEF M!MonitorStep
    <2>3. QED
      BY <1>1, <1>2, <2>1, <2>2
  <1>5. QED
    BY <1>3, <1>4

\* Who lives goes only when it is killed, unlinks the heartbeat, or does not own it.
LEMMA LivesOn ==
  ASSUME M!Constants, M!TypeOK, Idles, [M!Next]_(M!vars), NEW n \in Monitor, M!Live(n),
         ends' = ends, ~ M!Unlink(n), beat.pid = n
  PROVE  monitor'[n].pc \notin {"absent", "gone"}
  <1>0. ends \in Nat /\ monitor[n].pc \notin {"absent", "gone"}
    BY DEF M!TypeOK, M!Constants, M!Live
  <1>1. ASSUME NEW s \in Start, M!StartStep(s) \/ M!CrashStart(s)
        PROVE  monitor'[n].pc \notin {"absent", "gone"}
    <2>1. ASSUME NEW m \in Monitor, M!At(m, "absent"), M!Step(m, "empty")
          PROVE  monitor'[n] = monitor[n]
      <3>1. m # n /\ "empty" \in M!MonitorPC
        BY <1>0, <2>1 DEF M!At, M!MonitorPC
      <3>2. QED
        BY <2>1, <3>1, MonitorMoves
    <2>2. QED
      BY <1>0, <1>1, <2>1, StartChange
  <1>2. ASSUME NEW m \in Monitor, M!MonitorStep(m) \/ M!Signal(m) \/ M!Crash(m)
        PROVE  monitor'[n].pc \notin {"absent", "gone"}
    <2>1. CASE m # n
      BY <1>0, <1>2, <2>1, MonitorChange
    <2>2. CASE m = n /\ ~ M!Sweep(n)
      <3>1. "boot" \in M!MonitorPC /\ "wait" \in M!MonitorPC /\ "refresh" \in M!MonitorPC /\ "write" \in M!MonitorPC
            /\ "sweep" \in M!MonitorPC /\ "clear" \in M!MonitorPC /\ "unlink" \in M!MonitorPC
        BY DEF M!MonitorPC
      <3>2. ~ M!Crash(n)
        BY <1>0 DEF M!Crash
      <3>3. \E pc \in {"boot", "wait", "refresh", "write", "sweep", "clear", "unlink"} : M!Step(n, pc)
        BY <1>2, <2>2, <3>2 DEF M!MonitorStep, M!Signal, M!Refresh, M!Wake, M!Decide, M!Clear, M!Owns
      <3>4. QED
        BY <3>1, <3>3, MonitorMoves
    <2>3. CASE m = n /\ M!Sweep(n)
      BY <2>3, SweepMoves
    <2>4. QED
      BY <2>1, <2>2, <2>3
  <1>3. CASE M!Age \/ M!Arrive \/ UNCHANGED M!vars
    BY <1>0, <1>3 DEF M!Age, M!Arrive, M!vars
  <1>4. QED
    BY <1>1, <1>2, <1>3 DEF M!Next

\* Whoever empties the heartbeat will fill it, unless it ends.
LEMMA EmptiedByFiller ==
  ASSUME M!Constants, M!TypeOK, Idles, Children, Disowned, [M!Next]_(M!vars), ends' = 0, ~ M!IdledOut',
         beat'.pid = None, beat.pid # None
  PROVE  Filling'
  <1>0. /\ ends = 0 /\ None \notin Monitor /\ beat \in [pid : Monitor \cup {None}, stale : BOOLEAN]
        /\ monitor \in [Monitor -> Sweeper] /\ start \in [Start -> Started]
    BY MishapsStay DEF M!TypeOK, M!Constants, Sweeper, Started
  <1>1. ASSUME NEW s \in Start, M!StartStep(s) \/ M!CrashStart(s)
        PROVE  Filling'
    <2>1. CASE M!Check(s) \/ M!Launch(s) \/ M!CrashStart(s)
      BY <2>1 DEF M!Check, M!Launch, M!CrashStart
    <2>2. CASE M!ClaimEmpty(s)
      <3>1. start'[s].pc = "claim"
        BY <1>0, <2>2 DEF M!ClaimEmpty, Started
      <3>2. QED
        BY <3>1 DEF Filling
    <2>3. CASE M!Claim(s)
      <3>1. start[s].child \in Monitor
        BY <1>0, <2>3 DEF M!Claim, Children
      <3>2. beat'.pid = start[s].child
        BY <2>3 DEF M!Claim, M!Beat
      <3>3. QED
        BY <1>0, <3>1, <3>2
    <2>4. QED
      BY <1>1, <2>1, <2>2, <2>3 DEF M!StartStep
  <1>2. ASSUME NEW m \in Monitor, M!MonitorStep(m) \/ M!Signal(m) \/ M!Crash(m)
        PROVE  Filling'
    <2>1. "boot" \in M!MonitorPC /\ "write" \in M!MonitorPC /\ "gone" \in M!MonitorPC
      BY DEF M!MonitorPC
    <2>2. CASE M!Refresh(m)
      <3>1. beat'.pid = m \/ M!Step(m, "boot") \/ M!Step(m, "write")
        BY <2>2 DEF M!Refresh, M!Beat
      <3>2. monitor'[m].pc \in {"boot", "write"}
        BY <1>0, <2>1, <3>1, MonitorMoves
      <3>3. QED
        BY <3>2 DEF Filling
    <2>3. CASE M!Unlink(m)
      <3>1. M!At(m, "unlink") /\ M!Step(m, "gone")
        BY <2>3 DEF M!Unlink
      <3>2. monitor[m].idle = MaxIdle /\ monitor[m].quiet = MaxIdle
        BY <1>0, <3>1 DEF Disowned, Idles
      <3>3. monitor'[m].pc = "gone" /\ monitor'[m].quiet = MaxIdle
        BY <2>1, <3>1, <3>2, MonitorMoves
      <3>4. QED
        BY <3>3 DEF M!IdledOut, M!At
    <2>4. CASE ~ M!Refresh(m) /\ ~ M!Unlink(m)
      BY <1>2, <2>4 DEF M!MonitorStep, M!Signal, M!Crash, M!Wake, M!Sweep, M!Decide, M!Clear
    <2>5. QED
      BY <2>2, <2>3, <2>4
  <1>3. CASE M!Age \/ M!Arrive \/ UNCHANGED M!vars
    BY <1>0, <1>3 DEF M!Age, M!Arrive, M!vars
  <1>4. QED
    BY <1>1, <1>2, <1>3 DEF M!Next

\* An empty heartbeat stays empty only while somebody is about to fill it.
LEMMA FillerStays ==
  ASSUME M!Constants, M!TypeOK, Idles, Children, [M!Next]_(M!vars), ends' = 0,
         Filling, beat'.pid = None
  PROVE  Filling'
  <1>0. /\ ends = 0 /\ None \notin Monitor
        /\ monitor \in [Monitor -> Sweeper] /\ start \in [Start -> Started]
    BY MishapsStay DEF M!TypeOK, M!Constants, Sweeper, Started
  <1>1. "empty" \in M!MonitorPC /\ "boot" \in M!MonitorPC /\ "write" \in M!MonitorPC
    BY DEF M!MonitorPC
  <1>2. ASSUME NEW m \in Monitor, M!Refresh(m)
        PROVE  Filling'
    <2>1. M!Step(m, "boot") \/ M!Step(m, "write")
      BY <1>0, <1>2 DEF M!Refresh, M!Beat
    <2>2. monitor'[m].pc \in {"boot", "write"}
      BY <1>1, <2>1, MonitorMoves
    <2>3. QED
      BY <2>2 DEF Filling
  <1>3. ASSUME NEW n \in Monitor, monitor[n].pc \in {"boot", "write"}, \A m \in Monitor : ~ M!Refresh(m)
        PROVE  monitor'[n] = monitor[n]
    <2>1. ASSUME NEW s \in Start, M!StartStep(s) \/ M!CrashStart(s)
          PROVE  monitor'[n] = monitor[n]
      <3>1. ASSUME NEW m \in Monitor, M!At(m, "absent"), M!Step(m, "empty")
            PROVE  monitor'[n] = monitor[n]
        <4>1. m # n
          BY <1>3, <3>1 DEF M!At
        <4>2. QED
          BY <1>1, <3>1, <4>1, MonitorMoves
      <3>2. QED
        BY <2>1, <3>1, StartChange
    <2>2. ASSUME NEW m \in Monitor, M!MonitorStep(m) \/ M!Signal(m) \/ M!Crash(m)
          PROVE  monitor'[n] = monitor[n]
      <3>1. ~ M!Crash(m)
        BY <1>0 DEF M!Crash
      <3>2. monitor[m].pc \notin {"boot", "write"}
        BY <1>3, <2>2, <3>1 DEF M!MonitorStep, M!Signal, M!Wake, M!Sweep, M!Decide, M!Clear, M!Unlink, M!At
      <3>3. m # n
        BY <1>3, <3>2
      <3>4. QED
        BY <2>2, <3>3, MonitorChange
    <2>3. CASE M!Age \/ M!Arrive \/ UNCHANGED M!vars
      BY <2>3 DEF M!Age, M!Arrive, M!vars
    <2>4. QED
      BY <2>1, <2>2, <2>3 DEF M!Next
  <1>4. ASSUME NEW t \in Start, start[t].pc = "claim"
        PROVE  start'[t] = start[t]
    <2>1. ASSUME NEW s \in Start, M!StartStep(s) \/ M!CrashStart(s)
          PROVE  start'[t] = start[t]
      <3>1. ~ M!CrashStart(s)
        BY <1>0 DEF M!CrashStart
      <3>2. ~ M!Claim(s)
        <4>1. SUFFICES ASSUME M!Claim(s) PROVE FALSE
          OBVIOUS
        <4>2. start[s].child \in Monitor /\ beat'.pid = start[s].child
          BY <1>0, <4>1 DEF M!Claim, M!Beat, Children
        <4>3. QED
          BY <1>0, <4>2
      <3>3. start[s].pc # "claim"
        BY <2>1, <3>1, <3>2 DEF M!StartStep, M!Check, M!Launch, M!ClaimEmpty
      <3>4. s # t
        BY <1>4, <3>3
      <3>5. QED
        BY <2>1, <3>4, StartChange
    <2>2. ASSUME NEW m \in Monitor, M!MonitorStep(m) \/ M!Signal(m) \/ M!Crash(m)
          PROVE  start'[t] = start[t]
      BY <2>2, MonitorChange
    <2>3. CASE M!Age \/ M!Arrive \/ UNCHANGED M!vars
      BY <2>3 DEF M!Age, M!Arrive, M!vars
    <2>4. QED
      BY <2>1, <2>2, <2>3 DEF M!Next
  <1>5. ASSUME \A m \in Monitor : monitor[m].pc \in {"absent", "empty"}, \A m \in Monitor : ~ M!Refresh(m)
        PROVE  \A m \in Monitor : monitor'[m].pc \in {"absent", "empty"}
    <2>1. ASSUME NEW s \in Start, M!StartStep(s) \/ M!CrashStart(s)
          PROVE  \A m \in Monitor : monitor'[m].pc \in {"absent", "empty"}
      <3>1. ASSUME NEW n \in Monitor, M!Step(n, "empty")
            PROVE  \A m \in Monitor : monitor'[m].pc \in {"absent", "empty"}
        BY <1>1, <1>5, <3>1, MonitorMoves
      <3>2. QED
        BY <1>5, <2>1, <3>1, StartChange
    <2>2. ASSUME NEW m \in Monitor, M!MonitorStep(m) \/ M!Signal(m) \/ M!Crash(m)
          PROVE  FALSE
      <3>1. ~ M!Crash(m)
        BY <1>0 DEF M!Crash
      <3>2. QED
        BY <1>5, <2>2, <3>1 DEF M!MonitorStep, M!Signal, M!Wake, M!Sweep, M!Decide, M!Clear, M!Unlink, M!At
    <2>3. CASE M!Age \/ M!Arrive \/ UNCHANGED M!vars
      BY <1>5, <2>3 DEF M!Age, M!Arrive, M!vars
    <2>4. QED
      BY <2>1, <2>2, <2>3 DEF M!Next
  <1>6. CASE \E m \in Monitor : M!Refresh(m)
    BY <1>2, <1>6
  <1>7. CASE \A m \in Monitor : ~ M!Refresh(m)
    <2>1. CASE \E n \in Monitor : monitor[n].pc \in {"boot", "write"}
      BY <1>3, <1>7, <2>1 DEF Filling
    <2>2. CASE \E t \in Start : start[t].pc = "claim"
      BY <1>4, <2>2 DEF Filling
    <2>3. CASE \A m \in Monitor : monitor[m].pc \in {"absent", "empty"}
      BY <1>5, <1>7, <2>3 DEF Filling
    <2>4. QED
      BY <2>1, <2>2, <2>3 DEF Filling
  <1>8. QED
    BY <1>6, <1>7

\* The heartbeat names one that lives, or somebody is about to fill it.
LEMMA BeatingStep ==
  ASSUME M!Constants, MonitorInvariant, [M!Next]_(M!vars)
  PROVE  Beating'
  <1> SUFFICES ASSUME ends' = 0, ~ M!IdledOut'
               PROVE  IF beat'.pid = None THEN Filling' ELSE beat'.pid \in Monitor /\ monitor'[beat'.pid].pc \notin {"absent", "gone"}
    BY DEF Beating, M!Live
  <1> USE DEF MonitorInvariant
  <1>0. /\ ends = 0 /\ None \notin Monitor /\ ~ M!IdledOut /\ beat \in [pid : Monitor \cup {None}, stale : BOOLEAN]
    BY MishapsStay DEF M!TypeOK, M!Constants
  <1>1. CASE beat'.pid = None
    <2>1. CASE beat.pid = None
      <3>1. Filling
        BY <1>0, <2>1 DEF Beating
      <3>2. QED
        BY <1>1, <3>1, FillerStays
    <2>2. CASE beat.pid # None
      BY <1>1, <2>2, EmptiedByFiller
    <2>3. QED
      BY <1>1, <2>1, <2>2
  <1>2. CASE beat'.pid # None
    <2>1. ASSUME beat'.pid = beat.pid
          PROVE  beat'.pid \in Monitor /\ monitor'[beat'.pid].pc \notin {"absent", "gone"}
      <3>1. PICK n \in Monitor : n = beat.pid /\ M!Live(n)
        BY <1>0, <1>2, <2>1 DEF Beating
      <3>2. ~ M!Unlink(n)
        BY <1>2 DEF M!Unlink, M!Empty
      <3>3. QED
        BY <1>0, <2>1, <3>1, <3>2, LivesOn
    <2>2. ASSUME NEW m \in Monitor, M!Refresh(m), beat' = [pid |-> m, stale |-> FALSE]
          PROVE  beat'.pid \in Monitor /\ monitor'[beat'.pid].pc \notin {"absent", "gone"}
      <3>1. "boot" \in M!MonitorPC /\ "wait" \in M!MonitorPC /\ "write" \in M!MonitorPC /\ "sweep" \in M!MonitorPC
        BY DEF M!MonitorPC
      <3>2. monitor'[m].pc \in {"boot", "wait", "write", "sweep"}
        BY <2>2, <3>1, MonitorMoves DEF M!Refresh
      <3>3. QED
        BY <2>2, <3>2
    <2>3. ASSUME NEW s \in Start, M!Claim(s), beat' = [pid |-> start[s].child, stale |-> FALSE]
          PROVE  beat'.pid \in Monitor /\ monitor'[beat'.pid].pc \notin {"absent", "gone"}
      <3>1. start[s].child \in Monitor /\ monitor[start[s].child].pc \in {"empty", "boot", "wait"}
        BY <1>0, <2>3 DEF M!Claim, Children
      <3>2. monitor' = monitor
        BY <2>3 DEF M!Claim
      <3>3. QED
        BY <2>3, <3>1, <3>2
    <2>4. QED
      BY <1>2, <2>1, <2>2, <2>3, BeatChange
  <1>3. QED
    BY <1>1, <1>2

\* At the start nobody runs.
LEMMA MonitorInit ==
  ASSUME M!Constants, M!Init
  PROVE  MonitorInvariant
  <1> USE DEF M!Init, M!Constants
  <1>1. M!TypeOK
    <2>1. /\ beat \in [pid : Monitor \cup {None}, stale : BOOLEAN]
          /\ stales \in 0 .. MaxStale /\ ends \in 0 .. MaxEnds /\ failed \in 0 .. MaxFailed /\ overlaps \in 0 .. MaxOverlap
      OBVIOUS
    <2>2. start \in [Start -> [pc : M!StartPC, child : Monitor \cup {None}]]
      BY DEF M!StartPC
    <2>3. monitor \in [Monitor -> [pc : M!MonitorPC, idle : 0 .. MaxIdle, quiet : 0 .. MaxIdle]]
      BY DEF M!MonitorPC
    <2>4. backlog \in BOOLEAN
      BY Zenon
    <2>5. QED
      BY <2>1, <2>2, <2>3, <2>4 DEF M!TypeOK
  <1>2. Idles
    BY DEF Idles
  <1>3. Children
    BY DEF Children
  <1>4. Disowned
    BY DEF Disowned, M!At
  <1>5. Beating
    BY DEF Beating, Filling
  <1>6. QED
    BY <1>1, <1>2, <1>3, <1>4, <1>5 DEF MonitorInvariant

LEMMA MonitorInvariantStep ==
  ASSUME M!Constants, MonitorInvariant, [M!Next]_(M!vars)
  PROVE  MonitorInvariant'
  <1>1. M!TypeOK' /\ Idles' /\ Children' /\ Disowned'
    BY MonitorTypes, IdlesStep, ChildrenStep, DisownedStep DEF MonitorInvariant
  <1>2. Beating'
    BY BeatingStep
  <1>3. QED
    BY <1>1, <1>2 DEF MonitorInvariant

\* In every behaviour, unless a monitor was killed, signalled or too old, or ended idle, the
\* heartbeat names one that lives or somebody is about to fill it.
THEOREM MonitorInvariantHolds ==
  ASSUME M!Constants
  PROVE  M!Spec => []MonitorInvariant
  <1>1. M!Init => MonitorInvariant
    BY MonitorInit
  <1>2. MonitorInvariant /\ [M!Next]_(M!vars) => MonitorInvariant'
    BY MonitorInvariantStep
  <1>3. QED
    BY <1>1, <1>2, PTL DEF M!Spec

\* Whoever stands down leaves one that lives.
LEMMA AnotherLives ==
  ASSUME M!Constants, MonitorInvariant, [M!Next]_(M!vars)
  PROVE  M!StandsDownForAnother
  <1> SUFFICES ASSUME NEW m \in Monitor, monitor[m].pc = "wait", monitor'[m].pc = "clear",
                      ends' = 0, ~ M!IdledOut
               PROVE  \E n \in Monitor \ {m} : M!Live(n)
    <2>1. ends' \in Nat
      BY MonitorTypes DEF MonitorInvariant, M!TypeOK, M!Constants
    <2>2. ends' > 0 \/ ends' = 0
      BY <2>1
    <2>3. QED
      BY <2>2 DEF M!StandsDownForAnother, M!At
  <1>0. /\ ends = 0 /\ None \notin Monitor /\ monitor \in [Monitor -> Sweeper]
        /\ beat \in [pid : Monitor \cup {None}, stale : BOOLEAN]
    BY MishapsStay DEF MonitorInvariant, M!TypeOK, M!Constants, Sweeper
  <1>1. M!Wake(m)
    <2>1. CASE M!MonitorStep(m) \/ M!Signal(m) \/ M!Crash(m)
      <3>1. ~ M!Signal(m) /\ ~ M!Crash(m)
        BY <1>0 DEF M!Signal, M!Crash, MonitorInvariant, M!TypeOK, M!Constants
      <3>2. ~ M!Refresh(m)
        BY DEF M!Refresh, M!At
      <3>3. QED
        BY <2>1, <3>1, <3>2 DEF M!MonitorStep, M!Sweep, M!Decide, M!Clear, M!Unlink, M!At
    <2>2. CASE ~ (M!MonitorStep(m) \/ M!Signal(m) \/ M!Crash(m))
      <3>1. ASSUME NEW s \in Start, M!StartStep(s) \/ M!CrashStart(s)
            PROVE  FALSE
        <4>1. ASSUME NEW n \in Monitor, M!At(n, "absent"), M!Step(n, "empty")
              PROVE  FALSE
          <5>1. n # m /\ "empty" \in M!MonitorPC
            BY <4>1 DEF M!At, M!MonitorPC
          <5>2. QED
            BY <4>1, <5>1, MonitorMoves DEF MonitorInvariant
        <4>2. QED
          BY <3>1, <4>1, StartChange DEF MonitorInvariant
      <3>2. ASSUME NEW n \in Monitor, M!MonitorStep(n) \/ M!Signal(n) \/ M!Crash(n)
            PROVE  FALSE
        <4>1. n # m
          BY <2>2, <3>2
        <4>2. QED
          BY <3>2, <4>1, MonitorChange DEF MonitorInvariant
      <3>3. CASE M!Age \/ M!Arrive \/ UNCHANGED M!vars
        BY <3>3 DEF M!Age, M!Arrive, M!vars
      <3>4. QED
        BY <3>1, <3>2, <3>3 DEF M!Next
    <2>3. QED
      BY <2>1, <2>2
  <1>2. beat.pid # m /\ \A s \in Start : start[s].child = m => start[s].pc = "done"
    <2>1. "refresh" \in M!MonitorPC
      BY DEF M!MonitorPC
    <2>2. ~ M!Step(m, "refresh")
      BY <2>1, MonitorMoves DEF MonitorInvariant
    <2>3. QED
      BY <1>1, <2>2 DEF M!Wake, M!Owns
  <1>3. CASE beat.pid = None
    <2>1. Filling
      BY <1>0, <1>3 DEF MonitorInvariant, Beating
    <2>2. CASE \E n \in Monitor : monitor[n].pc \in {"boot", "write"}
      BY <2>2 DEF M!Live
    <2>3. ASSUME NEW s \in Start, start[s].pc = "claim"
          PROVE  \E n \in Monitor \ {m} : M!Live(n)
      <3>1. start[s].child \in Monitor /\ monitor[start[s].child].pc \in {"empty", "boot", "wait"}
        BY <1>0, <2>3 DEF MonitorInvariant, Children
      <3>2. start[s].child # m
        BY <1>2, <2>3
      <3>3. QED
        BY <3>1, <3>2 DEF M!Live
    <2>4. QED
      BY <2>1, <2>2, <2>3 DEF Filling
  <1>4. CASE beat.pid # None
    BY <1>0, <1>2, <1>4 DEF MonitorInvariant, Beating
  <1>5. QED
    BY <1>3, <1>4

\* A monitor that stands down for another leaves one behind: session starts that race,
\* heartbeats that went stale and half-written heartbeats never make all monitors go, unless
\* one was killed, signalled or too old, or ended idle (retry_daemon.js).
THEOREM MonitorsLeaveAnother ==
  ASSUME M!Constants
  PROVE  M!Spec => [][M!StandsDownForAnother]_(M!vars)
  <1>1. MonitorInvariant /\ [M!Next]_(M!vars) => [M!StandsDownForAnother]_(M!vars)
    BY AnotherLives
  <1>2. QED
    BY <1>1, MonitorInvariantHolds, PTL DEF M!Spec

\* Every variable of the heartbeat and its monitors keeps its type.
THEOREM MonitorTypesHold ==
  ASSUME M!Constants
  PROVE  M!Spec => []M!TypeOK
  <1>1. MonitorInvariant => M!TypeOK
    BY DEF MonitorInvariant
  <1>2. QED
    BY <1>1, MonitorInvariantHolds, PTL
================================================================================
