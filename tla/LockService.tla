----------------------------- MODULE LockService -----------------------------
(***************************************************************************)
(* What shared/lib/credential-lock.js promises its callers, without saying  *)
(* how: a lock is free, held by one live process, left behind by a dead     *)
(* owner, or held forever by an owner nobody can verify.  It passes from    *)
(* one process to the next only through "free": no process ever takes a     *)
(* lock directly from another one.                                          *)
(***************************************************************************)
CONSTANTS Client, Free, Orphaned, Foreign

VARIABLE state

Acquire(c)  == state = Free /\ state' = c
Unlock(c)   == state = c /\ state' = Free
Die(c)      == state = c /\ state' = Orphaned
Recover     == state = Orphaned /\ state' = Free

LockInit == state \in {Free, Orphaned, Foreign}
LockNext == Recover \/ \E c \in Client : Acquire(c) \/ Unlock(c) \/ Die(c)
LockSpec == LockInit /\ [][LockNext]_state
=============================================================================
