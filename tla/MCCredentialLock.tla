--------------------------- MODULE MCCredentialLock ---------------------------
(* Model values and bounds for CredentialLock.                               *)
EXTENDS CredentialLock, TLC
CONSTANTS p1, p2, p3, t1, t2, t3, t4, t5

\* Pids and tokens are only compared for equality.
Symmetry == Permutations(Pid) \cup Permutations(Token)
=============================================================================
