-------------------------- MODULE MCSessionRenewal --------------------------
(* Processes and bounds for SessionRenewal.                                  *)
EXTENDS SessionRenewal, TLC
CONSTANTS p1, p2, p3

\* Processes are only compared for equality.
Symmetry == Permutations(Process)
=============================================================================
