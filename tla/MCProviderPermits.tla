------------------------- MODULE MCProviderPermits -------------------------
(* ProviderPermits with three requests of two processes.                   *)
EXTENDS ProviderPermits, TLC

CONSTANTS p1, p2, q1, q2, q3

TwoProcesses == (q1 :> p1 @@ q2 :> p1 @@ q3 :> p2)

Symmetry == Permutations(LeaseIds)
=============================================================================
