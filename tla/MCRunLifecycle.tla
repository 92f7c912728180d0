--------------------------- MODULE MCRunLifecycle ---------------------------
(* RunLifecycle with two ways worker ids can be given to task tries.       *)
EXTENDS RunLifecycle, TLC

CONSTANTS e1, e2, r1, r2, shared

(* No WORKER_ID: every process names itself.                               *)
OwnWorkerIds == Tries
OwnWorkerOf == [t \in Tries |-> t]

(* WORKER_ID set on the job: every process has the same name.              *)
SharedWorkerIds == {shared}
SharedWorkerOf == [t \in Tries |-> shared]

Symmetry == Permutations(Executions) \cup Permutations(Requests)
=============================================================================
