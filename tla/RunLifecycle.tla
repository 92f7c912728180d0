---------------------------- MODULE RunLifecycle ----------------------------
(***************************************************************************)
(* One run, from the queued row the API inserts to its terminal status,    *)
(* and everyone who writes that row: API requests launching a Cloud Run    *)
(* execution, a user asking for cancellation, an operator reconciling a    *)
(* lost launch, and the worker processes (one per task try) that claim it, *)
(* execute it and finalize it. Each action is one database statement or    *)
(* one transaction, so everything the code does between two statements is  *)
(* an interleaving point.                                                  *)
(***************************************************************************)
EXTENDS RunStates, Naturals, Sequences

CONSTANTS
  Executions,   \* Cloud Run executions that may be created for the run
  MaxTries,     \* task tries per execution: --max-retries 1 gives 2
  Requests,     \* API requests that may try to launch the run
  WorkerIds,    \* values of worker_id
  WorkerOf,     \* the worker_id of each task try (WORKER_ID or a fresh uuid)
  NoWorker      \* worker_id is null

(* A task try is one worker process.                                       *)
Tries == Executions \X (1 .. MaxTries)

ASSUME TriesAssumption == MaxTries \in Nat \ {0}
ASSUME WorkerAssumption ==
  /\ WorkerOf \in [Tries -> WorkerIds]
  /\ NoWorker \notin WorkerIds

VARIABLES
  status, launchState,            \* runs.status, runs.launch_state
  workerId, attempt, leaseToken,  \* the lease columns; token 0 is null
  lease,                          \* lease_expires_at against now()
  evidence,                       \* terminal rows of run_events, in order
  invoked,                        \* a run_invocations row exists
  retired,                        \* runs.error carries RUN_NOT_LAUNCHED
  req,                            \* where each launch request is
  cancelSeen,                     \* the status a cancel request read
  pc,                             \* where each worker process is
  ctx,                            \* lease_ctx of each worker process
  fin                             \* its finalizer: claim, what it read, retries

rowVars    == <<status, launchState, workerId, attempt, leaseToken, lease,
                evidence, invoked, retired>>
leaseVars  == <<workerId, attempt, leaseToken, lease>>
workerVars == <<pc, ctx, fin>>
vars       == <<rowVars, req, cancelSeen, workerVars>>

Unread == "unread"       \* a read of the run that failed: None in the code
NoSeen == "none"

ReqPhases == {"idle", "acquired", "ok", "recorded", "failed", "unknown",
              "done", "dead"}

(* booting: before the claim. claimed: lease taken; cancelling: lease      *)
(* taken on a run whose cancellation was already requested. entering: the  *)
(* status read by transition_run, its write still to come. committing,     *)
(* rereading: inside RunFinalizer. written: the terminal write landed.     *)
(* done: exit 0. failed: any other end of the process.                     *)
HoldingPcs == {"claimed", "cancelling", "entering", "running", "committing",
               "rereading", "written"}
LivePcs == HoldingPcs \cup {"booting"}
Pcs == LivePcs \cup {"absent", "done", "failed"}

NoFin == [claim |-> "failed", emitted |-> FALSE, obs |-> Unread,
          exp |-> Unread, left |-> 0]

Finalizers ==
  [claim : TERMINAL_STATES, emitted : BOOLEAN, obs : RUN_STATES \cup {Unread},
   exp : RUN_STATES \cup {Unread}, left : 0 .. 1]

TypeOK ==
  /\ status \in RUN_STATES
  /\ launchState \in LAUNCH_STATES
  /\ workerId \in WorkerIds \cup {NoWorker}
  /\ attempt \in Nat \ {0}
  /\ leaseToken \in Nat
  /\ lease \in {"none", "live", "expired"}
  /\ evidence \in Seq(TERMINAL_EVENTS)
  /\ invoked \in BOOLEAN
  /\ retired \in BOOLEAN
  /\ req \in [Requests -> ReqPhases]
  /\ cancelSeen \in RUN_STATES \cup {NoSeen}
  /\ pc \in [Tries -> Pcs]
  /\ ctx \in [Tries -> [attempt : Nat, token : Nat]]
  /\ fin \in [Tries -> Finalizers]

(* create_message_and_run: the row a worker has not touched yet.           *)
Init ==
  /\ status = "queued" /\ launchState = "pending"
  /\ workerId = NoWorker /\ attempt = 1 /\ leaseToken = 0 /\ lease = "none"
  /\ evidence = <<>> /\ invoked = FALSE /\ retired = FALSE
  /\ req = [r \in Requests |-> "idle"]
  /\ cancelSeen = NoSeen
  /\ pc = [t \in Tries |-> "absent"]
  /\ ctx = [t \in Tries |-> [attempt |-> 0, token |-> 0]]
  /\ fin = [t \in Tries |-> NoFin]

-----------------------------------------------------------------------------
(* The API's launch step, _launch_created_run.                             *)

ExecutionExists == \E e \in Executions : pc[<<e, 1>>] # "absent"

LaunchAcquirable ==
  status = "queued" /\ launchState \in {"pending", "launch_failed"}

(* try_acquire_launch: the compare-and-set that makes one request launch.  *)
TryAcquireLaunch(r) ==
  /\ req[r] = "idle"
  /\ LaunchAcquirable
  /\ launchState' = "launching"
  /\ req' = [req EXCEPT ![r] = "acquired"]
  /\ UNCHANGED <<status, leaseVars, evidence, invoked, retired, cancelSeen,
                 workerVars>>

(* The launcher's POST: what Cloud Run did, and what the API learned of    *)
(* it. A 2xx whose body cannot be parsed raises an exception that is       *)
(* neither of the launcher's own, and is handled as a definite failure.    *)
LauncherPost(r, created, outcome) ==
  /\ req[r] = "acquired"
  /\ <<created, outcome>> \in {<<TRUE, "ok">>, <<FALSE, "failed">>,
                               <<TRUE, "unknown">>, <<FALSE, "unknown">>,
                               <<TRUE, "failed">>}
  /\ IF created
     THEN \E e \in Executions : /\ pc[<<e, 1>>] = "absent"
                                /\ pc' = [pc EXCEPT ![<<e, 1>>] = "booting"]
     ELSE UNCHANGED pc
  /\ req' = [req EXCEPT ![r] = outcome]
  /\ UNCHANGED <<rowVars, cancelSeen, ctx, fin>>

(* record_run_invocation.                                                  *)
RecordInvocation(r) ==
  /\ req[r] = "ok"
  /\ invoked' = TRUE
  /\ req' = [req EXCEPT ![r] = "recorded"]
  /\ UNCHANGED <<status, launchState, leaseVars, evidence, retired,
                 cancelSeen, workerVars>>

(* Mutated form: an unknown launch outcome is taken for a launch.          *)
SetLaunchStateOptimistic(r) ==
  /\ req[r] \in {"recorded", "failed", "unknown"}
  /\ launchState' = IF req[r] = "failed" THEN "launch_failed" ELSE "launched"
  /\ req' = [req EXCEPT ![r] = "done"]
  /\ UNCHANGED <<status, leaseVars, evidence, invoked, retired, cancelSeen,
                 workerVars>>

(* set_launch_state: an update guarded by nothing but the run's id.        *)
SetLaunchState(r) ==
  /\ req[r] \in {"recorded", "failed", "unknown"}
  /\ launchState' = CASE req[r] = "recorded" -> "launched"
                      [] req[r] = "failed"   -> "launch_failed"
                      [] req[r] = "unknown"  -> "launch_unknown"
  /\ req' = [req EXCEPT ![r] = "done"]
  /\ UNCHANGED <<status, leaseVars, evidence, invoked, retired, cancelSeen,
                 workerVars>>

(* The API process dies, or a repository call of the launch step raises.   *)
RequestDies(r) ==
  /\ req[r] \in {"acquired", "ok", "recorded", "failed", "unknown"}
  /\ req' = [req EXCEPT ![r] = "dead"]
  /\ UNCHANGED <<rowVars, cancelSeen, workerVars>>

-----------------------------------------------------------------------------
(* POST /runs/{id}/cancel: read, then a compare-and-set.                   *)

CancellationRefused(s, l) ==
  s \in {"queued", "launching"} /\ l # "launched"

CancelRead ==
  /\ cancelSeen = NoSeen
  /\ ~CancellationRefused(status, launchState)
  /\ ValidTransition(status, "cancellation_requested")
  /\ cancelSeen' = status
  /\ UNCHANGED <<rowVars, req, workerVars>>

(* Mutated form: the write does not compare the status it was decided on.  *)
CancelMatchesBlind ==
  cancelSeen \in CLAIMED_RUN_STATES \/ launchState = "launched"

CancelMatches ==
  /\ status = cancelSeen
  /\ cancelSeen \in CLAIMED_RUN_STATES \/ launchState = "launched"

CancelWrite ==
  /\ cancelSeen # NoSeen
  /\ cancelSeen' = NoSeen
  /\ status' = IF CancelMatches THEN "cancellation_requested" ELSE status
  /\ UNCHANGED <<launchState, leaseVars, evidence, invoked, retired, req,
                 workerVars>>

-----------------------------------------------------------------------------
(* The operator. The row must be quiet for 900 s and the launch request    *)
(* times out after 15 s, so no launch request is in flight; the operator   *)
(* has looked in Cloud Run for an execution of the run.                    *)

Quiet == \A r \in Requests : req[r] \in {"idle", "done", "dead"}

NeverClaimed == workerId = NoWorker /\ leaseToken = 0 /\ lease = "none"

(* reconcile_lost_launch.                                                  *)
ReconcileLostLaunch ==
  /\ status = "queued" /\ launchState = "launching"
  /\ NeverClaimed /\ Quiet
  /\ \/ ExecutionExists /\ launchState' = "launched"
     \/ ~ExecutionExists /\ ~invoked /\ launchState' = "launch_failed"
  /\ UNCHANGED <<status, leaseVars, evidence, invoked, retired, req,
                 cancelSeen, workerVars>>

(* reconcile-launch-unknown.sh: confirmed-launched, confirmed-not-launched.*)
ResolveUnknownLaunch ==
  /\ launchState = "launch_unknown"
  /\ Quiet
  /\ launchState' = IF ExecutionExists THEN "launched" ELSE "launch_failed"
  /\ UNCHANGED <<status, leaseVars, evidence, invoked, retired, req,
                 cancelSeen, workerVars>>

(* reconcile-launch-unknown.sh: requeue.                                   *)
Requeue ==
  /\ launchState = "launch_failed" /\ status = "queued"
  /\ lease # "live"
  /\ launchState' = "pending"
  /\ UNCHANGED <<status, leaseVars, evidence, invoked, retired, req,
                 cancelSeen, workerVars>>

(* Mutated form: whether a worker claimed the run is not looked at.        *)
RetirableClaimed ==
  /\ status \in {"queued", "cancellation_requested"}
  /\ launchState \in {"pending", "launch_failed"}
  /\ ~invoked
  /\ Quiet

Retirable ==
  /\ status \in {"queued", "cancellation_requested"}
  /\ launchState \in {"pending", "launch_failed"}
  /\ NeverClaimed
  /\ ~invoked
  /\ Quiet

(* retire_unlaunched_run: both status changes and the event, one           *)
(* transaction.                                                            *)
RetireUnlaunchedRun ==
  /\ Retirable
  /\ status' = "cancelled"
  /\ retired' = TRUE
  /\ evidence' = Append(evidence, "run_cancelled")
  /\ UNCHANGED <<launchState, leaseVars, invoked, req, cancelSeen,
                 workerVars>>

-----------------------------------------------------------------------------
(* The worker's lease.                                                     *)

(* Mutated form: the guard does not compare the lease token.               *)
HoldsLeaseNoToken(t) ==
  workerId = WorkerOf[t] /\ attempt = ctx[t].attempt /\ lease = "live"

(* assert_worker_lease, and the WHERE of every guarded write.              *)
HoldsLease(t) ==
  /\ workerId = WorkerOf[t]
  /\ attempt = ctx[t].attempt
  /\ leaseToken = ctx[t].token
  /\ lease = "live"

(* The process whose lease_ctx is in the row, and which is still running:  *)
(* its heartbeat thread keeps the lease alive.                             *)
Heartbeating(t) == pc[t] \in HoldingPcs /\ HoldsLease(t)

(* Mutated form: a lapsed lease of another worker is not taken over.       *)
ClaimableOwn(t) ==
  \/ /\ status \in {"queued", "launching", "waiting", "cancellation_requested"}
     /\ workerId \in {NoWorker, WorkerOf[t]}
  \/ status \in {"starting", "running"} /\ workerId = WorkerOf[t]

Claimable(t) ==
  \/ /\ status \in {"queued", "launching", "waiting", "cancellation_requested"}
     /\ workerId \in {NoWorker, WorkerOf[t]} \/ lease # "live"
  \/ /\ status \in {"starting", "running"}
     /\ workerId = WorkerOf[t] \/ lease # "live"

ClaimedAttempt(t) ==
  IF workerId # NoWorker /\ workerId # WorkerOf[t] /\ lease = "expired"
  THEN attempt + 1 ELSE attempt

(* claim_run_lease.                                                        *)
ClaimRun(t) ==
  /\ pc[t] = "booting"
  /\ Claimable(t)
  /\ status' = IF status = "cancellation_requested" THEN status ELSE "starting"
  /\ attempt' = ClaimedAttempt(t)
  /\ workerId' = WorkerOf[t]
  /\ leaseToken' = leaseToken + 1
  /\ lease' = "live"
  /\ ctx' = [ctx EXCEPT ![t] = [attempt |-> ClaimedAttempt(t),
                                token |-> leaseToken + 1]]
  /\ pc' = [pc EXCEPT ![t] = IF status = "cancellation_requested"
                             THEN "cancelling" ELSE "claimed"]
  /\ UNCHANGED <<launchState, evidence, invoked, retired, req, cancelSeen,
                 fin>>

(* _claim_run_with_recovery, refused: a terminal run ends the retry chain  *)
(* with exit 0. The wait is longer than the lease, so it only runs out on  *)
(* a holder that keeps heartbeating.                                       *)
ClaimRefused(t) ==
  /\ pc[t] = "booting"
  /\ ~Claimable(t)
  /\ \/ /\ status \in TERMINAL_STATES
        /\ pc' = [pc EXCEPT ![t] = "done"]
     \/ /\ status \notin TERMINAL_STATES
        /\ \E h \in Tries : Heartbeating(h)
        /\ pc' = [pc EXCEPT ![t] = "failed"]
  /\ UNCHANGED <<rowVars, req, cancelSeen, ctx, fin>>

(* lease_expires_at passes: the holder died, stalled or was cut off.       *)
LeaseExpires ==
  /\ lease = "live"
  /\ lease' = "expired"
  /\ UNCHANGED <<status, launchState, workerId, attempt, leaseToken, evidence,
                 invoked, retired, req, cancelSeen, workerVars>>

-----------------------------------------------------------------------------
(* execute_run, between the claim and the finalizer.                       *)

(* transition_run(running): the read, and what it refuses. A cancellation  *)
(* or a terminal status read here is INVALID_RUN_TRANSITION and escapes.   *)
EnterRunningRead(t) ==
  /\ pc[t] = "claimed"
  /\ IF status = "running" \/ ValidTransition(status, "running")
     THEN /\ pc' = [pc EXCEPT ![t] = "entering"]
          /\ fin' = [fin EXCEPT ![t] = [NoFin EXCEPT !.exp = status]]
     ELSE /\ pc' = [pc EXCEPT ![t] = "failed"]
          /\ UNCHANGED fin
  /\ UNCHANGED <<rowVars, req, cancelSeen, ctx>>

(* transition_run_worker_guarded: no compare-and-set when the status read  *)
(* already was running.                                                    *)
EnterRunningWrite(t) ==
  /\ pc[t] = "entering"
  /\ IF HoldsLease(t) /\ fin[t].exp \in {"running", status}
     THEN /\ status' = "running"
          /\ pc' = [pc EXCEPT ![t] = "running"]
     ELSE /\ pc' = [pc EXCEPT ![t] = "failed"]
          /\ UNCHANGED status
  /\ fin' = [fin EXCEPT ![t] = NoFin]
  /\ UNCHANGED <<launchState, leaseVars, evidence, invoked, retired, req,
                 cancelSeen, ctx>>

(* The process is killed, or an exception escapes execute_run.             *)
WorkerDies(t) ==
  /\ pc[t] \in LivePcs
  /\ pc' = [pc EXCEPT ![t] = "failed"]
  /\ fin' = [fin EXCEPT ![t] = NoFin]
  /\ UNCHANGED <<rowVars, req, cancelSeen, ctx>>

(* Cloud Run starts the task's next try after a non-zero exit.             *)
TaskRetried(t) ==
  /\ pc[t] = "absent"
  /\ t[2] > 1 /\ pc[<<t[1], t[2] - 1>>] = "failed"
  /\ pc' = [pc EXCEPT ![t] = "booting"]
  /\ UNCHANGED <<rowVars, req, cancelSeen, ctx, fin>>

-----------------------------------------------------------------------------
(* RunFinalizer.finalize: decide, commit, re-read, decide once more.       *)

(* The claims execute_run can bring: <<status, its event already emitted>>.*)
(* Before running: a refusal, or the product of a summary checkpoint.      *)
ClaimsBeforeRunning ==
  {"completed", "partial_success", "failed"} \X {FALSE}

(* Afterwards also a rail's stop, which already emitted its cause.         *)
ClaimsRunning ==
  ClaimsBeforeRunning \cup
    ({"failed", "timed_out", "budget_exhausted"} \X {TRUE})

(* A cancellation the worker saw: in the row its claim returned, or when   *)
(* the engine looked at the run.                                           *)
ClaimsOf(t) ==
  CASE pc[t] = "cancelling" -> {"cancelled"} \X {FALSE}
    [] pc[t] = "claimed"    -> ClaimsBeforeRunning
    [] pc[t] = "running"    ->
         ClaimsRunning \cup (IF status = "cancellation_requested"
                             THEN {"cancelled"} \X {FALSE} ELSE {})
    [] OTHER -> {}

(* _legalize: a requested cancellation admits cancelled and failed only.   *)
Legalize(claim, emitted, observed) ==
  IF observed = "cancellation_requested" /\ claim \notin {"cancelled", "failed"}
  THEN <<"cancelled", FALSE>> ELSE <<claim, emitted>>

Decision(claim, emitted, observed, left) ==
  LET legal == Legalize(claim, emitted, observed)
  IN  [claim |-> legal[1], emitted |-> legal[2], obs |-> observed,
       exp |-> observed, left |-> left]

(* finalize: the one read that decides. A terminal status is adopted and   *)
(* the process exits 0; a read that fails says nothing about the run.      *)
FinalizeRead(t) ==
  /\ pc[t] \in {"claimed", "cancelling", "running"}
  /\ \/ /\ status \in TERMINAL_STATES
        /\ pc' = [pc EXCEPT ![t] = "done"]
        /\ UNCHANGED fin
     \/ /\ \E c \in ClaimsOf(t),
              observed \in (({status} \ TERMINAL_STATES) \cup {Unread}) :
             fin' = [fin EXCEPT ![t] = Decision(c[1], c[2], observed, 1)]
        /\ pc' = [pc EXCEPT ![t] = "committing"]
  /\ UNCHANGED <<rowVars, req, cancelSeen, ctx>>

(* _persist: without an observation it reads again, and commits under what *)
(* it reads. A second failure refuses to finalize blind (WorkerDies).      *)
PersistRead(t) ==
  /\ pc[t] = "committing" /\ fin[t].exp = Unread
  /\ fin' = [fin EXCEPT ![t].exp = status]
  /\ UNCHANGED <<rowVars, req, cancelSeen, pc, ctx>>

(* Mutated form: the write does not ask for the lease.                     *)
FinalizationLandsStale(t) ==
  ValidTransition(fin[t].exp, fin[t].claim) /\ status = fin[t].exp

FinalizationLands(t) ==
  /\ ValidTransition(fin[t].exp, fin[t].claim)
  /\ HoldsLease(t)
  /\ status = fin[t].exp

(* finalize_run and finalize_run_guarded: the status and its event in one  *)
(* transaction, or a race code.                                            *)
FinalizeWrite(t) ==
  /\ pc[t] = "committing" /\ fin[t].exp # Unread
  /\ IF FinalizationLands(t)
     THEN /\ status' = fin[t].claim
          /\ evidence' = evidence \o OwedEvents(fin[t].claim, fin[t].emitted)
          /\ pc' = [pc EXCEPT ![t] = "written"]
     ELSE /\ pc' = [pc EXCEPT ![t] = "rereading"]
          /\ UNCHANGED <<status, evidence>>
  /\ UNCHANGED <<launchState, leaseVars, invoked, retired, req, cancelSeen,
                 ctx, fin>>

(* Mutated form: a race code is read as "somebody else finished it".       *)
FinalizeRereadAdoptsAny(t) ==
  /\ pc[t] = "rereading"
  /\ pc' = [pc EXCEPT ![t] = "done"]
  /\ fin' = [fin EXCEPT ![t] = NoFin]
  /\ UNCHANGED <<rowVars, req, cancelSeen, ctx>>

(* _commit after a race code: adopt a terminal status, decide once more    *)
(* under the status that holds, or let the error escape.                   *)
FinalizeReread(t) ==
  /\ pc[t] = "rereading"
  /\ \/ /\ status \in TERMINAL_STATES
        /\ pc' = [pc EXCEPT ![t] = "done"]
        /\ fin' = [fin EXCEPT ![t] = NoFin]
     \/ /\ status \notin TERMINAL_STATES
        /\ fin[t].left > 0 /\ status # fin[t].obs
        /\ fin' = [fin EXCEPT ![t] = Decision(fin[t].claim, fin[t].emitted,
                                              status, fin[t].left - 1)]
        /\ pc' = [pc EXCEPT ![t] = "committing"]
     \/ /\ status \notin TERMINAL_STATES
        /\ fin[t].left = 0 \/ status = fin[t].obs
        /\ pc' = [pc EXCEPT ![t] = "failed"]
        /\ fin' = [fin EXCEPT ![t] = NoFin]
  /\ UNCHANGED <<rowVars, req, cancelSeen, ctx>>

(* The exit code: V1 keeps exit 1 for an engine-reported failure.          *)
WorkerExits(t) ==
  /\ pc[t] = "written"
  /\ \/ pc' = [pc EXCEPT ![t] = "done"]
     \/ fin[t].claim = "failed" /\ pc' = [pc EXCEPT ![t] = "failed"]
  /\ fin' = [fin EXCEPT ![t] = NoFin]
  /\ UNCHANGED <<rowVars, req, cancelSeen, ctx>>

-----------------------------------------------------------------------------
ApiNext ==
  \E r \in Requests :
    \/ TryAcquireLaunch(r)
    \/ \E created \in BOOLEAN, outcome \in {"ok", "failed", "unknown"} :
         LauncherPost(r, created, outcome)
    \/ RecordInvocation(r)
    \/ SetLaunchState(r)
    \/ RequestDies(r)

UserNext == CancelRead \/ CancelWrite

OperatorNext ==
  ReconcileLostLaunch \/ ResolveUnknownLaunch \/ Requeue \/ RetireUnlaunchedRun

(* What a worker process does while nothing kills it.                      *)
WorkerStep(t) ==
  \/ ClaimRun(t) \/ ClaimRefused(t)
  \/ EnterRunningRead(t) \/ EnterRunningWrite(t)
  \/ FinalizeRead(t) \/ PersistRead(t) \/ FinalizeWrite(t)
  \/ FinalizeReread(t) \/ WorkerExits(t)

WorkerNext == \E t \in Tries : WorkerStep(t) \/ WorkerDies(t) \/ TaskRetried(t)

Next == ApiNext \/ UserNext \/ OperatorNext \/ WorkerNext \/ LeaseExpires

Spec == Init /\ [][Next]_vars

(* A process that is not killed keeps going (the engine is bounded by its  *)
(* own deadline), Cloud Run restarts a failed task, and a lease nobody     *)
(* renews runs out.                                                        *)
Fairness ==
  /\ \A t \in Tries : WF_vars(WorkerStep(t)) /\ WF_vars(TaskRetried(t))
  /\ WF_vars(LeaseExpires /\ \A t \in Tries : ~Heartbeating(t))

FairSpec == Spec /\ Fairness
-----------------------------------------------------------------------------
(* Properties.                                                             *)

(* What readers of the row rely on: RunContract, on the same two columns.  *)
(* The status follows VALID_TRANSITIONS or a reclaim, a terminal status    *)
(* never changes, and it appears together with the event it owes.          *)
Contract == INSTANCE RunContract WITH status <- status, evidence <- evidence
ImplementsContract == Contract!Spec

(* A finished run has exactly the one terminal event its status owes (none *)
(* for a budget or timeout stop, whose cause the tracker emitted), and an  *)
(* unfinished one has none, whoever finalized it and however often         *)
(* (finalize_run_guarded, retire_unlaunched_run).                          *)
EvidenceMatchesStatus ==
  CASE status \in {"completed", "partial_success", "cancelled"} ->
         evidence = <<EventOfStatus[status]>>
    [] status = "failed" -> evidence \in {<<>>, <<"run_failed">>}
    [] OTHER -> evidence = <<>>

(* Two worker processes never both pass the guard of a durable write, even *)
(* when WORKER_ID gives them the same name (assert_worker_lease).          *)
SingleLeaseHolder ==
  \A t, u \in Tries : Heartbeating(t) /\ Heartbeating(u) => t = u

(* Exit 0, which stops Cloud Run from retrying, is only ever reported for  *)
(* a run whose terminal status is durable (execute_run's return 0).        *)
ExitZeroMeansTerminal ==
  \A t \in Tries : pc[t] = "done" => status \in TERMINAL_STATES

(* A run an operator retired as never launched was never executed and      *)
(* never will be, although a worker may have been started for it.          *)
RetiredNeverExecuted ==
  retired => workerId = NoWorker /\ status = "cancelled"

(* A cancellation is only ever accepted for a run a worker was started for *)
(* (cancellation_refusal and the launch_state guard of the write).         *)
CancellationHasExecution ==
  status = "cancellation_requested" => ExecutionExists

(* The terminal status is written by the process that claimed last, while  *)
(* its lease is live; a stale worker never decides a run (only an operator *)
(* retiring a run nobody claimed does).                                    *)
LatestClaimerDecides ==
  [][status \notin TERMINAL_STATES /\ status' \in TERMINAL_STATES =>
       \/ retired'
       \/ \E t \in Tries : /\ pc[t] = "committing" /\ pc'[t] = "written"
                           /\ lease = "live" /\ leaseToken = ctx[t].token]_vars

(* The inductive invariant behind the safety properties above.             *)

(* The lease columns are null together, until the first claim.             *)
LeaseColumnsAgree ==
  /\ lease = "none" <=> leaseToken = 0
  /\ workerId = NoWorker <=> leaseToken = 0

(* Claims hand out tokens one by one, so no two processes share one and    *)
(* none is ahead of the row.                                               *)
TokensFresh ==
  /\ \A t \in Tries :
       /\ ctx[t].token <= leaseToken
       /\ pc[t] \in {"absent", "booting"} => ctx[t].token = 0
       /\ pc[t] \in HoldingPcs => ctx[t].token > 0
  /\ \A t, u \in Tries :
       ctx[t].token = ctx[u].token /\ ctx[t].token > 0 => t = u

(* Until its holder moves it, a claimed run is only ever cancelled by      *)
(* others; a process that read running before moving it has been replaced. *)
EntryOrder ==
  \A t \in Tries :
    /\ pc[t] \in {"claimed", "entering"} /\ ctx[t].token = leaseToken =>
         status \in {"starting", "cancellation_requested"}
    /\ pc[t] = "entering" =>
         \/ ValidTransition(fin[t].exp, "running")
         \/ fin[t].exp = "running" /\ ctx[t].token < leaseToken

(* A cancellation in flight was decided on a status that admits it.        *)
CancelDecided ==
  cancelSeen # NoSeen => ValidTransition(cancelSeen, "cancellation_requested")

(* Only a rail's stop comes with its event already emitted, and it stays   *)
(* with that claim through every re-decision.                              *)
OnlyStopsEmitted ==
  \A t \in Tries :
    fin[t].emitted => fin[t].claim \in {"failed", "timed_out", "budget_exhausted"}

(* A terminal write that landed, or an exit 0, is backed by the row.       *)
EndedIsTerminal ==
  \A t \in Tries : pc[t] \in {"written", "done"} => status \in TERMINAL_STATES

(* What the launch columns know of Cloud Run.                              *)
LaunchKnowledge ==
  /\ \A r \in Requests : req[r] \in {"ok", "recorded"} => ExecutionExists
  /\ launchState = "launched" => ExecutionExists
  /\ leaseToken > 0 => ExecutionExists
  /\ status \in CLAIMED_RUN_STATES => leaseToken > 0
  /\ \A t \in Tries : pc[t] # "absent" => ExecutionExists

LifecycleInv ==
  /\ TypeOK
  /\ LeaseColumnsAgree
  /\ TokensFresh
  /\ EntryOrder
  /\ CancelDecided
  /\ OnlyStopsEmitted
  /\ EndedIsTerminal
  /\ LaunchKnowledge
  /\ EvidenceMatchesStatus
  /\ RetiredNeverExecuted
  /\ CancellationHasExecution

(* Every try of every execution is used up.                                *)
NobodyLeft ==
  \A e \in Executions :
    pc[<<e, 1>>] = "absent" \/ pc[<<e, MaxTries>>] = "failed"

(* A run a worker was started for ends, or uses up its task tries: no      *)
(* interleaving of a lapsed lease, a refused write, a cancellation and a   *)
(* retry leaves processes waiting on each other.                           *)
StartedRunSettles ==
  ExecutionExists ~> (status \in TERMINAL_STATES \/ NobodyLeft)

(* What request_cancellation says of itself: no request can rest at        *)
(* cancellation_requested with nobody to finalize it.                      *)
NoOrphanedCancellation ==
  status = "cancellation_requested" => ~NobodyLeft

=============================================================================
