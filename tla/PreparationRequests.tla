------------------------ MODULE PreparationRequests ------------------------
(***************************************************************************)
(* Preparing a plan's revision from the web (catalog/scope/web_preparation, *)
(* prepare_trigger and preparation.py, catalog/operator_capture.py and the  *)
(* preparation request migration).  A request claims an attempt of the      *)
(* revision, makes a capture run for it, triggers the capture job and       *)
(* records what became of the trigger; the job's execution claims the run,  *)
(* captures every unit and writes the queue.  Either process may die        *)
(* between any two of its statements: no step of theirs is ever certain to  *)
(* come.  The status a person is shown is derived from the rows alone.      *)
(***************************************************************************)
EXTENDS MappingPlan

CONSTANTS
    Callers,        \* requests to prepare
    Executions,     \* executions of the capture job, in the order they start
    MaxAttempts     \* bound: attempts of a revision's request

ASSUME PreparationConstants ==
    /\ IsFiniteSet(Callers)
    /\ Executions \subseteq Nat /\ IsFiniteSet(Executions)
    /\ MaxAttempts \in Nat \ {0}

VARIABLES
    request,    \* the request row of each revision
    capture,    \* the capture run of each attempt (its idempotency key)
    caller,     \* each request to prepare: its place, its attempt and run
    execution   \* the capture job's executions

prepVars == <<request, capture, caller, execution>>

NoAttempt == <<0, 0>>
Attempts == (1..MaxRevisions) \X (1..MaxAttempts)
NoRequest == [attempt |-> 0, run |-> NoAttempt, trigger |-> "none", aged |-> FALSE]
NoCapture == [status |-> "none", launch |-> "none", lease |-> "none", holder |-> 0]
Prepared(rev) == cut[rev] # NotPrepared

CallerDone == [pc |-> "done", at |-> NoAttempt, run |-> NoAttempt, outcome |-> "none"]
ExecutionOver == [pc |-> "over", run |-> NoAttempt, rev |-> 0]

PrepInit ==
    /\ request = [v \in 1..MaxRevisions |-> NoRequest]
    /\ capture = [a \in Attempts |-> NoCapture]
    /\ caller = [c \in Callers |-> [pc |-> "idle", at |-> NoAttempt, run |-> NoAttempt, outcome |-> "none"]]
    /\ execution = [x \in Executions |-> [pc |-> "unused", run |-> NoAttempt, rev |-> 0]]

PrepTypeOK ==
    /\ \A v \in 1..MaxRevisions :
        /\ request[v].attempt \in 0..MaxAttempts /\ request[v].run \in Attempts \cup {NoAttempt}
        /\ request[v].trigger \in {"none", "claimed", "triggered", "trigger_failed"}
    /\ \A a \in Attempts :
        /\ capture[a].status \in RUN_STATES \cup {"none"}
        /\ capture[a].launch \in {"none", "pending", "launching"}
        /\ capture[a].lease \in {"none", "live", "expired", "aged"}
        /\ capture[a].holder \in Executions \cup {0}
    /\ \A c \in Callers : caller[c].pc \in
        {"idle", "asked", "claimed", "created", "owned", "bound", "posted", "done"}
    /\ \A x \in Executions : execution[x].pc \in
        {"unused", "starting", "eligible", "claimed", "capturing", "written", "failing", "stopping", "over"}

----------------------------------------------------------------------------
(* What the rows say: the view a person is shown and the database's claim.  *)

\* DerivedStatus: a bug that reads an unclaimed run as a live one however long it waits
DerivedStatusPatient(rev) ==
    LET row == request[rev]
    IN  [state |-> CASE rev # head -> "stale"
                     [] rev = head /\ Prepared(rev) -> "prepared"
                     [] rev = head /\ ~Prepared(rev) /\ row.trigger = "none" -> "not_requested"
                     [] OTHER -> IF row.trigger = "trigger_failed" THEN "failed" ELSE "preparing",
         retryable |-> row.trigger = "trigger_failed"]

\* derive_status: the state shown for a revision, and whether it can be retried
DerivedStatus(rev) ==
    LET row == request[rev]
        run_ == IF row.run = NoAttempt THEN NoCapture ELSE capture[row.run]
        failed(retry) == [state |-> "failed", retryable |-> retry]
        is(state) == [state |-> state, retryable |-> FALSE]
    IN  CASE rev # head -> is("stale")
          [] rev = head /\ Prepared(rev) -> is("prepared")
          [] rev = head /\ ~Prepared(rev) /\ row.trigger = "none" -> is("not_requested")
          [] OTHER ->
                IF row.trigger = "trigger_failed" THEN failed(TRUE)
                ELSE IF row.trigger = "claimed"
                     THEN IF row.aged THEN failed(TRUE) ELSE is("preparing")
                ELSE IF run_.status \in TERMINAL_STATES THEN failed(TRUE)
                ELSE IF run_.holder = 0
                     THEN IF run_.status = "queued" /\ row.aged THEN failed(TRUE) ELSE is("preparing")
                ELSE IF run_.lease = "aged" THEN failed(FALSE) ELSE is("preparing")

\* _view: the person may prepare
CanPrepare(rev) ==
    LET derived == DerivedStatus(rev)
    IN  derived.state = "not_requested" \/ (derived.state = "failed" /\ derived.retryable)

\* request_work_scope_preparation: may the row's attempt be given up?
Retryable(row) ==
    \/ row.trigger = "trigger_failed"
    \/ row.trigger = "claimed" /\ row.aged
    \/ /\ row.trigger = "triggered" /\ row.run # NoAttempt
       /\ \/ capture[row.run].status \in TERMINAL_STATES
          \/ capture[row.run].status = "queued" /\ capture[row.run].holder = 0 /\ row.aged

ClaimDecision(rev) ==
    CASE rev # head -> "stale"
      [] rev = head /\ Prepared(rev) -> "prepared"
      [] rev = head /\ ~Prepared(rev) /\ request[rev].trigger # "none" /\ ~Retryable(request[rev]) ->
            "existing"
      [] OTHER -> "claimed"

----------------------------------------------------------------------------
(* The request. *)

\* _request_preparation up to its claim: the head must be the one named, the
\* view must allow it, and the capture job must run this release
AskToPrepare(c, rev) ==
    /\ caller[c].pc = "idle"
    /\ rev = head
    /\ \/ CanPrepare(rev) /\ caller' = [caller EXCEPT ![c] = [@ EXCEPT !.pc = "asked", !.at = <<rev, 0>>]]
       \/ caller' = [caller EXCEPT ![c] = CallerDone]
    /\ UNCHANGED <<request, capture, execution>>

\* the claim: a retry is a new attempt, and keeps a run nobody ever claimed
ClaimRequest(c) ==
    LET rev == caller[c].at[1]
        row == request[rev]
        keep == /\ row.run # NoAttempt
                /\ capture[row.run].status = "queued" /\ capture[row.run].holder = 0
                /\ capture[row.run].launch = "none"
        next == [attempt |-> row.attempt + 1, run |-> IF keep THEN row.run ELSE NoAttempt,
                 trigger |-> "claimed", aged |-> FALSE]
    IN  /\ caller[c].pc = "asked"
        /\ IF ClaimDecision(rev) = "claimed"
           THEN /\ row.attempt < MaxAttempts
                /\ request' = [request EXCEPT ![rev] = next]
                /\ caller' = [caller EXCEPT ![c] = [@ EXCEPT
                        !.pc = IF keep THEN "bound" ELSE "claimed",
                        !.at = <<rev, row.attempt + 1>>, !.run = next.run]]
           ELSE caller' = [caller EXCEPT ![c] = CallerDone] /\ UNCHANGED request
        /\ UNCHANGED <<capture, execution>>

\* record_work_scope_preparation_trigger: for the attempt claimed, while it is
\* still only claimed, and once a run is bound only for that run
Recordable(c) ==
    LET row == request[caller[c].at[1]]
    IN  /\ row.attempt = caller[c].at[2] /\ row.trigger = "claimed"
        /\ row.run \in {NoAttempt, caller[c].run} \/ caller[c].run = NoAttempt

Recorded(c, trigger) ==
    LET rev == caller[c].at[1]
        row == request[rev]
    IN  IF Recordable(c)
        THEN request' = [request EXCEPT ![rev] = [@ EXCEPT
                !.trigger = trigger,
                !.run = IF caller[c].run = NoAttempt THEN row.run ELSE caller[c].run,
                !.aged = trigger # "triggered" /\ row.aged]]
        ELSE UNCHANGED request

\* prepare_capture_run: the run is created, its launch acquired and handed to
\* the operator; a refusal is recorded as a failed trigger, and a death between
\* the last two writes leaves a run nobody launches
CreateCaptureRun(c) ==
    LET at == caller[c].at
    IN  /\ caller[c].pc = "claimed"
        /\ \/ /\ capture' = [capture EXCEPT ![at] = [@ EXCEPT !.status = "queued", !.launch = "pending"]]
              /\ caller' = [caller EXCEPT ![c] = [@ EXCEPT !.pc = "created", !.run = at]]
              /\ UNCHANGED request
           \/ /\ Recorded(c, "trigger_failed")
              /\ caller' = [caller EXCEPT ![c] = CallerDone]
              /\ UNCHANGED capture
        /\ UNCHANGED execution

OwnLaunch(c) ==
    /\ caller[c].pc = "created"
    /\ \/ capture' = [capture EXCEPT ![caller[c].run].launch = "none"]
          /\ caller' = [caller EXCEPT ![c].pc = "owned"]
       \/ capture' = [capture EXCEPT ![caller[c].run].launch = "launching"]
          /\ caller' = [caller EXCEPT ![c] = CallerDone]
    /\ UNCHANGED <<request, execution>>

\* the run is bound before the job is executed; a record refused ends the request
BindRun(c) ==
    /\ caller[c].pc = "owned"
    /\ Recorded(c, "claimed")
    /\ caller' = [caller EXCEPT ![c] = IF Recordable(c) THEN [@ EXCEPT !.pc = "bound"] ELSE CallerDone]
    /\ UNCHANGED <<capture, execution>>

\* CloudRunCaptureJobTrigger.run: a refusal starts nothing, and a transport
\* error leaves it unknown whether an execution started, which every reader of
\* the row takes as it takes a trigger that did
Trigger(c) ==
    LET fresh == CHOOSE x \in Executions :
                    execution[x].pc = "unused" /\ \A y \in Executions : execution[y].pc = "unused" => x <= y
        starts == execution' = [execution EXCEPT ![fresh] =
                    [pc |-> "starting", run |-> caller[c].run, rev |-> caller[c].at[1]]]
    IN  /\ caller[c].pc = "bound"
        /\ \E x \in Executions : execution[x].pc = "unused"
        /\ \E outcome \in {"triggered", "trigger_failed"} :
            /\ caller' = [caller EXCEPT ![c] = [@ EXCEPT !.pc = "posted", !.outcome = outcome]]
            /\ (outcome = "triggered" /\ starts) \/ UNCHANGED execution
        /\ UNCHANGED <<request, capture>>

RecordOutcome(c) ==
    /\ caller[c].pc = "posted"
    /\ Recorded(c, caller[c].outcome)
    /\ caller' = [caller EXCEPT ![c] = CallerDone]
    /\ UNCHANGED <<capture, execution>>

----------------------------------------------------------------------------
(* An execution of the capture job. *)

HoldsCapture(x) ==
    \E a \in Attempts :
        /\ execution[x].run = a /\ capture[a].holder = x
        /\ capture[a].lease = "live" /\ capture[a].status \notin TERMINAL_STATES

Goto(x, pc) ==
    execution' = [execution EXCEPT ![x] = IF pc = "over" THEN ExecutionOver ELSE [@ EXCEPT !.pc = pc]]

\* _execute: only a queued run whose launch is the operator's is eligible
CheckEligible(x) ==
    /\ execution[x].pc = "starting"
    /\ LET run_ == capture[execution[x].run]
       IN  Goto(x, IF run_.status = "queued" /\ run_.launch = "none" THEN "eligible" ELSE "over")
    /\ UNCHANGED <<request, capture, caller>>

\* claim_run on the row as it is by now
ClaimCapture(x) ==
    LET run_ == capture[execution[x].run]
    IN  /\ execution[x].pc = "eligible"
        /\ IF run_.status \notin TERMINAL_STATES /\ (run_.holder = 0 \/ run_.lease # "live")
           THEN /\ capture' = [capture EXCEPT ![execution[x].run] = [@ EXCEPT
                        !.status = IF @ = "cancellation_requested" THEN @ ELSE "starting",
                        !.lease = "live", !.holder = x]]
                /\ Goto(x, "claimed")
           ELSE Goto(x, "over") /\ UNCHANGED capture
        /\ UNCHANGED <<request, caller>>

\* read_prepared_revision: the plan's head must still be the revision asked for
ReadPreparedRevision(x) ==
    /\ execution[x].pc = "claimed"
    /\ Goto(x, IF execution[x].rev = head THEN "capturing" ELSE "failing")
    /\ UNCHANGED <<request, capture, caller>>

\* capture_unit for every unit: the register may refuse, and the supervisor
\* stops a capture whose run was cancelled or whose lease is lost
CaptureUnits(x) ==
    /\ execution[x].pc = "capturing"
    /\ \/ Goto(x, "failing")
       \/ /\ ~HoldsCapture(x) \/ capture[execution[x].run].status = "cancellation_requested"
          /\ Goto(x, "stopping")
    /\ UNCHANGED <<request, capture, caller>>

\* prepare_work_scope: its last statement, under the lease, writes the queue
\* once per revision and only for the head
WriteQueue(x, n) ==
    /\ execution[x].pc = "capturing"
    /\ IF HoldsCapture(x) /\ execution[x].rev = head /\ ~Prepared(head)
       THEN cut' = [cut EXCEPT ![head] = n] /\ Goto(x, "written")
       ELSE Goto(x, "failing") /\ UNCHANGED cut
    /\ UNCHANGED <<request, capture, caller>>

\* _finalize, whose own failure is swallowed: the run then keeps its lease
\* until it runs out
FinalizeCapture(x) ==
    LET status == CASE execution[x].pc = "written" -> "completed"
                    [] execution[x].pc = "failing" -> "failed"
                    [] OTHER -> IF HoldsCapture(x) THEN "cancelled" ELSE "failed"
    IN  /\ execution[x].pc \in {"written", "failing", "stopping"}
        /\ capture' = IF HoldsCapture(x)
                      THEN [capture EXCEPT ![execution[x].run].status =
                            IF @ = "cancellation_requested" THEN "cancelled" ELSE status]
                      ELSE capture
        /\ Goto(x, "over")
        /\ UNCHANGED <<request, caller>>

\* request_cancellation: accepted once an execution holds the run
CancelCapture(a) ==
    /\ capture[a].status = "starting"
    /\ capture' = [capture EXCEPT ![a].status = "cancellation_requested"]
    /\ UNCHANGED <<request, caller, execution>>

----------------------------------------------------------------------------
(* Time. *)

\* START_GRACE_SECONDS pass since the claim or the trigger
RequestAges(rev) ==
    /\ rev = head   \* of an earlier revision nobody reads it
    /\ request[rev].trigger \in {"claimed", "triggered"} /\ ~request[rev].aged
    /\ request' = [request EXCEPT ![rev].aged = TRUE]
    /\ UNCHANGED <<capture, caller, execution>>

\* the supervisor stops beating: its process died, or it stalled
LeaseRunsOut(a) ==
    /\ capture[a].lease = "live" /\ capture[a].status \notin TERMINAL_STATES
    /\ capture' = [capture EXCEPT ![a].lease = "expired"]
    /\ UNCHANGED <<request, caller, execution>>

LeaseAges(a) ==
    /\ capture[a].lease = "expired" /\ capture[a].status \notin TERMINAL_STATES
    /\ capture' = [capture EXCEPT ![a].lease = "aged"]
    /\ UNCHANGED <<request, caller, execution>>

CallerSteps(c) ==
    \/ ClaimRequest(c) \/ CreateCaptureRun(c) \/ OwnLaunch(c) \/ BindRun(c)
    \/ Trigger(c) \/ RecordOutcome(c)
ExecutionSteps(x) ==
    \/ CheckEligible(x) \/ ClaimCapture(x) \/ ReadPreparedRevision(x)
    \/ CaptureUnits(x) \/ FinalizeCapture(x)
Clock ==
    \/ \E rev \in 1..MaxRevisions : RequestAges(rev)
    \/ \E a \in Attempts : LeaseRunsOut(a) \/ LeaseAges(a)

PrepNext ==
    \/ /\ UNCHANGED cut
       /\ \/ \E c \in Callers : AskToPrepare(c, head) \/ CallerSteps(c)
          \/ \E x \in Executions : ExecutionSteps(x)
          \/ \E a \in Attempts : CancelCapture(a)
          \/ Clock
    \/ \E x \in Executions : WriteQueue(x, MaxBatches)

----------------------------------------------------------------------------
(* Properties. *)

\* What the status offers is what the database does, in every state that slow,
\* dead and cancelled requests and captures reach: Prepare is offered exactly
\* when the claim is given, so nobody is told to retry what is refused, or to
\* wait for what nobody will finish (derive_status against
\* request_work_scope_preparation).
ViewAgreesWithDatabase ==
    \A rev \in 1..head :
        /\ CanPrepare(rev) <=> ClaimDecision(rev) = "claimed"
        /\ DerivedStatus(rev).state = "stale" <=> ClaimDecision(rev) = "stale"
        /\ DerivedStatus(rev).state = "prepared" <=> ClaimDecision(rev) = "prepared"

\* Nobody is left waiting: a status of preparing is followed by another one,
\* whichever process dies (START_GRACE_SECONDS).
PreparationAnswered == []<>(DerivedStatus(head).state # "preparing")

=============================================================================
