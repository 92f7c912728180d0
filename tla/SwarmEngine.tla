---------------------------- MODULE SwarmEngine ----------------------------
(***************************************************************************)
(* One Swarm V2 run (backend/engines/swarm_v2): the Commander plans a task  *)
(* graph, an executor works through it with a pool of workers, the evidence *)
(* is assessed, the Commander may replan, a verifier settles a verdict for  *)
(* every claim, one correction round may follow, and a result is built.     *)
(* The state is checkpointed after every durable step, consumption is       *)
(* charged to the usage ledger before it, and the worker process may die    *)
(* between any two of them and be resumed from the last checkpoint.         *)
(*                                                                          *)
(* A task's research yields at most one claim, so claims are named by their *)
(* task.  What a claim says, and what its source can show for it, are       *)
(* constants; what a task, the Commander and the verifier answer is chosen. *)
(***************************************************************************)
EXTENDS Integers, FiniteSets

CONSTANTS
    Tasks,          \* the tasks a plan may hold, numbered in task id order
    InitialPlan,    \* the Commander's first plan
    DependsOn,      \* [Tasks -> SUBSET Tasks]
    AllowPartial,   \* tasks whose completion contract allows a partial answer
    Yields,         \* what research on each task may turn up: see Findings
    Scope, Value,   \* what each claim is about and what it states
    Grounding,      \* what its source shows: see Groundings
    Authoritative,  \* claims whose source is authoritative for their field
    BatchSize,      \* claims per verifier request
    WorkerCalls,    \* bound: how many model calls a worker's task may take
    MaxActive,      \* MILO_SWARM_MAX_ACTIVE_WORKERS
    MaxReplans,     \* the plan's max_replans
    MaxTasks,       \* reviewed ceiling on executed tasks
    MaxCalls,       \* the run's model-call ceiling
    MaxCrashes      \* bound: how often the worker process may die

Findings == {"evidence", "thin", "soft", "gap"}
Groundings == {"unsupported", "match", "mismatch", "absent", "text"}

ASSUME SwarmConstants ==
    /\ Tasks \subseteq Nat /\ IsFiniteSet(Tasks)
    /\ InitialPlan \subseteq Tasks /\ InitialPlan # {}
    /\ DependsOn \in [Tasks -> SUBSET Tasks]
    /\ \A t \in Tasks : \A d \in DependsOn[t] : d < t
    /\ \A t \in InitialPlan : DependsOn[t] \subseteq InitialPlan
    /\ AllowPartial \subseteq Tasks /\ Authoritative \subseteq Tasks
    /\ WorkerCalls \subseteq 0..2
    /\ Yields \in [Tasks -> SUBSET Findings]
    /\ DOMAIN Scope = Tasks /\ DOMAIN Value = Tasks
    /\ Grounding \in [Tasks -> Groundings]
    /\ {BatchSize, MaxActive, MaxTasks} \subseteq Nat \ {0}
    /\ {MaxReplans, MaxCalls, MaxCrashes} \subseteq Nat

VARIABLES
    pc,       \* where the engine's main thread is
    st,       \* its SwarmState in memory
    ck,       \* the last checkpoint written, or NoCheckpoint
    ledger,   \* the durable usage ledger
    task,     \* the executor's view of each task in this pass
    blind,    \* detection steps that failed in this pass
    after,    \* where the main thread goes once the checkpoint is written
    out,      \* how the run ended
    crashes

vars == <<pc, st, ck, ledger, task, blind, after, out, crashes>>

Verdicts == {"none", "verified", "conflict", "superseded", "unsupported", "unestablished"}
TaskStates == {"absent", "waiting", "running", "failed", "blocked", "completed"} \cup Findings
DegradedCodes == {"CONFLICT_DETECTION_FAILED", "COVERAGE_CHECK_FAILED", "VERIFIER_FAILED",
                  "VERIFICATION_BUDGET_INSUFFICIENT", "FINAL_BUILD_DEGRADED"}
Outcomes == {"none", "complete", "partial", "no_result", "failed", "budget_stopped", "cancelled"}
MaxCorrectionRounds == 1
MinCorrectionCalls == 3
MinViableCalls == 4

NoState == [plan |-> {}, rev |-> 0, found |-> [t \in Tasks |-> "none"], replans |-> 0,
            rejected |-> {}, rounds |-> 0, declined |-> FALSE, correctionRejected |-> FALSE,
            verdict |-> [t \in Tasks |-> "none"], degraded |-> {}]
NoCheckpoint == NoState

----------------------------------------------------------------------------
(* What the state says. *)

Done(s) == {t \in Tasks : s.found[t] # "none"}

\* the evidence references merged into the state: claims of completed tasks
Evidence(s) == {t \in Tasks : s.found[t] \in {"evidence", "thin"}}

\* conflict_groups: claims about one scope that do not all state one value
ConflictClaims(claims) ==
    {c \in claims : \E d \in claims : Scope[d] = Scope[c] /\ Value[d] # Value[c]}

RivalsOf(c, claims) == {d \in claims : Scope[d] = Scope[c]}

\* the conflicts and gaps this pass knows of
Conflicts == IF "conflict" \in blind THEN {} ELSE ConflictClaims(Evidence(st))
Gaps == IF "coverage" \in blind THEN {}
        ELSE {t \in st.plan : st.found[t] \in {"thin", "soft", "gap"}}
HardGaps == {t \in Gaps \ AllowPartial : st.found[t] # "soft"}
Failed == {t \in Tasks : task[t] \in {"failed", "blocked"}}
Issues == Failed \cup Gaps \cup Conflicts

CallsLeft == MaxCalls - ledger.calls
TasksLeft == IF ledger.tasks >= MaxTasks THEN 0 ELSE MaxTasks - ledger.tasks

\* plan_worst_case: a worker call and its repair per task, one decision more
\* than the replans, one verifier batch, the correction round, one plan repair
WorstCase(pending) == 2 * pending + (MaxReplans + 1) + 1 + MinCorrectionCalls + 1

\* _check_feasible, with the calls left once the decision itself is paid for
Feasible(plan, calls) ==
    LET pending == Cardinality(plan \ Done(st))
    IN  pending <= TasksLeft /\ WorstCase(pending) <= calls

\* correction_path_closed, or the one round was put to the Commander and its
\* answer rejected
CorrectionClosed(s) ==
    s.rounds >= MaxCorrectionRounds \/ s.declined \/ s.correctionRejected

CorrectionAllowed ==
    /\ st.rounds < MaxCorrectionRounds
    /\ TasksLeft >= 1
    /\ CallsLeft >= MinCorrectionCalls
    /\ st.replans < MaxReplans

----------------------------------------------------------------------------
(* Verification. *)

Decisive(claims) == {c \in claims : Grounding[c] = "match" /\ c \in Authoritative}

\* ConflictVerdict: a bug that leaves an undecided conflict to the model
ConflictVerdictOpen(c, claims) ==
    LET winning == {Value[d] : d \in Decisive(RivalsOf(c, claims))}
    IN  IF winning = {} \/ Value[c] \in winning THEN "none" ELSE "superseded"

\* resolve_conflict_group: what the policy makes of a contested claim
ConflictVerdict(c, claims) ==
    LET decisive == Decisive(RivalsOf(c, claims))
        winning == {Value[d] : d \in decisive}
    IN  IF Cardinality(winning) # 1 THEN "conflict"
        ELSE IF Value[c] \in winning THEN "none" ELSE "superseded"

\* _deterministic_verdicts and _resumed_verdicts: what needs no new look
Resumed(contested) ==
    [c \in Tasks |->
        IF c \notin Evidence(st) THEN "none"
        ELSE IF Grounding[c] = "unsupported" THEN "unsupported"
        ELSE IF st.verdict[c] \in {"conflict", "superseded"} \/ c \in contested THEN "none"
        ELSE st.verdict[c]]

\* plan_grounded_verification: the verdicts deterministic code settles
Settled(contested) ==
    LET resumed == Resumed(contested)
        policy(c) == IF c \in contested /\ Grounding[c] # "unsupported"
                     THEN ConflictVerdict(c, contested) ELSE "none"
    IN  [c \in Tasks |->
            IF c \notin Evidence(st) \/ resumed[c] # "none" THEN resumed[c]
            ELSE IF policy(c) # "none" THEN policy(c)
            ELSE CASE Grounding[c] = "match" -> "verified"
                   [] Grounding[c] \in {"mismatch", "absent"} -> "unestablished"
                   [] OTHER -> "none"]

\* the claims left for the model, a batch at a time in claim order
Candidates(verdict) == {c \in Evidence(st) : verdict[c] = "none"}
FirstBatch(claims) == {c \in claims : Cardinality({d \in claims : d < c}) < BatchSize}
Batches(claims) == (Cardinality(claims) + BatchSize - 1) \div BatchSize

\* correction_issues: verdicts the correction round could do something about
CorrectionIssues == {c \in Evidence(st) : st.verdict[c] \in {"conflict", "unestablished"}}

VerificationDegraded(s) ==
    \E code \in {"VERIFIER_FAILED", "VERIFICATION_BUDGET_INSUFFICIENT"} :
        <<code, s.rev>> \in s.degraded

----------------------------------------------------------------------------
TypeOK ==
    /\ pc \in {"start", "feasible", "execute", "assess", "decide", "judge", "verify", "batch",
               "correct", "finalize", "save", "ended"}
    /\ after \in {"feasible", "execute", "judge", "batch", "correct", "finalize"}
    /\ DOMAIN st = DOMAIN NoState /\ DOMAIN ck = DOMAIN NoState
    /\ \A s \in {st, ck} :
        /\ s.plan \subseteq Tasks /\ s.rev \in 0..(MaxReplans + 1)
        /\ s.found \in [Tasks -> Findings \cup {"none"}]
        /\ s.verdict \in [Tasks -> Verdicts]
        /\ s.replans \in Nat /\ s.rounds \in 0..MaxCorrectionRounds
        /\ s.rejected \subseteq 1..(MaxReplans + 1)
        /\ {s.declined, s.correctionRejected} \subseteq BOOLEAN
        /\ s.degraded \subseteq DegradedCodes \X (1..(MaxReplans + 1))
    /\ ledger \in [calls : 0..MaxCalls, tasks : Nat, replans : Nat, rounds : Nat]
    /\ task \in [Tasks -> TaskStates]
    /\ blind \subseteq {"conflict", "coverage"}
    /\ out \in Outcomes /\ crashes \in 0..MaxCrashes

Init ==
    /\ pc = "start" /\ after = "execute"
    /\ st = NoState /\ ck = NoCheckpoint
    /\ ledger = [calls |-> 0, tasks |-> 0, replans |-> 0, rounds |-> 0]
    /\ task = [t \in Tasks |-> "absent"]
    /\ blind = {} /\ out = "none" /\ crashes = 0

----------------------------------------------------------------------------
(* Ends, charges and checkpoints. *)

End(outcome) == pc' = "ended" /\ out' = outcome

\* the checkpoint is written as a step of its own: everything charged to the
\* ledger before it is durable whether or not it is reached
SaveThen(next) == pc' = "save" /\ after' = next

Save ==
    /\ pc = "save"
    /\ ck' = st /\ pc' = after
    /\ UNCHANGED <<st, ledger, task, blind, after, out, crashes>>

\* a model call past the run's ceiling raises BudgetExceeded, which is never
\* degraded: it unwinds the engine from wherever it was asked for, be it a
\* first call or the one repair of a worker's or the verifier's answer
BudgetStop ==
    /\ pc # "ended"
    /\ \/ /\ pc = "decide" /\ CallsLeft = 0
          /\ ~CorrectionClosed(st) /\ st.rev \notin st.rejected
       \/ CallsLeft <= 1 /\ (pc = "batch" \/ \E t \in Tasks : task[t] = "running")
    /\ ledger' = [ledger EXCEPT !.calls = MaxCalls]
    /\ End("budget_stopped")
    /\ UNCHANGED <<st, ck, task, blind, after, crashes>>

\* the executor and the workers poll for a cancellation request
Cancel ==
    /\ pc = "execute"
    /\ End("cancelled")
    /\ UNCHANGED <<st, ck, ledger, task, blind, after, crashes>>

\* Pass: a bug that restarts the tasks a resumed run completed
PassRestarts(plan) ==
    [t \in Tasks |-> IF t \notin plan THEN "absent" ELSE "waiting"]

\* the executor starts a pass: completed tasks keep their results, every
\* other task of the plan is run, whatever it did in an earlier pass
Pass(plan) ==
    [t \in Tasks |-> IF t \notin plan THEN "absent"
                     ELSE IF t \in Done(st) THEN "completed" ELSE "waiting"]

----------------------------------------------------------------------------
(* Planning, resuming and executing. *)

\* envelope_supports_a_run, then Commander.plan: one call, and one repair of
\* a plan that does not validate
Plan ==
    /\ pc = "start" /\ ck = NoCheckpoint
    /\ IF CallsLeft < MinViableCalls
       THEN End("failed") /\ UNCHANGED <<st, ledger, after>>
       ELSE \E calls \in 1..2, valid \in BOOLEAN :
            /\ ledger' = [ledger EXCEPT !.calls = @ + calls]
            /\ IF valid
               THEN /\ st' = [NoState EXCEPT !.plan = InitialPlan, !.rev = 1]
                    /\ SaveThen("feasible") /\ UNCHANGED out
               ELSE End("failed") /\ UNCHANGED <<st, after>>
    /\ UNCHANGED <<ck, task, blind, crashes>>

\* a relaunched worker hands the engine the latest checkpoint
Resume ==
    /\ pc = "start" /\ ck # NoCheckpoint
    /\ st' = ck /\ pc' = "feasible"
    /\ UNCHANGED <<ck, ledger, task, blind, after, out, crashes>>

\* the plan, fresh or resumed, must fit what the restored ledger leaves
CheckFeasible ==
    /\ pc = "feasible"
    /\ IF Feasible(st.plan, CallsLeft)
       THEN task' = Pass(st.plan) /\ pc' = "execute" /\ UNCHANGED out
       ELSE End("failed") /\ UNCHANGED task
    /\ UNCHANGED <<st, ck, ledger, blind, after, crashes>>

StartTask(t) ==
    /\ pc = "execute" /\ task[t] = "waiting"
    /\ \A d \in DependsOn[t] : task[d] = "completed"
    /\ Cardinality({u \in Tasks : task[u] = "running"}) < MaxActive
    /\ task' = [task EXCEPT ![t] = "running"]
    /\ UNCHANGED <<pc, st, ck, ledger, blind, after, out, crashes>>

\* GenericWorker.execute in a pool thread: tool calls, then at most two model
\* calls; every failure of the task itself becomes a failed result
TaskAnswers(t, answer, calls) ==
    /\ task[t] = "running" /\ pc # "ended"
    /\ calls <= CallsLeft
    /\ answer = "failed" \/ (answer \in Yields[t] /\ calls > 0)
    /\ task' = [task EXCEPT ![t] = answer]
    /\ ledger' = [ledger EXCEPT !.calls = @ + calls]
    /\ UNCHANGED <<pc, st, ck, blind, after, out, crashes>>

\* BlockTask: a bug that blocks a task only on failed dependencies
BlockTaskFailed(t) ==
    /\ pc = "execute" /\ task[t] = "waiting" /\ DependsOn[t] # {}
    /\ \A d \in DependsOn[t] : task[d] = "blocked"
    /\ task' = [task EXCEPT ![t] = "blocked"]
    /\ UNCHANGED <<pc, st, ck, ledger, blind, after, out, crashes>>


BlockTask(t) ==
    /\ pc = "execute" /\ task[t] = "waiting"
    /\ \A d \in DependsOn[t] : task[d] \in {"completed", "failed", "blocked"}
    /\ \E d \in DependsOn[t] : task[d] # "completed"
    /\ task' = [task EXCEPT ![t] = "blocked"]
    /\ UNCHANGED <<pc, st, ck, ledger, blind, after, out, crashes>>

\* persist: the result enters the state, the ledger is charged, and result,
\* evidence and usage become durable with the checkpoint
PersistResult(t) ==
    /\ pc = "execute" /\ task[t] \in Findings
    /\ st' = [st EXCEPT !.found[t] = task[t]]
    /\ task' = [task EXCEPT ![t] = "completed"]
    /\ ledger' = [ledger EXCEPT !.tasks = @ + 1]
    /\ SaveThen("execute")
    /\ UNCHANGED <<ck, blind, out, crashes>>

\* execute returns once nothing is waiting or running; failed tasks are then
\* charged, blocked ones never ran
ExecutionEnds ==
    /\ pc = "execute"
    /\ \A t \in Tasks : task[t] \in {"absent", "completed", "failed", "blocked"}
    /\ ledger' = [ledger EXCEPT !.tasks =
                    @ + Cardinality({t \in Tasks : task[t] = "failed"})]
    /\ pc' = "assess" /\ blind' = {}
    /\ UNCHANGED <<st, ck, task, after, out, crashes>>

Degrade(s, codes) == [s EXCEPT !.degraded = @ \cup (codes \X {s.rev})]

\* conflict and coverage detection may fail: degraded when there is evidence
Assess ==
    /\ pc = "assess"
    /\ \E failing \in SUBSET {"conflict", "coverage"} :
        IF failing # {} /\ Evidence(st) = {}
        THEN End("failed") /\ UNCHANGED <<st, blind>>
        ELSE /\ blind' = failing /\ pc' = "decide" /\ UNCHANGED out
             /\ st' = Degrade(st,
                    (IF "conflict" \in failing THEN {"CONFLICT_DETECTION_FAILED"} ELSE {})
                    \cup (IF "coverage" \in failing THEN {"COVERAGE_CHECK_FAILED"} ELSE {}))
    /\ UNCHANGED <<ck, ledger, task, after, crashes>>

----------------------------------------------------------------------------
(* The Commander's decision before verification. *)

\* plans the validator accepts: every dependency is in the graph
ValidPlans == {p \in SUBSET Tasks : p # {} /\ \A t \in p : DependsOn[t] \subseteq p}

\* MayDecide: a bug that asks the Commander in every pass
MayDecideAlways == pc = "decide" /\ CallsLeft > 0

MayDecide ==
    /\ pc = "decide" /\ CallsLeft > 0
    /\ ~CorrectionClosed(st) /\ st.rev \notin st.rejected

MayCorrect ==
    /\ pc = "correct" /\ CallsLeft > 0
    /\ ~st.declined /\ ~st.correctionRejected
    /\ CorrectionIssues # {} /\ CorrectionAllowed

\* _replan_refusal: a plan that drops or rewrites completed work, or that the
\* remaining budget cannot carry
Refused(plan) == ~(Done(st) \subseteq plan) \/ ~Feasible(plan, CallsLeft - 1)

\* an answer that cannot be used: recorded, charged as a replan and saved when
\* the run has evidence to finish with, the end of the run when it has none
RejectReplan(next, correction) ==
    IF Evidence(st) = {}
    THEN /\ End("failed") /\ UNCHANGED <<st, after>>
         /\ ledger' = [ledger EXCEPT !.calls = @ + 1]
    ELSE /\ st' = [st EXCEPT !.replans = @ + 1,
                             !.rejected = IF correction THEN @ ELSE @ \cup {st.rev},
                             !.correctionRejected = @ \/ correction]
         /\ ledger' = [ledger EXCEPT !.calls = @ + 1, !.replans = @ + 1]
         /\ SaveThen(next) /\ UNCHANGED out

AcceptReplan(plan, correction) ==
    /\ st' = [st EXCEPT !.plan = plan, !.rev = @ + 1, !.replans = @ + 1,
                        !.rounds = IF correction THEN @ + 1 ELSE @]
    /\ ledger' = [ledger EXCEPT !.calls = @ + 1, !.replans = @ + 1,
                                !.rounds = IF correction THEN @ + 1 ELSE @]
    /\ task' = Pass(plan)
    /\ SaveThen("execute") /\ UNCHANGED out

\* the correction round had its answer, or this pass's replan was rejected
DecideClosed ==
    /\ pc = "decide" /\ (CorrectionClosed(st) \/ st.rev \in st.rejected)
    /\ pc' = "judge"
    /\ UNCHANGED <<st, ck, ledger, task, blind, after, out, crashes>>

\* FINISH or REQUEST_VERIFICATION
DecideKeep ==
    /\ MayDecide
    /\ ledger' = [ledger EXCEPT !.calls = @ + 1]
    /\ pc' = "judge"
    /\ UNCHANGED <<st, ck, task, blind, after, out, crashes>>

\* ADD_TASKS or REVISE_TASK
DecideReplan(plan) ==
    /\ MayDecide
    /\ IF Issues = {} \/ st.replans >= MaxReplans \/ Refused(plan)
       THEN RejectReplan("judge", FALSE) /\ UNCHANGED task
       ELSE AcceptReplan(plan, FALSE)
    /\ UNCHANGED <<ck, blind, crashes>>

\* an undecodable decision or an invalid plan (REJECTABLE_REPLAN_CODES)
DecideInvalid ==
    /\ MayDecide
    /\ RejectReplan("judge", FALSE)
    /\ UNCHANGED <<ck, task, blind, crashes>>

\* any other failure of the completion is not rejectable
CommanderFails ==
    /\ MayDecide \/ MayCorrect
    /\ ledger' = [ledger EXCEPT !.calls = @ + 1]
    /\ End("failed")
    /\ UNCHANGED <<st, ck, task, blind, after, crashes>>

\* a required task failed, or a hard gap remains: fatal only without evidence
Judge ==
    /\ pc = "judge"
    /\ IF (Failed \ AllowPartial) \cup HardGaps # {} /\ Evidence(st) = {}
       THEN End("failed") ELSE pc' = "verify" /\ UNCHANGED out
    /\ UNCHANGED <<st, ck, ledger, task, blind, after, crashes>>

----------------------------------------------------------------------------
(* Verification, correction and the result. *)

DegradeVerification(code) ==
    /\ st' = Degrade(st, {code})
    /\ SaveThen("finalize")

\* already degraded for this graph revision: the settled verdicts stand
VerifySkipped ==
    /\ pc = "verify" /\ VerificationDegraded(st)
    /\ pc' = "finalize"
    /\ UNCHANGED <<st, ck, ledger, task, blind, after, out, crashes>>

\* Verifier.prepare: deterministic verdicts first, and the budget must carry
\* one call per batch
VerifyPrepare ==
    /\ pc = "verify" /\ ~VerificationDegraded(st)
    /\ LET settled == Settled(Conflicts)
           open == Candidates(settled)
       IN  IF Batches(open) > CallsLeft
           THEN DegradeVerification("VERIFICATION_BUDGET_INSUFFICIENT")
           ELSE /\ st' = [st EXCEPT !.verdict = settled]
                /\ SaveThen(IF open = {} THEN "correct" ELSE "batch")
    /\ UNCHANGED <<ck, ledger, task, blind, out, crashes>>

\* the evidence resolver, the comparison or the batching fails
VerifyPrepareFails ==
    /\ pc = "verify" /\ ~VerificationDegraded(st) /\ Evidence(st) # {}
    /\ DegradeVerification("VERIFIER_FAILED")
    /\ UNCHANGED <<ck, ledger, task, blind, out, crashes>>

\* one request and at most one repair of a truncated answer; every claim of
\* the batch gets the verdict the model gives it, or is rejected because the
\* model left it out
VerifyBatch(calls) ==
    /\ pc = "batch" /\ calls <= CallsLeft
    /\ LET open == Candidates(st.verdict)
           batch == FirstBatch(open)
       IN  \E yes \in SUBSET batch :
            /\ st' = [st EXCEPT !.verdict =
                        [c \in Tasks |-> IF c \notin batch THEN @[c]
                                         ELSE IF c \in yes THEN "verified" ELSE "unestablished"]]
            /\ SaveThen(IF batch = open THEN "correct" ELSE "batch")
    /\ ledger' = [ledger EXCEPT !.calls = @ + calls]
    /\ UNCHANGED <<ck, task, blind, out, crashes>>

\* a malformed answer: earlier batches keep their verdicts
VerifyBatchFails(calls) ==
    /\ pc = "batch" /\ calls <= CallsLeft
    /\ DegradeVerification("VERIFIER_FAILED")
    /\ ledger' = [ledger EXCEPT !.calls = @ + calls]
    /\ UNCHANGED <<ck, task, blind, out, crashes>>

\* nothing to correct, no allowance, or the Commander already answered
CorrectSkipped ==
    /\ pc = "correct"
    /\ \/ st.declined \/ st.correctionRejected
       \/ CorrectionIssues = {} \/ ~CorrectionAllowed
    /\ pc' = "finalize"
    /\ UNCHANGED <<st, ck, ledger, task, blind, after, out, crashes>>

CorrectDeclined ==
    /\ MayCorrect
    /\ st' = [st EXCEPT !.declined = TRUE]
    /\ ledger' = [ledger EXCEPT !.calls = @ + 1]
    /\ SaveThen("finalize")
    /\ UNCHANGED <<ck, task, blind, out, crashes>>

CorrectReplan(plan) ==
    /\ MayCorrect
    /\ IF Refused(plan) THEN RejectReplan("finalize", TRUE) /\ UNCHANGED task
       ELSE AcceptReplan(plan, TRUE)
    /\ UNCHANGED <<ck, blind, crashes>>

CorrectInvalid ==
    /\ MayCorrect
    /\ RejectReplan("finalize", TRUE)
    /\ UNCHANGED <<ck, task, blind, crashes>>

\* what FinalResultBuilder shows as fields
Shown == {c \in Evidence(st) : st.verdict[c] = "verified"}

\* Blocking: a bug that asks only for the open issues of the last pass
BlockingIssues(s) == Issues # {}

\* everything finalize_product_outcome takes for a review item
Blocking(s) ==
    \/ Issues # {} \/ s.degraded # {} \/ s.rejected # {} \/ s.correctionRejected
    \/ \E c \in Evidence(s) : s.verdict[c] \notin {"verified", "none"}

DecideOutcome(usable, blocking) ==
    IF ~usable THEN "no_result" ELSE IF blocking THEN "partial" ELSE "complete"

\* _finalize: the build is tried, tried again without the candidate outcomes,
\* and as a last resort the result holds only static review items
Finalize ==
    /\ pc = "finalize"
    /\ \/ st' = st /\ End(DecideOutcome(Shown # {}, Blocking(st)))
       \/ /\ Evidence(st) # {}
          /\ st' = Degrade(st, {"FINAL_BUILD_DEGRADED"})
          /\ \E built \in BOOLEAN : End(DecideOutcome(built /\ Shown # {}, TRUE))
       \/ Evidence(st) = {} /\ st' = st /\ End("failed")
    /\ UNCHANGED <<ck, ledger, task, blind, after, crashes>>

----------------------------------------------------------------------------
\* the worker process dies: everything but the checkpoint and the ledger is
\* lost, and the relaunched worker starts from them
Crash ==
    /\ pc # "ended" /\ crashes < MaxCrashes
    /\ crashes' = crashes + 1
    /\ pc' = "start" /\ after' = "execute"
    /\ st' = NoState /\ blind' = {}
    /\ task' = [t \in Tasks |-> "absent"]
    /\ UNCHANGED <<ck, ledger, out>>

EngineStep ==
    \/ Plan \/ Resume \/ CheckFeasible \/ Save \/ BudgetStop
    \/ \E t \in Tasks : StartTask(t) \/ BlockTask(t) \/ PersistResult(t)
    \/ \E t \in Tasks, answer \in Findings \cup {"failed"}, calls \in WorkerCalls :
            TaskAnswers(t, answer, calls)
    \/ ExecutionEnds \/ Assess
    \/ DecideClosed \/ DecideKeep \/ DecideInvalid \/ CommanderFails
    \/ \E plan \in ValidPlans : DecideReplan(plan) \/ CorrectReplan(plan)
    \/ Judge \/ VerifySkipped \/ VerifyPrepare \/ VerifyPrepareFails
    \/ \E calls \in 1..2 : VerifyBatch(calls) \/ VerifyBatchFails(calls)
    \/ CorrectSkipped \/ CorrectDeclined \/ CorrectInvalid \/ Finalize

Next == EngineStep \/ Cancel \/ Crash

\* nothing but the worker process has to run for the engine to advance, and a
\* dead one is relaunched
Spec == Init /\ [][Next]_vars /\ WF_vars(EngineStep)

----------------------------------------------------------------------------
(* Properties. *)

\* Work that was paid for and checkpointed is never done twice: a task the
\* checkpoint holds as completed is not running again, in this pass, after a
\* replan or in a resumed attempt (executor.execute, SwarmState.resume).
CompletedNeverRunAgain == \A t \in Done(ck) : task[t] # "running"

\* Once a checkpoint holds the run's final answer about the verifier's
\* findings (round spent, declined or rejected), no attempt of the run asks
\* the Commander anything again (correction_path_closed).
CorrectionClosedForGood ==
    [][(pc \in {"decide", "correct"} /\ ledger' # ledger) => ~CorrectionClosed(ck)]_vars

\* "complete" is a promise: every planned task completed without a gap, every
\* claim verified and no two claims of one scope disagreeing, also those the
\* pass was blind to (finalize_product_outcome, decide_outcome).
CompleteMeansVerified ==
    out = "complete" =>
        /\ st.plan \subseteq Done(st)
        /\ \A t \in st.plan : st.found[t] = "evidence" /\ st.verdict[t] = "verified"
        /\ ConflictClaims(Evidence(st)) = {}

\* The fields shown never contradict each other, whatever was degraded or
\* resumed in between, unless the result reports that conflict detection
\* failed (plan_grounded_verification, _settled_verdicts, build).
ShownClaimsAgree ==
    out \in {"complete", "partial"}
        => \/ ConflictClaims(Shown) = {}
           \/ \E d \in st.degraded : d[1] = "CONFLICT_DETECTION_FAILED"

\* Every run ends, through any mix of failures, replans, degraded steps and
\* crashes (run's while loop, executor.execute's wait loop).
EngineTerminates == <>(out # "none")

=============================================================================
