---------------------------- MODULE MappingPlan ----------------------------
(***************************************************************************)
(* A mapping plan (work scope) and the runs that work through its batches   *)
(* (catalog/scope/batches.py, service.py, the work scope migrations).  A    *)
(* plan has a head revision; preparing a revision cuts its queue into       *)
(* numbered batches; a person starts one batch at a time as a run.  Every   *)
(* write of the plan takes its row lock, so each database function is one   *)
(* step; what a request read before it and launches after it are others.    *)
(* The inside of a run's life is RunLifecycle's; here a run is what the     *)
(* plan's rules look at: its batch, its status and its launch state.        *)
(***************************************************************************)
EXTENDS RunStates, Integers, FiniteSets

CONSTANTS
    Editors,        \* requests to change the plan
    Clicks,         \* requests to start a batch, each with its idempotency key
    BatchRuns,      \* run ids, in the order they are created
    MaxRevisions,   \* bound: revisions of the plan
    MaxBatches,     \* bound: batches a preparation cuts
    MaxPauses       \* bound: entries of the control history

ASSUME MappingPlanConstants ==
    /\ IsFiniteSet(Clicks) /\ IsFiniteSet(Editors)
    /\ BatchRuns \subseteq Nat /\ IsFiniteSet(BatchRuns)
    /\ {MaxRevisions, MaxBatches} \subseteq Nat \ {0} /\ MaxPauses \in Nat
    \* "fresh" is a key no request has used yet
    /\ {"fresh", "nobody"} \cap Clicks = {}

VARIABLES
    head,       \* head_revision; a digest names the same thing
    edit,       \* each change: its place and the head it read
    controls,   \* how many pause and resume entries the plan has
    cut,        \* batches of each prepared revision, or NotPrepared
    run,        \* the bound runs
    click       \* each request: its place, what it names, the run answered

planVars == <<head, edit, controls, cut, run, click>>

NotPrepared == -1
NoRun == [batch |-> <<0, 0>>, by |-> "nobody", status |-> "none", launch |-> "none"]
Created == {r \in BatchRuns : run[r].status # "none"}
Batches(rev) == IF cut[rev] = NotPrepared THEN {} ELSE {<<rev, n>> : n \in 1..cut[rev]}

\* work_scope_paused: the latest control decides, and the first is a pause
Paused == controls % 2 = 1

SettledBy(r) == run[r].status \in {"completed", "partial_success"}
Settled(b) == \E r \in Created : run[r].batch = b /\ SettledBy(r)
Live == {r \in Created : run[r].status \notin TERMINAL_STATES}
Unlaunched(r) == run[r].status = "queued" /\ run[r].launch \in {"pending", "launch_failed"}

\* the lowest-numbered batch of the revision that is not settled
IsNext(b) ==
    /\ b \in Batches(b[1]) /\ ~Settled(b)
    /\ \A c \in Batches(b[1]) : c[2] < b[2] => Settled(c)

EditDone == [pc |-> "done", read |-> 0]
ClickDone == [pc |-> "done", batch |-> <<0, 0>>, run |-> 0]

PlanInit ==
    /\ head = 1 /\ controls = 0
    /\ edit = [e \in Editors |-> [pc |-> "idle", read |-> 0]]
    /\ cut = [v \in 1..MaxRevisions |-> NotPrepared]
    /\ run = [r \in BatchRuns |-> NoRun]
    /\ click = [q \in Clicks |-> [pc |-> "idle", batch |-> <<0, 0>>, run |-> 0]]

PlanTypeOK ==
    /\ head \in 1..MaxRevisions /\ controls \in 0..MaxPauses
    /\ edit \in [Editors -> [pc : {"idle", "resolved", "done"}, read : 0..MaxRevisions]]
    /\ cut \in [1..MaxRevisions -> {NotPrepared} \cup 0..MaxBatches]
    /\ \A r \in BatchRuns :
        /\ run[r].status \in RUN_STATES \cup {"none"}
        /\ run[r].launch \in LAUNCH_STATES \cup {"none"}
        /\ run[r].by \in Clicks \cup {"nobody"}
    /\ \A q \in Clicks : click[q].pc \in {"idle", "read", "launch", "lost", "done"}

----------------------------------------------------------------------------
(* The plan. *)

\* revise_work_scope before its write: the head the person saw must be the
\* head now, and the instruction is resolved against the stored plan; a change
\* that says what the plan says already ends here
ResolveRevision(e) ==
    /\ edit[e].pc = "idle"
    /\ \E after \in {[pc |-> "resolved", read |-> head], EditDone} :
            edit' = [edit EXCEPT ![e] = after]
    /\ UNCHANGED <<head, controls, cut, run, click>>

\* the database's compare and set: the head must still be the one resolved against
HeadUnmoved(e) == edit[e].read = head

WriteRevision(e) ==
    /\ edit[e].pc = "resolved"
    /\ edit' = [edit EXCEPT ![e] = EditDone]
    /\ IF HeadUnmoved(e)
       THEN /\ head < MaxRevisions
            /\ head' = head + 1
       ELSE UNCHANGED head
    /\ UNCHANGED <<controls, cut, run, click>>

\* set_work_scope_paused: asking for what already holds writes nothing
SetPaused ==
    /\ controls < MaxPauses
    /\ controls' = controls + 1
    /\ UNCHANGED <<head, edit, cut, run, click>>

\* prepare_work_scope_queue, once per revision and only for the head
PrepareQueue(n) ==
    /\ cut[head] = NotPrepared
    /\ cut' = [cut EXCEPT ![head] = n]
    /\ UNCHANGED <<head, edit, controls, run, click>>

----------------------------------------------------------------------------
(* Starting a batch. *)

\* _status: what the progress view says of the plan
PlanStatus ==
    CASE Live # {} -> "running"
      [] Live = {} /\ cut[head] = NotPrepared -> "not_prepared"
      [] Live = {} /\ cut[head] = 0 -> "nothing_queued"
      [] Live = {} /\ cut[head] > 0 /\ ~(\E b \in Batches(head) : IsNext(b)) -> "complete"
      [] OTHER -> "ready"

\* _start_blocker, with every stage switched on: nothing blocks a start
Startable == ~Paused /\ PlanStatus = "ready"

\* Relaunchable: a bug that offers the run of an earlier revision
RelaunchableAnyRevision(r) == Unlaunched(r)

\* _controls: the live run was never launched, and pressing start launches it
Relaunchable(r) == Unlaunched(r) /\ run[r].batch[1] = head /\ ~Paused

\* the batch the view offers to start
Offered(b) ==
    \/ \E r \in Live : run[r].batch = b /\ Relaunchable(r)
    \/ Startable /\ b[1] = head /\ IsNext(b)

\* batch_request: the head and the progress as they are now; the batch named
\* must be the live one or the next.  A repeated request names what it named.
BatchRequest(q, b) ==
    /\ click[q].pc \in {"idle", "lost"}
    /\ click[q].pc = "lost" => click[q].batch = b
    /\ b[1] = head
    /\ IsNext(b) \/ \E r \in Live : run[r].batch = b
    /\ click' = [click EXCEPT ![q] = [@ EXCEPT !.pc = "read", !.batch = b]]
    /\ UNCHANGED <<head, edit, controls, cut, run>>

\* Decision: a bug that looks for a live run of the named batch only
DecisionPerBatch(q, b) ==
    IF {r \in Created : run[r].by = q} # {} THEN "replayed"
    ELSE IF b[1] # head \/ Paused THEN "refused"
    ELSE IF \E r \in Live : run[r].batch = b THEN "running"
    ELSE "created"

\* what create_work_scope_batch_run answers key q for batch b
Decision(q, b) ==
    LET mine == {r \in Created : run[r].by = q}
    IN  IF mine # {}
        THEN IF \E r \in mine : Unlaunched(r) /\ (run[r].batch[1] # head \/ Paused)
             THEN "refused" ELSE "replayed"
        ELSE IF b[1] # head \/ Paused THEN "refused"
        ELSE IF \E r \in Live : run[r].batch = b THEN "running"
        ELSE IF Live # {} \/ ~IsNext(b) THEN "refused"
        ELSE "created"

\* create_work_scope_batch_run with bind_work_scope_batch_run: the run and its
\* binding in one transaction
CreateBatchRun(q) ==
    LET b == click[q].batch
        fresh == CHOOSE r \in BatchRuns \ Created : \A s \in BatchRuns \ Created : r <= s
    IN  /\ click[q].pc = "read"
        /\ CASE Decision(q, b) = "refused" ->
                    click' = [click EXCEPT ![q] = ClickDone] /\ UNCHANGED run
             [] Decision(q, b) = "created" ->
                    /\ Created # BatchRuns
                    /\ run' = [run EXCEPT ![fresh] =
                        [batch |-> b, by |-> q, status |-> "queued", launch |-> "pending"]]
                    /\ click' = [click EXCEPT ![q] = [@ EXCEPT !.pc = "launch", !.run = fresh]]
             [] OTHER ->
                    /\ \E r \in Created :
                        /\ IF Decision(q, b) = "replayed" THEN run[r].by = q
                           ELSE r \in Live /\ run[r].batch = b
                        /\ click' = [click EXCEPT ![q] = [@ EXCEPT !.pc = "launch", !.run = r]]
                    /\ UNCHANGED run
        /\ UNCHANGED <<head, edit, controls, cut>>

\* _launch_created_run: the compare and set on the launch state decides which
\* of two requests launches, whatever the plan has become in the meantime
LaunchBatchRun(q) ==
    /\ click[q].pc = "launch"
    /\ IF Unlaunched(click[q].run)
       THEN \E answer \in {"launched", "launch_failed", "launch_unknown", "launching"} :
                run' = [run EXCEPT ![click[q].run].launch = answer]
       ELSE UNCHANGED run
    /\ click' = [click EXCEPT ![q] = ClickDone]
    /\ UNCHANGED <<head, edit, controls, cut>>

\* the API process dies, or its answer is lost: the client sends the same
\* request with the same key again
ClickLost(q) ==
    /\ click[q].pc \in {"read", "launch"}
    /\ click' = [click EXCEPT ![q].pc = "lost"]
    /\ UNCHANGED <<head, edit, controls, cut, run>>

----------------------------------------------------------------------------
(* What the run lifecycle and the operator do to a bound run. *)

BatchRunStarts(r) ==
    /\ run[r].status = "queued" /\ run[r].launch \in {"launched", "launching", "launch_unknown"}
    /\ run' = [run EXCEPT ![r].status = "running"]
    /\ UNCHANGED <<head, edit, controls, cut, click>>

\* the worker's terminal status; a cancelled or failed run leaves its batch open
BatchRunEnds(r, status) ==
    /\ run[r].status = "running"
    /\ run' = [run EXCEPT ![r].status = status]
    /\ UNCHANGED <<head, edit, controls, cut, click>>

\* reconcile_lost_launch and reconcile-launch-unknown.sh
ReconcileBatchRun(r) ==
    /\ run[r].status = "queued" /\ run[r].launch \in {"launching", "launch_unknown"}
    /\ \E answer \in {"launched", "launch_failed"} : run' = [run EXCEPT ![r].launch = answer]
    /\ UNCHANGED <<head, edit, controls, cut, click>>

\* retire_unlaunched_run: the way out for a run whose plan moved on
RetireBatchRun(r) ==
    /\ Unlaunched(r)
    /\ run' = [run EXCEPT ![r].status = "cancelled"]
    /\ UNCHANGED <<head, edit, controls, cut, click>>

PlanNext ==
    \/ \E e \in Editors : ResolveRevision(e) \/ WriteRevision(e)
    \/ SetPaused \/ \E n \in 0..MaxBatches : PrepareQueue(n)
    \/ \E q \in Clicks :
        \/ \E n \in 1..MaxBatches : BatchRequest(q, <<head, n>>)
        \/ CreateBatchRun(q) \/ LaunchBatchRun(q) \/ ClickLost(q)
    \/ \E r \in BatchRuns :
        \/ BatchRunStarts(r) \/ ReconcileBatchRun(r) \/ RetireBatchRun(r)
        \/ \E status \in {"completed", "partial_success", "failed"} : BatchRunEnds(r, status)

----------------------------------------------------------------------------
(* Properties. *)

\* Batches are worked through one at a time, in order, and each is settled
\* once, whatever the plan's revisions and requests do: a run is only
\* ever bound to a batch whose predecessors are settled, so a crash, a lost
\* answer or a retried key neither skips nor repeats paid work.
BatchesInOrder ==
    /\ Cardinality(Live) <= 1
    /\ \A r \in Created : \A c \in Batches(run[r].batch[1]) :
            c[2] < run[r].batch[2] => Settled(c)
    /\ \A r, s \in Created :
            SettledBy(r) /\ SettledBy(s) /\ run[r].batch = run[s].batch => r = s

\* What the progress view offers is what the database accepts: pressing the
\* offered button with a new key creates the run or launches the one that was
\* never launched, and a batch not offered starts nothing (_controls against
\* create_work_scope_batch_run).
OfferedIsAccepted ==
    \A b \in UNION {Batches(v) : v \in 1..head} :
        LET answer == Decision("fresh", b)
            starts == \/ answer = "created"
                      \/ answer = "running" /\ \E r \in Live : run[r].batch = b /\ Unlaunched(r)
        IN  Offered(b) <=> starts

=============================================================================
