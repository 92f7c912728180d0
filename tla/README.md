# A verification development of the Milo agent workspace

Milo runs research agents over a vehicle catalog. A user posts a message, the
API records a run and starts a Cloud Run job, a worker process claims the run,
calls paid models and searches under budgets and quotas, and leaves one terminal
status with the evidence that explains it. Everything durable is in Supabase
(Postgres); the organization-wide provider quotas are in Redis (Upstash).

The modules here describe the parts of that system where several processes,
threads and stores must agree. TLC checks them on small instances and TLAPS
proves the results listed in *Proofs* for every value of the constants. The
words of the modules are the words of the code: an action has the name of the
function, SQL routine or script step it stands for. `PROJECT.json` gives the
source lines of every definition.

## Inventory

| Component | State it keeps | Operations | What makes it correct |
|---|---|---|---|
| Run lifecycle (`main.py`, `runtime.py`, `worker/main.py`, `repository/supabase.py`, the run migrations) | the `runs` row: status, launch state, lease columns, attempt; `run_events`; `run_invocations` | launch, cancel, reconcile, requeue, retire, claim, heartbeat, enter running, finalize, exit | legal transitions, absorbing terminal status with exactly its evidence, one lease holder, exit 0 only when terminal, a started run settles |
| Finalization (`finalization.py`, `finalize_run_guarded`) | claims collected in a worker, one status read | claim, read, legalise, commit, decide once more, adopt | a decision taken on a stale status never lands; the strongest claim wins |
| Model-call budget (`budget.py`, `execution_usage.py`, budget migrations) | tracker totals and in-flight reservations in memory, reservation rows, usage record, ledger | open, answer, settle, release, restore | run and daily ceilings through concurrency, lost replies and deaths |
| Provider permits (`provider_quota.py`, `provider_scheduler.py`) | a semaphore per process, leases in Redis | acquire, settle, reclaim | the provider never works on more requests than the ceiling; every request returns |
| Provider windows (the same files) | RPM and TPM windows, search stamp, pauses in Redis | admit, pace, pause | rolling ceilings in real time although clock readings are stale and skewed |
| Provider authority, transport and streaming | a request's deadlines and assembled stream | run, assemble, classify | an outcome is proven finished only when it is |
| Standalone search (`standalone_search.py`) | searches invoked and charged | reserve, settle, execute | nothing is executed uncharged |
| Product outcome (`product_outcome.py`) | none | classify a finished run | no resume or late downgrade makes a run worth more than its document |
| Run identity | an immutable identity with the run row | stamp, verify | a worker executes only what it was created for |
| Swarm V2 engine (`engines/swarm_v2`) | plan, task results, evidence, verdicts, correction rounds; checkpoint and usage ledger | plan, execute, replan, verify, correct, finalize, resume | nothing checkpointed is paid again, "complete" means verified, the run ends |
| Vehicle Catalog V1 engine (`engines/vehicle_catalog_v1`) | agents' records, the verifier's document, verdict rows on the evidence board, checkpoints | discover, normalize, enrich, verify, persist and settle evidence, build, summarize, resume | what is called verified rests on current durable evidence; a resumed run is worth what it was |
| Government ingestion (`catalog/government`) | snapshots, their rows and readings, the activated ones | read version and pages, stage, adopt, activate, reuse; prepare a run's queue | an active snapshot is whole and is the version it says; a pending one can always be continued |
| Catalog pipeline, promotion, review, coverage (`catalog/*.py`) | paid-work claims, the coverage ledger, reviewed candidates, canonical variants | claim, settle, sweep, review, promote | a variant is paid for by one run at a time and once; no promotion is stranded |
| Work scope batches and preparation (`catalog/scope`) | scopes, revisions, pauses, preparation requests, batch bindings | revise, pause, prepare, start the next batch, relaunch, retire | one live batch, none skipped or repeated; what is offered is what the database does |
| Operator capture (`catalog/operator_capture.py`) | capture runs, their leases and artifacts | create, claim, heartbeat, finalize | a dead capture blocks nobody |
| Catalog register (`catalog/register`) | captures, archives, built variants, sync schedules | capture, archive, build, compact, sync, switch, tick | compaction loses no content and no row in use; one sync at a time, which in the end leaves nothing to capture |
| Tool registry, rate limit | grants and counters; per-user windows | call; admit | limits per run and per user |
| Authentication, supervisor, configuration, observability, schemas | none that others read | checks, one-shot proposals, logging | stateless |
| Frontend, deployment scripts, test doubles, archive | none of the server's | | outside the server's behaviour |

How they interact. The API writes the run row and calls Cloud Run; it never
talks to a worker. Workers, requests and operators meet only in the row, through
single statements or SQL functions that lock it. Inside a worker, the threads of
the engine share one `BudgetTracker` (a lock), which reserves in Postgres; the
authority opens a call there, and the scheduler then takes the process's
semaphore, a lease and the windows in Redis before it sends. The heartbeat
thread renews the run lease beside them.

What is hard. Requests racing on one row with read, decide, write in separate
statements; answers lost on the way back from the launcher, from Postgres and
from Redis; workers that die, or outlive their lease, at any statement and are
replaced under the same or the next attempt number; calls whose outcome nobody
knows; clocks that differ. In the catalog: a register that is republished while
it is read, captures that die half written, plans changed while they are
prepared, claims that pass from a dead run to a live one, and settlements that
come late. `PROJECT.json` lists each hazard at its line.

## Modules

### The run lifecycle

`RunStates` holds the vocabulary of `runtime.py` and the terminal events.
`RunContract` is the abstract specification: two variables, `status` and
`evidence`, and what a reader of the row may rely on. `RunLifecycle` is the
system: one run, its API requests, a user, an operator, and worker processes
(a *task try* is one process of a Cloud Run execution). Each action is one
statement or transaction; reading a row and writing it are two actions wherever
they are two statements in the code.

| State | In the code |
|---|---|
| `status`, `launchState` | `runs.status`, `runs.launch_state` |
| `workerId`, `attempt`, `leaseToken`, `lease` | the lease columns; `lease` is `lease_expires_at` against `now()` |
| `evidence` | terminal rows of `run_events` |
| `invoked`, `retired` | a row of `run_invocations`; `RUN_NOT_LAUNCHED` in `runs.error` |
| `req`, `cancelSeen` | program counters of API requests, the status a cancellation read |
| `pc`, `ctx`, `fin` | program counter, `lease_ctx` and `RunFinalizer` of each process |

The launch: `TryAcquireLaunch` (conditional update), `LauncherPost` (what Cloud
Run did and what the API learned, which may differ), `RecordInvocation`,
`SetLaunchState` (unconditional, as in the code). Cancellation: `CancelRead`,
`CancelWrite`. Operator: `ReconcileLostLaunch`, `ResolveUnknownLaunch`,
`Requeue`, `RetireUnlaunchedRun`. Worker: `ClaimRun`, `ClaimRefused`,
`EnterRunningRead`, `EnterRunningWrite`, `FinalizeRead`, `FinalizeWrite`,
`FinalizeReread`, `WorkerExits`; `LeaseExpires` and `WorkerDies` may strike at
any point, `TaskRetried` is Cloud Run starting the next try. Which terminal
status an engine reaches is chosen from those its phase may claim
(`ClaimsBeforeRunning`, `ClaimsRunning`).

Left out: the gates of `POST /messages` before the row exists, and columns no
transition reads. Nothing in the code writes the statuses `launching` and
`waiting`, so no action does; the transition table keeps them.

### The model-call budget

`ModelCallBudget`: the `BudgetTracker` of each run's worker (`tracker`), the
record a replacement restores (`durable`), reservation rows (`rows`), the ledger,
and per thread the call it is making. `OpenCall` takes the lock and checks,
`Reserve` is the reservation statement (granted, refused, or with its reply
lost), `LedgerReserved` and `RecordAdmission` follow; `Answer` is what the
provider reports; `SettleCall`, `LedgerSettled`, `RecordSettlement` are the
settlement. Each may fail; `Crash` may come between any two, and the replacement
restores the durable totals and not what was in flight. Money and tokens
are one unit (a token costs 1, input is free), so a call's output cap is its
worst case. Users and projects are one, so the two daily budgets are one.

It models calls made under an output contract, that is Swarm V2's. Vehicle
Catalog V1 reserves a flat estimate instead and is alone in using standalone
searches (`reserve_search`, `settle_search`); those share the tracker but no run
has both. That gate has a place in the plan below.

### Provider permits and windows

`ProviderPermits`: requests of several processes take a slot of their process's
semaphore, then a lease from the shared set. `AcquireReplyLost` is a lease taken
in the store whose answer never came; `AnswerRead` and `OutcomeUnknown` are the
classification; `Settle` gives the lease back only if the request is proven
finished, and the slot always. `running` is what the provider itself is working
on, which goes on after a process gave up or died. `OperatorReclaims` and the
opt-in `TimerReclaims` follow the recovery script; `timed` remembers what the
timer gave back, because the timer is documented to guess.

`ProviderWindows`: a caller reads its own clock (`ReadClock`) and makes several
calls to the store with that reading (`CheckPause`, `AdmitRpm`, `AdmitTpm`,
`AdmitSearch`), then sends and waits (`SendAdmitted`, `Answered`). A caller answered
429 reads its clock (`RateLimited`) and stores the deadline in a later step
(`SetPause`), which replaces what is stored and whose key lives for the length of the
pause; `assured` remembers when the shortest pause would end. Time is
a counter; readings may be `MaxSkew` ahead and `MaxLag` old when used. It follows
the Redis backend, not the in-memory double.

### The Swarm V2 engine

`SwarmEngine` is one run of the engine: the main thread's `pc`, its `SwarmState`
(`st`), the checkpoint and the usage ledger, and the executor's view of the tasks
of a pass. Planning, the life of a task up to `PersistResult`, the Commander's
decisions, conflict detection and resolution, verification in batches, the
correction round and the outcome follow `engine.py`, `executor.py`,
`correction.py`, `conflict_policy.py` and `outcome.py`. Writing a checkpoint is a
step of its own, after what is charged to the ledger; `Crash` may come between any
two steps and the next process resumes from both. A claim is the task that made
it; what it is about, what it states and what its source shows are constants.

### Mapping plans and their preparation

`MappingPlan`: the revisions of a plan (read, resolve, compare and set), pauses,
the batches cut from a prepared revision, requests to start one with their
idempotency keys, launch, relaunch and retirement of the bound runs.
`PreparationRequests` extends it with the web's requests to prepare: the request
row, the capture run of each attempt, the trigger whose answer may be lost, the
capture job, and the status derived from the rows. `MCWorkScope` composes them; a
behaviour looks closely either at batches or at the preparation, since the two
meet only in the prepared revisions.

### The register

`RegisterSnapshots`: runs that prepare a plan and runs that capture a register
group read the version, fetch pages, open or adopt a snapshot, write rows and
readings, verify, archive, activate, build and compact it, while the register
publishes new versions and any process dies. A page's content is the version it
was read from. `RegisterSync`: the hourly tick, the owner's switch and resume, and
the requests for syncs and captures that they and other people make, each read,
decision and write a step.

### Variant coverage

`VariantCoverage`: runs of several plans want register rows of one variant. A
run's process claims them (`ClaimBegins`, then `Claim`: the answers and rows of the
guarded SQL function), settles finished runs it meets (`SettleMet`), saves its preparation,
calls the provider (`StartCall`; `EndCall` may come after the process is dead),
reviews and promotes, makes its result durable (`Finish`) and records its
coverage. `SweepLists` and `SweepSettles` are the queue build's sweep. `ledger` and
`owner` are the rows of `catalog_variant_coverage` and
`catalog_variant_reservations`; `results`, `inOrder`, `overtaken`, `paidAgain`
and `bare` are history the properties read. The function inserts a row *on conflict do
nothing* and then selects it; each statement sees what was committed before it, so a
settlement may delete the row it met in between, and the caller is told `reserved`
although nothing was inserted. `vanished` are the keys whose row was deleted since the
claim began, and a claim misses any subset of them (`missed`); `bare` remembers who was
told `reserved` that way. The items of one claim, each of which is decided at its own
statements, are decided together when the claim ends.

### Vehicle Catalog V1

`VehicleCatalogV1` is one run of the older engine and the attempts that work on it.
A phase is a step, because phases follow one another in one process and the
agents' pool returns its results in a fixed order; the evidence board's writes
(`Persist`, `Settle`) and read (`ReadStates`) are steps of their own, and some of
the writes fail or lose their answer. `w` is the attempt's memory, `board` the
verdict rows of each claim and which is current, `ck` the document of a summary
checkpoint, `worth` what its writer took it to be worth. A claim is an agent's
record of a model: the name it is given, what it states (or nothing the evidence
contracts accept), the variant, whether it cites the market's sources, its confidence.
Names are folded twice, as in the code: evidence, flags and the report by
`evidence_authority.model_key` (`EvidenceKey`, `About`, `ReportOf`), the final merge by
`core.normalize_model_key` over a model's name and aliases (`MergeKey`, `Called`,
`FirstKey`, `LastEntry`, `Best`). So an entry may speak of another chunk's models, and a
model may take its verdict from one spelling and its records from another. What agents
and the verifier say is chosen from `Offers` and `Replies`, per chunk, and a chunk may
fail or meet backpressure.
`DurableAnswer`, `HeldStatus`, `IndexedStatus` and `PolicyStatus` are the rules that
lower a model's status, in the order the code applies them; `Outcome` is the product
outcome, of the first finalization and of a resume. Of records of equal
confidence the code takes the first of the answer, where the model keeps them all.

## Runs

`tlc -config X.cfg M` in this directory repeats each of them.

| Run | Module, configuration | Instance | What it shows |
|---|---|---|---|
| `launches` | `MCRunLifecycle`, `RunLaunches` | two requests, two executions of one try each, all with the same `worker_id` | `EvidenceMatchesStatus`, `RetiredNeverExecuted`, `CancellationHasExecution`, `SingleLeaseHolder`; every step implements `RunContract` (`ImplementsContract`) and only the latest claimer decides (`LatestClaimerDecides`) |
| `retries` | `MCRunLifecycle`, `RunRetries` | one execution of three tries, ids of their own, fairness | `ExitZeroMeansTerminal`, `StartedRunSettles` |
| `budget` | `MCModelCallBudget`, `Budget` | a run of two threads, two calls and a death, replaced under the same attempt or the next, and a run of one call; a daily budget that does not cover both | `RunCeilings`, `ReservationServesOneRequest`, `DailySpendBounded`, `CallsBoundedAcrossRestarts` |
| `permits` | `MCProviderPermits`, `Permits` | three requests of two processes, a ceiling of two, three leases, the timer on, fairness | `ProviderLoadWithinCeiling`, `LiveRequestsHoldTheirLease`, `SlotsBalanced`, `RequestsEnd` |
| `windows` | `MCProviderWindows`, `Windows` | two callers, inference and search, skew and lag of one unit, pauses of two lengths | `RollingCeilings`, `ShortestPauseHonoured`: of a pause that others overwrite, the shortest one less lag and skew is left |
| `swarm` | `MCSwarmEngine`, `Swarm` | two tasks whose claims contradict and three that a replan or the correction round adds, two workers, a death | `CompletedNeverRunAgain`, `CompleteMeansVerified`, `ShownClaimsAgree`, `CorrectionClosedForGood`, `EngineTerminates` |
| `scope` | `MCWorkScope`, `WorkScope` | two editors, two requests to start, two to prepare, three revisions of up to two batches, two attempts | `BatchesInOrder`, `OfferedIsAccepted`, `ViewAgreesWithDatabase`, `PreparationAnswered` |
| `register` | `MCRegisterSnapshots`, `Register` | a Prepare run and a capture, two pages, two versions | `UnchangedMeansCurrent`, `ActiveIsWhole`, `PendingCanBeAdopted`, `PayloadRecoverable`, `BatchHasItsRows` |
| `register_sync` | `MCRegisterSync`, `RegisterSync` | one manufacturer left, a resume, a request by hand, a death | `SyncAlone`, `OnlyResumeLeavesAPause`, `RegisterCompletes`; this system never stops, so deadlock is checked |
| `coverage` | `MCVariantCoverage`, `Coverage` | three runs: one of two processes, one of another snapshot, one that asks for unresolved variants again; rows deleted while a claim is under way | `PaidAlone`, `PaidOnce`, `NoPromotionStranded` |
| `catalog_v1` | `MCVehicleCatalogV1`, `CatalogV1` | two models, two agents, chunks of one model, three attempts; one model spelled in two ways, contradicted or of foreign sources under one of them, and one with an alias | `VerifiedHasEvidence`, `ResumedWorthNoMore` |
| `orphaned_cancellation` | `MCRunLifecycle`, `RunOrphanedCancellation` | one execution, two tries | violation, see *Findings* |

Bounds. Two requests are what the conditional update must separate, and two
processes under one name are what the lease token must separate; a third try in
`retries` lets a process be stale by two claims and lets a lease lapse after a
retry. `MaxTries` is `--max-retries` plus one and is two in production. The
budget needs a call that fits beside another and one that does not: a cap of two,
clipped to one, under a run's ceiling and a day's of three; `MaxCrashes`
bounds the deaths of each run, and one run's death is enough for the other to meet
what it left behind. `Permits` needs one request more than the ceiling and a lease to
spare for what a stranded one keeps. In the windows, `Window` and `Interval` are
longer than the clock error (`WindowAssumption`), `MaxTime` lets a window roll
over completely, and `MinPause` of four is longer than lag
and skew together; two lengths let a shorter pause replace a longer one. In `swarm` the calls allow a
replan, a correction round and a resume after a death, and not much more, so that
running out of them happens too. `scope` needs a revision written while another is
worked on and one that finds it so. Two versions are what a capture can mix; two
pages are what it can mix them over. `coverage` needs three runs: one whose
settlement is late, one that it overtakes and one that asks after both; one
retried run is enough for a claim to pass on and its first owner to come back; only the
first may report its variant unresolved, which is what the third asks again.
In `catalog_v1` three attempts let a verdict be settled, contradicted by a later
attempt and settled again as the old row; two spellings are what the two foldings can
disagree on, and an alias is what only the merge knows. Each run of `coverage` queues one item, so a claim is all or nothing; rows beyond the queue come from an ambiguous match.

Deadlock checking is off in every other run because those systems may stop: a
terminal run is finished, leases and time are bounded, and a process that is not
fair may simply do no more.

Fairness. Safety is checked without any. `StartedRunSettles` assumes that a
worker process that is alive takes its next step (`WorkerStep`: the code has no
unbounded wait between statements, engines have wall-clock limits), that Cloud
Run starts the tries it was told to (`TaskRetried`), and that a lease nobody
renews expires; nothing is assumed of requests, users or operators, nor that
processes do not die. `RequestsEnd` assumes that `execute` takes its next step
once it has its lease, that an answer or the transport's total deadline arrives,
and strong fairness of `GiveUp`: the backpressure bound of the scheduler adds up
the waits of the whole loop, so a request the windows keep sending back meets it
although it keeps leaving the state in which it waits. `EngineTerminates` assumes
that the engine's process, or the one that replaces it, takes its next step (every
provider call has a deadline). `PreparationAnswered` assumes only that time passes
(`Clock`): graces end and leases nobody can renew run out, because the job's time
limit ends every execution. `RegisterCompletes` assumes the hourly tick, that a
process that is alive takes its next step, that a stalled sync is noticed, and that
jobs keep being started and keep capturing (strong fairness: each attempt may fail,
not all of them).

Assumptions about the world, beside those stated in the modules: the register
publishes a version atomically and never an older one again; an archive object that
was read back stays; ticks do not overlap; the takeover grace of 15 minutes is
longer than any provider request (600 seconds at most); one batch holds one content
per variant key.

`TypeOK` documents the state; where the proofs start from it, it is proved.

Each property has a mutant in `PROJECT.json`: a plausible slip in one definition
(`CancelMatchesBlind`, `HoldsLeaseNoToken`, `RestoredNothing`,
`SettledLeasesAlways`, `PrunedHalfway`, ...), written beside the definition it
changes, under which the run finds the property violated.

## Findings

One statement of the repository about itself does not hold, and a run shows it.
*No request can rest at `cancellation_requested`* (`supabase.py:1266`): a
cancellation of a launched run rests there once its task tries are used up. A
process that meets the request between its claim and its transition to running
fails, others may die, and the run can then be neither requeued nor retired.

Noticed while modelling, without a run of its own:

- `JobLaunchFailed` says *the launch definitely did not happen*
  (`job_launcher.py:17`). A 2xx answer with an unreadable body is recorded as
  `launch_failed` although an execution exists. The lifecycle survives it: both
  executions compete for one lease, and `launches` includes the case.
- An unknown outcome is said to be charged to the daily settlement
  (`budget.py:1153`). It is settled as `released`, and the atomic daily sum leaves
  released rows out; the sum over the usage ledger still sees it, outside the lock.
- The in-memory quota backend is said to be a faithful model of the Redis one
  (`provider_quota.py:464`). It keeps the longer pause; Redis is given the last one,
  which may ask for less, or come from a clock read earlier and stored late. "Provider
  feedback may only **pause** admissions" (`KIMI_TIER2_LIMITS.md:180`) then holds of each
  signal's own pause only in the measure of `ShortestPauseHonoured`.
- `engine.py:668` says a crash before the checkpoint cannot make a resume believe
  it still has its correction round. The ledger has the round, but the allowance is
  read from the checkpoint alone, so the resumed run takes it again.
- `coverage.py:1` says never to pay twice for the same variant. A late settlement
  of an older snapshot (by a worker that was slow after finalizing, a sweep that
  listed its runs up front, or the operator's backfill) replaces the row of a run
  that finished later, because other content always replaces; the variant is then
  paid for again. `PaidOnce` states the exception.
- A request that a dead process left at the provider outlives its claim when a later
  process of the run ends the run, or gives the claim back because the ledger has
  meanwhile settled the variant: leases last 300 seconds and requests up to 600.
  `PaidAlone` states the exception.
- *The unique index is the authority: two concurrent callers serialize on the row, and
  exactly one owns it* (`20260927000100_catalog_variant_coverage.sql:1209`). A claim that
  meets a finished run's row and loses it to that run's settlement before it selects it
  finds no row, for which `catalog_variant_reservation_state(null)` answers `dead`; its
  update then matches nothing and the answer is `reserved`. Whoever claims the variant
  next inserts a row and is told `reserved` too. This needs a decision that still queues
  the variant after the settlement, as for a failed or pending result, or an
  unresolved one that is asked for again. Without the exception for it
  (`Unheld`, `BareKeys`) neither `PaidAlone` nor `PaidOnce` holds.
- A ledger write takes at most 200 entries and `derive_coverage` does not clip
  (`coverage.py:168`), so a result whose ambiguous groups name more rows is never
  settled and its claims stay `settlement_pending`.
- Two rows of one key and two contents in one batch make a claim that was just taken
  be given back, depending on their order (hence the assumption above).
- `request_work_scope_preparation` lets a claimed request older than the grace be
  claimed again although its capture run may be alive.
- A batch run's launch does not look at the plan again, so a plan paused or revised
  after the run was created still starts it; nothing writes `closed_at`.
- A process that dies between creating a capture run and setting its launch state
  leaves a queued run nobody launches.
- The tick writes every schedule row after re-reading one, so a resume in between
  is overwritten (`autosync.py:191`); it counts only the newest sync finished since
  the last tick; a plain refresh of the directory does not look for live captures.
- V1's `engine.py` says no configuration lets a model's assertion alone make a field
  verified. A verifier entry under `needs_review` whose status is `verified` does:
  `_verifier_index` gives that list the last word, `flagged_model_keys` reads the
  status and `apply_evidence_authority` visits `verified_models` only.
  `VerifiedHasEvidence` states the exception.
- A failed technical chunk of an agent that kept anything, and a chunk lost to
  backpressure, leave no trace in `failed_summaries` or in the enrichment's status, so
  a V1 run can be complete although its enrichment was partial.
- V1 folds names in two ways and the merge also looks up aliases. For `ID.4` and `ID 4`,
  or a name and its alias, a verdict given under one keeps `verified` by the evidence of
  that one, while the records merged into the model may be those of the other,
  contradicted or of foreign sources. `VerifiedHasEvidence` asks for the evidence of the
  name the verdict was given under, and says so. A value the evidence contracts refuse
  makes no claim and so no refusal.
- `lease.settle` in the scheduler's cleanup may raise and replace the answer of a call
  that succeeded (`provider_scheduler.py:686`).
- `RUN_FINALIZATION.md` describes a split fallback path that `finalization.py` says
  no longer exists; `set_launch_state` is unconditional; a terminal run keeps a live
  lease until it expires; `holds_lease` leaves `partial_success` out of the terminal
  statuses it names; the ledger's daily sum reads at most 2000 rows.

## Proofs

`tlapm` checks eight modules, for all values of the constants that meet the modules'
assumptions: any number of executions, tries, requests and worker ids (shared or not)
with `MaxTries` at least one; any set of processes and leases, any finite set of
requests, positive ceilings; any finite sets of callers, runs and threads, with any
limits, caps, budgets and bounds on deaths, and a clock error shorter than the window
and the interval; any finite task graph; any models, agents, batches,
clicks, pages, runs and variants. Every argument is an inductive invariant, written
as a conjunction of named parts and tried with TLC on a small instance before it was
proved. A lemma per group of actions says that it keeps the invariant,
and *effect* or *move* lemmas say once what several actions do alike.

**The lifecycle** (`RunLifecycleProofs`). None of the safety properties is inductive:
that one process passes the lease check needs to know that no two processes were
given one token, and that a token is never ahead of the row; that an exit 0 is
terminal needs to know what a landed write left; that a step follows the transition
table needs to know on which status a cancellation in flight was decided and in which
a claimed run can be. `LifecycleInv` conjoins these facts (`LeaseColumnsAgree`,
`TokensFresh`, `EntryOrder`, `CancelDecided`, `OnlyStopsEmitted`, `EndedIsTerminal`,
`LaunchKnowledge`) with the properties. Frame lemmas (`LeaseFrame`, `StatusFrame`,
`PcFrame`) say which actions can disturb a group of variables, and effect lemmas
(`CancelWriteEffect`, `ClaimRunEffect`, `FinalizeWriteEffect`, ...) what each of those
does. From it follow `TypeCorrect`, `EvidenceCorrect`, `OneLeaseHolder`,
`ExitZeroIsTerminal`, `CancellationsHaveExecution`, `RetiredRunsStayUnexecuted`, the
action property `StaleWorkersDecideNothing` and the refinement `RowKeepsContract`:
initial states are the contract's, and each action is a step of the contract or leaves
its two variables alone.

**The permits** (`ProviderProofs`). The ceiling over the provider's own load is
about requests nobody in MILO knows of, so `PermitInv` follows leases and not
requests: what the provider works on is a lease the store counts unless the timer gave
it back (`RunningCounted`), the store counts no more than the ceiling (`Counted`), a
request that is alive owns its lease and nobody else does (`OwnLease`,
`DistinctLeases`), and a lease nobody took is nowhere (`UntakenUnused`).
`LoadWithinCeiling`, `LiveRequestsKeepTheirLease`, `SlotsStayBalanced` (by counting
over a finite set of requests) and `PermitsTypeCorrect` follow.

**Sums.** The windows and the budget are sums over finite sets, written with
`SumFunctionOnSet`. The library defines it by removing a chosen element at a time,
which suggests an induction over data; `ProviderProofs` goes round it. A sum of
naturals is the number of its units (`SumCounts`), shown with a smallest set at which
the two would differ (`SmallestSubset`), and cardinalities give what the proofs need: a
sum is a natural, grows with its terms, splits off a term, and moves by as much as one
term moves (`SumGrows`, `SumWithout`, `SumMoves`).

**The windows** (`ProviderProofs`). What goes out in real time and what a window counts
are sums over different clocks. `WindowsInv` puts between them the entries of callers
that are counted or admitted and have not sent: for every instant recent enough that
nobody's clock can have pruned it (`Clear`), what was sent since, and what these callers
may still send then or later, is counted under stamps at most the delay older
(`RequestsCovered`, `TokensCovered`, `SearchesCovered`). A step moves a term from one
side to the other or adds to both; pruning by a fast clock removes only stamps too old to
matter. `RollingWindowsHold` follows because the window itself never exceeds its limit.
`SignalsHonoured` follows from what every store leaves behind (`Assures`): the deadline
stored last is no earlier than the shortest pause counted from the moment it was stored,
less the age of the reading it was made from, and its key lives that long. A caller whose
reading falls before that, less the skew, finds the pause when it looks
(`CoveredIsPaused`). Nothing is assumed of the pauses' lengths.

**The budget** (`ModelCallBudgetProofs`), in three layers. `GateInv`: one call of a run
is inside `open_call` or `settle_call` at a time, and what its checks found still holds
when it reserves (`ChecksHold`); numbers of calls differ, and one being opened is ahead of
the durable record (`NumbersOfCalls`), so a row that paid for a request has a number no
replacement is given again (`UsedRows`, `UsedOnce`). `OneRequestPerReservation`,
`BudgetTypeCorrect` and `CallsOverRestarts` follow, the last by counting the used rows by
their numbers. `CeilingInv`: what the calls hold is reserved in the tracker, and what the
provider charged and may still charge is recorded, reserved or died with a process;
`RunCeilingsHold`. `DayInv`: what the rows book stays within the day's budget, and what
was charged, with what every call still owes, is covered by rows that were used or known
not to be covered; `DailySpendHolds`. Two sums are bounded because the database's own
sum, which admits a row, counts at least what is booked (`CommittedShape`).

**The swarm** (`SwarmEngineProofs`). What the properties say of a finished run depends
on states several deaths away, so `EngineInv` carries facts through a checkpoint: it
never knows more than the state of the process that wrote or resumed it
(`CheckpointBehind`), and what still runs is in neither (`WorkIsNew`, hence
`CheckpointedStaysDone`). In a pass the executor's tasks are the plan's and none is
left over (`PassAgrees`), a detection that failed is on record (`BlindIsDegraded`), and
the claims already verified or still open in a batch agree with each other
(`VerdictsAgree`, `VerdictsSettled`). The step that matters is `VerifyPrepare`: two
contested claims the policy leaves standing state the one value that won
(`OpenVerdict`, `SettledAgree`). `CompleteIsVerified` and `ShownFieldsAgree` follow, and
`AnsweredCorrectionStaysClosed` from the guards of the two decisions.

**V1** (`VehicleCatalogV1Proofs`). Once the summary's document is checkpointed it is
fixed and so is the board under it; whichever attempt finishes the run finishes that
document (`DocumentInv`). The work is in the one step that builds it: whatever
leaves a model verified is an entry under `needs_review`, or one whose name has its
evidence (`Backed`); of the model's other names nothing is known, nor claimed. `VerifiedHasItsEvidence` and `ResumeIsWorthTheSame` follow.

**The plan and its preparation** (`WorkScopeProofs`). `RunsInOrder`, `OneLive` and
`SettledOnce` say that a bound run follows settled batches, that one run is live and its
batch open, and that a batch is settled by one run; they depend on the runs' batches and
statuses alone, so most actions keep them by one lemma. `OfferIsAccepted` and
`PreparationViewAgrees` need typed rows besides. They are proved of `WorkScope`, every
interleaving of the two modules, where the run looks at one of them at a time. The
assumption that `"fresh"` and `"nobody"` are not names of clicks is `MappingPlan`'s.

**Coverage** (`VariantCoverageProofs`). `ClaimInv`: a request of a process is covered by
its claims because its queue is, until the lease has lapsed (`QueueHeld`, `CallsHold`), or by the word of a claim that met a row and lost it (`Holds`),
and a run whose lease has lapsed has nothing at the provider any more (`LapsedQuiet`:
the takeover grace outlasts a request); `PaidByOneRun` follows. `PromotionInv`: what a process verified is owed by it, by its saved result or by
a later process, until it is promoted or refused (`EveryPromotionAnswered`). `LedgerInv`
compares the ledger with the order in which runs finished: an enrichment in order is in
the ledger, or its run still has the claim, or it was overtaken, or some run was told the
variant is reserved without a row (`DurableWorkPaidOnce`).

**Snapshots** (`RegisterProofs`). Pages are read in publication order, so equal
labels at both ends mean one version (`ReadsInOrder`, `UnchangedIsCurrent`); how far a
run has come its pending snapshot's rows have too (`KeepsUp`), and the writer of a
pending snapshot is at it, has died, or is over and failed (`Holds`), which gives
`ActiveStaysWhole` and `PendingIsAdoptable`. An object is read back before rows are
compacted (`PayloadsStayRecoverable`). `BatchesKeepTheirRows` was not provable as first
modelled: `QueuePrepared` queued a snapshot whose payload was archived already. The
database's readability gate refuses it (`prepare_work_scope_queue`), and the action now
has that guard.

**Syncs** (`RegisterProofs`). Between its claim and the launch a requester holds the
group of its kind (`ClaimsHeld`), and one past its second look has the field for itself
(`ConfirmedAlone`): `SyncRunsAlone`. The tick and the owner write back copies of the row
they read earlier; no copy knows less of a pause than the row (`PauseKnown`):
`OnlyResumeEndsAPause`.

Only model-checked: the liveness properties (`StartedRunSettles`, `RequestsEnd`,
`EngineTerminates`, `PreparationAnswered`, `RegisterCompletes`), since fairness and
ENABLED are beyond the prover. Every other property of a passing run is stated by a
theorem.

## Plan

Proofs: what the safety parts of the remaining liveness arguments need (that a run with a
try left can take a step, say), and lemmas about the modules still to write.

Modules still to write: `SearchGate` (the flat-rate gate of V1 with standalone
searches), `Finalization` (the authority of competing claims in one process, and
the abstract arbiter it implements), the limits of the tool registry and of the API, and the pure algorithms
(Swarm V2's product outcome, register normalization) against reference definitions.

Runs are one per question. Where a run asks two questions of one instance they
are merged, as `launches` does.

## Not modelled

Prompts, model output, text grounding and evidence contracts are data no property
here tells apart. Transport and streaming decide whether an outcome is proven;
the modules take either decision at any time. Authentication, schemas, logging,
export and replay keep no state that another component reads. The frontend polls.
The in-memory repository and quota backend are test doubles; where they differ
from production the modules follow production.

Parts of modelled components that are left out: `prune_register_snapshots`, the
batching inside a variant build, VACUUM and the skeleton rows a compaction keeps;
normalization drift between two readings of one snapshot; several sync schedules
and the lengths of their backoffs; the operator's coverage backfill, placeholder
rows, and the fallback that filters a queue by the ledger alone; the evidence rules
inside one review, whose two outcomes are both taken; the command line of the
operator capture. The searches of Vehicle Catalog V1
and its Streamlit pages. The HTTP layer and the repository's reads make up most of the code the map does not name.
