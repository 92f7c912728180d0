-------------------------- MODULE ModelCallBudget --------------------------
(***************************************************************************)
(* The hard gate in front of every paid model call of Swarm V2: the        *)
(* BudgetTracker of each run's worker process (its lock, its in-flight     *)
(* reservations, its durable usage record), the reservation rows the       *)
(* database keeps for the daily budget, and the per-call usage ledger.     *)
(* Several threads of a worker have calls in flight at once; open_call and *)
(* settle_call run under the tracker's lock, each database statement in    *)
(* them is a step, and the process may die between any two.                *)
(*                                                                         *)
(* One output token costs one unit and input is free, so a call's output   *)
(* cap is its worst-case cost; all runs belong to one user and project, so *)
(* the two daily budgets are one.                                          *)
(***************************************************************************)
EXTENDS Integers, FiniteSets, FiniteSetsExt

CONSTANTS
  Runs, Threads, NoThread,
  ThreadsOf,        \* [Runs -> the threads that make its calls]
  Caps,             \* output caps the roles ask for
  MinAnswer,        \* min_answer_reserve of the roles
  MaxModelCalls,    \* [Runs -> max_model_calls_per_run]
  MaxOutputTokens, MaxCostPerRun, DailyBudget,
  MaxCrashes        \* bound: [Runs -> process deaths]

ASSUME BudgetAssumption ==
  /\ IsFiniteSet(Runs) /\ IsFiniteSet(Threads)
  /\ Caps \subseteq Nat \ {0}
  /\ MinAnswer \in Nat \ {0}
  /\ {MaxOutputTokens, MaxCostPerRun, DailyBudget} \subseteq Nat
  /\ MaxModelCalls \in [Runs -> Nat]
  /\ ThreadsOf \in [Runs -> SUBSET Threads] /\ MaxCrashes \in [Runs -> Nat]
  /\ NoThread \notin Threads

VARIABLES
  tracker,    \* each run's BudgetTracker, in memory
  durable,    \* run_execution_usage: what a replacement restores
  attempt,    \* runs.attempt of the process
  crashes,    \* deaths so far
  lock,       \* BudgetTracker._lock
  call,       \* the call each thread is making
  rows,       \* model_call_budget_reservations
  ledger,     \* run_usage_ledger, reduced to what the daily sum reads
  spent,      \* history: what the provider charged each run
  lost,       \* history: what died with a process before it was durable
  uncounted   \* history: charges the reservation rows do not carry

budgetVars ==
  <<tracker, durable, attempt, crashes, lock, call, rows, ledger, spent, lost,
    uncounted>>

Seqs(r) == 1 .. MaxModelCalls[r]
RowKeys == UNION {{r} \X (1 .. MaxCrashes[r] + 1) \X Seqs(r) : r \in Runs}

NoCall == [pc |-> "idle", cap |-> 0, seq |-> 0, charge |-> 0, how |-> "none"]
FreshTracker == [calls |-> 0, out |-> 0, resOut |-> 0, cost |-> 0,
                 resCost |-> 0, stopped |-> FALSE]
NoRow == [status |-> "absent", est |-> 0, actual |-> 0, uses |-> 0]

(* idle; reserving, admitted, recording: inside open_call; sent: at the    *)
(* provider; answered; settled, charged: inside settle_call.               *)
CallPcs == {"idle", "reserving", "admitted", "recording", "sent", "answered",
            "settled", "charged"}
Settlements == {"none", "settled", "released"}
RowStates == {"absent", "reserved", "settled", "released", "rejected"}

BudgetTypeOK ==
  /\ tracker \in [Runs -> [calls : Nat,
                           out : Nat, resOut : Nat, cost : Nat, resCost : Nat,
                           stopped : BOOLEAN]]
  /\ durable \in [Runs -> [calls : Nat, out : Nat, cost : Nat]]
  /\ \A r \in Runs : /\ crashes[r] \in 0 .. MaxCrashes[r]
                     /\ attempt[r] \in 1 .. MaxCrashes[r] + 1
  /\ lock \in [Runs -> Threads \cup {NoThread}]
  /\ call \in [Runs -> [Threads -> [pc : CallPcs, cap : Nat, seq : Nat,
                                    charge : Nat, how : Settlements]]]
  /\ rows \in [RowKeys -> [status : RowStates, est : Nat, actual : Nat,
                           uses : Nat]]
  /\ \A r \in Runs : ledger[r] \in [Seqs(r) -> Nat]
  /\ spent \in [Runs -> Nat] /\ lost \in [Runs -> Nat]
  /\ uncounted \in Nat

BudgetInit ==
  /\ tracker = [r \in Runs |-> FreshTracker]
  /\ durable = [r \in Runs |-> [calls |-> 0, out |-> 0, cost |-> 0]]
  /\ attempt = [r \in Runs |-> 1]
  /\ crashes = [r \in Runs |-> 0]
  /\ lock = [r \in Runs |-> NoThread]
  /\ call = [r \in Runs |-> [c \in Threads |-> NoCall]]
  /\ rows = [k \in RowKeys |-> NoRow]
  /\ ledger = [r \in Runs |-> [s \in Seqs(r) |-> 0]]
  /\ spent = [r \in Runs |-> 0] /\ lost = [r \in Runs |-> 0]
  /\ uncounted = 0

-----------------------------------------------------------------------------
(* The two views of the day's spending.                                    *)

(* Mutated form: reservations still in flight are not counted.             *)
CommittedSettled ==
  SumFunctionOnSet([k \in RowKeys |-> IF rows[k].status = "settled"
                                      THEN rows[k].actual ELSE 0], RowKeys)

(* model_call_budget_committed: a row counts its actual cost once it has   *)
(* one and its estimate until then; released and rejected rows do not.     *)
CommittedBy ==
  [k \in RowKeys |-> IF rows[k].status = "settled" THEN rows[k].actual
                     ELSE IF rows[k].status = "reserved" THEN rows[k].est ELSE 0]

Committed == SumFunctionOnSet(CommittedBy, RowKeys)

(* sum_daily_ledger_cost: per call, what settled or else what was held.    *)
LedgerSum ==
  MapThenSumSet(LAMBDA k : ledger[k[1]][k[2]],
                UNION {{r} \X {s \in Seqs(r) : ledger[r][s] > 0} : r \in Runs})

-----------------------------------------------------------------------------
(* open_call.                                                              *)

Allowed(r, requested) ==
  Min({requested, MaxOutputTokens - tracker[r].out - tracker[r].resOut})

(* The worst case against the run's dollar ceiling, in-flight holds        *)
(* included.                                                               *)
FitsRun(r, cap) ==
  tracker[r].cost + tracker[r].resCost + cap <= MaxCostPerRun

Admissible(r, requested) ==
  /\ tracker[r].calls < MaxModelCalls[r]
  /\ tracker[r].out + tracker[r].resOut < MaxOutputTokens
  /\ Allowed(r, requested) >= MinAnswer
  /\ FitsRun(r, Allowed(r, requested))
  /\ LedgerSum + Allowed(r, requested) <= DailyBudget

(* The gate's reads and checks; a refusal stops the run for good.          *)
OpenCall(r, c, requested) ==
  /\ call[r][c].pc = "idle" /\ lock[r] = NoThread /\ ~tracker[r].stopped
  /\ IF Admissible(r, requested)
     THEN /\ lock' = [lock EXCEPT ![r] = c]
          /\ call' = [call EXCEPT ![r][c] =
                        [NoCall EXCEPT !.pc = "reserving",
                                       !.cap = Allowed(r, requested)]]
          /\ UNCHANGED tracker
     ELSE /\ tracker' = [tracker EXCEPT ![r].stopped = TRUE]
          /\ UNCHANGED <<lock, call>>
  /\ UNCHANGED <<durable, attempt, crashes, rows, ledger, spent, lost, uncounted>>

RowKey(r, seq) == <<r, attempt[r], seq>>

(* reserve_model_call_budget_for_attempt: the row afterwards. It is        *)
(* inserted once per (run, attempt, call_seq); a repeat gets what is there.*)
ReservedRow(k, cap) ==
  IF Committed + cap > DailyBudget
  THEN [rows[k] EXCEPT !.status = "rejected",
                       !.est = IF rows[k].status = "absent" THEN cap ELSE @]
  ELSE IF rows[k].status = "absent"
  THEN [NoRow EXCEPT !.status = "reserved", !.est = cap]
  ELSE rows[k]

Monus(a, b) == IF a > b THEN a - b ELSE 0

(* The reservation, and the admission in memory that follows its reply. A  *)
(* rejected row, or a reply that never arrives, is an error to the caller  *)
(* that admits nothing and does not stop the tracker.                      *)
Reserve(r, c) ==
  LET seq == tracker[r].calls + 1
      k == RowKey(r, seq)
      cap == call[r][c].cap
      row == ReservedRow(k, cap)
  IN  /\ call[r][c].pc = "reserving"
      /\ rows' = [rows EXCEPT ![k] = row]
      /\ \/ /\ row.status # "rejected"
            /\ tracker' = [tracker EXCEPT ![r].calls = seq,
                                          ![r].resOut = @ + cap,
                                          ![r].resCost = @ + cap]
            /\ call' = [call EXCEPT ![r][c].pc = "admitted", ![r][c].seq = seq]
            /\ uncounted' = uncounted + Monus(cap, row.est)
            /\ UNCHANGED lock
         \/ /\ call' = [call EXCEPT ![r][c] = NoCall]
            /\ lock' = [lock EXCEPT ![r] = NoThread]
            /\ UNCHANGED <<tracker, uncounted>>
      /\ UNCHANGED <<durable, attempt, crashes, ledger, spent, lost>>

(* _ledger("reserved"): a second row for a call leaves the first in force. *)
LedgerReserved(r, c) ==
  /\ call[r][c].pc = "admitted"
  /\ ledger' = [ledger EXCEPT ![r][call[r][c].seq] =
                  IF @ = 0 THEN call[r][c].cap ELSE @]
  /\ call' = [call EXCEPT ![r][c].pc = "recording"]
  /\ UNCHANGED <<tracker, durable, attempt, crashes, lock, rows, spent, lost,
                 uncounted>>

(* record_run_usage: a component-wise maximum.                             *)
Merged(r) ==
  [calls |-> Max({durable[r].calls, tracker[r].calls}),
   out   |-> Max({durable[r].out, tracker[r].out}),
   cost  |-> Max({durable[r].cost, tracker[r].cost})]

(* Mutated form: the admission is only made durable at settlement.         *)
RecordAdmissionLate(r, c) ==
  /\ call[r][c].pc = "recording"
  /\ call' = [call EXCEPT ![r][c].pc = "sent"]
  /\ lock' = [lock EXCEPT ![r] = NoThread]
  /\ rows' = [rows EXCEPT ![RowKey(r, call[r][c].seq)].uses = @ + 1]
  /\ UNCHANGED <<tracker, durable, attempt, crashes, ledger, spent, lost,
                 uncounted>>

(* The admission is durable, then the request goes out.                    *)
RecordAdmission(r, c) ==
  /\ call[r][c].pc = "recording"
  /\ durable' = [durable EXCEPT ![r] = Merged(r)]
  /\ call' = [call EXCEPT ![r][c].pc = "sent"]
  /\ lock' = [lock EXCEPT ![r] = NoThread]
  /\ rows' = [rows EXCEPT ![RowKey(r, call[r][c].seq)].uses = @ + 1]
  /\ UNCHANGED <<tracker, attempt, crashes, ledger, spent, lost, uncounted>>

(* One of those two writes fails: the call is not made, what it held stays *)
(* held.                                                                   *)
AdmissionWriteFails(r, c) ==
  /\ call[r][c].pc \in {"admitted", "recording"}
  /\ call' = [call EXCEPT ![r][c] = NoCall]
  /\ lock' = [lock EXCEPT ![r] = NoThread]
  /\ UNCHANGED <<tracker, durable, attempt, crashes, rows, ledger, spent, lost,
                 uncounted>>

-----------------------------------------------------------------------------
(* The provider and settle_call.                                           *)

(* What a call is settled as, given what the provider charged: measured; a *)
(* refusal proven to have cost nothing; a stream that ended without usage  *)
(* and an outcome nobody can prove are charged in full.                    *)
Verdicts(cap, charged) ==
  {[charge |-> charged, how |-> "settled"], [charge |-> cap, how |-> "settled"],
   [charge |-> cap, how |-> "released"]}
    \cup (IF charged = 0 THEN {[charge |-> 0, how |-> "released"]} ELSE {})

Answer(r, c, charged, verdict) ==
  /\ call[r][c].pc = "sent"
  /\ charged \in 0 .. call[r][c].cap
  /\ verdict \in Verdicts(call[r][c].cap, charged)
  /\ spent' = [spent EXCEPT ![r] = @ + charged]
  /\ call' = [call EXCEPT ![r][c].pc = "answered",
                          ![r][c].charge = verdict.charge,
                          ![r][c].how = verdict.how]
  /\ UNCHANGED <<tracker, durable, attempt, crashes, lock, rows, ledger, lost,
                 uncounted>>

SettledRow(r, c) ==
  [rows EXCEPT ![RowKey(r, call[r][c].seq)].status = call[r][c].how,
               ![RowKey(r, call[r][c].seq)].actual = call[r][c].charge]

SettlementUncounted(r, c) ==
  IF call[r][c].how = "released" THEN call[r][c].charge ELSE 0

(* Mutated form: a settled call keeps its hold.                            *)
SettledKeepsHold(t, held, charge) ==
  [t EXCEPT !.out = @ + charge, !.cost = @ + charge]

(* The release of what a call held, and its charge.                        *)
Settled(t, held, charge) ==
  [t EXCEPT !.resOut = Monus(@, held), !.resCost = Monus(@, held),
            !.out = @ + charge, !.cost = @ + charge]

(* settle_model_call_budget_guarded, then the settlement in memory.        *)
SettleCall(r, c) ==
  LET k == RowKey(r, call[r][c].seq)
  IN  /\ call[r][c].pc = "answered" /\ lock[r] = NoThread
      /\ rows[k].status = "reserved"
      /\ rows' = SettledRow(r, c)
      /\ uncounted' = uncounted + SettlementUncounted(r, c)
      /\ tracker' = [tracker EXCEPT ![r] =
                        Settled(@, call[r][c].cap, call[r][c].charge)]
      /\ lock' = [lock EXCEPT ![r] = c]
      /\ call' = [call EXCEPT ![r][c].pc = "settled"]
      /\ UNCHANGED <<durable, attempt, crashes, ledger, spent, lost>>

(* BUDGET_SETTLEMENT_FAILED: the run stops with the hold in place, whether *)
(* or not the row was settled.                                             *)
SettlementFails(r, c) ==
  /\ call[r][c].pc = "answered" /\ lock[r] = NoThread
  /\ \/ UNCHANGED <<rows, uncounted>>
     \/ /\ rows[RowKey(r, call[r][c].seq)].status = "reserved"
        /\ rows' = SettledRow(r, c)
        /\ uncounted' = uncounted + SettlementUncounted(r, c)
  /\ tracker' = [tracker EXCEPT ![r].stopped = TRUE]
  /\ call' = [call EXCEPT ![r][c] = NoCall]
  /\ UNCHANGED <<durable, attempt, crashes, lock, ledger, spent, lost>>

(* _ledger("settled"): a zero cost is written as null, and the hold stands.*)
LedgerSettled(r, c) ==
  /\ call[r][c].pc = "settled"
  /\ ledger' = [ledger EXCEPT ![r][call[r][c].seq] =
                  IF call[r][c].charge > 0 THEN call[r][c].charge ELSE @]
  /\ call' = [call EXCEPT ![r][c].pc = "charged"]
  /\ UNCHANGED <<tracker, durable, attempt, crashes, lock, rows, spent, lost,
                 uncounted>>

RecordSettlement(r, c) ==
  /\ call[r][c].pc = "charged"
  /\ durable' = [durable EXCEPT ![r] = Merged(r)]
  /\ call' = [call EXCEPT ![r][c] = NoCall]
  /\ lock' = [lock EXCEPT ![r] = NoThread]
  /\ UNCHANGED <<tracker, attempt, crashes, rows, ledger, spent, lost, uncounted>>

(* One of those two writes fails; memory has the charge, the record later. *)
SettlementWriteFails(r, c) ==
  /\ call[r][c].pc \in {"settled", "charged"}
  /\ call' = [call EXCEPT ![r][c] = NoCall]
  /\ lock' = [lock EXCEPT ![r] = NoThread]
  /\ UNCHANGED <<tracker, durable, attempt, crashes, rows, ledger, spent, lost,
                 uncounted>>

(* A rail outside this model (kill switch, lost lease, duration, retries,  *)
(* agent steps) stops the run.                                             *)
RailTrips(r) ==
  /\ ~tracker[r].stopped
  /\ tracker' = [tracker EXCEPT ![r].stopped = TRUE]
  /\ UNCHANGED <<durable, attempt, crashes, lock, call, rows, ledger, spent,
                 lost, uncounted>>

-----------------------------------------------------------------------------
(* Mutated form: the replacement starts with a fresh tracker.              *)
RestoredNothing(r) == FreshTracker

(* restore_snapshot: the durable record, and no reservation in flight.     *)
Restored(r) ==
  [FreshTracker EXCEPT !.calls = durable[r].calls, !.out = durable[r].out,
                       !.cost = durable[r].cost]

(* The process dies or loses the run, with some of its requests charged by *)
(* the provider all the same; a replacement restores the durable record.   *)
Crash(r, charged, kept) ==
  /\ crashes[r] < MaxCrashes[r]
  /\ charged \subseteq {c \in ThreadsOf[r] : call[r][c].pc = "sent"}
  /\ crashes' = [crashes EXCEPT ![r] = @ + 1]
  /\ attempt' = [attempt EXCEPT ![r] = IF kept THEN @ ELSE @ + 1]
  /\ tracker' = [tracker EXCEPT ![r] = Restored(r)]
  /\ spent' = [spent EXCEPT ![r] =
                 @ + SumFunctionOnSet([c \in charged |-> call[r][c].cap], charged)]
  /\ lost' = [lost EXCEPT ![r] =
                @ + tracker[r].cost + tracker[r].resCost - durable[r].cost]
  /\ call' = [call EXCEPT ![r] = [c \in Threads |-> NoCall]]
  /\ lock' = [lock EXCEPT ![r] = NoThread]
  /\ UNCHANGED <<durable, rows, ledger, uncounted>>

CallNext(r, c) ==
  \/ \E requested \in Caps : OpenCall(r, c, requested)
  \/ Reserve(r, c)
  \/ LedgerReserved(r, c) \/ RecordAdmission(r, c) \/ AdmissionWriteFails(r, c)
  \/ \E charged \in 0 .. call[r][c].cap :
       \E verdict \in Verdicts(call[r][c].cap, charged) :
         Answer(r, c, charged, verdict)
  \/ SettleCall(r, c) \/ SettlementFails(r, c)
  \/ LedgerSettled(r, c) \/ RecordSettlement(r, c) \/ SettlementWriteFails(r, c)

BudgetNext ==
  \E r \in Runs :
    \/ \E c \in ThreadsOf[r] : CallNext(r, c)
    \/ RailTrips(r)
    \/ \E charged \in SUBSET ThreadsOf[r] : \E kept \in BOOLEAN : Crash(r, charged, kept)

BudgetSpec == BudgetInit /\ [][BudgetNext]_budgetVars

-----------------------------------------------------------------------------
(* Properties.                                                             *)

(* However many calls are in flight, what a run has recorded and what its  *)
(* calls still hold stay within its dollar and output-token ceilings       *)
(* (open_call reserves before it admits), and what the provider really     *)
(* charged exceeds the ceiling by no more than what its dead processes     *)
(* held when they died (restore_snapshot restores no reservation).         *)
RunCeilings ==
  \A r \in Runs :
    /\ tracker[r].cost + tracker[r].resCost <= MaxCostPerRun
    /\ tracker[r].out + tracker[r].resOut <= MaxOutputTokens
    /\ spent[r] <= MaxCostPerRun + lost[r]

(* Restarts do not buy calls: over all its processes a run sends at most   *)
(* max_model_calls_per_run requests, since an admission is durable before  *)
(* its request goes out.                                                   *)
CallsBoundedAcrossRestarts ==
  \A r \in Runs :
    SumFunctionOnSet([k \in RowKeys |-> rows[k].uses],
                     {k \in RowKeys : k[1] = r}) <= MaxModelCalls[r]

(* A reservation row pays for one request, although a replacement may      *)
(* claim under its predecessor's attempt number and the insert returns the *)
(* row it finds (reserve_model_call_budget_for_attempt).                   *)
ReservationServesOneRequest ==
  \A k \in RowKeys : rows[k].uses <= 1

(* Across all runs, processes and crashes, what the provider charged in a  *)
(* day exceeds the daily budget by no more than the charges the            *)
(* reservation rows do not carry: those of calls released at full cost,    *)
(* and the part of a cap above the estimate of a row it found.             *)
DailySpendBounded ==
  SumFunctionOnSet(spent, Runs) <= DailyBudget + uncounted

=============================================================================
