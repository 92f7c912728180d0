--------------------------- MODULE WorkScopeProofs ---------------------------
(***************************************************************************)
(* Proofs about a mapping plan and its preparation, interleaved in every    *)
(* way: batches are worked through in order and settled once, and what the  *)
(* two views offer is what the database accepts.                            *)
(***************************************************************************)
EXTENDS PreparationRequests, FiniteSetTheorems, WellFoundedInduction, TLAPS

scopeVars == <<planVars, prepVars>>

WorkScopeInit == PlanInit /\ PrepInit
WorkScopeNext ==
    \/ PlanNext /\ UNCHANGED prepVars
    \/ PrepNext /\ UNCHANGED <<head, edit, controls, run, click>>

\* the plan's life and its preparations, each step of either at any time
WorkScope == WorkScopeInit /\ [][WorkScopeNext]_scopeVars

-----------------------------------------------------------------------------
(* Types. *)

Revisions == 1..MaxRevisions
BatchNames == Revisions \X (1..MaxBatches)
RunRecords ==
    {NoRun} \cup [batch : BatchNames, by : Clicks, status : RUN_STATES, launch : LAUNCH_STATES]
ClickRecords ==
    [pc : {"idle", "read", "launch", "lost", "done"},
     batch : BatchNames \cup {<<0, 0>>}, run : BatchRuns \cup {0}]

PlanTyped ==
    /\ head \in Revisions
    /\ cut \in [Revisions -> {NotPrepared} \cup 0..MaxBatches]
    /\ run \in [BatchRuns -> RunRecords]
    /\ click \in [Clicks -> ClickRecords]
    /\ \A q \in Clicks : click[q].pc \in {"read", "launch", "lost"} => click[q].batch \in BatchNames
    /\ \A q \in Clicks : click[q].pc = "launch" => click[q].run \in Created

\* a bound run belongs to a batch of a prepared revision, after settled ones
RunsInOrder ==
    \A r \in Created :
        /\ run[r].batch \in Batches(run[r].batch[1])
        /\ \A c \in Batches(run[r].batch[1]) : c[2] < run[r].batch[2] => Settled(c)

\* one run at a time, and its batch is open
OneLive ==
    /\ \A r, s \in Live : r = s
    /\ \A r \in Live : ~Settled(run[r].batch)

SettledOnce ==
    \A r, s \in Created :
        SettledBy(r) /\ SettledBy(s) /\ run[r].batch = run[s].batch => r = s


-----------------------------------------------------------------------------
(* Sets of runs. *)

LEMMA StatusFacts ==
    /\ {"queued", "running"} \cap TERMINAL_STATES = {}
    /\ {"completed", "partial_success", "failed", "cancelled"} \subseteq TERMINAL_STATES
    /\ {"queued", "running", "completed", "partial_success", "failed", "cancelled"}
         \subseteq RUN_STATES
    /\ "none" \notin RUN_STATES
    /\ {"pending", "launching", "launched", "launch_failed", "launch_unknown"}
         \subseteq LAUNCH_STATES
BY DEF TERMINAL_STATES, RUN_STATES, LAUNCH_STATES

LEMMA CreatedRecord ==
    ASSUME PlanTyped, NEW r \in Created
    PROVE  /\ r \in BatchRuns
           /\ run[r] \in [batch : BatchNames, by : Clicks,
                          status : RUN_STATES, launch : LAUNCH_STATES]
BY DEF PlanTyped, Created, RunRecords, NoRun

\* the first run id not used yet exists
LEMMA SmallestUnused ==
    ASSUME NEW S \in SUBSET Nat, S # {} PROVE \E r \in S : \A s \in S : r <= s
<1> DEFINE R == OpToRel(<, Nat)
<1>1. IsWellFoundedOn(R, Nat)
  BY NatLessThanWellFounded
<1>2. PICK r \in S : \A s \in S : <<s, r>> \notin R
  <2> HIDE DEF R
  <2> QED BY <1>1, WFMin
<1>3. \A s \in S : ~(s < r)
  BY <1>2 DEF OpToRel
<1> QED BY <1>3

\* what the order of the batches and the runs say of each other depends on the
\* runs' batches and statuses alone
OrderInv == RunsInOrder /\ OneLive /\ SettledOnce

LEMMA OrderKept ==
    ASSUME OrderInv, UNCHANGED cut,
           \A r \in BatchRuns : /\ run'[r].status = run[r].status
                                /\ run'[r].batch = run[r].batch
    PROVE  OrderInv' /\ Created' = Created /\ Live' = Live
<1>1. Created' = Created /\ Live' = Live
  BY DEF Created, Live
<1>2. Created \subseteq BatchRuns /\ Live \subseteq Created
  BY DEF Created, Live
<1>3. \A b : Settled(b)' <=> Settled(b)
  BY <1>1, <1>2 DEF Settled, SettledBy
<1>4. \A v : Batches(v)' = Batches(v)
  BY DEF Batches
<1>5. RunsInOrder'
  BY <1>1, <1>2, <1>3, <1>4 DEF OrderInv, RunsInOrder
<1>6. OneLive'
  BY <1>1, <1>2, <1>3 DEF OrderInv, OneLive
<1>7. SettledOnce'
  BY <1>1, <1>2 DEF OrderInv, SettledOnce, SettledBy
<1> QED BY <1>1, <1>5, <1>6, <1>7 DEF OrderInv

\* the live run starts or ends: only its own batch may become settled, and it
\* was open
LEMMA StatusMoves ==
    ASSUME PlanTyped, OrderInv, UNCHANGED cut,
           NEW r \in BatchRuns, run[r].status \in {"queued", "running"},
           NEW new \in RUN_STATES, run' = [run EXCEPT ![r].status = new]
    PROVE  OrderInv' /\ Created' = Created
<1>1. r \in Live /\ r \in Created
  BY StatusFacts DEF Live, Created
<1>2. /\ \A s \in BatchRuns : run'[s].batch = run[s].batch
      /\ \A s \in BatchRuns : s # r => run'[s].status = run[s].status
      /\ run'[r].status = new
  BY <1>1, CreatedRecord DEF PlanTyped
<1>3. Created' = Created
  BY <1>1, <1>2, StatusFacts DEF Created
<1>4. Live' \subseteq {r} /\ Created \subseteq BatchRuns
  BY <1>1, <1>2 DEF Live, Created, OrderInv, OneLive
<1>5. \A s \in Created : SettledBy(s) => s # r /\ SettledBy(s)'
  BY <1>1, <1>2 DEF SettledBy, Live, TERMINAL_STATES, Created
<1>6. \A s \in Created : SettledBy(s)' => SettledBy(s) \/ s = r
  BY <1>2 DEF SettledBy, Created
<1>7. \A b : Settled(b) => Settled(b)'
  BY <1>2, <1>3, <1>4, <1>5 DEF Settled
<1>8. RunsInOrder'
  <2>1. \A v : Batches(v)' = Batches(v)
    BY DEF Batches
  <2> QED BY <1>2, <1>3, <1>4, <1>7, <2>1 DEF OrderInv, RunsInOrder
<1>9. OneLive'
  <2>1. CASE new \in TERMINAL_STATES
    BY <1>2, <1>4, <2>1 DEF OneLive, Live
  <2>2. CASE new \notin TERMINAL_STATES
    <3>1. ~SettledBy(r)'
      BY <1>2, <2>2 DEF SettledBy, TERMINAL_STATES
    <3>2. \A b : Settled(b)' => Settled(b)
      BY <1>2, <1>3, <1>4, <1>6, <3>1 DEF Settled
    <3> QED BY <1>1, <1>2, <1>4, <3>2 DEF OrderInv, OneLive
  <2> QED BY <2>1, <2>2
<1>10. SettledOnce'
  <2> SUFFICES ASSUME NEW s \in Created, NEW t \in Created, SettledBy(s)', SettledBy(t)',
                      run'[s].batch = run'[t].batch
               PROVE  s = t
    BY <1>3 DEF SettledOnce
  <2>1. run[s].batch = run[t].batch
    BY <1>2, <1>4
  <2>2. ~SettledBy(s) \/ s # r
    BY <1>5
  <2>3. ASSUME NEW u \in Created, SettledBy(u), run[u].batch = run[r].batch PROVE FALSE
    BY <1>1, <2>3 DEF OrderInv, OneLive, Settled
  <2> QED BY <1>6, <2>1, <2>3 DEF OrderInv, SettledOnce
<1> QED BY <1>3, <1>8, <1>9, <1>10 DEF OrderInv

\* a revision's batches are cut when it has none, so no run is bound to them
LEMMA CutMoves ==
    ASSUME PlanTyped, OrderInv, UNCHANGED run, cut[head] = NotPrepared,
           NEW n, cut' = [cut EXCEPT ![head] = n]
    PROVE  OrderInv'
<1>1. Created' = Created /\ Live' = Live /\ \A b : Settled(b)' <=> Settled(b)
  BY DEF Created, Live, Settled, SettledBy
<1>2. Batches(head) = {} /\ \A v \in Revisions : v # head => Batches(v)' = Batches(v)
  BY DEF Batches, PlanTyped
<1>3. RunsInOrder'
  <2> SUFFICES ASSUME NEW r \in Created
               PROVE  /\ run[r].batch \in Batches(run[r].batch[1])'
                      /\ \A c \in Batches(run[r].batch[1])' :
                            c[2] < run[r].batch[2] => Settled(c)
    BY <1>1 DEF RunsInOrder
  <2>1. run[r].batch \in Batches(run[r].batch[1]) /\ run[r].batch[1] # head
    BY <1>2 DEF OrderInv, RunsInOrder
  <2>2. run[r].batch[1] \in Revisions
    BY CreatedRecord DEF BatchNames
  <2>3. Batches(run[r].batch[1])' = Batches(run[r].batch[1])
    BY <1>2, <2>1, <2>2
  <2> QED BY <2>1, <2>3 DEF OrderInv, RunsInOrder
<1>4. OneLive'
  BY <1>1 DEF OrderInv, OneLive
<1>5. SettledOnce'
  BY <1>1 DEF OrderInv, SettledOnce, SettledBy
<1> QED BY <1>3, <1>4, <1>5 DEF OrderInv

\* a run is bound while none is live, to the lowest open batch
LEMMA NewRun ==
    ASSUME PlanTyped, OrderInv, UNCHANGED cut, Live = {},
           NEW b, IsNext(b), NEW q,
           NEW r \in BatchRuns \ Created,
           run' = [run EXCEPT ![r] =
                      [batch |-> b, by |-> q, status |-> "queued", launch |-> "pending"]]
    PROVE  OrderInv' /\ Created' = Created \cup {r}
<1>1. /\ run'[r].batch = b /\ run'[r].status = "queued"
      /\ \A s \in BatchRuns : s # r => run'[s] = run[s]
  BY DEF PlanTyped
<1>2. Created' = Created \cup {r} /\ Created \subseteq BatchRuns /\ r \notin Created
  BY <1>1 DEF Created
<1>3. Live' \subseteq {r}
  BY <1>1, <1>2 DEF Live
<1>4. \A s \in Created' : SettledBy(s)' => s \in Created /\ SettledBy(s) /\ run'[s] = run[s]
  BY <1>1, <1>2 DEF SettledBy
<1>5. \A s \in Created : SettledBy(s) => SettledBy(s)' /\ run'[s] = run[s]
  BY <1>1, <1>2 DEF SettledBy
<1>6. \A c : Settled(c)' <=> Settled(c)
  BY <1>2, <1>4, <1>5 DEF Settled
<1>7. \A v : Batches(v)' = Batches(v)
  BY DEF Batches
<1>8. RunsInOrder'
  <2> SUFFICES ASSUME NEW s \in Created'
               PROVE  /\ run'[s].batch \in Batches(run'[s].batch[1])
                      /\ \A c \in Batches(run'[s].batch[1]) :
                            c[2] < run'[s].batch[2] => Settled(c)
    BY <1>6, <1>7 DEF RunsInOrder
  <2>1. CASE s = r
    BY <1>1, <2>1 DEF IsNext
  <2>2. CASE s # r
    BY <1>1, <1>2, <2>2 DEF OrderInv, RunsInOrder
  <2> QED BY <2>1, <2>2
<1>9. OneLive'
  BY <1>1, <1>3, <1>6 DEF OneLive, IsNext
<1>10. SettledOnce'
  BY <1>4 DEF OrderInv, SettledOnce
<1> QED BY <1>2, <1>8, <1>9, <1>10 DEF OrderInv

-----------------------------------------------------------------------------
(* The steps of the plan. *)

PlanInv == PlanTyped /\ OrderInv

LEMMA PlanInvInit == ASSUME PlanInit PROVE PlanInv
<1>1. Created = {} /\ Live = {}
  BY DEF PlanInit, Created, Live, NoRun
<1>2. PlanTyped
  BY MappingPlanConstants
     DEF PlanInit, PlanTyped, Revisions, RunRecords, ClickRecords
<1> QED BY <1>1, <1>2 DEF PlanInv, OrderInv, RunsInOrder, OneLive, SettledOnce

\* a change of one bound run's status or launch state keeps its record typed
LEMMA RunMoves ==
    ASSUME PlanInv, UNCHANGED <<head, cut, click>>, NEW r \in Created,
           \/ \E new \in RUN_STATES : /\ run[r].status \in {"queued", "running"}
                                      /\ run' = [run EXCEPT ![r].status = new]
           \/ \E new \in LAUNCH_STATES : run' = [run EXCEPT ![r].launch = new]
    PROVE  PlanInv'
<1> USE DEF PlanInv
<1>1. /\ r \in BatchRuns
      /\ run[r] \in [batch : BatchNames, by : Clicks, status : RUN_STATES, launch : LAUNCH_STATES]
  BY CreatedRecord
<1>2. run' \in [BatchRuns -> RunRecords]
  BY <1>1 DEF PlanTyped, RunRecords
<1>3. CASE \E new \in RUN_STATES : /\ run[r].status \in {"queued", "running"}
                                   /\ run' = [run EXCEPT ![r].status = new]
  BY <1>1, <1>2, <1>3, StatusMoves DEF PlanTyped
<1>4. CASE \E new \in LAUNCH_STATES : run' = [run EXCEPT ![r].launch = new]
  <2>1. \A s \in BatchRuns : run'[s].status = run[s].status /\ run'[s].batch = run[s].batch
    BY <1>1, <1>4 DEF PlanTyped
  <2> QED BY <1>2, <2>1, OrderKept DEF PlanTyped
<1> QED BY <1>3, <1>4

\* a request moves on, and no run does
LEMMA ClickMoves ==
    ASSUME PlanInv, UNCHANGED <<head, cut, run>>, NEW q \in Clicks, NEW after \in ClickRecords,
           click' = [click EXCEPT ![q] = after],
           after.pc \in {"read", "launch", "lost"} => after.batch \in BatchNames,
           after.pc = "launch" => after.run \in Created
    PROVE  PlanInv'
<1> USE DEF PlanInv
<1>1. OrderInv' /\ Created' = Created
  BY OrderKept
<1>2. /\ click' \in [Clicks -> ClickRecords] /\ click'[q] = after
      /\ \A p \in Clicks : p # q => click'[p] = click[p]
  BY DEF PlanTyped
<1> QED BY <1>1, <1>2 DEF PlanTyped

LEMMA ClickFacts ==
    ASSUME PlanTyped, NEW q \in Clicks, NEW pc \in {"read", "launch", "lost"},
           click[q].batch \in BatchNames
    PROVE  /\ ClickDone \in ClickRecords /\ ClickDone.pc = "done"
           /\ [click[q] EXCEPT !.pc = pc] \in ClickRecords
           /\ [click[q] EXCEPT !.pc = pc].pc = pc
           /\ [click[q] EXCEPT !.pc = pc].batch = click[q].batch
BY DEF PlanTyped, ClickRecords, ClickDone

LEMMA CreateStep ==
    ASSUME PlanInv, NEW q \in Clicks, CreateBatchRun(q) PROVE PlanInv'
<1> USE DEF PlanInv
<1> DEFINE b == click[q].batch
           answer == Decision(q, b)
           fresh == CHOOSE r \in BatchRuns \ Created : \A s \in BatchRuns \ Created : r <= s
<1>1. /\ click[q].pc = "read" /\ b \in BatchNames /\ UNCHANGED <<head, cut>>
      /\ click[q] \in ClickRecords
  BY DEF CreateBatchRun, PlanTyped
<1>2. CASE answer = "refused"
  <2>1. click' = [click EXCEPT ![q] = ClickDone] /\ UNCHANGED run
    BY <1>2 DEF CreateBatchRun
  <2> QED BY <1>1, <2>1, ClickMoves, ClickFacts
<1>3. CASE answer = "created"
  <2>1. /\ Created # BatchRuns
        /\ run' = [run EXCEPT ![fresh] =
                      [batch |-> b, by |-> q, status |-> "queued", launch |-> "pending"]]
        /\ click' = [click EXCEPT ![q] = [click[q] EXCEPT !.pc = "launch", !.run = fresh]]
    BY <1>3 DEF CreateBatchRun
  <2>2. fresh \in BatchRuns \ Created
    <3>1. BatchRuns \ Created # {} /\ BatchRuns \ Created \in SUBSET Nat
      BY <2>1, MappingPlanConstants DEF Created
    <3> QED BY <3>1, SmallestUnused
  <2>3. Live = {} /\ IsNext(b)
    BY <1>3 DEF Decision
  <2> HIDE DEF fresh, answer
  <2>4. OrderInv' /\ Created' = Created \cup {fresh}
    BY <1>1, <2>1, <2>2, <2>3, NewRun
  <2>5. run' \in [BatchRuns -> RunRecords]
    BY <1>1, <2>1, <2>2, StatusFacts DEF PlanTyped, RunRecords
  <2>6. /\ click' \in [Clicks -> ClickRecords]
        /\ click'[q].pc = "launch" /\ click'[q].run = fresh /\ click'[q].batch = b
        /\ \A p \in Clicks : p # q => click'[p] = click[p]
    BY <1>1, <2>1, <2>2 DEF PlanTyped, ClickRecords
  <2> QED BY <1>1, <2>4, <2>5, <2>6 DEF PlanTyped
<1>4. CASE answer \notin {"refused", "created"}
  <2>1. PICK r \in Created :
           /\ click' = [click EXCEPT ![q] = [click[q] EXCEPT !.pc = "launch", !.run = r]]
           /\ UNCHANGED run
    BY <1>4 DEF CreateBatchRun
  <2> DEFINE after == [click[q] EXCEPT !.pc = "launch", !.run = r]
  <2>2. after \in ClickRecords /\ after.batch \in BatchNames /\ after.run \in Created
    BY <1>1 DEF ClickRecords, Created
  <2>3. click' = [click EXCEPT ![q] = after] /\ UNCHANGED run
    BY <2>1
  <2> HIDE DEF after
  <2> QED BY <1>1, <2>2, <2>3, ClickMoves
<1> QED BY <1>2, <1>3, <1>4

LEMMA LaunchStep ==
    ASSUME PlanInv, NEW q \in Clicks, LaunchBatchRun(q) PROVE PlanInv'
<1> USE DEF PlanInv
<1>1. /\ click[q].run \in Created /\ click[q].batch \in BatchNames /\ UNCHANGED <<head, cut>>
      /\ click' = [click EXCEPT ![q] = ClickDone]
  BY DEF LaunchBatchRun, PlanTyped
<1>2. CASE UNCHANGED run
  BY <1>1, <1>2, ClickMoves, ClickFacts
<1>3. ASSUME NEW answer \in {"launched", "launch_failed", "launch_unknown", "launching"},
             run' = [run EXCEPT ![click[q].run].launch = answer]
      PROVE  PlanInv'
  <2> DEFINE r == click[q].run
  <2>1. /\ r \in BatchRuns
        /\ run[r] \in [batch : BatchNames, by : Clicks, status : RUN_STATES, launch : LAUNCH_STATES]
    BY <1>1, CreatedRecord
  <2>2. /\ run' \in [BatchRuns -> RunRecords]
        /\ \A s \in BatchRuns : run'[s].status = run[s].status /\ run'[s].batch = run[s].batch
    BY <1>3, <2>1, StatusFacts DEF PlanTyped, RunRecords
  <2>3. OrderInv' /\ Created' = Created
    BY <1>1, <2>2, OrderKept
  <2>4. /\ click' \in [Clicks -> ClickRecords] /\ click'[q].pc = "done"
        /\ \A p \in Clicks : p # q => click'[p] = click[p]
    BY <1>1, ClickFacts DEF PlanTyped
  <2> QED BY <1>1, <2>2, <2>3, <2>4 DEF PlanTyped
<1> QED BY <1>2, <1>3 DEF LaunchBatchRun

\* the cut of a revision's queue, by the database or by an execution of the job
LEMMA CutStep ==
    ASSUME PlanInv, UNCHANGED <<head, run, click>>, NEW n \in 0..MaxBatches,
           cut[head] = NotPrepared, cut' = [cut EXCEPT ![head] = n]
    PROVE  PlanInv'
<1>1. Created' = Created
  BY DEF Created
<1> QED BY <1>1, CutMoves DEF PlanInv, PlanTyped

\* what the plan does not say of its runs and batches may change
LEMMA PlanInvKept ==
    ASSUME PlanInv, UNCHANGED <<cut, run, click>>, head' \in Revisions PROVE PlanInv'
BY OrderKept DEF PlanInv, PlanTyped

LEMMA PlanStep == ASSUME PlanInv, PlanNext PROVE PlanInv'
<1>1. ASSUME NEW e \in Editors, ResolveRevision(e) \/ WriteRevision(e) PROVE PlanInv'
  BY <1>1, PlanInvKept, MappingPlanConstants
     DEF ResolveRevision, WriteRevision, PlanInv, PlanTyped, Revisions
<1>2. CASE SetPaused
  BY <1>2, PlanInvKept DEF SetPaused, PlanInv, PlanTyped
<1>3. ASSUME NEW n \in 0..MaxBatches, PrepareQueue(n) PROVE PlanInv'
  BY <1>3, CutStep DEF PrepareQueue
<1>4. ASSUME NEW q \in Clicks, NEW n \in 1..MaxBatches, BatchRequest(q, <<head, n>>) PROVE PlanInv'
  <2> DEFINE after == [click[q] EXCEPT !.pc = "read", !.batch = <<head, n>>]
  <2>1. /\ after \in ClickRecords /\ after.pc = "read" /\ after.batch \in BatchNames
    BY DEF PlanInv, PlanTyped, ClickRecords, BatchNames
  <2>2. click' = [click EXCEPT ![q] = after] /\ UNCHANGED <<head, cut, run>>
    BY <1>4 DEF BatchRequest
  <2> HIDE DEF after
  <2> QED BY <2>1, <2>2, ClickMoves
<1>5. ASSUME NEW q \in Clicks, ClickLost(q) PROVE PlanInv'
  <2>1. /\ click[q].batch \in BatchNames /\ UNCHANGED <<head, cut, run>>
        /\ click' = [click EXCEPT ![q] = [click[q] EXCEPT !.pc = "lost"]]
    BY <1>5 DEF ClickLost, PlanInv, PlanTyped
  <2> QED BY <2>1, ClickFacts, ClickMoves DEF PlanInv
<1>6. ASSUME NEW r \in BatchRuns, \/ BatchRunStarts(r) \/ ReconcileBatchRun(r) \/ RetireBatchRun(r)
                                  \/ \E status \in {"completed", "partial_success", "failed"} :
                                        BatchRunEnds(r, status)
      PROVE  PlanInv'
  <2>1. r \in Created /\ run[r].status \in {"queued", "running"} /\ UNCHANGED <<head, cut, click>>
    BY <1>6 DEF BatchRunStarts, ReconcileBatchRun, RetireBatchRun, BatchRunEnds, Unlaunched,
                Created
  <2>2. \/ \E new \in RUN_STATES : run' = [run EXCEPT ![r].status = new]
        \/ \E new \in LAUNCH_STATES : run' = [run EXCEPT ![r].launch = new]
    BY <1>6, StatusFacts
       DEF BatchRunStarts, ReconcileBatchRun, RetireBatchRun, BatchRunEnds
  <2> QED BY <2>1, <2>2, RunMoves
<1> QED BY <1>1, <1>2, <1>3, <1>4, <1>5, <1>6, CreateStep, LaunchStep DEF PlanNext

-----------------------------------------------------------------------------
(* The steps of a preparation. *)

Triggers == {"none", "claimed", "triggered", "trigger_failed"}
RequestRows ==
    [attempt : Nat, run : Nat \X Nat, trigger : Triggers, aged : BOOLEAN]
CallerRecords ==
    [pc : {"idle", "asked", "claimed", "created", "owned", "bound", "posted", "done"},
     at : Nat \X Nat, run : Nat \X Nat,
     outcome : {"none", "triggered", "trigger_failed"}]

RequestsTyped ==
    /\ request \in [Revisions -> RequestRows]
    /\ caller \in [Callers -> CallerRecords]
    /\ \A c \in Callers : caller[c].pc \notin {"idle", "done"} => caller[c].at[1] \in Revisions
    /\ \A c \in Callers : caller[c].pc = "posted" => caller[c].outcome # "none"

\* recording touches the trigger, the run it binds and the age of one row
LEMMA RecordedTyped ==
    ASSUME RequestsTyped, NEW c \in Callers, caller[c].pc \notin {"idle", "done"},
           NEW trigger \in Triggers, Recorded(c, trigger)
    PROVE  request' \in [Revisions -> RequestRows]
<1> DEFINE rev == caller[c].at[1]
           bound == IF caller[c].run = NoAttempt THEN request[rev].run ELSE caller[c].run
           aged == trigger # "triggered" /\ request[rev].aged
<1>1. request[rev] \in RequestRows /\ caller[c] \in CallerRecords
  BY DEF RequestsTyped
<1>2. bound \in Nat \X Nat /\ aged \in BOOLEAN
  BY <1>1 DEF RequestRows, CallerRecords
<1>3. CASE ~Recordable(c)
  BY <1>3 DEF Recorded, RequestsTyped
<1>4. CASE Recordable(c)
  <2>1. request' = [request EXCEPT ![rev] = [request[rev] EXCEPT
                        !.trigger = trigger, !.run = bound, !.aged = aged]]
    BY <1>4 DEF Recorded
  <2> HIDE DEF bound, aged, rev
  <2> QED BY <1>1, <1>2, <2>1 DEF RequestsTyped, RequestRows
<1> QED BY <1>3, <1>4

\* a caller moves on
LEMMA CallerMoves ==
    ASSUME RequestsTyped, request' \in [Revisions -> RequestRows],
           NEW c \in Callers, NEW after \in CallerRecords,
           caller' = [caller EXCEPT ![c] = after],
           after.pc \notin {"idle", "done"} => after.at[1] \in Revisions,
           after.pc = "posted" => after.outcome # "none"
    PROVE  RequestsTyped'
<1>1. /\ caller' \in [Callers -> CallerRecords] /\ caller'[c] = after
      /\ \A d \in Callers : d # c => caller'[d] = caller[d]
  BY DEF RequestsTyped
<1> QED BY <1>1 DEF RequestsTyped

LEMMA CallerFacts ==
    /\ CallerDone \in CallerRecords /\ CallerDone.pc = "done"
    /\ {"triggered", "trigger_failed", "claimed"} \subseteq Triggers
BY DEF CallerDone, CallerRecords, Triggers, NoAttempt

LEMMA ClaimRequestTyped ==
    ASSUME PlanInv, RequestsTyped, NEW c \in Callers, ClaimRequest(c) PROVE RequestsTyped'
<1> DEFINE rev == caller[c].at[1]
           row == request[rev]
           keep == /\ row.run # NoAttempt
                   /\ capture[row.run].status = "queued" /\ capture[row.run].holder = 0
                   /\ capture[row.run].launch = "none"
           next == [attempt |-> row.attempt + 1, run |-> IF keep THEN row.run ELSE NoAttempt,
                    trigger |-> "claimed", aged |-> FALSE]
           place == IF keep THEN "bound" ELSE "claimed"
           after == [caller[c] EXCEPT !.pc = place, !.at = <<rev, row.attempt + 1>>,
                                      !.run = next.run]
<1>1. rev \in Revisions /\ row \in RequestRows /\ caller[c] \in CallerRecords
  BY DEF ClaimRequest, RequestsTyped
<1>2. next \in RequestRows /\ place \in {"bound", "claimed"}
  BY <1>1 DEF RequestRows, Triggers, NoAttempt
<1>3. CASE ClaimDecision(rev) = "claimed"
  <2>1. request' = [request EXCEPT ![rev] = next] /\ caller' = [caller EXCEPT ![c] = after]
    BY <1>3 DEF ClaimRequest
  <2>2. next.run \in Nat \X Nat /\ <<rev, row.attempt + 1>> \in Nat \X Nat
    BY <1>1, <1>2 DEF RequestRows, Revisions
  <2> HIDE DEF next, place, row, rev
  <2>3. after \in CallerRecords /\ after.at[1] = rev /\ after.pc # "posted"
    BY <1>1, <1>2, <2>2 DEF CallerRecords
  <2>4. request' \in [Revisions -> RequestRows]
    BY <1>1, <1>2, <2>1 DEF RequestsTyped
  <2> HIDE DEF after
  <2> QED BY <1>1, <2>1, <2>3, <2>4, CallerMoves
<1>4. CASE ClaimDecision(rev) # "claimed"
  <2>1. caller' = [caller EXCEPT ![c] = CallerDone] /\ UNCHANGED request
    BY <1>4 DEF ClaimRequest
  <2> QED BY <2>1, CallerFacts, CallerMoves DEF RequestsTyped
<1> QED BY <1>3, <1>4

LEMMA CallerStepTyped ==
    ASSUME PlanInv, RequestsTyped, NEW c \in Callers, CallerSteps(c) \/ AskToPrepare(c, head)
    PROVE  RequestsTyped'
<1>1. caller[c] \in CallerRecords /\ request \in [Revisions -> RequestRows] /\ head \in Revisions
  BY DEF RequestsTyped, PlanInv, PlanTyped
<1>2. ASSUME request' \in [Revisions -> RequestRows],
             NEW after \in CallerRecords, caller' = [caller EXCEPT ![c] = after],
             caller[c].pc \notin {"idle", "done"}, after.at = caller[c].at,
             after.pc = "posted" => after.outcome # "none"
      PROVE  RequestsTyped'
  BY <1>2, CallerMoves DEF RequestsTyped
<1>3. ASSUME request' \in [Revisions -> RequestRows], caller' = [caller EXCEPT ![c] = CallerDone]
      PROVE  RequestsTyped'
  BY <1>3, CallerFacts, CallerMoves
<1>4. CASE AskToPrepare(c, head)
  <2> DEFINE after == [caller[c] EXCEPT !.pc = "asked", !.at = <<head, 0>>]
  <2>1. after \in CallerRecords /\ after.at[1] \in Revisions /\ after.pc = "asked"
    <3>1. <<head, 0>> \in Nat \X Nat
      BY <1>1, MappingPlanConstants DEF Revisions
    <3> QED BY <1>1, <3>1 DEF CallerRecords
  <2>2. caller' = [caller EXCEPT ![c] = after] \/ caller' = [caller EXCEPT ![c] = CallerDone]
    BY <1>4 DEF AskToPrepare
  <2>3. request' \in [Revisions -> RequestRows]
    BY <1>1, <1>4 DEF AskToPrepare
  <2> HIDE DEF after
  <2> QED BY <1>3, <2>1, <2>2, <2>3, CallerMoves
<1>5. CASE ClaimRequest(c)
  BY <1>5, ClaimRequestTyped
<1>6. CASE CreateCaptureRun(c)
  <2> DEFINE after == [caller[c] EXCEPT !.pc = "created", !.run = caller[c].at]
  <2>1. after \in CallerRecords /\ after.pc = "created" /\ after.at = caller[c].at
    BY <1>1 DEF CallerRecords
  <2>2. caller[c].pc = "claimed"
    BY <1>6 DEF CreateCaptureRun
  <2>3. CASE UNCHANGED request /\ caller' = [caller EXCEPT ![c] = after]
    <3> HIDE DEF after
    <3> QED BY <1>1, <1>2, <2>1, <2>2, <2>3
  <2>4. CASE Recorded(c, "trigger_failed") /\ caller' = [caller EXCEPT ![c] = CallerDone]
    BY <1>3, <2>2, <2>4, RecordedTyped, CallerFacts
  <2> QED BY <1>6, <2>3, <2>4 DEF CreateCaptureRun
<1>7. CASE OwnLaunch(c)
  <2> DEFINE after == [caller[c] EXCEPT !.pc = "owned"]
  <2>1. after \in CallerRecords /\ after.pc = "owned" /\ after.at = caller[c].at
    BY <1>1 DEF CallerRecords
  <2>2. caller[c].pc = "created" /\ UNCHANGED request
    BY <1>7 DEF OwnLaunch
  <2>3. caller' = [caller EXCEPT ![c] = after] \/ caller' = [caller EXCEPT ![c] = CallerDone]
    BY <1>7 DEF OwnLaunch
  <2> HIDE DEF after
  <2> QED BY <1>1, <1>2, <1>3, <2>1, <2>2, <2>3
<1>8. CASE BindRun(c)
  <2> DEFINE after == [caller[c] EXCEPT !.pc = "bound"]
  <2>1. after \in CallerRecords /\ after.pc = "bound" /\ after.at = caller[c].at
    BY <1>1 DEF CallerRecords
  <2>2. caller[c].pc = "owned" /\ Recorded(c, "claimed")
    BY <1>8 DEF BindRun
  <2>3. request' \in [Revisions -> RequestRows]
    BY <2>2, RecordedTyped, CallerFacts
  <2>4. caller' = [caller EXCEPT ![c] = after] \/ caller' = [caller EXCEPT ![c] = CallerDone]
    BY <1>8 DEF BindRun
  <2> HIDE DEF after
  <2> QED BY <1>2, <1>3, <2>1, <2>2, <2>3, <2>4
<1>9. CASE Trigger(c)
  <2>1. PICK outcome \in {"triggered", "trigger_failed"} :
          caller' = [caller EXCEPT ![c] = [caller[c] EXCEPT !.pc = "posted", !.outcome = outcome]]
    BY <1>9 DEF Trigger
  <2>2. caller[c].pc = "bound" /\ UNCHANGED request
    BY <1>9 DEF Trigger
  <2> DEFINE after == [caller[c] EXCEPT !.pc = "posted", !.outcome = outcome]
  <2>3. after \in CallerRecords /\ after.outcome # "none" /\ after.at = caller[c].at
    BY <1>1 DEF CallerRecords
  <2>4. caller' = [caller EXCEPT ![c] = after]
    BY <2>1
  <2> HIDE DEF after
  <2> QED BY <1>1, <1>2, <2>2, <2>3, <2>4
<1>10. CASE RecordOutcome(c)
  <2>1. caller[c].outcome \in Triggers /\ caller[c].pc = "posted"
    BY <1>1, <1>10, CallerFacts DEF RecordOutcome, CallerRecords, RequestsTyped
  <2>2. request' \in [Revisions -> RequestRows]
    BY <1>10, <2>1, RecordedTyped DEF RecordOutcome
  <2> QED BY <1>3, <1>10, <2>2 DEF RecordOutcome
<1> QED BY <1>4, <1>5, <1>6, <1>7, <1>8, <1>9, <1>10 DEF CallerSteps

WorkScopeInv == PlanInv /\ RequestsTyped

LEMMA WorkScopeInitInv == ASSUME WorkScopeInit PROVE WorkScopeInv
<1>1. RequestsTyped
  BY DEF WorkScopeInit, PrepInit, RequestsTyped, RequestRows, CallerRecords, NoRequest,
         NoAttempt, Triggers, Revisions
<1> QED BY <1>1, PlanInvInit DEF WorkScopeInv, WorkScopeInit

\* a preparation changes nothing of the plan but the cut of an uncut head
LEMMA PrepStep ==
    ASSUME WorkScopeInv, PrepNext, UNCHANGED <<head, edit, controls, run, click>>
    PROVE  WorkScopeInv'
<1> USE DEF WorkScopeInv
<1>1. ASSUME NEW x \in Executions, WriteQueue(x, MaxBatches) PROVE WorkScopeInv'
  <2>1. RequestsTyped'
    BY <1>1 DEF WriteQueue, RequestsTyped
  <2>2. CASE UNCHANGED cut
    BY <2>1, <2>2, PlanInvKept DEF PlanInv, PlanTyped
  <2>3. CASE cut[head] = NotPrepared /\ cut' = [cut EXCEPT ![head] = MaxBatches]
    <3>1. MaxBatches \in 0..MaxBatches /\ UNCHANGED <<head, run, click>>
      BY MappingPlanConstants
    <3>2. PlanInv'
      BY <2>3, <3>1, CutStep
    <3> QED BY <2>1, <3>2
  <2> QED BY <1>1, <2>2, <2>3 DEF WriteQueue, Prepared
<1>2. CASE UNCHANGED cut
  <2>1. PlanInv'
    BY <1>2, PlanInvKept DEF PlanInv, PlanTyped
  <2>2. ASSUME UNCHANGED <<request, caller>> PROVE RequestsTyped'
    BY <2>2 DEF RequestsTyped
  <2>3. ASSUME NEW x \in Executions, ExecutionSteps(x) PROVE RequestsTyped'
    BY <2>2, <2>3 DEF ExecutionSteps, CheckEligible, ClaimCapture, ReadPreparedRevision,
                      CaptureUnits, FinalizeCapture
  <2>4. ASSUME NEW a \in Attempts, CancelCapture(a) \/ LeaseRunsOut(a) \/ LeaseAges(a)
        PROVE  RequestsTyped'
    BY <2>2, <2>4 DEF CancelCapture, LeaseRunsOut, LeaseAges
  <2>5. ASSUME NEW rev \in Revisions, RequestAges(rev) PROVE RequestsTyped'
    BY <2>5 DEF RequestAges, RequestsTyped, RequestRows
  <2> QED BY <1>1, <2>1, <2>3, <2>4, <2>5, CallerStepTyped DEF PrepNext, Clock, Revisions
<1> QED BY <1>1, <1>2 DEF PrepNext

LEMMA WorkScopeStep ==
    ASSUME WorkScopeInv, [WorkScopeNext]_scopeVars PROVE WorkScopeInv'
<1>1. CASE PlanNext /\ UNCHANGED prepVars
  BY <1>1, PlanStep DEF WorkScopeInv, RequestsTyped, prepVars
<1>2. CASE PrepNext /\ UNCHANGED <<head, edit, controls, run, click>>
  BY <1>2, PrepStep
<1>3. CASE UNCHANGED scopeVars
  BY <1>3, PlanInvKept DEF WorkScopeInv, PlanInv, PlanTyped, RequestsTyped, scopeVars,
                           planVars, prepVars
<1> QED BY <1>1, <1>2, <1>3 DEF WorkScopeNext

-----------------------------------------------------------------------------
(* The results. *)

(* Bound runs follow their batches' order, one live at a time, and the      *)
(* requests to prepare keep their rows typed, through every interleaving of *)
(* revisions, pauses, starts, retries and preparations.                     *)
THEOREM WorkScopeInvariant == WorkScope => []WorkScopeInv
<1>1. WorkScopeInv /\ [WorkScopeNext]_scopeVars => WorkScopeInv'
  BY WorkScopeStep
<1> QED BY <1>1, WorkScopeInitInv, PTL DEF WorkScope

(* Batches are worked through one at a time, in order, and settled once     *)
(* (create_work_scope_batch_run, bind_work_scope_batch_run).                *)
THEOREM BatchesWorkedInOrder == WorkScope => []BatchesInOrder
<1>1. WorkScopeInv => BatchesInOrder
  <2> SUFFICES ASSUME WorkScopeInv PROVE BatchesInOrder
    OBVIOUS
  <2> USE DEF WorkScopeInv, PlanInv, OrderInv
  <2>1. Cardinality(Live) <= 1
    <3>1. CASE Live = {}
      BY <3>1, FS_EmptySet
    <3>2. CASE Live # {}
      <4>1. PICK r \in Live : Live = {r}
        BY <3>2 DEF OneLive
      <4> QED BY <4>1, FS_Singleton
    <3> QED BY <3>1, <3>2
  <2> QED BY <2>1 DEF BatchesInOrder, RunsInOrder, SettledOnce
<1> QED BY <1>1, WorkScopeInvariant, PTL

\* a key nobody used has no run
LEMMA FreshKey ==
    ASSUME PlanTyped PROVE {r \in Created : run[r].by = "fresh"} = {}
BY CreatedRecord, MappingPlanConstants

(* What the progress view offers is what the database accepts, in every     *)
(* state the plan reaches (_controls, create_work_scope_batch_run).         *)
THEOREM OfferIsAccepted == WorkScope => []OfferedIsAccepted
<1>1. WorkScopeInv => OfferedIsAccepted
  <2> SUFFICES ASSUME WorkScopeInv, NEW b \in UNION {Batches(v) : v \in 1..head}
               PROVE  Offered(b) <=>
                        \/ Decision("fresh", b) = "created"
                        \/ /\ Decision("fresh", b) = "running"
                           /\ \E r \in Live : run[r].batch = b /\ Unlaunched(r)
    BY DEF OfferedIsAccepted
  <2> USE DEF WorkScopeInv, PlanInv
  <2>1. Decision("fresh", b) =
          IF b[1] # head \/ Paused THEN "refused"
          ELSE IF \E r \in Live : run[r].batch = b THEN "running"
          ELSE IF Live # {} \/ ~IsNext(b) THEN "refused"
          ELSE "created"
    BY FreshKey DEF Decision
  <2>2. CASE b[1] # head \/ Paused
    BY <2>1, <2>2 DEF Offered, Relaunchable, Startable
  <2>3. CASE b[1] = head /\ ~Paused /\ Live # {}
    <3>1. ~Startable
      BY <2>3 DEF Startable, PlanStatus
    <3> QED BY <2>1, <2>3, <3>1 DEF Offered, Relaunchable
  <2>4. CASE b[1] = head /\ ~Paused /\ Live = {}
    <3>1. IsNext(b) => cut[head] # NotPrepared /\ cut[head] # 0 /\ PlanStatus = "ready"
      <4> SUFFICES ASSUME IsNext(b)
                   PROVE  cut[head] # NotPrepared /\ cut[head] # 0 /\ PlanStatus = "ready"
        OBVIOUS
      <4>1. b \in Batches(head)
        BY <2>4 DEF IsNext
      <4>2. cut[head] # NotPrepared /\ cut[head] # 0
        BY <4>1 DEF Batches
      <4> QED BY <2>4, <4>1, <4>2 DEF PlanStatus
    <3> QED BY <2>1, <2>4, <3>1 DEF Offered, Startable
  <2> QED BY <2>2, <2>3, <2>4
<1> QED BY <1>1, WorkScopeInvariant, PTL

(* Prepare is offered exactly when the claim is given, and a stale or a     *)
(* prepared revision is shown as such exactly when the database refuses it  *)
(* for that (derive_status, request_work_scope_preparation).                *)
THEOREM PreparationViewAgrees == WorkScope => []ViewAgreesWithDatabase
<1>1. WorkScopeInv => ViewAgreesWithDatabase
  <2> SUFFICES ASSUME WorkScopeInv, NEW rev \in 1..head
               PROVE  /\ CanPrepare(rev) <=> ClaimDecision(rev) = "claimed"
                      /\ DerivedStatus(rev).state = "stale" <=> ClaimDecision(rev) = "stale"
                      /\ DerivedStatus(rev).state = "prepared" <=> ClaimDecision(rev) = "prepared"
    BY DEF ViewAgreesWithDatabase
  <2>1. rev \in Revisions
    BY MappingPlanConstants DEF WorkScopeInv, PlanInv, PlanTyped, Revisions
  <2>2. request[rev].trigger \in Triggers
    BY <2>1 DEF WorkScopeInv, RequestsTyped, RequestRows
  <2>3. CASE rev # head
    BY <2>3 DEF CanPrepare, DerivedStatus, ClaimDecision
  <2>4. CASE rev = head /\ Prepared(rev)
    BY <2>4 DEF CanPrepare, DerivedStatus, ClaimDecision
  <2>5. CASE rev = head /\ ~Prepared(rev) /\ request[rev].trigger = "none"
    BY <2>5 DEF CanPrepare, DerivedStatus, ClaimDecision
  <2>6. CASE rev = head /\ ~Prepared(rev) /\ request[rev].trigger # "none"
    <3>1. ClaimDecision(rev) = IF Retryable(request[rev]) THEN "claimed" ELSE "existing"
      BY <2>6 DEF ClaimDecision
    <3>2. /\ DerivedStatus(rev).state \in {"failed", "preparing"}
          /\ (DerivedStatus(rev).state = "failed" /\ DerivedStatus(rev).retryable)
               <=> Retryable(request[rev])
      <4> DEFINE row == request[rev]
                 run_ == IF row.run = NoAttempt THEN NoCapture ELSE capture[row.run]
                 failed(retry) == [state |-> "failed", retryable |-> retry]
                 preparing == [state |-> "preparing", retryable |-> FALSE]
      <4>1. DerivedStatus(rev) =
              IF row.trigger = "trigger_failed" THEN failed(TRUE)
              ELSE IF row.trigger = "claimed"
                   THEN IF row.aged THEN failed(TRUE) ELSE preparing
              ELSE IF run_.status \in TERMINAL_STATES THEN failed(TRUE)
              ELSE IF run_.holder = 0
                   THEN IF run_.status = "queued" /\ row.aged THEN failed(TRUE) ELSE preparing
              ELSE IF run_.lease = "aged" THEN failed(FALSE) ELSE preparing
        BY <2>6 DEF DerivedStatus
      <4>2. CASE row.trigger \in {"trigger_failed", "claimed"}
        BY <4>1, <4>2 DEF Retryable
      <4>3. CASE row.trigger = "triggered"
        <5>1. "none" \notin TERMINAL_STATES
          BY DEF TERMINAL_STATES
        <5>2. CASE row.run = NoAttempt
          <6>1. run_.status = "none" /\ run_.holder = 0
            BY <5>2 DEF NoCapture
          <6> QED BY <4>1, <4>3, <5>1, <5>2, <6>1 DEF Retryable
        <5>3. CASE row.run # NoAttempt
          <6>1. run_ = capture[row.run]
            BY <5>3
          <6>2. "queued" \notin TERMINAL_STATES
            BY StatusFacts
          <6> QED BY <4>1, <4>3, <5>3, <6>1, <6>2 DEF Retryable
        <5> QED BY <5>2, <5>3
      <4> QED BY <2>2, <2>6, <4>2, <4>3 DEF Triggers
    <3> QED BY <3>1, <3>2 DEF CanPrepare
  <2> QED BY <2>3, <2>4, <2>5, <2>6
<1> QED BY <1>1, WorkScopeInvariant, PTL
=============================================================================
