----------------------- MODULE VariantCoverageProofs -----------------------
(* Proofs about VariantCoverage, for any runs, candidates, batches and       *)
(* numbers of processes: no variant is paid for by two runs at once, none is *)
(* paid for again once its enrichment is durable, and no promotion is        *)
(* stranded.                                                                 *)
EXTENDS VariantCoverage, TLAPS

-----------------------------------------------------------------------------
(* The states of the variables. *)

Contents == {ContentOf[c] : c \in Candidates}

Rows == [status : Statuses \cup {"none"}, content : SUBSET Contents, run : Runs \cup {NoRun}]

Results == UNION {[named -> Statuses] : named \in SUBSET Candidates}

Calls == [run : Runs, try : Nat, items : SUBSET Candidates]

ProcessTypes ==
    /\ status \in [Runs -> {"queued", "running", "finished", "ended"}]
    /\ lease \in [Runs -> {"live", "expired", "lapsed"}]
    /\ tries \in [Runs -> Nat]
    /\ pc \in [Runs -> {"gone", "preparing", "claiming", "settling", "prepared", "working",
                        "promoting", "reviewing", "finalizing", "recording", "refused"}]
    /\ queue \in [Runs -> SUBSET Candidates]
    /\ saved \in [Runs -> SUBSET Candidates]
    /\ todo \in [Runs -> SUBSET Runs]
    /\ calls \subseteq Calls
    /\ owner \in [Keys -> Runs \cup {NoRun}]
    /\ sweep \subseteq Runs

ResultTypes ==
    /\ ledger \in [Keys -> Rows]
    /\ inOrder \in [Keys -> Rows]
    /\ results \in Seq(Runs)
    /\ overtaken \subseteq Keys

PromotionTypes ==
    /\ output \in [Runs -> Results]
    /\ owed \in [Runs -> SUBSET Candidates]
    /\ refused \in [Runs -> SUBSET Candidates]
    /\ canonical \in [Candidates -> {0, 1}]

-----------------------------------------------------------------------------
(* The claims: who holds what while whose request runs. *)

CallsBelong == \A x \in calls : x.try <= tries[x.run]

LapsedQuiet == \A r \in Runs : lease[r] = "lapsed" => \A x \in calls : x.run # r

ProcessOfRun ==
    \A r \in Runs :
        /\ pc[r] \notin {"gone", "recording"} => status[r] = "running"
        /\ pc[r] = "recording" => status[r] = "finished"

\* Only a working process, or one that died working, has requests of its own.
Quiet ==
    \A x \in calls :
        x.try = tries[x.run] =>
            pc[x.run] \in {"working", "gone"} /\ status[x.run] \notin {"finished", "ended"}

SettledAreFinished ==
    /\ \A s \in sweep : status[s] = "finished"
    /\ \A r \in Runs : \A s \in todo[r] : status[s] = "finished"

\* A run holds the row of a key, or was told so while the row vanished.
Holds(r, k) == owner[k] = r \/ <<r, k>> \in bare

\* A request of the present process is covered by claims ...
CallsHold ==
    \A x \in calls :
        x.try = tries[x.run] => \A c \in x.items : Holds(x.run, KeyOf[c])

\* ... because its queue is, until the lease has lapsed.
Busy == {"prepared", "working", "promoting", "reviewing", "finalizing"}

QueueHeld ==
    \A r \in Runs :
        pc[r] \in Busy /\ lease[r] # "lapsed" => \A c \in queue[r] : Holds(r, KeyOf[c])

ClaimInv ==
    /\ ProcessTypes /\ CallsBelong /\ LapsedQuiet /\ ProcessOfRun /\ Quiet
    /\ SettledAreFinished /\ CallsHold /\ QueueHeld

-----------------------------------------------------------------------------
(* The promotions: what the present process or the result still answers for. *)

VerifiedAreQueued ==
    \A r \in Runs :
        pc[r] \in {"promoting", "reviewing", "finalizing"} =>
            \A c \in DOMAIN output[r] : output[r][c] = "enriched" => c \in queue[r]

Answered(r, c) == canonical[c] = 1 \/ c \in refused[r]

OwedIsWhole ==
    \A r \in Promotes :
        pc[r] = "reviewing" => \A c \in Verified(r) : c \in owed[r] \/ Answered(r, c)

NothingStranded ==
    \A r \in Promotes :
        pc[r] = "finalizing" \/ status[r] = "finished" =>
            \A c \in DOMAIN output[r] : output[r][c] = "enriched" => Answered(r, c)

PromotionInv ==
    PromotionTypes /\ VerifiedAreQueued /\ OwedIsWhole /\ NothingStranded

-----------------------------------------------------------------------------
(* The ledger: what it holds of each variant against the order the runs      *)
(* finished in. *)

FinishedOnce ==
    /\ \A i, j \in DOMAIN results : results[i] = results[j] => i = j
    /\ \A r \in Runs : status[r] = "finished" <=> \E i \in DOMAIN results : results[i] = r

Names(r, k) == \E c \in DOMAIN output[r] : KeyOf[c] = k

InOrderIsSettled ==
    \A k \in Keys :
        inOrder[k] = NoRow
        \/ LET s == inOrder[k].run
           IN  /\ s \in Runs /\ status[s] = "finished" /\ Names(s, k)
               /\ inOrder[k] = Settled(s, output[s], k)

\* No run that finished later has anything that replaces it.
LaterYields ==
    \A k \in Keys : \A u \in Runs :
        Before(inOrder[k].run, u) /\ Names(u, k) =>
            ~Replaces(Settled(u, output[u], k), inOrder[k])

\* A durable enrichment is in the ledger or still has its run's claim before it.
EnrichedIsKnown ==
    \A k \in Keys \ (overtaken \cup BareKeys) :
        inOrder[k].status = "enriched" =>
            owner[k] = inOrder[k].run \/ ledger[k] = inOrder[k]

Paid(c) == inOrder[KeyOf[c]].status = "enriched" /\ inOrder[KeyOf[c]].content = {ContentOf[c]}

QueueUnpaid ==
    \A r \in Runs :
        pc[r] \in {"prepared", "working"} /\ lease[r] # "lapsed" =>
            \A c \in queue[r] : KeyOf[c] \notin overtaken \cup BareKeys => ~Paid(c)

LedgerInv ==
    /\ ResultTypes /\ FinishedOnce /\ InOrderIsSettled /\ LaterYields
    /\ EnrichedIsKnown /\ QueueUnpaid /\ PaidOnce

-----------------------------------------------------------------------------
(* The claims are kept. *)

LEMMA KeyOfCandidate == \A c \in Candidates : KeyOf[c] \in Keys
BY DEF Keys

LEMMA WantedCandidates == ASSUME ProcessTypes, NEW r \in Runs PROVE Wanted(r) \subseteq Candidates
BY CandidateAssumption DEF ProcessTypes, Wanted

\* What a claim takes: nothing from a run that is not dead.
LEMMA AcquiredTakes ==
    ASSUME ProcessTypes, NEW r \in Runs, NEW missed
    PROVE  /\ Acquired(r, missed) \in [Keys -> Runs \cup {NoRun}]
           /\ \A c \in Wanted(r) : Answer(r, c, missed) = "reserved" =>
                  Acquired(r, missed)[KeyOf[c]] = r \/ KeyOf[c] \in Bared(r, missed)
           /\ \A s \in Runs \ {r} : \A k \in Keys :
                  /\ owner[k] = s /\ status[s] # "ended"
                  /\ lease[s] # "lapsed" \/ status[s] = "finished"
                  => Acquired(r, missed)[k] = s
<1>1. \A c \in Wanted(r) : KeyOf[c] \in Keys
  BY KeyOfCandidate, WantedCandidates
<1>2. Acquired(r, missed) \in [Keys -> Runs \cup {NoRun}]
  BY DEF Acquired, ProcessTypes
<1>3. ASSUME NEW c \in Wanted(r), Answer(r, c, missed) = "reserved"
      PROVE  Acquired(r, missed)[KeyOf[c]] = r \/ KeyOf[c] \in Bared(r, missed)
  BY <1>1, <1>3 DEF Acquired, Bared
<1>4. ASSUME NEW s \in Runs \ {r}, NEW k \in Keys,
             owner[k] = s, status[s] # "ended",
             lease[s] # "lapsed" \/ status[s] = "finished"
      PROVE  Acquired(r, missed)[k] = s
  <2>1. ~Claimable(r, k)
    BY <1>4, RunAssumption DEF Claimable, OwnerState
  <2>2. k \notin missed => \A c \in Wanted(r) : KeyOf[c] = k => Answer(r, c, missed) # "reserved"
    BY <2>1 DEF Answer, Decision
  <2> QED
    BY <1>4, <2>2 DEF Acquired
<1> QED
  BY <1>2, <1>3, <1>4

\* A process, after its claim: it holds what it goes on with.
LEMMA ClaimAnswered ==
    ASSUME ClaimInv, NEW r \in Runs, NEW missed, pc[r] = "claiming",
           Acquire(r, missed),
           UNCHANGED <<status, lease, tries, saved, calls, sweep>>,
           NEW w \in {"settling", "refused", "prepared", "working"},
           pc' = [pc EXCEPT ![r] = w],
           queue' \in [Runs -> SUBSET Candidates],
           \A s \in Runs \ {r} : queue'[s] = queue[s],
           w \in Busy => \A c \in queue'[r] : c \in Wanted(r) /\ Answer(r, c, missed) = "reserved",
           todo' \in [Runs -> SUBSET Runs],
           \A s \in Runs : \A t \in todo'[s] : status[t] = "finished"
    PROVE  ClaimInv'
<1>0. /\ owner' = Acquired(r, missed)
      /\ bare \subseteq bare' /\ \A k \in Bared(r, missed) : <<r, k>> \in bare'
  BY DEF Acquire
<1>1. ProcessTypes /\ ProcessTypes'
  BY <1>0, AcquiredTakes DEF ClaimInv, ProcessTypes
<1>2. CallsBelong' /\ LapsedQuiet' /\ ProcessOfRun' /\ Quiet' /\ SettledAreFinished'
  BY <1>1 DEF ClaimInv, ProcessTypes, Calls, CallsBelong, LapsedQuiet, ProcessOfRun, Quiet,
     SettledAreFinished
<1>3. ASSUME NEW x \in calls, x.try = tries[x.run], NEW c \in x.items
      PROVE  Holds(x.run, KeyOf[c])'
  <2>1. x.run \in Runs /\ c \in Candidates
    BY <1>1 DEF ProcessTypes, Calls
  <2>2. x.run # r /\ status[x.run] # "ended" /\ lease[x.run] # "lapsed"
    BY <1>3, <2>1 DEF ClaimInv, Quiet, LapsedQuiet
  <2>3. Holds(x.run, KeyOf[c])
    BY <1>3 DEF ClaimInv, CallsHold
  <2> QED
    BY <1>0, <1>1, <2>1, <2>2, <2>3, AcquiredTakes, KeyOfCandidate DEF Holds
<1>4. ASSUME NEW s \in Runs, pc'[s] \in Busy, lease[s] # "lapsed", NEW c \in queue'[s]
      PROVE  Holds(s, KeyOf[c])'
  <2>1. CASE s = r
    BY <1>0, <1>1, <1>4, <2>1, AcquiredTakes DEF ProcessTypes, Holds
  <2>2. CASE s # r
    <3>1. pc[s] \in Busy /\ c \in queue[s] /\ c \in Candidates
      BY <1>1, <1>4, <2>2 DEF ProcessTypes
    <3>2. Holds(s, KeyOf[c])
      BY <3>1, <1>4 DEF ClaimInv, QueueHeld
    <3>3. status[s] # "ended"
      BY <3>1 DEF ClaimInv, ProcessOfRun, Busy
    <3> QED
      BY <1>0, <1>1, <1>4, <2>2, <3>1, <3>2, <3>3, AcquiredTakes, KeyOfCandidate DEF Holds
  <2> QED
    BY <2>1, <2>2
<1> QED
  BY <1>1, <1>2, <1>3, <1>4 DEF ClaimInv, CallsHold, QueueHeld

LEMMA ClaimsAtFirst == Init => ClaimInv
BY RunAssumption
DEF Init, ClaimInv, ProcessTypes, CallsBelong, LapsedQuiet, ProcessOfRun, Quiet,
    SettledAreFinished, CallsHold, QueueHeld, Busy, Calls

LEMMA ClaimAnswerLostKeepsClaims ==
    ASSUME ClaimInv, NEW r \in Runs, NEW missed, ClaimAnswerLost(r, missed) PROVE ClaimInv'
<1>1. /\ pc[r] = "claiming" /\ pc' = [pc EXCEPT ![r] = "refused"]
      /\ Acquire(r, missed)
      /\ UNCHANGED <<status, lease, tries, queue, saved, todo, calls, sweep>>
  BY DEF ClaimAnswerLost, At, Goto
<1> QED
  BY <1>1, ClaimAnswered DEF Busy, ClaimInv, ProcessTypes, SettledAreFinished

LEMMA ClaimKeepsClaims == ASSUME ClaimInv, NEW r \in Runs, NEW missed, Claim(r, missed) PROVE ClaimInv'
<1> DEFINE met == {d \in Wanted(r) : Answer(r, d, missed) = "settlement_pending"}
           pending == {owner[KeyOf[c]] : c \in met}
<1>1. ASSUME NEW c \in Wanted(r), Answer(r, c, missed) = "settlement_pending"
      PROVE  owner[KeyOf[c]] \in Runs /\ status[owner[KeyOf[c]]] = "finished"
  <2>1. owner[KeyOf[c]] \in Runs \cup {NoRun}
    BY WantedCandidates, KeyOfCandidate DEF ClaimInv, ProcessTypes
  <2>2. ~Claimable(r, KeyOf[c]) /\ OwnerState(owner[KeyOf[c]]) = "settling"
    <3>1. Decision(r, c) # "settlement_pending"
      BY DEF Decision
    <3> QED
      BY <1>1, <3>1 DEF Answer
  <2>3. owner[KeyOf[c]] # NoRun
    BY <2>2 DEF Claimable
  <2>4. status[owner[KeyOf[c]]] = "finished"
    BY <2>2 DEF OwnerState
  <2> QED
    BY <2>1, <2>3, <2>4
<1>2. /\ Acquire(r, missed) /\ pc[r] = "claiming"
      /\ UNCHANGED <<status, lease, tries, saved, calls, sweep>>
  BY DEF Claim, At
<1>3. CASE pending # {} /\ ~asked[r]
  <2>1. /\ todo' = [todo EXCEPT ![r] = pending]
        /\ queue' = queue /\ pc' = [pc EXCEPT ![r] = "settling"]
    BY <1>3 DEF Claim, Goto
  <2>2. pending \subseteq Runs /\ \A s \in pending : status[s] = "finished"
    BY <1>1
  <2> HIDE DEF pending
  <2>3. /\ todo' \in [Runs -> SUBSET Runs]
        /\ \A s \in Runs : \A t \in todo'[s] : status[t] = "finished"
    BY <2>1, <2>2 DEF ClaimInv, ProcessTypes, SettledAreFinished
  <2>4. queue' \in [Runs -> SUBSET Candidates] /\ \A s \in Runs \ {r} : queue'[s] = queue[s]
    BY <2>1 DEF ClaimInv, ProcessTypes
  <2>5. "settling" \notin Busy
    BY DEF Busy
  <2> QED
    BY <1>2, <2>1, <2>3, <2>4, <2>5, ClaimAnswered
<1>4. CASE ~(pending # {} /\ ~asked[r])
  <2>1. Prepared(r, missed) /\ todo' = todo
    BY <1>4 DEF Claim
  <2> HIDE DEF pending
  <2>2. /\ \A c \in queue'[r] : c \in Wanted(r) /\ Answer(r, c, missed) = "reserved"
        /\ \A s \in Runs \ {r} : queue'[s] = queue[s]
        /\ queue' \in [Runs -> SUBSET Candidates]
    BY <2>1, WantedCandidates DEF Prepared, ClaimInv, ProcessTypes
  <2>3. \E w \in {"refused", "working", "prepared"} : pc' = [pc EXCEPT ![r] = w]
    BY <2>1 DEF Prepared, Goto
  <2>4. todo' \in [Runs -> SUBSET Runs] /\ \A s \in Runs : \A t \in todo'[s] : status[t] = "finished"
    BY <2>1 DEF ClaimInv, ProcessTypes, SettledAreFinished
  <2> QED
    BY <1>2, <2>2, <2>3, <2>4, ClaimAnswered
<1> QED
  BY <1>3, <1>4

LEMMA RunKeepsClaims == ASSUME ClaimInv, NEW r \in Runs, RunNext(r) PROVE ClaimInv'
<1> USE RunAssumption, MaxTriesAssumption, KeyOfCandidate, CandidateAssumption
<1>1. CASE ClaimRun(r)
  BY <1>1
  DEF ClaimRun, Blank, ClaimInv, ProcessTypes, CallsBelong, LapsedQuiet, ProcessOfRun, Quiet,
      SettledAreFinished, CallsHold, QueueHeld, Holds, Busy, Calls, Leased, At, Goto,
      runVars, promotionVars, ledgerVars, historyVars
<1>2. CASE SavePreparation(r)
  BY <1>2
  DEF SavePreparation, ClaimInv, ProcessTypes, CallsBelong, LapsedQuiet, ProcessOfRun, Quiet,
      SettledAreFinished, CallsHold, QueueHeld, Holds, Busy, Calls, Leased, At, Goto,
      runVars, promotionVars, ledgerVars, historyVars
<1>3. CASE StartCall(r)
  BY <1>3
  DEF StartCall, OwnCalls, InFlight, ClaimInv, ProcessTypes, CallsBelong, LapsedQuiet, ProcessOfRun, Quiet,
      SettledAreFinished, CallsHold, QueueHeld, Holds, Busy, Calls, Leased, At, Goto,
      runVars, promotionVars, ledgerVars, historyVars
<1>4. CASE \E entries \in Entries(r) : EngineEnds(r, entries)
  BY <1>4
  DEF EngineEnds, OwnCalls, InFlight, ClaimInv, ProcessTypes, CallsBelong, LapsedQuiet, ProcessOfRun, Quiet,
      SettledAreFinished, CallsHold, QueueHeld, Holds, Busy, Calls, Leased, At, Goto,
      runVars, promotionVars, ledgerVars, historyVars
<1>5. CASE ReadPending(r)
  <2>1. CASE Exit(r)
    BY <1>5, <2>1
    DEF ReadPending, Exit, Blank, ClaimInv, ProcessTypes, CallsBelong, LapsedQuiet, ProcessOfRun,
        Quiet, SettledAreFinished, CallsHold, QueueHeld, Holds, Busy, Calls, At, Goto,
        ledgerVars, historyVars
  <2>2. CASE ~Exit(r)
    BY <1>5, <2>2
    DEF ReadPending, ClaimInv, ProcessTypes, CallsBelong, LapsedQuiet, ProcessOfRun,
        Quiet, SettledAreFinished, CallsHold, QueueHeld, Holds, Busy, Calls, At, Goto,
        ledgerVars, historyVars
  <2> QED
    BY <2>1, <2>2
<1>6. CASE PromotionFails(r)
  BY <1>6
  DEF PromotionFails, ClaimInv, ProcessTypes, CallsBelong, LapsedQuiet, ProcessOfRun, Quiet,
      SettledAreFinished, CallsHold, QueueHeld, Holds, Busy, Calls, Leased, At, Goto,
      runVars, promotionVars, ledgerVars, historyVars
<1>7. CASE Finish(r)
  BY <1>7
  DEF Finish, ClaimInv, ProcessTypes, CallsBelong, LapsedQuiet, ProcessOfRun, Quiet,
      SettledAreFinished, CallsHold, QueueHeld, Holds, Busy, Calls, Leased, At, Goto,
      runVars, promotionVars, ledgerVars, historyVars
<1>8. CASE RecordRunCoverage(r)
  BY <1>8
  DEF RecordRunCoverage, Apply, Exit, Blank, ClaimInv, ProcessTypes, CallsBelong, LapsedQuiet, ProcessOfRun, Quiet,
      SettledAreFinished, CallsHold, QueueHeld, Holds, Busy, Calls, Leased, At, Goto,
      runVars, promotionVars, ledgerVars, historyVars
<1>9. CASE \E s \in Runs : SettleMet(r, s)
  BY <1>9
  DEF SettleMet, Apply, ClaimInv, ProcessTypes, CallsBelong, LapsedQuiet, ProcessOfRun, Quiet,
      SettledAreFinished, CallsHold, QueueHeld, Holds, Busy, Calls, Leased, At, Goto,
      runVars, promotionVars, ledgerVars, historyVars
<1>10. CASE EndWithoutResult(r)
  BY <1>10
  DEF EndWithoutResult, Exit, Blank, OwnCalls, InFlight, ClaimInv, ProcessTypes, CallsBelong, LapsedQuiet, ProcessOfRun, Quiet,
      SettledAreFinished, CallsHold, QueueHeld, Holds, Busy, Calls, Leased, At, Goto,
      runVars, promotionVars, ledgerVars, historyVars
<1>11. CASE ProcessGone(r)
  BY <1>11
  DEF ProcessGone, Exit, Blank, ClaimInv, ProcessTypes, CallsBelong, LapsedQuiet, ProcessOfRun, Quiet,
      SettledAreFinished, CallsHold, QueueHeld, Holds, Busy, Calls, Leased, At, Goto,
      runVars, promotionVars, ledgerVars, historyVars
<1>12. CASE LeaseAges(r)
  BY <1>12
  DEF LeaseAges, InFlight, ClaimInv, ProcessTypes, CallsBelong, LapsedQuiet, ProcessOfRun, Quiet,
      SettledAreFinished, CallsHold, QueueHeld, Holds, Busy, Calls, Leased, At, Goto,
      runVars, promotionVars, ledgerVars, historyVars
<1>13. CASE \E c \in Candidates : Review(r, c) \/ Promote(r, c)
  <2>1. \E w \in {"reviewing", "finalizing"} :
          /\ pc[r] = "reviewing" /\ pc' = [pc EXCEPT ![r] = w]
          /\ UNCHANGED <<status, lease, tries, queue, saved, todo, calls, owner, sweep, bare>>
    BY <1>13 DEF ClaimInv, ProcessTypes, Review, Promote, At, Goto, ledgerVars, historyVars
  <2> QED
    BY <2>1
    DEF ClaimInv, ProcessTypes, CallsBelong, LapsedQuiet, ProcessOfRun, Quiet,
        SettledAreFinished, CallsHold, QueueHeld, Holds, Busy, Calls, Leased, At, Goto,
        runVars, promotionVars, ledgerVars, historyVars
<1>14. CASE ClaimBegins(r)
  BY <1>14
  DEF ClaimBegins, ClaimInv, ProcessTypes, CallsBelong, LapsedQuiet, ProcessOfRun, Quiet,
      SettledAreFinished, CallsHold, QueueHeld, Holds, Busy, Calls, Leased, At, Goto,
      runVars, promotionVars, ledgerVars, historyVars
<1> QED
  BY ClaimAnswerLostKeepsClaims, ClaimKeepsClaims, <1>1, <1>2, <1>3, <1>4, <1>5, <1>6,
     <1>7, <1>8, <1>9, <1>10, <1>11, <1>12, <1>13, <1>14
  DEF RunNext

LEMMA NextKeepsClaims == ASSUME ClaimInv, [Next]_vars PROVE ClaimInv'
<1> USE RunAssumption, KeyOfCandidate
<1>1. CASE \E x \in calls : EndCall(x)
  BY <1>1
  DEF EndCall, ClaimInv, ProcessTypes, CallsBelong, LapsedQuiet, ProcessOfRun, Quiet,
      SettledAreFinished, CallsHold, QueueHeld, Holds, Busy, Calls, Leased, At, Goto,
      runVars, promotionVars, ledgerVars, historyVars
<1>2. CASE SweepLists
  BY <1>2
  DEF SweepLists, Settling, ClaimInv, ProcessTypes, CallsBelong, LapsedQuiet, ProcessOfRun, Quiet,
      SettledAreFinished, CallsHold, QueueHeld, Holds, Busy, Calls, Leased, At, Goto,
      runVars, promotionVars, ledgerVars, historyVars
<1>3. CASE \E s \in Runs : SweepSettles(s)
  BY <1>3
  DEF SweepSettles, Apply, ClaimInv, ProcessTypes, CallsBelong, LapsedQuiet, ProcessOfRun, Quiet,
      SettledAreFinished, CallsHold, QueueHeld, Holds, Busy, Calls, Leased, At, Goto,
      runVars, promotionVars, ledgerVars, historyVars
<1>4. CASE UNCHANGED vars
  BY <1>4
  DEF vars, ClaimInv, ProcessTypes, CallsBelong, LapsedQuiet, ProcessOfRun, Quiet,
      SettledAreFinished, CallsHold, QueueHeld, Holds, Busy, Calls, Leased, At, Goto,
      runVars, promotionVars, ledgerVars, historyVars
<1> QED
  BY RunKeepsClaims, <1>1, <1>2, <1>3, <1>4 DEF Next

\* The claims and the requests fit each other in every reachable state: who
\* takes over a claim, and when (catalog_variant_reservation_state).
THEOREM ClaimInvariant == Spec => []ClaimInv
BY ClaimsAtFirst, NextKeepsClaims, PTL DEF Spec

LEMMA ClaimsMakePaidAlone == ClaimInv => PaidAlone
<1> SUFFICES ASSUME ClaimInv, NEW x \in calls, NEW y \in calls, x.run # y.run,
                    ~LeftBehind(x), ~LeftBehind(y), NEW k \in KeysOf(x) \cap KeysOf(y)
             PROVE  Unheld(x.run, k) \/ Unheld(y.run, k)
  BY DEF PaidAlone
<1>1. ASSUME NEW z \in calls, ~LeftBehind(z), k \in KeysOf(z)
      PROVE  Holds(z.run, k)
  <2>1. z.run \in Runs /\ z.try \in Nat /\ tries[z.run] \in Nat /\ z.try <= tries[z.run]
    BY DEF ClaimInv, ProcessTypes, Calls, CallsBelong
  <2>2. CASE z.try = tries[z.run]
    BY <1>1, <2>2 DEF ClaimInv, CallsHold, KeysOf
  <2>3. CASE z.try < tries[z.run]
    BY <1>1, <2>3 DEF LeftBehind, KeysOf, Holds
  <2> QED
    BY <2>1, <2>2, <2>3
<1>2. Holds(x.run, k) /\ Holds(y.run, k)
  BY <1>1
<1> QED
  BY <1>2 DEF Holds, Unheld

\* No two runs pay for one variant at a time, whatever dies, lapses or is
\* retried (acquire_catalog_variant_reservations_guarded).
THEOREM PaidByOneRun == Spec => []PaidAlone
BY ClaimInvariant, ClaimsMakePaidAlone, PTL

-----------------------------------------------------------------------------
(* The promotions are kept. *)

LEMMA NothingStated == Nothing \in Results /\ DOMAIN Nothing = {}
<1>1. Nothing \in [{} -> Statuses]
  BY DEF Nothing
<1> QED
  BY <1>1 DEF Results

\* An engine's entries say "enriched" of queued candidates only.
LEMMA EntriesAreResults ==
    ASSUME ProcessTypes, NEW r \in Runs, NEW entries \in Entries(r)
    PROVE  /\ entries \in Results
           /\ \A c \in DOMAIN entries : entries[c] = "enriched" => c \in queue[r]
<1>1. PICK found \in [queue[r] -> Outcomes[r]], beyond \in SUBSET (Snapshot[r] \ queue[r]) :
        entries = EntriesOf(r, found, beyond)
  BY DEF Entries
<1>2. queue[r] \cup beyond \in SUBSET Candidates
  BY CandidateAssumption DEF ProcessTypes
<1>3. entries \in [queue[r] \cup beyond -> Statuses]
  BY <1>1, OutcomeAssumption DEF EntriesOf, Statuses
<1> QED
  BY <1>1, <1>2, <1>3 DEF Results, EntriesOf

LEMMA PromotionsAtFirst == Init => PromotionInv
BY RunAssumption, NothingStated
DEF Init, PromotionInv, PromotionTypes, VerifiedAreQueued, OwedIsWhole, NothingStranded,
    Verified, Answered, runVars, promotionVars

LEMMA RunKeepsPromotions ==
    ASSUME PromotionInv, ClaimInv, NEW r \in Runs, RunNext(r) PROVE PromotionInv'
<1> USE RunAssumption DEF ClaimInv
<1>1. CASE ClaimRun(r)
  BY <1>1, NothingStated
  DEF ClaimRun, Blank, PromotionInv, PromotionTypes, VerifiedAreQueued, OwedIsWhole, NothingStranded, Verified,
      Answered, ProcessOfRun, ProcessTypes, Leased, At, Goto, runVars, promotionVars
<1>2. CASE \E missed \in SUBSET vanished[r] : Claim(r, missed)
  BY <1>2
  DEF Claim, Prepared, PromotionInv, PromotionTypes, VerifiedAreQueued, OwedIsWhole, NothingStranded, Verified,
      Answered, ProcessOfRun, ProcessTypes, Leased, At, Goto, runVars, promotionVars
<1>3. CASE \E missed \in SUBSET vanished[r] : ClaimAnswerLost(r, missed)
  BY <1>3
  DEF ClaimAnswerLost, PromotionInv, PromotionTypes, VerifiedAreQueued, OwedIsWhole, NothingStranded, Verified,
      Answered, ProcessOfRun, ProcessTypes, Leased, At, Goto, runVars, promotionVars
<1>4. CASE \E s \in Runs : SettleMet(r, s)
  BY <1>4
  DEF SettleMet, PromotionInv, PromotionTypes, VerifiedAreQueued, OwedIsWhole, NothingStranded, Verified,
      Answered, ProcessOfRun, ProcessTypes, Leased, At, Goto, runVars, promotionVars
<1>5. CASE SavePreparation(r)
  BY <1>5
  DEF SavePreparation, PromotionInv, PromotionTypes, VerifiedAreQueued, OwedIsWhole, NothingStranded, Verified,
      Answered, ProcessOfRun, ProcessTypes, Leased, At, Goto, runVars, promotionVars
<1>6. CASE StartCall(r)
  BY <1>6
  DEF StartCall, PromotionInv, PromotionTypes, VerifiedAreQueued, OwedIsWhole, NothingStranded, Verified,
      Answered, ProcessOfRun, ProcessTypes, Leased, At, Goto, runVars, promotionVars
<1>7. CASE \E entries \in Entries(r) : EngineEnds(r, entries)
  BY <1>7, EntriesAreResults
  DEF EngineEnds, PromotionInv, PromotionTypes, VerifiedAreQueued, OwedIsWhole, NothingStranded, Verified,
      Answered, ProcessOfRun, ProcessTypes, Leased, At, Goto, runVars, promotionVars
<1>8. CASE ReadPending(r)
  <2>1. CASE Exit(r)
    BY <1>8, <2>1, NothingStated
    DEF ReadPending, Exit, Blank, PromotionInv, PromotionTypes, VerifiedAreQueued, OwedIsWhole, NothingStranded, Verified,
        Answered, ProcessOfRun, ProcessTypes, Leased, At, Goto, runVars, promotionVars
  <2>2. CASE ~Exit(r)
    <3>1. /\ pc[r] = "promoting"
          /\ pc' = [pc EXCEPT ![r] = IF Verified(r) = {} THEN "finalizing" ELSE "reviewing"]
          /\ owed' = [owed EXCEPT ![r] = Verified(r)]
          /\ UNCHANGED <<status, queue, output, canonical, refused>>
      BY <1>8, <2>2 DEF ReadPending, At, Goto
    <3>2. \A s \in Runs : Verified(s) = Verified(s)' /\ Verified(s) \subseteq queue[s]
      BY <3>1 DEF Verified
    <3>3. PromotionTypes' /\ VerifiedAreQueued'
      BY <3>1, <3>2 DEF PromotionInv, PromotionTypes, VerifiedAreQueued, ProcessTypes
    <3>4. OwedIsWhole'
      BY <3>1, <3>2 DEF PromotionInv, PromotionTypes, OwedIsWhole, Answered, ProcessTypes
    <3>5. \A c \in DOMAIN output[r] : output[r][c] = "enriched" => c \in Verified(r)
      BY <3>1 DEF PromotionInv, VerifiedAreQueued, Verified
    <3>6. NothingStranded'
      BY <3>1, <3>5 DEF PromotionInv, NothingStranded, Answered, ProcessTypes, ProcessOfRun
    <3> QED
      BY <3>3, <3>4, <3>6 DEF PromotionInv
  <2> QED
    BY <2>1, <2>2
<1>9. CASE \E c \in Candidates : Review(r, c)
  BY <1>9
  DEF Review, PromotionInv, PromotionTypes, VerifiedAreQueued, OwedIsWhole, NothingStranded, Verified,
      Answered, ProcessOfRun, ProcessTypes, Leased, At, Goto, runVars, promotionVars
<1>10. CASE \E c \in Candidates : Promote(r, c)
  BY <1>10
  DEF Promote, Stored, PromotionInv, PromotionTypes, VerifiedAreQueued, OwedIsWhole, NothingStranded, Verified,
      Answered, ProcessOfRun, ProcessTypes, Leased, At, Goto, runVars, promotionVars
<1>11. CASE PromotionFails(r)
  BY <1>11
  DEF PromotionFails, PromotionInv, PromotionTypes, VerifiedAreQueued, OwedIsWhole, NothingStranded, Verified,
      Answered, ProcessOfRun, ProcessTypes, Leased, At, Goto, runVars, promotionVars
<1>12. CASE Finish(r)
  BY <1>12
  DEF Finish, PromotionInv, PromotionTypes, VerifiedAreQueued, OwedIsWhole, NothingStranded, Verified,
      Answered, ProcessOfRun, ProcessTypes, Leased, At, Goto, runVars, promotionVars
<1>13. CASE RecordRunCoverage(r)
  BY <1>13
  DEF RecordRunCoverage, Exit, Blank, PromotionInv, PromotionTypes, VerifiedAreQueued, OwedIsWhole, NothingStranded, Verified,
      Answered, ProcessOfRun, ProcessTypes, Leased, At, Goto, runVars, promotionVars
<1>14. CASE EndWithoutResult(r)
  BY <1>14, NothingStated
  DEF EndWithoutResult, Exit, Blank, PromotionInv, PromotionTypes, VerifiedAreQueued, OwedIsWhole, NothingStranded, Verified,
      Answered, ProcessOfRun, ProcessTypes, Leased, At, Goto, runVars, promotionVars
<1>15. CASE ProcessGone(r)
  BY <1>15, NothingStated
  DEF ProcessGone, Exit, Blank, PromotionInv, PromotionTypes, VerifiedAreQueued, OwedIsWhole, NothingStranded, Verified,
      Answered, ProcessOfRun, ProcessTypes, Leased, At, Goto, runVars, promotionVars
<1>16. CASE LeaseAges(r)
  BY <1>16
  DEF LeaseAges, PromotionInv, PromotionTypes, VerifiedAreQueued, OwedIsWhole, NothingStranded, Verified,
      Answered, ProcessOfRun, ProcessTypes, Leased, At, Goto, runVars, promotionVars
<1>17. CASE ClaimBegins(r)
  BY <1>17
  DEF ClaimBegins, PromotionInv, PromotionTypes, VerifiedAreQueued, OwedIsWhole, NothingStranded, Verified,
      Answered, ProcessOfRun, ProcessTypes, Leased, At, Goto, runVars, promotionVars
<1> QED
  BY <1>1, <1>2, <1>3, <1>4, <1>5, <1>6, <1>7, <1>8,
     <1>9, <1>10, <1>11, <1>12, <1>13, <1>14, <1>15, <1>16, <1>17 DEF RunNext

LEMMA NextKeepsPromotions == ASSUME PromotionInv, ClaimInv, [Next]_vars PROVE PromotionInv'
<1>1. CASE ~(\E r \in Runs : RunNext(r))
  <2>1. UNCHANGED <<status, pc, queue, output, owed, canonical, refused>>
    BY <1>1 DEF Next, EndCall, SweepLists, SweepSettles, vars, runVars, promotionVars
  <2> QED
    BY <2>1
    DEF PromotionInv, PromotionTypes, VerifiedAreQueued, OwedIsWhole, NothingStranded,
    Verified, Answered, runVars, promotionVars
<1> QED
  BY RunKeepsPromotions, <1>1

-----------------------------------------------------------------------------
(* The ledger is kept. *)

\* The strongest status of a key is one that some row of it earned.
LEMMA StrongestEarned ==
    ASSUME NEW entries \in Results, NEW k, \E c \in DOMAIN entries : KeyOf[c] = k
    PROVE  /\ Strongest(entries, k) \in Statuses
           /\ \E c \in DOMAIN entries : KeyOf[c] = k /\ entries[c] = Strongest(entries, k)
<1> DEFINE Earned(s) == \E c \in DOMAIN entries : KeyOf[c] = k /\ entries[c] = s
           Highest(s) == \A c \in DOMAIN entries : KeyOf[c] = k => Rank[entries[c]] <= Rank[s]
<1>1. \A c \in DOMAIN entries : entries[c] \in Statuses
  BY DEF Results
<1>2. \E s \in Statuses : Earned(s)
  BY <1>1
<1>3. \A c \in DOMAIN entries :
        /\ Rank[entries[c]] \in 1..4
        /\ Rank[entries[c]] = 4 <=> entries[c] = "enriched"
        /\ Rank[entries[c]] = 3 <=> entries[c] = "unresolved"
        /\ Rank[entries[c]] = 2 <=> entries[c] = "pending"
        /\ Rank[entries[c]] = 1 <=> entries[c] = "failed"
  BY <1>1 DEF Rank, Statuses
<1>4. \E s \in Statuses : Earned(s) /\ Highest(s)
  <2>1. CASE Earned("enriched")
    BY <1>3, <2>1 DEF Rank, Statuses
  <2>2. CASE ~Earned("enriched") /\ Earned("unresolved")
    BY <1>3, <2>2 DEF Rank, Statuses
  <2>3. CASE ~Earned("enriched") /\ ~Earned("unresolved") /\ Earned("pending")
    BY <1>3, <2>3 DEF Rank, Statuses
  <2>4. CASE ~Earned("enriched") /\ ~Earned("unresolved") /\ ~Earned("pending")
    BY <1>2, <1>3, <2>4 DEF Rank, Statuses
  <2> QED
    BY <2>1, <2>2, <2>3, <2>4
<1>5. Strongest(entries, k) = CHOOSE s \in Statuses : Earned(s) /\ Highest(s)
  BY DEF Strongest
<1> HIDE DEF Highest
<1> QED
  BY <1>4, <1>5

LEMMA SettledRow ==
    ASSUME NEW r \in Runs, NEW entries \in Results, NEW k \in Keys,
           \E c \in DOMAIN entries : KeyOf[c] = k
    PROVE  /\ Settled(r, entries, k) \in Rows
           /\ Settled(r, entries, k).run = r
           /\ Settled(r, entries, k).status = "enriched" =>
                  \E c \in DOMAIN entries : KeyOf[c] = k /\ entries[c] = "enriched"
<1> DEFINE contents == {ContentOf[c] : c \in {d \in Snapshot[r] : KeyOf[d] = k}}
           state == IF Cardinality(contents) > 1 THEN "failed" ELSE Strongest(entries, k)
<1>1. contents \in SUBSET Contents
  BY CandidateAssumption DEF Contents
<1>2. state \in Statuses
  BY StrongestEarned DEF Statuses
<1>3. state = "enriched" => \E c \in DOMAIN entries : KeyOf[c] = k /\ entries[c] = "enriched"
  BY StrongestEarned
<1>4. Settled(r, entries, k) = [status |-> state, content |-> contents, run |-> r]
  BY DEF Settled
<1> HIDE DEF contents, state
<1> QED
  BY <1>1, <1>2, <1>3, <1>4 DEF Rows

LEMMA UpsertedRow ==
    ASSUME NEW r \in Runs, NEW entries \in Results, NEW rows \in [Keys -> Rows]
    PROVE  /\ Upserted(rows, r, entries) \in [Keys -> Rows]
           /\ \A k \in Keys :
                 \/ Upserted(rows, r, entries)[k] = rows[k]
                 \/ /\ Upserted(rows, r, entries)[k] = Settled(r, entries, k)
                    /\ Replaces(Settled(r, entries, k), rows[k])
                    /\ \E c \in DOMAIN entries : KeyOf[c] = k
           /\ \A k \in Keys :
                 (\E c \in DOMAIN entries : KeyOf[c] = k)
                     /\ Replaces(Settled(r, entries, k), rows[k]) =>
                         Upserted(rows, r, entries)[k] = Settled(r, entries, k)
BY SettledRow DEF Upserted

LEMMA RankOfRow == \A row \in Rows : Rank[row.status] \in 0..4
BY DEF Rows, Statuses, Rank

\* A settlement brings a finished run's enrichment into the ledger before its
\* claim goes, and puts nothing earlier in its place unnoticed.
LEMMA ApplyKeepsEnriched ==
    ASSUME LedgerInv, PromotionTypes, ClaimInv, NEW s \in Runs, status[s] = "finished",
           Apply(s), UNCHANGED <<inOrder, results, output, bare>>
    PROVE  ledger' \in [Keys -> Rows] /\ overtaken \subseteq overtaken'
           /\ overtaken' \subseteq Keys /\ EnrichedIsKnown'
<1>1. ledger \in [Keys -> Rows] /\ inOrder \in [Keys -> Rows] /\ output[s] \in Results
  BY DEF LedgerInv, ResultTypes, PromotionTypes
<1>2. ledger' = Upserted(ledger, s, output[s])
  BY DEF Apply
<1>3. ledger' \in [Keys -> Rows] /\ overtaken \subseteq overtaken' /\ overtaken' \subseteq Keys
  BY <1>1, <1>2, UpsertedRow DEF Apply, LedgerInv, ResultTypes
<1>4. ASSUME NEW k \in Keys \ (overtaken' \cup BareKeys), inOrder[k].status = "enriched",
             owner'[k] # inOrder[k].run
      PROVE  ledger'[k] = inOrder[k]
  <2> DEFINE u == inOrder[k].run
  <2>1. /\ u \in Runs /\ status[u] = "finished" /\ Names(u, k)
        /\ inOrder[k] = Settled(u, output[u], k)
    BY <1>4 DEF LedgerInv, InOrderIsSettled, NoRow
  <2>2. owner[k] = u \/ ledger[k] = inOrder[k]
    BY <1>3, <1>4 DEF LedgerInv, EnrichedIsKnown
  <2>3. CASE u = s
    <3>1. Replaces(inOrder[k], ledger[k])
      BY <1>1, <1>4, RankOfRow DEF Replaces, Rank
    <3> QED
      BY <1>1, <1>2, <2>1, <2>3, <3>1, UpsertedRow DEF Names
  <2>4. CASE u # s
    <3>1. ledger[k] = inOrder[k]
      BY <1>4, <2>1, <2>2, <2>4, RunAssumption DEF Apply
    <3>2. ASSUME ledger'[k] # ledger[k] PROVE FALSE
      <4>1. ~Before(s, u)
        BY <1>4, <3>1, <3>2 DEF Apply
      <4>2. Before(u, s)
        BY <2>1, <2>4, <4>1 DEF Before, LedgerInv, FinishedOnce, ResultTypes
      <4>3. Names(s, k) /\ Replaces(Settled(s, output[s], k), inOrder[k])
        BY <1>1, <1>2, <3>1, <3>2, UpsertedRow DEF Names
      <4> QED
        BY <4>2, <4>3 DEF LedgerInv, LaterYields
    <3> QED
      BY <3>1, <3>2
  <2> QED
    BY <2>3, <2>4
<1> QED
  BY <1>3, <1>4 DEF EnrichedIsKnown, BareKeys

\* What a step that ends no run and settles none has to leave alone.
LEMMA LedgerUntouched ==
    ASSUME LedgerInv, UNCHANGED <<inOrder, results>>,
           ledger' \in [Keys -> Rows], overtaken \subseteq overtaken', overtaken' \subseteq Keys,
           PaidOnce',
           \A r \in Runs : status'[r] = "finished" <=> status[r] = "finished",
           \A r \in Runs : status[r] = "finished" => output'[r] = output[r],
           EnrichedIsKnown', QueueUnpaid'
    PROVE  LedgerInv'
<1>1. ResultTypes' /\ FinishedOnce' /\ InOrderIsSettled'
  BY DEF LedgerInv, ResultTypes, FinishedOnce, InOrderIsSettled, Names
<1>2. ASSUME NEW k \in Keys, NEW u \in Runs, Before(inOrder[k].run, u), Names(u, k)'
      PROVE  ~Replaces(Settled(u, output'[u], k), inOrder[k])
  <2>1. output'[u] = output[u]
    BY <1>2 DEF Before, LedgerInv, FinishedOnce
  <2> QED
    BY <1>2, <2>1 DEF Names, LedgerInv, LaterYields
<1>3. LaterYields'
  BY <1>2 DEF LaterYields, Before, Replaces
<1> QED
  BY <1>1, <1>3 DEF LedgerInv

LEMMA ReservedIsUnpaid ==
    ASSUME LedgerInv, ClaimInv, NEW r \in Runs, status[r] # "finished",
           NEW missed, NEW c \in Wanted(r), Answer(r, c, missed) = "reserved",
           KeyOf[c] \notin overtaken \cup BareKeys, KeyOf[c] \notin missed
    PROVE  ~Paid(c)
<1> SUFFICES ASSUME Paid(c) PROVE FALSE
  OBVIOUS
<1> DEFINE k == KeyOf[c]
<1>1. k \in Keys
  BY WantedCandidates, KeyOfCandidate DEF ClaimInv
<1>2. Decision(r, c) = "queue" /\ Claimable(r, k)
  <2>1. Decision(r, c) # "reserved"
    BY DEF Decision
  <2> QED
    BY <2>1 DEF Answer
<1>3. inOrder[k].run \in Runs /\ status[inOrder[k].run] = "finished"
  BY <1>1 DEF Paid, LedgerInv, InOrderIsSettled, NoRow
<1>4. owner[k] # inOrder[k].run
  BY <1>2, <1>3, RunAssumption DEF Claimable, OwnerState
<1>5. ledger[k] = inOrder[k]
  BY <1>1, <1>4 DEF Paid, LedgerInv, EnrichedIsKnown
<1> QED
  BY <1>2, <1>5 DEF Decision, Paid

\* A run that finishes still holds its queue, so its enrichment is known.
LEMMA FinishKeepsLedger ==
    ASSUME LedgerInv, PromotionInv, ClaimInv, NEW r \in Runs, Finish(r)
    PROVE  LedgerInv'
<1>1. /\ pc[r] = "finalizing" /\ lease[r] = "live" /\ status[r] = "running"
      /\ status' = [status EXCEPT ![r] = "finished"]
      /\ results' = Append(results, r)
      /\ inOrder' = Upserted(inOrder, r, output[r])
      /\ pc' = [pc EXCEPT ![r] = "recording"]
      /\ UNCHANGED <<lease, queue, output, owner, ledger, overtaken, paidAgain, bare>>
  BY DEF Finish, At, Goto, Leased, ledgerVars, ClaimInv, ProcessOfRun
<1>2. /\ output[r] \in Results /\ inOrder \in [Keys -> Rows] /\ results \in Seq(Runs)
      /\ status \in [Runs -> {"queued", "running", "finished", "ended"}]
  BY DEF PromotionInv, PromotionTypes, LedgerInv, ResultTypes, ClaimInv, ProcessTypes
<1>3. ResultTypes' /\ PaidOnce'
  BY <1>1, <1>2, UpsertedRow DEF ResultTypes, LedgerInv, PaidOnce, BareKeys
<1>4. /\ DOMAIN results' = DOMAIN results \cup {Len(results) + 1}
      /\ results'[Len(results) + 1] = r
      /\ \A i \in DOMAIN results : results'[i] = results[i] /\ results[i] # r
      /\ \A i \in DOMAIN results : i < Len(results) + 1 /\ i \in Nat
  <2>1. DOMAIN results = 1..Len(results) /\ Len(results) \in Nat
    BY <1>2
  <2>2. DOMAIN results' = 1..Len(results) + 1
    BY <1>1, <1>2
  <2>3. results'[Len(results) + 1] = r /\ \A i \in 1..Len(results) : results'[i] = results[i]
    BY <1>1, <1>2
  <2>4. \A i \in DOMAIN results : results[i] # r
    BY <1>1 DEF LedgerInv, FinishedOnce
  <2> QED
    BY <2>1, <2>2, <2>3, <2>4
<1>5. FinishedOnce'
  BY <1>1, <1>2, <1>4 DEF LedgerInv, FinishedOnce
<1> DEFINE NowBefore(s, u) ==
             \E i, j \in DOMAIN results' : i < j /\ results'[i] = s /\ results'[j] = u
<1>6. \A s, u \in Runs : NowBefore(s, u) => s # r /\ (Before(s, u) \/ u = r)
  BY <1>4 DEF Before
<1>7. InOrderIsSettled'
  <2>1. ASSUME NEW k \in Keys, inOrder'[k] # NoRow
        PROVE  LET s == inOrder'[k].run
               IN  /\ s \in Runs /\ status'[s] = "finished" /\ Names(s, k)
                   /\ inOrder'[k] = Settled(s, output[s], k)
    <3>1. CASE inOrder'[k] = inOrder[k]
      BY <1>1, <1>2, <2>1, <3>1 DEF LedgerInv, InOrderIsSettled
    <3>2. CASE inOrder'[k] # inOrder[k]
      <4>1. inOrder'[k] = Settled(r, output[r], k) /\ Names(r, k)
        BY <1>1, <1>2, <3>2, UpsertedRow DEF Names
      <4>2. inOrder'[k].run = r
        BY <1>2, <4>1, SettledRow DEF Names
      <4> QED
        BY <1>1, <1>2, <4>1, <4>2
    <3> QED
      BY <3>1, <3>2
  <2> QED
    BY <1>1, <2>1 DEF InOrderIsSettled, Names
<1>8. LaterYields'
  <2>1. ASSUME NEW k \in Keys, NEW u \in Runs, NowBefore(inOrder'[k].run, u), Names(u, k)
        PROVE  ~Replaces(Settled(u, output[u], k), inOrder'[k])
    <3>1. inOrder'[k].run \in Runs
      BY <1>2, <1>4, <2>1
    <3>2. inOrder'[k].run # r /\ (Before(inOrder'[k].run, u) \/ u = r)
      BY <1>6, <2>1, <3>1
    <3>3. inOrder'[k] = inOrder[k]
      BY <1>1, <1>2, <3>2, UpsertedRow, SettledRow
    <3>4. CASE Before(inOrder[k].run, u)
      BY <2>1, <3>3, <3>4 DEF LedgerInv, LaterYields
    <3>5. CASE u = r
      <4>1. Settled(r, output[r], k).run = r
        BY <1>2, <2>1, <3>5, SettledRow DEF Names
      <4> QED
        BY <1>1, <1>2, <2>1, <3>2, <3>3, <3>5, <4>1, UpsertedRow DEF Names
    <3> QED
      BY <3>2, <3>3, <3>4, <3>5
  <2> QED
    BY <1>1, <2>1 DEF LaterYields, Names, Replaces, Before, NowBefore
<1>9. ASSUME NEW k \in Keys, inOrder'[k].status = "enriched", inOrder'[k] # inOrder[k]
      PROVE  Holds(r, k) /\ inOrder'[k].run = r
  <2>1. /\ inOrder'[k] = Settled(r, output[r], k)
        /\ \E c \in DOMAIN output[r] : KeyOf[c] = k
    BY <1>1, <1>2, <1>9, UpsertedRow
  <2>2. PICK c \in DOMAIN output[r] : KeyOf[c] = k /\ output[r][c] = "enriched"
    BY <1>2, <1>9, <2>1, SettledRow
  <2>3. c \in queue[r]
    BY <1>1, <2>2 DEF PromotionInv, VerifiedAreQueued
  <2>4. Holds(r, k)
    BY <1>1, <2>2, <2>3 DEF ClaimInv, QueueHeld, Busy
  <2> QED
    BY <1>2, <2>1, <2>4, SettledRow
<1>10. EnrichedIsKnown'
  BY <1>1, <1>9 DEF LedgerInv, EnrichedIsKnown, BareKeys, Holds
<1>11. QueueUnpaid'
  <2>1. ASSUME NEW s \in Runs, pc'[s] \in {"prepared", "working"}, lease[s] # "lapsed",
               NEW c \in queue[s], KeyOf[c] \notin overtaken \cup BareKeys, Paid(c)'
        PROVE  FALSE
    <3>1. s # r /\ pc[s] = pc'[s]
      BY <1>1, <2>1 DEF ClaimInv, ProcessTypes
    <3>2. KeyOf[c] \in Keys /\ owner[KeyOf[c]] = s
      BY <2>1, <3>1, KeyOfCandidate
      DEF ClaimInv, ProcessTypes, QueueHeld, Busy, Holds, BareKeys
    <3>3. inOrder'[KeyOf[c]] = inOrder[KeyOf[c]]
      BY <1>9, <2>1, <3>1, <3>2, RunAssumption DEF Paid, Holds, BareKeys
    <3> QED
      BY <2>1, <3>1, <3>3 DEF LedgerInv, QueueUnpaid, Paid
  <2> QED
    BY <1>1, <2>1 DEF QueueUnpaid, BareKeys
<1> QED
  BY <1>3, <1>5, <1>7, <1>8, <1>10, <1>11 DEF LedgerInv

\* A step that leaves the ledger and the claims alone and hands out no queue.
LEMMA LedgerFrame ==
    ASSUME LedgerInv,
           UNCHANGED <<owner, ledger, results, inOrder, overtaken, paidAgain, bare>>,
           \A r \in Runs : status'[r] = "finished" <=> status[r] = "finished",
           \A r \in Runs : status[r] = "finished" => output'[r] = output[r],
           \A r \in Runs :
               pc'[r] \in {"prepared", "working"} /\ lease'[r] # "lapsed" =>
                   /\ pc[r] \in {"prepared", "working"} /\ lease[r] # "lapsed"
                   /\ queue'[r] = queue[r]
    PROVE  LedgerInv'
<1>1. EnrichedIsKnown' /\ QueueUnpaid' /\ PaidOnce'
  BY DEF LedgerInv, EnrichedIsKnown, QueueUnpaid, Paid, PaidOnce, BareKeys
<1> QED
  BY <1>1, LedgerUntouched DEF LedgerInv, ResultTypes

LEMMA ClaimKeepsLedger ==
    ASSUME LedgerInv, ClaimInv, NEW r \in Runs, NEW missed,
           Claim(r, missed) \/ ClaimAnswerLost(r, missed)
    PROVE  LedgerInv'
<1>1. /\ pc[r] = "claiming" /\ owner' = Acquired(r, missed)
      /\ bare' = bare \cup {<<r, k>> : k \in Bared(r, missed)}
      /\ UNCHANGED <<status, lease, output, ledger, results, inOrder, overtaken, paidAgain>>
  BY DEF Claim, ClaimAnswerLost, Acquire, At
<1>2. status[r] = "running" /\ BareKeys \subseteq BareKeys'
  BY <1>1 DEF ClaimInv, ProcessOfRun, BareKeys
<1>3. EnrichedIsKnown'
  <2>1. ASSUME NEW k \in Keys \ (overtaken \cup BareKeys), inOrder[k].status = "enriched"
        PROVE  owner'[k] = inOrder[k].run \/ ledger[k] = inOrder[k]
    <3>1. inOrder[k].run \in Runs \ {r} /\ status[inOrder[k].run] = "finished"
      BY <1>2, <2>1 DEF LedgerInv, InOrderIsSettled, NoRow
    <3>2. owner[k] = inOrder[k].run => owner'[k] = inOrder[k].run
      BY <1>1, <3>1, AcquiredTakes DEF ClaimInv
    <3> QED
      BY <2>1, <3>2 DEF LedgerInv, EnrichedIsKnown
  <2> QED
    BY <1>1, <1>2, <2>1 DEF EnrichedIsKnown
<1>4. /\ \A s \in Runs \ {r} : pc'[s] = pc[s] /\ queue'[s] = queue[s]
      /\ pc'[r] \in {"prepared", "working"} =>
             \A c \in queue'[r] : c \in Wanted(r) /\ Answer(r, c, missed) = "reserved"
  BY DEF Claim, ClaimAnswerLost, Prepared, Goto, ClaimInv, ProcessTypes
<1>5. ASSUME NEW c \in Wanted(r), Answer(r, c, missed) = "reserved", KeyOf[c] \notin BareKeys'
      PROVE  KeyOf[c] \notin missed
  <2>1. KeyOf[c] \in missed => <<r, KeyOf[c]>> \in bare'
    BY <1>1, <1>5 DEF Bared
  <2>2. KeyOf[c] \in Keys
    BY WantedCandidates, KeyOfCandidate DEF ClaimInv
  <2> QED
    BY <1>5, <2>1, <2>2 DEF BareKeys
<1>6. QueueUnpaid'
  <2>1. ASSUME NEW s \in Runs, pc'[s] \in {"prepared", "working"}, lease[s] # "lapsed",
               NEW c \in queue'[s], KeyOf[c] \notin overtaken \cup BareKeys'
        PROVE  ~Paid(c)
    <3>1. KeyOf[c] \notin overtaken \cup BareKeys
      BY <1>2, <2>1
    <3>2. CASE s = r
      BY <1>2, <1>4, <1>5, <2>1, <3>1, <3>2, ReservedIsUnpaid
    <3>3. CASE s # r
      BY <1>4, <2>1, <3>1, <3>3 DEF LedgerInv, QueueUnpaid
    <3> QED
      BY <3>2, <3>3
  <2> QED
    BY <1>1, <2>1 DEF QueueUnpaid, Paid
<1>7. PaidOnce'
  BY <1>1, <1>2 DEF LedgerInv, PaidOnce
<1> QED
  BY <1>1, <1>3, <1>6, <1>7, LedgerUntouched DEF LedgerInv, ResultTypes

\* A settlement: what it may not disturb besides the ledger.
LEMMA SettlementKeepsLedger ==
    ASSUME LedgerInv, PromotionTypes, ClaimInv, NEW s \in Runs, status[s] = "finished",
           Apply(s) \/ UNCHANGED <<ledger, owner, vanished, overtaken>>,
           UNCHANGED <<inOrder, results, output, paidAgain, bare, status, lease>>,
           \A r \in Runs :
               pc'[r] \in {"prepared", "working"} => pc[r] = pc'[r] /\ queue'[r] = queue[r]
    PROVE  LedgerInv'
<1>1. CASE UNCHANGED <<ledger, owner, vanished, overtaken>>
  BY <1>1, LedgerFrame
<1>2. CASE Apply(s)
  <2>1. /\ ledger' \in [Keys -> Rows] /\ overtaken \subseteq overtaken'
        /\ overtaken' \subseteq Keys /\ EnrichedIsKnown'
    BY <1>2, ApplyKeepsEnriched
  <2>2. QueueUnpaid' /\ PaidOnce'
    BY <2>1 DEF LedgerInv, QueueUnpaid, Paid, PaidOnce, BareKeys
  <2> QED
    BY <2>1, <2>2, LedgerUntouched
<1> QED
  BY <1>1, <1>2

LEMMA StartCallKeepsLedger ==
    ASSUME LedgerInv, ClaimInv, NEW r \in Runs, StartCall(r) PROVE LedgerInv'
<1>1. /\ pc[r] = "working" /\ lease[r] = "live"
      /\ UNCHANGED <<status, lease, pc, queue, output, owner, ledger, results, inOrder, overtaken,
                    bare>>
  BY DEF StartCall, At, Leased, ledgerVars
<1>2. \A c \in queue[r] : KeyOf[c] \in Keys /\ (Paid(c) => KeyOf[c] \in overtaken \cup BareKeys)
  BY <1>1, KeyOfCandidate DEF LedgerInv, QueueUnpaid, ClaimInv, ProcessTypes
<1>3. PaidOnce'
  BY <1>1, <1>2 DEF StartCall, LedgerInv, PaidOnce, Paid, BareKeys
<1>4. EnrichedIsKnown' /\ QueueUnpaid'
  BY <1>1 DEF LedgerInv, EnrichedIsKnown, QueueUnpaid, Paid, BareKeys
<1> QED
  BY <1>1, <1>3, <1>4, LedgerUntouched DEF LedgerInv, ResultTypes

LEMMA RunKeepsLedger ==
    ASSUME LedgerInv, PromotionInv, ClaimInv, NEW r \in Runs, RunNext(r) PROVE LedgerInv'
<1> USE DEF ClaimInv, ProcessTypes, ProcessOfRun, Leased, At, Goto, ledgerVars, historyVars
<1>1. CASE ClaimRun(r)
  BY <1>1, LedgerFrame DEF ClaimRun, Blank
<1>2. CASE SavePreparation(r)
  BY <1>2, LedgerFrame DEF SavePreparation
<1>3. CASE \E entries \in Entries(r) : EngineEnds(r, entries)
  BY <1>3, LedgerFrame DEF EngineEnds
<1>4. CASE ReadPending(r)
  <2>1. CASE Exit(r)
    BY <1>4, <2>1, LedgerFrame DEF ReadPending, Exit, Blank
  <2>2. CASE ~Exit(r)
    BY <1>4, <2>2, LedgerFrame DEF ReadPending
  <2> QED
    BY <2>1, <2>2
<1>5. CASE \E c \in Candidates : Review(r, c) \/ Promote(r, c)
  BY <1>5, LedgerFrame DEF Review, Promote, promotionVars
<1>6. CASE PromotionFails(r)
  BY <1>6, LedgerFrame DEF PromotionFails
<1>7. CASE EndWithoutResult(r)
  BY <1>7, LedgerFrame DEF EndWithoutResult, Exit, Blank
<1>8. CASE ProcessGone(r)
  BY <1>8, LedgerFrame DEF ProcessGone, Exit, Blank
<1>9. CASE LeaseAges(r)
  BY <1>9, LedgerFrame DEF LeaseAges
<1>10. CASE RecordRunCoverage(r)
  <2>1. /\ status[r] = "finished" /\ pc' = [pc EXCEPT ![r] = "gone"]
        /\ queue' = [queue EXCEPT ![r] = {}] /\ output' = output
    BY <1>10 DEF RecordRunCoverage, Exit, Blank, PromotionInv, PromotionTypes
  <2> QED
    BY <1>10, <2>1, SettlementKeepsLedger DEF RecordRunCoverage, PromotionInv
<1>11. ASSUME NEW s \in Runs, SettleMet(r, s) PROVE LedgerInv'
  <2>1. status[s] = "finished"
    BY <1>11 DEF SettleMet, SettledAreFinished
  <2> QED
    BY <1>11, <2>1, SettlementKeepsLedger DEF SettleMet, PromotionInv, promotionVars
<1>12. CASE ClaimBegins(r)
  BY <1>12, LedgerFrame DEF ClaimBegins
<1> QED
  BY ClaimKeepsLedger, StartCallKeepsLedger, FinishKeepsLedger,
     <1>1, <1>2, <1>3, <1>4, <1>5, <1>6, <1>7, <1>8, <1>9, <1>10, <1>11, <1>12
  DEF RunNext

LEMMA NextKeepsLedger ==
    ASSUME LedgerInv, PromotionInv, ClaimInv, [Next]_vars PROVE LedgerInv'
<1>1. CASE \E x \in calls : EndCall(x)
  BY <1>1, LedgerFrame DEF EndCall, ledgerVars, historyVars
<1>2. CASE SweepLists
  BY <1>2, LedgerFrame DEF SweepLists, runVars, historyVars
<1>3. ASSUME NEW s \in Runs, SweepSettles(s) PROVE LedgerInv'
  <2>1. status[s] = "finished"
    BY <1>3 DEF SweepSettles, ClaimInv, SettledAreFinished
  <2> QED
    BY <1>3, <2>1, SettlementKeepsLedger DEF SweepSettles, runVars, PromotionInv
<1>4. CASE UNCHANGED vars
  BY <1>4, LedgerFrame DEF vars, runVars, ledgerVars, historyVars
<1> QED
  BY RunKeepsLedger, <1>1, <1>2, <1>3, <1>4 DEF Next

LEMMA LedgerAtFirst == Init => LedgerInv
<1> SUFFICES ASSUME Init PROVE LedgerInv
  OBVIOUS
<1>1. NoRow \in Rows
  BY DEF NoRow, Rows
<1>2. results = <<>> /\ DOMAIN results = {} /\ results \in Seq(Runs)
  BY DEF Init
<1>3. ResultTypes /\ PaidOnce
  BY <1>1, <1>2 DEF Init, ResultTypes, PaidOnce
<1>4. FinishedOnce /\ LaterYields
  BY <1>2 DEF Init, FinishedOnce, LaterYields, Before
<1>5. InOrderIsSettled /\ EnrichedIsKnown
  BY DEF Init, InOrderIsSettled, EnrichedIsKnown, NoRow
<1>6. QueueUnpaid
  BY DEF Init, QueueUnpaid
<1> QED
  BY <1>3, <1>4, <1>5, <1>6 DEF LedgerInv

-----------------------------------------------------------------------------
\* Claims, promotions and ledger keep each other's promises in every reachable
\* state (catalog_variant_coverage_apply, record_run_coverage).
THEOREM CoverageInvariant == Spec => [](ClaimInv /\ PromotionInv /\ LedgerInv)
<1>1. Init => ClaimInv /\ PromotionInv /\ LedgerInv
  BY ClaimsAtFirst, PromotionsAtFirst, LedgerAtFirst
<1>2. ClaimInv /\ PromotionInv /\ LedgerInv /\ [Next]_vars
        => (ClaimInv /\ PromotionInv /\ LedgerInv)'
  BY NextKeepsClaims, NextKeepsPromotions, NextKeepsLedger
<1> QED
  BY <1>1, <1>2, PTL DEF Spec

\* A variant whose enrichment is durable is not paid for again, unless a
\* settlement out of order has overwritten its row (record_run_coverage,
\* reconcile_pending_settlements).
THEOREM DurableWorkPaidOnce == Spec => []PaidOnce
<1>1. LedgerInv => PaidOnce
  BY DEF LedgerInv
<1> QED
  BY <1>1, CoverageInvariant, PTL

\* A finished run has promoted, once, or refused whatever it verified
\* (CatalogPromotionPipeline.promote).
THEOREM EveryPromotionAnswered == Spec => []NoPromotionStranded
<1>1. PromotionInv => NoPromotionStranded
  BY RunAssumption, CandidateAssumption
  DEF PromotionInv, PromotionTypes, NothingStranded, Answered, NoPromotionStranded
<1> QED
  BY <1>1, CoverageInvariant, PTL

=============================================================================
