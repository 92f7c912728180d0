--------------------------- MODULE VariantCoverage ---------------------------
(* The variant coverage ledger and the paid-work claims before it: runs of   *)
(* several mapping plans are handed register rows of the same variants, and  *)
(* no two of them may pay for one variant, at once or one after the other,   *)
(* although workers die, leases lapse and a finished run's settlement is     *)
(* lost or late (government/preparation.py, coverage.py, pipeline.py).       *)
(* A run has one process at a time: an older one fails every guarded         *)
(* statement and its budget tracker starts no call.                          *)
(* A claim meets the rows of the keys it wants and then reads them, and a    *)
(* row may be deleted in between; its items are decided together as it       *)
(* commits.                                                                  *)
EXTENDS Naturals, Sequences, FiniteSets

CONSTANTS
    Runs,           \* runs bound to a batch
    NoRun,
    Candidates,     \* register rows of all snapshots
    KeyOf,          \* candidate -> its variant identity key
    ContentOf,      \* candidate -> the hash of its row, less the row's id
    Snapshot,       \* run -> the candidates of its pinned snapshot
    Batch,          \* run -> the items it was handed
    Includes,       \* the runs of plans that ask for unresolved variants again
    Promotes,       \* the runs with canonical promotion switched on
    Outcomes,       \* run -> the statuses its result may state of a queued item
    MaxTries        \* run -> how many processes it may have

ASSUME RunAssumption == NoRun \notin Runs /\ Includes \subseteq Runs /\ Promotes \subseteq Runs
ASSUME MaxTriesAssumption == MaxTries \in [Runs -> Nat \ {0}]
ASSUME CandidateAssumption ==
    /\ DOMAIN KeyOf = Candidates /\ DOMAIN ContentOf = Candidates
    /\ Snapshot \in [Runs -> SUBSET Candidates]
    /\ Batch \in [Runs -> SUBSET Candidates]
    /\ \A r \in Runs : Batch[r] \subseteq Snapshot[r]

\* One content per variant in a batch: rows of one key and two contents are a
\* collision the register's own codes rule out inside a plan.
ASSUME BatchAssumption ==
    \A r \in Runs : \A c, d \in Batch[r] : KeyOf[c] = KeyOf[d] => ContentOf[c] = ContentOf[d]

Keys == {KeyOf[c] : c \in Candidates}

Statuses == {"enriched", "unresolved", "pending", "failed"}

ASSUME OutcomeAssumption == Outcomes \in [Runs -> SUBSET Statuses]

NoRow == [status |-> "none", content |-> {}, run |-> NoRun]

VARIABLES
    status,     \* run -> runs.status: queued, running, finished (with a result), ended (without)
    lease,      \* run -> live, expired, lapsed (expired beyond the takeover grace)
    tries,      \* run -> processes started so far
    pc,         \* run -> where its process is
    queue,      \* run -> the items its process works on
    saved,      \* run -> the queue of its preparation record, {} before there is one
    todo,       \* run -> the finished runs its preparation has yet to settle
    asked,      \* run -> whether its preparation has asked again after settling
    calls,      \* requests the provider works on: run, its process, the items asked about
    output,     \* run -> candidate -> the status its durable result states
    owed,       \* run -> candidates its process has yet to promote
    owner,      \* key -> the run that holds catalog_variant_reservations' row
    vanished,   \* run -> keys whose row was deleted since its claim began
    ledger,     \* key -> the row of catalog_variant_coverage
    sweep,      \* the finished runs a queue build has listed and not yet settled
    readyFor,   \* candidates whose stored status is ready_for_review
    canonical,  \* candidate -> promotions stored for it
    refused,    \* run -> candidates whose promotion it reports refused or failed
    results,    \* the finished runs, in the order they finished
    inOrder,    \* key -> the row it would have had each run been settled as it finished
    overtaken,  \* keys whose row was replaced by that of a run that finished earlier
    paidAgain,  \* keys a call was made for although their result existed
    bare        \* <<run, key>>: the run was told "reserved" and no row says so

runVars == <<status, lease, tries, pc, queue, saved, todo, asked, calls, output>>
promotionVars == <<owed, readyFor, canonical, refused>>
ledgerVars == <<owner, vanished, ledger, sweep>>
historyVars == <<results, inOrder, overtaken, paidAgain, bare>>
vars == <<runVars, promotionVars, ledgerVars, historyVars>>

Nothing == [c \in {} |-> "failed"]

Init ==
    /\ status = [r \in Runs |-> "queued"]
    /\ lease = [r \in Runs |-> "lapsed"]
    /\ tries = [r \in Runs |-> 0]
    /\ pc = [r \in Runs |-> "gone"]
    /\ queue = [r \in Runs |-> {}]
    /\ saved = [r \in Runs |-> {}]
    /\ todo = [r \in Runs |-> {}]
    /\ asked = [r \in Runs |-> FALSE]
    /\ calls = {}
    /\ output = [r \in Runs |-> Nothing]
    /\ owed = [r \in Runs |-> {}]
    /\ owner = [k \in Keys |-> NoRun]
    /\ vanished = [r \in Runs |-> {}]
    /\ ledger = [k \in Keys |-> NoRow]
    /\ sweep = {}
    /\ readyFor = {}
    /\ canonical = [c \in Candidates |-> 0]
    /\ refused = [r \in Runs |-> {}]
    /\ results = <<>>
    /\ inOrder = [k \in Keys |-> NoRow]
    /\ overtaken = {}
    /\ paidAgain = {}
    /\ bare = {}

-----------------------------------------------------------------------------
(* The ledger: what a run's result says of each variant, and what replaces   *)
(* what. *)

Rank == [enriched |-> 4, unresolved |-> 3, pending |-> 2, failed |-> 1, none |-> 0]

\* The strongest status any row of the key earned.
Strongest(entries, k) ==
    CHOOSE s \in Statuses :
        /\ \E c \in DOMAIN entries : KeyOf[c] = k /\ entries[c] = s
        /\ \A c \in DOMAIN entries : KeyOf[c] = k => Rank[entries[c]] <= Rank[s]

\* settle_keys: rows of one key whose content differs, anywhere in the run's
\* snapshot, are a collision: none of them is picked.
Settled(r, entries, k) ==
    LET contents == {ContentOf[c] : c \in {d \in Snapshot[r] : KeyOf[d] = k}}
    IN  [status |-> IF Cardinality(contents) > 1 THEN "failed" ELSE Strongest(entries, k),
         content |-> contents,
         run |-> r]

\* The upsert: other content always replaces, the same content only when the
\* status is no weaker.
Replaces(new, old) ==
    new.content # old.content \/ Rank[new.status] >= Rank[old.status]

Upserted(rows, r, entries) ==
    [k \in Keys |->
        IF \E c \in DOMAIN entries : KeyOf[c] = k
        THEN LET new == Settled(r, entries, k)
             IN  IF Replaces(new, rows[k]) THEN new ELSE rows[k]
        ELSE rows[k]]

\* coverage_decision
Decision(r, c) ==
    LET row == ledger[KeyOf[c]]
        same == row.content = {ContentOf[c]}
    IN  CASE row.status = "enriched" /\ same -> "excluded_already_enriched"
          [] row.status = "unresolved" /\ same /\ r \notin Includes -> "excluded_known_unresolved"
          [] OTHER -> "queue"

Before(r, s) ==
    \E i, j \in DOMAIN results : i < j /\ results[i] = r /\ results[j] = s

\* A row that is deleted may be one that a claim under way has met.
RowsVanish ==
    vanished' = [r \in Runs |->
                    IF pc'[r] = "claiming"
                    THEN vanished[r] \cup {k \in Keys : owner[k] # NoRun /\ owner'[k] = NoRun}
                    ELSE {}]

\* catalog_variant_coverage_apply: the rows and the release of the run's claims
\* in one transaction.
Apply(r) ==
    /\ ledger' = Upserted(ledger, r, output[r])
    /\ owner' = [k \in Keys |-> IF owner[k] = r THEN NoRun ELSE owner[k]]
    /\ RowsVanish
    /\ overtaken' = overtaken \cup
                      {k \in Keys : ledger'[k] # ledger[k] /\ Before(r, ledger[k].run)}

-----------------------------------------------------------------------------
(* The claims. *)

\* Mutant: a claim may be taken over as soon as its owner's lease runs out.
OwnerStateWithoutGrace(s) ==
    IF status[s] = "finished" THEN "settling"
    ELSE IF status[s] # "ended" /\ lease[s] = "live" THEN "active"
    ELSE "dead"

\* Mutant: the claim of a finished run is as dead as that of any ended one.
OwnerStateFinishedIsDead(s) ==
    IF status[s] \in {"queued", "running"} /\ lease[s] # "lapsed" THEN "active" ELSE "dead"

\* catalog_variant_reservation_state
OwnerState(s) ==
    IF status[s] = "finished" THEN "settling"
    ELSE IF status[s] # "ended" /\ lease[s] # "lapsed" THEN "active"
    ELSE "dead"

Claimable(r, k) == owner[k] \in {NoRun, r} \/ OwnerState(owner[k]) = "dead"

\* What acquire_catalog_variant_reservations_guarded answers for one item.  The
\* insert met a row of the keys in missed and the select found none: the owner
\* of no row is as dead as that of a deleted run.
Answer(r, c, missed) ==
    LET k == KeyOf[c]
    IN  IF Decision(r, c) # "queue" THEN Decision(r, c)
        ELSE IF k \in missed \/ Claimable(r, k) THEN "reserved"
        ELSE IF OwnerState(owner[k]) = "settling" THEN "settlement_pending"
        ELSE "reserved_by_other"

Wanted(r) == IF saved[r] = {} THEN Batch[r] ELSE saved[r]

\* The rows after it: claims on settled variants are given back, and the update
\* of a row that was not found changes none.
Acquired(r, missed) ==
    [k \in Keys |->
        LET items == {c \in Wanted(r) : KeyOf[c] = k}
        IN  IF k \in missed THEN owner[k]
            ELSE IF \E c \in items : Answer(r, c, missed) = "reserved" THEN r
            ELSE IF items # {} /\ owner[k] = r THEN NoRun
            ELSE owner[k]]

\* The keys it is told are its own although no row says so.
Bared(r, missed) ==
    {k \in missed : \E c \in Wanted(r) : KeyOf[c] = k /\ Answer(r, c, missed) = "reserved"}

Acquire(r, missed) ==
    /\ owner' = Acquired(r, missed)
    /\ RowsVanish
    /\ bare' = bare \cup {<<r, k>> : k \in Bared(r, missed)}

-----------------------------------------------------------------------------
(* A run's process. *)

Leased(r) == lease[r] = "live"

At(r, where) == pc[r] = where

Goto(r, where) == pc' = [pc EXCEPT ![r] = where]

\* A process begins with nothing in memory and takes its memory with it.
Blank(r) ==
    /\ queue' = [queue EXCEPT ![r] = {}]
    /\ todo' = [todo EXCEPT ![r] = {}]
    /\ asked' = [asked EXCEPT ![r] = FALSE]
    /\ owed' = [owed EXCEPT ![r] = {}]
    /\ output' = [output EXCEPT ![r] = IF status[r] = "finished" THEN @ ELSE Nothing]

Exit(r) == Goto(r, "gone") /\ Blank(r)

\* The worker claims the run, at first or for a retry.
ClaimRun(r) ==
    /\ status[r] \in {"queued", "running"} /\ tries[r] < MaxTries[r]
    /\ ~Leased(r)
    /\ status' = [status EXCEPT ![r] = "running"]
    /\ lease' = [lease EXCEPT ![r] = "live"]
    /\ tries' = [tries EXCEPT ![r] = @ + 1]
    /\ Goto(r, "preparing")
    /\ Blank(r)
    /\ refused' = [refused EXCEPT ![r] = {}]
    /\ UNCHANGED <<saved, calls, readyFor, canonical, ledgerVars, historyVars>>

\* What preparation makes of the answers it accepts: a batch loses its excluded
\* items, a resumed queue must still be wholly its own.
Prepared(r, missed) ==
    LET reserved == {c \in Wanted(r) : Answer(r, c, missed) = "reserved"}
        resumed == saved[r] # {}
        refusal == reserved = {} \/ (resumed /\ reserved # saved[r])
    IN  /\ queue' = [queue EXCEPT ![r] = IF refusal THEN {} ELSE reserved]
        /\ Goto(r, IF refusal THEN "refused" ELSE IF resumed THEN "working" ELSE "prepared")

\* The claim's lease is checked, and its insert meets the rows there are.
ClaimBegins(r) ==
    /\ At(r, "preparing") /\ Leased(r)
    /\ Goto(r, "claiming")
    /\ vanished' = [vanished EXCEPT ![r] = {}]
    /\ UNCHANGED <<status, lease, tries, queue, saved, todo, asked, calls, output,
                   promotionVars, owner, ledger, sweep, historyVars>>

\* _claim, _from_batch and _resume: one claim, and a second one once the
\* finished runs the first met have been settled.
Claim(r, missed) ==
    LET met == {c \in Wanted(r) : Answer(r, c, missed) = "settlement_pending"}
        pending == {owner[KeyOf[c]] : c \in met}
    IN  /\ At(r, "claiming")
        /\ IF pending # {} /\ ~asked[r]
           THEN /\ todo' = [todo EXCEPT ![r] = pending]
                /\ asked' = [asked EXCEPT ![r] = TRUE]
                /\ Goto(r, "settling") /\ UNCHANGED queue
           ELSE Prepared(r, missed) /\ UNCHANGED <<todo, asked>>
        /\ Acquire(r, missed)
        /\ UNCHANGED <<status, lease, tries, saved, calls, output, promotionVars, ledger,
                       sweep, results, inOrder, overtaken, paidAgain>>

\* The claim commits and its answer is lost (GOVERNMENT_QUEUE_UNAVAILABLE).
ClaimAnswerLost(r, missed) ==
    /\ At(r, "claiming")
    /\ Goto(r, "refused")
    /\ Acquire(r, missed)
    /\ UNCHANGED <<status, lease, tries, queue, saved, todo, asked, calls, output,
                   promotionVars, ledger, sweep, results, inOrder, overtaken, paidAgain>>

\* reconcile_pending_settlements, one run of its list: settle_run settles it
\* from its durable output or puts it off.
SettleMet(r, s) ==
    /\ At(r, "settling") /\ s \in todo[r]
    /\ todo' = [todo EXCEPT ![r] = @ \ {s}]
    /\ Goto(r, IF todo[r] = {s} THEN "preparing" ELSE "settling")
    /\ Apply(s) \/ UNCHANGED <<ledger, owner, vanished, overtaken>>
    /\ UNCHANGED <<status, lease, tries, queue, saved, asked, calls, output, promotionVars,
                   sweep, results, inOrder, paidAgain, bare>>

SavePreparation(r) ==
    /\ At(r, "prepared") /\ Leased(r)
    /\ saved' = [saved EXCEPT ![r] = queue[r]]
    /\ Goto(r, "working")
    /\ UNCHANGED <<status, lease, tries, queue, todo, asked, calls, output, promotionVars,
                   ledgerVars, historyVars>>

InFlight(r) == {x \in calls : x.run = r}

\* The requests of the run's present process, which joins its threads before
\* it reports an outcome.
OwnCalls(r) == {x \in InFlight(r) : x.try = tries[r]}

\* A paid call of the engine: the tracker asks holds_lease before it.
StartCall(r) ==
    /\ At(r, "working") /\ Leased(r) /\ OwnCalls(r) = {}
    /\ calls' = calls \cup {[run |-> r, try |-> tries[r], items |-> queue[r]]}
    /\ paidAgain' = paidAgain \cup
                      {KeyOf[c] : c \in {d \in queue[r] :
                          /\ inOrder[KeyOf[d]].status = "enriched"
                          /\ inOrder[KeyOf[d]].content = {ContentOf[d]}}}
    /\ UNCHANGED <<status, lease, tries, pc, queue, saved, todo, asked, output, promotionVars,
                   ledgerVars, results, inOrder, overtaken, bare>>

\* It ends by itself or at its total deadline, also after the process has died.
EndCall(x) ==
    /\ calls' = calls \ {x}
    /\ UNCHANGED <<status, lease, tries, pc, queue, saved, todo, asked, output, promotionVars,
                   ledgerVars, historyVars>>

\* derive_coverage's entries of a result: a status for every item of the queue,
\* and an ambiguous match also names rows beyond it.
EntriesOf(r, found, beyond) ==
    [c \in queue[r] \cup beyond |-> IF c \in queue[r] THEN found[c] ELSE "unresolved"]

Entries(r) ==
    {EntriesOf(r, found, beyond) :
        found \in [queue[r] -> Outcomes[r]], beyond \in SUBSET (Snapshot[r] \ queue[r])}

EngineEnds(r, entries) ==
    /\ At(r, "working") /\ OwnCalls(r) = {}
    /\ output' = [output EXCEPT ![r] = entries]
    /\ Goto(r, IF r \in Promotes THEN "promoting" ELSE "finalizing")
    /\ UNCHANGED <<status, lease, tries, queue, saved, todo, asked, calls, promotionVars,
                   ledgerVars, historyVars>>

-----------------------------------------------------------------------------
(* Canonical promotion, between the engine and the finalizer. *)

Verified(r) == {c \in queue[r] : output[r][c] = "enriched"}

\* Mutant: a read that fails says that nothing is owed.
ReadPendingOrNothing(r) ==
    /\ At(r, "promoting")
    /\ \/ /\ owed' = [owed EXCEPT ![r] = Verified(r)]
          /\ Goto(r, IF Verified(r) = {} THEN "finalizing" ELSE "reviewing")
       \/ Goto(r, "finalizing") /\ UNCHANGED owed
    /\ UNCHANGED <<status, lease, tries, queue, saved, todo, asked, calls, output, readyFor,
                   canonical, refused, ledgerVars, historyVars>>

\* pending: what the database says the run owes. A read that fails is not an
\* empty answer: it escapes and the process ends.
ReadPending(r) ==
    /\ At(r, "promoting")
    /\ \/ /\ owed' = [owed EXCEPT ![r] = Verified(r)]
          /\ Goto(r, IF Verified(r) = {} THEN "finalizing" ELSE "reviewing")
          /\ UNCHANGED <<queue, todo, asked, output>>
       \/ Exit(r)
    /\ UNCHANGED <<status, lease, tries, saved, calls, readyFor, canonical, refused,
                   ledgerVars, historyVars>>

\* _promote_one up to _review: verdicts read, links and the reviewed status
\* written, each once however often it is repeated; or the candidate refused.
Review(r, c) ==
    /\ At(r, "reviewing") /\ c \in owed[r]
    /\ \/ /\ Leased(r) /\ c \notin readyFor
          /\ readyFor' = readyFor \cup {c} /\ UNCHANGED <<owed, pc, refused>>
       \/ /\ owed' = [owed EXCEPT ![r] = @ \ {c}]
          /\ refused' = [refused EXCEPT ![r] = @ \cup {c}]
          /\ Goto(r, IF owed[r] = {c} THEN "finalizing" ELSE "reviewing")
          /\ UNCHANGED readyFor
    /\ UNCHANGED <<status, lease, tries, queue, saved, todo, asked, calls, output, canonical,
                   ledgerVars, historyVars>>

\* promote_catalog_variant_guarded: a promotion stored already is replayed and
\* written nowhere.
Stored(c) == IF canonical[c] > 0 THEN canonical[c] ELSE 1

Promote(r, c) ==
    /\ At(r, "reviewing") /\ Leased(r) /\ c \in owed[r] /\ c \in readyFor
    /\ canonical' = [canonical EXCEPT ![c] = Stored(c)]
    /\ owed' = [owed EXCEPT ![r] = @ \ {c}]
    /\ Goto(r, IF owed[r] = {c} THEN "finalizing" ELSE "reviewing")
    /\ UNCHANGED <<status, lease, tries, queue, saved, todo, asked, calls, output, readyFor,
                   refused, ledgerVars, historyVars>>

\* A defect in the promotion path: the result is kept and says so.
PromotionFails(r) ==
    /\ pc[r] \in {"promoting", "reviewing"}
    /\ refused' = [refused EXCEPT ![r] = @ \cup Verified(r)]
    /\ Goto(r, "finalizing")
    /\ UNCHANGED <<status, lease, tries, queue, saved, todo, asked, calls, output, owed,
                   readyFor, canonical, ledgerVars, historyVars>>

-----------------------------------------------------------------------------
(* The end of a run. *)

\* Its result becomes durable.
Finish(r) ==
    /\ At(r, "finalizing") /\ Leased(r)
    /\ status' = [status EXCEPT ![r] = "finished"]
    /\ results' = Append(results, r)
    /\ inOrder' = Upserted(inOrder, r, output[r])
    /\ Goto(r, "recording")
    /\ UNCHANGED <<lease, tries, queue, saved, todo, asked, calls, output, promotionVars,
                   ledgerVars, overtaken, paidAgain, bare>>

\* record_run_coverage, under the identity that finalized the run and whether
\* or not its lease has run out; a write that fails is only logged.
RecordRunCoverage(r) ==
    /\ At(r, "recording")
    /\ Exit(r)
    /\ Apply(r) \/ UNCHANGED <<ledger, owner, vanished, overtaken>>
    /\ UNCHANGED <<status, lease, tries, saved, calls, readyFor, canonical, refused,
                   sweep, results, inOrder, paidAgain, bare>>

\* A refused preparation, a failed engine, a cancellation or a tripped rail.
EndWithoutResult(r) ==
    /\ pc[r] \in {"refused", "preparing", "working", "finalizing"} /\ Leased(r)
    /\ OwnCalls(r) = {}
    /\ status' = [status EXCEPT ![r] = "ended"]
    /\ Exit(r)
    /\ UNCHANGED <<lease, tries, saved, calls, readyFor, canonical, refused,
                   ledgerVars, historyVars>>

\* The process dies, or a guarded write is refused it and it exits.
ProcessGone(r) ==
    /\ pc[r] # "gone"
    /\ Exit(r)
    /\ UNCHANGED <<status, lease, tries, saved, calls, readyFor, canonical, refused,
                   ledgerVars, historyVars>>

\* Nobody renews the lease in time; then the takeover grace passes, which is
\* longer than any request's deadline.
LeaseAges(r) ==
    /\ status[r] = "running"
    /\ \/ lease[r] = "live" /\ lease' = [lease EXCEPT ![r] = "expired"]
       \/ lease[r] = "expired" /\ InFlight(r) = {} /\ lease' = [lease EXCEPT ![r] = "lapsed"]
    /\ UNCHANGED <<status, tries, pc, queue, saved, todo, asked, calls, output, promotionVars,
                   ledgerVars, historyVars>>

-----------------------------------------------------------------------------
(* prepare_work_scope's sweep: the list is read once, then settled one by    *)
(* one. *)

Settling == {r \in Runs : status[r] = "finished" /\ \E k \in Keys : owner[k] = r}

SweepLists ==
    /\ sweep = {} /\ Settling # {}
    /\ sweep' = Settling
    /\ UNCHANGED <<runVars, promotionVars, owner, vanished, ledger, historyVars>>

SweepSettles(s) ==
    /\ s \in sweep
    /\ sweep' = sweep \ {s}
    /\ UNCHANGED <<runVars, promotionVars, results, inOrder, paidAgain, bare>>
    /\ Apply(s) \/ UNCHANGED <<ledger, owner, vanished, overtaken>>

-----------------------------------------------------------------------------
RunNext(r) ==
    \/ ClaimRun(r)
    \/ ClaimBegins(r)
    \/ \E missed \in SUBSET vanished[r] : Claim(r, missed) \/ ClaimAnswerLost(r, missed)
    \/ \E s \in Runs : SettleMet(r, s)
    \/ SavePreparation(r)
    \/ StartCall(r)
    \/ \E entries \in Entries(r) : EngineEnds(r, entries)
    \/ ReadPending(r)
    \/ \E c \in Candidates : Review(r, c) \/ Promote(r, c)
    \/ PromotionFails(r)
    \/ Finish(r) \/ RecordRunCoverage(r) \/ EndWithoutResult(r)
    \/ ProcessGone(r) \/ LeaseAges(r)

Next ==
    \/ \E r \in Runs : RunNext(r)
    \/ \E x \in calls : EndCall(x)
    \/ SweepLists
    \/ \E s \in Runs : SweepSettles(s)

Spec == Init /\ [][Next]_vars

-----------------------------------------------------------------------------
(* Properties. *)

\* The provider never works for two runs on one variant at a time, although a
\* claim passes from a run whose lease lapsed to another and the first may be
\* retried (acquire_catalog_variant_reservations_guarded, _resume).  There are
\* two exceptions.  A request a dead process left behind, once a later process
\* of its run has ended the run and with that the claim, or has given the claim
\* back because the ledger had meanwhile settled the variant.  And a variant
\* that one of the two was told is reserved for it while the row it had met
\* was deleted, and for which it still has no row.
LeftBehind(x) ==
    /\ x.try < tries[x.run]
    /\ status[x.run] \in {"finished", "ended"} \/ \E c \in x.items : owner[KeyOf[c]] # x.run

KeysOf(x) == {KeyOf[c] : c \in x.items}

Unheld(r, k) == <<r, k>> \in bare /\ owner[k] # r

PaidAlone ==
    \A x, y \in calls :
        x.run # y.run /\ ~LeftBehind(x) /\ ~LeftBehind(y) =>
            \A k \in KeysOf(x) \cap KeysOf(y) : Unheld(x.run, k) \/ Unheld(y.run, k)

\* A variant whose enrichment is durable is not paid for again while its row
\* is unchanged: the claim of a finished run blocks until the ledger has its
\* result, whoever settles it and whatever is lost (record_run_coverage,
\* reconcile_pending_settlements).  The exceptions are a settlement so late that
\* it overwrites the row of a run that finished after it, and a variant some
\* run was told is reserved for it without a row of its own.
BareKeys == {k \in Keys : \E r \in Runs : <<r, k>> \in bare}

PaidOnce == paidAgain \subseteq overtaken \cup BareKeys

\* A run that finishes with a sound result has promoted each candidate it
\* verified, once, or recorded its refusal: no death, retry or failed read
\* strands a promotion that nobody would come back for
\* (CatalogPromotionPipeline.promote).
NoPromotionStranded ==
    /\ \A c \in Candidates : canonical[c] <= 1
    /\ \A r \in Promotes :
            status[r] = "finished" =>
                \A c \in DOMAIN output[r] :
                    output[r][c] = "enriched" => canonical[c] = 1 \/ c \in refused[r]

=============================================================================
