------------------------- MODULE VehicleCatalogV1 -------------------------
(***************************************************************************)
(* One Vehicle Catalog V1 run (backend/engines/vehicle_catalog_v1):         *)
(* discovery, a normalizer, technical agents over chunks of models, a       *)
(* verifier over chunks of models, the evidence authority that holds the    *)
(* verifier to durable evidence, a deterministic builder, a summary; and    *)
(* the worker that finalizes the run, or resumes it after a death.  Phases  *)
(* follow one another in one process and an agent pool returns its results  *)
(* in a fixed order, so a phase is one step; the writes of the evidence     *)
(* board are steps of their own.                                            *)
(*                                                                          *)
(* What agents and the verifier answer is chosen.  Their records and        *)
(* entries carry names of their own, which the evidence folds in one way    *)
(* and the final merge in another; what folds to nothing names nothing and  *)
(* is not among the names.                                                  *)
(***************************************************************************)
EXTENDS Integers, Sequences, FiniteSets

CONSTANTS
    Models,          \* what the normalizer may call canonical, in list order
    Called,          \* [Models -> its canonical name, its model name, its aliases]
    Names,           \* spellings of models
    EvidenceKey,     \* [Names -> evidence_authority.model_key]
    MergeKey,        \* [Names -> core.normalize_model_key]
    BaseIsraeli,     \* models whose discovery sources are Israeli
    Agents,          \* TECHNICAL_AGENTS
    Records,         \* what a technical item may be: see IsRecord
    Offers,          \* [Agents \X Models -> sets of what one answer may hold]
    Replies,         \* the entries a verifier may answer of a model with
    TechnicalChunk,  \* TECHNICAL_MODEL_CHUNK_SIZE
    VerifierChunk,   \* VERIFIER_MODEL_CHUNK_SIZE
    IsraelRequired,  \* market_requires_israel_policy
    MaxAttempts      \* bound: attempts of the run

\* a record: the name it is evidenced and the name it is merged under, the
\* value of the one field that matters, the identity it states, whether it
\* cites an Israeli-market source, and its confidence
IsRecord(r) ==
    /\ DOMAIN r = {"name", "filed", "states", "variant", "israeli", "confidence"}
    /\ {r.name, r.filed} \subseteq Names
    /\ r.israeli \in BOOLEAN /\ r.confidence \in 0..3

\* no value, or none the evidence contracts accept
Nothing == "nothing"

\* an answer that records missing data instead of a record
Missing == [states |-> "missing"]

\* an entry in a list of the verifier's document; "none": it gives no status
Lists == {"verified_models", "needs_review", "rejected_data_points"}
Statuses == {"verified", "partial", "needs_review", "rejected"}
Entries == [list : Lists, name : Names, status : Statuses \cup {"none"}]

ASSUME CatalogConstants ==
    /\ Models \subseteq Nat /\ Models # {} /\ IsFiniteSet(Models)
    /\ Called \in [Models -> Seq(Names)] /\ \A m \in Models : Called[m] # <<>>
    /\ DOMAIN EvidenceKey = Names /\ DOMAIN MergeKey = Names
    /\ BaseIsraeli \subseteq Models /\ Agents # {} /\ IsFiniteSet(Agents)
    /\ \A r \in Records : IsRecord(r)
    /\ Offers \in [Agents \X Models -> SUBSET SUBSET (Records \cup {Missing})]
    /\ {TechnicalChunk, VerifierChunk, MaxAttempts} \subseteq Nat \ {0}
    /\ IsraelRequired \in BOOLEAN

\* one entry per list is what is asked of an answer about one model; an answer
\* that repeats itself is one that speaks of two models
ASSUME ReplyConstants ==
    /\ Replies \subseteq SUBSET Entries
    /\ \A reply \in Replies : \A e, f \in reply : e.list = f.list => e = f

VARIABLES
    pc,       \* where the worker is
    attempt,
    w,        \* what this attempt holds in memory
    board,    \* the evidence board: what is recorded of each claim
    ck,       \* the document of a summary checkpoint, or NoDocument
    worth,    \* history: what the attempt that wrote it took it to be worth
    out       \* how the run ended

vars == <<pc, attempt, w, board, ck, worth, out>>

\* a record, the agent that made it and the model it was asked about
Claims == Agents \X Models \X Records

\* the model a claim is about
About(c) == EvidenceKey[c[3].name]

NoMemory == [canonical |-> {}, clean |-> {}, failures |-> {},
             got |-> [am \in Agents \X Models |-> {}],
             reply |-> [m \in Models |-> {}], verifier |-> "none",
             durable |-> {}, settled |-> {}, readable |-> FALSE]
NoDocument == [status |-> "none", models |-> <<>>, failures |-> {}, verifier |-> "none",
               technical |-> "none", claims |-> {}, believed |-> {}, basis |-> <<>>]

Init ==
    /\ pc = "claimed" /\ attempt = 1 /\ w = NoMemory
    /\ board = [c \in Claims |-> [rows |-> {}, current |-> "none"]]
    /\ ck = NoDocument /\ worth = "none" /\ out = "none"

----------------------------------------------------------------------------
(* One agent. *)

\* a chat answer: usable, worth one fallback, refused by validation, or the
\* provider's backpressure
Answers == {"ok", "retryable", "refused", "limited"}

\* run_safe_agent: a retryable answer is asked for once more where the agent
\* has a fallback prompt; the second answer is final
FinalAnswer(first, second, fallback) ==
    IF first = "retryable" /\ fallback THEN second ELSE first

\* safe_agent_result
AgentStatus(answer, allowPartial) ==
    CASE answer = "ok" -> "success"
      [] answer = "limited" /\ allowPartial -> "partial"
      [] OTHER -> "failed"

SafeAgentResults(fallback, allowPartial) ==
    {AgentStatus(FinalAnswer(a, b, fallback), allowPartial) : a \in Answers, b \in Answers}

\* the chunk of the canonical list that holds a model
ChunkOf(m, canonical, size) ==
    (Cardinality({n \in canonical : n < m}) \div size) + 1

Chunks(canonical, size) == {ChunkOf(m, canonical, size) : m \in canonical}

\* the attempt is over and its process with it
End(outcome) == pc' = "done" /\ out' = outcome /\ w' = NoMemory

----------------------------------------------------------------------------
(* The phases of VehicleCatalogEngine.run. *)

\* the worker resumes a run whose latest checkpoint is the summary, and starts
\* any other from the beginning
Start ==
    /\ pc = "claimed" /\ ck = NoDocument
    /\ pc' = "discovery"
    /\ UNCHANGED <<attempt, w, board, ck, worth, out>>

\* run_discovery_phase: one successful agent is enough.  The candidates are
\* what the normalizer is shown, and nothing holds its answer to them.
Discovery ==
    /\ pc = "discovery"
    /\ \E r \in SafeAgentResults(TRUE, FALSE) :
          IF r = "success" THEN pc' = "normalizer" /\ UNCHANGED <<out, w>>
                           ELSE End("not_produced")
    /\ UNCHANGED <<attempt, board, ck, worth>>

\* run_normalizer_phase: a non-empty list, or the run fails
Normalizer ==
    /\ pc = "normalizer"
    /\ \E r \in SafeAgentResults(FALSE, FALSE), canonical \in SUBSET Models \ {{}} :
          IF r = "success"
          THEN pc' = "technical" /\ w' = [w EXCEPT !.canonical = canonical] /\ UNCHANGED out
          ELSE End("not_produced")
    /\ UNCHANGED <<attempt, board, ck, worth>>

\* what an agent's answers hold, given how each of its chunks ended
Items(a, canonical, result, item) ==
    [m \in Models |->
        IF m \in canonical /\ result[a, ChunkOf(m, canonical, TechnicalChunk)] = "success"
        THEN item[m] ELSE {}]

\* merge_chunk_results: a chunk the provider had no room for is "partial",
\* holds nothing, and is no failed chunk
MergedStatus(a, chunks, result, held) ==
    IF \A i \in chunks : result[a, i] \in {"success", "partial"} THEN "success"
    ELSE IF \E m \in Models : held[m] # {} THEN "partial" ELSE "failed"

\* run_technical_enrichment_phase, and what the engine keeps of it: an agent
\* that kept anything is clean and its failed chunks are not failures
Technical ==
    /\ pc = "technical"
    /\ LET chunks == Chunks(w.canonical, TechnicalChunk)
       IN  \E result \in [Agents \X chunks -> SafeAgentResults(TRUE, TRUE)] :
           \E got \in [Agents \X Models -> UNION {Offers[am] : am \in Agents \X Models}] :
              LET held == [a \in Agents |->
                              Items(a, w.canonical, result, [m \in Models |-> got[a, m]])]
                  clean == {a \in Agents : MergedStatus(a, chunks, result, held[a]) # "failed"}
              IN  /\ \A a \in Agents, m \in Models :
                        got[a, m] \in IF m \in w.canonical THEN Offers[a, m] ELSE {{}}
                  /\ IF clean = {} THEN End("not_produced")
                     ELSE /\ pc' = "verification" /\ UNCHANGED out
                          /\ w' = [w EXCEPT !.clean = clean, !.failures = Agents \ clean,
                                !.got = [am \in Agents \X Models |-> held[am[1]][am[2]]]]
    /\ UNCHANGED <<attempt, board, ck, worth>>

\* merge_verifier_results over the chunks
VerifierStatus(chunks, result) ==
    IF \A i \in chunks : result[i] = "success" THEN "success"
    ELSE IF \E i \in chunks : result[i] = "success" THEN "partial"
    ELSE "failed"

\* run_verification_phase: no fallback, no partial answer; a failed chunk says
\* nothing of its models
Verification ==
    /\ pc = "verification"
    /\ LET chunks == Chunks(w.canonical, VerifierChunk)
       IN  \E result \in [chunks -> SafeAgentResults(FALSE, FALSE)] :
           \E said \in [w.canonical -> Replies] :
              LET heard == {m \in w.canonical :
                              result[ChunkOf(m, w.canonical, VerifierChunk)] = "success"}
                  status == VerifierStatus(chunks, result)
              IN  w' = [w EXCEPT !.verifier = status,
                          !.failures = @ \cup (IF status = "success" THEN {} ELSE {"verifier"}),
                          !.reply = [m \in Models |-> IF m \in heard THEN said[m] ELSE {}]]
    /\ pc' = "persist"
    /\ UNCHANGED <<attempt, board, ck, worth, out>>

----------------------------------------------------------------------------
(* The evidence authority. *)

\* observed_records of the clean agents: a record that states a value
Observed(mem) ==
    {c \in Claims : /\ c[1] \in mem.clean /\ c[3] \in mem.got[c[1], c[2]]
                    /\ c[3].states # Nothing}

\* contradicted_scopes: one agent, one model, one stated identity, two values
Contradicted(c, claims) ==
    \E d \in claims : /\ d[1] = c[1] /\ About(d) = About(c)
                      /\ d[3].variant = c[3].variant /\ d[3].states # c[3].states

\* flagged_model_keys: an entry outside verified_models flags by being there,
\* unless it states another status
Flags(e) ==
    \/ e.status \in {"partial", "needs_review", "rejected"}
    \/ e.status = "none" /\ e.list # "verified_models"

Flagged(reply) ==
    {EvidenceKey[e.name] : e \in {f \in UNION {reply[m] : m \in Models} : Flags(f)}}

\* decide_verdict, for a claim that is durable
Decided(c, claims, reply) ==
    IF Contradicted(c, claims) THEN "contradicted"
    ELSE IF IsraelRequired /\ ~c[3].israeli THEN "no_market"
    ELSE IF About(c) \in Flagged(reply) THEN "flagged"
    ELSE "located"

\* _persist: a claim is durable if the authority heard of its rows
Persist ==
    /\ pc = "persist"
    /\ \E durable \in SUBSET Observed(w) :
          w' = [w EXCEPT !.durable = durable]
    /\ pc' = "settle"
    /\ UNCHANGED <<attempt, board, ck, worth, out>>

\* record_claim_verdict_guarded: a verdict's identity is its content, so a
\* repeated one is the row it was, at the time it was first written
Recorded(entry, reason) ==
    IF reason \in entry.rows THEN entry
    ELSE [rows |-> entry.rows \cup {reason}, current |-> reason]

\* _settle for every durable claim: some writes fail, and of those some were
\* made and their answer lost
Settle ==
    /\ pc = "settle"
    /\ \E written \in SUBSET w.durable : \E heard \in SUBSET written :
          /\ board' = [c \in Claims |->
                IF c \in written THEN Recorded(board[c], Decided(c, Observed(w), w.reply))
                ELSE board[c]]
          /\ w' = [w EXCEPT !.settled = heard]
    /\ pc' = "read"
    /\ UNCHANGED <<attempt, ck, worth, out>>

\* _current_states: one answer for every settled claim, or none at all
ReadStates ==
    /\ pc = "read"
    /\ \E readable \in BOOLEAN : w' = [w EXCEPT !.readable = readable]
    /\ pc' = "build"
    /\ UNCHANGED <<attempt, board, ck, worth, out>>

\* DurableAnswer: a bug that believes a verdict nobody has seen written
DurableAnswerOpen(c, decided) ==
    IF c \notin w.durable THEN "unsupported" ELSE decided

\* _durable_answer: a verified field is durable, readable and current
DurableAnswer(c, decided) ==
    CASE c \notin w.durable -> "unsupported"
      [] decided # "located" -> decided
      [] c \notin w.settled -> "not_durable"
      [] ~w.readable -> "unavailable"
      [] board[c].current # "located" -> "not_supported"
      [] OTHER -> "located"

\* the reasons the report holds of the model a name folds to
ReportOf(name) ==
    {DurableAnswer(c, Decided(c, Observed(w), w.reply)) :
        c \in {d \in Observed(w) : About(d) = EvidenceKey[name]}}

\* apply_evidence_authority: a verified entry of verified_models keeps its
\* status only if everything the evidence says of its name was located
HeldStatus(e) ==
    IF e.status # "verified" \/ ReportOf(e.name) = {"located"} THEN e.status
    ELSE IF "contradicted" \in ReportOf(e.name) THEN "rejected" ELSE "needs_review"

----------------------------------------------------------------------------
(* The document and what it is worth. *)

\* _candidate_keys, and the first of them that an index has
Found(m, keys) == \E i \in DOMAIN Called[m] : MergeKey[Called[m][i]] \in keys

FirstKey(m, keys) ==
    LET i == CHOOSE j \in DOMAIN Called[m] :
                 /\ MergeKey[Called[m][j]] \in keys
                 /\ \A h \in DOMAIN Called[m] : h < j => MergeKey[Called[m][h]] \notin keys
    IN  MergeKey[Called[m][i]]

\* the entries of a list, by the model they answer for and their merge key
Holding(list, key) ==
    {m \in Models : \E e \in w.reply[m] : e.list = list /\ MergeKey[e.name] = key}

Indexed(list) == {MergeKey[e.name] : e \in {f \in UNION {w.reply[m] : m \in Models} : f.list = list}}

\* _verifier_index: the last entry of a key, and needs_review after the others
LastEntry(key) ==
    LET list == IF key \in Indexed("needs_review") THEN "needs_review" ELSE "verified_models"
        last == CHOOSE m \in Holding(list, key) : \A n \in Holding(list, key) : n <= m
    IN  CHOOSE e \in w.reply[last] : e.list = list /\ MergeKey[e.name] = key

Verdicts == Indexed("verified_models") \cup Indexed("needs_review")

\* the entry of a model the verifier has a verdict of
EntryOf(m) == LastEntry(FirstKey(m, Verdicts))

\* merge_model_data: a model without a status is partial
IndexedStatus(m) ==
    LET status == IF ~Found(m, Verdicts) THEN "none"
                  ELSE IF EntryOf(m).list = "needs_review" THEN EntryOf(m).status
                  ELSE HeldStatus(EntryOf(m))
    IN  IF status \in Statuses THEN status ELSE "partial"

\* _technical_index and _best_item: of the records of the first key an agent
\* has, those of the highest confidence (the code takes the first of them)
Filed(a) == UNION {w.got[a, m] : m \in Models} \ {Missing}

Best(a, m) ==
    LET keys == {MergeKey[r.filed] : r \in Filed(a)}
        stated == {r \in Filed(a) : Found(m, keys) /\ MergeKey[r.filed] = FirstKey(m, keys)}
    IN  {r \in stated : \A u \in stated : u.confidence <= r.confidence}

\* evaluate_sources over the merged model's sources
IsraelEvidence(m) ==
    m \in BaseIsraeli \/ \E a \in w.clean : \E r \in Best(a, m) : r.israeli

\* apply_israel_source_policy
PolicyStatus(m) ==
    IF IsraelRequired /\ ~IsraelEvidence(m) /\ IndexedStatus(m) # "rejected"
    THEN "needs_review" ELSE IndexedStatus(m)

\* build_final_json_python, then the source policy, which leaves its status
Document ==
    LET technical == IF w.clean = Agents THEN "success" ELSE "partial"
    IN  [status |-> IF w.failures = {} /\ w.verifier = "success" /\ technical = "success"
                    THEN "complete" ELSE "partial_success",
         models |-> [m \in w.canonical |-> PolicyStatus(m)],
         failures |-> w.failures, verifier |-> w.verifier, technical |-> technical,
         claims |-> Observed(w),
         believed |-> {m \in w.canonical : Found(m, Verdicts) /\ EntryOf(m).list = "needs_review"},
         basis |-> [m \in {n \in w.canonical : Found(n, Verdicts)} |-> EntryOf(m).name]]

\* _semantic_status: what the engine declares
Declared(doc) ==
    IF doc.failures # {} \/ \E m \in DOMAIN doc.models : doc.models[m] # "verified"
    THEN "partial_success" ELSE doc.status

\* derive_vehicle_catalog_v1_outcome
Outcome(declared, doc) ==
    LET verified == {m \in DOMAIN doc.models : doc.models[m] = "verified"}
    IN  IF verified = {} THEN "unusable"
        ELSE IF /\ verified = DOMAIN doc.models /\ doc.failures = {}
                /\ doc.verifier = "success" /\ doc.technical = "success"
                /\ declared = "complete" /\ doc.status = "complete"
             THEN "complete" ELSE "partial"

\* the final builder and the summary, whose own failure costs nothing, up to
\* the summary checkpoint: the document is all that is used from here on
Build ==
    /\ pc = "build"
    /\ ck' = Document /\ worth' = Outcome(Declared(Document), Document)
    /\ pc' = "finalize" /\ w' = NoMemory
    /\ UNCHANGED <<attempt, board, out>>

Finalize ==
    /\ pc = "finalize"
    /\ End(Outcome(Declared(ck), ck))
    /\ UNCHANGED <<attempt, board, ck, worth>>

\* ResumedOutcome: a bug that completes any run that reached its summary
ResumedOutcomeAlways(doc) == "complete"

\* the resume of a summary checkpoint: the builder's own status is declared
ResumedOutcome(doc) == Outcome(doc.status, doc)

Resume ==
    /\ pc = "claimed" /\ ck # NoDocument
    /\ End(ResumedOutcome(ck))
    /\ UNCHANGED <<attempt, board, ck, worth>>

----------------------------------------------------------------------------
(* What happens to the run from outside. *)

\* _check_cancelled before each phase that calls the provider
Cancel ==
    /\ pc \in {"discovery", "normalizer", "technical", "verification", "build"}
    /\ End("cancelled")
    /\ UNCHANGED <<attempt, board, ck, worth>>

\* a budget rail stops a provider call
BudgetStop ==
    /\ pc \in {"discovery", "normalizer", "technical", "verification", "build"}
    /\ End("budget_stopped")
    /\ UNCHANGED <<attempt, board, ck, worth>>

\* the process dies, loses its lease, or leaves on an error V1 does not handle;
\* another attempt starts with nothing but what is durable
Crash ==
    /\ pc \notin {"claimed", "done"} /\ attempt < MaxAttempts
    /\ pc' = "claimed" /\ attempt' = attempt + 1 /\ w' = NoMemory
    /\ UNCHANGED <<board, ck, worth, out>>

Next ==
    \/ Start \/ Discovery \/ Normalizer \/ Technical \/ Verification
    \/ Persist \/ Settle \/ ReadStates \/ Build \/ Finalize \/ Resume
    \/ Cancel \/ BudgetStop \/ Crash

Spec == Init /\ [][Next]_vars

----------------------------------------------------------------------------
(* Properties. *)

Products == {"complete", "partial", "unusable"}

\* A model that a finished run calls verified is verified by evidence: the entry
\* it takes its verdict from names something this run has stated facts of,
\* nothing stated under that name is contradicted or lacks the market's sources,
\* and every claim's verdict is the board's current one, even when an earlier
\* attempt of the run settled another (_durable_answer, apply_evidence_authority).
\* Two exceptions are the code's own.  An entry under needs_review whose status
\* is "verified" is believed (_verifier_index).  And nothing is asked of a record
\* that the merge files under the model by another spelling or an alias, which
\* the evidence does not fold to the entry's name (model_key, _candidate_keys).
VerifiedHasEvidence ==
    out \in Products =>
        \A m \in DOMAIN ck.models : ck.models[m] = "verified" /\ m \notin ck.believed =>
            LET claims == {c \in ck.claims : About(c) = EvidenceKey[ck.basis[m]]}
            IN  /\ claims # {}
                /\ \A c \in claims : /\ board[c].current = "located"
                                     /\ ~Contradicted(c, ck.claims)
                                     /\ IsraelRequired => c[3].israeli

\* A resumed run is worth what the run it resumes was worth, and no more: the
\* builder's status, which the resume declares, was written before the source
\* policy and the failures could lower it (the resume path of worker/main.py).
ResumedWorthNoMore ==
    (out \in Products /\ worth # "none") => out = worth
=============================================================================
