-------------------------- MODULE SwarmEngineProofs --------------------------
(***************************************************************************)
(* Proofs about SwarmEngine, for any task graph, claims and ceilings: what  *)
(* is checkpointed never runs again, "complete" means verified, the fields  *)
(* shown agree, and a correction round that had its answer stays closed.    *)
(* The argument follows the state through deaths: a resumed run starts from *)
(* the checkpoint, which never knows more than the state it was written of. *)
(***************************************************************************)
EXTENDS SwarmEngine, FiniteSetTheorems, TLAPS

EngineStates ==
    [plan : SUBSET Tasks, rev : Nat, found : [Tasks -> Findings \cup {"none"}], replans : Nat,
     rejected : SUBSET Nat, rounds : Nat, declined : BOOLEAN, correctionRejected : BOOLEAN,
     verdict : [Tasks -> Verdicts], degraded : SUBSET (DegradedCodes \X Nat)]

Working == {"execute", "assess", "decide", "judge", "verify", "batch", "correct", "finalize"}

Types ==
    /\ pc \in Working \cup {"start", "feasible", "save", "ended"}
    /\ pc = "save" => after \in Working \cup {"feasible"}
    /\ st \in EngineStates /\ ck \in EngineStates
    /\ task \in [Tasks -> TaskStates]

\* The main thread is at a place, or will be once its checkpoint is written.
At(places) == pc \in places \/ (pc = "save" /\ after \in places)

\* A process that has not yet read the checkpoint knows nothing.
StartsEmpty == pc = "start" => st = NoState /\ blind = {} /\ \A t \in Tasks : task[t] = "absent"

\* What still runs is in neither the state nor the checkpoint.
WorkIsNew == \A t \in Tasks : task[t] \notin {"absent", "completed"} => t \notin Done(st) \cup Done(ck)

\* The checkpoint never knows more than the state of the process that wrote or
\* resumed it.
CheckpointBehind ==
    pc \notin {"start", "ended"} =>
        /\ Done(ck) \subseteq Done(st)
        /\ CorrectionClosed(ck) => CorrectionClosed(st)

\* In a pass the executor's tasks are the plan's, and the completed ones done;
\* past the execution nothing waits or runs.
PassAgrees ==
    /\ At(Working) => \A t \in Tasks : /\ task[t] = "absent" <=> t \notin st.plan
                                       /\ task[t] = "completed" => t \in Done(st)
    /\ At(Working \ {"execute"}) => \A t \in Tasks : task[t] \in {"absent", "completed", "failed", "blocked"}
    /\ At({"feasible"}) => \A t \in Tasks : task[t] = "absent"

DetectionFailed(s) == \E d \in s.degraded : d[1] = "CONFLICT_DETECTION_FAILED"

\* A detection that failed in this pass is on record.
BlindIsDegraded ==
    /\ "conflict" \in blind => DetectionFailed(st)
    /\ "coverage" \in blind => st.degraded # {}

\* Claims of these verdicts about one scope state one value.
Agree(claims) == \A c, d \in claims : Scope[c] = Scope[d] => Value[c] = Value[d]
VerifiedIn(s) == {c \in Tasks : s.verdict[c] = "verified"}

VerdictsAgree ==
    /\ \A s \in {st, ck} : DetectionFailed(s) \/ Agree(VerifiedIn(s))
    /\ At({"batch"}) => DetectionFailed(st) \/ Agree(VerifiedIn(st) \cup Candidates(st.verdict))

\* Every claim has its verdict before the result is built, or that is degraded.
VerdictsSettled ==
    At({"correct", "finalize"}) => st.degraded # {} \/ Candidates(st.verdict) = {}

OutcomeAtEnd == pc # "ended" => out = "none"

EngineInv ==
    /\ Types /\ StartsEmpty /\ WorkIsNew /\ CheckpointBehind /\ PassAgrees
    /\ BlindIsDegraded /\ VerdictsAgree /\ VerdictsSettled
    /\ OutcomeAtEnd /\ CompleteMeansVerified

-----------------------------------------------------------------------------
(* Verdicts. *)

Winning(c, claims) == {Value[d] : d \in Decisive(RivalsOf(c, claims))}

LEMMA WinningFinite ==
    ASSUME NEW c, NEW claims \in SUBSET Tasks PROVE IsFiniteSet(Winning(c, claims))
<1> DEFINE S == Decisive(RivalsOf(c, claims))
           f == [d \in S |-> Value[d]]
<1>1. IsFiniteSet(S)
  <2>1. S \in SUBSET Tasks /\ IsFiniteSet(Tasks)
    BY SwarmConstants DEF Decisive, RivalsOf
  <2> QED
    BY <2>1, FS_Subset
<1>2. f \in Surjection(S, Winning(c, claims))
  BY DEF Surjection, Winning
<1> HIDE DEF S, f
<1> QED
  BY <1>1, <1>2, FS_Surjection

\* A contested claim the policy leaves open states the value that won.
LEMMA OpenVerdict ==
    ASSUME NEW c, NEW claims \in SUBSET Tasks
    PROVE  /\ ConflictVerdict(c, claims) \in {"none", "conflict", "superseded"}
           /\ ConflictVerdict(c, claims) = "none" => \E v : Winning(c, claims) = {v} /\ Value[c] = v
<1>1. ConflictVerdict(c, claims) =
        IF Cardinality(Winning(c, claims)) # 1 THEN "conflict"
        ELSE IF Value[c] \in Winning(c, claims) THEN "none" ELSE "superseded"
  BY DEF ConflictVerdict, Winning
<1>2. Cardinality(Winning(c, claims)) = 1 => \E v : Winning(c, claims) = {v}
  BY WinningFinite, FS_Singleton
<1> QED
  BY <1>1, <1>2

LEMMA ResumedTyped ==
    ASSUME Types, NEW contested
    PROVE  /\ Resumed(contested) \in [Tasks -> Verdicts]
           /\ \A c \in Tasks : c \notin Evidence(st) => Resumed(contested)[c] = "none"
           /\ \A c \in contested \cap Evidence(st) : Resumed(contested)[c] \in {"none", "unsupported"}
           /\ \A c \in Evidence(st) : Grounding[c] = "unsupported" => Resumed(contested)[c] = "unsupported"
BY DEF Types, EngineStates, Verdicts, Resumed, Evidence

LEMMA SettledTyped ==
    ASSUME Types, NEW contested \in SUBSET Tasks
    PROVE  /\ Settled(contested) \in [Tasks -> Verdicts]
           /\ \A c \in Tasks : c \notin Evidence(st) => Settled(contested)[c] = "none"
           /\ \A c \in contested \cap Evidence(st) :
                 Settled(contested)[c] \in {"verified", "none"} => ConflictVerdict(c, contested) = "none"
<1> DEFINE policy(c) == IF c \in contested /\ Grounding[c] # "unsupported"
                        THEN ConflictVerdict(c, contested) ELSE "none"
           fresh(c) == CASE Grounding[c] = "match" -> "verified"
                         [] Grounding[c] \in {"mismatch", "absent"} -> "unestablished"
                         [] OTHER -> "none"
           resumed == Resumed(contested)
<1>1. \A c : policy(c) \in {"none", "conflict", "superseded"}
  BY OpenVerdict
<1>2. \A c : fresh(c) \in {"verified", "unestablished", "none"}
  OBVIOUS
<1>3. /\ resumed \in [Tasks -> Verdicts]
      /\ \A c \in Tasks : c \notin Evidence(st) => resumed[c] = "none"
      /\ \A c \in contested \cap Evidence(st) : resumed[c] \in {"none", "unsupported"}
      /\ \A c \in Evidence(st) : Grounding[c] = "unsupported" => resumed[c] = "unsupported"
  BY ResumedTyped
<1>4. Settled(contested) =
        [c \in Tasks |-> IF c \notin Evidence(st) \/ resumed[c] # "none" THEN resumed[c]
                         ELSE IF policy(c) # "none" THEN policy(c) ELSE fresh(c)]
  BY DEF Settled
<1>5. Settled(contested) \in [Tasks -> Verdicts]
  <2> HIDE DEF policy, fresh, resumed
  <2> QED
    BY <1>1, <1>2, <1>3, <1>4 DEF Verdicts
<1>6. \A c \in Tasks : c \notin Evidence(st) => Settled(contested)[c] = "none"
  <2> HIDE DEF policy, fresh, resumed
  <2> QED
    BY <1>3, <1>4
<1>7. ASSUME NEW c \in contested \cap Evidence(st), Settled(contested)[c] \in {"verified", "none"}
      PROVE  ConflictVerdict(c, contested) = "none"
  <2>1. resumed[c] = "none" /\ Grounding[c] # "unsupported"
    <3> HIDE DEF policy, fresh, resumed
    <3> QED
      BY <1>3, <1>4, <1>7
  <2>2. policy(c) = "none"
    <3> HIDE DEF policy, fresh, resumed
    <3> QED
      BY <1>1, <1>4, <1>7, <2>1
  <2> QED
    BY <1>7, <2>1, <2>2
<1> QED
  BY <1>5, <1>6, <1>7

\* Deterministic verdicts never leave two claims verified, or to be verified,
\* that the evidence of this pass contradicts each other on.
LEMMA SettledAgree ==
    ASSUME Types, NEW c \in Evidence(st), NEW d \in Evidence(st),
           NEW contested, contested = ConflictClaims(Evidence(st)),
           Settled(contested)[c] \in {"verified", "none"},
           Settled(contested)[d] \in {"verified", "none"},
           Scope[c] = Scope[d]
    PROVE  Value[c] = Value[d]
<1> SUFFICES ASSUME Value[c] # Value[d] PROVE FALSE
  OBVIOUS
<1>1. contested \in SUBSET Tasks /\ c \in contested \cap Evidence(st) /\ d \in contested \cap Evidence(st)
  BY DEF ConflictClaims, Evidence
<1>2. ConflictVerdict(c, contested) = "none" /\ ConflictVerdict(d, contested) = "none"
  BY <1>1, SettledTyped
<1>3. RivalsOf(c, contested) = RivalsOf(d, contested)
  BY DEF RivalsOf
<1>4. Winning(c, contested) = Winning(d, contested)
  BY <1>3 DEF Winning
<1>5. PICK v : Winning(c, contested) = {v} /\ Value[c] = v
  BY <1>1, <1>2, OpenVerdict
<1>6. PICK w : Winning(d, contested) = {w} /\ Value[d] = w
  BY <1>1, <1>2, OpenVerdict
<1> QED
  BY <1>4, <1>5, <1>6

-----------------------------------------------------------------------------
(* How a step of the engine may change the state. *)

Later == Working \ {"execute"}

\* The run ends: only what "complete" promises is left to show.
LEMMA EndsKeep ==
    ASSUME EngineInv, pc # "ended", pc' = "ended", out' = "complete" => CompleteMeansVerified',
           UNCHANGED <<ck, task, blind>>,
           st' \in EngineStates, st'.found = st.found, st'.verdict = st.verdict,
           DetectionFailed(st) => DetectionFailed(st'), st.degraded # {} => st'.degraded # {}
    PROVE  EngineInv'
<1>1. Types' /\ StartsEmpty' /\ CheckpointBehind' /\ PassAgrees' /\ VerdictsSettled'
  <2>1. \A places : "ended" \notin places => ~At(places)'
    BY DEF At
  <2>2. Types'
    BY DEF EngineInv, Types
  <2>3. PassAgrees' /\ VerdictsSettled'
    BY <2>1 DEF PassAgrees, VerdictsSettled, Working
  <2> QED
    BY <2>2, <2>3 DEF StartsEmpty, CheckpointBehind
<1>2. WorkIsNew'
  BY DEF EngineInv, WorkIsNew, Done
<1>3. BlindIsDegraded'
  BY DEF EngineInv, BlindIsDegraded
<1>4. VerdictsAgree'
  <2>1. VerifiedIn(st') = VerifiedIn(st)
    BY DEF VerifiedIn
  <2> QED
    BY <2>1 DEF EngineInv, VerdictsAgree, At
<1>5. OutcomeAtEnd' /\ CompleteMeansVerified'
  BY DEF OutcomeAtEnd, CompleteMeansVerified
<1> QED
  BY <1>1, <1>2, <1>3, <1>4, <1>5 DEF EngineInv

\* Past the execution only verdicts and records of the run change.
LEMMA LaterKeeps ==
    ASSUME EngineInv, pc \in Later, pc' \in Later \cup {"save"}, pc' = "save" => after' \in Later,
           UNCHANGED <<ck, task, out>>,
           st' \in EngineStates, st'.plan = st.plan, st'.found = st.found,
           CorrectionClosed(st) => CorrectionClosed(st'),
           BlindIsDegraded',
           DetectionFailed(st') \/ Agree(VerifiedIn(st')),
           (At({"batch"}) => DetectionFailed(st) \/ Agree(VerifiedIn(st) \cup Candidates(st.verdict)))',
           VerdictsSettled'
    PROVE  EngineInv'
<1>1. pc \notin {"start", "ended", "save", "feasible"} /\ pc' \notin {"start", "ended", "feasible"}
      /\ At(Later) /\ At(Working)
  BY DEF Later, Working, At
<1>2. Types' /\ StartsEmpty' /\ OutcomeAtEnd'
  BY <1>1 DEF EngineInv, Types, StartsEmpty, OutcomeAtEnd, Later, Working
<1>3. Done(st') = Done(st)
  BY DEF Done
<1>4. WorkIsNew' /\ CheckpointBehind'
  BY <1>1, <1>3 DEF EngineInv, WorkIsNew, CheckpointBehind, Done
<1>5. PassAgrees'
  <2>1. /\ \A t \in Tasks : /\ task[t] = "absent" <=> t \notin st.plan
                            /\ task[t] = "completed" => t \in Done(st)
        /\ \A t \in Tasks : task[t] \in {"absent", "completed", "failed", "blocked"}
    BY <1>1 DEF EngineInv, PassAgrees, Later
  <2>2. ~At({"feasible"})'
    BY <1>1 DEF At, Later, Working
  <2> QED
    BY <1>3, <2>1, <2>2 DEF PassAgrees, Done
<1>6. VerdictsAgree'
  <2>1. DetectionFailed(ck') \/ Agree(VerifiedIn(ck'))
    BY DEF EngineInv, VerdictsAgree
  <2> QED
    BY <2>1 DEF VerdictsAgree
<1>7. CompleteMeansVerified'
  BY <1>1 DEF EngineInv, OutcomeAtEnd, CompleteMeansVerified
<1> QED
  BY <1>2, <1>4, <1>5, <1>6, <1>7 DEF EngineInv

\* The verdicts stand, and the verifier's batches are not reached.
LEMMA LaterSameVerdicts ==
    ASSUME EngineInv, pc \in Later, pc' \in Later \cup {"save"}, pc' = "save" => after' \in Later,
           UNCHANGED <<ck, task, out, blind>>,
           st' \in EngineStates, st'.plan = st.plan, st'.found = st.found, st'.verdict = st.verdict,
           CorrectionClosed(st) => CorrectionClosed(st'), st.degraded \subseteq st'.degraded,
           ~At({"batch"})', VerdictsSettled'
    PROVE  EngineInv'
<1>1. DetectionFailed(st) => DetectionFailed(st')
  BY DEF DetectionFailed
<1>2. BlindIsDegraded'
  BY <1>1 DEF EngineInv, BlindIsDegraded
<1>3. VerifiedIn(st') = VerifiedIn(st)
  BY DEF VerifiedIn
<1>4. DetectionFailed(st') \/ Agree(VerifiedIn(st'))
  BY <1>1, <1>3 DEF EngineInv, VerdictsAgree
<1> QED
  BY <1>2, <1>4, LaterKeeps

LEMMA DegradeTyped ==
    ASSUME NEW s \in EngineStates, NEW codes \in SUBSET DegradedCodes
    PROVE  /\ Degrade(s, codes) \in EngineStates
           /\ Degrade(s, codes).plan = s.plan /\ Degrade(s, codes).found = s.found
           /\ Degrade(s, codes).verdict = s.verdict
           /\ CorrectionClosed(s) => CorrectionClosed(Degrade(s, codes))
           /\ s.degraded \subseteq Degrade(s, codes).degraded
           /\ \A code \in codes : <<code, s.rev>> \in Degrade(s, codes).degraded
           /\ DetectionFailed(s) => DetectionFailed(Degrade(s, codes))
<1>1. Degrade(s, codes).degraded = s.degraded \cup (codes \X {s.rev})
  BY DEF Degrade, EngineStates
<1>2. codes \X {s.rev} \in SUBSET (DegradedCodes \X Nat)
  BY DEF EngineStates
<1>3. /\ Degrade(s, codes) \in EngineStates
      /\ Degrade(s, codes).plan = s.plan /\ Degrade(s, codes).found = s.found
      /\ Degrade(s, codes).verdict = s.verdict /\ Degrade(s, codes).rounds = s.rounds
      /\ Degrade(s, codes).declined = s.declined
      /\ Degrade(s, codes).correctionRejected = s.correctionRejected
  BY <1>2 DEF Degrade, EngineStates
<1> QED
  BY <1>1, <1>3 DEF CorrectionClosed, DetectionFailed

-----------------------------------------------------------------------------
(* Steps after the execution. *)

LEMMA MovesKeep ==
    ASSUME EngineInv, DecideClosed \/ DecideKeep \/ VerifySkipped \/ CorrectSkipped
    PROVE  EngineInv'
<1>1. pc \in Later /\ pc' \in Later /\ UNCHANGED <<ck, task, out, blind, st>>
  BY DEF DecideClosed, DecideKeep, MayDecide, VerifySkipped, CorrectSkipped, Later, Working
<1>2. ~At({"batch"})'
  BY DEF At, DecideClosed, DecideKeep, VerifySkipped, CorrectSkipped
<1>3. VerdictsSettled'
  <2>1. CASE DecideClosed \/ DecideKeep
    BY <2>1 DEF DecideClosed, DecideKeep, VerdictsSettled, At
  <2>2. CASE VerifySkipped
    BY <2>2 DEF VerifySkipped, VerificationDegraded, VerdictsSettled
  <2>3. CASE CorrectSkipped
    BY <1>1, <2>3 DEF EngineInv, CorrectSkipped, VerdictsSettled, At, Candidates, Evidence
  <2> QED
    BY <2>1, <2>2, <2>3
<1>4. st' \in EngineStates
  BY <1>1 DEF EngineInv, Types
<1> QED
  BY <1>1, <1>2, <1>3, <1>4, LaterSameVerdicts DEF Later, Working

LEMMA JudgeKeeps ==
    ASSUME EngineInv, Judge PROVE EngineInv'
<1>1. pc = "judge" /\ UNCHANGED <<ck, task, blind, st>> /\ st \in EngineStates
  BY DEF Judge, EngineInv, Types
<1>2. CASE End("failed")
  BY <1>1, <1>2, EndsKeep DEF End
<1>3. CASE pc' = "verify" /\ UNCHANGED out
  <2>1. VerdictsSettled' /\ ~At({"batch"})'
    BY <1>3 DEF VerdictsSettled, At
  <2> QED
    BY <1>1, <1>3, <2>1, LaterSameVerdicts DEF Later, Working
<1> QED
  BY <1>2, <1>3 DEF Judge

LEMMA RejectKeeps ==
    ASSUME EngineInv, NEW next \in {"judge", "finalize"}, NEW correction \in BOOLEAN,
           RejectReplan(next, correction), UNCHANGED <<ck, task, blind>>,
           \/ pc = "decide" /\ next = "judge"
           \/ pc = "correct" /\ next = "finalize"
    PROVE  EngineInv'
<1>1. st \in EngineStates /\ pc \in Later /\ pc # "ended"
  BY DEF EngineInv, Types, Later, Working
<1>2. CASE End("failed") /\ UNCHANGED st
  BY <1>1, <1>2, EndsKeep DEF End
<1>3. CASE Evidence(st) # {}
  <2> DEFINE rejected == IF correction THEN st.rejected ELSE st.rejected \cup {st.rev}
             refused == st.correctionRejected \/ correction
             replans == st.replans + 1
             new == [st EXCEPT !.replans = replans, !.rejected = rejected, !.correctionRejected = refused]
  <2>1. st' = new /\ SaveThen(next) /\ UNCHANGED out
    BY <1>1, <1>3 DEF RejectReplan
  <2>2. /\ replans \in Nat /\ rejected \in SUBSET Nat
        /\ refused \in BOOLEAN /\ (st.correctionRejected => refused)
    BY <1>1 DEF EngineStates
  <2> HIDE DEF rejected, refused, replans
  <2>3. /\ new \in EngineStates /\ new.plan = st.plan /\ new.found = st.found
        /\ new.verdict = st.verdict /\ new.degraded = st.degraded
        /\ CorrectionClosed(st) => CorrectionClosed(new)
    <3>1. new \in EngineStates
      BY <1>1, <2>2 DEF EngineStates
    <3>2. /\ new.plan = st.plan /\ new.found = st.found
          /\ new.verdict = st.verdict /\ new.degraded = st.degraded /\ new.rounds = st.rounds
      BY <1>1 DEF EngineStates
    <3>3. new.declined = st.declined
      BY <1>1, Zenon DEF EngineStates
    <3>4. new.correctionRejected = refused
      BY <1>1, Zenon DEF EngineStates
    <3> QED
      BY <2>2, <3>1, <3>2, <3>3, <3>4 DEF CorrectionClosed
  <2> HIDE DEF new
  <2>4. ~At({"batch"})'
    BY <2>1 DEF At, SaveThen
  <2>5. VerdictsSettled'
    <3>1. CASE next = "judge"
      BY <2>1, <3>1 DEF VerdictsSettled, At, SaveThen
    <3>2. CASE pc = "correct"
      BY <2>1, <2>3, <3>2 DEF EngineInv, VerdictsSettled, At, Candidates, Evidence
    <3> QED
      BY <3>1, <3>2
  <2> QED
    BY <1>1, <2>1, <2>3, <2>4, <2>5, LaterSameVerdicts DEF SaveThen, Later, Working
<1> QED
  BY <1>2, <1>3 DEF RejectReplan

LEMMA DegradeKeeps ==
    ASSUME EngineInv, NEW code \in {"VERIFIER_FAILED", "VERIFICATION_BUDGET_INSUFFICIENT"},
           pc \in {"verify", "batch"}, DegradeVerification(code),
           UNCHANGED <<ck, task, blind, out>>
    PROVE  EngineInv'
<1>1. st \in EngineStates /\ {code} \in SUBSET DegradedCodes
  BY DEF EngineInv, Types, DegradedCodes
<1>2. st' = Degrade(st, {code}) /\ pc' = "save" /\ after' = "finalize"
  BY DEF DegradeVerification, SaveThen
<1>3. /\ st' \in EngineStates /\ st'.plan = st.plan /\ st'.found = st.found /\ st'.verdict = st.verdict
      /\ CorrectionClosed(st) => CorrectionClosed(st')
      /\ st.degraded \subseteq st'.degraded /\ st'.degraded # {}
  BY <1>1, <1>2, DegradeTyped
<1>4. ~At({"batch"})' /\ VerdictsSettled'
  BY <1>2, <1>3 DEF At, VerdictsSettled
<1> QED
  BY <1>2, <1>3, <1>4, LaterSameVerdicts DEF Later, Working

LEMMA DeclinedKeeps ==
    ASSUME EngineInv, CorrectDeclined PROVE EngineInv'
<1> DEFINE new == [st EXCEPT !.declined = TRUE]
<1>1. st \in EngineStates /\ pc = "correct" /\ st' = new /\ SaveThen("finalize")
      /\ UNCHANGED <<ck, task, blind, out>>
  BY DEF EngineInv, Types, CorrectDeclined, MayCorrect
<1>2. /\ new \in EngineStates /\ new.plan = st.plan /\ new.found = st.found
      /\ new.verdict = st.verdict /\ new.degraded = st.degraded /\ CorrectionClosed(new)
  BY <1>1 DEF EngineStates, CorrectionClosed
<1> HIDE DEF new
<1>3. ~At({"batch"})'
  BY <1>1 DEF At, SaveThen
<1>4. VerdictsSettled'
  BY <1>1, <1>2 DEF EngineInv, VerdictsSettled, At, Candidates, Evidence
<1> QED
  BY <1>1, <1>2, <1>3, <1>4, LaterSameVerdicts DEF SaveThen, Later, Working

LEMMA VerifyPrepareKeeps ==
    ASSUME EngineInv, VerifyPrepare PROVE EngineInv'
<1> DEFINE settled == Settled(Conflicts)
           open == Candidates(settled)
           new == [st EXCEPT !.verdict = settled]
<1>1. Types /\ st \in EngineStates /\ pc = "verify" /\ UNCHANGED <<ck, task, blind, out>>
  BY DEF EngineInv, Types, VerifyPrepare
<1>2. Conflicts \in SUBSET Tasks
  BY DEF Conflicts, ConflictClaims, Evidence
<1>3. CASE DegradeVerification("VERIFICATION_BUDGET_INSUFFICIENT")
  BY <1>1, <1>3, DegradeKeeps
<1>4. CASE st' = new /\ SaveThen(IF open = {} THEN "correct" ELSE "batch")
  <2>1. settled \in [Tasks -> Verdicts] /\ \A c \in Tasks : c \notin Evidence(st) => settled[c] = "none"
    BY <1>1, <1>2, SettledTyped
  <2>2. "conflict" \in blind => DetectionFailed(st)
    BY DEF EngineInv, BlindIsDegraded
  <2>3. ASSUME "conflict" \notin blind
        PROVE  \A c, d \in Evidence(st) :
                  /\ settled[c] \in {"verified", "none"} /\ settled[d] \in {"verified", "none"}
                  /\ Scope[c] = Scope[d]
                  => Value[c] = Value[d]
    <3>1. Conflicts = ConflictClaims(Evidence(st))
      BY <2>3 DEF Conflicts
    <3> QED
      BY <1>1, <3>1, SettledAgree
  <2> HIDE DEF settled
  <2>4. new \in EngineStates
    BY <1>1, <2>1 DEF EngineStates
  <2>5. new.plan = st.plan /\ new.found = st.found /\ new.degraded = st.degraded /\ new.verdict = settled
        /\ (CorrectionClosed(st) => CorrectionClosed(new))
    BY <1>1 DEF EngineStates, CorrectionClosed
  <2> HIDE DEF new
  <2>6. Candidates(st.verdict)' = open /\ VerifiedIn(st') = {c \in Tasks : settled[c] = "verified"}
    BY <1>4, <2>5 DEF Candidates, Evidence, VerifiedIn
  <2>7. VerifiedIn(st') \subseteq Evidence(st) /\ open \subseteq Evidence(st)
    BY <2>1, <2>6 DEF Candidates
  <2>8. DetectionFailed(st') <=> DetectionFailed(st)
    BY <1>4, <2>5 DEF DetectionFailed
  <2>9. DetectionFailed(st) \/ Agree(VerifiedIn(st') \cup open)
    BY <2>2, <2>3, <2>6, <2>7 DEF Agree, Candidates
  <2>10. DetectionFailed(st') \/ Agree(VerifiedIn(st'))
    BY <2>8, <2>9 DEF Agree
  <2>11. (At({"batch"}) => DetectionFailed(st) \/ Agree(VerifiedIn(st) \cup Candidates(st.verdict)))'
    BY <2>6, <2>8, <2>9
  <2>12. VerdictsSettled'
    BY <1>4, <2>6 DEF VerdictsSettled, At, SaveThen
  <2>13. BlindIsDegraded'
    BY <1>1, <1>4, <2>5, <2>8 DEF EngineInv, BlindIsDegraded
  <2> QED
    BY <1>1, <1>4, <2>4, <2>5, <2>10, <2>11, <2>12, <2>13, LaterKeeps DEF SaveThen, Later, Working
<1> QED
  BY <1>3, <1>4 DEF VerifyPrepare

LEMMA VerifyBatchKeeps ==
    ASSUME EngineInv, NEW calls, VerifyBatch(calls) PROVE EngineInv'
<1> DEFINE open == Candidates(st.verdict)
           batch == FirstBatch(open)
<1>1. st \in EngineStates /\ pc = "batch" /\ UNCHANGED <<ck, task, blind, out>>
  BY DEF EngineInv, Types, VerifyBatch
<1>2. PICK yes \in SUBSET batch :
        /\ st' = [st EXCEPT !.verdict =
                    [c \in Tasks |-> IF c \notin batch THEN st.verdict[c]
                                     ELSE IF c \in yes THEN "verified" ELSE "unestablished"]]
        /\ SaveThen(IF batch = open THEN "correct" ELSE "batch")
  BY DEF VerifyBatch
<1> DEFINE verdict == [c \in Tasks |-> IF c \notin batch THEN st.verdict[c]
                                       ELSE IF c \in yes THEN "verified" ELSE "unestablished"]
           new == [st EXCEPT !.verdict = verdict]
<1>3. batch \subseteq open /\ open \subseteq Tasks
  BY DEF FirstBatch, Candidates, Evidence
<1>4. /\ verdict \in [Tasks -> Verdicts]
      /\ \A c \in Tasks \ batch : verdict[c] = st.verdict[c]
      /\ \A c \in batch : verdict[c] \in {"verified", "unestablished"}
  BY <1>1, <1>3 DEF EngineStates, Verdicts
<1>5. st' = new
  BY <1>2
<1> HIDE DEF verdict
<1>6. new \in EngineStates
  BY <1>1, <1>4 DEF EngineStates
<1>7. new.plan = st.plan /\ new.found = st.found /\ new.degraded = st.degraded /\ new.verdict = verdict
      /\ (CorrectionClosed(st) => CorrectionClosed(new))
  BY <1>1 DEF EngineStates, CorrectionClosed
<1> HIDE DEF new
<1>8. Candidates(st.verdict)' = open \ batch
  BY <1>3, <1>4, <1>5, <1>7 DEF Candidates, Evidence
<1>9. VerifiedIn(st') \subseteq VerifiedIn(st) \cup open
  BY <1>3, <1>4, <1>5, <1>7 DEF VerifiedIn
<1>10. DetectionFailed(st') <=> DetectionFailed(st)
  BY <1>5, <1>7 DEF DetectionFailed
<1>11. DetectionFailed(st) \/ Agree(VerifiedIn(st) \cup open)
  BY <1>1 DEF EngineInv, VerdictsAgree, At
<1>12. DetectionFailed(st') \/ Agree(VerifiedIn(st'))
  BY <1>9, <1>10, <1>11 DEF Agree
<1>13. (At({"batch"}) => DetectionFailed(st) \/ Agree(VerifiedIn(st) \cup Candidates(st.verdict)))'
  <2>1. DetectionFailed(st') \/ Agree(VerifiedIn(st') \cup (open \ batch))
    BY <1>9, <1>10, <1>11 DEF Agree
  <2> QED
    BY <1>8, <2>1
<1>14. VerdictsSettled'
  BY <1>2, <1>8 DEF VerdictsSettled, At, SaveThen
<1>15. BlindIsDegraded'
  BY <1>1, <1>5, <1>7, <1>10 DEF EngineInv, BlindIsDegraded
<1> QED
  BY <1>1, <1>2, <1>5, <1>6, <1>7, <1>12, <1>13, <1>14, <1>15, LaterKeeps DEF SaveThen, Later, Working

LEMMA AssessKeeps ==
    ASSUME EngineInv, Assess PROVE EngineInv'
<1>1. st \in EngineStates /\ pc = "assess" /\ UNCHANGED <<ck, task, after>>
  BY DEF EngineInv, Types, Assess
<1>2. PICK failing \in SUBSET {"conflict", "coverage"} :
        IF failing # {} /\ Evidence(st) = {}
        THEN End("failed") /\ UNCHANGED <<st, blind>>
        ELSE /\ blind' = failing /\ pc' = "decide" /\ UNCHANGED out
             /\ st' = Degrade(st,
                    (IF "conflict" \in failing THEN {"CONFLICT_DETECTION_FAILED"} ELSE {})
                    \cup (IF "coverage" \in failing THEN {"COVERAGE_CHECK_FAILED"} ELSE {}))
  BY DEF Assess
<1> DEFINE codes == (IF "conflict" \in failing THEN {"CONFLICT_DETECTION_FAILED"} ELSE {})
                    \cup (IF "coverage" \in failing THEN {"COVERAGE_CHECK_FAILED"} ELSE {})
<1>3. CASE End("failed") /\ UNCHANGED <<st, blind>>
  BY <1>1, <1>3, EndsKeep DEF End
<1>4. CASE blind' = failing /\ pc' = "decide" /\ UNCHANGED out /\ st' = Degrade(st, codes)
  <2>1. /\ codes \in SUBSET DegradedCodes
        /\ "conflict" \in failing => "CONFLICT_DETECTION_FAILED" \in codes
        /\ "coverage" \in failing => "COVERAGE_CHECK_FAILED" \in codes
    BY DEF DegradedCodes
  <2> HIDE DEF codes
  <2>2. /\ st' \in EngineStates /\ st'.plan = st.plan /\ st'.found = st.found /\ st'.verdict = st.verdict
        /\ CorrectionClosed(st) => CorrectionClosed(st')
        /\ DetectionFailed(st) => DetectionFailed(st')
        /\ \A code \in codes : <<code, st.rev>> \in st'.degraded
    BY <1>1, <1>4, <2>1, DegradeTyped
  <2>3. BlindIsDegraded'
    BY <1>4, <2>1, <2>2 DEF BlindIsDegraded, DetectionFailed
  <2>4. VerifiedIn(st') = VerifiedIn(st)
    BY <2>2 DEF VerifiedIn
  <2>5. DetectionFailed(st') \/ Agree(VerifiedIn(st'))
    BY <2>2, <2>4 DEF EngineInv, VerdictsAgree
  <2>6. ~At({"batch"})' /\ VerdictsSettled'
    BY <1>4 DEF At, VerdictsSettled
  <2> QED
    BY <1>1, <1>4, <2>2, <2>3, <2>5, <2>6, LaterKeeps DEF Later, Working
<1> QED
  BY <1>2, <1>3, <1>4

\* A result without anything to review is complete.
LEMMA CompleteVerified ==
    ASSUME EngineInv, pc = "finalize", ~Blocking(st)
    PROVE  /\ st.plan \subseteq Done(st)
           /\ \A t \in st.plan : st.found[t] = "evidence" /\ st.verdict[t] = "verified"
           /\ ConflictClaims(Evidence(st)) = {}
<1>1. /\ Issues = {} /\ st.degraded = {}
      /\ \A c \in Evidence(st) : st.verdict[c] \in {"verified", "none"}
  BY DEF Blocking
<1>2. blind \cap {"conflict", "coverage"} = {}
  BY <1>1 DEF EngineInv, BlindIsDegraded, DetectionFailed
<1>3. Failed = {} /\ Gaps = {} /\ ConflictClaims(Evidence(st)) = {}
  BY <1>1, <1>2 DEF Issues, Conflicts
<1>4. st \in EngineStates /\ Candidates(st.verdict) = {}
  BY <1>1 DEF EngineInv, Types, VerdictsSettled, At
<1>5. \A t \in st.plan : t \in Tasks /\ t \in Done(st)
  <2>1. \A t \in Tasks : /\ task[t] = "absent" <=> t \notin st.plan
                         /\ task[t] = "completed" => t \in Done(st)
                         /\ task[t] \in {"absent", "completed", "failed", "blocked"}
    BY DEF EngineInv, PassAgrees, At, Working
  <2> QED
    BY <1>3, <1>4, <2>1 DEF Failed, EngineStates
<1>6. \A t \in st.plan : st.found[t] = "evidence"
  BY <1>2, <1>3, <1>4, <1>5 DEF Gaps, Done, EngineStates, Findings
<1>7. \A t \in st.plan : st.verdict[t] = "verified"
  BY <1>1, <1>4, <1>5, <1>6 DEF Candidates, Evidence
<1> QED
  BY <1>3, <1>5, <1>6, <1>7

LEMMA FinalizeKeeps ==
    ASSUME EngineInv, Finalize PROVE EngineInv'
<1>1. st \in EngineStates /\ pc = "finalize" /\ pc' = "ended" /\ UNCHANGED <<ck, task, blind>>
  BY DEF EngineInv, Types, Finalize, End
<1>2. CASE st' = st /\ End(DecideOutcome(Shown # {}, Blocking(st)))
  <2>1. out' = "complete" => ~Blocking(st)
    BY <1>2 DEF End, DecideOutcome
  <2>2. out' = "complete" => CompleteMeansVerified'
    BY <1>1, <1>2, <2>1, CompleteVerified DEF CompleteMeansVerified, Done, Evidence, ConflictClaims
  <2> QED
    BY <1>1, <1>2, <2>2, EndsKeep
<1>3. CASE st' = Degrade(st, {"FINAL_BUILD_DEGRADED"})
           /\ \E built \in BOOLEAN : End(DecideOutcome(built /\ Shown # {}, TRUE))
  <2>1. out' # "complete"
    BY <1>3 DEF End, DecideOutcome
  <2>2. {"FINAL_BUILD_DEGRADED"} \in SUBSET DegradedCodes
    BY DEF DegradedCodes
  <2>3. /\ st' \in EngineStates /\ st'.found = st.found /\ st'.verdict = st.verdict
        /\ DetectionFailed(st) => DetectionFailed(st')
        /\ st.degraded \subseteq st'.degraded
    BY <1>1, <1>3, <2>2, DegradeTyped
  <2> QED
    BY <1>1, <2>1, <2>3, EndsKeep
<1>4. CASE st' = st /\ End("failed")
  BY <1>1, <1>4, EndsKeep DEF End
<1> QED
  BY <1>2, <1>3, <1>4 DEF Finalize

LEMMA EndsBeforeResult ==
    ASSUME EngineInv, pc # "ended", pc' = "ended", out' # "complete", UNCHANGED <<ck, task, blind, st>>
    PROVE  EngineInv'
<1>1. st \in EngineStates
  BY DEF EngineInv, Types
<1> QED
  BY <1>1, EndsKeep

LEMMA FailuresKeep ==
    ASSUME EngineInv, CommanderFails \/ BudgetStop \/ Cancel PROVE EngineInv'
<1>1. CASE CommanderFails
  BY <1>1, EndsBeforeResult DEF CommanderFails, MayDecide, MayCorrect, End
<1>2. CASE BudgetStop
  BY <1>2, EndsBeforeResult DEF BudgetStop, End
<1>3. CASE Cancel
  BY <1>3, EndsBeforeResult DEF Cancel, End
<1> QED
  BY <1>1, <1>2, <1>3

-----------------------------------------------------------------------------
(* Planning, resuming and executing. *)

LEMMA NothingYet ==
    /\ NoState \in EngineStates /\ Done(NoState) = {} /\ VerifiedIn(NoState) = {}
    /\ NoState.plan = {} /\ NoState.degraded = {} /\ ~CorrectionClosed(NoState)
<1>1. NoState \in EngineStates
  BY DEF NoState, EngineStates, Verdicts, Findings
<1>2. /\ NoState.found = [t \in Tasks |-> "none"] /\ NoState.verdict = [t \in Tasks |-> "none"]
      /\ NoState.plan = {} /\ NoState.degraded = {}
  BY DEF NoState
<1>3. NoState.rounds = 0 /\ ~NoState.declined /\ ~NoState.correctionRejected
  BY DEF NoState
<1>4. ~CorrectionClosed(NoState)
  BY <1>3 DEF CorrectionClosed, MaxCorrectionRounds
<1> QED
  BY <1>1, <1>2, <1>4 DEF Done, VerifiedIn

\* The main thread is before the first pass of the process.
LEMMA BeforePass ==
    ASSUME Types', ck \in EngineStates, UNCHANGED ck,
           pc' \in {"feasible", "save"}, pc' = "save" => after' = "feasible",
           \A t \in Tasks : task'[t] = "absent",
           Done(ck) \subseteq Done(st'), CorrectionClosed(ck) => CorrectionClosed(st'),
           blind' = {}, out' = "none",
           \A s \in {st', ck} : DetectionFailed(s) \/ Agree(VerifiedIn(s))
    PROVE  EngineInv'
<1>1. ~At(Working)' /\ ~At(Working \ {"execute"})' /\ ~At({"batch"})' /\ ~At({"correct", "finalize"})'
  BY DEF At, Working
<1>2. StartsEmpty' /\ WorkIsNew' /\ CheckpointBehind' /\ PassAgrees'
  BY <1>1 DEF StartsEmpty, WorkIsNew, CheckpointBehind, PassAgrees
<1>3. BlindIsDegraded' /\ VerdictsAgree' /\ VerdictsSettled' /\ OutcomeAtEnd' /\ CompleteMeansVerified'
  BY <1>1 DEF BlindIsDegraded, VerdictsAgree, VerdictsSettled, OutcomeAtEnd, CompleteMeansVerified
<1> QED
  BY <1>2, <1>3 DEF EngineInv

LEMMA PlanKeeps ==
    ASSUME EngineInv, Plan PROVE EngineInv'
<1>1. /\ pc = "start" /\ ck = NoState /\ out = "none" /\ blind = {}
      /\ \A t \in Tasks : task[t] = "absent"
      /\ task \in [Tasks -> TaskStates] /\ UNCHANGED <<ck, task, blind>>
  BY DEF EngineInv, Types, StartsEmpty, OutcomeAtEnd, Plan, NoCheckpoint
<1>2. CASE End("failed") /\ UNCHANGED st
  BY <1>1, <1>2, EndsBeforeResult DEF End
<1>3. CASE st' = [NoState EXCEPT !.plan = InitialPlan, !.rev = 1] /\ SaveThen("feasible") /\ UNCHANGED out
  <2>1. st' \in EngineStates
    BY <1>3, SwarmConstants, NothingYet DEF EngineStates
  <2>2. st'.verdict = NoState.verdict
    BY <1>3 DEF NoState
  <2>3. VerifiedIn(st') = {} /\ Done(ck) = {} /\ ~CorrectionClosed(ck) /\ VerifiedIn(ck) = {}
    BY <1>1, <2>2, NothingYet DEF VerifiedIn
  <2>4. Types'
    BY <1>1, <1>3, <2>1, NothingYet DEF Types, SaveThen
  <2> QED
    BY <1>1, <1>3, <2>3, <2>4, NothingYet, BeforePass DEF SaveThen, Agree
<1> QED
  BY <1>2, <1>3 DEF Plan

LEMMA ResumeKeeps ==
    ASSUME EngineInv, Resume PROVE EngineInv'
<1>1. /\ pc = "start" /\ out = "none" /\ blind = {} /\ ck \in EngineStates
      /\ \A t \in Tasks : task[t] = "absent"
      /\ DetectionFailed(ck) \/ Agree(VerifiedIn(ck))
  BY DEF EngineInv, Types, StartsEmpty, OutcomeAtEnd, VerdictsAgree, Resume
<1>2. st' = ck /\ pc' = "feasible" /\ UNCHANGED <<ck, task, blind, out>>
  BY DEF Resume
<1>3. Types'
  BY <1>1, <1>2 DEF EngineInv, Types
<1> QED
  BY <1>1, <1>2, <1>3, BeforePass

LEMMA PassTyped ==
    ASSUME NEW plan
    PROVE  /\ Pass(plan) \in [Tasks -> TaskStates]
           /\ \A t \in Tasks : /\ Pass(plan)[t] = "absent" <=> t \notin plan
                               /\ Pass(plan)[t] = "completed" => t \in Done(st)
                               /\ Pass(plan)[t] \notin {"absent", "completed"} => t \notin Done(st)
BY DEF Pass, TaskStates

\* A pass begins, or will once its plan is saved.
LEMMA PassBegins ==
    ASSUME EngineInv, pc \notin {"start", "ended"},
           pc' = "execute" \/ (pc' = "save" /\ after' = "execute"),
           UNCHANGED <<ck, blind, out>>,
           st' \in EngineStates, st'.found = st.found, st'.verdict = st.verdict,
           st.degraded \subseteq st'.degraded,
           CorrectionClosed(st) => CorrectionClosed(st'),
           task' = Pass(st'.plan)
    PROVE  EngineInv'
<1>1. Done(st') = Done(st) /\ VerifiedIn(st') = VerifiedIn(st)
  BY DEF Done, VerifiedIn
<1>2. Types' /\ StartsEmpty' /\ OutcomeAtEnd' /\ CompleteMeansVerified'
  BY PassTyped DEF EngineInv, Types, StartsEmpty, OutcomeAtEnd, CompleteMeansVerified, Working
<1>3. WorkIsNew' /\ CheckpointBehind'
  <2>1. Done(ck) \subseteq Done(st) /\ (CorrectionClosed(ck) => CorrectionClosed(st))
    BY DEF EngineInv, CheckpointBehind
  <2>2. Done(ck') = Done(ck)
    OBVIOUS
  <2> QED
    BY <1>1, <2>1, <2>2, PassTyped DEF WorkIsNew, CheckpointBehind
<1>4. PassAgrees'
  <2>1. ~At(Working \ {"execute"})' /\ ~At({"feasible"})'
    BY DEF At, Working
  <2> QED
    BY <1>1, <2>1, PassTyped DEF PassAgrees
<1>5. DetectionFailed(st) => DetectionFailed(st')
  BY DEF DetectionFailed
<1>6. BlindIsDegraded' /\ VerdictsAgree' /\ VerdictsSettled'
  <2>1. ~At({"batch"})' /\ ~At({"correct", "finalize"})'
    BY DEF At
  <2> QED
    BY <1>1, <1>5, <2>1 DEF EngineInv, BlindIsDegraded, VerdictsAgree, VerdictsSettled
<1> QED
  BY <1>2, <1>3, <1>4, <1>6 DEF EngineInv

LEMMA CheckFeasibleKeeps ==
    ASSUME EngineInv, CheckFeasible PROVE EngineInv'
<1>1. pc = "feasible" /\ UNCHANGED <<st, ck, blind>> /\ st \in EngineStates
  BY DEF EngineInv, Types, CheckFeasible
<1>2. CASE End("failed") /\ UNCHANGED task
  BY <1>1, <1>2, EndsBeforeResult DEF End
<1>3. CASE task' = Pass(st.plan) /\ pc' = "execute" /\ UNCHANGED out
  BY <1>1, <1>3, PassBegins
<1> QED
  BY <1>2, <1>3 DEF CheckFeasible

LEMMA AcceptKeeps ==
    ASSUME EngineInv, pc \in {"decide", "correct"}, NEW plan \in SUBSET Tasks, NEW correction \in BOOLEAN,
           AcceptReplan(plan, correction), UNCHANGED <<ck, blind>>
    PROVE  EngineInv'
<1> DEFINE rounds == IF correction THEN st.rounds + 1 ELSE st.rounds
           replans == st.replans + 1
           rev == st.rev + 1
           new == [st EXCEPT !.plan = plan, !.rev = rev, !.replans = replans, !.rounds = rounds]
<1>1. st \in EngineStates
  BY DEF EngineInv, Types
<1>2. st' = new /\ task' = Pass(plan) /\ SaveThen("execute") /\ UNCHANGED out
  BY <1>1 DEF AcceptReplan
<1>3. rounds \in Nat /\ rounds >= st.rounds /\ replans \in Nat /\ rev \in Nat
  BY <1>1 DEF EngineStates
<1> HIDE DEF rounds, replans, rev
<1>4. new \in EngineStates
  BY <1>1, <1>3 DEF EngineStates
<1>5. /\ new.plan = plan /\ new.found = st.found /\ new.verdict = st.verdict
      /\ new.degraded = st.degraded /\ new.rounds = rounds /\ st.rounds \in Nat
  BY <1>1 DEF EngineStates
<1>6. new.declined = st.declined /\ new.correctionRejected = st.correctionRejected
  BY <1>1, Zenon DEF EngineStates
<1> HIDE DEF new
<1>7. CorrectionClosed(st) => CorrectionClosed(new)
  BY <1>3, <1>5, <1>6 DEF CorrectionClosed, MaxCorrectionRounds
<1> QED
  BY <1>2, <1>4, <1>5, <1>7, PassBegins DEF SaveThen

LEMMA AnswersKeep ==
    ASSUME EngineInv, NEW plan \in ValidPlans,
           DecideReplan(plan) \/ CorrectReplan(plan) \/ DecideInvalid \/ CorrectInvalid
    PROVE  EngineInv'
<1>1. plan \in SUBSET Tasks
  BY DEF ValidPlans
<1>2. CASE DecideReplan(plan) \/ DecideInvalid
  <2>1. pc = "decide" /\ UNCHANGED <<ck, blind>>
    BY <1>2 DEF DecideReplan, DecideInvalid, MayDecide
  <2>2. CASE RejectReplan("judge", FALSE) /\ UNCHANGED task
    BY <2>1, <2>2, RejectKeeps
  <2>3. CASE AcceptReplan(plan, FALSE)
    BY <1>1, <2>1, <2>3, AcceptKeeps
  <2> QED
    BY <1>2, <2>2, <2>3 DEF DecideReplan, DecideInvalid
<1>3. CASE CorrectReplan(plan) \/ CorrectInvalid
  <2>1. pc = "correct" /\ UNCHANGED <<ck, blind>>
    BY <1>3 DEF CorrectReplan, CorrectInvalid, MayCorrect
  <2>2. CASE RejectReplan("finalize", TRUE) /\ UNCHANGED task
    BY <2>1, <2>2, RejectKeeps
  <2>3. CASE AcceptReplan(plan, TRUE)
    BY <1>1, <2>1, <2>3, AcceptKeeps
  <2> QED
    BY <1>3, <2>2, <2>3 DEF CorrectReplan, CorrectInvalid
<1> QED
  BY <1>2, <1>3

\* A task of the pass moves on without its result reaching the state.
LEMMA TaskMoves ==
    ASSUME EngineInv, NEW t \in Tasks, NEW to \in TaskStates \ {"absent", "completed"},
           task[t] \in {"waiting", "running"}, pc # "ended",
           task' = [task EXCEPT ![t] = to],
           UNCHANGED <<pc, st, ck, blind, after, out>>
    PROVE  EngineInv'
<1>1. pc # "start" /\ ~At(Working \ {"execute"}) /\ ~At({"feasible"})
  BY DEF EngineInv, StartsEmpty, PassAgrees
<1>2. task \in [Tasks -> TaskStates]
  BY DEF EngineInv, Types
<1>3. \A u \in Tasks : task'[u] = IF u = t THEN to ELSE task[u]
  BY <1>2
<1>4. Types' /\ StartsEmpty' /\ CheckpointBehind' /\ OutcomeAtEnd' /\ CompleteMeansVerified'
  BY <1>1, <1>2 DEF EngineInv, Types, StartsEmpty, CheckpointBehind, OutcomeAtEnd, CompleteMeansVerified
<1>5. WorkIsNew'
  BY <1>3 DEF EngineInv, WorkIsNew
<1>6. PassAgrees'
  <2>1. ~At(Working \ {"execute"})' /\ ~At({"feasible"})' /\ (At(Working)' <=> At(Working))
    BY <1>1 DEF At, Working
  <2>2. Done(st') = Done(st)
    OBVIOUS
  <2> QED
    BY <1>3, <2>1, <2>2 DEF EngineInv, PassAgrees
<1>7. BlindIsDegraded' /\ VerdictsAgree' /\ VerdictsSettled'
  <2>1. ~At({"batch"})' /\ ~At({"correct", "finalize"})'
    BY <1>1 DEF At, Working
  <2> QED
    BY <2>1 DEF EngineInv, BlindIsDegraded, VerdictsAgree, VerdictsSettled
<1> QED
  BY <1>4, <1>5, <1>6, <1>7 DEF EngineInv

LEMMA PoolKeeps ==
    ASSUME EngineInv, NEW t \in Tasks, NEW answer \in Findings \cup {"failed"}, NEW calls,
           StartTask(t) \/ BlockTask(t) \/ TaskAnswers(t, answer, calls)
    PROVE  EngineInv'
<1>1. CASE StartTask(t)
  BY <1>1, TaskMoves DEF StartTask, TaskStates
<1>2. CASE BlockTask(t)
  BY <1>2, TaskMoves DEF BlockTask, TaskStates
<1>3. CASE TaskAnswers(t, answer, calls)
  BY <1>3, TaskMoves DEF TaskAnswers, TaskStates, Findings
<1> QED
  BY <1>1, <1>2, <1>3

LEMMA PersistKeeps ==
    ASSUME EngineInv, NEW t \in Tasks, PersistResult(t) PROVE EngineInv'
<1> DEFINE found == [st.found EXCEPT ![t] = task[t]]
           new == [st EXCEPT !.found = found]
<1>1. /\ st \in EngineStates /\ task \in [Tasks -> TaskStates] /\ pc = "execute"
      /\ task[t] \in Findings /\ task[t] \notin {"absent", "completed", "none"}
  BY DEF EngineInv, Types, PersistResult, Findings
<1>2. /\ st' = new /\ task' = [task EXCEPT ![t] = "completed"] /\ SaveThen("execute")
      /\ UNCHANGED <<ck, blind, out>>
  BY <1>1 DEF PersistResult, EngineStates
<1>3. found \in [Tasks -> Findings \cup {"none"}]
  BY <1>1 DEF EngineStates
<1>4. \A u \in Tasks : found[u] # "none" <=> (u \in Done(st) \/ u = t)
  BY <1>1 DEF EngineStates, Done
<1> HIDE DEF found
<1>5. new \in EngineStates
  BY <1>1, <1>3 DEF EngineStates
<1>6. /\ new.found = found /\ new.plan = st.plan /\ new.verdict = st.verdict /\ new.degraded = st.degraded
      /\ CorrectionClosed(new) <=> CorrectionClosed(st)
  BY <1>1 DEF EngineStates, CorrectionClosed
<1> HIDE DEF new
<1>7. Done(st') = Done(st) \cup {t} /\ VerifiedIn(st') = VerifiedIn(st)
  BY <1>2, <1>4, <1>6 DEF Done, VerifiedIn
<1>8. \A u \in Tasks : task'[u] = IF u = t THEN "completed" ELSE task[u]
  BY <1>1, <1>2
<1>9. Types' /\ StartsEmpty' /\ OutcomeAtEnd' /\ CompleteMeansVerified'
  <2>1. task' \in [Tasks -> TaskStates]
    BY <1>1, <1>2 DEF TaskStates
  <2>2. pc' = "save" /\ after' = "execute" /\ out' = "none"
    BY <1>1, <1>2 DEF SaveThen, EngineInv, OutcomeAtEnd
  <2> QED
    BY <1>2, <1>5, <2>1, <2>2
    DEF EngineInv, Types, StartsEmpty, OutcomeAtEnd, CompleteMeansVerified, Working
<1>10. WorkIsNew' /\ CheckpointBehind'
  <2>1. Done(ck') = Done(ck) /\ Done(ck) \subseteq Done(st) /\ (CorrectionClosed(ck) => CorrectionClosed(st))
    BY <1>1, <1>2 DEF EngineInv, CheckpointBehind
  <2>2. CorrectionClosed(st') <=> CorrectionClosed(st)
    BY <1>2, <1>6
  <2> QED
    BY <1>2, <1>7, <1>8, <2>1, <2>2 DEF EngineInv, WorkIsNew, CheckpointBehind
<1>11. PassAgrees'
  <2>1. ~At(Working \ {"execute"})' /\ ~At({"feasible"})' /\ At(Working)
    BY <1>1, <1>2 DEF At, Working, SaveThen
  <2>2. \A u \in Tasks : /\ task[u] = "absent" <=> u \notin st.plan
                         /\ task[u] = "completed" => u \in Done(st)
    BY <2>1 DEF EngineInv, PassAgrees
  <2>3. st'.plan = st.plan
    BY <1>2, <1>6
  <2> QED
    BY <1>1, <1>7, <1>8, <2>1, <2>2, <2>3 DEF PassAgrees
<1>12. BlindIsDegraded' /\ VerdictsAgree' /\ VerdictsSettled'
  <2>1. ~At({"batch"})' /\ ~At({"correct", "finalize"})'
    BY <1>2 DEF At, SaveThen
  <2>2. st'.degraded = st.degraded /\ (DetectionFailed(st') <=> DetectionFailed(st))
    BY <1>2, <1>6 DEF DetectionFailed
  <2> QED
    BY <1>2, <1>7, <2>1, <2>2 DEF EngineInv, BlindIsDegraded, VerdictsAgree, VerdictsSettled
<1> QED
  BY <1>9, <1>10, <1>11, <1>12 DEF EngineInv

LEMMA ExecutionEndsKeeps ==
    ASSUME EngineInv, ExecutionEnds PROVE EngineInv'
<1>1. /\ pc = "execute" /\ pc' = "assess" /\ blind' = {} /\ UNCHANGED <<st, ck, task, out>>
      /\ \A t \in Tasks : task[t] \in {"absent", "completed", "failed", "blocked"}
  BY DEF ExecutionEnds
<1>2. Types' /\ StartsEmpty' /\ WorkIsNew' /\ CheckpointBehind' /\ OutcomeAtEnd' /\ CompleteMeansVerified'
  BY <1>1 DEF EngineInv, Types, StartsEmpty, WorkIsNew, CheckpointBehind, OutcomeAtEnd,
              CompleteMeansVerified, Working
<1>3. PassAgrees'
  <2>1. At(Working) /\ ~At({"feasible"})'
    BY <1>1 DEF At, Working
  <2>2. Done(st') = Done(st)
    BY <1>1
  <2> QED
    BY <1>1, <2>1, <2>2 DEF EngineInv, PassAgrees
<1>4. BlindIsDegraded' /\ VerdictsAgree' /\ VerdictsSettled'
  <2>1. ~At({"batch"})' /\ ~At({"correct", "finalize"})'
    BY <1>1 DEF At
  <2> QED
    BY <1>1, <2>1 DEF EngineInv, BlindIsDegraded, VerdictsAgree, VerdictsSettled
<1> QED
  BY <1>2, <1>3, <1>4 DEF EngineInv

-----------------------------------------------------------------------------
(* Checkpoints and deaths. *)

LEMMA SaveKeeps ==
    ASSUME EngineInv, Save PROVE EngineInv'
<1>1. pc = "save" /\ ck' = st /\ pc' = after /\ UNCHANGED <<st, task, blind, after, out>>
  BY DEF Save
<1>2. after \in Working \cup {"feasible"} /\ after \notin {"save", "start", "ended"}
  BY <1>1 DEF EngineInv, Types, Working
<1>4. \A places : At(places)' => At(places)
  BY <1>1, <1>2 DEF At
<1>5. Types' /\ StartsEmpty' /\ OutcomeAtEnd' /\ CompleteMeansVerified'
  BY <1>1, <1>2 DEF EngineInv, Types, StartsEmpty, OutcomeAtEnd, CompleteMeansVerified
<1>6. WorkIsNew' /\ CheckpointBehind'
  BY <1>1 DEF EngineInv, WorkIsNew, CheckpointBehind, Done
<1>7. PassAgrees'
  <2>1. Done(st') = Done(st)
    BY <1>1
  <2> QED
    BY <1>1, <1>4, <2>1 DEF EngineInv, PassAgrees
<1>8. BlindIsDegraded'
  BY <1>1 DEF EngineInv, BlindIsDegraded
<1>9. VerdictsAgree' /\ VerdictsSettled'
  <2>1. Candidates(st.verdict)' = Candidates(st.verdict)
    BY <1>1 DEF Candidates, Evidence
  <2> QED
    BY <1>1, <1>4, <2>1 DEF EngineInv, VerdictsAgree, VerdictsSettled
<1> QED
  BY <1>5, <1>6, <1>7, <1>8, <1>9 DEF EngineInv

LEMMA CrashKeeps ==
    ASSUME EngineInv, Crash PROVE EngineInv'
<1>1. /\ pc # "ended" /\ pc' = "start" /\ st' = NoState /\ blind' = {}
      /\ task' = [t \in Tasks |-> "absent"] /\ UNCHANGED <<ck, out>>
  BY DEF Crash
<1>2. \A places : "start" \notin places => ~At(places)'
  BY <1>1 DEF At
<1>3. Types' /\ StartsEmpty' /\ WorkIsNew' /\ CheckpointBehind' /\ OutcomeAtEnd' /\ CompleteMeansVerified'
  BY <1>1, NothingYet DEF EngineInv, Types, StartsEmpty, WorkIsNew, CheckpointBehind, OutcomeAtEnd,
                          CompleteMeansVerified, TaskStates
<1>4. PassAgrees' /\ VerdictsSettled' /\ BlindIsDegraded'
  BY <1>1, <1>2 DEF PassAgrees, VerdictsSettled, BlindIsDegraded, Working
<1>5. VerdictsAgree'
  BY <1>1, <1>2, NothingYet DEF EngineInv, VerdictsAgree, Agree
<1> QED
  BY <1>3, <1>4, <1>5 DEF EngineInv

LEMMA StutterKeeps ==
    ASSUME EngineInv, UNCHANGED vars PROVE EngineInv'
<1>1. UNCHANGED <<pc, st, ck, task, blind, after, out>>
  BY DEF vars
<1>2. Types' /\ StartsEmpty' /\ WorkIsNew' /\ CheckpointBehind' /\ OutcomeAtEnd' /\ CompleteMeansVerified'
  BY <1>1 DEF EngineInv, Types, StartsEmpty, WorkIsNew, CheckpointBehind, OutcomeAtEnd,
              CompleteMeansVerified
<1>3. \A places : At(places)' <=> At(places)
  BY <1>1 DEF At
<1>4. Candidates(st.verdict)' = Candidates(st.verdict) /\ Done(st') = Done(st)
  BY <1>1 DEF Candidates, Evidence
<1>5. PassAgrees'
  BY <1>1, <1>3, <1>4 DEF EngineInv, PassAgrees
<1>6. VerdictsSettled' /\ BlindIsDegraded' /\ VerdictsAgree'
  BY <1>1, <1>3, <1>4 DEF EngineInv, VerdictsSettled, BlindIsDegraded, VerdictsAgree
<1> QED
  BY <1>2, <1>5, <1>6 DEF EngineInv

-----------------------------------------------------------------------------
(* The theorems. *)

LEMMA EngineInit == Init => EngineInv
<1> SUFFICES ASSUME Init PROVE EngineInv
  OBVIOUS
<1>1. /\ pc = "start" /\ st = NoState /\ ck = NoState /\ blind = {} /\ out = "none"
      /\ task = [t \in Tasks |-> "absent"]
  BY DEF Init, NoCheckpoint
<1>2. \A places : "start" \notin places => ~At(places)
  BY <1>1 DEF At
<1>3. Types /\ StartsEmpty /\ WorkIsNew /\ CheckpointBehind /\ OutcomeAtEnd /\ CompleteMeansVerified
  BY <1>1, NothingYet DEF Types, StartsEmpty, WorkIsNew, CheckpointBehind, OutcomeAtEnd,
                          CompleteMeansVerified, TaskStates
<1>4. PassAgrees /\ VerdictsSettled /\ BlindIsDegraded
  BY <1>1, <1>2 DEF PassAgrees, VerdictsSettled, BlindIsDegraded, Working
<1>5. VerdictsAgree
  BY <1>1, <1>2, NothingYet DEF VerdictsAgree, Agree
<1> QED
  BY <1>3, <1>4, <1>5 DEF EngineInv

LEMMA EngineStepKeeps == EngineInv /\ [Next]_vars => EngineInv'
<1> SUFFICES ASSUME EngineInv, [Next]_vars PROVE EngineInv'
  OBVIOUS
<1>1. CASE Plan \/ Resume \/ CheckFeasible
  BY <1>1, PlanKeeps, ResumeKeeps, CheckFeasibleKeeps
<1>2. CASE Save \/ Crash \/ UNCHANGED vars
  BY <1>2, SaveKeeps, CrashKeeps, StutterKeeps
<1>3. CASE BudgetStop \/ Cancel \/ CommanderFails
  BY <1>3, FailuresKeep
<1>4. CASE \E t \in Tasks : StartTask(t) \/ BlockTask(t) \/ PersistResult(t)
  <2>1. PICK t \in Tasks : StartTask(t) \/ BlockTask(t) \/ PersistResult(t)
    BY <1>4
  <2> QED
    BY <2>1, PoolKeeps, PersistKeeps
<1>5. CASE \E t \in Tasks, answer \in Findings \cup {"failed"}, calls \in WorkerCalls :
              TaskAnswers(t, answer, calls)
  BY <1>5, PoolKeeps
<1>6. CASE ExecutionEnds \/ Assess
  BY <1>6, ExecutionEndsKeeps, AssessKeeps
<1>7. CASE DecideClosed \/ DecideKeep \/ VerifySkipped \/ CorrectSkipped
  BY <1>7, MovesKeep
<1>8. CASE DecideInvalid \/ CorrectInvalid
  <2>1. Tasks \in ValidPlans
    <3>1. Tasks # {} /\ \A t \in Tasks : DependsOn[t] \subseteq Tasks
      BY SwarmConstants
    <3> QED
      BY <3>1 DEF ValidPlans
  <2> QED
    BY <1>8, <2>1, AnswersKeep
<1>9. CASE \E plan \in ValidPlans : DecideReplan(plan) \/ CorrectReplan(plan)
  BY <1>9, AnswersKeep
<1>10. CASE Judge \/ CorrectDeclined \/ Finalize
  BY <1>10, JudgeKeeps, DeclinedKeeps, FinalizeKeeps
<1>11. CASE VerifyPrepare \/ VerifyPrepareFails
  BY <1>11, VerifyPrepareKeeps, DegradeKeeps DEF VerifyPrepareFails
<1>12. CASE \E calls \in 1..2 : VerifyBatch(calls) \/ VerifyBatchFails(calls)
  BY <1>12, VerifyBatchKeeps, DegradeKeeps DEF VerifyBatchFails
<1> QED
  BY <1>1, <1>2, <1>3, <1>4, <1>5, <1>6, <1>7, <1>8, <1>9, <1>10, <1>11, <1>12 DEF Next, EngineStep

\* In every reachable state the checkpoint is behind the state in memory, the
\* pass agrees with the plan, what failed is on record, and verdicts that stand
\* together do not contradict each other (run, executor.execute, _finalize).
THEOREM EngineInvariant == Spec => []EngineInv
BY EngineInit, EngineStepKeeps, PTL DEF Spec

\* A task a checkpoint holds as completed is not run again: not in its pass,
\* not after a replan, not by a resumed run (executor.execute, SwarmState.resume).
THEOREM CheckpointedStaysDone == Spec => []CompletedNeverRunAgain
<1>1. EngineInv => CompletedNeverRunAgain
  BY DEF EngineInv, WorkIsNew, CompletedNeverRunAgain, Done
<1> QED
  BY <1>1, EngineInvariant, PTL

\* A run that reports "complete" has completed every planned task without a
\* gap, verified every claim and seen every conflict (finalize_product_outcome).
THEOREM CompleteIsVerified == Spec => []CompleteMeansVerified
<1>1. EngineInv => CompleteMeansVerified
  BY DEF EngineInv
<1> QED
  BY <1>1, EngineInvariant, PTL

\* Two fields of a result never contradict each other unless it reports that
\* conflict detection failed (plan_grounded_verification, build).
THEOREM ShownFieldsAgree == Spec => []ShownClaimsAgree
<1>1. EngineInv => ShownClaimsAgree
  <2> SUFFICES ASSUME EngineInv, ~DetectionFailed(st) PROVE ConflictClaims(Shown) = {}
    BY DEF ShownClaimsAgree, DetectionFailed
  <2>1. Agree(VerifiedIn(st))
    BY DEF EngineInv, VerdictsAgree
  <2>2. Shown \subseteq VerifiedIn(st)
    BY DEF Shown, VerifiedIn, Evidence
  <2> QED
    BY <2>1, <2>2 DEF Agree, ConflictClaims
<1> QED
  BY <1>1, EngineInvariant, PTL

\* What the Commander is charged at its two decisions is charged while the
\* correction round is open.
LEMMA ChargedWhileOpen ==
    ASSUME EngineInv, Next, pc \in {"decide", "correct"}, ledger' # ledger
    PROVE  ~CorrectionClosed(st)
<1>1. \A t \in Tasks : task[t] # "running"
  BY DEF EngineInv, PassAgrees, At, Working
<1>2. MayDecide \/ MayCorrect \/ BudgetStop
  BY <1>1 DEF Next, EngineStep, Plan, Resume, CheckFeasible, Save, StartTask, BlockTask, PersistResult,
              TaskAnswers, ExecutionEnds, Assess, DecideClosed, DecideKeep, DecideInvalid,
              CommanderFails, DecideReplan, CorrectReplan, Judge, VerifySkipped, VerifyPrepare,
              VerifyPrepareFails, VerifyBatch, VerifyBatchFails, CorrectSkipped, CorrectDeclined,
              CorrectInvalid, Finalize, Cancel, Crash
<1>3. CASE MayDecide
  BY <1>3 DEF MayDecide
<1>4. CASE MayCorrect
  <2>1. st.rounds \in Nat
    BY DEF EngineInv, Types, EngineStates
  <2>2. ~(st.rounds >= MaxCorrectionRounds)
    BY <1>4, <2>1 DEF MayCorrect, CorrectionAllowed, MaxCorrectionRounds
  <2> QED
    BY <1>4, <2>2 DEF MayCorrect, CorrectionClosed
<1>5. CASE BudgetStop
  BY <1>1, <1>5 DEF BudgetStop
<1> QED
  BY <1>2, <1>3, <1>4, <1>5

\* Once a checkpoint holds the answer to the correction round, no attempt of
\* the run asks the Commander anything again (correction_path_closed).
THEOREM AnsweredCorrectionStaysClosed == Spec => CorrectionClosedForGood
<1>1. EngineInv /\ [Next]_vars =>
        [(pc \in {"decide", "correct"} /\ ledger' # ledger) => ~CorrectionClosed(ck)]_vars
  <2> SUFFICES ASSUME EngineInv, Next, pc \in {"decide", "correct"}, ledger' # ledger
               PROVE  ~CorrectionClosed(ck)
    OBVIOUS
  <2>1. ~CorrectionClosed(st)
    BY ChargedWhileOpen
  <2> QED
    BY <2>1 DEF EngineInv, CheckpointBehind
<1> QED
  BY <1>1, EngineInvariant, PTL DEF Spec, CorrectionClosedForGood

=============================================================================
