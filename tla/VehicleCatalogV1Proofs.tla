----------------------- MODULE VehicleCatalogV1Proofs -----------------------
(***************************************************************************)
(* Proofs about VehicleCatalogV1: what a finished run calls verified has    *)
(* its evidence on the board, and a resumed run is worth what the run it    *)
(* resumes was worth.  Both hold of the document once it is checkpointed,   *)
(* whichever attempt finishes it.                                           *)
(***************************************************************************)
EXTENDS VehicleCatalogV1, TLAPS

\* a model of the document is backed: by the evidence of the name its verdict
\* was given under, or by the one kind of entry the code believes without it
Backed(doc, m) ==
    LET claims == {c \in doc.claims : About(c) = EvidenceKey[doc.basis[m]]}
    IN  \/ m \in doc.believed
        \/ /\ claims # {}
           /\ \A c \in claims : /\ board[c].current = "located"
                                /\ ~Contradicted(c, doc.claims)
                                /\ IsraelRequired => c[3].israeli

VerifiedIsBacked(doc) ==
    \A m \in DOMAIN doc.models : doc.models[m] = "verified" => Backed(doc, m)

\* the summary's document is written once and the board not after it; what is
\* left of the run is to finish it, in this attempt or a later one
DocumentInv ==
    /\ ck # NoDocument => /\ pc \in {"claimed", "finalize", "done"}
                          /\ VerifiedIsBacked(ck)
                          /\ worth = Outcome(Declared(ck), ck)
    /\ pc = "finalize" => ck # NoDocument
    /\ out \in Products => /\ pc = "done" /\ ck # NoDocument
                           /\ out = Outcome(Declared(ck), ck)

-----------------------------------------------------------------------------
(* A verified entry: from the document back to the board. *)

\* a located answer is a durable claim with a located verdict that the board
\* still holds
LEMMA LocatedAnswer ==
    ASSUME NEW c, NEW decided, DurableAnswer(c, decided) = "located"
    PROVE  decided = "located" /\ board[c].current = "located"
BY DEF DurableAnswer

LEMMA LocatedVerdict ==
    ASSUME NEW c, NEW claims, NEW reply, Decided(c, claims, reply) = "located"
    PROVE  ~Contradicted(c, claims) /\ (IsraelRequired => c[3].israeli)
BY DEF Decided

\* the evidence authority lets a verified entry stand only if all that was
\* observed under its name, and something was, is located
LEMMA HeldIsLocated ==
    ASSUME NEW e, e.status = "verified", HeldStatus(e) = "verified"
    PROVE  ReportOf(e.name) = {"located"}
BY DEF HeldStatus

LEMMA ReportLocated ==
    ASSUME NEW name, ReportOf(name) = {"located"}
    PROVE  /\ \E c \in Observed(w) : About(c) = EvidenceKey[name]
           /\ \A c \in Observed(w) : About(c) = EvidenceKey[name] =>
                 /\ board[c].current = "located"
                 /\ ~Contradicted(c, Observed(w))
                 /\ IsraelRequired => c[3].israeli
<1>1. \E c \in Observed(w) : About(c) = EvidenceKey[name]
  BY DEF ReportOf
<1>2. ASSUME NEW c \in Observed(w), About(c) = EvidenceKey[name]
      PROVE  /\ board[c].current = "located"
             /\ ~Contradicted(c, Observed(w))
             /\ IsraelRequired => c[3].israeli
  <2> DEFINE verdict == Decided(c, Observed(w), w.reply)
  <2>1. DurableAnswer(c, verdict) \in ReportOf(name)
    BY <1>2 DEF ReportOf
  <2>2. verdict = "located" /\ board[c].current = "located"
    <3> HIDE DEF verdict
    <3> QED BY <2>1, LocatedAnswer
  <2> QED BY <2>2, LocatedVerdict
<1> QED BY <1>1, <1>2

\* neither the index of the verifier's lists nor the source policy makes a
\* model verified that was not
LEMMA VerifiedEntry ==
    ASSUME NEW m, PolicyStatus(m) = "verified"
    PROVE  /\ Found(m, Verdicts)
           /\ \/ EntryOf(m).list = "needs_review"
              \/ HeldStatus(EntryOf(m)) = "verified"
<1>1. IndexedStatus(m) = "verified"
  BY DEF PolicyStatus
<1> DEFINE status == IF ~Found(m, Verdicts) THEN "none"
                     ELSE IF EntryOf(m).list = "needs_review" THEN EntryOf(m).status
                     ELSE HeldStatus(EntryOf(m))
<1>2. IndexedStatus(m) = IF status \in Statuses THEN status ELSE "partial"
  BY DEF IndexedStatus
<1>3. status = "verified"
  <2> HIDE DEF status
  <2> QED BY <1>1, <1>2
<1> QED BY <1>3

\* HeldStatus raises nothing
LEMMA HeldWasVerified ==
    ASSUME NEW e, HeldStatus(e) = "verified" PROVE e.status = "verified"
BY DEF HeldStatus

LEMMA DocumentFields ==
    /\ Document.claims = Observed(w)
    /\ Document.believed =
          {m \in w.canonical : Found(m, Verdicts) /\ EntryOf(m).list = "needs_review"}
    /\ Document.basis = [m \in {n \in w.canonical : Found(n, Verdicts)} |-> EntryOf(m).name]
    /\ Document.models = [m \in w.canonical |-> PolicyStatus(m)]
    /\ Document.status \in {"complete", "partial_success"}
BY DEF Document

LEMMA DocumentIsBacked == VerifiedIsBacked(Document)
<1> SUFFICES ASSUME NEW m \in w.canonical, PolicyStatus(m) = "verified"
             PROVE  Backed(Document, m)
  BY DocumentFields DEF VerifiedIsBacked
<1> DEFINE e == EntryOf(m)
<1>1. Found(m, Verdicts) /\ (e.list = "needs_review" \/ HeldStatus(e) = "verified")
  BY VerifiedEntry
<1>2. Document.basis[m] = e.name
  BY <1>1, DocumentFields
<1>3. CASE e.list = "needs_review"
  BY <1>1, <1>3, DocumentFields DEF Backed
<1>4. CASE HeldStatus(e) = "verified"
  <2>1. ReportOf(e.name) = {"located"}
    <3> HIDE DEF e
    <3> QED BY <1>4, HeldWasVerified, HeldIsLocated
  <2>2. /\ \E c \in Observed(w) : About(c) = EvidenceKey[e.name]
        /\ \A c \in Observed(w) : About(c) = EvidenceKey[e.name] =>
              /\ board[c].current = "located"
              /\ ~Contradicted(c, Observed(w))
              /\ IsraelRequired => c[3].israeli
    BY <2>1, ReportLocated
  <2> HIDE DEF e
  <2> QED BY <2>2, <1>2, DocumentFields DEF Backed
<1> QED BY <1>1, <1>3, <1>4

-----------------------------------------------------------------------------
(* What a document is worth. *)

\* the builder's status, written before the policy lowered a model, classifies
\* the document as the declared status does: what makes them differ is in the
\* document too
LEMMA ResumeAgrees ==
    ASSUME NEW doc PROVE Outcome(doc.status, doc) = Outcome(Declared(doc), doc)
<1> DEFINE verified == {m \in DOMAIN doc.models : doc.models[m] = "verified"}
           faultless == verified = DOMAIN doc.models /\ doc.failures = {}
<1>1. CASE faultless
  <2>1. Declared(doc) = doc.status
    BY <1>1 DEF Declared
  <2> QED BY <2>1
<1>2. CASE ~faultless
  <2>1. \A declared : Outcome(declared, doc) = IF verified = {} THEN "unusable" ELSE "partial"
    BY <1>2 DEF Outcome
  <2> QED BY <2>1
<1> QED BY <1>1, <1>2

LEMMA OutcomeType ==
    ASSUME NEW declared, NEW doc PROVE Outcome(declared, doc) \in Products
BY DEF Outcome, Products

-----------------------------------------------------------------------------
(* The invariant. *)

LEMMA NotProducts ==
    {"none", "not_produced", "cancelled", "budget_stopped"} \cap Products = {}
BY DEF Products

LEMMA DocumentInit == ASSUME Init PROVE DocumentInv
BY NotProducts DEF Init, DocumentInv

\* until the summary there is no document, and none of these steps makes one
LEMMA BeforeSummary ==
    ASSUME DocumentInv,
           pc \notin {"claimed", "finalize", "done"},
           pc' # "finalize",
           UNCHANGED <<ck, worth>>,
           \/ UNCHANGED out
           \/ out' \in {"none", "not_produced", "cancelled", "budget_stopped"}
    PROVE  DocumentInv'
BY NotProducts DEF DocumentInv

\* the run goes on with its document
LEMMA AfterSummary ==
    ASSUME DocumentInv, UNCHANGED <<board, ck, worth>>,
           pc' \in {"claimed", "done"},
           \/ UNCHANGED out /\ pc # "done"
           \/ ck # NoDocument /\ pc' = "done" /\ out' = Outcome(Declared(ck), ck)
    PROVE  DocumentInv'
<1>1. VerifiedIsBacked(ck)' <=> VerifiedIsBacked(ck)
  BY DEF VerifiedIsBacked, Backed, Contradicted, About
<1> QED BY <1>1 DEF DocumentInv, Outcome, Declared

LEMMA BuildStep == ASSUME DocumentInv, Build PROVE DocumentInv'
<1>1. /\ pc = "build" /\ pc' = "finalize" /\ ck' = Document
      /\ worth' = Outcome(Declared(Document), Document)
      /\ UNCHANGED <<board, out>>
  BY DEF Build
<1>2. Document # NoDocument
  BY DocumentFields DEF NoDocument
<1>3. VerifiedIsBacked(ck)'
  BY <1>1, DocumentIsBacked DEF VerifiedIsBacked, Backed, Contradicted, About
<1>4. worth' = Outcome(Declared(ck), ck)'
  BY <1>1 DEF Outcome, Declared
<1>5. out' \notin Products
  BY <1>1 DEF DocumentInv
<1> QED BY <1>1, <1>2, <1>3, <1>4, <1>5 DEF DocumentInv

LEMMA DocumentStep == ASSUME DocumentInv, [Next]_vars PROVE DocumentInv'
<1>1. CASE Start
  BY <1>1 DEF Start, DocumentInv
<1>2. CASE Discovery
  BY <1>2, BeforeSummary DEF Discovery, End
<1>3. CASE Normalizer
  BY <1>3, BeforeSummary DEF Normalizer, End
<1>4. CASE Technical
  <2>1. /\ pc = "technical" /\ UNCHANGED <<ck, worth>>
        /\ pc' \in {"verification", "done"} /\ (UNCHANGED out \/ out' = "not_produced")
    BY <1>4 DEF Technical, End
  <2> QED BY <2>1, BeforeSummary
<1>5. CASE Verification
  BY <1>5, BeforeSummary DEF Verification
<1>6. CASE Persist
  BY <1>6, BeforeSummary DEF Persist
<1>7. CASE Settle
  BY <1>7, BeforeSummary DEF Settle
<1>8. CASE ReadStates
  BY <1>8, BeforeSummary DEF ReadStates
<1>9. CASE Build
  BY <1>9, BuildStep
<1>10. CASE Finalize
  BY <1>10, AfterSummary DEF Finalize, End, DocumentInv
<1>11. CASE Resume
  BY <1>11, AfterSummary, ResumeAgrees DEF Resume, End, ResumedOutcome
<1>12. CASE Cancel \/ BudgetStop
  BY <1>12, BeforeSummary DEF Cancel, BudgetStop, End
<1>13. CASE Crash
  BY <1>13, AfterSummary DEF Crash
<1>14. CASE UNCHANGED vars
  <2>1. VerifiedIsBacked(ck)' <=> VerifiedIsBacked(ck)
    BY <1>14 DEF VerifiedIsBacked, Backed, Contradicted, About, vars
  <2> QED BY <1>14, <2>1 DEF DocumentInv, Outcome, Declared, vars
<1> QED BY <1>1, <1>2, <1>3, <1>4, <1>5, <1>6, <1>7, <1>8, <1>9, <1>10, <1>11, <1>12,
           <1>13, <1>14 DEF Next

(* The checkpointed document is backed by the board it was built on, is     *)
(* worth what the engine declared, and is what the run ends with, at once   *)
(* or resumed (build_final_json_python, the resume path of worker/main.py). *)
THEOREM DocumentInvariant == Spec => []DocumentInv
<1>1. DocumentInv /\ [Next]_vars => DocumentInv'
  BY DocumentStep
<1> QED BY <1>1, DocumentInit, PTL DEF Spec

(* Whatever earlier attempts settled and whichever writes or reads failed,  *)
(* the evidence of the name a verified model's verdict was given under is   *)
(* located on the board, uncontradicted and of the required market, and     *)
(* there is some (_durable_answer); a verdict under needs_review is         *)
(* believed, and other spellings of the model are not asked about.          *)
THEOREM VerifiedHasItsEvidence == Spec => []VerifiedHasEvidence
<1>1. DocumentInv => VerifiedHasEvidence
  BY DEF DocumentInv, VerifiedIsBacked, Backed, VerifiedHasEvidence
<1> QED BY <1>1, DocumentInvariant, PTL

(* Resuming a summary checkpoint yields the outcome the interrupted attempt *)
(* would have had, although it declares the builder's status                *)
(* (derive_vehicle_catalog_v1_outcome).                                     *)
THEOREM ResumeIsWorthTheSame == Spec => []ResumedWorthNoMore
<1>1. DocumentInv => ResumedWorthNoMore
  BY DEF DocumentInv, ResumedWorthNoMore
<1> QED BY <1>1, DocumentInvariant, PTL
=============================================================================
