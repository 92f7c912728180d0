---------------------------- MODULE RunContract ----------------------------
(***************************************************************************)
(* What the run row promises everyone who reads it (a browser polling      *)
(* /runs, the Mapping Plan, an operator): the status follows the table,    *)
(* a reclaim restarts it, and the terminal status and the one terminal     *)
(* event that explains it appear in the same step, once, for good.         *)
(***************************************************************************)
EXTENDS RunStates, Sequences

VARIABLES status, evidence

contractVars == <<status, evidence>>

Init == status = "queued" /\ evidence = <<>>

(* A non-terminal change the table allows.                                 *)
Progress ==
  /\ \E s \in VALID_TRANSITIONS[status] \ TERMINAL_STATES : status' = s
  /\ UNCHANGED evidence

(* A worker whose predecessor's lease lapsed starts the run again.         *)
Restart ==
  /\ status \in {"launching", "waiting", "running"}
  /\ status' = "starting"
  /\ UNCHANGED evidence

(* The terminal decision: the status and its event, in one step.           *)
Decide ==
  \E s \in VALID_TRANSITIONS[status] \cap TERMINAL_STATES, emitted \in BOOLEAN :
    /\ status' = s
    /\ evidence' = evidence \o OwedEvents(s, emitted)

(* An operator retires a run nobody was started for: requested and         *)
(* cancelled in one transaction.                                           *)
Retire ==
  /\ status = "queued"
  /\ status' = "cancelled"
  /\ evidence' = Append(evidence, "run_cancelled")

Next == Progress \/ Restart \/ Decide \/ Retire

Spec == Init /\ [][Next]_contractVars
=============================================================================
