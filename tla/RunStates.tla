----------------------------- MODULE RunStates -----------------------------
(***************************************************************************)
(* The vocabulary of a run: its statuses, its launch states, the table of  *)
(* legal status changes, and the terminal event each terminal status owes. *)
(* Constant-level only; every module about runs extends it.                *)
(***************************************************************************)

TERMINAL_STATES ==
  {"completed", "partial_success", "failed", "cancelled", "timed_out",
   "budget_exhausted"}

RUN_STATES ==
  {"queued", "launching", "starting", "running", "waiting",
   "cancellation_requested"} \cup TERMINAL_STATES

LAUNCH_STATES ==
  {"none", "pending", "launching", "launched", "launch_failed",
   "launch_unknown"}

(* Statuses a worker holds: it observes a cancellation and finalizes it.   *)
CLAIMED_RUN_STATES == {"starting", "running", "waiting"}

VALID_TRANSITIONS ==
  [s \in RUN_STATES |->
     CASE s = "queued"    -> {"launching", "starting",
                              "cancellation_requested", "failed"}
       [] s = "launching" -> {"queued", "starting", "running",
                              "cancellation_requested", "failed"}
       [] s = "starting"  -> {"running", "waiting", "completed",
                              "partial_success", "cancellation_requested",
                              "failed", "timed_out"}
       [] s = "running"   -> {"waiting", "completed", "partial_success",
                              "failed", "cancellation_requested",
                              "timed_out", "budget_exhausted"}
       [] s = "waiting"   -> {"running", "failed", "cancellation_requested",
                              "timed_out", "budget_exhausted"}
       [] s = "cancellation_requested" -> {"cancelled", "failed"}
       [] OTHER -> {}]

(* validate_transition: an exception in the code, FALSE here.              *)
ValidTransition(current, new) ==
  current \in RUN_STATES /\ new \in VALID_TRANSITIONS[current]

(* Terminal status -> the event the finalizer emits with it. Budget and    *)
(* timeout stops owe none: the tracker emitted the cause already.          *)
TERMINAL_EVENTS ==
  {"run_completed", "run_partial_success", "run_failed", "run_cancelled"}

EventOfStatus ==
  [s \in {"completed", "partial_success", "failed", "cancelled"} |->
     CASE s = "completed"       -> "run_completed"
       [] s = "partial_success" -> "run_partial_success"
       [] s = "failed"          -> "run_failed"
       [] s = "cancelled"       -> "run_cancelled"]

(* Mutated form: budget and timeout stops announced as failures again.     *)
OwedEventsAlways(s, emitted) ==
  IF s \notin DOMAIN EventOfStatus THEN <<"run_failed">>
  ELSE <<EventOfStatus[s]>>

(* A claim owes an event unless its status has none or it was emitted.     *)
OwedEvents(s, emitted) ==
  IF emitted \/ s \notin DOMAIN EventOfStatus THEN <<>>
  ELSE <<EventOfStatus[s]>>

=============================================================================
