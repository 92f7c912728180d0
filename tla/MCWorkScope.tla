---------------------------- MODULE MCWorkScope ----------------------------
(* A mapping plan's life from two sides: its batches worked through, with a *)
(* revision's preparation one step; and the preparation itself, step by     *)
(* step, with no batch started.  Focus says which side a behaviour takes.   *)
EXTENDS PreparationRequests

VARIABLE focus

vars == <<planVars, prepVars, focus>>

Init == PlanInit /\ PrepInit /\ focus \in {"batches", "preparation"}

\* a revision written while a preparation is under way
Revised ==
    /\ head = 1 /\ head' = 2

Next ==
    /\ UNCHANGED focus
    /\ \/ focus = "batches" /\ PlanNext /\ UNCHANGED prepVars
       \/ /\ focus = "preparation"
          /\ \/ PrepNext /\ UNCHANGED <<head, edit, controls, run, click>>
             \/ Revised /\ UNCHANGED <<edit, controls, cut, run, click, prepVars>>

\* time passes: a grace ends, and a lease runs out and ages, because the job's
\* time limit ends every execution and nothing else renews its lease.  Nothing
\* is assumed of the processes: each may stop where it is.
Fairness == WF_vars(Clock /\ UNCHANGED <<planVars, focus>>)

Spec == Init /\ [][Next]_vars /\ Fairness

TypeOK == PlanTypeOK /\ PrepTypeOK
=============================================================================
