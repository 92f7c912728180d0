--------------------------- MODULE MCSwarmEngine ---------------------------
(* SwarmEngine for TLC: tasks 1 and 3 agree on a displacement, 2 disagrees, *)
(* and only a replan or the correction round adds 3, 4 and 5.               *)
EXTENDS SwarmEngine

MCTasks == 1..5
MCInitialPlan == {1, 2}
MCDependsOn == [t \in MCTasks |-> IF t \in MCInitialPlan THEN {} ELSE 1..(t - 1)]
MCYields == [t \in MCTasks |->
    CASE t = 2 -> {"evidence", "gap"} [] t = 3 -> {"evidence", "thin"} [] OTHER -> {"evidence"}]
MCScope == [t \in MCTasks |->
    CASE t = 4 -> "torque" [] t = 5 -> "power" [] OTHER -> "displacement"]
MCValue == [t \in MCTasks |-> IF t = 2 THEN 1598 ELSE 1498]
MCGrounding == [t \in MCTasks |-> IF t = 3 THEN "match" ELSE "text"]
=============================================================================
