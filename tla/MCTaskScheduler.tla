-------------------------- MODULE MCTaskScheduler --------------------------
(* Small instances of TaskScheduler: task "o" is a one-shot, "c" a cron     *)
(* task, "i" an interval task with a negative interval, "x" a cron task     *)
(* with an expression that croniter rejects.                                *)
EXTENDS TaskScheduler, TLC

MCTrigger ==
    [t \in Task |-> CASE t = "o" -> [type |-> "ONE_SHOT", arg |-> 2]
                      [] t = "i" -> [type |-> "INTERVAL", arg |-> -2]
                      [] OTHER   -> [type |-> "CRON", arg |-> 0]]

MCTool == [t \in Task |-> IF t = "i" THEN "notify" ELSE "rpc"]

MCCronNext(t, b) == IF t = "x" THEN NoTime ELSE 2 * ((b + 1) \div 2) + 1

Symmetry == Permutations(Run) \cup Permutations(Client)

\* Every pass of the loop finds the slots it needs.
ASSUME Cardinality(Run) >= Cardinality(Task) + MaxManual
=============================================================================
