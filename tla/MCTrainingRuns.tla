--------------------------- MODULE MCTrainingRuns ---------------------------
(* Instances of TrainingRuns for TLC. *)
EXTENDS TrainingRuns, TLC

CONSTANTS a, b              \* workloads
CONSTANTS now1, now2, daily \* policy revisions

OneWorkload == <<a>>
TwoWorkloads == <<a, b>>

AtOnce == [w \in Workloads |-> 0]

SchedulerSymmetry == Permutations(Schedulers)
=============================================================================
