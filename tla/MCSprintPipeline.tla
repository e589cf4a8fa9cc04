-------------------------- MODULE MCSprintPipeline --------------------------
(* Instances of SprintPipeline for TLC. *)
EXTENDS SprintPipeline, TLC

(* Workers are alike. *)
Workers == Permutations(Worker)
=============================================================================
