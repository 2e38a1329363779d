---------------------------- MODULE TaskLifecycle ----------------------------
(***************************************************************************)
(* What the gateway promises about a task it has accepted, whichever       *)
(* workers run it and however often a stage has to be tried: the stages    *)
(* are counted one at a time, the task completes exactly where its         *)
(* pipeline ends, and a task that has ended does not go on.                *)
(*                                                                         *)
(* This is docs/tasks_and_stages.md as the consumer of a task sees it; the *)
(* consumer may cancel a task at any time, even one that has ended.        *)
(***************************************************************************)
EXTENDS Naturals

CONSTANTS
  Task,        \* task identifiers
  StageCount,  \* how many stages the pipeline has
  Repeats      \* repeatsUntilDone of the pipeline

VARIABLES
  phase,   \* whether a task is known, open, or how it ended
  stages   \* how many stages of it have been run

lifecycle == <<phase, stages>>

Phase == {"absent", "open", "completed", "failed", "cancelled"}

TypeOK ==
  /\ phase \in [Task -> Phase]
  /\ stages \in [Task -> Nat]

Init ==
  /\ phase = [t \in Task |-> "absent"]
  /\ stages = [t \in Task |-> 0]

\* n stages are the whole pipeline, or whole rounds of it.
PipelineEnds(n) == n % StageCount = 0 /\ (~Repeats => n = StageCount)

\* The pipeline goes on after n stages; a round of a repeating one need not be the last.
PipelineGoesOn(n) == Repeats \/ n < StageCount

Enter(t, from, to) == phase[t] \in from /\ phase' = [phase EXCEPT ![t] = to]

Count(t) == stages' = [stages EXCEPT ![t] = @ + 1]

Accept(t)   == Enter(t, {"absent"}, "open") /\ UNCHANGED stages
RunStage(t) == Enter(t, {"open"}, "open") /\ Count(t) /\ PipelineGoesOn(stages[t] + 1)
Complete(t) == Enter(t, {"open"}, "completed") /\ Count(t) /\ PipelineEnds(stages[t] + 1)
Fail(t)     == Enter(t, {"open"}, "failed") /\ UNCHANGED stages
Cancel(t)   == Enter(t, Phase \ {"absent"}, "cancelled") /\ UNCHANGED stages

Next == \E t \in Task : Accept(t) \/ RunStage(t) \/ Complete(t) \/ Fail(t) \/ Cancel(t)

Spec == Init /\ [][Next]_lifecycle
=============================================================================
