---------------------------- MODULE TaskScheduling ----------------------------
(***************************************************************************)
(* How the gateway of webai-at-home moves a task through the stages of its *)
(* pipeline: packages/gateway/src, the classes TaskStore, TaskScheduler,   *)
(* DeviceRegistry, WorkerPlacement, the counters of DeviceAnnouncer, and   *)
(* the task and stage handlers of ClientMessageHandler.                    *)
(*                                                                         *)
(* The gateway is one Node.js thread, so a message handler runs to         *)
(* completion.  A handler that touches one task is one action.  A handler  *)
(* that walks over every task (the recovery timer, the placing of queued   *)
(* tasks, the loss of a connection) is one step per task, and `handler`    *)
(* keeps every other handler out until the walk ends.                      *)
(*                                                                         *)
(* A connection is given a fresh device identifier when it opens, so a     *)
(* member of Worker connects once and, once gone, never comes back.        *)
(***************************************************************************)
EXTENDS Integers, Sequences, FiniteSets

CONSTANTS
  Task,            \* task identifiers
  Worker,          \* device identifiers of worker connections
  NoWorker,        \* stands for `undefined` where a device identifier is expected
  StageCount,      \* how many stages the pipeline has
  Repeats,         \* repeatsUntilDone of the pipeline
  Sticky,          \* the stages with prefersSameWorkerOnRetry
  ResultValues,    \* the values a worker may report for a stage
  Offers,          \* the stage lists a worker may advertise
  Limits,          \* the values of maxConcurrentAssignments a worker may state
  MaxAttempts,     \* --max-attempts
  MaxActiveTasks,  \* maximumTasksPerPrincipal; every consumer is one principal
  Reregisters,     \* whether a worker may send deviceRegister twice
  MaxStageRuns,    \* bound: results before a repeating pipeline reports done
  MaxRenewals      \* bound: rescues of one lease that had run out

Stage == 1..StageCount

\* What the gateway can tell about a stage value: whether it continues a
\* generation (isContinuation), ends it (done), or neither.
Value == {"plain", "continuation", "done"}

ASSUME ConstantsAssumption ==
  /\ NoWorker \notin Worker
  /\ StageCount \in Nat \ {0}
  /\ Repeats \in BOOLEAN
  /\ Sticky \subseteq Stage
  /\ ResultValues \subseteq Value
  /\ Offers \subseteq SUBSET Stage
  /\ Limits \subseteq Nat \ {0}
  /\ MaxAttempts \in Nat \ {0}
  /\ MaxActiveTasks \in Nat
  /\ Reregisters \in BOOLEAN
  /\ MaxStageRuns \in Nat
  /\ MaxRenewals \in Nat

VARIABLES
  tasks,    \* TaskStore.tasks
  devices,  \* DeviceRegistry.devices, and whether the connection is open
  handler   \* the walk over tasks the gateway is in the middle of, if any

vars == <<tasks, devices, handler>>

-----------------------------------------------------------------------------
(* State *)

Finished == {"completed", "failed", "cancelled"}
State == {"absent", "queued", "assigned", "running"} \cup Finished

\* One entry of stageAssignmentAttempts.  Its index in the task's sequence
\* plays the part of the stageAssignmentId.
Attempt == [worker : Worker, stage : Stage, value : Value]

TaskRecord ==
  [state        : State,
   completed    : Nat,                              \* completedStages.length
   value        : Value,                            \* last value, or the initial one
   attempts     : Seq(Attempt),                     \* stageAssignmentAttempts
   assignment   : Nat,                              \* stageAssignment, 0 when undefined
   tries        : Nat,                              \* currentStageAttempts
   holder       : [Stage -> Worker \cup {NoWorker}],  \* stageWorkerDeviceIds
   acknowledged : SUBSET Nat,                       \* acknowledgedStageAssignmentIds
   withdrawn    : SUBSET Nat,                       \* named in a stage.cancel sent so far
   expired      : BOOLEAN,                          \* leaseUntil has passed
   renewals     : Nat,                              \* times a passed lease was extended
   overdue      : BOOLEAN]                          \* submissionDeadlineAt has passed

NewTask ==
  [state |-> "absent", completed |-> 0, value |-> "plain", attempts |-> <<>>,
   assignment |-> 0, tries |-> 0, holder |-> [s \in Stage |-> NoWorker],
   acknowledged |-> {}, withdrawn |-> {}, expired |-> FALSE, renewals |-> 0,
   overdue |-> FALSE]

Device ==
  [connection : {"new", "open", "gone"},
   ready      : BOOLEAN,          \* workerState = 'ready'
   offers     : SUBSET Stage,     \* stageNames
   limit      : Nat,              \* maxConcurrentAssignments
   active     : Nat]              \* activeAssignments

Unregistered == [connection |-> "new", ready |-> FALSE, offers |-> {}, limit |-> 0, active |-> 0]

Handler == [kind : {"idle", "leases", "schedule", "close"}, left : SUBSET Task]

Idle == [kind |-> "idle", left |-> {}]

Init ==
  /\ tasks = [t \in Task |-> NewTask]
  /\ devices = [w \in Worker |-> Unregistered]
  /\ handler = Idle

-----------------------------------------------------------------------------
(* Choosing a worker: DeviceRegistry and WorkerPlacement *)

Queued(ts) == {t \in Task : ts[t].state = "queued"}
IsOpen(devs, w) == devs[w].connection = "open"
Unfinished(task) == task.state \notin Finished \cup {"absent"}

\* Slip: the counter of a device that has left is lowered too.
ReleaseUnchecked(devs, w) == [devs EXCEPT ![w].active = @ - 1]

\* releaseWorkerAssignment and occupyWorkerAssignment: nothing happens to the
\* counter of a device that has left the registry.
Release(devs, w) ==
  IF IsOpen(devs, w) /\ devs[w].active > 0 THEN [devs EXCEPT ![w].active = @ - 1] ELSE devs

\* Slip: a counter of zero is taken for a counter that is not kept.
OccupyIdle(devs, w) == IF devs[w].active = 0 THEN devs ELSE [devs EXCEPT ![w].active = @ + 1]

Occupy(devs, w) == [devs EXCEPT ![w].active = @ + 1]

Offering(devs, w, stage) == IsOpen(devs, w) /\ devs[w].ready /\ stage \in devs[w].offers

\* findWorker returns the first match in registration order; the model allows
\* any match, so that nothing it shows depends on that order.
FindWorkers(devs, stage, excluded) ==
  {w \in Worker \ excluded : Offering(devs, w, stage) /\ devs[w].active < devs[w].limit}

\* Slip: the previous assignment is discounted even when already released.
ReusableDiscounted(devs, w, stage, released) ==
  Offering(devs, w, stage) /\ devs[w].active < devs[w].limit + 1

\* One assignment is discounted when the worker still holds the one being replaced.
Reusable(devs, w, stage, released) ==
  /\ Offering(devs, w, stage)
  /\ devs[w].active < devs[w].limit + (IF released THEN 0 ELSE 1)

\* The devices `assign` may choose, given its options.  Only a first placement
\* falls back to an excluded worker when there is no other.
Candidates(devs, stage, options) ==
  LET others == FindWorkers(devs, stage, options.excluded)
  IN  IF options.preferred \in Worker /\ Reusable(devs, options.preferred, stage, options.released)
      THEN {options.preferred}
      ELSE IF others = {} /\ ~options.retry THEN FindWorkers(devs, stage, {}) ELSE others

PreferredWorker(task, stage, previous) ==
  IF stage \notin Sticky THEN NoWorker
  ELSE IF task.holder[stage] # NoWorker THEN task.holder[stage] ELSE previous

\* Slip: `done` ends a repeating pipeline in the middle of a round too, and the last
\* stage of one that does not repeat is left out.
NextStageEarly(task) ==
  IF ~Repeats
  THEN IF task.completed + 1 < StageCount THEN task.completed + 1 ELSE 0
  ELSE IF task.completed > 0 /\ task.value = "done"
       THEN 0
       ELSE (task.completed % StageCount) + 1

\* The next stage of a task, 0 when its pipeline has finished.
NextStage(task) ==
  IF ~Repeats
  THEN IF task.completed < StageCount THEN task.completed + 1 ELSE 0
  ELSE IF task.completed > 0 /\ task.completed % StageCount = 0 /\ task.value = "done"
       THEN 0
       ELSE (task.completed % StageCount) + 1

-----------------------------------------------------------------------------
(* TaskScheduler.assign *)

\* A record without its stageAssignment; the lease is part of the assignment.
Unassigned(task, state) ==
  [task EXCEPT !.state = state, !.assignment = 0, !.expired = FALSE, !.renewals = 0]

\* A stage that has been assigned as often as allowed fails the task.
Exhaust(t, task, devs) ==
  /\ tasks' = [tasks EXCEPT ![t] = Unassigned(task, "failed")]
  /\ devices' = devs

\* Slip: a continuation goes wherever there is room.
MisplacedNever(task, value, stage, w) == FALSE

\* A value that continues a generation may only go to the device holding it.
Misplaced(task, value, stage, w) ==
  value = "continuation" /\ task.holder[stage] # NoWorker /\ w # task.holder[stage]

\* Slip: the state of the requeued task is left as it was.
RequeueInPlace(t, task, devs) ==
  /\ tasks' = [tasks EXCEPT ![t] = Unassigned(task, task.state)]
  /\ devices' = devs

\* Slip: the retry budget starts again in the queue.
RequeueAfresh(t, task, devs) ==
  /\ tasks' = [tasks EXCEPT ![t] = [Unassigned(task, "queued") EXCEPT !.tries = 0]]
  /\ devices' = devs

\* No worker can take the stage now: the task goes back to the queue.
Requeue(t, task, devs) ==
  /\ tasks' = [tasks EXCEPT ![t] = Unassigned(task, "queued")]
  /\ devices' = devs

\* The worker whose assignment is replaced, NoWorker when none is.
Superseded(task) ==
  IF task.assignment = 0 THEN NoWorker ELSE task.attempts[task.assignment].worker

\* Slip: the new assignment is named instead of the replaced one.
WithdrawalsOfNew(task, devs, w) ==
  IF Superseded(task) # NoWorker THEN {Len(task.attempts) + 1} ELSE {}

\* A superseded worker is told to stop, unless the stage goes back to it.
Withdrawals(task, devs, w) ==
  LET old == Superseded(task)
  IN  IF old # NoWorker /\ old # w /\ IsOpen(devs, old) THEN {task.assignment} ELSE {}

\* TaskStore.assign
Placed(task, devs, value, stage, w) ==
  [task EXCEPT !.state = "assigned",
               !.attempts = Append(@, [worker |-> w, stage |-> stage, value |-> value]),
               !.assignment = Len(task.attempts) + 1,
               !.tries = @ + 1,
               !.withdrawn = @ \cup Withdrawals(task, devs, w),
               !.expired = FALSE,
               !.renewals = 0]

Place(t, task, devs, value, stage, w) ==
  LET old == Superseded(task)
  IN  /\ tasks' = [tasks EXCEPT ![t] = Placed(task, devs, value, stage, w)]
      /\ devices' = Occupy(IF old = NoWorker THEN devs ELSE Release(devs, old), w)

\* `task` is the stored record of t as the handler has updated it so far, and
\* `devs` the registry likewise.  Every caller passes an unfinished task, so
\* the early return for a finished one has no counterpart here.
Assign(t, task, devs, value, stage, options) ==
  LET candidates == Candidates(devs, stage, options)
  IN  \/ /\ task.tries >= MaxAttempts
         /\ Exhaust(t, task, devs)
      \/ /\ task.tries < MaxAttempts
         /\ \/ candidates = {} /\ Requeue(t, task, devs)
            \/ \E w \in candidates :
                 IF Misplaced(task, value, stage, w)
                 THEN Requeue(t, task, devs)
                 ELSE Place(t, task, devs, value, stage, w)

NewPlacement == [excluded |-> {}, retry |-> FALSE, preferred |-> NoWorker, released |-> FALSE]

\* Slip: the excluded worker is forgotten.
RetryAnywhere(t, excluded, preferred) ==
  LET task == tasks[t]
      current == task.attempts[task.assignment]
  IN  Assign(t, task, devices, current.value, current.stage,
             [NewPlacement EXCEPT !.retry = TRUE, !.preferred = preferred])

\* Assigns the stage of the current assignment again.
Retry(t, excluded, preferred) ==
  LET task == tasks[t]
      current == task.attempts[task.assignment]
  IN  Assign(t, task, devices, current.value, current.stage,
             [NewPlacement EXCEPT !.excluded = excluded, !.retry = TRUE, !.preferred = preferred])

-----------------------------------------------------------------------------
(* Walks over every task.  A walk is started by a handler and steps through *)
(* the tasks it concerns; the order is left open.                           *)

Walk(kind, left) == [kind |-> kind, left |-> left]

\* Slip: the walk returns where it should go on to the next task.
SteppedOut(t) == [handler EXCEPT !.left = {}]

Stepped(t) == [handler EXCEPT !.left = @ \ {t}]

\* scheduleQueuedTasks, one task of it.
ScheduleTask(t) ==
  /\ handler.kind = "schedule" /\ t \in handler.left
  /\ handler' = Stepped(t)
  /\ LET task == tasks[t]
         stage == NextStage(task)
     IN  IF task.overdue
         THEN /\ tasks' = [tasks EXCEPT ![t].state = "failed"]
              /\ UNCHANGED devices
         ELSE IF stage = 0
         THEN UNCHANGED <<tasks, devices>>
         ELSE Assign(t, task, devices, task.value, stage,
                     [NewPlacement EXCEPT !.preferred = PreferredWorker(task, stage, NoWorker),
                                          !.released = TRUE])

\* recoverAssignments, one assignment whose lease has run out.
RecoverLease(t) ==
  /\ handler.kind = "leases" /\ t \in handler.left
  /\ handler' = Stepped(t)
  /\ LET current == tasks[t].attempts[tasks[t].assignment]
     IN  IF current.stage \in Sticky
         THEN Retry(t, {}, current.worker)
         ELSE Retry(t, {current.worker}, NoWorker)

\* recoverWorkerAssignments, one assignment of a worker that has gone.
RecoverDisconnected(t) ==
  /\ handler.kind = "close" /\ t \in handler.left
  /\ handler' = Stepped(t)
  /\ Retry(t, {tasks[t].attempts[tasks[t].assignment].worker}, NoWorker)

\* Slip: the recovery timer no longer looks at the queue.
EndWalkEarly ==
  /\ handler.kind # "idle" /\ handler.left = {}
  /\ handler' = Idle
  /\ UNCHANGED <<tasks, devices>>

\* The recovery timer runs the two walks one after the other.
EndWalk ==
  /\ handler.kind # "idle" /\ handler.left = {}
  /\ handler' = IF handler.kind = "leases" THEN Walk("schedule", Queued(tasks)) ELSE Idle
  /\ UNCHANGED <<tasks, devices>>

WalkStep ==
  \/ \E t \in Task : ScheduleTask(t) \/ RecoverLease(t) \/ RecoverDisconnected(t)
  \/ EndWalk

RecoveryTimer ==
  /\ handler = Idle
  /\ handler' = Walk("leases", {t \in Task : tasks[t].assignment # 0 /\ tasks[t].expired})
  /\ UNCHANGED <<tasks, devices>>

-----------------------------------------------------------------------------
(* Time *)

LeaseRunsOut(t) ==
  /\ tasks[t].assignment # 0 /\ ~tasks[t].expired
  /\ tasks' = [tasks EXCEPT ![t].expired = TRUE]
  /\ UNCHANGED <<devices, handler>>

DeadlinePasses(t) ==
  /\ Unfinished(tasks[t]) /\ ~tasks[t].overdue
  /\ tasks' = [tasks EXCEPT ![t].overdue = TRUE]
  /\ UNCHANGED <<devices, handler>>

-----------------------------------------------------------------------------
(* Messages of devices, and the end of a connection *)

Register(w, ready, offers, limit) ==
  /\ handler = Idle
  /\ devices[w].connection = "new" \/ (Reregisters /\ IsOpen(devices, w))
  /\ devices' = [devices EXCEPT ![w] =
       [connection |-> "open", ready |-> ready, offers |-> offers, limit |-> limit, active |-> 0]]
  /\ handler' = Walk("schedule", Queued(tasks))
  /\ UNCHANGED tasks

\* A consumer that registers has the queued tasks placed as well.
RegisterConsumer ==
  /\ handler = Idle
  /\ handler' = Walk("schedule", Queued(tasks))
  /\ UNCHANGED <<tasks, devices>>

WorkerState(w, ready, limit) ==
  /\ handler = Idle
  /\ IsOpen(devices, w)
  /\ devices' = [devices EXCEPT ![w].ready = ready, ![w].limit = limit]
  /\ handler' = IF ready THEN Walk("schedule", Queued(tasks)) ELSE Idle
  /\ UNCHANGED tasks

\* Slip: only assignments the worker has accepted are recovered.
DisconnectRunning(w) ==
  /\ handler = Idle
  /\ IsOpen(devices, w)
  /\ devices' = [devices EXCEPT ![w] = [Unregistered EXCEPT !.connection = "gone"]]
  /\ handler' = Walk("close", {t \in Task : Superseded(tasks[t]) = w /\ tasks[t].state = "running"})
  /\ UNCHANGED tasks

Disconnect(w) ==
  /\ handler = Idle
  /\ IsOpen(devices, w)
  /\ devices' = [devices EXCEPT ![w] = [Unregistered EXCEPT !.connection = "gone"]]
  /\ handler' = Walk("close", {t \in Task : Superseded(tasks[t]) = w})
  /\ UNCHANGED tasks

-----------------------------------------------------------------------------
(* Messages of consumers *)

\* A stage nobody offers at all refuses the task; one nobody is free for does not.
HasWorkerForStage(stage) ==
  \E w \in Worker : IsOpen(devices, w) /\ stage \in devices[w].offers

Submit(t) ==
  /\ handler = Idle
  /\ tasks[t].state = "absent"
  /\ Cardinality({u \in Task : Unfinished(tasks[u])}) < MaxActiveTasks
  /\ \A s \in Stage : HasWorkerForStage(s)
  /\ LET created == [NewTask EXCEPT !.state = "queued"]
     IN  Assign(t, created, devices, created.value, NextStage(created), NewPlacement)
  /\ UNCHANGED handler

\* The code does not look at the state of the task it cancels.
Cancel(t) ==
  /\ handler = Idle
  /\ tasks[t].state # "absent"
  /\ LET w == Superseded(tasks[t])
         told == IF w # NoWorker /\ IsOpen(devices, w) THEN {tasks[t].assignment} ELSE {}
     IN  /\ tasks' = [tasks EXCEPT ![t] =
               [Unassigned(tasks[t], "cancelled") EXCEPT !.withdrawn = @ \cup told]]
         /\ devices' = IF w = NoWorker THEN devices ELSE Release(devices, w)
  /\ UNCHANGED handler

-----------------------------------------------------------------------------
(* Stage messages of a worker about the assignment i of task t.  A worker    *)
(* names any assignment it was ever sent, so a message may be late or come   *)
(* twice; what the gateway only answers with an error is not a step.         *)

WasSent(w, t, i) ==
  /\ IsOpen(devices, w)
  /\ i \in 1..Len(tasks[t].attempts)
  /\ tasks[t].attempts[i].worker = w

\* Slip: any assignment the worker was ever given is taken for the current one.
IsCurrentAny(t, i) == TRUE

\* The check every stage message makes against the stored assignment.
IsCurrent(t, i) == tasks[t].assignment = i

StageAccepted(w, t, i) ==
  /\ handler = Idle
  /\ WasSent(w, t, i) /\ IsCurrent(t, i)
  /\ tasks' = [tasks EXCEPT ![t].state = "running"]
  /\ UNCHANGED <<devices, handler>>

\* The lease is extended even when it has already run out.
Heartbeat(w, t, i) ==
  /\ handler = Idle
  /\ WasSent(w, t, i) /\ IsCurrent(t, i)
  /\ tasks[t].expired /\ tasks[t].renewals < MaxRenewals
  /\ tasks' = [tasks EXCEPT ![t].expired = FALSE, ![t].renewals = @ + 1]
  /\ UNCHANGED <<devices, handler>>

\* A heartbeat for an assignment that is no longer current is answered with
\* stage.cancel.  A worker ends its heartbeat before it reports a result.
StaleHeartbeat(w, t, i) ==
  /\ handler = Idle
  /\ WasSent(w, t, i) /\ ~IsCurrent(t, i) /\ i \notin tasks[t].acknowledged
  /\ tasks' = [tasks EXCEPT ![t].withdrawn = @ \cup {i}]
  /\ UNCHANGED <<devices, handler>>

Relinquish(w, t, i) ==
  /\ handler = Idle
  /\ WasSent(w, t, i) /\ IsCurrent(t, i)
  /\ Retry(t, {w}, NoWorker)
  /\ UNCHANGED handler

\* What a worker can report; a repeating pipeline says `done` at the latest after
\* MaxStageRuns stages.
Reportable(task, v) ==
  /\ v \in ResultValues
  /\ Repeats /\ task.completed + 1 >= MaxStageRuns => v = "done"

\* TaskStore.addStage
AddStage(task, i, w, v) ==
  [Unassigned(task, "running") EXCEPT
     !.completed = @ + 1,
     !.value = v,
     !.tries = 0,
     !.holder[task.attempts[i].stage] = w,
     !.acknowledged = @ \cup {i}]

StageResult(w, t, i, v) ==
  /\ handler = Idle
  /\ WasSent(w, t, i) /\ IsCurrent(t, i)
  /\ tasks[t].state = "running"
  /\ Reportable(tasks[t], v)
  /\ LET updated == AddStage(tasks[t], i, w, v)
         devs == Release(devices, w)
         upcoming == NextStage(updated)
     IN  \/ /\ upcoming = 0
            /\ tasks' = [tasks EXCEPT ![t] = [updated EXCEPT !.state = "completed"]]
            /\ devices' = devs
         \/ /\ upcoming # 0
            /\ Assign(t, updated, devs, v, upcoming,
                 [excluded  |-> IF upcoming \in Sticky THEN {} ELSE {w},
                  retry     |-> FALSE,
                  preferred |-> PreferredWorker(updated, upcoming, w),
                  released  |-> TRUE])
  /\ UNCHANGED handler

StageFailed(w, t, i) ==
  /\ handler = Idle
  /\ WasSent(w, t, i) /\ IsCurrent(t, i)
  /\ tasks[t].state = "running"
  /\ tasks' = [tasks EXCEPT ![t] = Unassigned(@, "failed")]
  /\ devices' = Release(devices, w)
  /\ UNCHANGED handler

-----------------------------------------------------------------------------

StageMessage(w, t, i) ==
  \/ StageAccepted(w, t, i)
  \/ Heartbeat(w, t, i)
  \/ StaleHeartbeat(w, t, i)
  \/ Relinquish(w, t, i)
  \/ StageFailed(w, t, i)

DeviceMessage(w) ==
  \/ \E ready \in BOOLEAN, limit \in Limits :
       \/ \E offers \in Offers : Register(w, ready, offers, limit)
       \/ WorkerState(w, ready, limit)
  \/ Disconnect(w)

StageCompletes ==
  \E t \in Task, w \in Worker, v \in Value :
    \E i \in DOMAIN tasks[t].attempts : StageResult(w, t, i, v)

\* Every step but the one that completes a stage.
OtherStep ==
  \/ WalkStep
  \/ RecoveryTimer
  \/ RegisterConsumer
  \/ \E w \in Worker : DeviceMessage(w)
  \/ \E t \in Task : Submit(t) \/ Cancel(t) \/ LeaseRunsOut(t) \/ DeadlinePasses(t)
  \/ \E t \in Task, w \in Worker : \E i \in DOMAIN tasks[t].attempts : StageMessage(w, t, i)

Next == OtherStep \/ StageCompletes

Spec == Init /\ [][Next]_vars

-----------------------------------------------------------------------------
(* Properties *)

\* The stored tasks, the registry and the walk have their types; in particular
\* no assignment counter goes below zero and the current assignment is one the
\* task was given.
TypeOK ==
  /\ tasks \in [Task -> TaskRecord]
  /\ \A t \in Task : tasks[t].assignment \in 0..Len(tasks[t].attempts)
  /\ devices \in [Worker -> Device]
  /\ handler \in Handler

\* No unfinished task is left where no sweep looks for it: scheduleQueuedTasks
\* visits queued tasks only and recoverAssignments only tasks with an
\* assignment, so a task holds an assignment exactly while it is in progress.
NoStrandedTask ==
  \A t \in Task : tasks[t].state \in {"assigned", "running"} <=> tasks[t].assignment # 0

Held(w) == {t \in Task : Superseded(tasks[t]) = w}

\* Every current assignment is held by a connected worker, except those that
\* the handler of a closed connection has still to move (websocket_router.ts:72-81).
HeldByConnectedWorker ==
  \A t \in Task :
    tasks[t].assignment # 0 =>
      \/ IsOpen(devices, Superseded(tasks[t]))
      \/ handler.kind = "close" /\ t \in handler.left

\* The counter of a worker is never below what it really holds, through every
\* order of release and occupy in assign, acceptStageResult, acceptStageFailure
\* and task.cancel.  A worker that registers twice has its counter reset.
CountsEveryAssignment ==
  ~Reregisters => \A w \in Worker :
    IsOpen(devices, w) => Cardinality(Held(w)) <= devices[w].active

\* A worker is given a further assignment only within its own
\* maxConcurrentAssignments (client_message_handler.ts:575-578).
NeverOverbooked ==
  [][\A w \in Worker :
       Cardinality(Held(w)') > Cardinality(Held(w)) =>
         Cardinality(Held(w)') <= devices[w].limit]_vars

\* One stage is assigned at most MaxAttempts times, through requeues, relinquishes,
\* disconnections and lapsed leases, so the whole run of a task is bounded.
AttemptsWithinBudget ==
  \A t \in Task :
    /\ tasks[t].tries <= MaxAttempts
    /\ Len(tasks[t].attempts) <= tasks[t].tries + MaxAttempts * tasks[t].completed

\* The pipeline position a number of completed stages amounts to.
Position(n) == ((n - 1) % StageCount) + 1

\* However late or often results arrive, the assignments acknowledged so far are
\* one for each stage run, in pipeline order, and the current one is none of them.
EachStageCountedOnce ==
  \A t \in Task :
    /\ Cardinality(tasks[t].acknowledged) = tasks[t].completed
    /\ tasks[t].assignment \notin tasks[t].acknowledged
    /\ \A i \in tasks[t].acknowledged :
         tasks[t].attempts[i].stage =
           Position(Cardinality({j \in tasks[t].acknowledged : j <= i}))

\* A finished task is never queued, placed or run again, whatever message or sweep
\* comes late.
FinishedIsForGood ==
  [][\A t \in Task :
       tasks[t].state \in Finished =>
         tasks'[t].state \in Finished /\ tasks'[t].attempts = tasks[t].attempts]_vars

\* An attempt lost to a lapsed lease, a disconnection or a relinquish is replaced on
\* another worker when its stage keeps no state (task_scheduler.ts:161-181).
RetryMovesAway ==
  [][\A t \in Task :
       LET old == tasks[t].assignment
           new == tasks'[t].assignment
       IN  (old # 0 /\ new \notin {0, old} /\ old \notin tasks'[t].acknowledged) =>
             \/ tasks[t].attempts[old].stage \in Sticky
             \/ tasks'[t].attempts[new].worker # tasks[t].attempts[old].worker]_vars

\* A run that carries an answer on is only ever placed on the device that holds the
\* answer (docs/tasks_and_stages.md:138).
ContinuationAtItsHolder ==
  \A t \in Task :
    tasks[t].assignment # 0 =>
      LET current == tasks[t].attempts[tasks[t].assignment]
      IN  current.value = "continuation" /\ tasks[t].holder[current.stage] # NoWorker =>
            current.worker = tasks[t].holder[current.stage]

\* A worker is never told to stop the very run the gateway is waiting for.
CurrentIsNotWithdrawn ==
  \A t \in Task : tasks[t].assignment \notin tasks[t].withdrawn

\* When the queue has been walked, a task still in it is one that no worker has room
\* for, or one that waits for the holder of its answer.
NoTaskPassedOver ==
  handler.kind = "schedule" /\ handler.left = {} =>
    \A t \in Queued(tasks) :
      \/ tasks[t].value = "continuation"
      \/ FindWorkers(devices, NextStage(tasks[t]), {}) = {}

-----------------------------------------------------------------------------
(* Refinement: a task is open from its submission to its end, and its        *)
(* assignments, retries and waits are steps the consumer does not see.       *)

PhaseOf(task) == IF Unfinished(task) THEN "open" ELSE task.state

Lifecycle == INSTANCE TaskLifecycle WITH
  phase  <- [t \in Task |-> PhaseOf(tasks[t])],
  stages <- [t \in Task |-> tasks[t].completed]

\* Seen from its consumer, every task goes through the life that TaskLifecycle promises:
\* no stage is skipped, counted twice or counted after the end, and a task completes at
\* the end of its pipeline or of a whole round of it (task_store.ts:357-368).
ImplementsLifecycle == Lifecycle!Spec

-----------------------------------------------------------------------------
(* An inductive invariant: what the proofs of the properties above rest on.  *)

\* What holds of a stored record between two updates of one handler.
RecordOK(task) ==
  /\ task \in TaskRecord
  /\ task.assignment \in 0..Len(task.attempts)
  /\ task.withdrawn \subseteq 1..Len(task.attempts)
  /\ task.acknowledged \subseteq 1..Len(task.attempts)
  /\ task.assignment \notin task.withdrawn \cup task.acknowledged
  /\ task.tries <= MaxAttempts
  /\ Len(task.attempts) <= task.tries + MaxAttempts * task.completed
  /\ task.assignment # 0 =>
       ~Misplaced(task, task.attempts[task.assignment].value,
                  task.attempts[task.assignment].stage, task.attempts[task.assignment].worker)

InProgress(task) == task.state \in {"assigned", "running"}

\* What a walk still has to visit is what it was started for.
WalkOK ==
  \A t \in handler.left :
    /\ handler.kind = "schedule" => tasks[t].state = "queued"
    /\ handler.kind \in {"leases", "close"} => tasks[t].assignment # 0

IndInv ==
  /\ \A t \in Task :
       /\ RecordOK(tasks[t])
       /\ InProgress(tasks[t]) <=> tasks[t].assignment # 0
  /\ tasks \in [Task -> TaskRecord]
  /\ devices \in [Worker -> Device]
  /\ handler \in Handler
  /\ WalkOK
  /\ HeldByConnectedWorker

-----------------------------------------------------------------------------
(* What documents and comments of the repository say, and the code does not do *)

\* docs/protocol_by_role.md:348 and device_types.ts:36: the counter of a worker moves
\* up when a stage is assigned and down again, so a worker that holds nothing counts
\* nothing.
CounterReturnsToZero ==
  \A w \in Worker :
    handler = Idle /\ IsOpen(devices, w) /\ Held(w) = {} => devices[w].active = 0
=============================================================================
