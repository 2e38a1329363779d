------------------------ MODULE TaskScheduling_proofs ------------------------
(***************************************************************************)
(* Proofs about TaskScheduling, for every set of tasks and workers, every  *)
(* pipeline and every limit.  IndInv is inductive; the invariants the runs *)
(* check follow from it.                                                   *)
(*                                                                         *)
(* Every step replaces the record of at most one task, and does so through *)
(* `assign` in all the interesting cases.  So the work is in the lemmas    *)
(* about `Assign`: from a sound record it makes a sound record, whichever  *)
(* of its branches is taken.                                               *)
(*                                                                         *)
(* Four parts: the records and IndInv; the effects a step may have on a    *)
(* record, and the stages they count; the counters of the workers and the  *)
(* queue; and the refinement of TaskLifecycle.                             *)
(***************************************************************************)
EXTENDS TaskScheduling, FiniteSetTheorems, TLAPS

-----------------------------------------------------------------------------
(* Records *)

\* A record whose assignment is taken away stays sound (task_store.ts:190-209).
LEMMA UnassignedSound ==
  ASSUME NEW task, RecordOK(task), NEW st \in State
  PROVE  /\ RecordOK(Unassigned(task, st))
         /\ Unassigned(task, st).assignment = 0
         /\ Unassigned(task, st).state = st
<1>1. task \in TaskRecord /\ 0 \in 0..Len(task.attempts)
  BY DEF RecordOK, TaskRecord
<1>2. Unassigned(task, st) \in TaskRecord
  BY <1>1 DEF Unassigned, TaskRecord
<1>3. 0 \notin task.withdrawn \cup task.acknowledged
  BY DEF RecordOK
<1> QED
  BY <1>1, <1>2, <1>3 DEF Unassigned, RecordOK, TaskRecord

\* The record of a newly submitted task is sound (task_store.ts:47-71).
LEMMA NewTaskSound ==
  ASSUME ConstantsAssumption
  PROVE  RecordOK(NewTask) /\ NewTask.assignment = 0 /\ NewTask.state = "absent"
<1>1. NewTask \in TaskRecord
  BY DEF NewTask, TaskRecord, State, Value, Attempt
<1>2. MaxAttempts * 0 = 0
  BY DEF ConstantsAssumption
<1> QED
  BY <1>1, <1>2 DEF NewTask, RecordOK, ConstantsAssumption

\* A finished stage gives its budget back without unbalancing the record
\* (task_store.ts:229-246).
LEMMA AddStageSound ==
  ASSUME ConstantsAssumption,
         NEW task, RecordOK(task), task.assignment # 0,
         NEW w \in Worker, NEW v \in Value
  PROVE  /\ RecordOK(AddStage(task, task.assignment, w, v))
         /\ AddStage(task, task.assignment, w, v).assignment = 0
<1> DEFINE i == task.assignment
           plain == Unassigned(task, "running")
           new == AddStage(task, i, w, v)
<1>1. /\ task \in TaskRecord
      /\ i \in 1..Len(task.attempts)
      /\ task.attempts[i] \in Attempt
  BY DEF RecordOK, TaskRecord
<1>2. task.attempts[i].stage \in Stage
  BY <1>1 DEF Attempt
<1>3. /\ plain \in TaskRecord
      /\ plain.attempts = task.attempts /\ plain.assignment = 0
      /\ plain.withdrawn = task.withdrawn
      /\ plain.acknowledged = task.acknowledged
      /\ plain.completed = task.completed
  BY <1>1 DEF Unassigned, TaskRecord, State
<1>4. /\ new \in TaskRecord
      /\ new.attempts = task.attempts /\ new.assignment = 0 /\ new.tries = 0
      /\ new.withdrawn = task.withdrawn
      /\ new.acknowledged = task.acknowledged \cup {i}
      /\ new.completed = task.completed + 1
  <2> HIDE DEF plain
  <2>1. new = [plain EXCEPT !.completed = @ + 1, !.value = v, !.tries = 0,
                            !.holder = [@ EXCEPT ![task.attempts[i].stage] = w],
                            !.acknowledged = @ \cup {i}]
    BY <1>3 DEF AddStage, plain, TaskRecord
  <2>2. [plain.holder EXCEPT ![task.attempts[i].stage] = w] \in [Stage -> Worker \cup {NoWorker}]
    BY <1>2, <1>3 DEF TaskRecord
  <2>3. plain.acknowledged \cup {i} \in SUBSET Nat /\ plain.completed + 1 \in Nat
    BY <1>1, <1>3 DEF TaskRecord
  <2>4. new \in TaskRecord
    <3> HIDE DEF new
    <3> QED  BY <1>3, <2>1, <2>2, <2>3 DEF TaskRecord
  <2>5. /\ new.attempts = task.attempts /\ new.assignment = 0 /\ new.tries = 0
        /\ new.withdrawn = task.withdrawn
        /\ new.acknowledged = task.acknowledged \cup {i}
        /\ new.completed = task.completed + 1
    <3> HIDE DEF new
    <3> QED  BY <1>3, <2>1 DEF TaskRecord
  <2> QED
    BY <2>4, <2>5
<1>5. Len(task.attempts) <= MaxAttempts * (task.completed + 1)
  <2>1. MaxAttempts \in Nat /\ task.completed \in Nat /\ task.tries \in Nat
        /\ Len(task.attempts) \in Nat
    BY <1>1 DEF TaskRecord, ConstantsAssumption
  <2>2. MaxAttempts * (task.completed + 1) = MaxAttempts * task.completed + MaxAttempts
    BY <2>1
  <2>3. MaxAttempts * task.completed \in Nat
    BY <2>1
  <2> QED
    BY <2>1, <2>2, <2>3, SMTT(20) DEF RecordOK
<1> HIDE DEF new
<1>6. RecordOK(new)
  <2>1. 0 \in 0..Len(task.attempts) /\ 0 \notin task.withdrawn \cup task.acknowledged \cup {i}
    BY <1>1 DEF RecordOK, TaskRecord
  <2>2. 0 <= MaxAttempts /\ Len(task.attempts) <= 0 + MaxAttempts * (task.completed + 1)
    <3>1. MaxAttempts * (task.completed + 1) \in Int
      BY <1>1 DEF TaskRecord, ConstantsAssumption
    <3> QED  BY <1>5, <3>1 DEF ConstantsAssumption
  <2>3. task.withdrawn \subseteq 1..Len(task.attempts)
        /\ task.acknowledged \cup {i} \subseteq 1..Len(task.attempts)
    BY <1>1 DEF RecordOK
  <2> QED
    BY <1>4, <2>1, <2>2, <2>3 DEF RecordOK
<1> QED
  BY <1>4, <1>6 DEF new, i
\* A stage assigned within its budget to a worker it may go to leaves a sound
\* record (task_store.ts:92-111).
LEMMA PlacedSound ==
  ASSUME ConstantsAssumption,
         NEW task, RecordOK(task), task.tries < MaxAttempts,
         NEW devs, NEW value \in Value, NEW stage \in Stage, NEW w \in Worker,
         ~Misplaced(task, value, stage, w)
  PROVE  LET new == Placed(task, devs, value, stage, w)
         IN  /\ RecordOK(new)
             /\ new.state = "assigned"
             /\ new.assignment # 0
             /\ new.attempts[new.assignment].worker = w
<1> DEFINE n == Len(task.attempts)
           attempt == [worker |-> w, stage |-> stage, value |-> value]
           longer == Append(task.attempts, attempt)
           gone == task.withdrawn \cup Withdrawals(task, devs, w)
           new == Placed(task, devs, value, stage, w)
<1>1. /\ task \in TaskRecord
      /\ task.attempts \in Seq(Attempt) /\ n \in Nat
      /\ task.tries \in Nat /\ task.completed \in Nat
      /\ attempt \in Attempt
  BY DEF RecordOK, TaskRecord, Attempt
<1>2. /\ longer \in Seq(Attempt) /\ Len(longer) = n + 1
      /\ longer[n + 1] = attempt
      /\ \A j \in 1..n : longer[j] = task.attempts[j]
  BY <1>1
<1>3. gone \subseteq 1..n /\ gone \in SUBSET Nat
  BY <1>1 DEF RecordOK, Withdrawals, Superseded
<1>4. /\ new \in TaskRecord
      /\ new.attempts = longer /\ new.assignment = n + 1 /\ new.tries = task.tries + 1
      /\ new.withdrawn = gone /\ new.acknowledged = task.acknowledged
      /\ new.completed = task.completed /\ new.holder = task.holder
      /\ new.state = "assigned"
  <2> HIDE DEF n, attempt, longer, gone
  <2>1. new = [task EXCEPT !.state = "assigned", !.attempts = longer, !.assignment = n + 1,
                           !.tries = @ + 1, !.withdrawn = gone, !.expired = FALSE,
                           !.renewals = 0]
    BY <1>1 DEF Placed, n, attempt, longer, gone, TaskRecord
  <2> HIDE DEF new
  <2>2. new \in TaskRecord
    <3>1. task.tries + 1 \in Nat /\ n + 1 \in Nat /\ "assigned" \in State /\ FALSE \in BOOLEAN
      BY <1>1 DEF State
    <3> QED  BY <1>1, <1>2, <1>3, <2>1, <3>1 DEF TaskRecord
  <2>3. /\ new.attempts = longer /\ new.assignment = n + 1 /\ new.tries = task.tries + 1
        /\ new.withdrawn = gone /\ new.acknowledged = task.acknowledged
        /\ new.completed = task.completed /\ new.holder = task.holder
        /\ new.state = "assigned"
    BY <1>1, <2>1 DEF TaskRecord
  <2> QED
    BY <2>2, <2>3
<1> HIDE DEF new, longer, gone
<1>5. ~Misplaced(new, new.attempts[new.assignment].value,
                 new.attempts[new.assignment].stage, new.attempts[new.assignment].worker)
  BY <1>1, <1>2, <1>4 DEF Misplaced, attempt
<1>6. new.tries <= MaxAttempts /\ n + 1 <= new.tries + MaxAttempts * new.completed
  <2>1. MaxAttempts * task.completed \in Int
    BY <1>1 DEF ConstantsAssumption
  <2> QED
    BY <1>1, <1>4, <2>1, SMTT(20) DEF RecordOK, ConstantsAssumption
<1>7. /\ new.assignment \in 0..Len(new.attempts)
      /\ new.withdrawn \subseteq 1..Len(new.attempts)
      /\ new.acknowledged \subseteq 1..Len(new.attempts)
      /\ new.assignment \notin new.withdrawn \cup new.acknowledged
  BY <1>1, <1>2, <1>3, <1>4, SMTT(20) DEF RecordOK
<1>8. RecordOK(new)
  BY <1>2, <1>4, <1>5, <1>6, <1>7 DEF RecordOK
<1>9. new.assignment # 0 /\ new.attempts[new.assignment].worker = w
  BY <1>1, <1>2, <1>4
<1> QED
  BY <1>4, <1>8, <1>9 DEF new

\* Two records that agree on everything to do with assignments.
SameAssignment(new, old) ==
  /\ new.attempts = old.attempts /\ new.assignment = old.assignment
  /\ new.withdrawn = old.withdrawn /\ new.acknowledged = old.acknowledged
  /\ new.tries = old.tries /\ new.completed = old.completed /\ new.holder = old.holder

\* A change of the state or of a deadline alone leaves a sound record.
LEMMA SameAssignmentSound ==
  ASSUME NEW old, RecordOK(old), NEW new \in TaskRecord, SameAssignment(new, old)
  PROVE  RecordOK(new)
BY DEF RecordOK, SameAssignment, Misplaced

\* A further stage.cancel for an assignment that is not the current one.
LEMMA WithdrawnSound ==
  ASSUME NEW task, RecordOK(task), NEW told \in SUBSET (1..Len(task.attempts)),
         task.assignment \notin told
  PROVE  LET new == [task EXCEPT !.withdrawn = @ \cup told]
         IN  /\ RecordOK(new)
             /\ new.state = task.state /\ new.assignment = task.assignment
             /\ new.attempts = task.attempts
<1> DEFINE new == [task EXCEPT !.withdrawn = @ \cup told]
<1>1. task \in TaskRecord /\ Len(task.attempts) \in Nat
  BY DEF RecordOK, TaskRecord
<1>2. task.withdrawn \cup told \in SUBSET Nat
  <2>1. task.withdrawn \subseteq 1..Len(task.attempts) /\ told \subseteq 1..Len(task.attempts)
    BY DEF RecordOK
  <2>2. 1..Len(task.attempts) \subseteq Nat
    BY <1>1
  <2> HIDE DEF new
  <2> QED  BY <2>1, <2>2
<1>3. /\ new \in TaskRecord /\ new.withdrawn = task.withdrawn \cup told
      /\ new.state = task.state /\ new.assignment = task.assignment
      /\ new.attempts = task.attempts /\ new.acknowledged = task.acknowledged
      /\ new.tries = task.tries /\ new.completed = task.completed /\ new.holder = task.holder
  BY <1>1, <1>2 DEF TaskRecord
<1> HIDE DEF new
<1>4. RecordOK(new)
  BY <1>3 DEF RecordOK, Misplaced
<1> QED
  BY <1>3, <1>4 DEF new

-----------------------------------------------------------------------------
(* The registry *)

\* Counting an assignment changes nothing else about a device
\* (device_announcer.ts:80-95).
LEMMA ReleaseTyped ==
  ASSUME NEW devs \in [Worker -> Device], NEW w \in Worker
  PROVE  /\ Release(devs, w) \in [Worker -> Device]
         /\ \A u \in Worker : Release(devs, w)[u].connection = devs[u].connection
<1>1. CASE IsOpen(devs, w) /\ devs[w].active > 0
  <2>1. devs[w] \in Device /\ devs[w].active - 1 \in Nat
    BY <1>1 DEF Device
  <2>2. [devs[w] EXCEPT !.active = @ - 1] \in Device
    BY <2>1 DEF Device
  <2>3. Release(devs, w) = [devs EXCEPT ![w] = [devs[w] EXCEPT !.active = @ - 1]]
    BY <1>1 DEF Release
  <2> QED
    BY <2>1, <2>2, <2>3 DEF Device
<1>2. CASE ~(IsOpen(devs, w) /\ devs[w].active > 0)
  BY <1>2 DEF Release
<1> QED
  BY <1>1, <1>2

(* Counting an assignment at a worker keeps the registry typed and opens or closes no connection. *)
LEMMA OccupyTyped ==
  ASSUME NEW devs \in [Worker -> Device], NEW w \in Worker
  PROVE  /\ Occupy(devs, w) \in [Worker -> Device]
         /\ \A u \in Worker : Occupy(devs, w)[u].connection = devs[u].connection
<1>1. devs[w] \in Device /\ devs[w].active + 1 \in Nat
  BY DEF Device
<1>2. [devs[w] EXCEPT !.active = @ + 1] \in Device
  BY <1>1 DEF Device
<1>3. Occupy(devs, w) = [devs EXCEPT ![w] = [devs[w] EXCEPT !.active = @ + 1]]
  BY DEF Occupy
<1> QED
  BY <1>1, <1>2, <1>3 DEF Device

\* Every worker `assign` may choose is connected (device_registry.ts:97-106,
\* worker_placement.ts:76-86).
LEMMA CandidatesOpen ==
  ASSUME NEW devs, NEW stage, NEW options, NEW w \in Candidates(devs, stage, options)
  PROVE  w \in Worker /\ IsOpen(devs, w)
<1>1. \A u : Reusable(devs, u, stage, options.released) => IsOpen(devs, u)
  BY DEF Reusable, Offering
<1>2. \A excluded : \A u \in FindWorkers(devs, stage, excluded) : u \in Worker /\ IsOpen(devs, u)
  BY DEF FindWorkers, Offering
<1> QED
  BY <1>1, <1>2 DEF Candidates

\* The next stage of an unfinished pipeline is one of its stages
\* (task_store.ts:357-368).
LEMMA NextStageTyped ==
  ASSUME ConstantsAssumption, NEW task \in TaskRecord
  PROVE  NextStage(task) \in Stage \cup {0}
<1>1. task.completed \in Nat /\ StageCount \in Nat \ {0}
  BY DEF ConstantsAssumption, TaskRecord
<1>2. task.completed % StageCount \in 0..(StageCount - 1)
  BY <1>1
<1> QED
  BY <1>1, <1>2 DEF NextStage, Stage

-----------------------------------------------------------------------------
(* assign *)

\* Whichever way `assign` ends (task_scheduler.ts:67-138), it replaces the record of
\* its task by a sound one that is in progress exactly when it has an assignment,
\* and an assignment it gives is one of a connected worker.
LEMMA AssignSound ==
  ASSUME ConstantsAssumption,
         NEW t \in Task, NEW task, RecordOK(task),
         NEW devs \in [Worker -> Device],
         NEW value \in Value, NEW stage \in Stage, NEW options,
         Assign(t, task, devs, value, stage, options)
  PROVE  /\ \E r : /\ tasks' = [tasks EXCEPT ![t] = r]
                   /\ RecordOK(r)
                   /\ InProgress(r) <=> r.assignment # 0
                   /\ r.assignment # 0 => /\ Superseded(r) \in Worker
                                          /\ IsOpen(devs, Superseded(r))
         /\ devices' \in [Worker -> Device]
         /\ \A w \in Worker : devices'[w].connection = devs[w].connection
<1> DEFINE Good(r) == /\ RecordOK(r)
                      /\ InProgress(r) <=> r.assignment # 0
                      /\ r.assignment # 0 => /\ Superseded(r) \in Worker
                                             /\ IsOpen(devs, Superseded(r))
<1>1. \A st \in {"queued", "failed"} : Good(Unassigned(task, st))
  <2> SUFFICES ASSUME NEW st \in {"queued", "failed"}
               PROVE  Good(Unassigned(task, st))
    OBVIOUS
  <2>1. st \in State
    BY DEF State, Finished
  <2>2. /\ RecordOK(Unassigned(task, st))
        /\ Unassigned(task, st).assignment = 0
        /\ Unassigned(task, st).state = st
    BY <2>1, UnassignedSound
  <2> QED
    BY <2>2 DEF InProgress
<1>2. CASE Exhaust(t, task, devs)
  <2>1. Good(Unassigned(task, "failed"))
    BY <1>1
  <2> HIDE DEF Good
  <2>2. \E r : tasks' = [tasks EXCEPT ![t] = r] /\ Good(r)
    BY <1>2, <2>1 DEF Exhaust
  <2> QED
    BY <1>2, <2>2 DEF Exhaust, Good
<1>3. CASE Requeue(t, task, devs)
  <2>1. Good(Unassigned(task, "queued"))
    BY <1>1
  <2> HIDE DEF Good
  <2>2. \E r : tasks' = [tasks EXCEPT ![t] = r] /\ Good(r)
    BY <1>3, <2>1 DEF Requeue
  <2> QED
    BY <1>3, <2>2 DEF Requeue, Good
<1>4. ASSUME NEW w \in Candidates(devs, stage, options),
             task.tries < MaxAttempts, ~Misplaced(task, value, stage, w),
             Place(t, task, devs, value, stage, w)
      PROVE  /\ \E r : tasks' = [tasks EXCEPT ![t] = r] /\ Good(r)
             /\ devices' \in [Worker -> Device]
             /\ \A u \in Worker : devices'[u].connection = devs[u].connection
  <2> DEFINE new == Placed(task, devs, value, stage, w)
             old == Superseded(task)
             freed == IF old = NoWorker THEN devs ELSE Release(devs, old)
  <2>1. w \in Worker /\ IsOpen(devs, w)
    BY CandidatesOpen
  <2>2. /\ RecordOK(new)
        /\ new.state = "assigned"
        /\ new.assignment # 0
        /\ new.attempts[new.assignment].worker = w
    BY <1>4, <2>1, PlacedSound
  <2>3. Good(new)
    <3> HIDE DEF new
    <3> QED  BY <2>1, <2>2 DEF InProgress, Superseded
  <2>4. old # NoWorker => old \in Worker
    <3>1. task.assignment # 0 => task.attempts[task.assignment] \in Attempt
      BY DEF RecordOK, TaskRecord
    <3> QED  BY <3>1 DEF Superseded, Attempt
  <2>5. /\ freed \in [Worker -> Device]
        /\ \A u \in Worker : freed[u].connection = devs[u].connection
    BY <2>4, ReleaseTyped
  <2> HIDE DEF freed
  <2>6. /\ Occupy(freed, w) \in [Worker -> Device]
        /\ \A u \in Worker : Occupy(freed, w)[u].connection = freed[u].connection
    BY <2>1, <2>5, OccupyTyped
  <2>7. devices' = Occupy(freed, w) /\ tasks' = [tasks EXCEPT ![t] = new]
    BY <1>4 DEF Place, freed
  <2> HIDE DEF new, Good
  <2> QED
    BY <2>3, <2>5, <2>6, <2>7
<1>5. \/ Exhaust(t, task, devs)
      \/ Requeue(t, task, devs)
      \/ \E w \in Candidates(devs, stage, options) :
            /\ task.tries < MaxAttempts /\ ~Misplaced(task, value, stage, w)
            /\ Place(t, task, devs, value, stage, w)
  BY DEF Assign
<1> QED
  BY <1>2, <1>3, <1>4, <1>5

-----------------------------------------------------------------------------
(* IndInv is inductive *)

(* The inductive invariant holds when the gateway starts. *)
LEMMA InitInv ==
  ASSUME ConstantsAssumption, Init
  PROVE  IndInv
<1>1. \A t \in Task : tasks[t] = NewTask
  BY DEF Init
<1>2. RecordOK(NewTask) /\ NewTask.assignment = 0 /\ NewTask.state = "absent"
  BY NewTaskSound
<1>3. tasks \in [Task -> TaskRecord]
  BY <1>2 DEF Init, RecordOK
<1>4. devices \in [Worker -> Device]
  BY DEF Init, Unregistered, Device
<1>5. handler \in Handler /\ handler.left = {}
  BY DEF Init, Handler, Idle
<1> QED
  BY <1>1, <1>2, <1>3, <1>4, <1>5 DEF IndInv, InProgress, WalkOK, HeldByConnectedWorker

\* What a sound record says of a current assignment: worker, stage and value are
\* those of an attempt of the task.
LEMMA CurrentTyped ==
  ASSUME NEW task, RecordOK(task), task.assignment # 0
  PROVE  /\ task.assignment \in 1..Len(task.attempts)
         /\ task.attempts[task.assignment] \in Attempt
         /\ task.attempts[task.assignment].worker \in Worker
         /\ task.attempts[task.assignment].stage \in Stage
         /\ task.attempts[task.assignment].value \in Value
         /\ Superseded(task) = task.attempts[task.assignment].worker
<1>1. task.assignment \in 1..Len(task.attempts) /\ task.attempts \in Seq(Attempt)
  BY DEF RecordOK, TaskRecord
<1>2. task.attempts[task.assignment] \in Attempt
  BY <1>1
<1> QED
  BY <1>1, <1>2 DEF Attempt, Superseded

\* A step that gives one task a sound record, leaves every connection open that was,
\* and takes the task off the walk it is on, keeps the invariant.
LEMMA ReplaceRecord ==
  ASSUME IndInv,
         NEW t \in Task, NEW r,
         tasks' = [tasks EXCEPT ![t] = r],
         RecordOK(r),
         InProgress(r) <=> r.assignment # 0,
         r.assignment # 0 => \/ IsOpen(devices, Superseded(r))
                             \/ handler'.kind = "close" /\ t \in handler'.left,
         devices' \in [Worker -> Device],
         \A w \in Worker : devices'[w].connection = devices[w].connection,
         handler' \in Handler, handler'.kind = handler.kind,
         handler'.left \in {handler.left, handler.left \ {t}},
         t \in handler'.left => r.state = tasks[t].state /\ r.assignment = tasks[t].assignment
  PROVE  IndInv'
<1>1. /\ tasks \in [Task -> TaskRecord] /\ r \in TaskRecord
      /\ tasks'[t] = r
      /\ \A u \in Task : u # t => tasks'[u] = tasks[u]
  BY DEF IndInv, RecordOK
<1>2. tasks' \in [Task -> TaskRecord]
  BY <1>1
<1>3. \A u \in Task : RecordOK(tasks'[u]) /\ (InProgress(tasks'[u]) <=> tasks'[u].assignment # 0)
  BY <1>1 DEF IndInv
<1>4. WalkOK'
  <2> SUFFICES ASSUME NEW u \in handler'.left
               PROVE  /\ handler'.kind = "schedule" => tasks'[u].state = "queued"
                      /\ handler'.kind \in {"leases", "close"} => tasks'[u].assignment # 0
    BY DEF WalkOK
  <2>1. u \in handler.left /\ u \in Task
    BY DEF Handler
  <2>2. tasks'[u].state = tasks[u].state /\ tasks'[u].assignment = tasks[u].assignment
    BY <1>1, <2>1
  <2> QED
    BY <2>1, <2>2 DEF IndInv, WalkOK
<1>5. HeldByConnectedWorker'
  <2> SUFFICES ASSUME NEW u \in Task, tasks'[u].assignment # 0
               PROVE  \/ IsOpen(devices', Superseded(tasks'[u]))
                      \/ handler'.kind = "close" /\ u \in handler'.left
    BY DEF HeldByConnectedWorker
  <2>1. CASE u = t
    <3>1. Superseded(r) \in Worker
      BY <1>1, <2>1, CurrentTyped
    <3> QED
      BY <1>1, <2>1, <3>1 DEF IsOpen
  <2>2. CASE u # t
    <3>1. tasks'[u] = tasks[u] /\ RecordOK(tasks[u])
      BY <1>1, <2>2 DEF IndInv
    <3>2. Superseded(tasks[u]) \in Worker
      BY <3>1, CurrentTyped
    <3>3. \/ IsOpen(devices, Superseded(tasks[u]))
          \/ handler.kind = "close" /\ u \in handler.left
      BY <3>1 DEF IndInv, HeldByConnectedWorker
    <3> QED
      BY <2>2, <3>1, <3>2, <3>3 DEF IsOpen
  <2> QED
    BY <2>1, <2>2
<1> QED
  BY <1>2, <1>3, <1>4, <1>5 DEF IndInv

\* `assign` keeps the invariant wherever it is called from.
LEMMA AssignKeepsInv ==
  ASSUME ConstantsAssumption, IndInv,
         NEW t \in Task, NEW task, RecordOK(task),
         NEW devs \in [Worker -> Device],
         \A w \in Worker : devs[w].connection = devices[w].connection,
         NEW value \in Value, NEW stage \in Stage, NEW options,
         Assign(t, task, devs, value, stage, options),
         handler' = Stepped(t) \/ (handler' = handler /\ handler = Idle)
  PROVE  IndInv'
<1>1. PICK r : /\ tasks' = [tasks EXCEPT ![t] = r]
               /\ RecordOK(r)
               /\ InProgress(r) <=> r.assignment # 0
               /\ r.assignment # 0 => /\ Superseded(r) \in Worker
                                      /\ IsOpen(devs, Superseded(r))
  BY AssignSound
<1>2. /\ devices' \in [Worker -> Device]
      /\ \A w \in Worker : devices'[w].connection = devs[w].connection
  BY AssignSound
<1>3. r.assignment # 0 => IsOpen(devices, Superseded(r))
  BY <1>1 DEF IsOpen
<1>4. \A w \in Worker : devices'[w].connection = devices[w].connection
  BY <1>2
<1>5. /\ handler' \in Handler /\ handler'.kind = handler.kind
      /\ handler'.left \in {handler.left, handler.left \ {t}}
      /\ t \notin handler'.left
  BY DEF IndInv, Handler, Idle, Stepped
<1> QED
  BY <1>1, <1>2, <1>3, <1>4, <1>5, ReplaceRecord

\* A step of a walk or of a message handler that assigns the current stage again.
LEMMA RetryKeepsInv ==
  ASSUME ConstantsAssumption, IndInv,
         NEW t \in Task, tasks[t].assignment # 0, NEW excluded, NEW preferred,
         Retry(t, excluded, preferred),
         handler' = Stepped(t) \/ (handler' = handler /\ handler = Idle)
  PROVE  IndInv'
<1>1. RecordOK(tasks[t]) /\ devices \in [Worker -> Device]
  BY DEF IndInv
<1>2. /\ tasks[t].attempts[tasks[t].assignment].value \in Value
      /\ tasks[t].attempts[tasks[t].assignment].stage \in Stage
  BY <1>1, CurrentTyped
<1> QED
  BY <1>1, <1>2, AssignKeepsInv DEF Retry

\* A step that changes no record keeps the invariant when the walk it starts or ends
\* is for tasks of the right kind, and the connections it closes are walked over.
LEMMA SameTasks ==
  ASSUME IndInv, UNCHANGED tasks,
         devices' \in [Worker -> Device],
         handler' \in Handler,
         \A t \in handler'.left :
           /\ handler'.kind = "schedule" => tasks[t].state = "queued"
           /\ handler'.kind \in {"leases", "close"} => tasks[t].assignment # 0,
         \A t \in Task : tasks[t].assignment # 0 =>
           \/ IsOpen(devices', Superseded(tasks[t]))
           \/ handler'.kind = "close" /\ t \in handler'.left
  PROVE  IndInv'
<1>1. WalkOK' /\ HeldByConnectedWorker'
  BY DEF WalkOK, HeldByConnectedWorker
<1> QED
  BY <1>1 DEF IndInv

\* Outside the walk of a closed connection every current assignment is one of a
\* connected worker.
LEMMA HeldWhenOpen ==
  ASSUME IndInv, NEW t \in Task, tasks[t].assignment # 0,
         ~(handler.kind = "close" /\ t \in handler.left)
  PROVE  Superseded(tasks[t]) \in Worker /\ IsOpen(devices, Superseded(tasks[t]))
<1>1. RecordOK(tasks[t])
  BY DEF IndInv
<1> QED
  BY <1>1, CurrentTyped DEF IndInv, HeldByConnectedWorker

-----------------------------------------------------------------------------
(* One lemma per group of actions *)

(* One task of a sweep, whatever the sweep, keeps the inductive invariant. *)
LEMMA WalkStepKeepsInv ==
  ASSUME ConstantsAssumption, IndInv, WalkStep
  PROVE  IndInv'
<1>1. ASSUME NEW t \in Task, ScheduleTask(t)
      PROVE  IndInv'
  <2> DEFINE task == tasks[t]
             failed == [task EXCEPT !.state = "failed"]
  <2>1. /\ RecordOK(task) /\ task \in TaskRecord
        /\ task.state = "queued" /\ task.assignment = 0
        /\ devices \in [Worker -> Device]
        /\ tasks \in [Task -> TaskRecord]
        /\ handler' = Stepped(t)
    BY <1>1 DEF IndInv, ScheduleTask, WalkOK, InProgress, RecordOK
  <2>2. /\ handler' \in Handler /\ handler'.kind = handler.kind /\ handler'.kind = "schedule"
        /\ handler'.left = handler.left \ {t}
    BY <1>1, <2>1 DEF IndInv, Handler, Stepped, ScheduleTask
  <2>3. CASE task.overdue
    <3>1. tasks' = [tasks EXCEPT ![t] = failed] /\ devices' = devices
      BY <1>1, <2>1, <2>3 DEF ScheduleTask
    <3>2. /\ failed \in TaskRecord /\ SameAssignment(failed, task)
          /\ failed.state = "failed"
      BY <2>1 DEF TaskRecord, State, Finished, SameAssignment
    <3> HIDE DEF failed
    <3>3. RecordOK(failed) /\ failed.assignment = 0
      BY <2>1, <3>2, SameAssignmentSound DEF SameAssignment
    <3> QED
      BY <2>1, <2>2, <3>1, <3>2, <3>3, ReplaceRecord DEF InProgress
  <2>4. CASE ~task.overdue /\ NextStage(task) = 0
    <3>1. UNCHANGED <<tasks, devices>>
      BY <1>1, <2>4 DEF ScheduleTask
    <3> QED
      BY <2>1, <2>2, <3>1, SameTasks DEF IndInv, WalkOK, HeldByConnectedWorker
  <2>5. CASE ~task.overdue /\ NextStage(task) # 0
    <3> DEFINE options == [NewPlacement EXCEPT
                             !.preferred = PreferredWorker(task, NextStage(task), NoWorker),
                             !.released = TRUE]
    <3>1. Assign(t, task, devices, task.value, NextStage(task), options)
      BY <1>1, <2>5 DEF ScheduleTask
    <3>2. NextStage(task) \in Stage /\ task.value \in Value
      BY <2>1, <2>5, NextStageTyped DEF TaskRecord
    <3> HIDE DEF options
    <3> QED
      BY <2>1, <3>1, <3>2, AssignKeepsInv
  <2> QED
    BY <2>3, <2>4, <2>5
<1>2. ASSUME NEW t \in Task, RecoverLease(t) \/ RecoverDisconnected(t)
      PROVE  IndInv'
  <2>1. tasks[t].assignment # 0 /\ handler' = Stepped(t)
    BY <1>2 DEF IndInv, WalkOK, RecoverLease, RecoverDisconnected
  <2>2. \E excluded, preferred : Retry(t, excluded, preferred)
    BY <1>2 DEF RecoverLease, RecoverDisconnected
  <2> QED
    BY <2>1, <2>2, RetryKeepsInv
<1>3. ASSUME EndWalk
      PROVE  IndInv'
  <2>1. UNCHANGED <<tasks, devices>> /\ handler.left = {}
    BY <1>3 DEF EndWalk
  <2>2. handler' \in Handler
    BY <1>3 DEF EndWalk, Handler, Walk, Idle, Queued
  <2>3. /\ handler'.kind \notin {"leases", "close"}
        /\ handler'.kind = "schedule" => \A t \in handler'.left : tasks[t].state = "queued"
    BY <1>3 DEF EndWalk, Walk, Idle, Queued
  <2>4. \A t \in Task : tasks[t].assignment # 0 => IsOpen(devices, Superseded(tasks[t]))
    BY <2>1, HeldWhenOpen
  <2> QED
    BY <2>1, <2>2, <2>3, <2>4, SameTasks DEF IndInv
<1> QED
  BY <1>1, <1>2, <1>3 DEF WalkStep

\* Time, and the messages that only touch the state or the lease.
LEMMA FlagsKeepInv ==
  ASSUME IndInv, NEW t \in Task,
         \/ LeaseRunsOut(t)
         \/ DeadlinePasses(t)
         \/ \E w \in Worker : \E i \in DOMAIN tasks[t].attempts :
              StageAccepted(w, t, i) \/ Heartbeat(w, t, i)
  PROVE  IndInv'
<1> DEFINE task == tasks[t]
<1>1. /\ RecordOK(task) /\ task \in TaskRecord /\ tasks \in [Task -> TaskRecord]
      /\ devices \in [Worker -> Device] /\ handler \in Handler
      /\ InProgress(task) <=> task.assignment # 0
  BY DEF IndInv
<1>2. UNCHANGED <<devices, handler>>
  BY DEF LeaseRunsOut, DeadlinePasses, StageAccepted, Heartbeat
<1>3. \A i \in DOMAIN task.attempts : i # 0
  BY <1>1 DEF TaskRecord
<1>4. PICK r \in TaskRecord :
        /\ tasks' = [tasks EXCEPT ![t] = r]
        /\ SameAssignment(r, task)
        /\ \/ r.state = task.state
           \/ handler = Idle /\ task.assignment # 0 /\ r.state = "running"
  <2>1. CASE LeaseRunsOut(t)
    <3>1. tasks' = [tasks EXCEPT ![t] = [task EXCEPT !.expired = TRUE]]
      BY <2>1 DEF LeaseRunsOut
    <3>2. LET r == [task EXCEPT !.expired = TRUE]
          IN  r \in TaskRecord /\ SameAssignment(r, task) /\ r.state = task.state
      BY <1>1 DEF TaskRecord, SameAssignment
    <3> QED  BY <3>1, <3>2
  <2>2. CASE DeadlinePasses(t)
    <3>1. tasks' = [tasks EXCEPT ![t] = [task EXCEPT !.overdue = TRUE]]
      BY <2>2 DEF DeadlinePasses
    <3>2. LET r == [task EXCEPT !.overdue = TRUE]
          IN  r \in TaskRecord /\ SameAssignment(r, task) /\ r.state = task.state
      BY <1>1 DEF TaskRecord, SameAssignment
    <3> QED  BY <3>1, <3>2
  <2>3. ASSUME NEW w \in Worker, NEW i \in DOMAIN task.attempts, StageAccepted(w, t, i)
        PROVE  \E r \in TaskRecord :
                 /\ tasks' = [tasks EXCEPT ![t] = r]
                 /\ SameAssignment(r, task)
                 /\ handler = Idle /\ task.assignment # 0 /\ r.state = "running"
    <3>1. /\ tasks' = [tasks EXCEPT ![t] = [task EXCEPT !.state = "running"]]
          /\ handler = Idle /\ task.assignment # 0
      BY <1>3, <2>3 DEF StageAccepted, IsCurrent
    <3>2. LET r == [task EXCEPT !.state = "running"]
          IN  r \in TaskRecord /\ SameAssignment(r, task) /\ r.state = "running"
      BY <1>1 DEF TaskRecord, SameAssignment, State
    <3> QED  BY <3>1, <3>2
  <2>4. ASSUME NEW w \in Worker, NEW i \in DOMAIN task.attempts, Heartbeat(w, t, i)
        PROVE  \E r \in TaskRecord :
                 /\ tasks' = [tasks EXCEPT ![t] = r]
                 /\ SameAssignment(r, task) /\ r.state = task.state
    <3> DEFINE r == [task EXCEPT !.expired = FALSE, !.renewals = @ + 1]
    <3>1. tasks' = [tasks EXCEPT ![t] = r]
      BY <1>1, <2>4 DEF Heartbeat
    <3>2. r \in TaskRecord /\ SameAssignment(r, task) /\ r.state = task.state
      <4>1. task.renewals + 1 \in Nat
        BY <1>1 DEF TaskRecord
      <4> QED  BY <1>1, <4>1 DEF TaskRecord, SameAssignment
    <3> QED  BY <3>1, <3>2
  <2> QED
    BY <2>1, <2>2, <2>3, <2>4
<1>5. RecordOK(r) /\ r.assignment = task.assignment /\ Superseded(r) = Superseded(task)
  BY <1>1, <1>4, SameAssignmentSound DEF SameAssignment, Superseded
<1>6. /\ InProgress(r) <=> r.assignment # 0
      /\ t \in handler.left => r.state = task.state
  BY <1>1, <1>4, <1>5 DEF InProgress, Idle
<1>7. r.assignment # 0 =>
        IsOpen(devices, Superseded(r)) \/ (handler.kind = "close" /\ t \in handler.left)
  BY <1>5, HeldWhenOpen
<1> HIDE DEF task
<1> QED
  BY <1>1, <1>2, <1>4, <1>5, <1>6, <1>7, ReplaceRecord DEF task

\* The messages of a consumer: task.submit (client_message_handler.ts:322-375) and
\* task.cancel (400-419).
LEMMA ConsumerKeepsInv ==
  ASSUME ConstantsAssumption, IndInv, NEW t \in Task, Submit(t) \/ Cancel(t)
  PROVE  IndInv'
<1>1. /\ handler = Idle /\ handler' = handler /\ handler.left = {}
      /\ devices \in [Worker -> Device] /\ handler \in Handler
      /\ RecordOK(tasks[t])
  BY DEF IndInv, Submit, Cancel, Idle
<1>2. CASE Submit(t)
  <2> DEFINE created == [NewTask EXCEPT !.state = "queued"]
  <2>1. /\ NewTask \in TaskRecord /\ RecordOK(NewTask) /\ NewTask.completed = 0
    BY NewTaskSound DEF RecordOK, NewTask
  <2>2. /\ created \in TaskRecord /\ SameAssignment(created, NewTask)
        /\ created.completed = 0 /\ created.value \in Value
    BY <2>1 DEF TaskRecord, State, SameAssignment
  <2>3. Assign(t, created, devices, created.value, NextStage(created), NewPlacement)
    BY <1>2 DEF Submit
  <2> HIDE DEF created
  <2>4. RecordOK(created)
    BY <2>1, <2>2, SameAssignmentSound
  <2>5. NextStage(created) \in Stage
    <3>1. 0 % StageCount = 0 /\ StageCount \in Nat \ {0}
      BY DEF ConstantsAssumption
    <3> QED  BY <2>2, <3>1 DEF NextStage, Stage
  <2> QED
    BY <1>1, <2>2, <2>3, <2>4, <2>5, AssignKeepsInv
<1>3. CASE Cancel(t)
  <2> DEFINE task == tasks[t]
             w == Superseded(task)
             told == IF w # NoWorker /\ IsOpen(devices, w) THEN {task.assignment} ELSE {}
             plain == Unassigned(task, "cancelled")
             new == [plain EXCEPT !.withdrawn = @ \cup told]
  <2>1. /\ tasks' = [tasks EXCEPT ![t] = new]
        /\ devices' = IF w = NoWorker THEN devices ELSE Release(devices, w)
    BY <1>3 DEF Cancel
  <2>2. RecordOK(plain) /\ plain.assignment = 0 /\ plain.state = "cancelled"
    BY <1>1, UnassignedSound DEF State, Finished
  <2>3. plain.attempts = task.attempts
    BY <1>1 DEF RecordOK, TaskRecord, Unassigned
  <2>4. told \in SUBSET (1..Len(task.attempts)) /\ 0 \notin told
    BY <1>1, CurrentTyped DEF Superseded
  <2> HIDE DEF told, plain
  <2>5. RecordOK(new) /\ new.assignment = 0 /\ new.state = "cancelled"
    BY <2>2, <2>3, <2>4, WithdrawnSound
  <2>6. w = NoWorker \/ w \in Worker
    BY <1>1, CurrentTyped DEF Superseded
  <2>7. /\ devices' \in [Worker -> Device]
        /\ \A u \in Worker : devices'[u].connection = devices[u].connection
    BY <1>1, <2>1, <2>6, ReleaseTyped
  <2> HIDE DEF new
  <2> QED
    BY <1>1, <2>1, <2>5, <2>7, ReplaceRecord DEF InProgress
<1> QED
  BY <1>2, <1>3

\* The messages of a worker that end an assignment or ask about an old one.
LEMMA EndingKeepsInv ==
  ASSUME ConstantsAssumption, IndInv,
         NEW t \in Task, NEW w \in Worker, NEW i \in DOMAIN tasks[t].attempts,
         \/ StaleHeartbeat(w, t, i)
         \/ Relinquish(w, t, i)
         \/ StageFailed(w, t, i)
         \/ \E v \in Value : StageResult(w, t, i, v)
  PROVE  IndInv'
<1> DEFINE task == tasks[t]
<1>1. /\ handler = Idle /\ handler' = handler /\ handler.left = {}
      /\ devices \in [Worker -> Device] /\ handler \in Handler
      /\ RecordOK(task) /\ task \in TaskRecord
      /\ InProgress(task) <=> task.assignment # 0
      /\ i \in 1..Len(task.attempts)
  <2>1. handler = Idle /\ handler' = handler
    <3>1. CASE StaleHeartbeat(w, t, i)
      BY <3>1 DEF StaleHeartbeat
    <3>2. CASE Relinquish(w, t, i)
      BY <3>2 DEF Relinquish
    <3>3. CASE \E v \in Value : StageResult(w, t, i, v)
      BY <3>3 DEF StageResult
    <3>4. CASE StageFailed(w, t, i)
      BY <3>4 DEF StageFailed
    <3> QED  BY <3>1, <3>2, <3>3, <3>4
  <2>2. /\ devices \in [Worker -> Device] /\ handler \in Handler
        /\ RecordOK(task) /\ task \in TaskRecord
        /\ InProgress(task) <=> task.assignment # 0
    BY DEF IndInv
  <2>3. i \in 1..Len(task.attempts)
    BY DEF WasSent, StaleHeartbeat, Relinquish, StageResult, StageFailed
  <2>4. Idle.left = {}
    BY DEF Idle
  <2> QED
    BY <2>1, <2>2, <2>3, <2>4
<1>2. CASE StaleHeartbeat(w, t, i)
  <2> DEFINE new == [task EXCEPT !.withdrawn = @ \cup {i}]
  <2>1. /\ tasks' = [tasks EXCEPT ![t] = new] /\ devices' = devices
        /\ task.assignment \notin {i}
    BY <1>2 DEF StaleHeartbeat, IsCurrent
  <2>2. {i} \in SUBSET (1..Len(task.attempts))
    BY <1>1
  <2>3. RecordOK(new) /\ new.state = task.state /\ new.assignment = task.assignment
        /\ new.attempts = task.attempts
    BY <1>1, <2>1, <2>2, WithdrawnSound
  <2> HIDE DEF new
  <2>4. new.assignment # 0 => IsOpen(devices, Superseded(new))
    BY <1>1, <2>3, HeldWhenOpen DEF Superseded
  <2> QED
    BY <1>1, <2>1, <2>3, <2>4, ReplaceRecord DEF InProgress
<1>3. CASE Relinquish(w, t, i)
  <2>1. Retry(t, {w}, NoWorker) /\ task.assignment # 0
    BY <1>1, <1>3 DEF Relinquish, IsCurrent
  <2> QED
    BY <1>1, <2>1, RetryKeepsInv
<1>4. ASSUME NEW v \in Value, StageResult(w, t, i, v)
      PROVE  IndInv'
  <2> DEFINE updated == AddStage(task, i, w, v)
             devs == Release(devices, w)
             upcoming == NextStage(updated)
  <2>1. task.assignment = i /\ task.assignment # 0
    BY <1>1, <1>4 DEF StageResult, IsCurrent
  <2>2. RecordOK(updated) /\ updated.assignment = 0 /\ updated \in TaskRecord
    BY <1>1, <2>1, AddStageSound DEF RecordOK
  <2>3. /\ devs \in [Worker -> Device]
        /\ \A u \in Worker : devs[u].connection = devices[u].connection
    BY <1>1, ReleaseTyped
  <2>4. \/ /\ tasks' = [tasks EXCEPT ![t] = [updated EXCEPT !.state = "completed"]]
           /\ devices' = devs
        \/ /\ upcoming # 0
           /\ \E options : Assign(t, updated, devs, v, upcoming, options)
    BY <1>4 DEF StageResult
  <2> HIDE DEF updated, devs
  <2>5. CASE /\ tasks' = [tasks EXCEPT ![t] = [updated EXCEPT !.state = "completed"]]
             /\ devices' = devs
    <3> DEFINE new == [updated EXCEPT !.state = "completed"]
    <3>1. new \in TaskRecord /\ SameAssignment(new, updated) /\ new.state = "completed"
      BY <2>2 DEF TaskRecord, State, Finished, SameAssignment
    <3> HIDE DEF new
    <3>2. RecordOK(new) /\ new.assignment = 0
      BY <2>2, <3>1, SameAssignmentSound DEF SameAssignment
    <3>3. tasks' = [tasks EXCEPT ![t] = new]
      BY <2>5 DEF new
    <3> QED
      BY <1>1, <2>3, <2>5, <3>1, <3>2, <3>3, ReplaceRecord DEF InProgress
  <2>6. ASSUME NEW options, upcoming # 0, Assign(t, updated, devs, v, upcoming, options)
        PROVE  IndInv'
    <3>1. upcoming \in Stage
      BY <2>2, <2>6, NextStageTyped
    <3> HIDE DEF upcoming
    <3> QED
      BY <1>1, <2>2, <2>3, <2>6, <3>1, AssignKeepsInv
  <2> QED
    BY <2>4, <2>5, <2>6
<1>5. CASE StageFailed(w, t, i)
  <2> DEFINE new == Unassigned(task, "failed")
  <2>1. tasks' = [tasks EXCEPT ![t] = new] /\ devices' = Release(devices, w)
    BY <1>5 DEF StageFailed
  <2>2. RecordOK(new) /\ new.assignment = 0 /\ new.state = "failed"
    BY <1>1, UnassignedSound DEF State, Finished
  <2>3. /\ devices' \in [Worker -> Device]
        /\ \A u \in Worker : devices'[u].connection = devices[u].connection
    BY <1>1, <2>1, ReleaseTyped
  <2> HIDE DEF new, task
  <2> QED
    BY <1>1, <2>1, <2>2, <2>3, ReplaceRecord DEF InProgress
<1> QED
  BY <1>2, <1>3, <1>4, <1>5

\* Messages of devices, the end of a connection, and the start of the sweeps.
LEMMA DevicesKeepInv ==
  ASSUME ConstantsAssumption, IndInv,
         \/ RecoveryTimer
         \/ RegisterConsumer
         \/ \E w \in Worker : DeviceMessage(w)
  PROVE  IndInv'
<1>1. /\ devices \in [Worker -> Device] /\ handler \in Handler
      /\ tasks \in [Task -> TaskRecord]
  BY DEF IndInv
<1>2. handler = Idle =>
        \A t \in Task : tasks[t].assignment # 0 =>
          Superseded(tasks[t]) \in Worker /\ IsOpen(devices, Superseded(tasks[t]))
  BY HeldWhenOpen DEF Idle
<1>3. Walk("schedule", Queued(tasks)) \in Handler /\ Idle \in Handler
  BY DEF Walk, Handler, Queued, Idle
<1>4. ASSUME handler = Idle, UNCHANGED tasks,
             devices' \in [Worker -> Device],
             \A w \in Worker : IsOpen(devices, w) => IsOpen(devices', w),
             handler' \in {Idle, Walk("schedule", Queued(tasks))}
      PROVE  IndInv'
  <2>1. \A t \in Task : tasks[t].assignment # 0 => IsOpen(devices', Superseded(tasks[t]))
    BY <1>2, <1>4
  <2>2. handler' \in Handler
    BY <1>3, <1>4
  <2>3. \A t \in handler'.left : /\ handler'.kind = "schedule" => tasks[t].state = "queued"
                                 /\ handler'.kind \notin {"leases", "close"}
    BY <1>4 DEF Walk, Idle, Queued
  <2> QED
    BY <1>4, <2>1, <2>2, <2>3, SameTasks
<1>5. CASE RecoveryTimer
  <2> DEFINE lapsed == {t \in Task : tasks[t].assignment # 0 /\ tasks[t].expired}
  <2>1. handler = Idle /\ handler' = Walk("leases", lapsed) /\ UNCHANGED <<tasks, devices>>
    BY <1>5 DEF RecoveryTimer
  <2>2. /\ handler' \in Handler /\ handler'.kind = "leases"
        /\ \A t \in handler'.left : tasks[t].assignment # 0
    BY <2>1 DEF Walk, Handler
  <2> QED
    BY <1>1, <1>2, <2>1, <2>2, SameTasks
<1>6. CASE RegisterConsumer
  BY <1>1, <1>4, <1>6 DEF RegisterConsumer
<1>7. ASSUME NEW w \in Worker, DeviceMessage(w)
      PROVE  IndInv'
  <2>1. ASSUME NEW ready \in BOOLEAN, NEW limit \in Limits, NEW offers \in Offers,
               Register(w, ready, offers, limit)
        PROVE  IndInv'
    <3> DEFINE dev == [connection |-> "open", ready |-> ready, offers |-> offers,
                       limit |-> limit, active |-> 0]
    <3>1. dev \in Device /\ dev.connection = "open"
      BY DEF Device, ConstantsAssumption
    <3>2. /\ handler = Idle /\ handler' = Walk("schedule", Queued(tasks)) /\ UNCHANGED tasks
          /\ devices' = [devices EXCEPT ![w] = dev]
      BY <2>1 DEF Register
    <3> HIDE DEF dev
    <3>3. devices' \in [Worker -> Device] /\ \A u \in Worker : IsOpen(devices, u) => IsOpen(devices', u)
      BY <1>1, <3>1, <3>2 DEF IsOpen
    <3> QED
      BY <1>4, <3>2, <3>3
  <2>2. ASSUME NEW ready \in BOOLEAN, NEW limit \in Limits, WorkerState(w, ready, limit)
        PROVE  IndInv'
    <3> DEFINE dev == [devices[w] EXCEPT !.ready = ready, !.limit = limit]
    <3>1. dev \in Device /\ dev.connection = devices[w].connection
      <4>1. devices[w] \in Device /\ limit \in Nat
        BY <1>1 DEF ConstantsAssumption
      <4> QED  BY <4>1 DEF Device
    <3>2. handler = Idle /\ UNCHANGED tasks /\ handler' \in {Idle, Walk("schedule", Queued(tasks))}
      BY <2>2 DEF WorkerState
    <3>3. devices' = [devices EXCEPT ![w] = dev]
      BY <1>1, <2>2 DEF WorkerState
    <3> HIDE DEF dev
    <3>4. devices' \in [Worker -> Device] /\ \A u \in Worker : IsOpen(devices, u) => IsOpen(devices', u)
      BY <1>1, <3>1, <3>3 DEF IsOpen
    <3> QED
      BY <1>4, <3>2, <3>4
  <2>3. CASE Disconnect(w)
    <3> DEFINE dev == [Unregistered EXCEPT !.connection = "gone"]
               lost == {t \in Task : Superseded(tasks[t]) = w}
    <3>1. dev \in Device
      BY DEF Unregistered, Device
    <3>2. /\ handler = Idle /\ handler' = Walk("close", lost) /\ UNCHANGED tasks
          /\ devices' = [devices EXCEPT ![w] = dev]
      BY <2>3 DEF Disconnect
    <3> HIDE DEF dev
    <3>3. devices' \in [Worker -> Device] /\ \A u \in Worker : u # w => devices'[u] = devices[u]
      BY <1>1, <3>1, <3>2
    <3>4. handler' \in Handler /\ handler'.kind = "close" /\ handler'.left = lost
      BY <3>2 DEF Walk, Handler
    <3>5. \A t \in lost : tasks[t].assignment # 0
      BY DEF Superseded, ConstantsAssumption
    <3>6. \A t \in Task : tasks[t].assignment # 0 =>
            IsOpen(devices', Superseded(tasks[t])) \/ t \in lost
      BY <1>2, <3>2, <3>3 DEF IsOpen
    <3> QED
      BY <3>2, <3>3, <3>4, <3>5, <3>6, SameTasks
  <2> QED
    BY <1>7, <2>1, <2>2, <2>3 DEF DeviceMessage
<1> QED
  BY <1>5, <1>6, <1>7

(* Every step of the gateway keeps the inductive invariant. *)
LEMMA NextInv ==
  ASSUME ConstantsAssumption, IndInv, [Next]_vars
  PROVE  IndInv'
<1>1. CASE WalkStep
  BY <1>1, WalkStepKeepsInv
<1>2. CASE RecoveryTimer \/ RegisterConsumer \/ \E w \in Worker : DeviceMessage(w)
  BY <1>2, DevicesKeepInv
<1>3. ASSUME NEW t \in Task, Submit(t) \/ Cancel(t)
      PROVE  IndInv'
  BY <1>3, ConsumerKeepsInv
<1>4. ASSUME NEW t \in Task, LeaseRunsOut(t) \/ DeadlinePasses(t)
      PROVE  IndInv'
  BY <1>4, FlagsKeepInv
<1>5. ASSUME NEW t \in Task, NEW w \in Worker, NEW i \in DOMAIN tasks[t].attempts,
             StageMessage(w, t, i)
      PROVE  IndInv'
  BY <1>5, FlagsKeepInv, EndingKeepsInv DEF StageMessage
<1>6. CASE StageCompletes
  BY <1>6, EndingKeepsInv DEF StageCompletes
<1>7. CASE UNCHANGED vars
  <2>1. UNCHANGED tasks /\ UNCHANGED devices /\ UNCHANGED handler
    BY <1>7 DEF vars
  <2> QED
    BY <2>1, SameTasks DEF IndInv, WalkOK, HeldByConnectedWorker
<1> QED
  BY <1>1, <1>2, <1>3, <1>4, <1>5, <1>6, <1>7 DEF Next, OtherStep

-----------------------------------------------------------------------------
(* A finished task stays as it is *)

\* What FinishedIsForGood says of one step.
FinishedStays ==
  \A t \in Task :
    tasks[t].state \in Finished =>
      tasks'[t].state \in Finished /\ tasks'[t].attempts = tasks[t].attempts

\* A task with an assignment, or waiting for one, is not finished.
LEMMA AssignedIsUnfinished ==
  ASSUME IndInv, NEW t \in Task, tasks[t].assignment # 0 \/ tasks[t].state \in {"queued", "absent"}
  PROVE  tasks[t].state \notin Finished
BY DEF IndInv, InProgress, Finished

(* Writing one record that was not finished, or stays as it was, leaves finished tasks finished. *)
LEMMA ReplacedUnfinished ==
  ASSUME IndInv, NEW t \in Task, NEW r, tasks' = [tasks EXCEPT ![t] = r],
         tasks[t].state \in Finished => r.state \in Finished /\ r.attempts = tasks[t].attempts
  PROVE  FinishedStays
<1>1. tasks'[t] = r /\ \A u \in Task : u # t => tasks'[u] = tasks[u]
  BY DEF IndInv
<1> QED
  BY <1>1 DEF FinishedStays

(* assign, called for a task that is not finished, leaves finished tasks finished. *)
LEMMA AssignLeavesFinished ==
  ASSUME IndInv, NEW t \in Task, tasks[t].state \notin Finished,
         NEW task, NEW devs, NEW value, NEW stage, NEW options,
         Assign(t, task, devs, value, stage, options)
  PROVE  FinishedStays
<1>1. \E r : tasks' = [tasks EXCEPT ![t] = r]
  BY DEF Assign, Exhaust, Requeue, Place
<1> QED
  BY <1>1, ReplacedUnfinished

(* So does retry: a task with a current assignment is not finished. *)
LEMMA RetryLeavesFinished ==
  ASSUME IndInv, NEW t \in Task, tasks[t].assignment # 0, NEW excluded, NEW preferred,
         Retry(t, excluded, preferred)
  PROVE  FinishedStays
BY AssignedIsUnfinished, AssignLeavesFinished DEF Retry

(* No step of the gateway changes the state or the attempts of a finished task. *)
LEMMA NextLeavesFinished ==
  ASSUME IndInv, [Next]_vars
  PROVE  FinishedStays
<1>1. UNCHANGED tasks => FinishedStays
  BY DEF FinishedStays
<1>2. CASE WalkStep
  <2>1. ASSUME NEW t \in Task, ScheduleTask(t)
        PROVE  FinishedStays
    <3>1. tasks[t].state \notin Finished
      BY <2>1, AssignedIsUnfinished DEF IndInv, WalkOK, ScheduleTask
    <3>2. CASE tasks[t].overdue
      <4>1. \E r : tasks' = [tasks EXCEPT ![t] = r]
        BY <2>1, <3>2 DEF ScheduleTask
      <4> QED  BY <3>1, <4>1, ReplacedUnfinished
    <3>3. CASE ~tasks[t].overdue /\ NextStage(tasks[t]) = 0
      BY <1>1, <2>1, <3>3 DEF ScheduleTask
    <3>4. CASE ~tasks[t].overdue /\ NextStage(tasks[t]) # 0
      <4>1. \E options : Assign(t, tasks[t], devices, tasks[t].value, NextStage(tasks[t]), options)
        BY <2>1, <3>4 DEF ScheduleTask
      <4> QED  BY <3>1, <4>1, AssignLeavesFinished
    <3> QED
      BY <3>2, <3>3, <3>4
  <2>2. ASSUME NEW t \in Task, RecoverLease(t) \/ RecoverDisconnected(t)
        PROVE  FinishedStays
    <3>1. tasks[t].assignment # 0
      BY <2>2 DEF IndInv, WalkOK, RecoverLease, RecoverDisconnected
    <3>2. \E excluded, preferred : Retry(t, excluded, preferred)
      BY <2>2 DEF RecoverLease, RecoverDisconnected
    <3> QED
      BY <3>1, <3>2, RetryLeavesFinished
  <2>3. EndWalk => UNCHANGED tasks
    BY DEF EndWalk
  <2> QED
    BY <1>1, <1>2, <2>1, <2>2, <2>3 DEF WalkStep
<1>3. RecoveryTimer \/ RegisterConsumer \/ (\E w \in Worker : DeviceMessage(w)) => UNCHANGED tasks
  BY DEF RecoveryTimer, RegisterConsumer, DeviceMessage, Register, WorkerState, Disconnect
<1>4. ASSUME NEW t \in Task, Submit(t)
      PROVE  FinishedStays
  BY <1>4, AssignedIsUnfinished, AssignLeavesFinished DEF Submit
<1>5. ASSUME NEW t \in Task, Cancel(t)
      PROVE  FinishedStays
  <2>1. tasks[t] \in TaskRecord
    BY DEF IndInv
  <2>2. PICK told : tasks' = [tasks EXCEPT ![t] =
                        [Unassigned(tasks[t], "cancelled") EXCEPT !.withdrawn = @ \cup told]]
    BY <1>5 DEF Cancel
  <2> DEFINE new == [Unassigned(tasks[t], "cancelled") EXCEPT !.withdrawn = @ \cup told]
  <2>3. new.state \in Finished /\ new.attempts = tasks[t].attempts
    BY <2>1 DEF Unassigned, TaskRecord, Finished
  <2> HIDE DEF new
  <2>4. tasks' = [tasks EXCEPT ![t] = new]
    BY <2>2 DEF new
  <2> QED
    BY <2>3, <2>4, ReplacedUnfinished
<1>6. ASSUME NEW t \in Task, LeaseRunsOut(t) \/ DeadlinePasses(t)
      PROVE  FinishedStays
  <2>1. tasks[t].state \notin Finished
    BY <1>6, AssignedIsUnfinished DEF LeaseRunsOut, DeadlinePasses, Unfinished
  <2>2. \E r : tasks' = [tasks EXCEPT ![t] = r]
    BY <1>6 DEF LeaseRunsOut, DeadlinePasses
  <2> QED
    BY <2>1, <2>2, ReplacedUnfinished
<1>7. ASSUME NEW t \in Task, NEW w \in Worker, NEW i \in DOMAIN tasks[t].attempts,
             StageMessage(w, t, i)
      PROVE  FinishedStays
  <2>1. tasks[t] \in TaskRecord /\ i # 0
    BY DEF IndInv, TaskRecord
  <2>2. CASE StaleHeartbeat(w, t, i)
    <3> DEFINE new == [tasks[t] EXCEPT !.withdrawn = @ \cup {i}]
    <3>1. new.state = tasks[t].state /\ new.attempts = tasks[t].attempts
      BY <2>1 DEF TaskRecord
    <3>2. tasks' = [tasks EXCEPT ![t] = new]
      BY <2>2 DEF StaleHeartbeat
    <3> HIDE DEF new
    <3> QED
      BY <3>1, <3>2, ReplacedUnfinished
  <2>3. CASE ~StaleHeartbeat(w, t, i)
    <3>1. tasks[t].assignment # 0
      BY <1>7, <2>1, <2>3 DEF StageMessage, StageAccepted, Heartbeat, Relinquish, StageFailed,
                              IsCurrent
    <3>2. tasks[t].state \notin Finished
      BY <3>1, AssignedIsUnfinished
    <3>3. CASE StageAccepted(w, t, i) \/ Heartbeat(w, t, i) \/ StageFailed(w, t, i)
      <4>1. \E r : tasks' = [tasks EXCEPT ![t] = r]
        BY <3>3 DEF StageAccepted, Heartbeat, StageFailed
      <4> QED  BY <3>2, <4>1, ReplacedUnfinished
    <3>4. CASE Relinquish(w, t, i)
      BY <3>1, <3>4, RetryLeavesFinished DEF Relinquish
    <3> QED
      BY <1>7, <2>3, <3>3, <3>4 DEF StageMessage
  <2> QED
    BY <2>2, <2>3
<1>8. CASE StageCompletes
  <2>1. PICK t \in Task, w \in Worker, v \in Value :
          \E i \in DOMAIN tasks[t].attempts : StageResult(w, t, i, v)
    BY <1>8 DEF StageCompletes
  <2>2. PICK i \in DOMAIN tasks[t].attempts : StageResult(w, t, i, v)
    BY <2>1
  <2>3. tasks[t].assignment # 0
    BY <2>2 DEF IndInv, TaskRecord, StageResult, IsCurrent
  <2>4. tasks[t].state \notin Finished
    BY <2>3, AssignedIsUnfinished
  <2>5. \/ \E r : tasks' = [tasks EXCEPT ![t] = r]
        \/ \E task, devs, stage, options : Assign(t, task, devs, v, stage, options)
    BY <2>2 DEF StageResult
  <2> QED
    BY <2>4, <2>5, ReplacedUnfinished, AssignLeavesFinished
<1>9. CASE UNCHANGED vars
  BY <1>1, <1>9 DEF vars
<1> QED
  BY <1>1, <1>2, <1>3, <1>4, <1>5, <1>6, <1>7, <1>8, <1>9 DEF Next, OtherStep

-----------------------------------------------------------------------------
(* Theorems of the specification *)

\* The records, the registry and the walk in progress are what IndInv says in every
\* reachable state of the gateway.
THEOREM Inductive == Spec => []IndInv
<1>1. Init => IndInv
  BY InitInv, ConstantsAssumption
<1>2. IndInv /\ [Next]_vars => IndInv'
  BY NextInv, ConstantsAssumption
<1> QED
  BY <1>1, <1>2, PTL DEF Spec

\* Type correctness: no counter goes below zero, and the current assignment of a task
\* is one it was given (task_store.ts:92-111, device_announcer.ts:80-95).
THEOREM TypeCorrect == Spec => []TypeOK
<1>1. IndInv => TypeOK
  BY DEF IndInv, TypeOK, RecordOK
<1> QED
  BY <1>1, Inductive, PTL

\* No unfinished task is out of reach of both sweeps (task_scheduler.ts:141-181).
THEOREM NothingStranded == Spec => []NoStrandedTask
<1>1. IndInv => NoStrandedTask
  BY DEF IndInv, NoStrandedTask, InProgress
<1> QED
  BY <1>1, Inductive, PTL

\* The handler of a closed connection takes every assignment from its worker
\* (task_scheduler.ts:188-193, websocket_router.ts:72-81).
THEOREM AssignmentsAreHeld == Spec => []HeldByConnectedWorker
<1>1. IndInv => HeldByConnectedWorker
  BY DEF IndInv
<1> QED
  BY <1>1, Inductive, PTL

\* The retry budget bounds the assignments of a stage, and so those of a whole task,
\* whatever ends them (task_scheduler.ts:71-75, task_store.ts:92-111 and 229-246).
THEOREM BudgetIsKept == Spec => []AttemptsWithinBudget
<1>1. IndInv => AttemptsWithinBudget
  BY DEF IndInv, AttemptsWithinBudget, RecordOK
<1> QED
  BY <1>1, Inductive, PTL

\* A value that continues a generation is only ever with the device that holds the
\* generation (task_scheduler.ts:85-94 and 245-247).
THEOREM ContinuationsStay == Spec => []ContinuationAtItsHolder
<1>1. IndInv => ContinuationAtItsHolder
  BY DEF IndInv, ContinuationAtItsHolder, RecordOK, Misplaced
<1> QED
  BY <1>1, Inductive, PTL

\* No stage.cancel ever names the assignment the gateway is waiting for
\* (task_scheduler.ts:101-110, client_message_handler.ts:400-462).
THEOREM CurrentKeepsRunning == Spec => []CurrentIsNotWithdrawn
<1>1. IndInv => CurrentIsNotWithdrawn
  BY DEF IndInv, CurrentIsNotWithdrawn, RecordOK
<1> QED
  BY <1>1, Inductive, PTL

\* No late message and no sweep brings a finished task back (task_scheduler.ts:67-70,
\* task_store.ts:190-209).
THEOREM FinishedStaysFinished == Spec => FinishedIsForGood
<1>1. IndInv /\ [Next]_vars => [FinishedStays]_vars
  BY NextLeavesFinished
<1>2. FinishedStays <=>
        \A t \in Task :
          tasks[t].state \in Finished =>
            tasks'[t].state \in Finished /\ tasks'[t].attempts = tasks[t].attempts
  BY DEF FinishedStays
<1> QED
  BY <1>1, <1>2, Inductive, PTL DEF Spec, FinishedIsForGood

-----------------------------------------------------------------------------
(***************************************************************************)
(* What a step of the gateway may do to the record of a task, and what     *)
(* follows from it alone: the stages are counted once each and in order,   *)
(* and a lost attempt goes to another worker.                              *)
(*                                                                         *)
(* StoredInv is weaker than IndInv: it leaves out that an unfinished task  *)
(* is always queued or assigned, and that the worker of an assignment is   *)
(* connected.  So it also holds where the process ends in the middle of a  *)
(* handler, and the lemmas here serve the proofs about DurableGateway too. *)
(***************************************************************************)

\* What holds of the stored records whenever no handler is in the middle of an update.
StoredOK(task) ==
  /\ RecordOK(task)
  /\ task.assignment # 0 => InProgress(task)
  /\ task.state = "absent" => task.attempts = <<>> /\ task.completed = 0

StoredInv ==
  /\ tasks \in [Task -> TaskRecord]
  /\ \A t \in Task : StoredOK(tasks[t])
  /\ devices \in [Worker -> Device]
  /\ handler \in Handler
  /\ WalkOK

-----------------------------------------------------------------------------
(* The effects a step can have on one record *)

SameWork(old, new) ==
  /\ new.acknowledged = old.acknowledged /\ new.completed = old.completed

\* The assignment goes on: a flag, a state or a stage.cancel changes.
GoesOn(old, new) ==
  /\ SameWork(old, new)
  /\ new.attempts = old.attempts /\ new.assignment = old.assignment
  /\ new.state = old.state \/ (old.assignment # 0 /\ new.state = "running")

\* There is no assignment any more: the task waits, has failed or is cancelled.
Dropped(old, new) ==
  /\ SameWork(old, new)
  /\ new.attempts = old.attempts /\ new.assignment = 0
  /\ \/ new.state = "cancelled" /\ old.state # "absent"
     \/ new.state \in {"queued", "failed"} /\ old.state \notin Finished

\* The task is given to a worker: its next stage, or the stage of the assignment that
\* is replaced, and then elsewhere unless the stage keeps state on its worker.
Given(old, new) ==
  /\ SameWork(old, new)
  /\ old.state \notin Finished /\ new.state = "assigned"
  /\ new.assignment = Len(old.attempts) + 1
  /\ \E attempt \in Attempt :
       /\ new.attempts = Append(old.attempts, attempt)
       /\ old.assignment = 0 => attempt.stage = Position(old.completed + 1)
       /\ old.assignment # 0 =>
            LET lost == old.attempts[old.assignment]
            IN  /\ attempt.stage = lost.stage
                /\ lost.stage \in Sticky \/ attempt.worker # lost.worker

RecordStep(old, new) ==
  /\ StoredOK(new) /\ new.state # "absent"
  /\ GoesOn(old, new) \/ Dropped(old, new) \/ Given(old, new)

\* The result of the current assignment is counted.
ResultCounted(old, mid) ==
  /\ old.assignment # 0 /\ old.state = "running"
  /\ mid.acknowledged = old.acknowledged \cup {old.assignment}
  /\ mid.completed = old.completed + 1
  /\ mid.attempts = old.attempts /\ mid.assignment = 0

\* A result was accepted: the pipeline is over, or goes on.
ResultStep(old, new) ==
  /\ StoredOK(new) /\ new.state # "absent"
  /\ \E mid : /\ ResultCounted(old, mid) /\ RecordOK(mid) /\ mid.state = "running"
              /\ \/ SameWork(mid, new) /\ new.attempts = mid.attempts /\ new.assignment = 0
                 \/ Given(mid, new)

\* What every step does to the records: nothing, or one of the effects above.
RecordsStep ==
  \A t \in Task : tasks'[t] = tasks[t] \/ RecordStep(tasks[t], tasks'[t])

-----------------------------------------------------------------------------
(* Records *)

(* A record whose assignment was taken away keeps its history. *)
LEMMA UnassignedFields ==
  ASSUME NEW task \in TaskRecord, NEW st
  PROVE  LET new == Unassigned(task, st)
         IN  /\ SameWork(task, new)
             /\ new.attempts = task.attempts /\ new.assignment = 0 /\ new.state = st
             /\ new.withdrawn = task.withdrawn /\ new.value = task.value
             /\ new.tries = task.tries
BY DEF Unassigned, TaskRecord, SameWork

(* A placed record has one attempt more, which is its current one. *)
LEMMA PlacedFields ==
  ASSUME NEW task \in TaskRecord, NEW devs, NEW value, NEW stage, NEW w
  PROVE  LET new == Placed(task, devs, value, stage, w)
         IN  /\ SameWork(task, new)
             /\ new.attempts = Append(task.attempts,
                                      [worker |-> w, stage |-> stage, value |-> value])
             /\ new.assignment = Len(task.attempts) + 1
             /\ new.state = "assigned" /\ new.value = task.value
BY DEF Placed, TaskRecord, SameWork

(* A record after a completed stage: the assignment is acknowledged and no longer current. *)
LEMMA AddStageFields ==
  ASSUME NEW task \in TaskRecord, NEW i, NEW w, NEW v
  PROVE  LET new == AddStage(task, i, w, v)
         IN  /\ new.acknowledged = task.acknowledged \cup {i}
             /\ new.completed = task.completed + 1
             /\ new.attempts = task.attempts /\ new.assignment = 0
             /\ new.state = "running" /\ new.value = v
BY DEF AddStage, Unassigned, TaskRecord

\* The next stage of a pipeline that goes on is the position its completed stages
\* amount to (task_store.ts:357-368).
LEMMA NextStageIsPosition ==
  ASSUME ConstantsAssumption, NEW task, task.completed \in Nat, NextStage(task) # 0
  PROVE  NextStage(task) = Position(task.completed + 1)
<1>1. StageCount \in Nat \ {0}
  BY DEF ConstantsAssumption
<1>2. (task.completed + 1) - 1 = task.completed
  OBVIOUS
<1>3. Position(task.completed + 1) = (task.completed % StageCount) + 1
  BY <1>2 DEF Position
<1>4. task.completed < StageCount => task.completed % StageCount = task.completed
  BY <1>1
<1> QED
  BY <1>3, <1>4 DEF NextStage

\* A task that has not finished a stage yet is at its first one.
LEMMA FirstStage ==
  ASSUME ConstantsAssumption, NEW task, task.completed = 0
  PROVE  /\ NextStage(task) = 1 /\ Position(task.completed + 1) = 1
         /\ NextStage(task) \in Stage
<1>1. StageCount \in Nat \ {0} /\ 0 % StageCount = 0
  BY DEF ConstantsAssumption
<1> QED
  BY <1>1 DEF NextStage, Position, Stage

-----------------------------------------------------------------------------
(* Stages are counted once and in order *)

UpTo(task, i) == {j \in task.acknowledged : j <= i}

\* The acknowledged assignments are the completed stages, in pipeline order; the
\* current one came later than all of them and is for the stage after them.
CountedOK(task) ==
  /\ Cardinality(task.acknowledged) = task.completed
  /\ \A i \in task.acknowledged :
       task.attempts[i].stage = Position(Cardinality(UpTo(task, i)))
  /\ task.assignment # 0 =>
       /\ \A i \in task.acknowledged : i < task.assignment
       /\ task.attempts[task.assignment].stage = Position(task.completed + 1)

StagesCounted == \A t \in Task : CountedOK(tasks[t])

(* A record that keeps its attempts and stays on its assignment, or loses it, counts its stages as before. *)
LEMMA SameRunCounted ==
  ASSUME NEW old, CountedOK(old), NEW new, SameWork(old, new),
         new.attempts = old.attempts, new.assignment \in {old.assignment, 0}
  PROVE  CountedOK(new)
BY DEF CountedOK, SameWork, UpTo

(* So does a record that was given a new assignment for the stage it waits for. *)
LEMMA GivenCounted ==
  ASSUME NEW old, RecordOK(old), CountedOK(old), NEW new, Given(old, new)
  PROVE  CountedOK(new)
<1>1. /\ old.attempts \in Seq(Attempt) /\ Len(old.attempts) \in Nat
      /\ old.acknowledged \subseteq 1..Len(old.attempts)
      /\ old.assignment \in 0..Len(old.attempts)
  BY DEF RecordOK, TaskRecord
<1>2. PICK attempt \in Attempt :
        /\ new.attempts = Append(old.attempts, attempt)
        /\ old.assignment = 0 => attempt.stage = Position(old.completed + 1)
        /\ old.assignment # 0 => attempt.stage = old.attempts[old.assignment].stage
  BY DEF Given
<1>3. /\ \A i \in 1..Len(old.attempts) : new.attempts[i] = old.attempts[i]
      /\ new.attempts[Len(old.attempts) + 1] = attempt
  BY <1>1, <1>2
<1>4. attempt.stage = Position(old.completed + 1)
  BY <1>2 DEF CountedOK
<1>5. /\ new.assignment = Len(old.attempts) + 1
      /\ new.acknowledged = old.acknowledged /\ new.completed = old.completed
  BY DEF Given, SameWork
<1>6. \A i \in new.acknowledged :
        /\ i < new.assignment /\ new.attempts[i] = old.attempts[i]
        /\ UpTo(new, i) = UpTo(old, i)
  BY <1>1, <1>3, <1>5 DEF UpTo
<1> QED
  BY <1>3, <1>4, <1>5, <1>6 DEF CountedOK

\* Counting the current assignment keeps the count: it is the latest so far, and for
\* the stage after those completed (task_store.ts:229-246).
LEMMA ResultKeepsCount ==
  ASSUME NEW old, RecordOK(old), CountedOK(old), NEW mid, ResultCounted(old, mid)
  PROVE  CountedOK(mid)
<1> DEFINE a == old.assignment
<1>1. /\ Len(old.attempts) \in Nat /\ old.completed \in Nat
      /\ old.acknowledged \subseteq 1..Len(old.attempts)
      /\ a \in 1..Len(old.attempts) /\ a \notin old.acknowledged
  BY DEF RecordOK, TaskRecord, ResultCounted
<1>2. IsFiniteSet(old.acknowledged)
  <2>1. IsFiniteSet(1..Len(old.attempts))
    <3>1. 1 \in Int /\ Len(old.attempts) \in Int
      BY <1>1
    <3> QED  BY ONLY <3>1, FS_Interval, Zenon
  <2>2. old.acknowledged \in SUBSET (1..Len(old.attempts))
    BY <1>1
  <2> QED
    BY <2>1, <2>2, FS_Subset
<1>3. /\ mid.acknowledged = old.acknowledged \cup {a} /\ mid.completed = old.completed + 1
      /\ mid.attempts = old.attempts /\ mid.assignment = 0
  BY DEF ResultCounted
<1>4. Cardinality(mid.acknowledged) = mid.completed
  BY <1>1, <1>2, <1>3, FS_AddElement, ZenonT(40) DEF CountedOK
<1>5. ASSUME NEW i \in old.acknowledged
      PROVE  mid.attempts[i].stage = Position(Cardinality(UpTo(mid, i)))
  <2>1. i < a /\ i \in Nat /\ a \in Nat
    BY <1>1 DEF CountedOK, ResultCounted
  <2>2. UpTo(mid, i) = UpTo(old, i)
    BY <1>3, <2>1 DEF UpTo
  <2> QED
    BY <1>3, <2>2 DEF CountedOK
<1>6. mid.attempts[a].stage = Position(Cardinality(UpTo(mid, a)))
  <2>1. \A i \in old.acknowledged : i \in Nat /\ i <= a
    BY <1>1 DEF CountedOK, ResultCounted
  <2>2. UpTo(mid, a) = mid.acknowledged
    BY <1>1, <1>3, <2>1 DEF UpTo
  <2> QED
    BY <1>3, <1>4, <2>2 DEF CountedOK, ResultCounted
<1> QED
  BY <1>3, <1>4, <1>5, <1>6 DEF CountedOK

\* So every effect a step can have on a record keeps its stages counted.
LEMMA StepKeepsCount ==
  ASSUME NEW old, StoredOK(old), CountedOK(old), NEW new,
         RecordStep(old, new) \/ ResultStep(old, new)
  PROVE  CountedOK(new)
<1>1. RecordOK(old)
  BY DEF StoredOK
<1>2. CASE RecordStep(old, new)
  BY <1>1, <1>2, SameRunCounted, GivenCounted DEF RecordStep, GoesOn, Dropped
<1>3. CASE ResultStep(old, new)
  <2>1. PICK mid : /\ ResultCounted(old, mid) /\ RecordOK(mid)
                   /\ \/ SameWork(mid, new) /\ new.attempts = mid.attempts /\ new.assignment = 0
                      \/ Given(mid, new)
    BY <1>3 DEF ResultStep
  <2>2. CountedOK(mid)
    BY <1>1, <2>1, ResultKeepsCount
  <2> QED
    BY <2>1, <2>2, SameRunCounted, GivenCounted
<1> QED
  BY <1>2, <1>3

\* A sound record counts what EachStageCountedOnce counts.
LEMMA CountedIsOnce ==
  ASSUME StoredInv, StagesCounted
  PROVE  EachStageCountedOnce
<1> SUFFICES ASSUME NEW t \in Task
             PROVE  /\ Cardinality(tasks[t].acknowledged) = tasks[t].completed
                    /\ tasks[t].assignment \notin tasks[t].acknowledged
                    /\ \A i \in tasks[t].acknowledged :
                         tasks[t].attempts[i].stage =
                           Position(Cardinality({j \in tasks[t].acknowledged : j <= i}))
  BY DEF EachStageCountedOnce
<1>1. RecordOK(tasks[t]) /\ CountedOK(tasks[t])
  BY DEF StoredInv, StoredOK, StagesCounted
<1> QED
  BY <1>1 DEF RecordOK, CountedOK, UpTo

-----------------------------------------------------------------------------
(* assign *)

\* The two ways `assign` ends (task_scheduler.ts:67-138): it takes the assignment away,
\* or it places the stage with one of the candidates.
LEMMA AssignEffect ==
  ASSUME NEW t \in Task, NEW task, NEW devs, NEW value, NEW stage, NEW options,
         Assign(t, task, devs, value, stage, options)
  PROVE  \/ /\ \E st \in {"queued", "failed"} :
                 tasks' = [tasks EXCEPT ![t] = Unassigned(task, st)]
            /\ devices' = devs
         \/ \E w \in Candidates(devs, stage, options) :
              /\ task.tries < MaxAttempts /\ ~Misplaced(task, value, stage, w)
              /\ Place(t, task, devs, value, stage, w)
BY DEF Assign, Exhaust, Requeue

\* What `assign` makes of the record of an unfinished task, when the stage is the one the
\* task is at and a lost attempt may not go back to its worker.
LEMMA AssignStep ==
  ASSUME ConstantsAssumption,
         NEW t \in Task, NEW task, RecordOK(task), task.state \notin Finished,
         NEW devs \in [Worker -> Device],
         NEW value \in Value, NEW stage \in Stage, NEW options,
         task.assignment = 0 => stage = Position(task.completed + 1),
         task.assignment # 0 =>
           LET lost == task.attempts[task.assignment]
           IN  /\ stage = lost.stage
               /\ stage \in Sticky \/ lost.worker \notin Candidates(devs, stage, options),
         Assign(t, task, devs, value, stage, options)
  PROVE  /\ \E r : /\ tasks' = [tasks EXCEPT ![t] = r]
                   /\ StoredOK(r) /\ r.state \in {"queued", "failed", "assigned"}
                   /\ Dropped(task, r) \/ Given(task, r)
         /\ devices' \in [Worker -> Device]
<1>1. task \in TaskRecord
  BY DEF RecordOK
<1>2. devices' \in [Worker -> Device]
  BY AssignSound
<1>3. ASSUME NEW st \in {"queued", "failed"}, tasks' = [tasks EXCEPT ![t] = Unassigned(task, st)]
      PROVE  \E r : /\ tasks' = [tasks EXCEPT ![t] = r]
                    /\ StoredOK(r) /\ r.state \in {"queued", "failed", "assigned"}
                    /\ Dropped(task, r)
  <2> DEFINE r == Unassigned(task, st)
  <2>1. RecordOK(r)
    BY UnassignedSound DEF State, Finished
  <2>2. /\ SameWork(task, r) /\ r.attempts = task.attempts
        /\ r.assignment = 0 /\ r.state = st
    BY <1>1, UnassignedFields
  <2> HIDE DEF r
  <2>3. StoredOK(r) /\ Dropped(task, r) /\ r.state \in {"queued", "failed", "assigned"}
    BY <2>1, <2>2 DEF StoredOK, Dropped
  <2> QED
    BY <1>3, <2>3 DEF r
<1>4. ASSUME NEW w \in Candidates(devs, stage, options),
             task.tries < MaxAttempts, ~Misplaced(task, value, stage, w),
             Place(t, task, devs, value, stage, w)
      PROVE  \E r : /\ tasks' = [tasks EXCEPT ![t] = r]
                    /\ StoredOK(r) /\ r.state \in {"queued", "failed", "assigned"}
                    /\ Given(task, r)
  <2> DEFINE r == Placed(task, devs, value, stage, w)
             attempt == [worker |-> w, stage |-> stage, value |-> value]
  <2>1. w \in Worker
    BY <1>4, CandidatesOpen
  <2>2. RecordOK(r)
    BY <1>4, <2>1, PlacedSound
  <2>3. /\ SameWork(task, r) /\ r.attempts = Append(task.attempts, attempt)
        /\ r.assignment = Len(task.attempts) + 1 /\ r.state = "assigned"
    BY <1>1, PlacedFields
  <2>4. attempt \in Attempt /\ attempt.stage = stage /\ attempt.worker = w
    BY <2>1 DEF Attempt
  <2>5. tasks' = [tasks EXCEPT ![t] = r]
    BY <1>4 DEF Place
  <2> HIDE DEF r, attempt
  <2>6. Given(task, r)
    BY <1>4, <2>3, <2>4 DEF Given
  <2>7. StoredOK(r)
    BY <2>2, <2>3 DEF StoredOK, InProgress
  <2> QED
    BY <2>3, <2>5, <2>6, <2>7
<1> QED
  BY <1>2, <1>3, <1>4, AssignEffect

-----------------------------------------------------------------------------
(* Steps *)

\* A step that has one of the effects on one record, and takes the task off the walk it
\* is on or leaves what the walk looks at, keeps the stored records sound.
LEMMA ReplaceStored ==
  ASSUME StoredInv, NEW t \in Task, NEW r,
         tasks' = [tasks EXCEPT ![t] = r],
         StoredOK(r),
         devices' \in [Worker -> Device],
         handler' \in Handler, handler'.kind = handler.kind,
         handler'.left \subseteq handler.left,
         t \in handler'.left => r.state = tasks[t].state /\ r.assignment = tasks[t].assignment
  PROVE  /\ StoredInv'
         /\ tasks'[t] = r /\ \A u \in Task : u # t => tasks'[u] = tasks[u]
<1>1. /\ tasks'[t] = r /\ \A u \in Task : u # t => tasks'[u] = tasks[u]
      /\ r \in TaskRecord /\ tasks' \in [Task -> TaskRecord]
  BY DEF StoredInv, StoredOK, RecordOK
<1>2. \A u \in Task : StoredOK(tasks'[u])
  BY <1>1 DEF StoredInv
<1>3. WalkOK'
  <2> SUFFICES ASSUME NEW u \in handler'.left
               PROVE  /\ handler'.kind = "schedule" => tasks'[u].state = "queued"
                      /\ handler'.kind \in {"leases", "close"} => tasks'[u].assignment # 0
    BY DEF WalkOK
  <2>1. u \in handler.left /\ u \in Task
    BY DEF Handler
  <2>2. tasks'[u].state = tasks[u].state /\ tasks'[u].assignment = tasks[u].assignment
    BY <1>1, <2>1
  <2> QED
    BY <2>1, <2>2 DEF StoredInv, WalkOK
<1> QED
  BY <1>1, <1>2, <1>3 DEF StoredInv

(* The frame of every operation that writes one record: the store and the running walk stay right. *)
LEMMA ReplaceStep ==
  ASSUME StoredInv, NEW t \in Task, NEW r,
         tasks' = [tasks EXCEPT ![t] = r],
         RecordStep(tasks[t], r),
         devices' \in [Worker -> Device],
         handler' \in Handler, handler'.kind = handler.kind,
         handler'.left \subseteq handler.left,
         t \in handler'.left => r.state = tasks[t].state /\ r.assignment = tasks[t].assignment
  PROVE  StoredInv' /\ RecordsStep
<1>1. StoredOK(r)
  BY DEF RecordStep
<1>2. /\ StoredInv'
      /\ tasks'[t] = r /\ \A u \in Task : u # t => tasks'[u] = tasks[u]
  BY <1>1, ReplaceStored
<1> QED
  BY <1>2 DEF RecordsStep

\* A step that changes no record and starts or ends a walk of the right kind.
LEMMA SameStored ==
  ASSUME StoredInv, UNCHANGED tasks,
         devices' \in [Worker -> Device],
         handler' \in Handler,
         \A t \in handler'.left :
           /\ handler'.kind = "schedule" => tasks[t].state = "queued"
           /\ handler'.kind \in {"leases", "close"} => tasks[t].assignment # 0
  PROVE  StoredInv' /\ RecordsStep
<1>1. WalkOK'
  BY DEF WalkOK
<1> QED
  BY <1>1 DEF StoredInv, RecordsStep

\* An attempt that is replaced goes elsewhere when its worker is excluded and none is
\* preferred (task_scheduler.ts:161-193, device_registry.ts:97-106).
LEMMA ExcludedIsNoCandidate ==
  ASSUME ConstantsAssumption, NEW w \in Worker, NEW devs, NEW stage, NEW options,
         options.excluded = {w}, options.retry, options.preferred = NoWorker
  PROVE  w \notin Candidates(devs, stage, options)
BY DEF Candidates, FindWorkers, ConstantsAssumption

(* All branches of assign make one step of the record they are called for. *)
LEMMA AssignStoredStep ==
  ASSUME ConstantsAssumption, StoredInv,
         NEW t \in Task, tasks[t].state \notin Finished,
         NEW value \in Value, NEW stage \in Stage, NEW options,
         tasks[t].assignment = 0 => stage = Position(tasks[t].completed + 1),
         tasks[t].assignment # 0 =>
           LET lost == tasks[t].attempts[tasks[t].assignment]
           IN  /\ stage = lost.stage
               /\ stage \in Sticky \/ lost.worker \notin Candidates(devices, stage, options),
         Assign(t, tasks[t], devices, value, stage, options),
         handler' = Stepped(t) \/ (handler' = handler /\ handler = Idle)
  PROVE  StoredInv' /\ RecordsStep
<1>1. RecordOK(tasks[t]) /\ devices \in [Worker -> Device] /\ handler \in Handler
  BY DEF StoredInv, StoredOK
<1>2. PICK r : /\ tasks' = [tasks EXCEPT ![t] = r]
               /\ StoredOK(r) /\ r.state # "absent"
               /\ Dropped(tasks[t], r) \/ Given(tasks[t], r)
  BY <1>1, AssignStep
<1>3. devices' \in [Worker -> Device]
  BY <1>1, AssignStep
<1>4. /\ handler' \in Handler /\ handler'.kind = handler.kind
      /\ handler'.left \subseteq handler.left /\ t \notin handler'.left
  BY <1>1 DEF Handler, Idle, Stepped
<1>5. RecordStep(tasks[t], r)
  BY <1>2 DEF RecordStep
<1> QED
  BY <1>2, <1>3, <1>4, <1>5, ReplaceStep

(* All branches of retry make one step of the record they are called for. *)
LEMMA RetryStep ==
  ASSUME ConstantsAssumption, StoredInv,
         NEW t \in Task, tasks[t].assignment # 0, NEW excluded, NEW preferred,
         Retry(t, excluded, preferred),
         LET lost == tasks[t].attempts[tasks[t].assignment]
         IN  lost.stage \in Sticky \/ (excluded = {lost.worker} /\ preferred = NoWorker),
         handler' = Stepped(t) \/ (handler' = handler /\ handler = Idle)
  PROVE  StoredInv' /\ RecordsStep
<1> DEFINE lost == tasks[t].attempts[tasks[t].assignment]
           options == [NewPlacement EXCEPT !.excluded = excluded, !.retry = TRUE,
                                           !.preferred = preferred]
<1>1. /\ RecordOK(tasks[t]) /\ tasks[t].state \notin Finished
  BY DEF StoredInv, StoredOK, InProgress, Finished
<1>2. lost.worker \in Worker /\ lost.stage \in Stage /\ lost.value \in Value
  BY <1>1, CurrentTyped
<1>3. Assign(t, tasks[t], devices, lost.value, lost.stage, options)
  BY DEF Retry
<1>4. options.excluded = excluded /\ options.retry /\ options.preferred = preferred
  BY DEF NewPlacement
<1> HIDE DEF options
<1>5. lost.stage \in Sticky \/ lost.worker \notin Candidates(devices, lost.stage, options)
  BY <1>2, <1>4, ExcludedIsNoCandidate
<1> QED
  BY <1>1, <1>2, <1>3, <1>5, AssignStoredStep

-----------------------------------------------------------------------------
(* One lemma per group of actions *)

(* One task of a sweep makes one step of a record. *)
LEMMA WalkRecords ==
  ASSUME ConstantsAssumption, StoredInv, WalkStep
  PROVE  StoredInv' /\ RecordsStep
<1>1. handler \in Handler /\ devices \in [Worker -> Device]
  BY DEF StoredInv
<1>2. ASSUME NEW t \in Task, ScheduleTask(t)
      PROVE  StoredInv' /\ RecordsStep
  <2> DEFINE task == tasks[t]
  <2>1. /\ RecordOK(task) /\ task \in TaskRecord
        /\ task.state = "queued" /\ task.assignment = 0
        /\ handler' = Stepped(t)
    BY <1>2 DEF StoredInv, StoredOK, ScheduleTask, WalkOK, InProgress, RecordOK
  <2>2. /\ handler' \in Handler /\ handler'.kind = handler.kind
        /\ handler'.left \subseteq handler.left /\ t \notin handler'.left
        /\ handler.kind = "schedule"
    BY <1>1, <1>2, <2>1 DEF Handler, Stepped, ScheduleTask
  <2>3. CASE task.overdue
    <3> DEFINE failed == [task EXCEPT !.state = "failed"]
    <3>1. tasks' = [tasks EXCEPT ![t] = failed] /\ devices' = devices
      BY <1>2, <2>1, <2>3 DEF ScheduleTask, StoredInv
    <3>2. /\ failed \in TaskRecord /\ SameAssignment(failed, task)
          /\ failed.state = "failed"
      BY <2>1 DEF TaskRecord, State, Finished, SameAssignment
    <3> HIDE DEF failed
    <3>3. RecordOK(failed) /\ failed.assignment = 0
      BY <2>1, <3>2, SameAssignmentSound DEF SameAssignment
    <3>4. Dropped(task, failed)
      BY <2>1, <3>2, <3>3 DEF Dropped, SameWork, SameAssignment, Finished
    <3>5. RecordStep(task, failed)
      BY <3>2, <3>3, <3>4 DEF RecordStep, StoredOK
    <3> QED
      BY <1>1, <2>2, <3>1, <3>5, ReplaceStep
  <2>4. CASE ~task.overdue /\ NextStage(task) = 0
    <3>1. UNCHANGED <<tasks, devices>>
      BY <1>2, <2>4 DEF ScheduleTask
    <3> QED
      BY <1>1, <2>2, <3>1, SameStored DEF StoredInv, WalkOK
  <2>5. CASE ~task.overdue /\ NextStage(task) # 0
    <3>1. \E options : Assign(t, task, devices, task.value, NextStage(task), options)
      BY <1>2, <2>5 DEF ScheduleTask
    <3>2. /\ NextStage(task) \in Stage /\ task.value \in Value
          /\ NextStage(task) = Position(task.completed + 1)
      BY <2>1, <2>5, NextStageTyped, NextStageIsPosition DEF TaskRecord
    <3>3. task.state \notin Finished
      BY <2>1 DEF Finished
    <3> QED
      BY <2>1, <3>1, <3>2, <3>3, AssignStoredStep
  <2> QED
    BY <2>3, <2>4, <2>5
<1>3. ASSUME NEW t \in Task, RecoverLease(t) \/ RecoverDisconnected(t)
      PROVE  StoredInv' /\ RecordsStep
  <2> DEFINE lost == tasks[t].attempts[tasks[t].assignment]
  <2>1. tasks[t].assignment # 0 /\ handler' = Stepped(t)
    BY <1>3 DEF StoredInv, WalkOK, RecoverLease, RecoverDisconnected
  <2>2. \/ lost.stage \in Sticky /\ \E excluded, preferred : Retry(t, excluded, preferred)
        \/ Retry(t, {lost.worker}, NoWorker)
    BY <1>3 DEF RecoverLease, RecoverDisconnected
  <2> QED
    BY <2>1, <2>2, RetryStep
<1>4. ASSUME EndWalk
      PROVE  StoredInv' /\ RecordsStep
  <2>1. UNCHANGED <<tasks, devices>>
    BY <1>4 DEF EndWalk
  <2>2. handler' \in Handler
    BY <1>4 DEF EndWalk, Handler, Walk, Idle, Queued
  <2>3. \A t \in handler'.left :
          handler'.kind = "schedule" /\ tasks[t].state = "queued"
    BY <1>4 DEF EndWalk, Walk, Idle, Queued
  <2> QED
    BY <1>1, <2>1, <2>2, <2>3, SameStored
<1> QED
  BY <1>2, <1>3, <1>4 DEF WalkStep

(* What only changes the registry or starts a walk changes no record. *)
LEMMA DevicesRecords ==
  ASSUME ConstantsAssumption, StoredInv,
         \/ RecoveryTimer
         \/ RegisterConsumer
         \/ \E w \in Worker : DeviceMessage(w)
  PROVE  StoredInv' /\ RecordsStep
<1>1. handler \in Handler /\ devices \in [Worker -> Device]
  BY DEF StoredInv
<1>2. Walk("schedule", Queued(tasks)) \in Handler /\ Idle \in Handler
  BY DEF Walk, Handler, Queued, Idle
<1>3. ASSUME UNCHANGED tasks, devices' \in [Worker -> Device],
             handler' \in {Idle, Walk("schedule", Queued(tasks))}
      PROVE  StoredInv' /\ RecordsStep
  <2>1. handler' \in Handler
    BY <1>2, <1>3
  <2>2. \A t \in handler'.left : handler'.kind = "schedule" /\ tasks[t].state = "queued"
    BY <1>3 DEF Walk, Idle, Queued
  <2> QED
    BY <1>3, <2>1, <2>2, SameStored
<1>4. ASSUME NEW left \in SUBSET Task, \A t \in left : tasks[t].assignment # 0,
             NEW kind \in {"leases", "close"}, handler' = Walk(kind, left),
             UNCHANGED tasks, devices' \in [Worker -> Device]
      PROVE  StoredInv' /\ RecordsStep
  <2>1. handler' \in Handler /\ handler'.left = left /\ handler'.kind = kind
    BY <1>4 DEF Walk, Handler
  <2> QED
    BY <1>4, <2>1, SameStored
<1>5. CASE RecoveryTimer
  <2> DEFINE lapsed == {t \in Task : tasks[t].assignment # 0 /\ tasks[t].expired}
  <2>1. handler' = Walk("leases", lapsed) /\ UNCHANGED <<tasks, devices>>
    BY <1>5 DEF RecoveryTimer
  <2> QED
    BY <1>1, <1>4, <2>1
<1>6. CASE RegisterConsumer
  BY <1>1, <1>3, <1>6 DEF RegisterConsumer
<1>7. ASSUME NEW w \in Worker, DeviceMessage(w)
      PROVE  StoredInv' /\ RecordsStep
  <2>1. ASSUME NEW ready \in BOOLEAN, NEW limit \in Limits, NEW offers \in Offers,
               Register(w, ready, offers, limit)
        PROVE  StoredInv' /\ RecordsStep
    <3>1. [connection |-> "open", ready |-> ready, offers |-> offers, limit |-> limit,
           active |-> 0] \in Device
      BY DEF Device, ConstantsAssumption
    <3> QED
      BY <1>1, <1>3, <2>1, <3>1 DEF Register
  <2>2. ASSUME NEW ready \in BOOLEAN, NEW limit \in Limits, WorkerState(w, ready, limit)
        PROVE  StoredInv' /\ RecordsStep
    <3>1. [devices[w] EXCEPT !.ready = ready, !.limit = limit] \in Device
      <4>1. devices[w] \in Device /\ limit \in Nat
        BY <1>1 DEF ConstantsAssumption
      <4> QED  BY <4>1 DEF Device
    <3>2. devices' = [devices EXCEPT ![w] = [devices[w] EXCEPT !.ready = ready, !.limit = limit]]
      BY <1>1, <2>2 DEF WorkerState
    <3>3. UNCHANGED tasks /\ handler' \in {Idle, Walk("schedule", Queued(tasks))}
      BY <2>2 DEF WorkerState
    <3> QED
      BY <1>1, <1>3, <3>1, <3>2, <3>3
  <2>3. CASE Disconnect(w)
    <3> DEFINE lost == {t \in Task : Superseded(tasks[t]) = w}
    <3>1. [Unregistered EXCEPT !.connection = "gone"] \in Device
      BY DEF Unregistered, Device
    <3>2. devices' \in [Worker -> Device]
      BY <1>1, <2>3, <3>1 DEF Disconnect
    <3>3. \A t \in lost : tasks[t].assignment # 0
      BY DEF Superseded, ConstantsAssumption
    <3>4. handler' = Walk("close", lost) /\ UNCHANGED tasks
      BY <2>3 DEF Disconnect
    <3> HIDE DEF lost
    <3>5. lost \in SUBSET Task
      BY DEF lost
    <3> QED
      BY <1>4, <3>2, <3>3, <3>4, <3>5
  <2> QED
    BY <1>7, <2>1, <2>2, <2>3 DEF DeviceMessage
<1> QED
  BY <1>5, <1>6, <1>7

\* Time, and the messages that change a flag, the state or the list of stage.cancel.
LEMMA FlagsRecords ==
  ASSUME StoredInv, NEW t \in Task,
         \/ LeaseRunsOut(t)
         \/ DeadlinePasses(t)
         \/ \E w \in Worker : \E i \in DOMAIN tasks[t].attempts :
              StageAccepted(w, t, i) \/ Heartbeat(w, t, i) \/ StaleHeartbeat(w, t, i)
  PROVE  StoredInv' /\ RecordsStep
<1> DEFINE task == tasks[t]
<1>1. /\ StoredOK(task) /\ RecordOK(task) /\ task \in TaskRecord
      /\ tasks \in [Task -> TaskRecord] /\ devices \in [Worker -> Device] /\ handler \in Handler
  BY DEF StoredInv, StoredOK
<1>2. UNCHANGED <<devices, handler>>
  BY DEF LeaseRunsOut, DeadlinePasses, StageAccepted, Heartbeat, StaleHeartbeat
<1>3. ASSUME NEW r \in TaskRecord, tasks' = [tasks EXCEPT ![t] = r], RecordOK(r),
             r.attempts = task.attempts, r.assignment = task.assignment, SameWork(task, r),
             \/ r.state = task.state /\ task.state # "absent"
             \/ handler = Idle /\ task.assignment # 0 /\ r.state = "running"
      PROVE  StoredInv' /\ RecordsStep
  <2>1. StoredOK(r) /\ r.state # "absent"
    BY <1>1, <1>3 DEF StoredOK, InProgress
  <2>2. RecordStep(task, r)
    BY <1>1, <1>3, <2>1 DEF RecordStep, GoesOn
  <2>3. t \in handler.left => r.state = task.state
    BY <1>3 DEF Idle
  <2> QED
    BY <1>1, <1>2, <1>3, <2>2, <2>3, ReplaceStep
<1>4. /\ \A i \in DOMAIN task.attempts : i # 0 /\ i \in 1..Len(task.attempts)
      /\ (\E i \in DOMAIN task.attempts : TRUE) => task.state # "absent"
      /\ task.assignment # 0 => task.state # "absent"
  <2>1. task.attempts \in Seq(Attempt)
    BY <1>1 DEF TaskRecord
  <2>2. task.attempts = <<>> => DOMAIN task.attempts = {}
    OBVIOUS
  <2> HIDE DEF task
  <2> QED  BY <1>1, <2>1, <2>2 DEF StoredOK, InProgress
<1>5. CASE LeaseRunsOut(t)
  <2> DEFINE r == [task EXCEPT !.expired = TRUE]
  <2>1. tasks' = [tasks EXCEPT ![t] = r] /\ task.assignment # 0
    BY <1>5 DEF LeaseRunsOut
  <2>2. r \in TaskRecord /\ SameAssignment(r, task) /\ r.state = task.state
    BY <1>1 DEF TaskRecord, SameAssignment
  <2> HIDE DEF r, task
  <2> QED
    BY <1>1, <1>3, <1>4, <2>1, <2>2, SameAssignmentSound DEF SameAssignment, SameWork
<1>6. CASE DeadlinePasses(t)
  <2> DEFINE r == [task EXCEPT !.overdue = TRUE]
  <2>1. tasks' = [tasks EXCEPT ![t] = r] /\ task.state # "absent"
    BY <1>6 DEF DeadlinePasses, Unfinished
  <2>2. r \in TaskRecord /\ SameAssignment(r, task) /\ r.state = task.state
    BY <1>1 DEF TaskRecord, SameAssignment
  <2> HIDE DEF r, task
  <2> QED
    BY <1>1, <1>3, <2>1, <2>2, SameAssignmentSound DEF SameAssignment, SameWork
<1>7. ASSUME NEW w \in Worker, NEW i \in DOMAIN task.attempts, StageAccepted(w, t, i)
      PROVE  StoredInv' /\ RecordsStep
  <2> DEFINE r == [task EXCEPT !.state = "running"]
  <2>1. /\ tasks' = [tasks EXCEPT ![t] = r]
        /\ handler = Idle /\ task.assignment # 0
    BY <1>4, <1>7 DEF StageAccepted, IsCurrent
  <2>2. r \in TaskRecord /\ SameAssignment(r, task) /\ r.state = "running"
    BY <1>1 DEF TaskRecord, SameAssignment, State
  <2> HIDE DEF r, task
  <2> QED
    BY <1>1, <1>3, <2>1, <2>2, SameAssignmentSound DEF SameAssignment, SameWork
<1>8. ASSUME NEW w \in Worker, NEW i \in DOMAIN task.attempts, Heartbeat(w, t, i)
      PROVE  StoredInv' /\ RecordsStep
  <2> DEFINE r == [task EXCEPT !.expired = FALSE, !.renewals = @ + 1]
  <2>1. /\ tasks' = [tasks EXCEPT ![t] = r] /\ task.assignment # 0
    BY <1>1, <1>4, <1>8 DEF Heartbeat, IsCurrent
  <2>2. r \in TaskRecord /\ SameAssignment(r, task) /\ r.state = task.state
    <3>1. task.renewals + 1 \in Nat
      BY <1>1 DEF TaskRecord
    <3> QED  BY <1>1, <3>1 DEF TaskRecord, SameAssignment
  <2> HIDE DEF r, task
  <2> QED
    BY <1>1, <1>3, <1>4, <2>1, <2>2, SameAssignmentSound DEF SameAssignment, SameWork
<1>9. ASSUME NEW w \in Worker, NEW i \in DOMAIN task.attempts, StaleHeartbeat(w, t, i)
      PROVE  StoredInv' /\ RecordsStep
  <2> DEFINE r == [task EXCEPT !.withdrawn = @ \cup {i}]
  <2>1. tasks' = [tasks EXCEPT ![t] = r] /\ task.assignment \notin {i}
    BY <1>9 DEF StaleHeartbeat, IsCurrent
  <2>2. {i} \in SUBSET (1..Len(task.attempts)) /\ task.state # "absent"
    BY <1>4
  <2>3. /\ RecordOK(r) /\ r.state = task.state /\ r.assignment = task.assignment
        /\ r.attempts = task.attempts
    BY <1>1, <2>1, <2>2, WithdrawnSound
  <2>4. SameWork(task, r)
    BY <1>1 DEF TaskRecord, SameWork
  <2> HIDE DEF r, task
  <2>5. r \in TaskRecord
    BY <2>3 DEF RecordOK
  <2> QED
    BY <1>3, <2>1, <2>2, <2>3, <2>4, <2>5
<1> QED
  BY <1>5, <1>6, <1>7, <1>8, <1>9

\* The messages of a consumer.
LEMMA ConsumerRecords ==
  ASSUME ConstantsAssumption, StoredInv, NEW t \in Task, Submit(t) \/ Cancel(t)
  PROVE  StoredInv' /\ RecordsStep
<1>1. /\ handler = Idle /\ handler' = handler /\ handler.left = {} /\ handler \in Handler
      /\ devices \in [Worker -> Device] /\ StoredOK(tasks[t]) /\ RecordOK(tasks[t])
      /\ tasks[t] \in TaskRecord
  BY DEF StoredInv, StoredOK, Submit, Cancel, Idle
<1>2. CASE Submit(t)
  <2> DEFINE created == [NewTask EXCEPT !.state = "queued"]
  <2>1. NewTask \in TaskRecord /\ RecordOK(NewTask)
    BY NewTaskSound DEF RecordOK
  <2>2. /\ created \in TaskRecord /\ SameAssignment(created, NewTask)
        /\ created.completed = 0 /\ created.attempts = <<>> /\ created.assignment = 0
        /\ created.acknowledged = {} /\ created.state = "queued"
        /\ created.value \in Value
    BY <2>1 DEF NewTask, TaskRecord, State, SameAssignment
  <2>3. Assign(t, created, devices, created.value, NextStage(created), NewPlacement)
    BY <1>2 DEF Submit
  <2> HIDE DEF created
  <2>4. RecordOK(created) /\ created.state \notin Finished
    BY <2>1, <2>2, SameAssignmentSound DEF Finished
  <2>5. NextStage(created) \in Stage /\ NextStage(created) = Position(created.completed + 1)
    BY <2>2, FirstStage
  <2>6. PICK r : /\ tasks' = [tasks EXCEPT ![t] = r]
                 /\ StoredOK(r) /\ r.state \in {"queued", "failed", "assigned"}
                 /\ Dropped(created, r) \/ Given(created, r)
    BY <1>1, <2>2, <2>3, <2>4, <2>5, AssignStep
  <2>7. devices' \in [Worker -> Device]
    BY <1>1, <2>2, <2>3, <2>4, <2>5, AssignStep
  <2>8. /\ tasks[t].state = "absent" /\ tasks[t].attempts = <<>> /\ tasks[t].completed = 0
        /\ tasks[t].assignment = 0 /\ tasks[t].acknowledged = {}
    <3>1. tasks[t].state = "absent" /\ tasks[t].attempts = <<>> /\ tasks[t].completed = 0
      BY <1>1, <1>2 DEF Submit, StoredOK
    <3>2. Len(<<>>) = 0 /\ 1..0 = {}
      OBVIOUS
    <3> QED  BY <1>1, <3>1, <3>2 DEF RecordOK
  <2>9. Dropped(tasks[t], r) \/ Given(tasks[t], r)
    BY <2>2, <2>6, <2>8 DEF Dropped, Given, SameWork, Finished
  <2>10. RecordStep(tasks[t], r)
    BY <2>6, <2>9 DEF RecordStep
  <2> QED
    BY <1>1, <2>6, <2>7, <2>10, ReplaceStep
<1>3. CASE Cancel(t)
  <2> DEFINE task == tasks[t]
             w == Superseded(task)
             told == IF w # NoWorker /\ IsOpen(devices, w) THEN {task.assignment} ELSE {}
             plain == Unassigned(task, "cancelled")
             new == [plain EXCEPT !.withdrawn = @ \cup told]
  <2>1. /\ tasks' = [tasks EXCEPT ![t] = new] /\ task.state # "absent"
        /\ devices' = IF w = NoWorker THEN devices ELSE Release(devices, w)
    BY <1>3 DEF Cancel
  <2>2. RecordOK(plain) /\ plain.assignment = 0 /\ plain.state = "cancelled"
    BY <1>1, UnassignedSound DEF State, Finished
  <2>3. plain.attempts = task.attempts /\ SameWork(task, plain)
    BY <1>1, UnassignedFields
  <2>4. told \in SUBSET (1..Len(task.attempts)) /\ 0 \notin told
    BY <1>1, CurrentTyped DEF Superseded
  <2> HIDE DEF told, plain
  <2>5. /\ RecordOK(new) /\ new.assignment = 0 /\ new.state = "cancelled"
        /\ new.attempts = plain.attempts
    BY <2>2, <2>3, <2>4, WithdrawnSound
  <2>6. SameWork(plain, new)
    BY <2>2 DEF RecordOK, TaskRecord, SameWork
  <2>7. w = NoWorker \/ w \in Worker
    BY <1>1, CurrentTyped DEF Superseded
  <2>8. devices' \in [Worker -> Device]
    BY <1>1, <2>1, <2>7, ReleaseTyped
  <2> HIDE DEF new
  <2>9. RecordStep(task, new)
    BY <2>1, <2>3, <2>5, <2>6 DEF RecordStep, Dropped, SameWork, StoredOK
  <2> QED
    BY <1>1, <2>1, <2>8, <2>9, ReplaceStep
<1> QED
  BY <1>2, <1>3

\* The messages of a worker that end an assignment without a result.
LEMMA LostRecords ==
  ASSUME ConstantsAssumption, StoredInv,
         NEW t \in Task, NEW w \in Worker, NEW i \in DOMAIN tasks[t].attempts,
         Relinquish(w, t, i) \/ StageFailed(w, t, i)
  PROVE  StoredInv' /\ RecordsStep
<1>1. /\ handler \in Handler /\ devices \in [Worker -> Device]
      /\ StoredOK(tasks[t]) /\ RecordOK(tasks[t]) /\ tasks[t] \in TaskRecord
  BY DEF StoredInv, StoredOK, RecordOK
<1>2. /\ handler = Idle /\ handler' = handler /\ handler.left = {}
      /\ tasks[t].assignment = i /\ tasks[t].assignment # 0 /\ tasks[t].attempts[i].worker = w
  BY <1>1 DEF Relinquish, StageFailed, WasSent, IsCurrent, Idle, TaskRecord
<1>3. CASE Relinquish(w, t, i)
  <2>1. Retry(t, {w}, NoWorker)
    BY <1>3 DEF Relinquish
  <2> QED
    BY <1>2, <2>1, RetryStep
<1>4. CASE StageFailed(w, t, i)
  <2> DEFINE new == Unassigned(tasks[t], "failed")
  <2>1. tasks' = [tasks EXCEPT ![t] = new] /\ devices' = Release(devices, w)
    BY <1>4 DEF StageFailed
  <2>2. RecordOK(new) /\ new.assignment = 0 /\ new.state = "failed"
    BY <1>1, UnassignedSound DEF State, Finished
  <2>3. new.attempts = tasks[t].attempts /\ SameWork(tasks[t], new)
    BY <1>1, UnassignedFields
  <2>4. tasks[t].state \notin Finished
    BY <1>1, <1>2 DEF StoredOK, InProgress, Finished
  <2> HIDE DEF new
  <2>5. RecordStep(tasks[t], new)
    BY <2>2, <2>3, <2>4 DEF RecordStep, Dropped, StoredOK
  <2>6. devices' \in [Worker -> Device]
    BY <1>1, <2>1, ReleaseTyped
  <2> QED
    BY <1>1, <1>2, <2>1, <2>5, <2>6, ReplaceStep
<1> QED
  BY <1>3, <1>4

\* Every step but the one that completes a stage, from sound records.
LEMMA OtherRecords ==
  ASSUME ConstantsAssumption, StoredInv, OtherStep
  PROVE  StoredInv' /\ RecordsStep
<1>1. CASE WalkStep
  BY <1>1, WalkRecords
<1>2. CASE RecoveryTimer \/ RegisterConsumer \/ \E w \in Worker : DeviceMessage(w)
  BY <1>2, DevicesRecords
<1>3. ASSUME NEW t \in Task, Submit(t) \/ Cancel(t) \/ LeaseRunsOut(t) \/ DeadlinePasses(t)
      PROVE  StoredInv' /\ RecordsStep
  BY <1>3, ConsumerRecords, FlagsRecords
<1>4. ASSUME NEW t \in Task, NEW w \in Worker, NEW i \in DOMAIN tasks[t].attempts,
             StageMessage(w, t, i)
      PROVE  StoredInv' /\ RecordsStep
  BY <1>4, FlagsRecords, LostRecords DEF StageMessage
<1> QED
  BY <1>1, <1>2, <1>3, <1>4 DEF OtherStep

-----------------------------------------------------------------------------
(* Results *)

(* An accepted result adds one stage, counted once. *)
LEMMA AddStageCounts ==
  ASSUME ConstantsAssumption,
         NEW task, RecordOK(task), task.assignment # 0, task.state = "running",
         NEW w \in Worker, NEW v \in Value
  PROVE  LET mid == AddStage(task, task.assignment, w, v)
         IN  /\ RecordOK(mid) /\ ResultCounted(task, mid)
             /\ mid.state = "running" /\ mid.value = v
<1> DEFINE mid == AddStage(task, task.assignment, w, v)
<1>1. RecordOK(mid)
  BY AddStageSound
<1>2. /\ mid.acknowledged = task.acknowledged \cup {task.assignment}
      /\ mid.completed = task.completed + 1
      /\ mid.attempts = task.attempts /\ mid.assignment = 0
      /\ mid.state = "running" /\ mid.value = v
  BY AddStageFields DEF RecordOK
<1> QED
  BY <1>1, <1>2 DEF ResultCounted

\* Accepting a result counts the stage of the current assignment and hands the task on,
\* or ends it (client_message_handler.ts:535-591).
LEMMA ResultRecords ==
  ASSUME ConstantsAssumption, StoredInv,
         NEW t \in Task, NEW w \in Worker, NEW v \in Value,
         NEW i \in DOMAIN tasks[t].attempts, StageResult(w, t, i, v)
  PROVE  /\ StoredInv'
         /\ tasks[t].assignment = i /\ ResultStep(tasks[t], tasks'[t])
         /\ \A u \in Task : u # t => tasks'[u] = tasks[u]
<1> DEFINE task == tasks[t]
           updated == AddStage(task, i, w, v)
           devs == Release(devices, w)
           upcoming == NextStage(updated)
<1>1. /\ handler \in Handler /\ devices \in [Worker -> Device] /\ RecordOK(task)
      /\ handler = Idle /\ handler' = handler /\ handler.left = {}
      /\ task.assignment = i /\ i # 0 /\ task.state = "running"
  BY SMTT(20) DEF StoredInv, StoredOK, RecordOK, TaskRecord, StageResult, IsCurrent, Idle
<1>2. /\ RecordOK(updated) /\ ResultCounted(task, updated)
      /\ updated.state = "running" /\ updated.value = v
  BY <1>1, AddStageCounts
<1>3. updated \in TaskRecord /\ updated.assignment = 0 /\ updated.completed \in Nat
  BY <1>2 DEF RecordOK, TaskRecord, ResultCounted
<1>4. devs \in [Worker -> Device]
  BY <1>1, ReleaseTyped
<1>5. \/ /\ tasks' = [tasks EXCEPT ![t] = [updated EXCEPT !.state = "completed"]]
         /\ devices' = devs
      \/ /\ upcoming # 0
         /\ \E options : Assign(t, updated, devs, v, upcoming, options)
  BY DEF StageResult
<1> HIDE DEF updated, devs
<1>6. ASSUME NEW r, tasks' = [tasks EXCEPT ![t] = r], StoredOK(r), r.state # "absent",
             devices' \in [Worker -> Device],
             \/ SameWork(updated, r) /\ r.attempts = updated.attempts /\ r.assignment = 0
             \/ Given(updated, r)
      PROVE  /\ StoredInv' /\ ResultStep(task, tasks'[t])
             /\ \A u \in Task : u # t => tasks'[u] = tasks[u]
  <2>1. ResultStep(task, r)
    BY <1>2, <1>6 DEF ResultStep
  <2>2. /\ StoredInv'
        /\ tasks'[t] = r /\ \A u \in Task : u # t => tasks'[u] = tasks[u]
    BY <1>1, <1>6, ReplaceStored
  <2> QED
    BY <2>1, <2>2
<1>7. CASE /\ tasks' = [tasks EXCEPT ![t] = [updated EXCEPT !.state = "completed"]]
           /\ devices' = devs
  <2> DEFINE new == [updated EXCEPT !.state = "completed"]
  <2>1. new \in TaskRecord /\ SameAssignment(new, updated) /\ new.state = "completed"
    BY <1>3 DEF TaskRecord, State, Finished, SameAssignment
  <2> HIDE DEF new
  <2>2. StoredOK(new)
    BY <1>2, <1>3, <2>1, SameAssignmentSound DEF StoredOK, SameAssignment
  <2>3. SameWork(updated, new) /\ new.attempts = updated.attempts /\ new.assignment = 0
    BY <1>3, <2>1 DEF SameWork, SameAssignment
  <2>4. tasks' = [tasks EXCEPT ![t] = new]
    BY <1>7 DEF new
  <2> QED
    BY <1>1, <1>4, <1>6, <1>7, <2>1, <2>2, <2>3, <2>4
<1>8. ASSUME NEW options, upcoming # 0, Assign(t, updated, devs, v, upcoming, options)
      PROVE  /\ StoredInv' /\ ResultStep(task, tasks'[t])
             /\ \A u \in Task : u # t => tasks'[u] = tasks[u]
  <2>1. upcoming \in Stage /\ upcoming = Position(updated.completed + 1)
    BY <1>3, <1>8, NextStageTyped, NextStageIsPosition
  <2>2. updated.state \notin Finished
    BY <1>2 DEF Finished
  <2> HIDE DEF upcoming
  <2>3. PICK r : /\ tasks' = [tasks EXCEPT ![t] = r]
                 /\ StoredOK(r) /\ r.state \in {"queued", "failed", "assigned"}
                 /\ Dropped(updated, r) \/ Given(updated, r)
    BY <1>2, <1>3, <1>4, <1>8, <2>1, <2>2, AssignStep
  <2>4. devices' \in [Worker -> Device]
    BY <1>2, <1>3, <1>4, <1>8, <2>1, <2>2, AssignStep
  <2>5. Dropped(updated, r) =>
          SameWork(updated, r) /\ r.attempts = updated.attempts /\ r.assignment = 0
    BY DEF Dropped
  <2> QED
    BY <1>6, <2>3, <2>4, <2>5
<1> QED
  BY <1>1, <1>5, <1>7, <1>8

-----------------------------------------------------------------------------
(* The specification *)

(* The gateway starts with an empty store, which counts every stage. *)
LEMMA InitStored ==
  ASSUME ConstantsAssumption, Init
  PROVE  StoredInv /\ StagesCounted
<1>1. RecordOK(NewTask) /\ NewTask \in TaskRecord /\ NewTask.assignment = 0
  BY NewTaskSound DEF RecordOK
<1>2. /\ NewTask.acknowledged = {} /\ NewTask.completed = 0 /\ NewTask.attempts = <<>>
  BY DEF NewTask
<1>3. StoredOK(NewTask) /\ CountedOK(NewTask)
  BY <1>1, <1>2, FS_EmptySet DEF StoredOK, CountedOK
<1>4. /\ tasks \in [Task -> TaskRecord]
      /\ \A t \in Task : StoredOK(tasks[t]) /\ CountedOK(tasks[t])
  BY <1>1, <1>3 DEF Init
<1>5. /\ devices \in [Worker -> Device]
      /\ handler \in Handler /\ handler.left = {}
  BY DEF Init, Unregistered, Device, Handler, Idle
<1> QED
  BY <1>4, <1>5 DEF StoredInv, StagesCounted, WalkOK

\* Every step keeps the records sound, and has one of the effects on each of them.
LEMMA NextRecords ==
  ASSUME ConstantsAssumption, StoredInv, [Next]_vars
  PROVE  /\ StoredInv'
         /\ \A t \in Task : \/ tasks'[t] = tasks[t]
                            \/ RecordStep(tasks[t], tasks'[t])
                            \/ ResultStep(tasks[t], tasks'[t])
<1>1. CASE OtherStep
  BY <1>1, OtherRecords DEF RecordsStep
<1>2. CASE StageCompletes
  <2>1. PICK t \in Task, w \in Worker, v \in Value :
          \E i \in DOMAIN tasks[t].attempts : StageResult(w, t, i, v)
    BY <1>2 DEF StageCompletes
  <2> QED
    BY <2>1, ResultRecords
<1>3. CASE UNCHANGED vars
  BY <1>3 DEF vars, StoredInv, WalkOK
<1> QED
  BY <1>1, <1>2, <1>3 DEF Next

\* Whatever results come late or twice and however often a stage is tried, what a task
\* has acknowledged is one assignment for each stage it has run, in pipeline order
\* (task_store.ts:229-246, client_message_handler.ts:535-591).
THEOREM StagesAreCountedOnce == Spec => []EachStageCountedOnce
<1>1. Init => StoredInv /\ StagesCounted
  BY InitStored, ConstantsAssumption
<1>2. StoredInv /\ StagesCounted /\ [Next]_vars => (StoredInv /\ StagesCounted)'
  <2> SUFFICES ASSUME StoredInv, StagesCounted, [Next]_vars
               PROVE  StoredInv' /\ StagesCounted'
    OBVIOUS
  <2>1. /\ StoredInv'
        /\ \A t \in Task : \/ tasks'[t] = tasks[t]
                           \/ RecordStep(tasks[t], tasks'[t])
                           \/ ResultStep(tasks[t], tasks'[t])
    BY NextRecords, ConstantsAssumption
  <2>2. \A t \in Task : StoredOK(tasks[t]) /\ CountedOK(tasks[t])
    BY DEF StoredInv, StagesCounted
  <2>3. \A t \in Task : CountedOK(tasks'[t])
    BY <2>1, <2>2, StepKeepsCount
  <2> QED
    BY <2>1, <2>3 DEF StagesCounted
<1>3. StoredInv /\ StagesCounted => EachStageCountedOnce
  BY CountedIsOnce
<1> QED
  BY <1>1, <1>2, <1>3, PTL DEF Spec

\* What RetryMovesAway says of one step.
LostMovesAway ==
  \A t \in Task :
    LET old == tasks[t].assignment
        new == tasks'[t].assignment
    IN  (old # 0 /\ new \notin {0, old} /\ old \notin tasks'[t].acknowledged) =>
          \/ tasks[t].attempts[old].stage \in Sticky
          \/ tasks'[t].attempts[new].worker # tasks[t].attempts[old].worker

(* When every record makes one such step, a stage that is retried leaves the worker that lost it. *)
LEMMA EffectMovesAway ==
  ASSUME StoredInv,
         \A t \in Task : \/ tasks'[t] = tasks[t]
                         \/ RecordStep(tasks[t], tasks'[t])
                         \/ ResultStep(tasks[t], tasks'[t])
  PROVE  LostMovesAway
<1> SUFFICES ASSUME NEW t \in Task, tasks[t].assignment # 0,
                    tasks'[t].assignment \notin {0, tasks[t].assignment},
                    tasks[t].assignment \notin tasks'[t].acknowledged
             PROVE  LET old == tasks[t].assignment
                        new == tasks'[t].assignment
                    IN  \/ tasks[t].attempts[old].stage \in Sticky
                        \/ tasks'[t].attempts[new].worker # tasks[t].attempts[old].worker
  BY DEF LostMovesAway
<1>1. ~ResultStep(tasks[t], tasks'[t])
  BY DEF ResultStep, ResultCounted, SameWork, Given
<1>2. Given(tasks[t], tasks'[t])
  BY <1>1 DEF RecordStep, GoesOn, Dropped
<1>3. tasks[t].attempts \in Seq(Attempt)
  BY DEF StoredInv, TaskRecord
<1>4. PICK attempt \in Attempt :
        /\ tasks'[t].attempts = Append(tasks[t].attempts, attempt)
        /\ tasks'[t].assignment = Len(tasks[t].attempts) + 1
        /\ LET lost == tasks[t].attempts[tasks[t].assignment]
           IN  lost.stage \in Sticky \/ attempt.worker # lost.worker
  BY <1>2 DEF Given
<1>5. tasks'[t].attempts[tasks'[t].assignment] = attempt
  BY <1>3, <1>4
<1> QED
  BY <1>4, <1>5

\* An attempt lost to a lapsed lease, a disconnection or a relinquish is never replaced
\* on the worker that lost it, unless its stage keeps state there
\* (task_scheduler.ts:141-193, device_registry.ts:97-106).
THEOREM LostAttemptsMoveAway == Spec => RetryMovesAway
<1>1. Init => StoredInv
  BY InitStored, ConstantsAssumption
<1>2. StoredInv /\ [Next]_vars => StoredInv'
  BY NextRecords, ConstantsAssumption
<1>3. StoredInv /\ [Next]_vars => [LostMovesAway]_vars
  BY NextRecords, EffectMovesAway, ConstantsAssumption
<1>4. LostMovesAway <=>
        \A t \in Task :
          LET old == tasks[t].assignment
              new == tasks'[t].assignment
          IN  (old # 0 /\ new \notin {0, old} /\ old \notin tasks'[t].acknowledged) =>
                \/ tasks[t].attempts[old].stage \in Sticky
                \/ tasks'[t].attempts[new].worker # tasks[t].attempts[old].worker
  BY DEF LostMovesAway
<1> QED
  BY <1>1, <1>2, <1>3, <1>4, PTL DEF Spec, RetryMovesAway

-----------------------------------------------------------------------------
(***************************************************************************)
(* The assignment counters of the registry: what release and occupy do to  *)
(* them in every handler, and what follows for placing.  A counter is      *)
(* never below what its worker holds, so room by the counter is room       *)
(* indeed; it may be above (CounterReturnsToZero fails).                   *)
(*                                                                         *)
(* The proofs rest on StoredInv, so they serve DurableGateway too.         *)
(***************************************************************************)

Holds(task, w) == IF Superseded(task) = w THEN 1 ELSE 0

\* When a record changes, the counters move up for what is given, and down by no more
\* than what is taken.
Moves(old, devs, new, devs2) ==
  \A w \in Worker :
    /\ devs2[w].connection = devs[w].connection /\ devs2[w].limit = devs[w].limit
    /\ devs2[w].active + Holds(old, w) >= devs[w].active + Holds(new, w)

\* A worker that is given an assignment it did not hold has room by its counter.
Room(old, new) ==
  \A w \in Worker :
    Superseded(new) = w /\ Superseded(old) # w =>
      IsOpen(devices, w) /\ devices[w].active < devices[w].limit

\* What a handler that touches the task t does to records and counters.
Books(t) ==
  /\ \A u \in Task : u # t => tasks'[u] = tasks[u]
  /\ Moves(tasks[t], devices, tasks'[t], devices')
  /\ Room(tasks[t], tasks'[t])

\* A counter is never below what the worker holds, and a worker that has not connected
\* yet holds nothing.
HeldCounted ==
  \A w \in Worker :
    /\ IsFiniteSet(Held(w))
    /\ IsOpen(devices, w) => Cardinality(Held(w)) <= devices[w].active
    /\ devices[w].connection = "new" => Held(w) = {}

-----------------------------------------------------------------------------
(* Counters *)

\* releaseWorkerAssignment takes one assignment from the counter at most.
LEMMA ReleaseCounts ==
  ASSUME NEW devs \in [Worker -> Device], NEW w \in Worker, NEW u \in Worker
  PROVE  LET new == Release(devs, w)
         IN  /\ new[u].connection = devs[u].connection /\ new[u].limit = devs[u].limit
             /\ new[u].ready = devs[u].ready /\ new[u].offers = devs[u].offers
             /\ u # w => new[u].active = devs[u].active
             /\ new[u].active \in Nat /\ new[u].active + 1 >= devs[u].active
             /\ new[u].active <= devs[u].active
<1>1. devs[u] \in Device /\ devs[w] \in Device
  OBVIOUS
<1>2. devs[u].active \in Nat
  BY <1>1 DEF Device
<1>3. CASE IsOpen(devs, w) /\ devs[w].active > 0
  <2>1. Release(devs, w) = [devs EXCEPT ![w].active = @ - 1]
    BY <1>3 DEF Release
  <2>2. CASE u = w
    BY <1>1, <1>2, <1>3, <2>1, <2>2 DEF Device
  <2>3. CASE u # w
    BY <1>1, <1>2, <2>1, <2>3
  <2> QED
    BY <2>2, <2>3
<1>4. CASE ~(IsOpen(devs, w) /\ devs[w].active > 0)
  BY <1>2, <1>4 DEF Release
<1> QED
  BY <1>3, <1>4

\* occupyWorkerAssignment adds one assignment to one counter.
LEMMA OccupyCounts ==
  ASSUME NEW devs \in [Worker -> Device], NEW w \in Worker, NEW u \in Worker
  PROVE  LET new == Occupy(devs, w)
         IN  /\ new[u].connection = devs[u].connection /\ new[u].limit = devs[u].limit
             /\ new[u].ready = devs[u].ready /\ new[u].offers = devs[u].offers
             /\ new[u].active = devs[u].active + (IF u = w THEN 1 ELSE 0)
<1>1. devs[u] \in Device
  OBVIOUS
<1>2. devs[u].active \in Nat
  BY <1>1 DEF Device
<1> QED
  BY <1>1, <1>2 DEF Occupy, Device

(* A task holds a worker once or not at all. *)
LEMMA HoldsTyped ==
  ASSUME NEW task, NEW w
  PROVE  Holds(task, w) \in {0, 1}
BY DEF Holds

\* The worker of a record with no assignment, and of one just placed.
LEMMA SupersededOf ==
  ASSUME NEW task
  PROVE  task.assignment = 0 => Superseded(task) = NoWorker
BY DEF Superseded

(* The worker a placed task occupies is the one it was placed on. *)
LEMMA SupersededOfPlaced ==
  ASSUME NEW task \in TaskRecord, NEW devs, NEW value, NEW stage, NEW w
  PROVE  Superseded(Placed(task, devs, value, stage, w)) = w
<1> DEFINE new == Placed(task, devs, value, stage, w)
           attempt == [worker |-> w, stage |-> stage, value |-> value]
<1>1. new.attempts = Append(task.attempts, attempt) /\ new.assignment = Len(task.attempts) + 1
  BY PlacedFields
<1>2. task.attempts \in Seq(Attempt)
  BY DEF TaskRecord
<1> HIDE DEF new
<1>3. new.attempts[new.assignment] = attempt /\ new.assignment # 0
  BY <1>1, <1>2
<1> QED
  BY <1>3 DEF Superseded, new

\* A candidate other than the preferred worker has room, and the preferred one has when
\* nothing of the task is discounted (device_registry.ts:108-131).
LEMMA CandidateHasRoom ==
  ASSUME NEW devs \in [Worker -> Device], NEW stage, NEW options,
         NEW w \in Candidates(devs, stage, options),
         w # options.preferred \/ options.released
  PROVE  w \in Worker /\ IsOpen(devs, w) /\ devs[w].active < devs[w].limit
<1>1. \A excluded : \A u \in FindWorkers(devs, stage, excluded) :
        u \in Worker /\ IsOpen(devs, u) /\ devs[u].active < devs[u].limit
  BY DEF FindWorkers, Offering
<1>2. options.preferred \in Worker /\ Reusable(devs, options.preferred, stage, TRUE) =>
        /\ IsOpen(devs, options.preferred)
        /\ devs[options.preferred].active < devs[options.preferred].limit
  <2> SUFFICES ASSUME options.preferred \in Worker,
                      Reusable(devs, options.preferred, stage, TRUE)
               PROVE  /\ IsOpen(devs, options.preferred)
                      /\ devs[options.preferred].active < devs[options.preferred].limit
    OBVIOUS
  <2>1. devs[options.preferred].limit \in Nat
    <3>1. devs[options.preferred] \in Device
      OBVIOUS
    <3> QED  BY <3>1 DEF Device
  <2> QED
    BY <2>1 DEF Reusable, Offering
<1>3. \/ /\ w = options.preferred /\ options.preferred \in Worker
         /\ Reusable(devs, w, stage, options.released)
      \/ \E excluded : w \in FindWorkers(devs, stage, excluded)
  BY DEF Candidates
<1> QED
  BY <1>1, <1>2, <1>3 DEF Reusable

\* What assign does to the counters: nothing when it gives the stage to nobody; else the
\* replaced assignment is released and the new one occupied (task_scheduler.ts:103-137).
LEMMA AssignMoves ==
  ASSUME ConstantsAssumption, StoredInv,
         NEW t \in Task, NEW task, RecordOK(task),
         NEW devs \in [Worker -> Device],
         NEW value \in Value, NEW stage \in Stage, NEW options,
         Assign(t, task, devs, value, stage, options)
  PROVE  /\ \A u \in Task : u # t => tasks'[u] = tasks[u]
         /\ Moves(task, devs, tasks'[t], devices')
         /\ \/ Superseded(tasks'[t]) = NoWorker
            \/ Superseded(tasks'[t]) \in Candidates(devs, stage, options)
<1>1. task \in TaskRecord /\ tasks \in [Task -> TaskRecord]
  BY DEF RecordOK, StoredInv
<1>2. NoWorker \notin Worker
  BY DEF ConstantsAssumption
<1>3. \A u \in Worker : devs[u] \in Device /\ devs[u].active \in Nat
  BY DEF Device
<1>4. ASSUME NEW st, tasks' = [tasks EXCEPT ![t] = Unassigned(task, st)], devices' = devs
      PROVE  /\ \A u \in Task : u # t => tasks'[u] = tasks[u]
             /\ Moves(task, devs, tasks'[t], devices')
             /\ Superseded(tasks'[t]) = NoWorker
  <2>1. /\ tasks'[t] = Unassigned(task, st) /\ \A u \in Task : u # t => tasks'[u] = tasks[u]
    BY <1>1, <1>4
  <2>2. Superseded(tasks'[t]) = NoWorker
    BY <1>1, <2>1, UnassignedFields DEF Superseded
  <2>3. \A u \in Worker : Holds(tasks'[t], u) = 0
    BY <1>2, <2>2 DEF Holds
  <2>4. \A u \in Worker : Holds(task, u) \in {0, 1}
    BY HoldsTyped
  <2> QED
    BY <1>3, <1>4, <2>1, <2>2, <2>3, <2>4 DEF Moves
<1>5. ASSUME NEW w \in Candidates(devs, stage, options), Place(t, task, devs, value, stage, w)
      PROVE  /\ \A u \in Task : u # t => tasks'[u] = tasks[u]
             /\ Moves(task, devs, tasks'[t], devices')
             /\ Superseded(tasks'[t]) = w
  <2> DEFINE old == Superseded(task)
             freed == IF old = NoWorker THEN devs ELSE Release(devs, old)
  <2>1. w \in Worker
    BY <1>5, CandidatesOpen
  <2>2. /\ tasks' = [tasks EXCEPT ![t] = Placed(task, devs, value, stage, w)]
        /\ devices' = Occupy(freed, w)
    BY <1>5 DEF Place
  <2>3. /\ tasks'[t] = Placed(task, devs, value, stage, w)
        /\ \A u \in Task : u # t => tasks'[u] = tasks[u]
    BY <1>1, <2>2
  <2>4. Superseded(tasks'[t]) = w
    BY <1>1, <2>3, SupersededOfPlaced
  <2>5. old \in Worker \cup {NoWorker}
    BY CurrentTyped DEF Superseded
  <2>6. freed \in [Worker -> Device]
    BY <2>5, ReleaseTyped
  <2>7. ASSUME NEW u \in Worker
        PROVE  /\ freed[u].connection = devs[u].connection /\ freed[u].limit = devs[u].limit
               /\ freed[u].active \in Nat
               /\ freed[u].active + Holds(task, u) >= devs[u].active
    <3>1. CASE old = NoWorker
      BY <1>2, <1>3, <3>1 DEF Holds
    <3>2. CASE old # NoWorker
      <4>1. /\ freed[u].connection = devs[u].connection /\ freed[u].limit = devs[u].limit
            /\ u # old => freed[u].active = devs[u].active
            /\ freed[u].active \in Nat /\ freed[u].active + 1 >= devs[u].active
        BY <2>5, <3>2, ReleaseCounts
      <4> QED
        BY <1>3, <4>1 DEF Holds
    <3> QED
      BY <3>1, <3>2
  <2> HIDE DEF freed, old
  <2>8. ASSUME NEW u \in Worker
        PROVE  /\ devices'[u].connection = devs[u].connection
               /\ devices'[u].limit = devs[u].limit
               /\ devices'[u].active + Holds(task, u) >= devs[u].active + Holds(tasks'[t], u)
    <3>1. /\ devices'[u].connection = freed[u].connection /\ devices'[u].limit = freed[u].limit
          /\ devices'[u].active = freed[u].active + (IF u = w THEN 1 ELSE 0)
      BY <2>1, <2>2, <2>6, OccupyCounts
    <3>2. Holds(tasks'[t], u) = IF u = w THEN 1 ELSE 0
      BY <2>4 DEF Holds
    <3>3. Holds(task, u) \in {0, 1} /\ devs[u].active \in Nat
      BY <1>3, HoldsTyped
    <3> QED
      BY <2>7, <3>1, <3>2, <3>3
  <2> QED
    BY <2>3, <2>4, <2>8 DEF Moves
<1> QED
  BY <1>4, <1>5, AssignEffect

-----------------------------------------------------------------------------
(* One task at a time *)

\* A worker holds one task more or less when a handler touches one task.
LEMMA HeldChanges ==
  ASSUME NEW t \in Task, NEW w \in Worker, \A u \in Task : u # t => tasks'[u] = tasks[u],
         IsFiniteSet(Held(w))
  PROVE  /\ IsFiniteSet(Held(w)') /\ Cardinality(Held(w)) \in Nat
         /\ Cardinality(Held(w)') =
              Cardinality(Held(w)) + Holds(tasks'[t], w) - Holds(tasks[t], w)
<1> DEFINE H == Held(w)
<1>1. Cardinality(H) \in Nat
  BY FS_CardinalityType
<1>2. t \in H <=> Superseded(tasks[t]) = w
  BY DEF Held
<1>3. CASE Superseded(tasks'[t]) = w
  <2>1. H' = H \cup {t}
    BY <1>3 DEF Held
  <2>2. /\ IsFiniteSet(H \cup {t})
        /\ Cardinality(H \cup {t}) = IF t \in H THEN Cardinality(H) ELSE Cardinality(H) + 1
    BY FS_AddElement
  <2> HIDE DEF H
  <2> QED
    BY <1>1, <1>2, <1>3, <2>1, <2>2 DEF Holds, H
<1>4. CASE Superseded(tasks'[t]) # w
  <2>1. H' = H \ {t}
    BY <1>4 DEF Held
  <2>2. /\ IsFiniteSet(H \ {t})
        /\ Cardinality(H \ {t}) = IF t \in H THEN Cardinality(H) - 1 ELSE Cardinality(H)
    BY FS_RemoveElement
  <2> HIDE DEF H
  <2> QED
    BY <1>1, <1>2, <1>4, <2>1, <2>2 DEF Holds, H
<1> QED
  BY <1>3, <1>4

\* What NeverOverbooked says of one step.
Overbooks ==
  \E w \in Worker :
    Cardinality(Held(w)') > Cardinality(Held(w)) /\ ~(Cardinality(Held(w)') <= devices[w].limit)

\* Books keeps counters at or above what is held, and gives only where there is room.
LEMMA BooksCounts ==
  ASSUME StoredInv, StoredInv', HeldCounted, NEW t \in Task, Books(t)
  PROVE  HeldCounted' /\ ~Overbooks
<1> SUFFICES ASSUME NEW w \in Worker
             PROVE  /\ IsFiniteSet(Held(w)')
                    /\ IsOpen(devices', w) => Cardinality(Held(w)') <= devices'[w].active
                    /\ devices'[w].connection = "new" => Held(w)' = {}
                    /\ Cardinality(Held(w)') > Cardinality(Held(w)) =>
                         Cardinality(Held(w)') <= devices[w].limit
  <2>1. \A w \in Worker : IsOpen(devices, w)' <=> IsOpen(devices', w)
    BY DEF IsOpen
  <2> QED
    BY <2>1 DEF HeldCounted, Overbooks
<1>1. /\ IsFiniteSet(Held(w))
      /\ IsOpen(devices, w) => Cardinality(Held(w)) <= devices[w].active
      /\ devices[w].connection = "new" => Held(w) = {}
  BY DEF HeldCounted
<1>2. /\ IsFiniteSet(Held(w)') /\ Cardinality(Held(w)) \in Nat
      /\ Cardinality(Held(w)') =
           Cardinality(Held(w)) + Holds(tasks'[t], w) - Holds(tasks[t], w)
  BY <1>1, HeldChanges DEF Books
<1>3. /\ devices'[w].connection = devices[w].connection
      /\ devices'[w].active + Holds(tasks[t], w) >= devices[w].active + Holds(tasks'[t], w)
  BY DEF Books, Moves
<1>4. devices[w].active \in Nat /\ devices'[w].active \in Nat /\ devices[w].limit \in Nat
  <2>1. devices[w] \in Device /\ devices'[w] \in Device
    BY DEF StoredInv
  <2> QED
    BY <2>1 DEF Device
<1>5. Holds(tasks[t], w) \in {0, 1} /\ Holds(tasks'[t], w) \in {0, 1}
  BY HoldsTyped
<1>6. IsOpen(devices', w) => Cardinality(Held(w)') <= devices'[w].active
  BY <1>1, <1>2, <1>3, <1>4, <1>5 DEF IsOpen
<1>7. Holds(tasks'[t], w) = 1 /\ Holds(tasks[t], w) = 0 =>
        IsOpen(devices, w) /\ devices[w].active < devices[w].limit
  BY DEF Books, Room, Holds
<1>8. devices'[w].connection = "new" => Held(w)' = {}
  <2> SUFFICES ASSUME devices'[w].connection = "new", NEW u \in Held(w)'
               PROVE  FALSE
    OBVIOUS
  <2>1. u \in Task /\ Superseded(tasks'[u]) = w /\ Held(w) = {}
    BY <1>1, <1>3 DEF Held
  <2>2. Superseded(tasks[u]) # w
    BY <2>1 DEF Held
  <2>3. u = t
    BY <2>1, <2>2 DEF Books
  <2>4. IsOpen(devices, w)
    BY <2>1, <2>2, <2>3 DEF Books, Room
  <2> QED
    BY <1>3, <2>4 DEF IsOpen
<1>9. Cardinality(Held(w)') > Cardinality(Held(w)) => Cardinality(Held(w)') <= devices[w].limit
  BY <1>1, <1>2, <1>4, <1>5, <1>7
<1> QED
  BY <1>2, <1>6, <1>8, <1>9

\* A step that leaves the record's assignment, or drops it, and the counters.
LEMMA KeepsBooks ==
  ASSUME ConstantsAssumption, StoredInv, NEW t \in Task, NEW r,
         tasks' = [tasks EXCEPT ![t] = r], UNCHANGED devices,
         Superseded(r) = Superseded(tasks[t]) \/ (r.assignment = 0)
  PROVE  Books(t)
<1>1. tasks'[t] = r /\ \A u \in Task : u # t => tasks'[u] = tasks[u]
  BY DEF StoredInv
<1>2. \A w \in Worker : devices[w].active \in Nat
  <2>1. \A w \in Worker : devices[w] \in Device
    BY DEF StoredInv
  <2> QED
    BY <2>1 DEF Device
<1>3. Superseded(r) \in {Superseded(tasks[t]), NoWorker}
  BY SupersededOf
<1>4. \A w \in Worker : Superseded(r) = w => Superseded(tasks[t]) = w
  BY <1>3 DEF ConstantsAssumption
<1>5. \A w \in Worker : devices[w].active + Holds(tasks[t], w) >= devices[w].active + Holds(r, w)
  BY <1>2, <1>4 DEF Holds
<1> QED
  BY <1>1, <1>4, <1>5 DEF Books, Moves, Room

\* A handler that takes the assignment away and releases its worker.
LEMMA DropBooks ==
  ASSUME ConstantsAssumption, StoredInv, NEW t \in Task,
         tasks'[t].assignment = 0, \A u \in Task : u # t => tasks'[u] = tasks[u],
         devices' = IF Superseded(tasks[t]) = NoWorker THEN devices
                    ELSE Release(devices, Superseded(tasks[t]))
  PROVE  Books(t)
<1> DEFINE w == Superseded(tasks[t])
<1>1. RecordOK(tasks[t]) /\ devices \in [Worker -> Device]
  BY DEF StoredInv, StoredOK
<1>2. w \in Worker \cup {NoWorker}
  BY <1>1, CurrentTyped DEF Superseded
<1>3. Superseded(tasks'[t]) = NoWorker /\ NoWorker \notin Worker
  BY SupersededOf DEF ConstantsAssumption
<1>4. \A u \in Worker : devices[u].active \in Nat
  <2>1. \A u \in Worker : devices[u] \in Device
    BY <1>1
  <2> QED
    BY <2>1 DEF Device
<1>5. ASSUME NEW u \in Worker
      PROVE  /\ devices'[u].connection = devices[u].connection
             /\ devices'[u].limit = devices[u].limit
             /\ devices'[u].active + Holds(tasks[t], u) >= devices[u].active + 0
  BY <1>1, <1>2, <1>4, ReleaseCounts DEF Holds
<1> QED
  BY <1>3, <1>5 DEF Books, Moves, Room, Holds

\* assign, from the registry as it is: the worker whose assignment is replaced may be
\* preferred while it still holds it, any other preferred one must have room.
LEMMA AssignBooks ==
  ASSUME ConstantsAssumption, StoredInv,
         NEW t \in Task, NEW task, RecordOK(task), Superseded(task) = Superseded(tasks[t]),
         NEW value \in Value, NEW stage \in Stage, NEW options,
         options.released \/ options.preferred \in {NoWorker, Superseded(tasks[t])},
         Assign(t, task, devices, value, stage, options)
  PROVE  Books(t)
<1>1. devices \in [Worker -> Device] /\ NoWorker \notin Worker
  BY DEF StoredInv, ConstantsAssumption
<1>2. /\ \A u \in Task : u # t => tasks'[u] = tasks[u]
      /\ Moves(task, devices, tasks'[t], devices')
      /\ \/ Superseded(tasks'[t]) = NoWorker
         \/ Superseded(tasks'[t]) \in Candidates(devices, stage, options)
  BY <1>1, AssignMoves
<1>3. Moves(tasks[t], devices, tasks'[t], devices')
  BY <1>2 DEF Moves, Holds
<1>4. ASSUME NEW w \in Worker, Superseded(tasks'[t]) = w, Superseded(tasks[t]) # w
      PROVE  IsOpen(devices, w) /\ devices[w].active < devices[w].limit
  <2>1. w \in Candidates(devices, stage, options)
    BY <1>1, <1>2, <1>4
  <2>2. w # options.preferred \/ options.released
    BY <1>1, <1>4
  <2> QED
    BY <1>1, <2>1, <2>2, CandidateHasRoom
<1> QED
  BY <1>2, <1>3, <1>4 DEF Books, Room

(* retry moves one task, and its one unit of a worker's capacity with it. *)
LEMMA RetryBooks ==
  ASSUME ConstantsAssumption, StoredInv,
         NEW t \in Task, tasks[t].assignment # 0, NEW excluded, NEW preferred,
         preferred \in {NoWorker, Superseded(tasks[t])},
         Retry(t, excluded, preferred)
  PROVE  Books(t)
<1> DEFINE lost == tasks[t].attempts[tasks[t].assignment]
           options == [NewPlacement EXCEPT !.excluded = excluded, !.retry = TRUE,
                                           !.preferred = preferred]
<1>1. RecordOK(tasks[t])
  BY DEF StoredInv, StoredOK
<1>2. lost.stage \in Stage /\ lost.value \in Value
  BY <1>1, CurrentTyped
<1>3. Assign(t, tasks[t], devices, lost.value, lost.stage, options)
  BY DEF Retry
<1>4. options.preferred = preferred
  BY DEF NewPlacement
<1> HIDE DEF options
<1> QED
  BY <1>1, <1>2, <1>3, <1>4, AssignBooks

(* One task of a sweep moves at most one unit of capacity. *)
LEMMA WalkBooks ==
  ASSUME ConstantsAssumption, StoredInv, NEW t \in Task,
         ScheduleTask(t) \/ RecoverLease(t) \/ RecoverDisconnected(t)
  PROVE  Books(t) \/ UNCHANGED <<tasks, devices>>
<1>1. RecordOK(tasks[t]) /\ tasks[t] \in TaskRecord /\ tasks \in [Task -> TaskRecord]
  BY DEF StoredInv, StoredOK, RecordOK
<1>2. CASE ScheduleTask(t)
  <2> DEFINE task == tasks[t]
             failed == [task EXCEPT !.state = "failed"]
  <2>1. task.assignment = 0
    BY <1>2 DEF StoredInv, StoredOK, WalkOK, ScheduleTask, InProgress
  <2>2. CASE task.overdue
    <3>1. tasks' = [tasks EXCEPT ![t] = failed] /\ UNCHANGED devices
      BY <1>1, <1>2, <2>2 DEF ScheduleTask
    <3>2. failed.assignment = 0
      BY <1>1, <2>1 DEF TaskRecord
    <3> HIDE DEF failed
    <3> QED
      BY <3>1, <3>2, KeepsBooks
  <2>3. CASE ~task.overdue /\ NextStage(task) = 0
    BY <1>2, <2>3 DEF ScheduleTask
  <2>4. CASE ~task.overdue /\ NextStage(task) # 0
    <3> DEFINE options == [NewPlacement EXCEPT
                             !.preferred = PreferredWorker(task, NextStage(task), NoWorker),
                             !.released = TRUE]
    <3>1. Assign(t, task, devices, task.value, NextStage(task), options)
      BY <1>2, <2>4 DEF ScheduleTask
    <3>2. NextStage(task) \in Stage /\ task.value \in Value
      BY <1>1, <2>4, NextStageTyped DEF TaskRecord
    <3>3. options.released
      BY DEF NewPlacement
    <3> HIDE DEF options
    <3> QED
      BY <1>1, <3>1, <3>2, <3>3, AssignBooks
  <2> QED
    BY <2>2, <2>3, <2>4
<1>3. CASE RecoverLease(t) \/ RecoverDisconnected(t)
  <2>1. tasks[t].assignment # 0
    BY <1>3 DEF StoredInv, WalkOK, RecoverLease, RecoverDisconnected
  <2>2. Superseded(tasks[t]) = tasks[t].attempts[tasks[t].assignment].worker
    BY <2>1 DEF Superseded
  <2>3. \E excluded : \E preferred \in {NoWorker, Superseded(tasks[t])} :
          Retry(t, excluded, preferred)
    BY <1>3, <2>2 DEF RecoverLease, RecoverDisconnected
  <2> QED
    BY <2>1, <2>3, RetryBooks
<1> QED
  BY <1>2, <1>3

(* A submission or cancellation moves at most one unit of capacity. *)
LEMMA ConsumerBooks ==
  ASSUME ConstantsAssumption, StoredInv, NEW t \in Task, Submit(t) \/ Cancel(t)
  PROVE  Books(t)
<1>1. /\ RecordOK(tasks[t]) /\ tasks[t] \in TaskRecord /\ tasks \in [Task -> TaskRecord]
      /\ devices \in [Worker -> Device] /\ StoredOK(tasks[t])
  BY DEF StoredInv, StoredOK, RecordOK
<1>2. CASE Submit(t)
  <2> DEFINE created == [NewTask EXCEPT !.state = "queued"]
  <2>1. NewTask \in TaskRecord /\ RecordOK(NewTask)
    BY NewTaskSound DEF RecordOK
  <2>2. /\ created \in TaskRecord /\ SameAssignment(created, NewTask)
        /\ created.completed = 0 /\ created.assignment = 0 /\ created.value \in Value
    BY <2>1 DEF NewTask, TaskRecord, State, SameAssignment
  <2>3. Assign(t, created, devices, created.value, NextStage(created), NewPlacement)
    BY <1>2 DEF Submit
  <2> HIDE DEF created
  <2>4. RecordOK(created) /\ NextStage(created) \in Stage
    BY <2>1, <2>2, SameAssignmentSound, FirstStage
  <2>5. tasks[t].assignment = 0
    BY <1>1, <1>2 DEF Submit, StoredOK, InProgress
  <2>6. NewPlacement.preferred = NoWorker
    BY DEF NewPlacement
  <2> QED
    BY <2>2, <2>3, <2>4, <2>5, <2>6, SupersededOf, AssignBooks
<1>3. CASE Cancel(t)
  <2>1. tasks'[t].assignment = 0 /\ \A u \in Task : u # t => tasks'[u] = tasks[u]
    BY <1>1, <1>3 DEF Cancel, Unassigned, TaskRecord
  <2>2. devices' = IF Superseded(tasks[t]) = NoWorker THEN devices
                   ELSE Release(devices, Superseded(tasks[t]))
    BY <1>3 DEF Cancel
  <2> QED
    BY <2>1, <2>2, DropBooks
<1> QED
  BY <1>2, <1>3

\* Time, and the messages of a worker that do not end its assignment with a result.
LEMMA MessageBooks ==
  ASSUME ConstantsAssumption, StoredInv, NEW t \in Task,
         \/ LeaseRunsOut(t)
         \/ DeadlinePasses(t)
         \/ \E w \in Worker : \E i \in DOMAIN tasks[t].attempts : StageMessage(w, t, i)
  PROVE  Books(t)
<1>1. /\ RecordOK(tasks[t]) /\ tasks[t] \in TaskRecord /\ tasks \in [Task -> TaskRecord]
      /\ devices \in [Worker -> Device]
  BY DEF StoredInv, StoredOK, RecordOK
<1>2. ASSUME NEW r, tasks' = [tasks EXCEPT ![t] = r], UNCHANGED devices,
             r.assignment = tasks[t].assignment, r.attempts = tasks[t].attempts
      PROVE  Books(t)
  BY <1>2, KeepsBooks DEF Superseded
<1>3. CASE LeaseRunsOut(t)
  <2>1. tasks' = [tasks EXCEPT ![t] = [tasks[t] EXCEPT !.expired = TRUE]] /\ UNCHANGED devices
    BY <1>1, <1>3 DEF LeaseRunsOut
  <2> QED
    BY <1>1, <1>2, <2>1 DEF TaskRecord
<1>4. CASE DeadlinePasses(t)
  <2>1. tasks' = [tasks EXCEPT ![t] = [tasks[t] EXCEPT !.overdue = TRUE]] /\ UNCHANGED devices
    BY <1>1, <1>4 DEF DeadlinePasses
  <2> QED
    BY <1>1, <1>2, <2>1 DEF TaskRecord
<1>5. ASSUME NEW w \in Worker, NEW i \in DOMAIN tasks[t].attempts, StageMessage(w, t, i)
      PROVE  Books(t)
  <2>1. i # 0
    BY <1>1 DEF TaskRecord
  <2>2. CASE StageAccepted(w, t, i)
    <3>1. tasks' = [tasks EXCEPT ![t] = [tasks[t] EXCEPT !.state = "running"]] /\ UNCHANGED devices
      BY <1>1, <2>2 DEF StageAccepted
    <3> QED
      BY <1>1, <1>2, <3>1 DEF TaskRecord
  <2>3. CASE Heartbeat(w, t, i)
    <3>1. /\ tasks' = [tasks EXCEPT ![t] =
                         [tasks[t] EXCEPT !.expired = FALSE, !.renewals = @ + 1]]
          /\ UNCHANGED devices
      BY <1>1, <2>3 DEF Heartbeat
    <3> QED
      BY <1>1, <1>2, <3>1 DEF TaskRecord
  <2>4. CASE StaleHeartbeat(w, t, i)
    <3>1. /\ tasks' = [tasks EXCEPT ![t] = [tasks[t] EXCEPT !.withdrawn = @ \cup {i}]]
          /\ UNCHANGED devices
      BY <1>1, <2>4 DEF StaleHeartbeat
    <3> QED
      BY <1>1, <1>2, <3>1 DEF TaskRecord
  <2>5. CASE Relinquish(w, t, i)
    BY <2>1, <2>5, RetryBooks DEF Relinquish, IsCurrent
  <2>6. CASE StageFailed(w, t, i)
    <3>1. /\ tasks' = [tasks EXCEPT ![t] = Unassigned(tasks[t], "failed")]
          /\ devices' = Release(devices, w)
          /\ tasks[t].assignment = i /\ tasks[t].attempts[i].worker = w
      BY <1>1, <2>6 DEF StageFailed, IsCurrent, WasSent
    <3>2. Superseded(tasks[t]) = w /\ w # NoWorker
      BY <2>1, <3>1 DEF Superseded, ConstantsAssumption
    <3>3. Unassigned(tasks[t], "failed").assignment = 0
      BY <1>1, UnassignedFields
    <3>4. tasks'[t].assignment = 0 /\ \A u \in Task : u # t => tasks'[u] = tasks[u]
      BY <1>1, <3>1, <3>3
    <3> QED
      BY <3>1, <3>2, <3>4, DropBooks
  <2> QED
    BY <1>5, <2>2, <2>3, <2>4, <2>5, <2>6 DEF StageMessage
<1> QED
  BY <1>3, <1>4, <1>5

\* Accepting a result releases its worker before the next stage is placed, on the same
\* worker or another (client_message_handler.ts:535-591).
LEMMA ResultBooks ==
  ASSUME ConstantsAssumption, StoredInv,
         NEW t \in Task, NEW w \in Worker, NEW v \in Value,
         NEW i \in DOMAIN tasks[t].attempts, StageResult(w, t, i, v)
  PROVE  Books(t)
<1> DEFINE task == tasks[t]
           updated == AddStage(task, i, w, v)
           devs == Release(devices, w)
           upcoming == NextStage(updated)
<1>1. /\ RecordOK(task) /\ task \in TaskRecord /\ tasks \in [Task -> TaskRecord]
      /\ devices \in [Worker -> Device]
      /\ task.assignment = i /\ i # 0 /\ task.state = "running" /\ task.attempts[i].worker = w
  <2>1. /\ RecordOK(task) /\ task \in TaskRecord /\ tasks \in [Task -> TaskRecord]
        /\ devices \in [Worker -> Device]
    BY DEF StoredInv, StoredOK, RecordOK
  <2>2. /\ task.assignment = i /\ i \in 1..Len(task.attempts)
        /\ task.state = "running" /\ task.attempts[i].worker = w
    BY DEF StageResult, IsCurrent, WasSent
  <2> QED
    BY <2>1, <2>2
<1>2. RecordOK(updated) /\ updated \in TaskRecord /\ updated.assignment = 0
  BY <1>1, AddStageSound DEF RecordOK
<1>3. devs \in [Worker -> Device]
  BY <1>1, ReleaseTyped
<1>4. Superseded(task) = w /\ w # NoWorker /\ Superseded(updated) = NoWorker
  BY <1>1, <1>2, SupersededOf DEF Superseded, ConstantsAssumption
<1>5. \/ /\ tasks' = [tasks EXCEPT ![t] = [updated EXCEPT !.state = "completed"]]
         /\ devices' = devs
      \/ /\ upcoming # 0
         /\ \E options : options.released /\ Assign(t, updated, devs, v, upcoming, options)
  <2>1. \A a, b, c : [excluded |-> a, retry |-> b, preferred |-> c, released |-> TRUE].released
    OBVIOUS
  <2> QED
    BY <2>1 DEF StageResult
<1> HIDE DEF updated
<1>6. CASE /\ tasks' = [tasks EXCEPT ![t] = [updated EXCEPT !.state = "completed"]]
           /\ devices' = devs
  <2>1. [updated EXCEPT !.state = "completed"].assignment = 0
    BY <1>2 DEF TaskRecord
  <2>2. tasks'[t].assignment = 0 /\ \A u \in Task : u # t => tasks'[u] = tasks[u]
    BY <1>1, <1>6, <2>1
  <2> QED
    BY <1>4, <1>6, <2>2, DropBooks
<1>7. ASSUME NEW options, options.released, upcoming # 0,
             Assign(t, updated, devs, v, upcoming, options)
      PROVE  Books(t)
  <2>1. upcoming \in Stage
    BY <1>2, <1>7, NextStageTyped
  <2> HIDE DEF upcoming, devs
  <2>2. /\ \A u \in Task : u # t => tasks'[u] = tasks[u]
        /\ Moves(updated, devs, tasks'[t], devices')
        /\ \/ Superseded(tasks'[t]) = NoWorker
           \/ Superseded(tasks'[t]) \in Candidates(devs, upcoming, options)
    BY <1>2, <1>3, <1>7, <2>1, AssignMoves
  <2>3. NoWorker \notin Worker
    BY DEF ConstantsAssumption
  <2>4. ASSUME NEW u \in Worker
        PROVE  /\ devs[u].connection = devices[u].connection
               /\ devs[u].limit = devices[u].limit
               /\ u # w => devs[u].active = devices[u].active
               /\ devs[u].active + Holds(task, u) >= devices[u].active
               /\ devs[u].active \in Nat /\ devices[u].active \in Nat
    <3>1. devices[u] \in Device
      BY <1>1
    <3>2. devices[u].active \in Nat
      BY <3>1 DEF Device
    <3> QED
      BY <1>1, <1>4, <3>2, ReleaseCounts DEF Holds, devs
  <2>5. ASSUME NEW u \in Worker
        PROVE  /\ devices'[u].connection = devices[u].connection
               /\ devices'[u].limit = devices[u].limit
               /\ devices'[u].active + Holds(task, u) >= devices[u].active + Holds(tasks'[t], u)
    <3>1. Holds(updated, u) = 0
      BY <1>4, <2>3 DEF Holds
    <3>2. /\ devices'[u].connection = devs[u].connection /\ devices'[u].limit = devs[u].limit
          /\ devices'[u].active + 0 >= devs[u].active + Holds(tasks'[t], u)
      BY <2>2, <3>1 DEF Moves
    <3>3. devices'[u].active \in Nat
      <4>1. StoredInv'
        BY ResultRecords
      <4>2. devices'[u] \in Device
        BY <4>1 DEF StoredInv
      <4> QED
        BY <4>2 DEF Device
    <3>4. Holds(task, u) \in {0, 1} /\ Holds(tasks'[t], u) \in {0, 1}
      BY HoldsTyped
    <3> QED
      BY <2>4, <3>2, <3>3, <3>4
  <2>6. ASSUME NEW u \in Worker, Superseded(tasks'[t]) = u, Superseded(task) # u
        PROVE  IsOpen(devices, u) /\ devices[u].active < devices[u].limit
    <3>1. IsOpen(devs, u) /\ devs[u].active < devs[u].limit
      BY <1>3, <1>7, <2>2, <2>3, <2>6, CandidateHasRoom
    <3> QED
      BY <1>4, <2>4, <2>6, <3>1 DEF IsOpen
  <2> QED
    BY <2>2, <2>5, <2>6 DEF Books, Moves, Room
<1> QED
  BY <1>5, <1>6, <1>7

-----------------------------------------------------------------------------
(* The registry *)

\* A step that changes no record leaves counters, closes connections, or opens one.
LEMMA DevicesCount ==
  ASSUME StoredInv', HeldCounted, UNCHANGED tasks,
         \A w \in Worker :
           \/ /\ devices'[w].connection = devices[w].connection
              /\ devices'[w].active = devices[w].active
           \/ devices'[w].connection = "gone"
           \/ devices[w].connection = "new" /\ devices'[w].connection = "open"
  PROVE  HeldCounted' /\ ~Overbooks
<1>1. \A w \in Worker : Held(w)' = Held(w)
  BY DEF Held
<1>2. \A w \in Worker : IsFiniteSet(Held(w)) /\ Cardinality(Held(w)) \in Nat
  BY FS_CardinalityType DEF HeldCounted
<1>3. ~Overbooks
  BY <1>1, <1>2 DEF Overbooks
<1>4. ASSUME NEW w \in Worker
      PROVE  /\ IsFiniteSet(Held(w)')
             /\ devices'[w].connection = "open" => Cardinality(Held(w)') <= devices'[w].active
             /\ devices'[w].connection = "new" => Held(w)' = {}
  <2>1. /\ IsFiniteSet(Held(w))
        /\ devices[w].connection = "open" => Cardinality(Held(w)) <= devices[w].active
        /\ devices[w].connection = "new" => Held(w) = {}
    BY DEF HeldCounted, IsOpen
  <2>2. devices'[w].active \in Nat
    <3>1. devices'[w] \in Device
      BY DEF StoredInv
    <3> QED  BY <3>1 DEF Device
  <2>3. CASE /\ devices'[w].connection = devices[w].connection
             /\ devices'[w].active = devices[w].active
    BY <1>1, <2>1, <2>3
  <2>4. CASE devices'[w].connection = "gone"
    BY <1>1, <2>1, <2>4
  <2>5. CASE devices[w].connection = "new" /\ devices'[w].connection = "open"
    <3>1. Cardinality(Held(w)') = 0
      BY <1>1, <2>1, <2>5, FS_EmptySet
    <3> QED
      BY <1>1, <2>1, <2>2, <2>5, <3>1
  <2> QED
    BY <2>3, <2>4, <2>5
<1> QED
  BY <1>3, <1>4 DEF HeldCounted, IsOpen

\* Registrations, worker.state and closed connections.
LEMMA DeviceMessageCounts ==
  ASSUME ConstantsAssumption, ~Reregisters, StoredInv, StoredInv', HeldCounted,
         NEW w \in Worker, DeviceMessage(w)
  PROVE  HeldCounted' /\ ~Overbooks
<1>1. devices \in [Worker -> Device] /\ devices[w] \in Device
  BY DEF StoredInv
<1>2. UNCHANGED tasks
  BY DEF DeviceMessage, Register, WorkerState, Disconnect
<1>3. ASSUME NEW d, devices' = [devices EXCEPT ![w] = d],
             \/ d.connection = devices[w].connection /\ d.active = devices[w].active
             \/ d.connection = "gone"
             \/ devices[w].connection = "new" /\ d.connection = "open"
      PROVE  HeldCounted' /\ ~Overbooks
  <2>1. devices'[w] = d /\ \A u \in Worker : u # w => devices'[u] = devices[u]
    BY <1>1, <1>3
  <2> QED
    BY <1>2, <1>3, <2>1, DevicesCount
<1>4. ASSUME NEW ready, NEW offers, NEW limit, Register(w, ready, offers, limit)
      PROVE  HeldCounted' /\ ~Overbooks
  BY <1>3, <1>4 DEF Register
<1>5. ASSUME NEW ready, NEW limit, WorkerState(w, ready, limit)
      PROVE  HeldCounted' /\ ~Overbooks
  <2> DEFINE d == [devices[w] EXCEPT !.ready = ready, !.limit = limit]
  <2>1. d.connection = devices[w].connection /\ d.active = devices[w].active
    BY <1>1 DEF Device
  <2>2. devices' = [devices EXCEPT ![w] = d]
    BY <1>1, <1>5 DEF WorkerState
  <2> HIDE DEF d
  <2> QED
    BY <1>3, <2>1, <2>2
<1>6. CASE Disconnect(w)
  <2>1. [Unregistered EXCEPT !.connection = "gone"].connection = "gone"
    BY DEF Unregistered
  <2> QED
    BY <1>3, <1>6, <2>1 DEF Disconnect
<1> QED
  BY <1>4, <1>5, <1>6 DEF DeviceMessage

-----------------------------------------------------------------------------
(* The specification *)

(* No worker is occupied when the gateway starts. *)
LEMMA InitCounts ==
  ASSUME ConstantsAssumption, Init
  PROVE  HeldCounted
<1>1. \A t \in Task : Superseded(tasks[t]) = NoWorker
  BY SupersededOf DEF Init, NewTask
<1>2. \A w \in Worker : Held(w) = {}
  BY <1>1 DEF Held, ConstantsAssumption
<1>3. \A w \in Worker : devices[w].active = 0
  BY DEF Init, Unregistered
<1>4. IsFiniteSet({}) /\ Cardinality({}) = 0
  BY FS_EmptySet
<1>5. ASSUME NEW w \in Worker
      PROVE  IsFiniteSet(Held(w)) /\ Cardinality(Held(w)) <= devices[w].active /\ Held(w) = {}
  <2>1. Held(w) = {} /\ devices[w].active = 0
    BY <1>2, <1>3
  <2>2. IsFiniteSet(Held(w)) /\ Cardinality(Held(w)) = 0
    BY <1>4, <2>1
  <2> QED
    BY <2>1, <2>2
<1> QED
  BY <1>5 DEF HeldCounted

\* Every step but the one that completes a stage.
LEMMA OtherCounts ==
  ASSUME ConstantsAssumption, ~Reregisters, StoredInv, HeldCounted, OtherStep
  PROVE  HeldCounted' /\ ~Overbooks
<1>1. StoredInv'
  BY OtherRecords
<1>2. ASSUME NEW t \in Task, Books(t)
      PROVE  HeldCounted' /\ ~Overbooks
  BY <1>1, <1>2, BooksCounts
<1>3. ASSUME UNCHANGED <<tasks, devices>>
      PROVE  HeldCounted' /\ ~Overbooks
  BY <1>1, <1>3, DevicesCount
<1>4. CASE WalkStep
  <2>1. EndWalk => UNCHANGED <<tasks, devices>>
    BY DEF EndWalk
  <2> QED
    BY <1>2, <1>3, <1>4, <2>1, WalkBooks DEF WalkStep
<1>5. CASE RecoveryTimer \/ RegisterConsumer
  BY <1>3, <1>5 DEF RecoveryTimer, RegisterConsumer
<1>6. ASSUME NEW w \in Worker, DeviceMessage(w)
      PROVE  HeldCounted' /\ ~Overbooks
  BY <1>1, <1>6, DeviceMessageCounts
<1>7. ASSUME NEW t \in Task, Submit(t) \/ Cancel(t) \/ LeaseRunsOut(t) \/ DeadlinePasses(t)
      PROVE  HeldCounted' /\ ~Overbooks
  BY <1>2, <1>7, ConsumerBooks, MessageBooks
<1>8. ASSUME NEW t \in Task, NEW w \in Worker, NEW i \in DOMAIN tasks[t].attempts,
             StageMessage(w, t, i)
      PROVE  HeldCounted' /\ ~Overbooks
  BY <1>2, <1>8, MessageBooks
<1> QED
  BY <1>4, <1>5, <1>6, <1>7, <1>8 DEF OtherStep

(* Without registrations of a connected device, every step counts what it places and takes back what it removes. *)
LEMMA NextCounts ==
  ASSUME ConstantsAssumption, ~Reregisters, StoredInv, HeldCounted, [Next]_vars
  PROVE  HeldCounted' /\ ~Overbooks
<1>1. StoredInv'
  BY NextRecords
<1>2. CASE StageCompletes
  BY <1>1, <1>2, ResultBooks, BooksCounts DEF StageCompletes
<1>3. CASE UNCHANGED vars
  BY <1>1, <1>3, DevicesCount DEF vars
<1> QED
  BY <1>2, <1>3, OtherCounts DEF Next

\* Every worker's counter is at least the number of tasks that hold it, as long as no
\* connected device registers again (device_registry.ts writes 0 over the counter of one
\* that does).
THEOREM CountingInductive ==
  ASSUME ~Reregisters
  PROVE  Spec => [](StoredInv /\ HeldCounted)
<1>1. Init => StoredInv /\ HeldCounted
  BY InitStored, InitCounts, ConstantsAssumption
<1>2. StoredInv /\ HeldCounted /\ [Next]_vars => (StoredInv /\ HeldCounted)'
  BY NextRecords, NextCounts, ConstantsAssumption
<1> QED
  BY <1>1, <1>2, PTL DEF Spec

\* Through every order of release and occupy, the counter of a connected worker is never
\* below the assignments it holds (task_scheduler.ts:103-137,
\* client_message_handler.ts:535-625 and the task.cancel handler).
THEOREM CountersCoverHeld == Spec => []CountsEveryAssignment
<1>1. CASE ~Reregisters
  <2>1. HeldCounted => CountsEveryAssignment
    BY DEF HeldCounted, CountsEveryAssignment
  <2> QED
    BY <1>1, <2>1, CountingInductive, PTL
<1>2. CASE Reregisters
  <2>1. CountsEveryAssignment
    BY <1>2 DEF CountsEveryAssignment
  <2> QED
    BY <2>1, PTL
<1> QED
  BY <1>1, <1>2

\* So no handler gives a worker more than its own maxConcurrentAssignments, be it by
\* placing, replacing or handing the next stage back (client_message_handler.ts:575-578).
\* A worker that registers twice has its counter reset, hence the assumption.
THEOREM NobodyIsOverbooked ==
  ASSUME ~Reregisters
  PROVE  Spec => NeverOverbooked
<1> DEFINE Fits == \A w \in Worker :
                     Cardinality(Held(w)') > Cardinality(Held(w)) =>
                       Cardinality(Held(w)') <= devices[w].limit
<1>1. StoredInv /\ HeldCounted /\ [Next]_vars => [Fits]_vars
  BY NextCounts, ConstantsAssumption DEF Overbooks
<1>2. Fits <=> \A w \in Worker :
                 Cardinality(Held(w)') > Cardinality(Held(w)) =>
                   Cardinality(Held(w)') <= devices[w].limit
  OBVIOUS
<1> HIDE DEF Fits
<1> QED
  BY <1>1, <1>2, CountingInductive, PTL DEF Spec, NeverOverbooked

-----------------------------------------------------------------------------
(* The queue *)

\* A task that has to wait: no worker has room for it, or it waits for one worker.
Waits(task, devs) ==
  task.value = "continuation" \/ FindWorkers(devs, NextStage(task), {}) = {}

\* While the queue is walked, the tasks already visited and still queued have to wait.
VisitedWait ==
  handler.kind = "schedule" => \A t \in Queued(tasks) \ handler.left : Waits(tasks[t], devices)

\* Placing a stage only takes room away.
LEMMA OccupyTakesRoom ==
  ASSUME NEW devs \in [Worker -> Device], NEW w \in Worker, NEW stage
  PROVE  FindWorkers(Occupy(devs, w), stage, {}) \subseteq FindWorkers(devs, stage, {})
<1> SUFFICES ASSUME NEW u \in Worker, Offering(Occupy(devs, w), u, stage),
                    Occupy(devs, w)[u].active < Occupy(devs, w)[u].limit
             PROVE  Offering(devs, u, stage) /\ devs[u].active < devs[u].limit
  BY DEF FindWorkers
<1>1. devs[u] \in Device
  OBVIOUS
<1>2. devs[u].active \in Nat /\ devs[u].limit \in Nat
  BY <1>1 DEF Device
<1> QED
  BY <1>2, OccupyCounts DEF Offering, IsOpen

\* What becomes of a queued task that `assign` is called for from the queue: it is given
\* away, fails, or goes back because it has to wait (task_scheduler.ts:67-138).
LEMMA QueuedAssign ==
  ASSUME ConstantsAssumption, StoredInv,
         NEW t \in Task, tasks[t].assignment = 0, tasks[t].state = "queued",
         NEW stage \in Stage, stage = NextStage(tasks[t]),
         NEW options, options.excluded = {}, ~options.retry,
         Assign(t, tasks[t], devices, tasks[t].value, stage, options)
  PROVE  /\ \A u \in Task : u # t => tasks'[u] = tasks[u]
         /\ tasks'[t].state = "queued" => Waits(tasks'[t], devices')
         /\ \A s : FindWorkers(devices', s, {}) \subseteq FindWorkers(devices, s, {})
<1> DEFINE task == tasks[t]
<1>1. task \in TaskRecord /\ tasks \in [Task -> TaskRecord] /\ devices \in [Worker -> Device]
  BY DEF StoredInv
<1>2. CASE Exhaust(t, task, devices)
  <2>1. /\ tasks'[t] = Unassigned(task, "failed") /\ devices' = devices
        /\ \A u \in Task : u # t => tasks'[u] = tasks[u]
    BY <1>1, <1>2 DEF Exhaust
  <2>2. tasks'[t].state = "failed"
    BY <1>1, <2>1, UnassignedFields
  <2> QED
    BY <2>1, <2>2
<1>3. CASE Requeue(t, task, devices) /\
           (task.value = "continuation" \/ FindWorkers(devices, stage, {}) = {})
  <2>1. /\ tasks'[t] = Unassigned(task, "queued") /\ devices' = devices
        /\ \A u \in Task : u # t => tasks'[u] = tasks[u]
    BY <1>1, <1>3 DEF Requeue
  <2>2. tasks'[t].value = task.value /\ tasks'[t].completed = task.completed
    BY <1>1, <2>1, UnassignedFields DEF SameWork
  <2>3. NextStage(tasks'[t]) = stage
    BY <2>2 DEF NextStage
  <2> QED
    BY <1>3, <2>1, <2>2, <2>3 DEF Waits
<1>4. ASSUME NEW w \in Candidates(devices, stage, options),
             Place(t, task, devices, task.value, stage, w)
      PROVE  /\ \A u \in Task : u # t => tasks'[u] = tasks[u]
             /\ tasks'[t].state = "queued" => Waits(tasks'[t], devices')
             /\ \A s : FindWorkers(devices', s, {}) \subseteq FindWorkers(devices, s, {})
  <2>1. w \in Worker
    BY <1>4, CandidatesOpen
  <2>2. /\ tasks' = [tasks EXCEPT ![t] = Placed(task, devices, task.value, stage, w)]
        /\ devices' = Occupy(devices, w)
    BY <1>4, SupersededOf DEF Place
  <2>3. /\ tasks'[t] = Placed(task, devices, task.value, stage, w)
        /\ \A u \in Task : u # t => tasks'[u] = tasks[u]
    BY <1>1, <2>2
  <2>4. tasks'[t].state = "assigned"
    <3>1. Placed(task, devices, task.value, stage, w).state = "assigned"
      BY <1>1 DEF Placed, TaskRecord
    <3> QED
      BY <2>3, <3>1
  <2> QED
    <3>1. \A s : FindWorkers(devices', s, {}) \subseteq FindWorkers(devices, s, {})
      BY <1>1, <2>1, <2>2, OccupyTakesRoom
    <3>2. tasks'[t].state # "queued"
      BY <2>4
    <3> QED
      BY <2>3, <3>1, <3>2
<1>5. Candidates(devices, stage, options) = {} => FindWorkers(devices, stage, {}) = {}
  BY DEF Candidates
<1>6. \A w : Misplaced(task, task.value, stage, w) => task.value = "continuation"
  BY DEF Misplaced
<1> QED
  BY <1>2, <1>3, <1>4, <1>5, <1>6 DEF Assign

\* No worker offers a stage there is not.
LEMMA NobodyOffersNone ==
  ASSUME devices \in [Worker -> Device]
  PROVE  FindWorkers(devices, 0, {}) = {}
<1>1. \A w \in Worker : 0 \notin devices[w].offers
  <2>1. \A w \in Worker : devices[w] \in Device
    OBVIOUS
  <2> QED
    BY <2>1 DEF Device, Stage
<1> QED
  BY <1>1 DEF FindWorkers, Offering

\* A record that stays queued at the same stage with the same value still has to wait.
LEMMA StillWaits ==
  ASSUME NEW old, NEW new, new.value = old.value, new.completed = old.completed,
         Waits(old, devices),
         \A s : FindWorkers(devices', s, {}) \subseteq FindWorkers(devices, s, {})
  PROVE  Waits(new, devices')
BY DEF Waits, NextStage

(* A task that the sweep passes is placed, failed, or could not be placed with what is left for it. *)
LEMMA ScheduleTaskWaits ==
  ASSUME ConstantsAssumption, StoredInv, VisitedWait, NEW t \in Task, ScheduleTask(t)
  PROVE  VisitedWait'
<1> DEFINE task == tasks[t]
<1>1. /\ task \in TaskRecord /\ tasks \in [Task -> TaskRecord]
      /\ devices \in [Worker -> Device] /\ handler \in Handler
      /\ task.state = "queued" /\ task.assignment = 0
  BY DEF StoredInv, StoredOK, WalkOK, ScheduleTask, InProgress
<1>2. handler'.kind = "schedule" /\ handler'.left = handler.left \ {t} /\ handler.kind = "schedule"
  BY <1>1 DEF ScheduleTask, Stepped, Handler
<1>3. ASSUME \A u \in Task : u # t => tasks'[u] = tasks[u],
             tasks'[t].state = "queued" => Waits(tasks'[t], devices'),
             \A s : FindWorkers(devices', s, {}) \subseteq FindWorkers(devices, s, {})
      PROVE  VisitedWait'
  <2> SUFFICES ASSUME NEW u \in Task, tasks'[u].state = "queued", u \notin handler'.left
               PROVE  Waits(tasks'[u], devices')
    BY DEF VisitedWait, Waits, Queued
  <2>1. CASE u = t
    BY <1>3, <2>1
  <2>2. CASE u # t
    <3>1. tasks'[u] = tasks[u] /\ u \in Queued(tasks) \ handler.left
      BY <1>2, <1>3, <2>2 DEF Queued
    <3> QED
      BY <1>2, <1>3, <3>1, StillWaits DEF VisitedWait
  <2> QED
    BY <2>1, <2>2
<1>4. CASE task.overdue
  <2>1. tasks' = [tasks EXCEPT ![t] = [task EXCEPT !.state = "failed"]] /\ devices' = devices
    BY <1>1, <1>4 DEF ScheduleTask
  <2>2. tasks'[t].state = "failed" /\ \A u \in Task : u # t => tasks'[u] = tasks[u]
    BY <1>1, <2>1 DEF TaskRecord
  <2> QED
    BY <1>3, <2>1, <2>2
<1>5. CASE ~task.overdue /\ NextStage(task) = 0
  <2>1. UNCHANGED <<tasks, devices>>
    BY <1>5 DEF ScheduleTask
  <2>2. Waits(task, devices)
    BY <1>1, <1>5, NobodyOffersNone DEF Waits
  <2> QED
    BY <1>3, <2>1, <2>2
<1>6. CASE ~task.overdue /\ NextStage(task) # 0
  <2> DEFINE options == [NewPlacement EXCEPT
                           !.preferred = PreferredWorker(task, NextStage(task), NoWorker),
                           !.released = TRUE]
  <2>1. Assign(t, task, devices, task.value, NextStage(task), options)
    BY <1>6 DEF ScheduleTask
  <2>2. NextStage(task) \in Stage
    BY <1>1, <1>6, NextStageTyped
  <2>3. options.excluded = {} /\ ~options.retry
    BY DEF NewPlacement
  <2> HIDE DEF options
  <2> QED
    BY <1>1, <1>3, <2>1, <2>2, <2>3, QueuedAssign
<1> QED
  BY <1>4, <1>5, <1>6

(* Every step of a sweep keeps that, since capacity is only taken while the sweep runs. *)
LEMMA NextWaits ==
  ASSUME ConstantsAssumption, StoredInv, VisitedWait, [Next]_vars
  PROVE  VisitedWait'
<1>1. handler'.kind # "schedule" => VisitedWait'
  BY DEF VisitedWait
<1>2. ASSUME UNCHANGED tasks, handler' = Walk("schedule", Queued(tasks))
      PROVE  VisitedWait'
  BY <1>2 DEF VisitedWait, Walk, Queued
<1>3. Idle.kind = "idle" /\ \A kind, left : Walk(kind, left).kind = kind
  BY DEF Idle, Walk
<1>4. ASSUME handler' = Idle
      PROVE  VisitedWait'
  BY <1>1, <1>3, <1>4
<1>5. ASSUME NEW t \in Task, LeaseRunsOut(t) \/ DeadlinePasses(t)
      PROVE  VisitedWait'
  <2>1. UNCHANGED <<devices, handler>>
    BY <1>5 DEF LeaseRunsOut, DeadlinePasses
  <2>2. \A u \in Task : /\ tasks'[u].state = tasks[u].state /\ tasks'[u].value = tasks[u].value
                        /\ tasks'[u].completed = tasks[u].completed
    <3>1. tasks \in [Task -> TaskRecord] /\ tasks[t] \in TaskRecord
      BY DEF StoredInv
    <3>2. \/ tasks' = [tasks EXCEPT ![t] = [tasks[t] EXCEPT !.expired = TRUE]]
          \/ tasks' = [tasks EXCEPT ![t] = [tasks[t] EXCEPT !.overdue = TRUE]]
      BY <1>5, <3>1 DEF LeaseRunsOut, DeadlinePasses
    <3>3. tasks'[t].state = tasks[t].state /\ tasks'[t].value = tasks[t].value
          /\ tasks'[t].completed = tasks[t].completed
      BY <3>1, <3>2 DEF TaskRecord
    <3>4. \A u \in Task : u # t => tasks'[u] = tasks[u]
      BY <3>1, <3>2
    <3> QED
      BY <3>3, <3>4
  <2>3. \A s : FindWorkers(devices', s, {}) \subseteq FindWorkers(devices, s, {})
    BY <2>1
  <2> SUFFICES ASSUME handler.kind = "schedule", NEW u \in Task,
                      tasks[u].state = "queued", u \notin handler.left
               PROVE  Waits(tasks'[u], devices')
    BY <2>1, <2>2 DEF VisitedWait, Waits, Queued
  <2>4. Waits(tasks[u], devices)
    BY DEF VisitedWait, Queued
  <2> QED
    BY <2>2, <2>3, <2>4, StillWaits
<1>6. CASE WalkStep
  <2>1. ASSUME NEW t \in Task, RecoverLease(t) \/ RecoverDisconnected(t)
        PROVE  VisitedWait'
    <3>1. handler \in Handler
      BY DEF StoredInv
    <3>2. handler'.kind # "schedule"
      BY <2>1, <3>1 DEF RecoverLease, RecoverDisconnected, Stepped, Handler
    <3> QED
      BY <1>1, <3>2
  <2>2. EndWalk => VisitedWait'
    BY <1>2, <1>4 DEF EndWalk
  <2> QED
    BY <1>6, <2>1, <2>2, ScheduleTaskWaits DEF WalkStep
<1>7. CASE RecoveryTimer \/ RegisterConsumer \/ \E w \in Worker : DeviceMessage(w)
  <2>1. RecoveryTimer => VisitedWait'
    <3>1. RecoveryTimer => handler'.kind = "leases"
      BY <1>3 DEF RecoveryTimer
    <3> QED  BY <1>1, <3>1
  <2>2. RegisterConsumer => VisitedWait'
    BY <1>2 DEF RegisterConsumer
  <2>3. ASSUME NEW w \in Worker, DeviceMessage(w)
        PROVE  VisitedWait'
    <3>1. \A ready, offers, limit : Register(w, ready, offers, limit) => VisitedWait'
      BY <1>2 DEF Register
    <3>2. \A ready, limit : WorkerState(w, ready, limit) => VisitedWait'
      BY <1>2, <1>4 DEF WorkerState
    <3>3. Disconnect(w) => VisitedWait'
      <4>1. Disconnect(w) => handler'.kind = "close"
        BY <1>3 DEF Disconnect
      <4> QED  BY <1>1, <4>1
    <3> QED
      BY <2>3, <3>1, <3>2, <3>3 DEF DeviceMessage
  <2> QED
    BY <1>7, <2>1, <2>2, <2>3
<1>8. ASSUME NEW t \in Task, Submit(t) \/ Cancel(t)
      PROVE  VisitedWait'
  BY <1>4, <1>8 DEF Submit, Cancel
<1>9. ASSUME NEW t \in Task, NEW w \in Worker, NEW i \in DOMAIN tasks[t].attempts,
             StageMessage(w, t, i) \/ \E v \in Value : StageResult(w, t, i, v)
      PROVE  VisitedWait'
  BY <1>4, <1>9 DEF StageMessage, StageAccepted, Heartbeat, StaleHeartbeat, Relinquish,
                    StageFailed, StageResult
<1>10. CASE UNCHANGED vars
  BY <1>10 DEF vars, VisitedWait, Waits, Queued
<1> QED
  BY <1>5, <1>6, <1>7, <1>8, <1>9, <1>10 DEF Next, OtherStep, StageCompletes

\* A walk over the queue leaves behind only tasks that no worker has room for, or that
\* wait for the holder of their answer, whatever leases and deadlines pass meanwhile
\* (task_scheduler.ts:141-158, device_registry.ts:108-131).
THEOREM QueueIsWalked == Spec => []NoTaskPassedOver
<1>1. Init => StoredInv
  BY InitStored, ConstantsAssumption
<1>2. Init => VisitedWait
  BY DEF Init, Idle, VisitedWait
<1>3. StoredInv /\ VisitedWait /\ [Next]_vars => (StoredInv /\ VisitedWait)'
  BY NextRecords, NextWaits, ConstantsAssumption
<1>4. VisitedWait => NoTaskPassedOver
  BY DEF VisitedWait, Waits, NoTaskPassedOver, Queued
<1> QED
  BY <1>1, <1>2, <1>3, <1>4, PTL DEF Spec

-----------------------------------------------------------------------------
(***************************************************************************)
(* TaskScheduling implements TaskLifecycle, for every set of tasks and     *)
(* workers, every pipeline and every limit.                                *)
(*                                                                         *)
(* A step replaces the record of one task at most, so it is enough to say  *)
(* what the consumer of that task sees of the replacement: SeenStep.  That *)
(* a pipeline which does not repeat ends at its last stage and not later   *)
(* needs one fact more than StoredInv: PipelineAhead.                      *)
(***************************************************************************)

\* An open task of a pipeline that does not repeat still has a stage to run, and a task
\* not yet submitted has run none.
Ahead(task) ==
  /\ ~Repeats /\ PhaseOf(task) = "open" => task.completed < StageCount
  /\ PhaseOf(task) = "absent" => task.completed = 0

PipelineAhead == \A t \in Task : Ahead(tasks[t])

\* What the consumer of a task may see when its record `old` becomes `new`.
SeenStep(old, new) ==
  \/ PhaseOf(new) = PhaseOf(old) /\ new.completed = old.completed
  \/ PhaseOf(old) = "absent" /\ PhaseOf(new) = "open" /\ new.completed = old.completed
  \/ /\ PhaseOf(old) = "open" /\ PhaseOf(new) = "open"
     /\ new.completed = old.completed + 1 /\ (Repeats \/ new.completed < StageCount)
  \/ /\ PhaseOf(old) = "open" /\ PhaseOf(new) = "completed"
     /\ new.completed = old.completed + 1
     /\ new.completed % StageCount = 0 /\ (~Repeats => new.completed = StageCount)
  \/ PhaseOf(old) = "open" /\ PhaseOf(new) = "failed" /\ new.completed = old.completed
  \/ PhaseOf(old) # "absent" /\ PhaseOf(new) = "cancelled" /\ new.completed = old.completed

\* A step of the detailed specification is a step of the abstract one, or none, and
\* leaves unfinished pipelines with a stage ahead.
Refines == [Lifecycle!Next]_(Lifecycle!lifecycle) /\ PipelineAhead'

-----------------------------------------------------------------------------
(* Records *)

\* The phase of a record is one that TaskLifecycle knows, and open exactly while the
\* task is unfinished.
LEMMA PhaseTyped ==
  ASSUME NEW task, task.state \in State
  PROVE  /\ PhaseOf(task) \in Lifecycle!Phase
         /\ Unfinished(task) <=> PhaseOf(task) = "open"
         /\ task.state \in Finished \cup {"absent"} => PhaseOf(task) = task.state
         /\ task.state \in {"queued", "assigned", "running"} => PhaseOf(task) = "open"
BY DEF PhaseOf, Unfinished, State, Finished, Lifecycle!Phase

\* Replacing one record is a step of TaskLifecycle when it is one that the consumer of
\* that task may see.
LEMMA ReplaceRefines ==
  ASSUME ConstantsAssumption, StoredInv, PipelineAhead,
         NEW t \in Task, NEW r, tasks' = [tasks EXCEPT ![t] = r],
         SeenStep(tasks[t], r), Ahead(r)
  PROVE  Refines
<1> DEFINE phase == [u \in Task |-> PhaseOf(tasks[u])]
           stages == [u \in Task |-> tasks[u].completed]
<1>1. /\ tasks[t] \in TaskRecord /\ tasks[t].state \in State
      /\ tasks'[t] = r /\ \A u \in Task : u # t => tasks'[u] = tasks[u]
  BY DEF StoredInv, StoredOK, RecordOK, TaskRecord
<1>2. PhaseOf(tasks[t]) \in Lifecycle!Phase
  BY <1>1, PhaseTyped
<1>3. phase' = [phase EXCEPT ![t] = PhaseOf(r)]
  <2>1. \A u \in Task : PhaseOf(tasks'[u]) = IF u = t THEN PhaseOf(r) ELSE PhaseOf(tasks[u])
    BY <1>1
  <2>2. phase' = [u \in Task |-> PhaseOf(tasks'[u])]
    BY DEF PhaseOf, Unfinished
  <2> QED
    BY <2>1, <2>2
<1>4. stages' = [stages EXCEPT ![t] = r.completed]
  <2>1. \A u \in Task : tasks'[u].completed = IF u = t THEN r.completed ELSE tasks[u].completed
    BY <1>1
  <2>2. stages' = [u \in Task |-> tasks'[u].completed]
    OBVIOUS
  <2> QED
    BY <2>1, <2>2
<1>5. phase[t] = PhaseOf(tasks[t]) /\ stages[t] = tasks[t].completed
  OBVIOUS
<1>6. PipelineAhead'
  BY <1>1 DEF PipelineAhead, Ahead, PhaseOf, Unfinished
<1>7. CASE PhaseOf(r) = PhaseOf(tasks[t]) /\ r.completed = tasks[t].completed
  <2>1. phase' = phase /\ stages' = stages
    BY <1>3, <1>4, <1>5, <1>7
  <2> QED
    BY <1>6, <2>1 DEF Refines, Lifecycle!lifecycle
<1> HIDE DEF phase, stages
<1>8. CASE ~(PhaseOf(r) = PhaseOf(tasks[t]) /\ r.completed = tasks[t].completed)
  <2>1. CASE /\ PhaseOf(tasks[t]) = "absent" /\ PhaseOf(r) = "open"
             /\ r.completed = tasks[t].completed
    <3>1. stages' = stages
      BY <1>4, <1>5, <2>1 DEF stages
    <3>2. Lifecycle!Accept(t)
      BY <1>3, <1>5, <2>1, <3>1 DEF Lifecycle!Accept, Lifecycle!Enter, phase, stages
    <3> QED
      BY <1>6, <3>2 DEF Refines, Lifecycle!Next
  <2>2. CASE /\ PhaseOf(tasks[t]) = "open" /\ PhaseOf(r) = "open"
             /\ r.completed = tasks[t].completed + 1
             /\ (Repeats \/ r.completed < StageCount)
    <3>1. Lifecycle!RunStage(t)
      BY <1>3, <1>4, <1>5, <2>2
      DEF Lifecycle!RunStage, Lifecycle!Enter, Lifecycle!Count, Lifecycle!PipelineGoesOn,
          phase, stages
    <3> QED
      BY <1>6, <3>1 DEF Refines, Lifecycle!Next
  <2>3. CASE /\ PhaseOf(tasks[t]) = "open" /\ PhaseOf(r) = "completed"
             /\ r.completed = tasks[t].completed + 1
             /\ r.completed % StageCount = 0 /\ (~Repeats => r.completed = StageCount)
    <3>1. Lifecycle!Complete(t)
      BY <1>3, <1>4, <1>5, <2>3
      DEF Lifecycle!Complete, Lifecycle!Enter, Lifecycle!Count, Lifecycle!PipelineEnds,
          phase, stages
    <3> QED
      BY <1>6, <3>1 DEF Refines, Lifecycle!Next
  <2>4. CASE /\ PhaseOf(tasks[t]) = "open" /\ PhaseOf(r) = "failed"
             /\ r.completed = tasks[t].completed
    <3>1. stages' = stages
      BY <1>4, <1>5, <2>4 DEF stages
    <3>2. Lifecycle!Fail(t)
      BY <1>3, <1>5, <2>4, <3>1 DEF Lifecycle!Fail, Lifecycle!Enter, phase, stages
    <3> QED
      BY <1>6, <3>2 DEF Refines, Lifecycle!Next
  <2>5. CASE /\ PhaseOf(tasks[t]) # "absent" /\ PhaseOf(r) = "cancelled"
             /\ r.completed = tasks[t].completed
    <3>1. stages' = stages
      BY <1>4, <1>5, <2>5 DEF stages
    <3>2. Lifecycle!Cancel(t)
      BY <1>2, <1>3, <1>5, <2>5, <3>1 DEF Lifecycle!Cancel, Lifecycle!Enter, phase, stages
    <3> QED
      BY <1>6, <3>2 DEF Refines, Lifecycle!Next
  <2> QED
    BY <1>8, <2>1, <2>2, <2>3, <2>4, <2>5 DEF SeenStep
<1> QED
  BY <1>7, <1>8

\* A step that leaves the tasks alone is not seen.
LEMMA SameTasksRefines ==
  ASSUME PipelineAhead, UNCHANGED tasks
  PROVE  Refines
BY DEF Refines, PipelineAhead, Ahead, Unfinished, Lifecycle!lifecycle, PhaseOf

\* Two records in the same phase and as many stages are seen as the same.
LEMMA SamePhaseRefines ==
  ASSUME ConstantsAssumption, StoredInv, PipelineAhead,
         NEW t \in Task, NEW r, tasks' = [tasks EXCEPT ![t] = r],
         PhaseOf(r) = PhaseOf(tasks[t]),
         r.completed = tasks[t].completed
  PROVE  Refines
<1>1. Ahead(r)
  BY DEF PipelineAhead, Ahead
<1> QED
  BY <1>1, ReplaceRefines DEF SeenStep

-----------------------------------------------------------------------------
(* assign *)

\* Whichever way `assign` ends (task_scheduler.ts:67-138), the task has run as many
\* stages as before and stays open, unless its budget is spent.
LEMMA AssignSeen ==
  ASSUME NEW t \in Task, NEW task \in TaskRecord, NEW devs, NEW value, NEW stage, NEW options,
         Assign(t, task, devs, value, stage, options)
  PROVE  \E r : /\ tasks' = [tasks EXCEPT ![t] = r]
                /\ r.completed = task.completed
                /\ \/ r.state \in {"queued", "assigned"}
                   \/ r.state = "failed" /\ task.tries >= MaxAttempts
<1>1. \A st : Unassigned(task, st).completed = task.completed /\ Unassigned(task, st).state = st
  BY DEF Unassigned, TaskRecord
<1>2. \A w : /\ Placed(task, devs, value, stage, w).completed = task.completed
             /\ Placed(task, devs, value, stage, w).state = "assigned"
  BY DEF Placed, TaskRecord
<1>3. CASE task.tries >= MaxAttempts /\ Exhaust(t, task, devs)
  BY <1>1, <1>3 DEF Exhaust
<1>4. CASE Requeue(t, task, devs)
  BY <1>1, <1>4 DEF Requeue
<1>5. CASE \E w : Place(t, task, devs, value, stage, w)
  BY <1>2, <1>5 DEF Place
<1> QED
  BY <1>3, <1>4, <1>5 DEF Assign

\* Assigning the stored record of an open task again fails it or is not seen at all.
LEMMA AssignRefines ==
  ASSUME ConstantsAssumption, StoredInv, PipelineAhead,
         NEW t \in Task, PhaseOf(tasks[t]) = "open",
         NEW devs, NEW value, NEW stage, NEW options,
         Assign(t, tasks[t], devs, value, stage, options)
  PROVE  Refines
<1>1. tasks[t] \in TaskRecord
  BY DEF StoredInv, StoredOK, RecordOK
<1>2. PICK r : /\ tasks' = [tasks EXCEPT ![t] = r]
               /\ r.completed = tasks[t].completed
               /\ r.state \in {"queued", "assigned", "failed"}
  BY <1>1, AssignSeen
<1>3. r.state \in State
  BY <1>2 DEF State, Finished
<1>4. CASE r.state = "failed"
  <2>1. PhaseOf(r) = "failed"
    BY <1>3, <1>4, PhaseTyped DEF Finished
  <2> QED
    BY <1>2, <2>1, ReplaceRefines DEF SeenStep, Ahead
<1>5. CASE r.state # "failed"
  <2>1. PhaseOf(r) = "open"
    BY <1>2, <1>3, <1>5, PhaseTyped
  <2> QED
    BY <1>2, <2>1, SamePhaseRefines
<1> QED
  BY <1>4, <1>5

(* retry is a new assignment, a failure or a wait of the abstract task. *)
LEMMA RetryRefines ==
  ASSUME ConstantsAssumption, StoredInv, PipelineAhead,
         NEW t \in Task, tasks[t].assignment # 0, NEW excluded, NEW preferred,
         Retry(t, excluded, preferred)
  PROVE  Refines
<1>1. tasks[t].state \in {"assigned", "running"} /\ tasks[t].state \in State
  BY DEF StoredInv, StoredOK, RecordOK, InProgress, State
<1>2. PhaseOf(tasks[t]) = "open"
  BY <1>1, PhaseTyped
<1> QED
  BY <1>2, AssignRefines DEF Retry

-----------------------------------------------------------------------------
(* The steps *)

(* One task of a sweep is a step of the abstract task, or a stutter. *)
LEMMA WalkStepRefines ==
  ASSUME ConstantsAssumption, StoredInv, PipelineAhead, WalkStep
  PROVE  Refines
<1>1. ASSUME NEW t \in Task, ScheduleTask(t)
      PROVE  Refines
  <2>1. tasks[t].state = "queued" /\ tasks[t] \in TaskRecord
    BY <1>1 DEF StoredInv, StoredOK, RecordOK, WalkOK, ScheduleTask
  <2>2. PhaseOf(tasks[t]) = "open"
    BY <2>1, PhaseTyped DEF State
  <2>3. CASE tasks[t].overdue
    <3> DEFINE r == [tasks[t] EXCEPT !.state = "failed"]
    <3>1. tasks' = [tasks EXCEPT ![t] = r]
      BY <1>1, <2>3 DEF ScheduleTask
    <3>2. r.state = "failed" /\ r.completed = tasks[t].completed
      BY <2>1 DEF TaskRecord
    <3> HIDE DEF r
    <3>3. PhaseOf(r) = "failed"
      BY <3>2, PhaseTyped DEF State, Finished
    <3> QED
      BY <2>2, <3>1, <3>2, <3>3, ReplaceRefines DEF SeenStep, Ahead
  <2>4. CASE ~tasks[t].overdue /\ NextStage(tasks[t]) = 0
    BY <1>1, <2>4, SameTasksRefines DEF ScheduleTask
  <2>5. CASE ~tasks[t].overdue /\ NextStage(tasks[t]) # 0
    <3>1. \E options : Assign(t, tasks[t], devices, tasks[t].value, NextStage(tasks[t]), options)
      BY <1>1, <2>5 DEF ScheduleTask
    <3> QED
      BY <2>2, <3>1, AssignRefines
  <2> QED
    BY <2>3, <2>4, <2>5
<1>2. ASSUME NEW t \in Task, RecoverLease(t) \/ RecoverDisconnected(t)
      PROVE  Refines
  <2>1. tasks[t].assignment # 0
    BY <1>2 DEF StoredInv, StoredOK, RecordOK, WalkOK, RecoverLease, RecoverDisconnected
  <2>2. \E excluded, preferred : Retry(t, excluded, preferred)
    BY <1>2 DEF RecoverLease, RecoverDisconnected
  <2> QED
    BY <2>1, <2>2, RetryRefines
<1>3. EndWalk => Refines
  BY SameTasksRefines DEF EndWalk
<1> QED
  BY <1>1, <1>2, <1>3 DEF WalkStep

(* A submission and a cancellation are the abstract ones, with the placement that follows a submission. *)
LEMMA ConsumerRefines ==
  ASSUME ConstantsAssumption, StoredInv, PipelineAhead,
         NEW t \in Task, Submit(t) \/ Cancel(t)
  PROVE  Refines
<1>1. tasks[t] \in TaskRecord /\ tasks[t].state \in State
  BY DEF StoredInv, StoredOK, RecordOK, TaskRecord
<1>2. CASE Submit(t)
  <2> DEFINE created == [NewTask EXCEPT !.state = "queued"]
  <2>1. /\ created \in TaskRecord /\ created.completed = 0 /\ created.tries = 0
    BY NewTaskSound DEF NewTask, RecordOK, TaskRecord, State
  <2>2. \E stage, options : Assign(t, created, devices, created.value, stage, options)
    BY <1>2 DEF Submit
  <2> HIDE DEF created
  <2>3. PICK r : /\ tasks' = [tasks EXCEPT ![t] = r]
                 /\ r.completed = 0
                 /\ r.state \in {"queued", "assigned"} \/ 0 >= MaxAttempts
    BY <2>1, <2>2, AssignSeen
  <2>4. r.state \in {"queued", "assigned"} /\ 0 < StageCount
    BY <2>3 DEF ConstantsAssumption
  <2>5. PhaseOf(r) = "open"
    BY <2>4, PhaseTyped DEF State
  <2>6. PhaseOf(tasks[t]) = "absent" /\ tasks[t].completed = 0
    BY <1>1, <1>2, PhaseTyped DEF Submit, PipelineAhead, Ahead
  <2> QED
    BY <2>3, <2>4, <2>5, <2>6, ReplaceRefines DEF SeenStep, Ahead
<1>3. CASE Cancel(t)
  <2>1. PICK told : tasks' = [tasks EXCEPT ![t] =
                        [Unassigned(tasks[t], "cancelled") EXCEPT !.withdrawn = @ \cup told]]
    BY <1>3 DEF Cancel
  <2> DEFINE r == [Unassigned(tasks[t], "cancelled") EXCEPT !.withdrawn = @ \cup told]
  <2>2. r.state = "cancelled" /\ r.completed = tasks[t].completed
    BY <1>1 DEF Unassigned, TaskRecord
  <2>3. tasks' = [tasks EXCEPT ![t] = r]
    BY <2>1
  <2> HIDE DEF r
  <2>4. PhaseOf(r) = "cancelled"
    BY <2>2, PhaseTyped DEF State, Finished
  <2>5. PhaseOf(tasks[t]) # "absent"
    BY <1>3 DEF Cancel, PhaseOf
  <2> QED
    BY <2>2, <2>3, <2>4, <2>5, ReplaceRefines DEF SeenStep, Ahead
<1> QED
  BY <1>2, <1>3

\* Deadlines, and every message of a worker about an assignment except a result.
LEMMA OtherMessageRefines ==
  ASSUME ConstantsAssumption, StoredInv, PipelineAhead, NEW t \in Task,
         \/ LeaseRunsOut(t)
         \/ DeadlinePasses(t)
         \/ \E w \in Worker : \E i \in DOMAIN tasks[t].attempts : StageMessage(w, t, i)
  PROVE  Refines
<1>1. /\ tasks[t] \in TaskRecord /\ tasks[t].state \in State
      /\ tasks[t].assignment # 0 => InProgress(tasks[t])
      /\ tasks[t].assignment # 0 => PhaseOf(tasks[t]) = "open"
  BY PhaseTyped DEF StoredInv, StoredOK, RecordOK, InProgress, TaskRecord, State
<1>2. ASSUME NEW r, tasks' = [tasks EXCEPT ![t] = r], r.state = tasks[t].state,
             r.completed = tasks[t].completed
      PROVE  Refines
  <2>1. PhaseOf(r) = PhaseOf(tasks[t])
    BY <1>2 DEF PhaseOf, Unfinished
  <2> QED
    BY <1>2, <2>1, SamePhaseRefines
<1>3. CASE LeaseRunsOut(t)
  <2> DEFINE r == [tasks[t] EXCEPT !.expired = TRUE]
  <2>1. tasks' = [tasks EXCEPT ![t] = r]
    BY <1>3 DEF LeaseRunsOut
  <2>2. r.state = tasks[t].state /\ r.completed = tasks[t].completed
    BY <1>1 DEF TaskRecord
  <2> HIDE DEF r
  <2> QED
    BY <1>2, <2>1, <2>2
<1>4. CASE DeadlinePasses(t)
  <2> DEFINE r == [tasks[t] EXCEPT !.overdue = TRUE]
  <2>1. tasks' = [tasks EXCEPT ![t] = r]
    BY <1>4 DEF DeadlinePasses
  <2>2. r.state = tasks[t].state /\ r.completed = tasks[t].completed
    BY <1>1 DEF TaskRecord
  <2> HIDE DEF r
  <2> QED
    BY <1>2, <2>1, <2>2
<1>5. ASSUME NEW w \in Worker, NEW i \in DOMAIN tasks[t].attempts, StageMessage(w, t, i)
      PROVE  Refines
  <2>1. i # 0
    BY <1>1 DEF TaskRecord
  <2>2. CASE StageAccepted(w, t, i)
    <3> DEFINE r == [tasks[t] EXCEPT !.state = "running"]
    <3>1. tasks' = [tasks EXCEPT ![t] = r] /\ tasks[t].assignment # 0
      BY <2>1, <2>2 DEF StageAccepted, IsCurrent
    <3>2. r.state = "running" /\ r.completed = tasks[t].completed
      BY <1>1 DEF TaskRecord
    <3> HIDE DEF r
    <3>3. PhaseOf(r) = PhaseOf(tasks[t])
      BY <1>1, <3>1, <3>2, PhaseTyped DEF State
    <3> QED
      BY <3>1, <3>2, <3>3, SamePhaseRefines
  <2>3. CASE Heartbeat(w, t, i)
    <3> DEFINE r == [tasks[t] EXCEPT !.expired = FALSE, !.renewals = @ + 1]
    <3>1. tasks' = [tasks EXCEPT ![t] = r]
      BY <2>3 DEF Heartbeat
    <3>2. r.state = tasks[t].state /\ r.completed = tasks[t].completed
      BY <1>1 DEF TaskRecord
    <3> HIDE DEF r
    <3> QED
      BY <1>2, <3>1, <3>2
  <2>4. CASE StaleHeartbeat(w, t, i)
    <3> DEFINE r == [tasks[t] EXCEPT !.withdrawn = @ \cup {i}]
    <3>1. tasks' = [tasks EXCEPT ![t] = r]
      BY <2>4 DEF StaleHeartbeat
    <3>2. r.state = tasks[t].state /\ r.completed = tasks[t].completed
      BY <1>1 DEF TaskRecord
    <3> HIDE DEF r
    <3> QED
      BY <1>2, <3>1, <3>2
  <2>5. CASE Relinquish(w, t, i)
    BY <2>1, <2>5, RetryRefines DEF Relinquish, IsCurrent
  <2>6. CASE StageFailed(w, t, i)
    <3> DEFINE r == Unassigned(tasks[t], "failed")
    <3>1. tasks' = [tasks EXCEPT ![t] = r] /\ tasks[t].assignment # 0
      BY <2>1, <2>6 DEF StageFailed, IsCurrent
    <3>2. r.state = "failed" /\ r.completed = tasks[t].completed
      BY <1>1 DEF Unassigned, TaskRecord
    <3> HIDE DEF r
    <3>3. PhaseOf(r) = "failed"
      BY <3>2, PhaseTyped DEF State, Finished
    <3> QED
      BY <1>1, <3>1, <3>2, <3>3, ReplaceRefines DEF SeenStep, Ahead
  <2> QED
    BY <1>5, <2>2, <2>3, <2>4, <2>5, <2>6 DEF StageMessage
<1> QED
  BY <1>3, <1>4, <1>5

\* A result counts one stage more and completes the task exactly where nextStage
\* finds its pipeline at an end (task_store.ts:357-368).
LEMMA ResultRefines ==
  ASSUME ConstantsAssumption, StoredInv, PipelineAhead,
         NEW t \in Task, NEW w \in Worker, NEW v \in Value,
         NEW i \in DOMAIN tasks[t].attempts, StageResult(w, t, i, v)
  PROVE  Refines
<1> DEFINE task == tasks[t]
           updated == AddStage(task, i, w, v)
           upcoming == NextStage(updated)
<1>1. /\ RecordOK(task) /\ task \in TaskRecord /\ task.completed \in Nat
      /\ task.assignment = i /\ i # 0 /\ task.state = "running"
  <2>1. task \in TaskRecord /\ RecordOK(task)
    BY DEF StoredInv, StoredOK
  <2>2. task.completed \in Nat
    BY <2>1 DEF TaskRecord
  <2>3. task.assignment = i /\ task.state = "running"
    BY DEF StageResult, IsCurrent
  <2>4. i # 0
    BY <2>1 DEF TaskRecord
  <2> QED
    BY <2>1, <2>2, <2>3, <2>4
<1>2. RecordOK(updated) /\ updated \in TaskRecord
  BY <1>1, AddStageSound DEF RecordOK
<1>3. updated.completed = task.completed + 1 /\ updated.tries = 0
  BY <1>1 DEF AddStage, Unassigned, TaskRecord
<1>4. PhaseOf(task) = "open" /\ (~Repeats => task.completed < StageCount)
  BY <1>1, PhaseTyped DEF PipelineAhead, Ahead, State
<1>5. StageCount \in Nat \ {0} /\ Repeats \in BOOLEAN /\ MaxAttempts \in Nat \ {0}
  BY DEF ConstantsAssumption
<1> HIDE DEF task, updated
<1>6. CASE upcoming = 0
  <2>1. updated.completed % StageCount = 0 /\ (~Repeats => updated.completed = StageCount)
    <3>1. CASE Repeats
      <4>1. (updated.completed % StageCount) + 1 # 0
        BY <1>1, <1>3, <1>5
      <4> QED
        BY <1>6, <3>1, <4>1 DEF NextStage
    <3>2. CASE ~Repeats
      <4>1. updated.completed = StageCount
        BY <1>1, <1>3, <1>4, <1>5, <1>6, <3>2 DEF NextStage
      <4>2. StageCount % StageCount = 0
        BY <1>5
      <4> QED
        BY <4>1, <4>2
    <3> QED
      BY <1>5, <3>1, <3>2
  <2> DEFINE r == [updated EXCEPT !.state = "completed"]
  <2>2. r.state = "completed" /\ r.completed = updated.completed
    BY <1>2 DEF TaskRecord
  <2>3. tasks' = [tasks EXCEPT ![t] = r]
    BY <1>6 DEF StageResult, task, updated
  <2> HIDE DEF r, upcoming
  <2>4. PhaseOf(r) = "completed"
    BY <2>2, PhaseTyped DEF State, Finished
  <2> QED
    BY <1>3, <1>4, <2>1, <2>2, <2>3, <2>4, ReplaceRefines DEF SeenStep, Ahead, task
<1>7. CASE upcoming # 0
  <2>1. Repeats \/ updated.completed < StageCount
    BY <1>7 DEF NextStage
  <2>2. \E devs, options : Assign(t, updated, devs, v, upcoming, options)
    BY <1>7 DEF StageResult, task, updated
  <2> HIDE DEF upcoming
  <2>3. PICK r : /\ tasks' = [tasks EXCEPT ![t] = r]
                 /\ r.completed = updated.completed
                 /\ r.state \in {"queued", "assigned"} \/ 0 >= MaxAttempts
    BY <1>2, <1>3, <2>2, AssignSeen
  <2>4. r.state \in {"queued", "assigned"}
    BY <1>5, <2>3
  <2>5. PhaseOf(r) = "open"
    BY <2>4, PhaseTyped DEF State
  <2> QED
    BY <1>3, <1>4, <2>1, <2>3, <2>5, ReplaceRefines DEF SeenStep, Ahead, task
<1> QED
  BY <1>6, <1>7

(* Every step of the gateway is a step of the abstract lifecycle, or a stutter. *)
LEMMA NextRefines ==
  ASSUME ConstantsAssumption, StoredInv, PipelineAhead, [Next]_vars
  PROVE  Refines
<1>1. CASE WalkStep
  BY <1>1, WalkStepRefines
<1>2. RecoveryTimer \/ RegisterConsumer \/ (\E w \in Worker : DeviceMessage(w)) => UNCHANGED tasks
  BY DEF RecoveryTimer, RegisterConsumer, DeviceMessage, Register, WorkerState, Disconnect
<1>3. ASSUME NEW t \in Task, Submit(t) \/ Cancel(t)
      PROVE  Refines
  BY <1>3, ConsumerRefines
<1>4. ASSUME NEW t \in Task,
             \/ LeaseRunsOut(t)
             \/ DeadlinePasses(t)
             \/ \E w \in Worker : \E i \in DOMAIN tasks[t].attempts : StageMessage(w, t, i)
      PROVE  Refines
  BY <1>4, OtherMessageRefines
<1>5. CASE StageCompletes
  BY <1>5, ResultRefines DEF StageCompletes
<1>6. CASE UNCHANGED vars
  BY <1>6, SameTasksRefines DEF vars
<1> QED
  BY <1>1, <1>2, <1>3, <1>4, <1>5, <1>6, SameTasksRefines DEF Next, OtherStep

(* The gateway's initial states are initial states of the lifecycle. *)
LEMMA InitRefines ==
  ASSUME Init
  PROVE  Lifecycle!Init /\ PipelineAhead
<1>1. \A t \in Task : PhaseOf(tasks[t]) = "absent" /\ tasks[t].completed = 0
  BY DEF Init, NewTask, PhaseOf, Unfinished
<1>2. Lifecycle!Init
  BY <1>1 DEF Lifecycle!Init
<1>3. PipelineAhead
  BY <1>1 DEF PipelineAhead, Ahead
<1> QED
  BY <1>2, <1>3

-----------------------------------------------------------------------------

\* Seen from its consumer, every task goes through the life TaskLifecycle promises,
\* whatever its workers, the timer and the queue do (task_scheduler.ts:67-193,
\* client_message_handler.ts:322-625, task_store.ts:357-368).
THEOREM LifecycleImplemented == Spec => ImplementsLifecycle
<1>1. Init => Lifecycle!Init /\ PipelineAhead
  BY InitRefines
<1>2. StoredInv /\ PipelineAhead /\ [Next]_vars =>
        [Lifecycle!Next]_(Lifecycle!lifecycle) /\ PipelineAhead'
  BY ConstantsAssumption, NextRefines DEF Refines
<1>3. Init => StoredInv
  BY InitStored, ConstantsAssumption
<1>4. StoredInv /\ [Next]_vars => StoredInv'
  BY NextRecords, ConstantsAssumption
<1> QED
  BY <1>1, <1>2, <1>3, <1>4, PTL DEF Spec, ImplementsLifecycle, Lifecycle!Spec
=============================================================================
