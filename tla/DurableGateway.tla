---------------------------- MODULE DurableGateway ----------------------------
(***************************************************************************)
(* The gateway of TaskScheduling with what it keeps on disk, and with the  *)
(* ends of the process: gateway/src/task/task_store.ts (persist, restore), *)
(* gateway/src/accounting/ledger_store.ts and accounting_recorder.ts.      *)
(*                                                                         *)
(* Every update of a task writes the task file before the handler goes on, *)
(* so `tasks` is what a restart reads back.  The registry of devices lives *)
(* in memory only: after a restart every connection is a new one.          *)
(*                                                                         *)
(* A handler that writes twice can be cut off between its writes, by the   *)
(* end of the process or by a write that fails (readFrame catches the      *)
(* exception and answers with an error).  Two handlers write more than     *)
(* once: the one that accepts a result writes the completed stage, the     *)
(* credit of the worker, the debit of the consumer and then the next       *)
(* assignment; the one that accepts a submission writes the task and then  *)
(* its first assignment.                                                   *)
(***************************************************************************)
EXTENDS TaskScheduling

CONSTANTS
  MaxCrashes,  \* bound: ends of the process and failed writes in one behaviour
  CutOff       \* whether a handler may be cut off between two writes

ASSUME DurableAssumption == MaxCrashes \in Nat /\ CutOff \in BOOLEAN

VARIABLES
  ledger,  \* the lines of the ledger file
  crashes  \* how often the process has ended or a write has failed

durable == <<tasks, devices, handler, ledger, crashes>>

\* A ledger line: the assignment it pays for, and whether the worker earns or the
\* consumer spends.
Entry == [task : Task, assignment : Nat \ {0}, credit : {1, -1}]

DurableInit == Init /\ ledger = <<>> /\ crashes = 0

\* Slip: the consumer is charged when the stage is assigned again, too.
EntriesTwice(t, i) ==
  LET line(c) == [task |-> t, assignment |-> i, credit |-> c]
  IN  IF i > 1 THEN <<line(1), line(-1), line(-1)>> ELSE <<line(1), line(-1)>>

\* recordCompletedStage: one credit to the worker, then one debit to the consumer.
Entries(t, i) ==
  LET line(c) == [task |-> t, assignment |-> i, credit |-> c]
  IN  <<line(1), line(-1)>>

-----------------------------------------------------------------------------
(* The handlers, run to their end *)

Undisturbed == OtherStep /\ UNCHANGED <<ledger, crashes>>

CompleteStage(w, t, i, v) ==
  /\ StageResult(w, t, i, v)
  /\ ledger' = ledger \o Entries(t, i)
  /\ UNCHANGED crashes

-----------------------------------------------------------------------------
(* Ends of the process, and failed writes *)

\* The connections a process holds end with it; a device that returns is a new one.
Disconnected ==
  [w \in Worker |->
     IF IsOpen(devices, w) THEN [Unregistered EXCEPT !.connection = "gone"] ELSE devices[w]]

Restarts ==
  /\ crashes < MaxCrashes /\ crashes' = crashes + 1
  /\ devices' = Disconnected
  /\ handler' = Idle

\* Slip: an assignment is forgotten when its worker is not there to answer for it.
RestartForgetting ==
  /\ Restarts
  /\ tasks' = [t \in Task |-> [tasks[t] EXCEPT !.assignment = 0]]
  /\ UNCHANGED ledger

\* The process ends between two handlers, or between two steps of a walk.
Restart == Restarts /\ UNCHANGED <<tasks, ledger>>

\* The process ends, or appending the n-th line fails, after the completed stage was
\* written and before its next assignment was.
CutOffResult(w, t, i, v, n) ==
  /\ CutOff /\ handler = Idle
  /\ WasSent(w, t, i) /\ IsCurrent(t, i)
  /\ tasks[t].state = "running"
  /\ Reportable(tasks[t], v)
  /\ tasks' = [tasks EXCEPT ![t] = AddStage(@, i, w, v)]
  /\ ledger' = ledger \o SubSeq(Entries(t, i), 1, n)
  /\ \/ Restarts
     \/ /\ n < Len(Entries(t, i))
        /\ crashes < MaxCrashes /\ crashes' = crashes + 1
        /\ UNCHANGED <<devices, handler>>

\* The process ends after a submission was written and before it was assigned.
CutOffSubmit(t) ==
  /\ CutOff /\ handler = Idle
  /\ tasks[t].state = "absent"
  /\ Cardinality({u \in Task : Unfinished(tasks[u])}) < MaxActiveTasks
  /\ \A s \in Stage : HasWorkerForStage(s)
  /\ tasks' = [tasks EXCEPT ![t] = [NewTask EXCEPT !.state = "queued"]]
  /\ Restarts
  /\ UNCHANGED ledger

-----------------------------------------------------------------------------

DurableNext ==
  \/ Undisturbed
  \/ \E t \in Task, w \in Worker, v \in Value : \E i \in DOMAIN tasks[t].attempts :
       \/ CompleteStage(w, t, i, v)
       \/ \E n \in 0..2 : CutOffResult(w, t, i, v, n)
  \/ Restart
  \/ \E t \in Task : CutOffSubmit(t)

DurableSpec == DurableInit /\ [][DurableNext]_durable

\* The event loop of whichever process is running finishes the walk it is in and gets
\* round to the timer however many messages arrive.  Time passes, and no worker keeps
\* one run alive by heartbeats for ever.  Nothing else is assumed of workers and
\* consumers: they need not answer, come back or send anything.
DurableFairness ==
  /\ WF_durable(WalkStep /\ UNCHANGED <<ledger, crashes>>)
  /\ SF_durable(RecoveryTimer /\ UNCHANGED <<ledger, crashes>>)
  /\ \A t \in Task :
       /\ WF_durable(LeaseRunsOut(t) /\ UNCHANGED <<ledger, crashes>>)
       /\ WF_durable(DeadlinePasses(t) /\ UNCHANGED <<ledger, crashes>>)

DurableFairSpec == DurableSpec /\ DurableFairness

-----------------------------------------------------------------------------
(* Properties *)

DurableTypeOK ==
  /\ TypeOK
  /\ ledger \in Seq(Entry)
  /\ crashes \in 0..MaxCrashes

Lines(t, i, c) ==
  Cardinality({k \in DOMAIN ledger :
    ledger[k] = [task |-> t, assignment |-> i, credit |-> c]})

\* The ledger never says more than what happened: an assignment is paid for once at
\* most, only when its result was accepted, and nobody spends a credit that was not
\* earned; retries, late results and restarts add nothing.  The two lines of a stage
\* balance, but for the stages whose lines the end of a process or a failing append
\* came between: at most one for each of those.
PaidOnceForAcceptedWork ==
  /\ \A k \in DOMAIN ledger : ledger[k].assignment \in tasks[ledger[k].task].acknowledged
  /\ \A t \in Task : \A i \in tasks[t].acknowledged :
       Lines(t, i, -1) <= Lines(t, i, 1) /\ Lines(t, i, 1) <= 1
  /\ LET paidFor == UNION {{t} \X tasks[t].acknowledged : t \in Task}
     IN  Cardinality({p \in paidFor : Lines(p[1], p[2], 1) # Lines(p[1], p[2], -1)}) <= crashes

\* What one of the two sweeps looks at (task_scheduler.ts:143 and 173).
Findable(task) == task.state = "queued" \/ task.assignment # 0

\* No restart, retry or late message takes an unfinished task out of the sight of both
\* sweeps; only a handler cut off right behind a completed stage does.
StrandedOnlyBehindAStage ==
  [][\A t \in Task :
       Findable(tasks[t]) /\ Unfinished(tasks'[t]) =>
         Findable(tasks'[t]) \/ tasks'[t].completed > tasks[t].completed]_durable

\* Every task that was accepted finishes one way or another, whether its workers answer
\* or not: leases and the submission deadline see to it.  docker_server/README.md:86:
\* tasks in flight survive a restart, so this holds of them as well.
TasksSurviveRestart ==
  \A t \in Task : Unfinished(tasks[t]) ~> tasks[t].state \in Finished
=============================================================================
