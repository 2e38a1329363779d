# Formal verification of webai-at-home

webai-at-home runs language-model tasks on other people's machines.  *Consumers* submit tasks
to a *gateway*, the gateway cuts each task into the stages of its pipeline and assigns every
stage to a *worker* (a browser tab or a Node.js process), and credits and debits the accounts
involved when a stage completes.  All of it talks over websockets, devices come and go without
notice, and nothing but the gateway remembers what is under way.

This directory holds TLA+ models of that system, the TLC runs that check them on small
instances, and TLAPS proofs about them for every value of their constants.  Paths below are
relative to `src/packages/`; `PROJECT.json` maps every definition to the lines it models.

    tlc -config SchedulingAnswers.cfg MCTaskScheduling    # one run
    tlapm TaskScheduling_proofs.tla                       # the proofs of one module

## 1. The system

| Component | State | Operations | What is hard, and what makes it correct |
|---|---|---|---|
| **TaskScheduler**, **WorkerPlacement** (`gateway/src/task/task_scheduler.ts`, `device/worker_placement.ts`) | none of its own; moves tasks | `assign`, `scheduleQueuedTasks`, `recoverAssignments`, `recoverWorkerAssignments` | retries, lapsed leases and lost connections in any order; no task may be forgotten, revived, tried beyond `--max-attempts`, or continued where its answer is not held |
| **TaskStore** (`task/task_store.ts`) | tasks, their assignments, the task file | `create`, `assign`, `renewLease`, `addStage`, `update`, `restore`, `nextStage` | what a restart reads back; rounds of a repeating pipeline; duplicate and late results |
| **DeviceRegistry**, **DeviceAnnouncer** (`device/`) | devices, `activeAssignments`, membership revision, subscribers' pending activity | register, remove, `findWorker`, release and occupy, announce, flush | the counters move in other handlers than the assignments they count; batched announcements lag behind the registry |
| **ClientMessageHandler** (`task/client_message_handler.ts`) | none of its own | one handler per device message | every handler validates against the *current* assignment; a handler writes more than once |
| **WebsocketRouter**, **ConnectionHub**, **WebsocketHeartbeat** (`connection/`) | open connections, subscriptions, who answered the last ping | open, frame, close, ping round | the close of a connection races everything its device was doing; an exception in a handler is swallowed |
| **Gateway process** (`cli.ts`) | timers | recovery sweep every second, shutdown | the two sweeps run one after the other, between other handlers |
| **LedgerStore**, **AccountingRecorder** (`accounting/`) | ledger file, account names | append, credit and debit of a completed stage, paged reads | two appends are not one; exactly-once payment |
| **Accounts** (`accounting/account_*.ts`, `challenge_registry.ts`, `task/session_registry.ts`) | sessions, challenges, account keys | challenge, authenticate, renew | signatures are verified asynchronously; a session may end or be replaced meanwhile |
| **Rate limiter, pipeline registry** (`libs/`, `task/pipeline_registry.ts`) | windows; validated pipelines | admit; look up | sliding windows |
| **Node.js worker**, **browser worker** (`worker_openai`, `worker_webpage`) | running stage, held answers, heartbeat timer | accept, run, heartbeat, result, relinquish, cancel, reconnect | a cancel for a replaced run, held answers that are dropped, reconnecting under a new device identifier |
| **Consumers** (`consumer_openai`, `consumer_cli`) | pending requests, connection | submit, stream, give up, reconnect | giving up before the task identifier is known, limits checked before an await |
| HTTP routes, dashboard, flow viewer, benchmark, Docker image, experiments | - | - | serve, display or measure; no cluster state |

**How they interact.**  A device message goes through `WebsocketRouter.readFrame` to
`ClientMessageHandler.handle`; that calls `TaskStore` for the record, `DeviceAnnouncer` for the
counters, `TaskScheduler.assign` for the next placement and `AccountingRecorder` for the
ledger, all in one synchronous turn of Node's event loop.  The recovery timer and the close of a
connection call the same scheduler.  So the interleavings are those of whole handlers; the
exceptions are process ends and exceptions *between two writes of one handler*.  Workers and
consumers are separate processes: the messages between them and the gateway cross freely.

`PROJECT.json` lists, under `hazards`, what in this code a test would hardly reach, each at its
line, with the properties that cover it or the reason why none does.

## 2. The modules

| Module | What it is |
|---|---|
| `TaskScheduling` | the gateway's core: store, scheduler, placement, registry counters and the message handlers that change them |
| `TaskLifecycle` | abstract specification: what a consumer is promised about one task |
| `DurableGateway` | extends `TaskScheduling` with the ledger, the end and restart of the process, and handlers cut off between two writes |
| `HeldAnswers`, `OpenaiWorker` | the answers the Node.js worker holds between stage runs, and the worker on top of them, over two channels to its gateway |
| `ClusterTaskRunner`, `OpenaiRoutes` | the requests that share the one gateway connection of the OpenAI-compatible server, and the HTTP responses on top of them |
| `GatewayAccounts`, `GatewayConnection` | sessions, challenges, accounts and registration at the gateway, and the clients that hold the conversation with it |
| `DeviceMembership` | registry, announcements, subscriptions, heartbeat, and the lists those subscribed keep |
| `LedgerHistory` | totals and pages of the ledger, and a command reading a history while it grows |
| `TaskScheduling_proofs` | the proofs about `TaskScheduling`: records, stages, counters and the queue, refinement |
| `DurableGateway_proofs` | what of that survives the end of the process, and the ledger |
| `OpenaiRoutes_proofs`, `OpenaiWorker_proofs`, `GatewayConnection_proofs` | the proofs about the server, the worker and the connections |
| `LedgerHistory_proofs`, `DeviceMembership_proofs` | the proofs about the readers of the ledger and about who is connected |
| `Folding_proofs` | induction and folds, for these two |
| `MC...` | one per run's module: symmetry sets and constants for TLC; the `.cfg` files give the instances |

Each module models the other parts of the system by what they can do to it.  `TaskScheduling` lets a
worker send any message about any assignment it was ever sent; `OpenaiWorker` has the real worker, with
the gateway reduced to the tasks of that worker; `ClusterTaskRunner` has the real consumer, with a task
reduced to the frames its consumer sees; `GatewayConnection` has what precedes the work of either.

### TaskScheduling

`tasks` is `TaskStore.tasks`, one record per task identifier (`"absent"` before submission);
`devices` is the registry together with whether the connection is open; `handler` is the walk over
tasks the gateway is in the middle of.

* **Atomicity.** A handler that touches one task is one action, with all the calls it makes:
  `StageResult` stores the completed stage, releases the counter, works out the next stage and
  assigns it or completes the task.  A handler that visits many tasks (`recoverAssignments`
  followed by `scheduleQueuedTasks` in the timer, `scheduleQueuedTasks` after a registration,
  `recoverWorkerAssignments` after a close) is one step per task; `handler.left` holds the tasks
  still to visit, and every other handler has `handler = Idle` as a guard.  Only time
  (`LeaseRunsOut`, `DeadlinePasses`) passes in the middle of a walk.
* **`Assign`** is `TaskScheduler.assign` with its four outcomes: budget spent (`Exhaust`),
  no worker (`Requeue`), a continuation whose holder is not free (`Requeue` after `Misplaced`),
  and a placement (`Place`), which releases the replaced worker's counter, occupies the new one's,
  and sends `stage.cancel` unless the stage goes back to the same worker.  Its parameters are the
  record and the registry *as the handler has changed them so far*.
* **Placement.** `findWorker` takes the first match in registration order.  The model takes any
  match: it shows nothing that depends on that order.
* **Assignments** are indices into the task's list of attempts.  A worker may send any stage message
  about any assignment it was ever sent, at any time while it is connected: this covers late,
  repeated and reordered messages.  Messages the gateway answers with an error alone change
  nothing and are not steps.
* **Connections.** A connection is given a new device identifier, so a `Worker` connects once.
  A worker that reconnects is another member of `Worker`.
* **Values** of stages are abstracted to what the gateway looks at: `isContinuation`, `done`, or
  neither.
* **Time** is abstracted to two flags per task: the lease has run out, the submission deadline has
  passed.  A heartbeat that arrives in time changes nothing; one that arrives late rescues the
  lease (`renewLease` does not look at the clock).

Definitions headed `Slip:` (in every module) are plausible mistakes, defined before the definition they
would replace.  Nothing uses them; replacing a definition by its slip must make the corresponding
property fail, which shows that the property says something about the code.

### TaskLifecycle

A task is accepted, runs stages one at a time, and completes exactly at the end of its pipeline
(or of a whole round of a repeating one), or fails, or is cancelled.  `ImplementsLifecycle` is its
specification under the refinement mapping `phase <- PhaseOf`, `stages <- completed`: assignments,
retries, waits and recoveries are stuttering steps.  What the check shows is that no order of late
results and sweeps skips a stage, counts one twice, completes a task early, or continues one that
has ended.

### DurableGateway

`TaskStore` writes the whole task file in every update, so the durable copy of a task is `tasks`
itself; `devices` is memory only.  `Restart` is the end of the process between two handlers (or two
steps of a walk) and the restart from the files: the tasks stay as they are, every connection is
gone.  With `CutOff`, `CutOffResult` and `CutOffSubmit` cut a handler off between two of its writes,
by the end of the process or by a ledger append that throws (`readFrame` swallows the exception and
the gateway goes on).  A failing write of the *task* file, which leaves memory ahead of the disk, is
not modelled.


### HeldAnswers and OpenaiWorker

The worker (`worker_openai`) answers a task over an HTTP stream of a local model server and may return it
piece by piece: it then keeps the stream open between two stage runs.  `memory` is what it keeps:
`held` is `stateByTaskId`, `answer` the `TaskGenerationState`s, each named after the assignment whose run
began it.  A `TaskGenerationState` outlives its place in the map (a run still has it in hand), which is
why the two are separate.

* **Atomicity.** A Node.js callback runs to completion, so a step of a run goes from one `await` of
  `compute()` to the next: the request (`StartResolves`, `StartFails`) or a read (`ReadPiece`,
  `ReadEnds`, `ReadAbandoned`).  Messages, timers and the close of the connection come in between.
* **Two runs of one task.** The stage prefers its worker on a retry, and the gateway then sends no
  `stage.cancel`, so when a lease runs out the worker has a second run of the same task, and the two
  wait for the same reader: `readers` is that queue, oldest first.  `owner` decides whose read is
  returned.
* **The gateway's end** (`Place`, `LeaseExpires`, `ConsumerCancels`, `ReadResult`, ...) is what
  `TaskScheduling` does with the tasks of one worker of capacity one, over FIFO channels.
* Left out: registration and renewal of the session (`GatewayConnection`), the pages of the model
  server's protocol, and reconnection: a new connection is a new device with nothing in hand, so it is
  another instance.

### ClusterTaskRunner and OpenaiRoutes

`ClusterTaskRunner` holds the fields of the class and of its client's socket in `connection`, the callers
waiting for a registration in `waiters`, and one `PendingTask` per call in `run`.  The gateway is reduced
to what a consumer sees of a task: accepted or refused, pieces, an end.  After the connection is lost
`hasOwner` is false: the gateway goes on with the task, but no frame of it comes back.

`OpenaiRoutes` adds the Express response of each request (`written` is the sequence of its parts,
`isClosed` tells whether the caller is gone) and what the transaction log was told.  What an awaiting
route does next belongs to the step of the runner that settled its promise, so every runner step is
conjoined with `Respond`.

### GatewayAccounts and GatewayConnection

`GatewayAccounts` is the gateway's side: `session`, `challenge`, `accounts`, `device`, and `pending`, the
account messages waiting for the Web Cryptography API.  Those two messages (`account.register`,
`account.authenticate`) are two steps each, and any other step may come in between; all others are one.
Signatures are not bits: one is the key that made it, named by its account, and the challenge it is over.
An `account.authenticate` names an account and carries a signature, and verification (`IsVerified`)
compares both parts: with the account named and with the challenge taken.  Expiry is lazy as in the code: a lapsed session stays until it is looked at.

`GatewayConnection` adds the client of each connection: the worker's and the consumer's conversation
(`AccountAuthentication`, registration, renewal), or a client of role `"other"`.  That one sends the
messages in any order, names any account, and signs any challenge with its own key, whoever was handed it,
or sends a signature that somebody else made (`OtherSignatures`).  What it cannot do is sign with a key it
does not hold.  `link` is the network: when it fails each end finds out on its own.

### DeviceMembership

Registry, announcer, subscriptions and heartbeat, each by the field names of its class, and the list
`deviceById` of each observer.  What describes a device is announced at once, how busy it is in batches:
`pendingActivityDeviceIds` and `activityTimer`.  `hung` connections answer nothing and nothing tells the
gateway; only the ping rounds find them.  When a worker gains or loses an assignment is
`TaskScheduling`'s; here it may happen at any time.

### LedgerHistory

An entry is its place in `file`.  `summaries` are the totals in memory, which `Restore` rebuilds;
`EntriesFor` is one page; `reader` is `AccountHistoryCommand.run`, over one request at a time.  `since` is
a history variable: the length of the file when the first page was read, against which
`HistoryWithoutGaps` compares everything read later.

## 3. Runs

| Run | Question | Bounds |
|---|---|---|
| `SchedulingAnswers` | Do generated answers stay with the worker that holds them, is any task lost or passed over, and do the counters keep workers within their limits? | 2 tasks, 2 workers of capacity 1 or 2, one sticky repeating stage, 2 rounds, 1 attempt |
| `DurableRestarts` | Are stages counted and paid for once and the retry budget kept, over every mixture of lapse, rescue, loss, relinquish, late message, second registration, restart and cut-off handler?  Is `TaskLifecycle` implemented? | 1 task, 2 stages of which the second is sticky, 2 workers, 2 stage runs, hence one round of the pipeline, 2 attempts, 1 rescue, 1 crash or failed append |
| `DurableLiveness` | Does every accepted task finish, over a restart too? | 1 task, 2 workers, 2 rounds, 2 attempts, 1 restart between handlers, with fairness |
| `OpenaiServer` | Is every HTTP request answered, well formed, with the whole answer, and logged as what it was; are given-up tasks cancelled? | 2 requests, 1 task in flight, 1 piece |
| `WorkerRuns` | Do two runs of one answer, late cancels, timers and a lost connection leave the worker with what it needs and no more? | 1 task, 6 assignments, 3 pieces, 2 attempts, 2 lapses, 1 heartbeat |
| `GatewayConnection` | Does only a proved account get onto a session, does nothing outlive a connection, and does every client get through its conversation? | 2 connections with a key each; a worker, a consumer, any other client (3 messages) alone, or one (2 messages) beside a client that may sign for it; 2 challenges |
| `DeviceMembership` | Does whoever watches see the registry? | 2 workers, one of which may fail, 1 observer, 3 changes |
| `LedgerHistory` | Do pages fit together while the ledger grows, and totals over a restart? | 2 accounts, pages of 1 and 3 asked for and 2 given at most, 4 entries, 1 restart |

and `CounterLeak`, `StuckAfterRestart`, `LostPiece` and `AccountLost`, which TLC must find violated
(section 5).

**Why these bounds are enough.**

* *Scheduling.*  Tasks influence one another only through the counters of the workers and their places
  in a walk: two tasks and two workers, one of which can be full, show every such influence.  Two
  attempts are the smallest budget in which a retry both succeeds and exhausts.  `DurableRestarts` has one round of
  two stages, in which the end of a round is not the end of a stage, `DurableLiveness` and
  `SchedulingAnswers` two rounds of one, in which it is not the end of the task; that several rounds of
  several stages behave alike is proved (`LifecycleSurvivesRestarts`).  One
  crash suffices for the properties stated, which compare the states before and after one.
* *Server.*  Requests meet in the limit and in the queue of waiters: two requests and a limit of one show
  both, the limit being passed by one that waited included.  One piece is enough for "pieces and then the
  whole text must not both be written"; the order of several is `WorkerRuns`'.
* *Worker.*  Two lapses let a stage be replaced twice, over one piece or two, or replaced and then given
  up as out of attempts.  Three pieces are one more than two runs have in hand; `MaximumAnswerPieces` is 3,
  so the limit is reached.
  Tasks do not share anything in the worker except the channel.
* *Connections.*  A second challenge replaces the first, which is all a third could do.  Connections
  share only the account file, the challenges and whatever signatures their clients pass on: two, with a key
  each, so that there is an account to name whose key one does not hold, with or without a helper who signs.
  Three messages ask for a challenge and answer it, with one more before, of any type (`OtherTypes`), or
  between.  A worker or a consumer beside another client is too large for TLC with renewals; that nothing
  they sign helps the other is proved (`AccountsAreProved`).
* *Membership.*  The lists are per observer and the batch is a set of workers: one observer, and two
  workers so that a batch outlives one of them.
* *Ledger.*  A page smaller than the history, equal and larger, and an entry of the other account or
  side between any two.

`MaxStageRuns` (a repeating pipeline says `done` at the latest then), `MaxRenewals`, `MaxCrashes`,
`MaxAssignments`, `MaxExpiries`, `MaxHeartbeats`, `LastPiece`, `MaxPieces`, `MaxChallenges`, `MaxMessages`, `OtherTypes`,
`MaxRegistrations`, `MaxRevision`, `MaxRequests`, `Fallible`, `MaxEntries` and `MaxRestarts` bound what the
code does not.  `MaxAttempts`, `MaxActiveTasks`, `Limits`, `MaxInFlight`, `MaximumAnswerPieces` and
`MaximumReadLimit` are the program's own parameters.

A worker's counter is checked against what it holds (`CountsEveryAssignment`) only where workers
register once: `register` sets the counter back to zero whatever the worker holds.

`TypeOK` of `TaskScheduling` is checked in `DurableRestarts`; the type invariants of the other modules
say what their variables are and are not among the properties of a run.

**Deadlock** is checked in the runs of `TaskScheduling` and `DurableGateway`: the recovery timer can always
fire.  The others do stop: every request answered and the server closed, every bound used up, every
connection closed, a command that is done.

**Fairness.**

* `DurableFairSpec`: the event loop finishes the walk it is in (WF) and gets round to the recovery timer
  however many messages arrive (SF: the timer is enabled again and again between handlers).  Weak fairness
  of `LeaseRunsOut` and `DeadlinePasses` says that time passes and, in the case of a lease, that no worker
  keeps a single run alive with heartbeats for ever.  Nothing is assumed of workers or consumers otherwise:
  they need never answer, and never come back.
* `OpenaiRoutes`: only the two timers of a call fire (`ConnectionWaitExpires`, `RequestTimesOut`).  The
  gateway need never answer and the connection never open.
* `OpenaiWorker`: both processes read what is sent to them, and a local server asked for a piece goes on
  or fails.  The runs of the worker are not assumed to be cancelled, nor leases to lapse.
* `GatewayConnection`: for the worker and the consumer, frames that arrived are read, promises settle,
  armed timers fire, and each end notices a failed link.  Of other clients nothing is assumed.
* `DeviceMembership`: the activity timer and the ping timer fire (`setInterval`, `setTimeout`), a
  terminated socket emits `close`, and frames to an observer that has not hung are read.

## 4. What is proved

Every safety property of the passing runs is a theorem, for all
values of the constants that the modules' assumptions allow: any number of tasks, workers, stages, requests,
assignments, pieces, connections and challenges, and any budget or limit.  Each inductive invariant was
an invariant of a TLC run before it was proved.

### The gateway's core

`TaskScheduling_proofs`, in four parts:

* records (`IndInv`): `TypeCorrect`, `NothingStranded`, `AssignmentsAreHeld`, `BudgetIsKept`,
  `ContinuationsStay`, `CurrentKeepsRunning`, `FinishedStaysFinished`;
* stages: `StagesAreCountedOnce`, `LostAttemptsMoveAway`;
* counters and the queue: `CountersCoverHeld`, `NobodyIsOverbooked`, `QueueIsWalked`;
* refinement: `LifecycleImplemented`, which is `Spec => ImplementsLifecycle`.

**Records.**  Nearly every action ends in `Assign` applied to a record the handler has changed,
so the proof has one lemma about it: `AssignSound` says that `Assign`, given a good record that has a
free slot in its budget, leaves a good record and a registry of the right type, whichever of its
outcomes is taken.  `ReplaceRecord` says that replacing one good record by another keeps the part of
the invariant that ranges over all tasks.  Each action then needs only its own record and its own
walk.  `IndInv` is stronger than the properties in three ways.  `RecordOK` keeps `withdrawn` and
`acknowledged` within the attempts that exist: without it a new attempt could be one already
withdrawn.  `WalkOK` says that a walk still finds what it was started for: a task in `handler.left`
is still queued or still has an assignment, which is why the early returns of the code that check
it again have nothing to catch.  And `HeldByConnectedWorker` is part of it, since the loss of a
connection is what the walk over its tasks repairs.

**Stages.**  A handler may do four things to a record: let the assignment go on (`GoesOn`), drop it
(`Dropped`), give the task to a worker (`Given`), or count a result and then one of the others
(`ResultStep`).  What follows from these alone follows for every handler.  `CountedOK` is the invariant:
the acknowledged assignments are as many as the stages completed, the k-th of them was for the k-th stage,
and the current one is younger than all of them and for the stage after them.  The last part is what
makes a late result harmless.

**Counters.**  `Moves` relates counters and record over one handler: what is given goes up on its worker,
and nothing goes down that was not taken.  Then a counter is never below what its worker holds
(`HeldCounted`, an inequality only: `CounterLeak` shows that it may stay above), so room by the counter is
room indeed.  `HeldCounted` also says that a worker that has not connected yet holds nothing, which is
where a counter starts at zero rightly.

**Queue.**  `VisitedWait`: while the queue is walked, a task already visited that is still queued has to
wait, because what the walk does after the visit only takes room away.

**Refinement.**  It needs one invariant more, `PipelineAhead`: an open task of a pipeline that does not
repeat still has a stage to run.  Without it a result could count a stage beyond the last.  A step replaces
the record of one task at most, so `ReplaceRefines` reduces each action to what the consumer of that one
task sees (`SeenStep`).  `AssignSeen` says that `Assign` keeps a task open unless its budget is spent; a
completed stage has just given the budget back, so the handler of a result never fails its task.

### Restarts and the ledger

`IndInv` does not survive a handler that is cut off: behind a completed stage it leaves a running task
without an assignment, and a restart leaves assignments whose workers are gone.  `StoredInv` is the part of
`IndInv` without these two claims, and the lemmas on stages, counters and refinement rest on it, so that
they serve `DurableGateway_proofs` as well.  There, `DurableInv` is `StoredInv`, `CountedOK` and
`LedgerOK`: no line of the ledger is written twice, none before its result was accepted, no debit without
its credit, and the results whose two lines do not balance are no more than the process ends and failed
appends so far.  From it follow `LedgerIsSound`, `StagesSurviveRestarts`, `RecordsSurviveRestarts`,
`OnlyACutOffStageStrands`, `PromisesSurviveRestarts`, `PlacingSurvivesRestarts` and
`LifecycleSurvivesRestarts`.

### The server

`OpenaiRoutes_proofs`.  `RunnerInv` says what the two channels may hold for each request: a submission at
most once and before everything else of its task; frames of a task only on the connection that owns it,
in order, with nothing but another end behind an end; and as many pieces heard or on their way as the task
has produced.  `AbandonedOnlyWhenUnknown` (`TasksAreNotAbandoned`) and `OneConnection`
(`RunnerHasOneConnection`) are parts of it.  `ResponsesInv` rests on it and says, by the state of the call,
what has been written: an open stream carries the pieces heard so far, in order, and is begun with the first
of them; one whose client has left has the beginning of a stream and nothing behind it; an ended one is the
whole answer or ends in an error, and the transaction record says which.
`ResponsesAreWellFormed`, `FinishedMeansWhole` and `LogIsTrue` follow.

### The worker

`OpenaiWorker_proofs`, in four layers, each over the ones before:

* `WireInv`: assignments are numbered in the order they are sent and read in that order, so a run that
  begins is younger than every other; every frame, run and current assignment of a number is of one task.
  `LeasesAreExtended` is a part of it.
* `AnswersInv`: which run owns the answer of a task, who waits for its reader, and that every answer has a
  run, a timer or has been let go (`NoAnswerIsLeaked`).  With it: `CurrentRunIsSafe`,
  `CancelledRunsAreSilent`.
* `AllThere`: what was read of an answer is what was reported, followed by what waits for the next report
  (`NoPieceIsDropped`).
* `DeliveryInv`: what the consumer has is behind what the answer held for its task has reported, by no more
  than what is on its way or was refused as stale; and the frame the gateway is about to take continues it
  (`PiecesAreInOrder`).

### The connections

`GatewayConnection_proofs`.  `ConnectionInv` has the life of a challenge, from its issue to its one answer
(`ChallengesAreTakenOnce`), the trail of a signature, from the frame of the client that made it through the
pending verification to the session (`AccountsAreSigned`), and that a connection that is gone leaves
nothing (`NothingOutlivesAConnection`): the last is why an answer that comes after the close finds no
session to put an account on.  The clients may send anything, in any order.

That trail ends at the key of the account on the session, over a challenge the connection was handed, and
says nothing yet of who holds the key.  `HoldersInv` does: a challenge travels only to the connection it was
handed to, the clients of the conversation sign only those, and so a signature over a challenge handed to one
connection is of the key of the client there, or of a key that a client of role `"other"` holds.  With both,
`AccountsAreProved`: no order of messages, and nobody's signature, puts an account whose key only workers and
consumers hold on the connection of a client without that key.

`TurnInv` rests on it and is about the clients that hold a key pair.  Everything a client has under way is
counted, on the two wires, at the gateway and in the client: `Talk` for the conversation, `Places` for the
registration.  They add up to one at most; `Talk` is none once the conversation is settled, `Places` is
none before.  A step passes a turn on or ends it, begins the conversation, settles it, or closes
(`PassesOn`, `Begins`, `Settles`, `Closes`); these four keep `InTurn`, and each handler and reaction is
shown to be one of them.  `RegistersInTurn` follows.

`AwaitsInv` is the counterpart: `TurnInv` has one thing under way at most, `AwaitsInv` that there is
something.  A handler that takes what a client waits for answers it, computes the answer or refuses, and a
client that takes the answer says the next thing (`ReceiveAwaited`, `ClientAwaited`, `AnswersAwaited`).  From
it follow `RenewalIsKeptUp`, that between two sessions the next is under way or the timer for it armed, and
`NobodyIsStuck`, that a connected client neither registered nor refused waits for something that is there.
They are the safety halves of `SessionsComeBack` and `EveryClientRegisters`: the steps that remain are those
the fairness of the specification takes, and that they are taken is left to TLC.

### The readers of the ledger

`LedgerHistory_proofs`.  The history of an account and its totals are folds over a ledger of any length, so
each has a lemma on one entry more: it goes in front of the histories it belongs to and changes the totals
of one account by one (`HistoryGrows`, `TotalsGrow`).  With them `SummariesAddUp` and
`TotalsAreRestored` (the totals kept in memory are what a restart would read from the file) are inductive as
they stand: `BalancesAddUp`, `TotalsRestored`.  A balance is the number
of entries earned less the number spent, because an entry is one credit more or one less and never both.

`PagesWithoutGaps` (`HistoryWithoutGaps`) needs `LedgerInv`: the history a reader saw when its first page was
read stays the end of the history there is now (`HistoryGrowsInFront`), and a history is descending, so
a cursor is at one place of it.  Hence the entries behind the cursor of the last page are those that follow
in the history of the first, whatever was recorded since (`ReaderFollows`), and the page on its way goes on
where the reader's entries end (`WireFollows`).

### Who is connected

`DeviceMembership_proofs`.  `ViewFollowsRegistry` compares the registry with what an observer's list will be
once it has read all that is on its way: `View`, a fold over a queue of messages.  Two facts about it carry
the proof: a message at the end of the queue changes the view as it would change a list (`LastMessage`), and
reading the one at the front leaves the view as it is (`FirstRead`, by induction over the queue).  The second makes
every delivery a step that changes nothing; the first leaves four announcements to compare with the change of
the registry they announce (`FollowsJoined`, `FollowsBatched`, `FollowsLeft`, `FollowsFlushed`).  The batched one is right up to the devices still pending, which is why
`MembershipInv` has the pending set and the timer that will flush it (`BatchesAreTimed`).

Two theorems are the safety half of a liveness property TLC checks.  `ViewsSettle`: an observer that has
read all it was sent, while no batch is timed, has the registry as it is; `ViewsCatchUp` adds that this
comes about.  `ClosedIsGone`: a connection whose close was handled is neither in the registry nor
among the subscribers; `HungWorkersLeave` adds that a hung one is closed.

### Induction

The induction theorems of the library, on numbers as on finite sets, have an operator as a parameter, for
which the provers find no instance.  That a set of numbers has a least element has none (`WFMin`,
`NatLessThanWellFounded`), and `Folding_proofs` gets from it induction on a *set* of numbers: one proves that
`{n \in Nat : ...}` contains zero and every successor.  `FoldExists` and `FoldUnique` then say that the
function a fold of the community modules chooses exists, and that it is the only one.

### Assumptions

* `NobodyIsOverbooked`, `CountersCoverHeld` and `PlacingSurvivesRestarts` are stated for connections that
  register once (`~Reregisters`, or inside the property): a second registration sets the counter to zero
  whatever the worker holds, and the claim is then false.
* `LifecycleSurvivesRestarts` assumes a repeating pipeline or handlers that are not cut off
  (`Repeats \/ ~CutOff`).  Otherwise the last stage of a pipeline may be stored without the task being
  completed, which is the state `StuckAfterRestart` exhibits.
* The constants are what the code's option parser and schemas let through (`ConstantsAssumption`,
  `HeldAnswersAssumption`, `RunnerAssumption`, ...): positive limits and budgets, at least one task and
  one stage.

### Only model-checked

* **Liveness** (`TasksSurviveRestart`, `EveryRequestIsAnswered`, `EveryAssignmentIsSettled`,
  `EveryClientRegisters`, `SessionsComeBack`, `ViewsCatchUp`, `HungWorkersLeave`): there is no rule for
  fairness or `ENABLED`.  Of `EveryClientRegisters` and `SessionsComeBack` the safety half is proved
  (`NobodyIsStuck`, `RenewalIsKeptUp`).
* The four runs of section 5 refute what they state; there is nothing to prove.

## 5. What the code does not do

Four runs state what a document of the repository says and TLC refutes; `PROJECT.json` quotes the lines
under `findings`.

* `CounterLeak`: a worker whose assignment ends in the queue, or in a failure, keeps it in its
  counter for good.  (`CountsEveryAssignment` and `NeverOverbooked` show that the error is
  always on the safe side.)
* `StuckAfterRestart`: a task whose handler is cut off between the completed stage and the next
  assignment is found by no sweep and never finishes.  (`StrandedOnlyBehindAStage` shows that this is
  the only such place.)
* `LostPiece`: a run that is replaced while it waits for the *last* piece leaves it to the run that
  replaced it, which finds the stream at its end and answers `done` without that piece: a streaming
  consumer never gets it.  (`NoPieceDroppedByTheWorker` and `PiecesArriveInOrder` show that no other
  piece is lost, repeated or out of order, unless the gateway refused the result it came in.)
* `AccountLost`: a session that is renewed is replaced together with the account proved on it, and
  neither client proves the account again, so from the first renewal on the work of the connection is
  recorded against the shared development account.

Further divergences met on the way, each visible in a model but stated by no run:

* A lapsed or relinquished assignment whose task goes back to the queue is not cancelled at its worker
  (`gateway/src/task/task_scheduler.ts:90`; `docs/protocol_by_role.md:399`).
* `assign` takes care not to cancel an assignment replaced on the same worker
  (`task_scheduler.ts:101`); the next heartbeat of the replaced run is answered with that very
  `stage.cancel` (`client_message_handler.ts:455`).
* A finished task can still be cancelled (`client_message_handler.ts:411`; `protocol/src/task/task_types.ts:12`).
* A worker is credited and its consumer not charged when the recorder is cut off between its two appends
  (`accounting_recorder.ts:90`; `docs/accounting_system.md:131`).
* A caller that hangs up while its request waits for a connection is not noticed by the runner: the call goes
  on and submits a task for nobody (`cluster_task_runner.ts:221`; `consumer_openai/README.md:174`).
* The limit on tasks in flight is looked at before the wait for a connection, so every request that waited
  passes it (`consumer_openai/src/libs/cluster_task_runner.ts:193`; `consumer_openai/README.md:47`).
* A request given up before `task.accepted` is not cancelled at the gateway (`cluster_task_runner.ts:578`;
  `consumer_openai/README.md:174`).
* A body that is not JSON leaves no transaction record (`consumer_openai/README.md:178`).
* `AUTHENTICATION_REQUIRED` does not settle the conversation it answers
  (`protocol/src/accounting/account_authentication.ts:51`), so a client whose session lapses in it waits
  until it is closed: `EveryClientRegisters` makes an exception for it.
* A client without a key that renews before it is registered registers twice, and a second registration
  sets the counter of its assignments to zero.
* A piece whose `stage.result` is refused as stale is lost: the next run goes on behind it.
* A cursor that names no entry gets an empty page, not the first (`gateway/src/accounting/ledger_store.ts:157`).
* In the worker page, which is not modelled (`worker_webpage/web/src/main.ts`): `registerOfferedStages`
  uses `this.socket` after an `await`, so after a disconnection and reconnection it may register on a
  connection that has not authenticated; and `pagehide` drops the socket without forgetting the account,
  so the first `deviceAuthenticated` of the restored page is taken for a renewal.

## 6. What is not modelled, and why

The models cover what the repository keeps consistent across processes and over time: placement, retry,
persistence, payment, sessions, membership, streaming.  By lines that is the smaller part of the code,
most of which renders pages, formats logs and reports, loads models, parses options or messages, and
measures:

* **Worker page.**  Its held answers have the design `HeldAnswers` models, over models that run in the
  tab; its sharded computation is numerical and spread over several tabs; wake locks, downloads, audio and
  layout belong to the browser.  Its connection is the one part with a protocol of its own, because the page
  outlives it (put away, shown again, connected again); what reading it showed is in section 5.
* **Message log, its statistics, and the flow viewer.**  Sums, quantiles and layout over log files:
  sequential, without state that outlives a call.
* **Rate limiter of diagnostics, pipeline registry, configuration.**  A window count of one connection, and
  validated data read once; the pipelines are the constants `StageCount`, `Repeats` and `Sticky`.
* **Schemas, parsing, formatting, HTTP pages, Docker, benchmark, experiments.**
* **Of the modelled parts:** read-only messages, repeated submissions (`requestId`), signals between devices,
  `devices.resync`, the profile of an account, and a connection that registers as a worker and then again
  as a consumer.  `devices.subscribe` and `devices.unsubscribe` are in `DeviceMembership`, though no client
  of the repository sends them.
* **A write of the task file that fails** while the process goes on: memory and disk would have to be
  two variables, which multiplies the states of `DurableRestarts`.

**Next:** `DurableGateway` with memory and task file apart, so that a write of the task file that fails can
be modelled.
