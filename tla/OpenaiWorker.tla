----------------------------- MODULE OpenaiWorker -----------------------------
(***************************************************************************)
(* The Node.js worker carrying out the stages the gateway assigns to it:   *)
(* packages/worker_openai/src, GatewayWorkerClient and LeaseHeartbeat on   *)
(* top of HeldAnswers, for one registered connection.  The other end of    *)
(* the two FIFO channels is what the gateway does with the tasks it placed *)
(* on this worker, read from task_scheduler.ts and                         *)
(* client_message_handler.ts; TaskScheduling has the placement.            *)
(*                                                                         *)
(* The stage sets prefersSameWorkerOnRetry and the worker takes one        *)
(* assignment at a time, so a stage whose lease runs out comes back here.  *)
(***************************************************************************)
EXTENDS HeldAnswers

CONSTANTS
  MaxAttempts,   \* --max-attempts
  MaxExpiries,   \* bound: leases that run out
  MaxHeartbeats  \* bound: heartbeats sent

ASSUME OpenaiWorkerAssumption ==
  MaxAttempts \in Nat \ {0} /\ MaxExpiries \in Nat /\ MaxHeartbeats \in Nat

VARIABLES
  connected,  \* the connection to the gateway is open
  run,        \* the stage runs: where each one stands, and what it has in hand
  cancelled,  \* cancelledStageAssignmentIds
  heartbeats, \* leaseHeartbeatTimers
  toWorker,   \* frames from the gateway not yet read
  toGateway,  \* frames from the worker not yet read
  gateway,    \* the tasks at the gateway
  assigned,   \* stage.assign messages sent so far
  expiries,   \* leases that have run out so far
  beats       \* heartbeats sent so far

workerVars == <<connected, run, cancelled, heartbeats>>
gatewayVars == <<gateway, assigned, expiries, beats>>
vars == <<memory, workerVars, toWorker, toGateway, gatewayVars>>

Active == {a \in Assignment : run[a].phase \in {"starting", "reading"}} \* runningStageAssignmentIds

\* A task at the gateway.  `received` is the text its updates carried, `refused`
\* tells whether a result that carried a piece came too late; both are history.
GatewayTask == [state : {"queued", "assigned", "running", "completed", "failed",
                         "cancelled", "elsewhere"},
                current : Assignment \cup {None}, attempts : 0..MaxAttempts,
                isContinuation : BOOLEAN, wantsPieces : BOOLEAN,
                received : Seq(1..LastPiece), refused : BOOLEAN, whole : 0..LastPiece]

WorkerTypeOK ==
  /\ HeldAnswersTypeOK
  /\ connected \in BOOLEAN
  /\ run \in [Assignment -> [phase : {"none", "starting", "reading", "ended"},
                             task : Task, answer : Assignment \cup {None}]]
  /\ cancelled \subseteq Assignment /\ heartbeats \subseteq Assignment
  /\ toWorker \in Seq([type : {"stage.assign", "stage.cancel"}, of : Assignment,
                       task : Task, isContinuation : BOOLEAN])
  /\ toGateway \in Seq([type : {"stage.accepted", "stage.heartbeat", "stage.result", "stage.failed"},
                        of : Assignment, task : Task, newText : Seq(1..LastPiece),
                        done : BOOLEAN, whole : 0..LastPiece])
  /\ gateway \in [Task -> GatewayTask]
  /\ assigned \in 0..MaxAssignments /\ expiries \in 0..MaxExpiries
  /\ beats \in 0..MaxHeartbeats

Init ==
  /\ HeldAnswersInit
  /\ connected = TRUE
  /\ run \in [Assignment -> {[phase |-> "none", task |-> CHOOSE t \in Task : TRUE, answer |-> None]}]
  /\ cancelled = {} /\ heartbeats = {}
  /\ toWorker = <<>> /\ toGateway = <<>>
  /\ gateway \in [Task -> {[state |-> "queued", current |-> None, attempts |-> 0,
                            isContinuation |-> FALSE, wantsPieces |-> w, received |-> <<>>,
                            refused |-> FALSE, whole |-> 0] : w \in BOOLEAN}]
  /\ assigned = 0 /\ expiries = 0 /\ beats = 0

\* A read that a release has ended resolves before the next message or timer.
Settled == \A a \in Assignment :
             run[a].phase = "reading" => ~memory.answer[run[a].answer].isReleased

-----------------------------------------------------------------------------
(* The end of a run *)

Report(a, type, newText, done, whole) ==
  [type |-> type, of |-> a, task |-> run[a].task, newText |-> newText,
   done |-> done, whole |-> whole]

\* Slip: a cancelled run that ends is reported like any other.
EndRunLoudly(a, m, frame) ==
  /\ memory' = m
  /\ run' = [run EXCEPT ![a].phase = "ended", ![a].answer = None]
  /\ heartbeats' = heartbeats \ {a}
  /\ toGateway' = IF connected THEN Append(toGateway, frame) ELSE toGateway
  /\ cancelled' = cancelled \ {a}
  /\ UNCHANGED <<connected, toWorker, gatewayVars>>

\* Slip: only a run that answers stops its heartbeat.
EndRunBeating(a, m, frame) ==
  /\ memory' = m
  /\ run' = [run EXCEPT ![a].phase = "ended", ![a].answer = None]
  /\ heartbeats' = IF frame.type = "stage.failed" THEN heartbeats ELSE heartbeats \ {a}
  /\ toGateway' = IF a \in cancelled \/ ~connected THEN toGateway ELSE Append(toGateway, frame)
  /\ cancelled' = cancelled \ {a}
  /\ UNCHANGED <<connected, toWorker, gatewayVars>>

\* runAssignedStage once the computation is over: a cancelled run says nothing,
\* and neither does one whose connection is gone.
EndRun(a, m, frame) ==
  /\ memory' = m
  /\ run' = [run EXCEPT ![a].phase = "ended", ![a].answer = None]
  /\ heartbeats' = heartbeats \ {a}
  /\ toGateway' = IF a \in cancelled \/ ~connected THEN toGateway ELSE Append(toGateway, frame)
  /\ cancelled' = cancelled \ {a}
  /\ UNCHANGED <<connected, toWorker, gatewayVars>>

Throw(a, m) ==
  EndRun(a, ClearGeneration(m, run[a].task, a), Report(a, "stage.failed", <<>>, FALSE, 0))

\* The end of compute(): the whole answer, with no piece of its own.
AnswerWhole(a, g, m) ==
  IF IsReplaced(m, g, a) THEN Throw(a, m)
  ELSE EndRun(a, ClearGeneration(m, run[a].task, a),
              Report(a, "stage.result", <<>>, TRUE, m.answer[g].pieceCount))

-----------------------------------------------------------------------------
(* compute(), from one await to the next *)

\* startGeneration resolves: a release that came meanwhile ends the run.
StartResolves(a) ==
  /\ run[a].phase = "starting"
  /\ LET g == run[a].answer
     IN IF memory.answer[g].isReleased THEN Throw(a, memory)
        ELSE /\ memory' = BeginRead(memory, g, a)
             /\ run' = [run EXCEPT ![a].phase = "reading"]
             /\ UNCHANGED <<connected, cancelled, heartbeats, toWorker, toGateway, gatewayVars>>

\* The local server cannot be reached, refuses, or the request was aborted.
StartFails(a) ==
  /\ run[a].phase = "starting"
  /\ Throw(a, memory)

\* The run whose read is the next to resolve.
IsNextReader(a) ==
  /\ run[a].phase = "reading"
  /\ Head(memory.answer[run[a].answer].readers) = a

\* A released reader ends the read that waits on it.
ReadAbandoned(a) ==
  /\ IsNextReader(a)
  /\ LET g == run[a].answer
     IN /\ memory.answer[g].isReleased
        /\ Throw(a, [memory EXCEPT !.answer[g].readers = Tail(@)])

\* A read resolves with a piece.  (wantsPieces is a setting of the task, which
\* every stage.assign of it carries.)
ReadPiece(a) ==
  LET g == run[a].answer
      m == PieceRead(memory, g)
  IN /\ IsNextReader(a)
     /\ ~memory.answer[g].isReleased /\ memory.answer[g].ended = "no"
     /\ memory.answer[g].pieceCount < LastPiece
     /\ IF IsReplaced(m, g, a) THEN Throw(a, m)
        ELSE IF gateway[run[a].task].wantsPieces
        THEN EndRun(a, PieceReported(m, g),
                    Report(a, "stage.result", m.answer[g].unreported, FALSE, 0))
        ELSE IF m.answer[g].pieceCount >= MaximumAnswerPieces THEN AnswerWhole(a, g, m)
        ELSE /\ memory' = BeginRead(m, g, a)
             /\ UNCHANGED <<workerVars, toWorker, toGateway, gatewayVars>>

ReadEnds(a, how) ==
  /\ IsNextReader(a)
  /\ LET g == run[a].answer
         m == StreamEnded(memory, g, how)
     IN /\ ~memory.answer[g].isReleased /\ memory.answer[g].ended \in {"no", how}
        /\ IF how = "done" THEN AnswerWhole(a, g, m) ELSE Throw(a, m)

-----------------------------------------------------------------------------
(* What the gateway says *)

RunFrame(type, f, done, whole) ==
  [type |-> type, of |-> f.of, task |-> f.task, newText |-> <<>>, done |-> done, whole |-> whole]

Started(f, phase, g) == [run EXCEPT ![f.of] = [phase |-> phase, task |-> f.task, answer |-> g]]

\* A first run starts an answer of its own.
StartAnswer(f) ==
  /\ ~f.isContinuation
  /\ memory' = NewGeneration(memory, f.task, f.of)
  /\ run' = Started(f, "starting", f.of)
  /\ heartbeats' = heartbeats \cup {f.of}
  /\ toGateway' = Append(toGateway, RunFrame("stage.accepted", f, FALSE, 0))

CarryOn(f) ==
  LET g == memory.held[f.task]
      m == HeldGeneration(memory, f.task, f.of)
  IN /\ f.isContinuation /\ g # None
     /\ memory.answer[g].pieceCount < MaximumAnswerPieces
     /\ memory' = BeginRead(m, g, f.of)
     /\ run' = Started(f, "reading", g)
     /\ heartbeats' = heartbeats \cup {f.of}
     /\ toGateway' = Append(toGateway, RunFrame("stage.accepted", f, FALSE, 0))

\* The answer is at its limit: it is returned at once, without another read.
CarryOnAtLimit(f) ==
  LET g == memory.held[f.task]
      m == HeldGeneration(memory, f.task, f.of)
  IN /\ f.isContinuation /\ g # None
     /\ memory.answer[g].pieceCount >= MaximumAnswerPieces
     /\ memory' = ClearGeneration(m, f.task, f.of)
     /\ run' = Started(f, "ended", None)
     /\ toGateway' = toGateway \o <<RunFrame("stage.accepted", f, FALSE, 0),
                          RunFrame("stage.result", f, TRUE, m.answer[g].pieceCount)>>
     /\ UNCHANGED heartbeats

\* Slip: the worker only says that it has accepted the run.
CarryOnNothingSilently(f) ==
  /\ f.isContinuation /\ memory.held[f.task] = None
  /\ run' = Started(f, "ended", None)
  /\ toGateway' = Append(toGateway, RunFrame("stage.accepted", f, FALSE, 0))
  /\ UNCHANGED <<memory, heartbeats>>

\* The worker holds no answer to carry on: the run fails at once.
CarryOnNothing(f) ==
  /\ f.isContinuation /\ memory.held[f.task] = None
  /\ run' = Started(f, "ended", None)
  /\ toGateway' = toGateway \o <<RunFrame("stage.accepted", f, FALSE, 0),
                                 RunFrame("stage.failed", f, FALSE, 0)>>
  /\ UNCHANGED <<memory, heartbeats>>

\* runAssignedStage up to its first await.
StartRun(f) ==
  /\ StartAnswer(f) \/ CarryOn(f) \/ CarryOnAtLimit(f) \/ CarryOnNothing(f)
  /\ UNCHANGED cancelled

\* stage.cancel: only a run under way is remembered as cancelled.
OnCancel(f) ==
  /\ heartbeats' = heartbeats \ {f.of}
  /\ memory' = ClearGeneration(memory, f.task, f.of)
  /\ cancelled' = IF f.of \in Active THEN cancelled \cup {f.of} ELSE cancelled
  /\ UNCHANGED <<run, toGateway>>

HandleMessage ==
  /\ Settled /\ toWorker # <<>>
  /\ LET f == Head(toWorker)
     IN IF f.type = "stage.assign" THEN StartRun(f) ELSE OnCancel(f)
  /\ toWorker' = Tail(toWorker)
  /\ UNCHANGED <<connected, gatewayVars>>

Heartbeat(a) ==
  /\ Settled /\ a \in heartbeats /\ beats < MaxHeartbeats
  /\ beats' = beats + 1
  /\ toGateway' = Append(toGateway, Report(a, "stage.heartbeat", <<>>, FALSE, 0))
  /\ UNCHANGED <<memory, workerVars, toWorker, gateway, assigned, expiries>>

IdleTimeout(g) ==
  /\ Settled /\ IdleTimerFires(g)
  /\ UNCHANGED <<workerVars, toWorker, toGateway, gatewayVars>>

\* Slip: the answers left open wait for runs that cannot come.
OnCloseHolding ==
  /\ connected /\ Settled
  /\ connected' = FALSE
  /\ heartbeats' = {}
  /\ toWorker' = <<>> /\ toGateway' = <<>>
  /\ gateway' = [t \in Task |-> IF gateway[t].current = None THEN gateway[t]
                   ELSE [gateway[t] EXCEPT !.state = "elsewhere", !.current = None]]
  /\ UNCHANGED <<memory, run, cancelled, assigned, expiries, beats>>

\* The connection closes: every answer is released, and the frames on their way
\* are gone.  The gateway takes the assignments back (recoverWorkerAssignments);
\* where they go is no concern of this worker.
OnClose ==
  /\ connected /\ Settled
  /\ connected' = FALSE
  /\ memory' = ClearEveryGeneration(memory)
  /\ heartbeats' = {}
  /\ toWorker' = <<>> /\ toGateway' = <<>>
  /\ gateway' = [t \in Task |-> IF gateway[t].current = None THEN gateway[t]
                   ELSE [gateway[t] EXCEPT !.state = "elsewhere", !.current = None]]
  /\ UNCHANGED <<run, cancelled, assigned, expiries, beats>>

-----------------------------------------------------------------------------
(* The gateway *)

\* Assigns the stage of t again, to this same worker.
AssignNext(t, attempts, isContinuation) ==
  /\ assigned < MaxAssignments
  /\ assigned' = assigned + 1
  /\ gateway' = [gateway EXCEPT ![t].state = "assigned", ![t].current = assigned + 1,
                                ![t].attempts = attempts + 1, ![t].isContinuation = isContinuation]
  /\ toWorker' = Append(toWorker, [type |-> "stage.assign", of |-> assigned + 1, task |-> t,
                                   isContinuation |-> isContinuation])

\* scheduleQueuedTasks, for a worker that carries out no other assignment.
Place(t) ==
  /\ connected /\ gateway[t].state = "queued"
  /\ \A u \in Task : gateway[u].current = None
  /\ AssignNext(t, 0, FALSE)
  /\ UNCHANGED <<memory, workerVars, toGateway, expiries, beats>>

CancelFrame(a, t) == [type |-> "stage.cancel", of |-> a, task |-> t, isContinuation |-> FALSE]

\* recoverAssignments: the same value goes to the same worker, and no stage.cancel
\* with it.  A task out of attempts fails, and the worker is not told.
LeaseExpires(t) ==
  /\ gateway[t].current # None /\ expiries < MaxExpiries
  /\ expiries' = expiries + 1
  /\ IF gateway[t].attempts >= MaxAttempts
     THEN /\ gateway' = [gateway EXCEPT ![t].state = "failed", ![t].current = None]
          /\ UNCHANGED <<assigned, toWorker>>
     ELSE AssignNext(t, gateway[t].attempts, gateway[t].isContinuation)
  /\ UNCHANGED <<memory, workerVars, toGateway, beats>>

\* task.cancel by the consumer, whatever became of the task.
ConsumerCancels(t) ==
  /\ gateway[t].state # "cancelled"
  /\ gateway' = [gateway EXCEPT ![t].state = "cancelled", ![t].current = None]
  /\ toWorker' = IF gateway[t].current = None THEN toWorker
                 ELSE Append(toWorker, CancelFrame(gateway[t].current, t))
  /\ UNCHANGED <<memory, workerVars, toGateway, assigned, expiries, beats>>

\* A heartbeat of an assignment that is not current is answered with stage.cancel.
ReadHeartbeat(f) ==
  /\ toWorker' = IF gateway[f.task].current = f.of THEN toWorker
                 ELSE Append(toWorker, CancelFrame(f.of, f.task))
  /\ UNCHANGED gatewayVars

ReadAccepted(f) ==
  /\ gateway' = IF gateway[f.task].current = f.of
                THEN [gateway EXCEPT ![f.task].state = "running"] ELSE gateway
  /\ UNCHANGED <<toWorker, assigned, expiries, beats>>

\* Slip: a result is taken whichever assignment of the stage it is for.
ReadResultOfAny(f) ==
  LET t == f.task
  IN \/ /\ gateway[t].current = None
        /\ UNCHANGED <<gateway, toWorker, assigned, expiries, beats>>
     \/ /\ gateway[t].current # None /\ f.done
        /\ gateway' = [gateway EXCEPT ![t].state = "completed", ![t].current = None,
                                      ![t].whole = f.whole]
        /\ UNCHANGED <<toWorker, assigned, expiries, beats>>
     \/ /\ gateway[t].current # None /\ ~f.done
        /\ assigned < MaxAssignments
        /\ assigned' = assigned + 1
        /\ gateway' = [gateway EXCEPT ![t].state = "assigned", ![t].current = assigned + 1,
                         ![t].attempts = 1, ![t].isContinuation = TRUE,
                         ![t].received = @ \o f.newText]
        /\ toWorker' = Append(toWorker, [type |-> "stage.assign", of |-> assigned + 1,
                                         task |-> t, isContinuation |-> TRUE])
        /\ UNCHANGED <<expiries, beats>>

\* acceptStageResult: refused when another assignment is current; otherwise the
\* piece is broadcast, and the stage runs again until it answers done.
ReadResult(f) ==
  LET t == f.task
  IN \/ /\ gateway[t].current # f.of
        /\ gateway' = [gateway EXCEPT ![t].refused = @ \/ f.newText # <<>>]
        /\ UNCHANGED <<toWorker, assigned, expiries, beats>>
     \/ /\ gateway[t].current = f.of /\ gateway[t].state = "running" /\ f.done
        /\ gateway' = [gateway EXCEPT ![t].state = "completed", ![t].current = None,
                                      ![t].whole = f.whole]
        /\ UNCHANGED <<toWorker, assigned, expiries, beats>>
     \/ /\ gateway[t].current = f.of /\ gateway[t].state = "running" /\ ~f.done
        /\ assigned < MaxAssignments
        /\ assigned' = assigned + 1
        /\ gateway' = [gateway EXCEPT ![t].state = "assigned", ![t].current = assigned + 1,
                         ![t].attempts = 1, ![t].isContinuation = TRUE,
                         ![t].received = @ \o f.newText]
        /\ toWorker' = Append(toWorker, [type |-> "stage.assign", of |-> assigned + 1,
                                         task |-> t, isContinuation |-> TRUE])
        /\ UNCHANGED <<expiries, beats>>

ReadFailed(f) ==
  /\ gateway' = IF gateway[f.task].current = f.of
                THEN [gateway EXCEPT ![f.task].state = "failed", ![f.task].current = None]
                ELSE gateway
  /\ UNCHANGED <<toWorker, assigned, expiries, beats>>

GatewayReads ==
  /\ toGateway # <<>>
  /\ LET f == Head(toGateway)
     IN CASE f.type = "stage.heartbeat" -> ReadHeartbeat(f)
          [] f.type = "stage.accepted"  -> ReadAccepted(f)
          [] f.type = "stage.result"    -> ReadResult(f)
          [] OTHER                      -> ReadFailed(f)
  /\ toGateway' = Tail(toGateway)
  /\ UNCHANGED <<memory, workerVars>>

-----------------------------------------------------------------------------
RunStep(a) ==
  \/ StartResolves(a) \/ StartFails(a) \/ ReadAbandoned(a) \/ ReadPiece(a)
  \/ ReadEnds(a, "done") \/ ReadEnds(a, "failed")

Next ==
  \/ HandleMessage \/ OnClose \/ GatewayReads
  \/ \E a \in Assignment : RunStep(a) \/ Heartbeat(a) \/ IdleTimeout(a)
  \/ \E t \in Task : Place(t) \/ LeaseExpires(t) \/ ConsumerCancels(t)

Spec == Init /\ [][Next]_vars

\* Both processes take what is sent to them, a local server asked for an answer
\* goes on with it or fails, and the idle timer fires.
\* Nothing obliges a lease to run out, a consumer to cancel or a connection to close.
Fairness ==
  /\ WF_vars(HandleMessage) /\ WF_vars(GatewayReads)
  /\ \A a \in Assignment : WF_vars(RunStep(a)) /\ WF_vars(IdleTimeout(a))

FairSpec == Spec /\ Fairness

-----------------------------------------------------------------------------
(* Properties *)

\* While a run carries out the assignment the gateway holds for a task, the answer
\* in its hand is the one held for the task, it owns it, and nobody has released
\* it: not the run it replaced, not a late stage.cancel of that one, not a timer.
CurrentRunKeepsItsAnswer ==
  \A t \in Task :
    LET a == gateway[t].current
    IN a # None /\ a \in Active =>
         /\ memory.held[t] = run[a].answer
         /\ memory.answer[run[a].answer].owner = a
         /\ ~memory.answer[run[a].answer].isReleased

\* No request to the local server outlives its use: an answer that is not released
\* is held for its task, and is either in the hand of the run that owns it or has
\* the timer armed that gives it up.  Without a connection nothing is held at all.
NothingReadForNobody ==
  /\ \A g \in Assignment :
       memory.answer[g].exists /\ ~memory.answer[g].isReleased =>
         /\ connected /\ \E t \in Task : memory.held[t] = g
         /\ memory.answer[g].idleTimer <=>
              ~\E a \in Active : run[a].answer = g /\ memory.answer[g].owner = a
  /\ \A t \in Task : memory.held[t] # None => ~memory.answer[memory.held[t]].isReleased

\* The lease of an assignment is extended exactly while its run is under way and
\* wanted, and no cancellation is remembered beyond the run it was for.
LeaseExtendedWhileRunning ==
  /\ cancelled \subseteq Active
  /\ heartbeats = IF connected THEN Active \ cancelled ELSE {}

\* What the runs of one answer have returned, followed by what waits for the next
\* one to return it, is what the local server produced, each piece once and in
\* order, although two runs may read from it at a time.
NoPieceDroppedByTheWorker ==
  \A g \in Assignment :
    LET s == memory.answer[g]
    IN s.reported \o s.unreported = [i \in 1..s.pieceCount |-> i]

\* The pieces of a task reach its consumer in order and none of them twice; and
\* none is skipped unless the gateway refused the result that carried one.
PiecesArriveInOrder ==
  \A t \in Task :
    LET received == gateway[t].received
    IN /\ \A i, j \in DOMAIN received : i < j => received[i] < received[j]
       /\ ~gateway[t].refused => received = [i \in DOMAIN received |-> i]

\* A run whose assignment the gateway took back while it was under way, and told
\* the worker so in time, reports neither a result nor a failure: from the moment
\* the worker has read stage.cancel for a run, no frame but a heartbeat is sent
\* for it.
CancelledRunsStaySilent ==
  [][\A a \in cancelled :
       Len(toGateway') > Len(toGateway) =>
         LET f == toGateway'[Len(toGateway')] IN f.of = a => f.type = "stage.heartbeat"]_vars

\* An assignment the gateway waits for is settled: its run answers, fails or is
\* taken back.  No run ends without the gateway hearing of it.
EveryAssignmentIsSettled ==
  \A t \in Task : \A a \in Assignment :
    (gateway[t].current = a) ~> (gateway[t].current # a)

\* docs/protocol_by_role.md:500: "A run that is replaced while it waits for a piece
\* hands what it read to the run that replaced it, so no piece is lost": unless a
\* result was refused, a finished answer has reached its consumer piece by piece.
NoPieceIsLost ==
  \A t \in Task :
    gateway[t].state = "completed" /\ gateway[t].wantsPieces /\ ~gateway[t].refused =>
      Len(gateway[t].received) = gateway[t].whole
=============================================================================
