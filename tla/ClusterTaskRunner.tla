--------------------------- MODULE ClusterTaskRunner ---------------------------
(***************************************************************************)
(* The one connection of the OpenAI-compatible server to the gateway, and  *)
(* the requests that share it: packages/consumer_openai/src/libs, the      *)
(* class ClusterTaskRunner, with the submitting half of ConsumerClient     *)
(* (packages/consumer_cli).  The gateway answers over two FIFO channels;   *)
(* what it does with a submission is reduced to what a consumer can see of *)
(* it.  The authentication of the connection is the module                 *)
(* GatewayConnection's; here it is the one step Registered.                *)
(*                                                                         *)
(* The server is one Node.js thread, so a callback runs to completion, and *)
(* what an awaiting function does next belongs to the callback that        *)
(* resolved its promise.                                                   *)
(***************************************************************************)
EXTENDS Integers, Sequences, FiniteSets

CONSTANTS
  Request,      \* the calls of run(), named after the HTTP requests behind them
  MaxInFlight,  \* --max-tasks-in-flight
  MaxPieces     \* bound: pieces one task reports of its answer

ASSUME RunnerAssumption == MaxInFlight \in Nat \ {0} /\ MaxPieces \in Nat

VARIABLES
  connection,  \* the fields of ClusterTaskRunner, and the socket of its client
  waiters,     \* registrationWaiters, oldest first
  run,         \* one PendingTask per call, from its start to its answer
  aborted,     \* the calls whose AbortSignal has fired
  toGateway,   \* frames sent to the gateway and not yet read
  toRunner,    \* frames the gateway sent and not yet read
  task         \* the task each submission became at the gateway

runnerVars == <<connection, waiters, run, aborted, toGateway, toRunner, task>>

\* How a call is answered.  An interrupted answer is one whose stopReason has no
\* OpenAI value.  `timed_out` is set apart from the other failures; the codes of
\* OpenaiError are not.
Outcomes == {"none", "answer", "interrupted", "failure", "timed_out"}

\* How a task ends.  `failed` stands for a result that cannot be read as well.
Finished == {"completed", "interrupted", "failed", "cancelled"}

RunnerTypeOK ==
  /\ connection \in [socket : {"opening", "registered", "closed"}, isRegistered : BOOLEAN,
                     isClosed : BOOLEAN, reconnectTimer : BOOLEAN]
  /\ waiters \in Seq(Request)
  /\ run \in [Request -> [phase : {"idle", "waiting", "pending", "settled"},
                          outcome : Outcomes, isStreaming : BOOLEAN,
                          knowsTask : BOOLEAN, heard : 0..MaxPieces]]
  /\ aborted \subseteq Request
  /\ toGateway \in Seq([type : {"task.submit", "task.cancel"}, of : Request])
  /\ toRunner \in Seq([type : {"task.accepted", "task.updated", "error"},
                       of : Request, state : Finished \cup {"running"}, newText : BOOLEAN])
  /\ task \in [Request -> [state : Finished \cup {"absent", "running"},
                           pieces : 0..MaxPieces, hasOwner : BOOLEAN]]

RunnerInit ==
  /\ connection = [socket |-> "opening", isRegistered |-> FALSE, isClosed |-> FALSE,
                   reconnectTimer |-> FALSE]
  /\ waiters = <<>>
  /\ run = [r \in Request |->
              [phase |-> "idle", outcome |-> "none", isStreaming |-> FALSE,
               knowsTask |-> FALSE, heard |-> 0]]
  /\ aborted = {}
  /\ toGateway = <<>> /\ toRunner = <<>>
  /\ task = [r \in Request |-> [state |-> "absent", pieces |-> 0, hasOwner |-> FALSE]]

-----------------------------------------------------------------------------
(* Answering a call *)

Pending == {r \in Request : run[r].phase = "pending"}   \* pendingByTaskRequestId

\* run with the calls of S answered with `outcome`.
Settled(S, outcome) ==
  [r \in Request |-> IF r \in S THEN [run[r] EXCEPT !.phase = "settled", !.outcome = outcome]
                                ELSE run[r]]

\* How a task in a given state answers the call that waits for it, if it does.
OutcomeOf(state) ==
  CASE state = "completed"   -> "answer"
    [] state = "interrupted" -> "interrupted"
    [] state \in {"failed", "cancelled"} -> "failure"
    [] OTHER -> "none"

SettledFromTaskState(r, state) ==
  IF OutcomeOf(state) = "none" THEN run ELSE Settled({r}, OutcomeOf(state))

-----------------------------------------------------------------------------
(* Starting a call *)

SubmitFrame(r) == [type |-> "task.submit", of |-> r]

\* The part of run() after the wait for a connection: the call is pending, its
\* timeout runs, and from now on its AbortSignal is listened to.
StartPending(S) ==
  [r \in Request |-> IF r \in S THEN [run[r] EXCEPT !.phase = "pending"] ELSE run[r]]

IsFull == Cardinality(Pending) >= MaxInFlight

RefuseWhenFull(r) ==
  /\ IsFull
  /\ run' = Settled({r}, "failure")
  /\ UNCHANGED <<waiters, toGateway>>

SubmitAtOnce(r, isStreaming) ==
  /\ ~IsFull /\ connection.isRegistered /\ ~connection.isClosed
  /\ run' = [run EXCEPT ![r].phase = "pending", ![r].isStreaming = isStreaming]
  /\ toGateway' = Append(toGateway, SubmitFrame(r))
  /\ UNCHANGED waiters

RefuseWhenClosed(r) ==
  /\ ~IsFull /\ connection.isClosed
  /\ run' = Settled({r}, "failure")
  /\ UNCHANGED <<waiters, toGateway>>

WaitForConnection(r, isStreaming) ==
  /\ ~IsFull /\ ~connection.isRegistered /\ ~connection.isClosed
  /\ run' = [run EXCEPT ![r].phase = "waiting", ![r].isStreaming = isStreaming]
  /\ waiters' = Append(waiters, r)
  /\ UNCHANGED toGateway

\* run(): the limit is looked at before the wait for a registered connection.
Run(r, isStreaming) ==
  /\ run[r].phase = "idle"
  /\ \/ RefuseWhenFull(r) \/ RefuseWhenClosed(r)
     \/ SubmitAtOnce(r, isStreaming) \/ WaitForConnection(r, isStreaming)
  /\ UNCHANGED <<connection, aborted, toRunner, task>>

-----------------------------------------------------------------------------
(* The connection *)

\* Slip: only a connection that had registered is opened again.
ScheduleReconnectOnce(c) == IF c.isClosed \/ ~c.isRegistered THEN c ELSE [c EXCEPT !.reconnectTimer = TRUE]

\* _scheduleReconnect, applied to the fields c.  How long it waits is left out.
ScheduleReconnect(c) ==
  IF c.isClosed \/ c.reconnectTimer THEN c
  ELSE [c EXCEPT !.reconnectTimer = TRUE]

\* The reconnect timer fires: _connect opens a socket, or fails to.
Connect ==
  /\ connection.reconnectTimer
  /\ LET fired == [connection EXCEPT !.reconnectTimer = FALSE]
     IN connection' \in {[fired EXCEPT !.socket = "opening"], ScheduleReconnect(fired)}
  /\ UNCHANGED <<waiters, run, aborted, toGateway, toRunner, task>>

\* _onRegistered: every waiting call goes on to submit, in the order they came.
Registered ==
  /\ connection.socket = "opening"
  /\ connection' = [connection EXCEPT !.socket = "registered", !.isRegistered = TRUE]
  /\ run' = StartPending({waiters[i] : i \in DOMAIN waiters})
  /\ toGateway' = toGateway \o [i \in DOMAIN waiters |-> SubmitFrame(waiters[i])]
  /\ waiters' = <<>>
  /\ UNCHANGED <<aborted, toRunner, task>>

\* _onConnectionLost.  Frames on their way are gone with the connection, and the
\* gateway forgets the device, so no later frame of its tasks comes back.
ConnectionLost ==
  /\ connection.socket # "closed"
  /\ connection' = ScheduleReconnect([connection EXCEPT !.socket = "closed", !.isRegistered = FALSE])
  /\ run' = Settled(Pending, "failure")
  /\ toGateway' = <<>> /\ toRunner' = <<>>
  /\ task' = [r \in Request |-> [task[r] EXCEPT !.hasOwner = FALSE]]
  /\ UNCHANGED <<waiters, aborted>>

\* close(): the socket closes with a ConnectionLost of its own, later.
Close ==
  /\ ~connection.isClosed
  /\ connection' = [connection EXCEPT !.isClosed = TRUE, !.reconnectTimer = FALSE,
                                      !.isRegistered = FALSE]
  /\ run' = Settled(Pending \cup {waiters[i] : i \in DOMAIN waiters}, "failure")
  /\ waiters' = <<>>
  /\ UNCHANGED <<aborted, toGateway, toRunner, task>>

ConnectionWaitExpires(r) ==
  /\ run[r].phase = "waiting"
  /\ run' = Settled({r}, "failure")
  /\ \E i \in DOMAIN waiters :
       /\ waiters[i] = r
       /\ waiters' = SubSeq(waiters, 1, i - 1) \o SubSeq(waiters, i + 1, Len(waiters))
  /\ UNCHANGED <<connection, aborted, toGateway, toRunner, task>>

-----------------------------------------------------------------------------
(* What the gateway answers *)

OnTaskAccepted(f) ==
  run' = IF run[f.of].phase # "pending" THEN run
         ELSE [SettledFromTaskState(f.of, f.state) EXCEPT ![f.of].knowsTask = TRUE]

OnTaskUpdated(f) ==
  IF run[f.of].phase = "pending" /\ run[f.of].knowsTask
  THEN run' = [SettledFromTaskState(f.of, f.state)
                 EXCEPT ![f.of].heard = IF f.newText THEN @ + 1 ELSE @]
  ELSE UNCHANGED run

OnGatewayError(f) ==
  run' = IF run[f.of].phase # "pending" THEN run
         ELSE Settled({f.of}, "failure")

ReceiveFrame ==
  /\ toRunner # <<>>
  /\ LET f == Head(toRunner)
     IN CASE f.type = "task.accepted" -> OnTaskAccepted(f)
          [] f.type = "task.updated"  -> OnTaskUpdated(f)
          [] OTHER                    -> OnGatewayError(f)
  /\ toRunner' = Tail(toRunner)
  /\ UNCHANGED <<connection, waiters, aborted, toGateway, task>>

-----------------------------------------------------------------------------
(* Giving up *)

\* Slip: nothing is said to the gateway.
GiveUpSilently(r, outcome) ==
  /\ run' = IF run[r].phase = "pending" THEN Settled({r}, outcome) ELSE run
  /\ UNCHANGED toGateway

\* _giveUp: the task is cancelled only when its identifier is known.
GiveUp(r, outcome) ==
  IF run[r].phase = "pending"
  THEN /\ run' = Settled({r}, outcome)
       /\ toGateway' = IF run[r].knowsTask
                       THEN Append(toGateway, [type |-> "task.cancel", of |-> r])
                       ELSE toGateway
  ELSE UNCHANGED <<run, toGateway>>

\* Slip: the timer is cleared once the gateway has accepted the task.
RequestTimesOutEarly(r) ==
  /\ r \in Pending /\ ~run[r].knowsTask
  /\ GiveUp(r, "timed_out")
  /\ UNCHANGED <<connection, waiters, aborted, toRunner, task>>

RequestTimesOut(r) ==
  /\ r \in Pending
  /\ GiveUp(r, "timed_out")
  /\ UNCHANGED <<connection, waiters, aborted, toRunner, task>>

\* The AbortSignal fires.  A call that still waits for the connection has no
\* listener yet, and an abort in the past is never delivered to a later one.
Abort(r) ==
  /\ r \notin aborted
  /\ aborted' = aborted \cup {r}
  /\ GiveUp(r, "failure")
  /\ UNCHANGED <<connection, waiters, toRunner, task>>

-----------------------------------------------------------------------------
(* The gateway, as the consumer sees it *)

Frame(type, r, state, newText) == [type |-> type, of |-> r, state |-> state, newText |-> newText]

\* task.submit is refused, or becomes a task the connection owns.
GatewayReadsSubmit ==
  /\ toGateway # <<>> /\ Head(toGateway).type = "task.submit"
  /\ LET r == Head(toGateway).of
     IN \/ /\ toRunner' = Append(toRunner, Frame("error", r, "failed", FALSE))
           /\ UNCHANGED task
        \/ /\ task' = [task EXCEPT ![r].state = "running", ![r].hasOwner = TRUE]
           /\ toRunner' = Append(toRunner, Frame("task.accepted", r, "running", FALSE))
  /\ toGateway' = Tail(toGateway)
  /\ UNCHANGED <<connection, waiters, run, aborted>>

\* task.cancel ends the task whatever state it is in.
GatewayReadsCancel ==
  /\ toGateway # <<>> /\ Head(toGateway).type = "task.cancel"
  /\ LET r == Head(toGateway).of
     IN /\ task' = [task EXCEPT ![r].state = "cancelled"]
        /\ toRunner' = Append(toRunner, Frame("task.updated", r, "cancelled", FALSE))
  /\ toGateway' = Tail(toGateway)
  /\ UNCHANGED <<connection, waiters, run, aborted>>

\* broadcastTask, to the connection that submitted.  What becomes of a task whose
\* connection is gone is not followed: no frame of it comes back.
Broadcast(r, state, newText) ==
  toRunner' = Append(toRunner, Frame("task.updated", r, state, newText))

GatewayReportsPiece(r) ==
  /\ task[r].state = "running" /\ task[r].hasOwner
  /\ run[r].isStreaming /\ task[r].pieces < MaxPieces
  /\ task' = [task EXCEPT ![r].pieces = @ + 1]
  /\ Broadcast(r, "running", TRUE)
  /\ UNCHANGED <<connection, waiters, run, aborted, toGateway>>

GatewayFinishes(r, state) ==
  /\ task[r].state = "running" /\ task[r].hasOwner
  /\ task' = [task EXCEPT ![r].state = state]
  /\ Broadcast(r, state, FALSE)
  /\ UNCHANGED <<connection, waiters, run, aborted, toGateway>>

\* What happens of its own accord, whoever calls the runner.
RunnerStep ==
  \/ Connect \/ Registered \/ ConnectionLost \/ Close \/ ReceiveFrame
  \/ GatewayReadsSubmit \/ GatewayReadsCancel
  \/ \E r \in Request :
       \/ ConnectionWaitExpires(r) \/ RequestTimesOut(r) \/ GatewayReportsPiece(r)
       \/ \E state \in Finished \ {"cancelled"} : GatewayFinishes(r, state)
=============================================================================
