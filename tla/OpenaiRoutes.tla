----------------------------- MODULE OpenaiRoutes -----------------------------
(***************************************************************************)
(* The chat completion route of the OpenAI-compatible server over its      *)
(* ClusterTaskRunner: packages/consumer_openai/src/http (OpenaiRoutes, and *)
(* what CurlStyleTransactionLogger is given to record) and src/api.        *)
(*                                                                         *)
(* A response is the sequence of things written to it.  The continuation   *)
(* of an awaited run() belongs to the step that settles it, so every step  *)
(* of the runner carries its effect on the responses.                      *)
(***************************************************************************)
EXTENDS ClusterTaskRunner

CONSTANT ReportsUsage  \* stream_options.include_usage, and token counts in the answer

ASSUME RoutesAssumption == ReportsUsage \in BOOLEAN

VARIABLES
  response,  \* the Express response of each request
  logged     \* the outcome its transaction was logged with, once its response closed

vars == <<runnerVars, response, logged>>

\* How a request is read: refused before run() is called, or run.
Kinds == {"unreadable", "refused", "chat"}

Chunk == {"role", "text", "finish", "usage", "error", "[DONE]", "json", "failure"}

RoutesTypeOK ==
  /\ RunnerTypeOK
  /\ response \in [Request -> [kind : Kinds \cup {"none"}, written : Seq(Chunk),
                               text : Seq(0..MaxPieces), isStarted : BOOLEAN,
                               writableEnded : BOOLEAN, isClosed : BOOLEAN]]
  /\ logged \in [Request -> {"no", "completed", "failed", "cancelled"}]

RoutesInit ==
  /\ RunnerInit
  /\ response = [r \in Request |-> [kind |-> "none", written |-> <<>>, text |-> <<>>,
                                    isStarted |-> FALSE, writableEnded |-> FALSE, isClosed |-> FALSE]]
  /\ logged = [r \in Request |-> "no"]

-----------------------------------------------------------------------------
(* Writing *)

\* Nothing reaches a response that has ended, nor a caller that has gone.
\* `text` is what the text chunks among them carry: the number of a piece, or 0
\* for the whole answer.
WriteText(resp, chunks, text) ==
  IF resp.writableEnded THEN resp
  ELSE IF resp.isClosed THEN [resp EXCEPT !.isStarted = TRUE]
  ELSE [resp EXCEPT !.isStarted = TRUE, !.written = @ \o chunks, !.text = @ \o text]

Write(resp, chunks) == WriteText(resp, chunks, <<>>)

End(resp, chunks) == [Write(resp, chunks) EXCEPT !.writableEnded = TRUE]

\* _sendFailure, and the one JSON body of an answer that is not streamed.
SendFailure(resp) == End(resp, <<"failure">>)

\* onPiece: the role goes out ahead of the first piece.
WritePiece(resp, k) ==
  WriteText(resp, IF resp.isStarted THEN <<"text">> ELSE <<"role", "text">>, <<k>>)

\* Slip: the text goes out whole at the end as well.
WriteWholeAlways(resp) ==
  WriteText(resp, IF resp.isStarted THEN <<"text">> ELSE <<"role", "text">>, <<0>>)

\* An answer none of whose text went out in pieces goes out whole.
WriteWhole(resp) ==
  IF resp.isStarted THEN resp ELSE WriteText(resp, <<"role", "text">>, <<0>>)

\* Slip: a failure is a JSON body although the stream has begun.
EndStreamBlind(resp, outcome) ==
  IF outcome = "answer" THEN End(WriteWhole(resp), <<"finish", "[DONE]">>) ELSE SendFailure(resp)

\* _streamChatCompletion once run() has settled.  The finish reason is worked
\* out after the text is written, and an interrupted answer has none.
EndStream(resp, outcome) ==
  CASE outcome = "answer" ->
         End(WriteWhole(resp),
             <<"finish">> \o (IF ReportsUsage THEN <<"usage">> ELSE <<>>) \o <<"[DONE]">>)
    [] outcome = "interrupted" -> End(WriteWhole(resp), <<"error", "[DONE]">>)
    [] OTHER -> IF resp.isStarted THEN End(resp, <<"error", "[DONE]">>) ELSE SendFailure(resp)

\* _handleChatCompletion once run() has settled.
Answered(resp, isStreaming, outcome) ==
  IF isStreaming THEN EndStream(resp, outcome)
  ELSE IF outcome = "answer" THEN End(resp, <<"json">>)
  ELSE SendFailure(resp)

\* Slip: the outcome is logged wherever it is decided.
OutcomeLoggedTwice(r, before, after, outcome) ==
  IF ~after.writableEnded \/ before.writableEnded THEN logged[r]
  ELSE IF outcome = "answer" THEN "completed" ELSE "failed"

\* What the `close` event of a response logs: the outcome its transaction has by
\* then, unless the caller hung up, which closed and logged it before.
OutcomeLogged(r, before, after, outcome) ==
  IF before.isClosed \/ ~after.writableEnded \/ before.writableEnded THEN logged[r]
  ELSE IF outcome = "answer" THEN "completed" ELSE "failed"

\* The responses after a step of the runner: a call may have heard a piece, and
\* may have been settled.
RespondTo(r) ==
  LET heard == IF run'[r].heard > run[r].heard
               THEN WritePiece(response[r], run'[r].heard) ELSE response[r]
  IN IF run[r].phase # "settled" /\ run'[r].phase = "settled"
     THEN Answered(heard, run[r].isStreaming, run'[r].outcome) ELSE heard

\* A response that ends closes once it is sent; nothing changes it in between.
Respond ==
  /\ response' = [r \in Request |-> RespondTo(r)]
  /\ logged' = [r \in Request |->
                  OutcomeLogged(r, response[r], RespondTo(r), run'[r].outcome)]

-----------------------------------------------------------------------------
(* The route *)

\* A body that is not JSON fails in the reader, ahead of the transaction record.
RefuseUnreadable(r) ==
  /\ response[r].kind = "none"
  /\ response' = [response EXCEPT ![r] = SendFailure([@ EXCEPT !.kind = "unreadable"])]
  /\ UNCHANGED <<runnerVars, logged>>

\* A key that does not match, a model not offered, messages it cannot take.
Reject(r) ==
  /\ response[r].kind = "none"
  /\ response' = [response EXCEPT ![r] = SendFailure([@ EXCEPT !.kind = "refused"])]
  /\ logged' = [logged EXCEPT ![r] = "failed"]
  /\ UNCHANGED runnerVars

\* Any other request calls run(), which may settle it at once.
Handle(r, isStreaming) ==
  /\ response[r].kind = "none"
  /\ Run(r, isStreaming)
  /\ LET received == [response[r] EXCEPT !.kind = "chat"]
         after == IF run'[r].phase = "settled"
                  THEN Answered(received, isStreaming, run'[r].outcome) ELSE received
     IN /\ response' = [response EXCEPT ![r] = after]
        /\ logged' = [logged EXCEPT ![r] = OutcomeLogged(r, received, after, run'[r].outcome)]

\* The `close` event of a response that has not ended: the caller hung up.  The
\* record is written, and the abort that follows may settle the call.
CallerHangsUp(r) ==
  /\ response[r].kind # "none" /\ ~response[r].writableEnded /\ ~response[r].isClosed
  /\ Abort(r)
  /\ logged' = [logged EXCEPT ![r] = "cancelled"]
  /\ LET gone == [response[r] EXCEPT !.isClosed = TRUE]
     IN response' = [response EXCEPT ![r] =
          IF run[r].phase # "settled" /\ run'[r].phase = "settled"
          THEN Answered(gone, run[r].isStreaming, run'[r].outcome) ELSE gone]

Next ==
  \/ RunnerStep /\ Respond
  \/ \E r \in Request :
       \/ RefuseUnreadable(r) \/ Reject(r) \/ CallerHangsUp(r)
       \/ \E isStreaming \in BOOLEAN : Handle(r, isStreaming)

Spec == RoutesInit /\ [][Next]_vars

\* Node fires every timer that is not cleared.
Fairness ==
  \A r \in Request :
    WF_vars(ConnectionWaitExpires(r) /\ Respond) /\ WF_vars(RequestTimesOut(r) /\ Respond)

FairSpec == Spec /\ Fairness

-----------------------------------------------------------------------------
(* Properties *)

\* The runner never stops trying and never holds two connections: until it is
\* closed it has a socket that is open or opening, or a timer to open one, and
\* never both (_connect, _scheduleReconnect, _onConnectionLost).
OneConnection ==
  ~connection.isClosed => (connection.reconnectTimer <=> connection.socket = "closed")

\* Every answer that was written is one a caller can read.  A streamed one says
\* the role once and first, then text, then either how it finished or an error,
\* then [DONE], and nothing after it; every other one is a single body.
IsStream(w) ==
  /\ w # <<>> => w[1] = "role"
  /\ \A i, j \in DOMAIN w : w[i] = w[j] /\ w[i] # "text" => i = j
  /\ \A i \in DOMAIN w :
       /\ w[i] \notin {"json", "failure"}
       /\ w[i] = "text"   => w[i - 1] \in {"role", "text"}
       /\ w[i] = "[DONE]" => i = Len(w) /\ w[i - 1] \in {"finish", "usage", "error"}
       /\ w[i] = "usage"  => w[i - 1] = "finish"
       /\ w[i] \in {"finish", "error"} => w[i - 1] \notin {"finish", "error", "usage"}

WellFormedResponse ==
  \A r \in Request :
    LET w == response[r].written
    IN \/ IsStream(w) /\ (response[r].writableEnded /\ ~response[r].isClosed => w[Len(w)] = "[DONE]")
       \/ w \in {<<"json">>, <<"failure">>}

\* A stream that says it finished has carried the whole answer of the task behind
\* it: every piece the cluster reported, each once and in order, or the text whole.
FinishedStreamIsTheAnswer ==
  \A r \in Request :
    (\E i \in DOMAIN response[r].written : response[r].written[i] = "finish") =>
      response[r].text = IF task[r].pieces = 0 THEN <<0>> ELSE [k \in 1..task[r].pieces |-> k]

\* The transaction log tells what the caller was sent: `completed` only for an
\* answer that went out in full, `failed` only for a failure, and `cancelled`
\* only for a caller who hung up before the response ended.
LogTellsTheExchange ==
  \A r \in Request :
    LET w == response[r].written
        Has(c) == \E i \in DOMAIN w : w[i] = c
    IN /\ logged[r] = "completed" => Has("json") \/ Has("finish")
       /\ logged[r] = "failed"    => Has("failure") \/ Has("error")
       /\ logged[r] = "cancelled" => ~Has("[DONE]") /\ ~Has("json") /\ ~Has("failure")

\* A task the gateway still runs while nobody waits for it is one the server
\* could not cancel: its call ended before task.accepted told its identifier, or
\* the connection it belongs to is gone.  Any other is being cancelled.
AbandonedOnlyWhenUnknown ==
  \A r \in Request :
    task[r].state = "running" /\ run[r].phase = "settled" =>
      \/ ~run[r].knowsTask
      \/ ~task[r].hasOwner
      \/ connection.isClosed
      \/ \E i \in DOMAIN toGateway : toGateway[i] = [type |-> "task.cancel", of |-> r]

\* Every request is answered, or its caller hangs up, whatever the gateway does:
\* the wait for a connection and the wait for the task both run out.
EveryRequestIsAnswered ==
  \A r \in Request : 
    (response[r].kind # "none") ~> (response[r].writableEnded \/ response[r].isClosed)
=============================================================================
