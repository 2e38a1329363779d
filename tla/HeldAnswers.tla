----------------------------- MODULE HeldAnswers -----------------------------
(***************************************************************************)
(* The answers a Node.js worker holds between stage runs:                  *)
(* packages/worker_openai/src/stages/stage_helper_llm_llama3_2_3b_full.ts. *)
(* An answer (a TaskGenerationState) is named after the assignment whose   *)
(* run started it; its pieces are the numbers 1, 2, ... in the order the   *)
(* local server produces them.                                             *)
(*                                                                         *)
(* Node.js runs one callback at a time, so a step goes from one await of   *)
(* compute() to the next.  The operators take the memory of the worker and *)
(* return what it becomes, because one handler changes it several times.   *)
(***************************************************************************)
EXTENDS Integers, Sequences, FiniteSets

CONSTANTS
  Task,                 \* the tasks placed on this worker
  MaxAssignments,       \* bound: stage.assign messages the worker receives
  LastPiece,            \* bound: pieces the local server has for one answer
  MaximumAnswerPieces   \* MAXIMUM_ANSWER_PIECES

ASSUME HeldAnswersAssumption ==
  /\ Task # {} /\ MaxAssignments \in Nat \ {0} /\ LastPiece \in Nat
  /\ MaximumAnswerPieces \in Nat \ {0}

Assignment == 1..MaxAssignments
None == 0

VARIABLE memory   \* [held : stateByTaskId, answer : the TaskGenerationStates]

NoAnswer == [exists |-> FALSE, owner |-> None, unreported |-> <<>>, pieceCount |-> 0,
             isReleased |-> FALSE, idleTimer |-> FALSE, ended |-> "no",
             readers |-> <<>>, reported |-> <<>>]

\* `readers` are the runs waiting for a piece, oldest first; `ended` is what the
\* local server did with the stream; `reported`, what the runs returned so far,
\* is a history variable.
HeldAnswersTypeOK ==
  memory \in [held : [Task -> Assignment \cup {None}],
              answer : [Assignment ->
                 [exists : BOOLEAN, owner : Assignment \cup {None},
                  unreported : Seq(1..LastPiece), pieceCount : 0..LastPiece,
                  isReleased : BOOLEAN, idleTimer : BOOLEAN,
                  ended : {"no", "done", "failed"}, readers : Seq(Assignment),
                  reported : Seq(1..LastPiece)]]]

HeldAnswersInit ==
  memory = [held |-> [t \in Task |-> None], answer |-> [a \in Assignment |-> NoAnswer]]

-----------------------------------------------------------------------------
(* Releasing *)

\* release(): the request is aborted, and every read of it ends.
Released(s) == [s EXCEPT !.isReleased = TRUE, !.idleTimer = FALSE]

\* Slip: whoever asks may release the answer.
ClearGenerationOfAnyone(m, t, a) ==
  IF m.held[t] = None THEN m
  ELSE [m EXCEPT !.held[t] = None, !.answer[m.held[t]] = Released(@)]

ClearGeneration(m, t, a) ==
  IF m.held[t] = None \/ m.answer[m.held[t]].owner # a THEN m
  ELSE [m EXCEPT !.held[t] = None, !.answer[m.held[t]] = Released(@)]

ClearEveryGeneration(m) ==
  [held   |-> [t \in Task |-> None],
   answer |-> [g \in Assignment |-> IF \E t \in Task : m.held[t] = g
                                    THEN Released(m.answer[g]) ELSE m.answer[g]]]

-----------------------------------------------------------------------------
(* Taking an answer in hand *)

NewGeneration(m, t, a) ==
  LET old == m.held[t]
      rest == IF old = None THEN m.answer ELSE [m.answer EXCEPT ![old] = Released(@)]
  IN [held   |-> [m.held EXCEPT ![t] = a],
      answer |-> [rest EXCEPT ![a] = [NoAnswer EXCEPT !.exists = TRUE, !.owner = a]]]

\* heldGeneration, when the worker holds an answer for the task.
HeldGeneration(m, t, a) ==
  [m EXCEPT !.answer[m.held[t]].owner = a, !.answer[m.held[t]].idleTimer = FALSE]

IsReplaced(m, g, a) == m.answer[g].owner # a

-----------------------------------------------------------------------------
(* Reading *)

BeginRead(m, g, a) == [m EXCEPT !.answer[g].readers = Append(@, a)]

\* The read at the head of the queue has resolved with the next piece.
PieceRead(m, g) ==
  LET n == m.answer[g].pieceCount + 1
  IN [m EXCEPT !.answer[g].readers = Tail(@), !.answer[g].pieceCount = n,
               !.answer[g].unreported = Append(@, n)]

\* ... with the end of the stream, or by throwing: so will every later read.
StreamEnded(m, g, how) ==
  [m EXCEPT !.answer[g].readers = Tail(@), !.answer[g].ended = how]

\* Slip: a run reports the piece it read itself and no other.
PieceReportedAlone(m, g) ==
  LET s == m.answer[g]
  IN [m EXCEPT !.answer[g].reported = Append(s.reported, s.pieceCount),
               !.answer[g].unreported = <<>>, !.answer[g].idleTimer = TRUE]

\* A run returns what is unreported, and leaves the answer open for the next run.
PieceReported(m, g) ==
  [m EXCEPT !.answer[g].reported = @ \o m.answer[g].unreported,
            !.answer[g].unreported = <<>>, !.answer[g].idleTimer = TRUE]

\* The timer of waitForTheRunAfterThis; it does nothing to an answer no longer held.
IdleTimerFires(g) ==
  /\ memory.answer[g].idleTimer
  /\ memory' = IF \E t \in Task : memory.held[t] = g
               THEN [held   |-> [t \in Task |-> IF memory.held[t] = g THEN None ELSE memory.held[t]],
                     answer |-> [memory.answer EXCEPT ![g] = Released(@)]]
               ELSE [memory EXCEPT !.answer[g].idleTimer = FALSE]
=============================================================================
