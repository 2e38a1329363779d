-------------------------- MODULE OpenaiWorker_proofs --------------------------
(***************************************************************************)
(* Proofs about the stage runs of a worker.  The invariant comes in four   *)
(* parts, each resting on the ones before it: in which order assignments   *)
(* reach the worker and frames the gateway (WireInv), who holds an answer  *)
(* and who has it in hand (AnswersInv), what became of its pieces          *)
(* (NoPieceDroppedByTheWorker), and what of them the consumer has          *)
(* (DeliveryInv).                                                          *)
(***************************************************************************)
EXTENDS OpenaiWorker, SequenceTheorems, TLAPS

-----------------------------------------------------------------------------
(* The invariant *)

Begun(a) == run[a].phase # "none"
IsAssign(i) == toWorker[i].type = "stage.assign"

\* Assignments are numbered in the order they are sent, and are read in that order.
AssignedInOrder ==
  /\ \A a \in Assignment : Begun(a) => a \leq assigned
  /\ \A i \in DOMAIN toWorker :
       /\ toWorker[i].of \leq assigned
       /\ IsAssign(i) => \A a \in Assignment : Begun(a) => a < toWorker[i].of
  /\ \A i, j \in DOMAIN toWorker :
       i < j /\ IsAssign(i) /\ IsAssign(j) => toWorker[i].of < toWorker[j].of

\* Of which task an assignment is: its run, the frames that name it and the
\* gateway agree.  The current one of a task is the last that was sent for it.
OneTaskEach ==
  /\ \A t \in Task : gateway[t].current # None =>
       /\ gateway[t].current \leq assigned
       /\ Begun(gateway[t].current) => run[gateway[t].current].task = t
       /\ \A i \in DOMAIN toWorker : IsAssign(i) =>
            /\ toWorker[i].of = gateway[t].current => toWorker[i].task = t
            /\ toWorker[i].task = t => toWorker[i].of \leq gateway[t].current
  /\ \A i \in DOMAIN toWorker : ~IsAssign(i) =>
       /\ \A t \in Task : toWorker[i].of # gateway[t].current
       /\ Begun(toWorker[i].of) => run[toWorker[i].of].task = toWorker[i].task
       /\ \A j \in DOMAIN toWorker :
            IsAssign(j) /\ toWorker[j].of = toWorker[i].of => toWorker[j].task = toWorker[i].task

\* An assignment is current for one task.
CurrentsDiffer ==
  \A t, u \in Task : gateway[t].current # None /\ gateway[t].current = gateway[u].current => t = u

\* What is on its way to the gateway is from a run that began, and its result
\* or failure from one that ended.
ReportsAreOfRuns ==
  \A i \in DOMAIN toGateway :
    LET f == toGateway[i]
    IN /\ Begun(f.of) /\ run[f.of].task = f.task
       /\ f.type \in {"stage.result", "stage.failed"} => run[f.of].phase = "ended"
       /\ f.newText # <<>> => f.type = "stage.result" /\ ~f.done

NothingWithoutConnection ==
  ~connected => toWorker = <<>> /\ toGateway = <<>> /\ \A t \in Task : gateway[t].current = None

\* A task whose consumer has a piece is only carried on.
ContinuesOnceReceived ==
  /\ \A t \in Task : /\ gateway[t].state = "queued" => ~gateway[t].isContinuation
                     /\ ~gateway[t].isContinuation => gateway[t].received = <<>>
  /\ \A i \in DOMAIN toWorker :
       IsAssign(i) /\ ~toWorker[i].isContinuation => ~gateway[toWorker[i].task].isContinuation

WireInv ==
  /\ WorkerTypeOK /\ AssignedInOrder /\ OneTaskEach /\ CurrentsDiffer /\ ReportsAreOfRuns
  /\ NothingWithoutConnection /\ ContinuesOnceReceived /\ LeaseExtendedWhileRunning

\* An answer is of the task of the run that started it; so is every run that has
\* it in hand, and so is the task that holds it.
AnswersOfTasks ==
  /\ \A g \in Assignment : memory.answer[g].exists =>
       Begun(g) /\ memory.answer[g].owner # None /\ Begun(memory.answer[g].owner)
  /\ \A t \in Task : memory.held[t] # None =>
       memory.answer[memory.held[t]].exists /\ run[memory.held[t]].task = t
  /\ \A a \in Active :
       /\ run[a].answer # None /\ memory.answer[run[a].answer].exists
       /\ run[run[a].answer].task = run[a].task

\* The assignment the gateway holds for a task owns the answer held for it from
\* the moment its run begins, and a run that was cancelled owns none.
OwnersAreCurrent ==
  /\ \A t \in Task :
       LET a == gateway[t].current
       IN a # None /\ Begun(a) =>
            /\ memory.held[t] # None => memory.answer[memory.held[t]].owner = a
            /\ a \in Active => memory.held[t] = run[a].answer
  /\ \A a \in cancelled :
       memory.answer[run[a].answer].isReleased \/ memory.answer[run[a].answer].owner # a

Waits(b, s) == \E i \in DOMAIN s.readers : s.readers[i] = b

ReadersWait ==
  \A a \in Assignment : run[a].phase = "reading" => Waits(a, memory.answer[run[a].answer])

AnswersInv == AnswersOfTasks /\ ReadersWait /\ OwnersAreCurrent /\ NothingReadForNobody

\* The pieces 1 to n, one by one.
Counted(n) == [k \in 1..n |-> k]

\* A frame that carries pieces of task t.
Carries(f, t) == f.task = t /\ f.newText # <<>>

\* Among the frames q, ahead of frame i, one with pieces of t that the gateway
\* will refuse while c is current.
LateBefore(i, t, q, c) == \E j \in DOMAIN q : j < i /\ Carries(q[j], t) /\ q[j].of # c

\* What of the answer held for t was reported.
Sent(t, m) == Len(m.answer[m.held[t]].reported)

InOrder(x) ==
  /\ \A i, j \in DOMAIN x.received : i < j => x.received[i] < x.received[j]
  /\ ~x.refused => x.received = Counted(Len(x.received))

\* What the consumer of task t, which is x at the gateway, has is behind what the
\* answer held for it has reported, by no more than what is on its way in q or
\* was refused.
BehindTheAnswer(t, x, q, m) ==
  m.held[t] # None =>
    /\ \A k \in DOMAIN x.received : x.received[k] \leq Sent(t, m)
    /\ ~x.refused /\ (\A i \in DOMAIN q : ~Carries(q[i], t)) => Len(x.received) = Sent(t, m)

\* The pieces the gateway is about to take follow the ones the consumer has.
Follows(i, t, x, q, m) ==
  \E base \in Nat :
    /\ q[i].newText = [k \in 1..Len(q[i].newText) |-> base + k]
    /\ \A k \in DOMAIN x.received : x.received[k] \leq base
    /\ ~x.refused /\ ~LateBefore(i, t, q, x.current) => Len(x.received) = base
    /\ m.held[t] # None => Sent(t, m) = base + Len(q[i].newText)

Delivery(t, x, q, m) ==
  /\ InOrder(x) /\ BehindTheAnswer(t, x, q, m)
  /\ \A i \in DOMAIN q : Carries(q[i], t) /\ q[i].of = x.current => Follows(i, t, x, q, m)

DeliveryInv == \A t \in Task : Delivery(t, gateway[t], toGateway, memory)

-----------------------------------------------------------------------------
(* The memory of the worker *)

AnswerRecord == [exists : BOOLEAN, owner : Assignment \cup {None},
                 unreported : Seq(1..LastPiece), pieceCount : 0..LastPiece,
                 isReleased : BOOLEAN, idleTimer : BOOLEAN,
                 ended : {"no", "done", "failed"}, readers : Seq(Assignment),
                 reported : Seq(1..LastPiece)]

Memory == [held : [Task -> Assignment \cup {None}], answer : [Assignment -> AnswerRecord]]

SameHold(s, z) ==
  z.exists = s.exists /\ z.owner = s.owner /\ z.isReleased = s.isReleased /\ z.idleTimer = s.idleTimer

SamePieces(s, z) ==
  z.reported = s.reported /\ z.unreported = s.unreported /\ z.pieceCount = s.pieceCount

\* A read of answer s, for run a, went on; it may have brought a piece.
ReadOf(s, z, a) ==
  /\ SameHold(s, z) /\ z.reported = s.reported
  /\ \/ z.pieceCount = s.pieceCount /\ z.unreported = s.unreported
     \/ z.pieceCount = s.pieceCount + 1 /\ z.unreported = Append(s.unreported, s.pieceCount + 1)
  /\ \A b \in Assignment \ {a} : Waits(b, s) => Waits(b, z)

ReadsOn(m, n, g, a) ==
  /\ n \in Memory /\ n.held = m.held
  /\ \A h \in Assignment \ {g} : n.answer[h] = m.answer[h]
  /\ ReadOf(m.answer[g], n.answer[g], a)

\* An answer that was released, and is otherwise as it was.
ReleaseOf(s, z) ==
  /\ z.exists = s.exists /\ z.owner = s.owner /\ z.isReleased /\ ~z.idleTimer
  /\ SamePieces(s, z) /\ z.readers = s.readers

\* One field of one answer.
LEMMA AnswerChanged ==
  ASSUME NEW m \in Memory, NEW g \in Assignment, NEW z \in AnswerRecord
  PROVE  LET n == [m EXCEPT !.answer[g] = z] IN
         /\ n \in Memory /\ n.held = m.held /\ n.answer[g] = z
         /\ \A h \in Assignment \ {g} : n.answer[h] = m.answer[h]
<1> DEFINE n == [m EXCEPT !.answer[g] = z]
<1>1. /\ m.answer \in [Assignment -> AnswerRecord]
      /\ m.held \in [Task -> Assignment \cup {None}]
  BY DEF Memory
<1>2. n.held = m.held /\ n.answer = [m.answer EXCEPT ![g] = z]
  BY DEF Memory
<1>3. n \in Memory
  BY <1>1, <1>2 DEF Memory
<1> QED
  BY <1>1, <1>2, <1>3

\* Queues of readers.
LEMMA QueueOfReaders ==
  ASSUME NEW q \in Seq(Assignment), NEW a \in Assignment
  PROVE  /\ Append(q, a) \in Seq(Assignment)
         /\ \E i \in DOMAIN Append(q, a) : Append(q, a)[i] = a
         /\ \A b \in Assignment : (\E i \in DOMAIN q : q[i] = b) =>
              \E i \in DOMAIN Append(q, a) : Append(q, a)[i] = b
         /\ q # <<>> => Tail(q) \in Seq(Assignment)
         /\ q # <<>> => \A b \in Assignment \ {Head(q)} : (\E i \in DOMAIN q : q[i] = b) =>
              \E i \in DOMAIN Tail(q) : Tail(q)[i] = b
<1>1. /\ Append(q, a) \in Seq(Assignment) /\ Len(Append(q, a)) = Len(q) + 1
      /\ DOMAIN q = 1..Len(q) /\ DOMAIN Append(q, a) = 1..(Len(q) + 1)
      /\ Append(q, a)[Len(q) + 1] = a /\ \A i \in 1..Len(q) : Append(q, a)[i] = q[i]
  OBVIOUS
<1>2. q # <<>> => /\ Tail(q) \in Seq(Assignment) /\ DOMAIN Tail(q) = 1..(Len(q) - 1)
                  /\ Head(q) = q[1] /\ \A i \in 1..(Len(q) - 1) : Tail(q)[i] = q[i + 1]
  OBVIOUS
<1>3. Len(q) \in Nat
  OBVIOUS
<1>4. Len(q) + 1 \in DOMAIN Append(q, a)
  BY <1>1, <1>3
<1>5. ASSUME NEW b \in Assignment, NEW i \in DOMAIN q, q[i] = b
      PROVE  \E j \in DOMAIN Append(q, a) : Append(q, a)[j] = b
  <2>1. i \in DOMAIN Append(q, a) /\ Append(q, a)[i] = b
    BY <1>1, <1>3, <1>5
  <2> QED
    BY <2>1
<1>6. ASSUME q # <<>>, NEW b \in Assignment \ {Head(q)}, NEW i \in DOMAIN q, q[i] = b
      PROVE  \E j \in DOMAIN Tail(q) : Tail(q)[j] = b
  <2>1. i # 1 /\ i \in 1..Len(q)
    BY <1>1, <1>2, <1>6
  <2>2. i - 1 \in DOMAIN Tail(q) /\ Tail(q)[i - 1] = b
    BY <1>2, <1>3, <1>6, <2>1
  <2> QED
    BY <2>2
<1> QED
  BY <1>1, <1>2, <1>4, <1>5, <1>6

\* A read that is made to wait.
LEMMA BeginReads ==
  ASSUME NEW m \in Memory, NEW n, NEW g \in Assignment, NEW a \in Assignment, ReadsOn(m, n, g, a)
  PROVE  ReadsOn(m, BeginRead(n, g, a), g, a) /\ Waits(a, BeginRead(n, g, a).answer[g])
<1> DEFINE s == n.answer[g]
           z == [s EXCEPT !.readers = Append(@, a)]
<1>1. n \in Memory /\ s \in AnswerRecord /\ ReadOf(m.answer[g], s, a) /\ n.held = m.held
      /\ \A h \in Assignment \ {g} : n.answer[h] = m.answer[h]
  BY DEF ReadsOn, Memory
<1>2. s.readers \in Seq(Assignment)
  BY <1>1 DEF AnswerRecord
<1>3. Append(s.readers, a) \in Seq(Assignment)
  BY <1>2, QueueOfReaders
<1>4. z \in AnswerRecord /\ SameHold(s, z) /\ SamePieces(s, z) /\ z.readers = Append(s.readers, a)
  BY <1>1, <1>3 DEF AnswerRecord, SameHold, SamePieces
<1> HIDE DEF z
<1>5. BeginRead(n, g, a) = [n EXCEPT !.answer[g] = z]
  BY DEF BeginRead, z
<1>6. Waits(a, z) /\ \A b \in Assignment : Waits(b, s) => Waits(b, z)
  <2> DEFINE q == s.readers
             p == Append(q, a)
  <2> HIDE DEF s
  <2>1. q \in Seq(Assignment) /\ z.readers = p
    BY <1>2, <1>4
  <2> HIDE DEF q
  <2>2. /\ \E i \in DOMAIN p : p[i] = a
        /\ \A b \in Assignment : (\E i \in DOMAIN q : q[i] = b) => \E i \in DOMAIN p : p[i] = b
    BY <2>1, QueueOfReaders
  <2> HIDE DEF p
  <2> QED
    BY <2>1, <2>2 DEF Waits, q
<1>7. ReadOf(m.answer[g], z, a)
  BY <1>1, <1>4, <1>6 DEF ReadOf, SameHold, SamePieces
<1> QED
  BY <1>1, <1>4, <1>5, <1>6, <1>7, AnswerChanged DEF ReadsOn

(* Reading none of an answer is reading of it. *)
LEMMA ReadsNothing ==
  ASSUME NEW m \in Memory, NEW g \in Assignment, NEW a \in Assignment
  PROVE  ReadsOn(m, m, g, a)
BY DEF ReadsOn, ReadOf, SameHold

\* A read that resolves, with a piece or without.
LEMMA HeadReads ==
  ASSUME NEW m \in Memory, NEW g \in Assignment, NEW a \in Assignment,
         Waits(a, m.answer[g]), Head(m.answer[g].readers) = a
  PROVE  /\ ReadsOn(m, [m EXCEPT !.answer[g].readers = Tail(@)], g, a)
         /\ \A how \in {"done", "failed"} : ReadsOn(m, StreamEnded(m, g, how), g, a)
         /\ m.answer[g].pieceCount < LastPiece => ReadsOn(m, PieceRead(m, g), g, a)
<1> DEFINE s == m.answer[g]
           q == s.readers
           k == s.pieceCount + 1
           z1 == [s EXCEPT !.readers = Tail(@)]
           z2(how) == [s EXCEPT !.readers = Tail(@), !.ended = how]
           z3 == [s EXCEPT !.readers = Tail(@), !.pieceCount = k, !.unreported = Append(@, k)]
<1>1. s \in AnswerRecord
  BY DEF Memory
<1>2. q \in Seq(Assignment) /\ q # <<>> /\ Head(q) = a
  BY <1>1 DEF AnswerRecord, Waits
<1>3. /\ Tail(q) \in Seq(Assignment)
      /\ \A b \in Assignment \ {a} : (\E i \in DOMAIN q : q[i] = b) =>
              \E i \in DOMAIN Tail(q) : Tail(q)[i] = b
  <2> HIDE DEF q
  <2> QED
    BY <1>2, QueueOfReaders
<1>4. /\ z1 \in AnswerRecord /\ SameHold(s, z1) /\ SamePieces(s, z1) /\ z1.readers = Tail(q)
  BY <1>1, <1>3 DEF AnswerRecord, SameHold, SamePieces
<1>5. ASSUME NEW how \in {"done", "failed"}
      PROVE  /\ z2(how) \in AnswerRecord /\ SameHold(s, z2(how)) /\ SamePieces(s, z2(how))
             /\ z2(how).readers = Tail(q)
  BY <1>1, <1>3, <1>5 DEF AnswerRecord, SameHold, SamePieces
<1>6. ASSUME s.pieceCount < LastPiece
      PROVE  /\ z3 \in AnswerRecord /\ SameHold(s, z3) /\ z3.reported = s.reported
             /\ z3.pieceCount = k /\ z3.unreported = Append(s.unreported, k) /\ z3.readers = Tail(q)
  <2>1. s.pieceCount \in 0..LastPiece /\ LastPiece \in Nat
    BY <1>1, HeldAnswersAssumption DEF AnswerRecord
  <2>2. k \in 1..LastPiece
    BY <1>6, <2>1
  <2>3. Append(s.unreported, k) \in Seq(1..LastPiece)
    <3>1. s.unreported \in Seq(1..LastPiece)
      BY <1>1 DEF AnswerRecord
    <3> HIDE DEF s, k
    <3> QED
      BY <2>2, <3>1, AppendProperties
  <2>4. k \in 0..LastPiece
    BY <2>2
  <2> HIDE DEF k
  <2> QED
    BY <1>1, <1>3, <2>3, <2>4 DEF AnswerRecord, SameHold
<1>7. ASSUME NEW z, z.readers = Tail(q)
      PROVE  \A b \in Assignment \ {a} : Waits(b, s) => Waits(b, z)
  BY <1>3, <1>7 DEF Waits
<1> HIDE DEF z1, z2, z3
<1>8. /\ ReadOf(s, z1, a) /\ \A how \in {"done", "failed"} : ReadOf(s, z2(how), a)
      /\ s.pieceCount < LastPiece => ReadOf(s, z3, a)
  BY <1>4, <1>5, <1>6, <1>7 DEF ReadOf, SamePieces
<1>9. ASSUME NEW z \in AnswerRecord, ReadOf(s, z, a)
      PROVE  ReadsOn(m, [m EXCEPT !.answer[g] = z], g, a)
  BY <1>9, AnswerChanged DEF ReadsOn
<1>10. /\ [m EXCEPT !.answer[g].readers = Tail(@)] = [m EXCEPT !.answer[g] = z1]
       /\ \A how \in {"done", "failed"} : StreamEnded(m, g, how) = [m EXCEPT !.answer[g] = z2(how)]
       /\ PieceRead(m, g) = [m EXCEPT !.answer[g] = z3]
  BY DEF z1, z2, z3, StreamEnded, PieceRead
<1> QED
  BY <1>4, <1>5, <1>6, <1>8, <1>9, <1>10

\* An answer that is released for one run is one that it owns.
Clears(m, n, t, a) ==
  \/ n = m /\ (m.held[t] = None \/ m.answer[m.held[t]].owner # a)
  \/ /\ m.held[t] # None /\ m.answer[m.held[t]].owner = a
     /\ n.held = [m.held EXCEPT ![t] = None]
     /\ \A h \in Assignment \ {m.held[t]} : n.answer[h] = m.answer[h]
     /\ ReleaseOf(m.answer[m.held[t]], n.answer[m.held[t]])

(* A released answer is one that is read no further. *)
LEMMA ReleasedIs ==
  ASSUME NEW s \in AnswerRecord
  PROVE  Released(s) \in AnswerRecord /\ ReleaseOf(s, Released(s))
BY DEF Released, AnswerRecord, ReleaseOf, SamePieces

(* clearGeneration takes away the answer it is called for and no other. *)
LEMMA ClearsIt ==
  ASSUME NEW m \in Memory, NEW t \in Task, NEW a \in Assignment
  PROVE  ClearGeneration(m, t, a) \in Memory /\ Clears(m, ClearGeneration(m, t, a), t, a)
<1>1. CASE m.held[t] = None \/ m.answer[m.held[t]].owner # a
  BY <1>1 DEF ClearGeneration, Clears
<1>2. CASE m.held[t] # None /\ m.answer[m.held[t]].owner = a
  <2> DEFINE g == m.held[t]
             z == Released(m.answer[g])
             o == [m EXCEPT !.held[t] = None]
             n == [o EXCEPT !.answer[g] = z]
  <2>1. g \in Assignment /\ m.answer[g] \in AnswerRecord
    BY <1>2 DEF Memory
  <2>2. /\ o \in Memory /\ o.answer = m.answer /\ o.held = [m.held EXCEPT ![t] = None]
    BY DEF Memory
  <2>3. z \in AnswerRecord /\ ReleaseOf(m.answer[g], z)
    BY <2>1, ReleasedIs
  <2>4. ClearGeneration(m, t, a) = n
    BY <1>2 DEF ClearGeneration
  <2> HIDE DEF o, z
  <2>5. /\ n \in Memory /\ n.held = o.held /\ n.answer[g] = z
        /\ \A h \in Assignment \ {g} : n.answer[h] = o.answer[h]
    BY <2>1, <2>2, <2>3, AnswerChanged
  <2> QED
    BY <1>2, <2>1, <2>2, <2>3, <2>4, <2>5 DEF Clears
<1> QED
  BY <1>1, <1>2

\* What is unreported is returned, and the answer left for the next run.
LEMMA ReportsIt ==
  ASSUME NEW m \in Memory, NEW g \in Assignment
  PROVE  LET n == PieceReported(m, g)
             s == m.answer[g]
             z == n.answer[g]
         IN /\ n \in Memory /\ n.held = m.held
            /\ \A h \in Assignment \ {g} : n.answer[h] = m.answer[h]
            /\ z.exists = s.exists /\ z.owner = s.owner /\ z.isReleased = s.isReleased /\ z.idleTimer
            /\ z.reported = s.reported \o s.unreported /\ z.unreported = <<>>
            /\ z.pieceCount = s.pieceCount /\ z.readers = s.readers
<1> DEFINE s == m.answer[g]
           z == [s EXCEPT !.reported = @ \o s.unreported, !.unreported = <<>>, !.idleTimer = TRUE]
<1>1. s \in AnswerRecord
  BY DEF Memory
<1>2. s.reported \o s.unreported \in Seq(1..LastPiece) /\ <<>> \in Seq(1..LastPiece)
  <2>1. s.reported \in Seq(1..LastPiece) /\ s.unreported \in Seq(1..LastPiece)
    BY <1>1 DEF AnswerRecord
  <2> HIDE DEF s
  <2> QED
    BY <2>1, ConcatProperties
<1>3. /\ z \in AnswerRecord /\ z.exists = s.exists /\ z.owner = s.owner
      /\ z.isReleased = s.isReleased /\ z.idleTimer
      /\ z.reported = s.reported \o s.unreported /\ z.unreported = <<>>
      /\ z.pieceCount = s.pieceCount /\ z.readers = s.readers
  BY <1>1, <1>2 DEF AnswerRecord
<1>4. PieceReported(m, g) = [m EXCEPT !.answer[g] = z]
  BY DEF PieceReported
<1> HIDE DEF z
<1> DEFINE n == PieceReported(m, g)
<1>5. /\ n \in Memory /\ n.held = m.held /\ n.answer[g] = z
      /\ \A h \in Assignment \ {g} : n.answer[h] = m.answer[h]
  BY <1>3, <1>4, AnswerChanged
<1> HIDE DEF n, s
<1>6. /\ n.answer[g].exists = s.exists /\ n.answer[g].owner = s.owner
      /\ n.answer[g].isReleased = s.isReleased /\ n.answer[g].idleTimer
      /\ n.answer[g].reported = s.reported \o s.unreported /\ n.answer[g].unreported = <<>>
      /\ n.answer[g].pieceCount = s.pieceCount /\ n.answer[g].readers = s.readers
  BY <1>3, <1>5
<1> QED
  BY <1>5, <1>6 DEF n, s

\* An answer that was only just asked for.
IsFresh(s, a) ==
  /\ s.exists /\ s.owner = a /\ ~s.isReleased /\ ~s.idleTimer
  /\ s.reported = <<>> /\ s.unreported = <<>> /\ s.pieceCount = 0

\* Run a has an answer of its own, and what was held for task t is released.
StartsWith(m, n, t, a) ==
  /\ n.held = [m.held EXCEPT ![t] = a]
  /\ \A h \in Assignment : h # a /\ h # m.held[t] => n.answer[h] = m.answer[h]
  /\ m.held[t] # None => ReleaseOf(m.answer[m.held[t]], n.answer[m.held[t]])
  /\ IsFresh(n.answer[a], a)

\* A first run takes the place of whatever answer is held for its task.
LEMMA StartsAnswer ==
  ASSUME NEW m \in Memory, NEW t \in Task, NEW a \in Assignment, m.held[t] # a,
         NEW n, n = NewGeneration(m, t, a)
  PROVE  n \in Memory /\ StartsWith(m, n, t, a)
<1> DEFINE old == m.held[t]
           rest == IF old = None THEN m.answer ELSE [m.answer EXCEPT ![old] = Released(@)]
           z == [NoAnswer EXCEPT !.exists = TRUE, !.owner = a]
<1>1. /\ m.answer \in [Assignment -> AnswerRecord] /\ m.held \in [Task -> Assignment \cup {None}]
  BY DEF Memory
<1>2. /\ z \in AnswerRecord /\ z.exists /\ z.owner = a /\ ~z.isReleased /\ ~z.idleTimer
      /\ z.reported = <<>> /\ z.unreported = <<>> /\ z.pieceCount = 0
  <2> DEFINE x == NoAnswer
             y == [x EXCEPT !.exists = TRUE]
  <2>1. 0 \in 0..LastPiece /\ <<>> \in Seq(1..LastPiece) /\ <<>> \in Seq(Assignment)
    BY HeldAnswersAssumption
  <2>2. /\ x \in AnswerRecord /\ ~x.isReleased /\ ~x.idleTimer
        /\ x.reported = <<>> /\ x.unreported = <<>> /\ x.pieceCount = 0
    BY <2>1 DEF AnswerRecord, NoAnswer
  <2> HIDE DEF x
  <2>3. /\ y \in AnswerRecord /\ y.exists /\ ~y.isReleased /\ ~y.idleTimer
        /\ y.reported = <<>> /\ y.unreported = <<>> /\ y.pieceCount = 0
    BY <2>2 DEF AnswerRecord
  <2>4. z = [y EXCEPT !.owner = a]
    BY DEF x
  <2> HIDE DEF y, z
  <2> QED
    BY <2>3, <2>4 DEF AnswerRecord
<1>3. /\ rest \in [Assignment -> AnswerRecord]
      /\ \A h \in Assignment \ {old} : rest[h] = m.answer[h]
      /\ old # None => ReleaseOf(m.answer[old], rest[old])
  <2>1. CASE old = None
    BY <1>1, <2>1
  <2>2. CASE old # None
    <3>1. old \in Assignment /\ m.answer[old] \in AnswerRecord
      BY <1>1, <2>2
    <3>2. Released(m.answer[old]) \in AnswerRecord /\ ReleaseOf(m.answer[old], Released(m.answer[old]))
      BY <3>1, ReleasedIs
    <3> QED
      BY <1>1, <2>2, <3>1, <3>2
  <2> QED
    BY <2>1, <2>2
<1> HIDE DEF z, rest
<1>4. n.held = [m.held EXCEPT ![t] = a] /\ n.answer = [rest EXCEPT ![a] = z]
      /\ n = [held |-> [m.held EXCEPT ![t] = a], answer |-> [rest EXCEPT ![a] = z]]
  BY DEF NewGeneration, z, rest
<1>5. n \in Memory
  BY <1>1, <1>2, <1>3, <1>4 DEF Memory
<1>6. /\ n.answer[a] = z /\ \A h \in Assignment \ {a} : n.answer[h] = rest[h]
  BY <1>3, <1>4
<1>7. old # None => old \in Assignment \ {a}
  BY <1>1
<1> QED
  BY <1>2, <1>3, <1>4, <1>5, <1>6, <1>7 DEF StartsWith, IsFresh

\* A run takes the held answer in hand.
LEMMA CarriesOn ==
  ASSUME NEW m \in Memory, NEW t \in Task, NEW a \in Assignment, m.held[t] # None
  PROVE  LET g == m.held[t]
             n == HeldGeneration(m, t, a)
             s == m.answer[g]
             z == n.answer[g]
         IN /\ n \in Memory /\ n.held = m.held /\ g \in Assignment
            /\ \A h \in Assignment \ {g} : n.answer[h] = m.answer[h]
            /\ z.exists = s.exists /\ z.owner = a /\ z.isReleased = s.isReleased /\ ~z.idleTimer
            /\ SamePieces(s, z) /\ z.readers = s.readers
<1> DEFINE g == m.held[t]
           s == m.answer[g]
           z == [s EXCEPT !.owner = a, !.idleTimer = FALSE]
<1>1. g \in Assignment
  BY DEF Memory
<1>2. s \in AnswerRecord
  BY <1>1 DEF Memory
<1>3. /\ z \in AnswerRecord /\ z.exists = s.exists /\ z.owner = a /\ z.isReleased = s.isReleased
      /\ ~z.idleTimer /\ SamePieces(s, z) /\ z.readers = s.readers
  BY <1>2 DEF AnswerRecord, SamePieces
<1>4. HeldGeneration(m, t, a) = [m EXCEPT !.answer[g] = z]
  BY DEF HeldGeneration
<1> HIDE DEF z
<1> QED
  BY <1>1, <1>3, <1>4, AnswerChanged

\* The timer of an answer.
LEMMA TimerFires ==
  ASSUME memory \in Memory, NEW g \in Assignment, IdleTimerFires(g)
  PROVE  /\ memory' \in Memory /\ memory.answer[g].idleTimer
         /\ \A h \in Assignment \ {g} : memory'.answer[h] = memory.answer[h]
         /\ \/ /\ \E t \in Task : memory.held[t] = g
               /\ \A t \in Task : memory'.held[t] = IF memory.held[t] = g THEN None ELSE memory.held[t]
               /\ ReleaseOf(memory.answer[g], memory'.answer[g])
            \/ /\ \A t \in Task : memory.held[t] # g
               /\ memory'.held = memory.held
               /\ LET s == memory.answer[g]
                      z == memory'.answer[g]
                  IN /\ z.exists = s.exists /\ z.owner = s.owner /\ z.isReleased = s.isReleased
                     /\ ~z.idleTimer /\ SamePieces(s, z) /\ z.readers = s.readers
<1> DEFINE s == memory.answer[g]
           z == [s EXCEPT !.idleTimer = FALSE]
<1>1. /\ memory.answer \in [Assignment -> AnswerRecord] /\ s \in AnswerRecord
      /\ memory.held \in [Task -> Assignment \cup {None}] /\ s.idleTimer
  BY DEF Memory, IdleTimerFires
<1>2. CASE \E t \in Task : memory.held[t] = g
  <2>1. Released(s) \in AnswerRecord /\ ReleaseOf(s, Released(s))
    BY <1>1, ReleasedIs
  <2>2. memory' = [held   |-> [t \in Task |-> IF memory.held[t] = g THEN None ELSE memory.held[t]],
                   answer |-> [memory.answer EXCEPT ![g] = Released(@)]]
    BY <1>2 DEF IdleTimerFires
  <2>3. /\ [t \in Task |-> IF memory.held[t] = g THEN None ELSE memory.held[t]] \in [Task -> Assignment \cup {None}]
        /\ [memory.answer EXCEPT ![g] = Released(@)] \in [Assignment -> AnswerRecord]
    BY <1>1, <2>1
  <2>4. memory' \in Memory
    BY <2>2, <2>3 DEF Memory
  <2> QED
    BY <1>1, <1>2, <2>1, <2>2, <2>4
<1>3. CASE \A t \in Task : memory.held[t] # g
  <2>1. /\ z \in AnswerRecord /\ z.exists = s.exists /\ z.owner = s.owner /\ z.isReleased = s.isReleased
        /\ ~z.idleTimer /\ SamePieces(s, z) /\ z.readers = s.readers
    BY <1>1 DEF AnswerRecord, SamePieces
  <2>2. memory' = [memory EXCEPT !.answer[g] = z]
    BY <1>3 DEF IdleTimerFires
  <2> HIDE DEF z
  <2> QED
    BY <1>1, <1>3, <2>1, <2>2, AnswerChanged
<1> QED
  BY <1>2, <1>3

\* A connection that closes leaves no answer held.
LEMMA ClearsEvery ==
  ASSUME NEW m \in Memory
  PROVE  LET n == ClearEveryGeneration(m) IN
         /\ n \in Memory /\ \A t \in Task : n.held[t] = None
         /\ \A h \in Assignment :
              IF \E t \in Task : m.held[t] = h THEN ReleaseOf(m.answer[h], n.answer[h])
              ELSE n.answer[h] = m.answer[h]
<1> DEFINE n == ClearEveryGeneration(m)
           f == [g \in Assignment |-> IF \E t \in Task : m.held[t] = g
                                      THEN Released(m.answer[g]) ELSE m.answer[g]]
<1>1. \A h \in Assignment : /\ m.answer[h] \in AnswerRecord /\ Released(m.answer[h]) \in AnswerRecord
                            /\ ReleaseOf(m.answer[h], Released(m.answer[h]))
  BY ReleasedIs DEF Memory
<1>2. f \in [Assignment -> AnswerRecord]
  BY <1>1
<1>3. n = [held |-> [t \in Task |-> None], answer |-> f]
  BY DEF ClearEveryGeneration
<1>4. n \in Memory
  BY <1>2, <1>3 DEF Memory
<1> QED
  BY <1>1, <1>3, <1>4

-----------------------------------------------------------------------------
(* What a run does from one await to the next *)

RunRecord == [phase : {"none", "starting", "reading", "ended"},
              task : Task, answer : Assignment \cup {None}]

WorkerFrame == [type : {"stage.accepted", "stage.heartbeat", "stage.result", "stage.failed"},
                of : Assignment, task : Task, newText : Seq(1..LastPiece),
                done : BOOLEAN, whole : 0..LastPiece]

GatewayFrame == [type : {"stage.assign", "stage.cancel"}, of : Assignment,
                 task : Task, isContinuation : BOOLEAN]

(* The type invariant, field by field. *)
LEMMA WorkerTypes ==
  WorkerTypeOK <=>
    /\ memory \in Memory /\ connected \in BOOLEAN /\ run \in [Assignment -> RunRecord]
    /\ cancelled \subseteq Assignment /\ heartbeats \subseteq Assignment
    /\ toWorker \in Seq(GatewayFrame) /\ toGateway \in Seq(WorkerFrame)
    /\ gateway \in [Task -> GatewayTask]
    /\ assigned \in 0..MaxAssignments /\ expiries \in 0..MaxExpiries /\ beats \in 0..MaxHeartbeats
BY DEF WorkerTypeOK, HeldAnswersTypeOK, Memory, AnswerRecord, RunRecord, WorkerFrame, GatewayFrame

\* It waits for the next piece.
GoesOn(a) ==
  /\ ReadsOn(memory, memory', run[a].answer, a)
  /\ run' = [run EXCEPT ![a].phase = "reading"]
  /\ Waits(a, memory'.answer[run[a].answer])
  /\ UNCHANGED <<connected, cancelled, heartbeats, toWorker, toGateway, gatewayVars>>

\* It ends, and gives up the answer it owns.
GivesUp(a) ==
  \E m \in Memory, f \in WorkerFrame :
    /\ ReadsOn(memory, m, run[a].answer, a)
    /\ EndRun(a, ClearGeneration(m, run[a].task, a), f)
    /\ f.type \in {"stage.result", "stage.failed"} /\ f.of = a /\ f.task = run[a].task
    /\ f.newText = <<>>

\* It ends with the pieces that were not reported yet.
ReportsPieces(a) ==
  LET g == run[a].answer
  IN \E m \in Memory, f \in WorkerFrame :
       /\ ~memory.answer[g].isReleased /\ memory.answer[g].owner = a
       /\ ReadsOn(memory, m, g, a)
       /\ EndRun(a, PieceReported(m, g), f)
       /\ f.type = "stage.result" /\ f.of = a /\ f.task = run[a].task /\ ~f.done
       /\ f.newText = m.answer[g].unreported

(* A run that throws lets its answer go and reports a failure or nothing. *)
LEMMA ThrowGivesUp ==
  ASSUME WorkerTypeOK, NEW a \in Assignment, NEW m, ReadsOn(memory, m, run[a].answer, a), Throw(a, m)
  PROVE  GivesUp(a)
<1> DEFINE f == Report(a, "stage.failed", <<>>, FALSE, 0)
<1>1. run[a] \in RunRecord /\ m \in Memory
  BY WorkerTypes DEF ReadsOn
<1>2. /\ f.type = "stage.failed" /\ f.of = a /\ f.task = run[a].task /\ f.newText = <<>>
      /\ f \in WorkerFrame
  <2>1. <<>> \in Seq(1..LastPiece) /\ 0 \in 0..LastPiece
    BY HeldAnswersAssumption
  <2> QED
    BY <1>1, <2>1 DEF Report, WorkerFrame, RunRecord
<1> HIDE DEF f
<1>3. EndRun(a, ClearGeneration(m, run[a].task, a), f)
  BY DEF Throw, f
<1> QED
  BY <1>1, <1>2, <1>3 DEF GivesUp

(* A run that has its whole answer reports it and lets it go. *)
LEMMA WholeGivesUp ==
  ASSUME WorkerTypeOK, NEW a \in Assignment, NEW m, run[a].answer \in Assignment,
         ReadsOn(memory, m, run[a].answer, a), AnswerWhole(a, run[a].answer, m)
  PROVE  GivesUp(a)
<1> DEFINE g == run[a].answer
           f == Report(a, "stage.result", <<>>, TRUE, m.answer[g].pieceCount)
<1>1. run[a] \in RunRecord /\ m \in Memory /\ m.answer[g] \in AnswerRecord
  BY WorkerTypes DEF ReadsOn, Memory
<1>2. CASE IsReplaced(m, g, a)
  BY <1>2, ThrowGivesUp DEF AnswerWhole
<1>3. CASE ~IsReplaced(m, g, a)
  <2>1. /\ f.type = "stage.result" /\ f.of = a /\ f.task = run[a].task /\ f.newText = <<>>
        /\ f \in WorkerFrame
    <3>1. <<>> \in Seq(1..LastPiece) /\ m.answer[g].pieceCount \in 0..LastPiece
      BY <1>1 DEF AnswerRecord
    <3> QED
      BY <1>1, <3>1 DEF Report, WorkerFrame, RunRecord
  <2> HIDE DEF f
  <2>2. EndRun(a, ClearGeneration(m, run[a].task, a), f)
    BY <1>3 DEF AnswerWhole, f
  <2> QED
    BY <1>1, <2>1, <2>2 DEF GivesUp
<1> QED
  BY <1>2, <1>3

\* Every step of a run is one of the three.
LEMMA RunStepKinds ==
  ASSUME WorkerTypeOK, AnswersInv, NEW a \in Assignment, RunStep(a)
  PROVE  a \in Active /\ (GoesOn(a) \/ GivesUp(a) \/ ReportsPieces(a))
<1> DEFINE g == run[a].answer
<1>1. a \in Active
  BY DEF RunStep, StartResolves, StartFails, ReadAbandoned, ReadPiece, ReadEnds, IsNextReader, Active
<1>2. g \in Assignment /\ run \in [Assignment -> RunRecord] /\ memory \in Memory
  BY <1>1, WorkerTypes DEF AnswersInv, AnswersOfTasks, RunRecord
<1>3. ReadsOn(memory, memory, g, a)
  BY <1>2, ReadsNothing
<1> HIDE DEF g
<1>5. CASE StartResolves(a)
  <2>1. CASE memory.answer[g].isReleased
    BY <1>1, <1>3, <1>5, <2>1, ThrowGivesUp DEF StartResolves, g
  <2>2. CASE ~memory.answer[g].isReleased
    <3>1. /\ memory' = BeginRead(memory, g, a) /\ run' = [run EXCEPT ![a].phase = "reading"]
          /\ UNCHANGED <<connected, cancelled, heartbeats, toWorker, toGateway, gatewayVars>>
      BY <1>5, <2>2 DEF StartResolves, g
    <3>2. ReadsOn(memory, memory', g, a) /\ Waits(a, memory'.answer[g])
      BY <1>2, <1>3, <3>1, BeginReads
    <3> QED
      BY <1>1, <3>1, <3>2 DEF GoesOn, g
  <2> QED
    BY <2>1, <2>2
<1>6. CASE StartFails(a)
  BY <1>1, <1>3, <1>6, ThrowGivesUp DEF StartFails, g
<1>7. ASSUME IsNextReader(a)
      PROVE  Waits(a, memory.answer[g]) /\ Head(memory.answer[g].readers) = a /\ run[a].phase = "reading"
  BY <1>7 DEF IsNextReader, AnswersInv, ReadersWait, g
<1>8. CASE ReadAbandoned(a)
  <2>1. ReadsOn(memory, [memory EXCEPT !.answer[g].readers = Tail(@)], g, a)
    BY <1>2, <1>7, <1>8, HeadReads DEF ReadAbandoned
  <2> QED
    BY <1>1, <1>8, <2>1, ThrowGivesUp DEF ReadAbandoned, g
<1>9. ASSUME NEW how \in {"done", "failed"}, ReadEnds(a, how)
      PROVE  GivesUp(a)
  <2>1. ReadsOn(memory, StreamEnded(memory, g, how), g, a)
    BY <1>2, <1>7, <1>9, HeadReads DEF ReadEnds
  <2> QED
    BY <1>2, <1>9, <2>1, ThrowGivesUp, WholeGivesUp DEF ReadEnds, g
<1>10. CASE ReadPiece(a)
  <2> DEFINE m == PieceRead(memory, g)
  <2>1. /\ IsNextReader(a) /\ ~memory.answer[g].isReleased
        /\ memory.answer[g].pieceCount < LastPiece
    BY <1>10 DEF ReadPiece, g
  <2>2. ReadsOn(memory, m, g, a)
    BY <1>2, <1>7, <2>1, HeadReads
  <2>3. m \in Memory /\ m.answer[g] \in AnswerRecord /\ m.answer[g].owner = memory.answer[g].owner
    BY <1>2, <2>2 DEF ReadsOn, ReadOf, SameHold, Memory
  <2>4. CASE IsReplaced(m, g, a)
    BY <1>1, <1>10, <2>2, <2>4, ThrowGivesUp DEF ReadPiece, g
  <2>5. CASE ~IsReplaced(m, g, a) /\ gateway[run[a].task].wantsPieces
    <3> DEFINE f == Report(a, "stage.result", m.answer[g].unreported, FALSE, 0)
    <3>1. /\ f.type = "stage.result" /\ f.of = a /\ f.task = run[a].task
          /\ f.newText = m.answer[g].unreported /\ ~f.done /\ f \in WorkerFrame
      <4>1. m.answer[g].unreported \in Seq(1..LastPiece) /\ 0 \in 0..LastPiece
        BY <2>3, HeldAnswersAssumption DEF AnswerRecord
      <4> HIDE DEF m
      <4> QED
        BY <1>2, <4>1 DEF Report, WorkerFrame, RunRecord
    <3>2. EndRun(a, PieceReported(m, g), f)
      BY <1>10, <2>5 DEF ReadPiece, g
    <3> HIDE DEF f, m
    <3> QED
      BY <1>1, <2>1, <2>2, <2>3, <2>5, <3>1, <3>2 DEF ReportsPieces, IsReplaced, g
  <2>6. CASE /\ ~IsReplaced(m, g, a) /\ ~gateway[run[a].task].wantsPieces
             /\ m.answer[g].pieceCount >= MaximumAnswerPieces
    <3>1. AnswerWhole(a, g, m)
      BY <1>10, <2>6 DEF ReadPiece, g
    <3> QED
      BY <1>1, <1>2, <2>2, <3>1, WholeGivesUp DEF g
  <2>7. CASE /\ ~IsReplaced(m, g, a) /\ ~gateway[run[a].task].wantsPieces
             /\ ~(m.answer[g].pieceCount >= MaximumAnswerPieces)
    <3>1. memory' = BeginRead(m, g, a) /\ UNCHANGED <<workerVars, toWorker, toGateway, gatewayVars>>
      BY <1>10, <2>7 DEF ReadPiece, g
    <3>2. ReadsOn(memory, memory', g, a) /\ Waits(a, memory'.answer[g])
      BY <1>2, <2>2, <3>1, BeginReads
    <3>3. run' = [run EXCEPT ![a].phase = "reading"]
      BY <1>2, <1>7, <2>1, <3>1 DEF workerVars, RunRecord
    <3> QED
      BY <1>1, <3>1, <3>2, <3>3 DEF GoesOn, workerVars, g
  <2> QED
    BY <2>4, <2>5, <2>6, <2>7
<1> QED
  BY <1>1, <1>5, <1>6, <1>8, <1>9, <1>10 DEF RunStep

-----------------------------------------------------------------------------
(* The two channels *)

(* What appending does to a sequence, for the provers. *)
LEMMA SeqAppended ==
  ASSUME NEW S, NEW s \in Seq(S), NEW e \in S
  PROVE  /\ Append(s, e) \in Seq(S) /\ Len(Append(s, e)) = Len(s) + 1 /\ Append(s, e) # <<>>
         /\ DOMAIN s = 1..Len(s) /\ DOMAIN Append(s, e) = 1..(Len(s) + 1) /\ Len(s) \in Nat
         /\ \A i \in DOMAIN s : i \in DOMAIN Append(s, e) /\ Append(s, e)[i] = s[i]
         /\ Len(s) + 1 \in DOMAIN Append(s, e) /\ Append(s, e)[Len(s) + 1] = e
         /\ \A i \in DOMAIN Append(s, e) : i \in DOMAIN s \/ i = Len(s) + 1
  OBVIOUS

(* What taking the first element off does, for the provers. *)
LEMMA SeqTail ==
  ASSUME NEW S, NEW s \in Seq(S), s # <<>>
  PROVE  /\ Tail(s) \in Seq(S) /\ Len(Tail(s)) = Len(s) - 1 /\ Head(s) \in S
         /\ DOMAIN s = 1..Len(s) /\ DOMAIN Tail(s) = 1..(Len(s) - 1) /\ Len(s) \in Nat \ {0}
         /\ 1 \in DOMAIN s /\ Head(s) = s[1]
         /\ \A i \in DOMAIN Tail(s) : i + 1 \in DOMAIN s /\ Tail(s)[i] = s[i + 1]
         /\ \A i \in DOMAIN s \ {1} : i - 1 \in DOMAIN Tail(s) /\ Tail(s)[i - 1] = s[i]
  OBVIOUS

(* The frames under way name a task and an assignment. *)
LEMMA FramesTyped ==
  ASSUME WorkerTypeOK
  PROVE  /\ \A i \in DOMAIN toWorker : /\ toWorker[i] \in GatewayFrame
                                       /\ toWorker[i].of \in Assignment /\ toWorker[i].task \in Task
         /\ \A i \in DOMAIN toGateway : /\ toGateway[i] \in WorkerFrame
                                        /\ toGateway[i].of \in Assignment /\ toGateway[i].task \in Task
         /\ \A t \in Task : gateway[t].current # None => gateway[t].current \in Assignment
<1>1. /\ \A f \in GatewayFrame : f.of \in Assignment /\ f.task \in Task
      /\ \A f \in WorkerFrame : f.of \in Assignment /\ f.task \in Task
      /\ \A u \in GatewayTask : u.current # None => u.current \in Assignment
  BY DEF GatewayFrame, WorkerFrame, GatewayTask
<1>2. /\ \A i \in DOMAIN toWorker : toWorker[i] \in GatewayFrame
      /\ \A i \in DOMAIN toGateway : toGateway[i] \in WorkerFrame
      /\ \A t \in Task : gateway[t] \in GatewayTask
  BY WorkerTypes
<1> QED
  BY <1>1, <1>2

\* The parts of WireInv about who said what, apart from the types.
Ordered ==
  /\ AssignedInOrder /\ OneTaskEach /\ CurrentsDiffer /\ ReportsAreOfRuns
  /\ NothingWithoutConnection /\ ContinuesOnceReceived

\* A frame that may be sent once a step is over.
Truthful(f) ==
  /\ f \in WorkerFrame /\ run'[f.of].phase # "none" /\ run'[f.of].task = f.task
  /\ f.type \in {"stage.result", "stage.failed"} => run'[f.of].phase = "ended"
  /\ f.newText # <<>> => f.type = "stage.result" /\ ~f.done

(* A step of a run that says something true behind all it said keeps the wire in order. *)
LEMMA OrderedByRuns ==
  ASSUME WorkerTypeOK, Ordered, UNCHANGED <<toWorker, gateway, assigned, connected>>,
         \A a \in Assignment : /\ run'[a].task = run[a].task /\ (run'[a].phase = "none" <=> run[a].phase = "none")
                               /\ run[a].phase = "ended" => run'[a].phase = "ended",
         \/ UNCHANGED toGateway
         \/ connected /\ \E f \in WorkerFrame : Truthful(f) /\ toGateway' = Append(toGateway, f)
  PROVE  Ordered'
<1>1. /\ toGateway \in Seq(WorkerFrame) /\ toWorker \in Seq(GatewayFrame)
      /\ gateway \in [Task -> GatewayTask]
  BY WorkerTypes
<1>2. \A a \in Assignment : Begun(a)' <=> Begun(a)
  BY DEF Begun
<1>3. \A i \in DOMAIN toWorker : toWorker[i].of \in Assignment
  BY FramesTyped
<1>4. \A i \in DOMAIN toGateway : toGateway[i].of \in Assignment
  BY FramesTyped
<1>5. \A t \in Task : gateway[t].current # None => gateway[t].current \in Assignment
  BY FramesTyped
<1>6. AssignedInOrder'
  BY <1>2 DEF Ordered, AssignedInOrder, IsAssign
<1>7. OneTaskEach'
  BY <1>2, <1>3, <1>5 DEF Ordered, OneTaskEach, IsAssign
<1>8. ReportsAreOfRuns'
  <2>1. ASSUME NEW i \in DOMAIN toGateway
        PROVE  LET f == toGateway[i]
               IN /\ Begun(f.of)' /\ run'[f.of].task = f.task
                  /\ f.type \in {"stage.result", "stage.failed"} => run'[f.of].phase = "ended"
                  /\ f.newText # <<>> => f.type = "stage.result" /\ ~f.done
    BY <1>2, <1>4, <2>1 DEF Ordered, ReportsAreOfRuns
  <2>2. CASE UNCHANGED toGateway
    BY <2>1, <2>2 DEF ReportsAreOfRuns
  <2>3. ASSUME NEW f \in WorkerFrame, Truthful(f), toGateway' = Append(toGateway, f)
        PROVE  ReportsAreOfRuns'
    <3>1. ASSUME NEW i \in DOMAIN toGateway'
          PROVE  (i \in DOMAIN toGateway /\ toGateway'[i] = toGateway[i]) \/ toGateway'[i] = f
      BY <1>1, <2>3, <3>1, SeqAppended
    <3> QED
      BY <2>1, <2>3, <3>1 DEF ReportsAreOfRuns, Truthful, Begun
  <2> QED
    BY <2>2, <2>3
<1>9. NothingWithoutConnection'
  BY DEF Ordered, NothingWithoutConnection
<1>10. ContinuesOnceReceived'
  BY DEF Ordered, ContinuesOnceReceived, IsAssign
<1>11. CurrentsDiffer'
  BY DEF Ordered, CurrentsDiffer
<1> QED
  BY <1>6, <1>7, <1>8, <1>9, <1>10, <1>11 DEF Ordered

\* The worker reads a stage.assign.
LEMMA OrderedByAssign ==
  ASSUME WorkerTypeOK, Ordered, UNCHANGED <<gateway, assigned, connected>>, toWorker # <<>>,
         NEW f, f = Head(toWorker), f.type = "stage.assign", toWorker' = Tail(toWorker),
         NEW phase \in {"starting", "reading", "ended"}, NEW g \in Assignment \cup {None},
         run' = Started(f, phase, g),
         \/ \E e \in WorkerFrame : Truthful(e) /\ toGateway' = Append(toGateway, e)
         \/ \E e, d \in WorkerFrame : Truthful(e) /\ Truthful(d) /\ toGateway' = toGateway \o <<e, d>>
  PROVE  Ordered' /\ ~Begun(f.of) /\ f.of \in Assignment
<1>1. /\ toGateway \in Seq(WorkerFrame) /\ toWorker \in Seq(GatewayFrame)
      /\ gateway \in [Task -> GatewayTask] /\ run \in [Assignment -> RunRecord]
      /\ assigned \in Nat
  BY WorkerTypes
<1>2. /\ f \in GatewayFrame /\ f.of \in Assignment /\ f = toWorker[1] /\ 1 \in DOMAIN toWorker
      /\ f.task \in Task
  BY <1>1, SeqTail, FramesTyped
<1>3. \A i \in DOMAIN toWorker' : /\ i + 1 \in DOMAIN toWorker /\ toWorker'[i] = toWorker[i + 1]
                                  /\ i \in Nat \ {0}
  BY <1>1, SeqTail
<1>4. \A i \in DOMAIN toWorker : toWorker[i].of \in Assignment
  BY FramesTyped
<1>5. \A t \in Task : gateway[t].current # None => gateway[t].current \in Assignment
  BY FramesTyped
<1>6. /\ \A a \in Assignment : Begun(a) => a < f.of
      /\ f.of \leq assigned
  BY <1>2 DEF Ordered, AssignedInOrder, IsAssign
<1>7. ~Begun(f.of)
  BY <1>2, <1>6 DEF Assignment
<1>8. /\ run'[f.of].phase = phase /\ run'[f.of].task = f.task
      /\ \A a \in Assignment \ {f.of} : run'[a] = run[a]
  BY <1>1, <1>2 DEF Started
<1>9. \A a \in Assignment : Begun(a)' <=> Begun(a) \/ a = f.of
  BY <1>8 DEF Begun
<1>10. AssignedInOrder'
  <2>1. \A a \in Assignment : Begun(a)' => a \leq assigned
    BY <1>6, <1>9 DEF Ordered, AssignedInOrder
  <2>2. ASSUME NEW i \in DOMAIN toWorker'
        PROVE  /\ toWorker'[i].of \leq assigned
               /\ IsAssign(i)' => \A a \in Assignment : Begun(a)' => a < toWorker'[i].of
    <3>1. /\ toWorker'[i].of \leq assigned
          /\ IsAssign(i)' => \A a \in Assignment : Begun(a) => a < toWorker'[i].of
      BY <1>3, <2>2 DEF Ordered, AssignedInOrder, IsAssign
    <3>2. IsAssign(i)' => f.of < toWorker'[i].of
      <4>1. 1 < i + 1
        BY <1>3
      <4> QED
        BY <1>2, <1>3, <4>1 DEF Ordered, AssignedInOrder, IsAssign
    <3> QED
      BY <1>9, <3>1, <3>2
  <2>3. ASSUME NEW i \in DOMAIN toWorker', NEW j \in DOMAIN toWorker',
               i < j, IsAssign(i)', IsAssign(j)'
        PROVE  toWorker'[i].of < toWorker'[j].of
    <3>1. i + 1 < j + 1
      BY <1>3, <2>3
    <3> QED
      BY <1>3, <2>3, <3>1 DEF Ordered, AssignedInOrder, IsAssign
  <2> QED
    BY <2>1, <2>2, <2>3 DEF AssignedInOrder
<1>11. OneTaskEach'
  <2>1. ASSUME NEW t \in Task, gateway[t].current # None
        PROVE  /\ gateway[t].current \leq assigned
               /\ Begun(gateway[t].current)' => run'[gateway[t].current].task = t
               /\ \A i \in DOMAIN toWorker' : IsAssign(i)' =>
                    /\ toWorker'[i].of = gateway[t].current => toWorker'[i].task = t
                    /\ toWorker'[i].task = t => toWorker'[i].of \leq gateway[t].current
    <3>1. gateway[t].current = f.of => f.task = t
      BY <1>2, <2>1 DEF Ordered, OneTaskEach, IsAssign
    <3> QED
      BY <1>3, <1>5, <1>8, <1>9, <2>1, <3>1 DEF Ordered, OneTaskEach, IsAssign
  <2>2. ASSUME NEW i \in DOMAIN toWorker', ~IsAssign(i)'
        PROVE  /\ \A t \in Task : toWorker'[i].of # gateway[t].current
               /\ run'[toWorker'[i].of].phase # "none" => run'[toWorker'[i].of].task = toWorker'[i].task
               /\ \A j \in DOMAIN toWorker' :
                    IsAssign(j)' /\ toWorker'[j].of = toWorker'[i].of => toWorker'[j].task = toWorker'[i].task
    <3> DEFINE c == toWorker[i + 1]
    <3>1. c = toWorker'[i] /\ i + 1 \in DOMAIN toWorker /\ ~IsAssign(i + 1) /\ c.of \in Assignment
      BY <1>3, <1>4, <2>2 DEF IsAssign
    <3>2. c.of = f.of => f.task = c.task
      BY <1>2, <3>1 DEF Ordered, OneTaskEach, IsAssign
    <3>3. Begun(c.of) => run[c.of].task = c.task
      BY <3>1 DEF Ordered, OneTaskEach
    <3> HIDE DEF c
    <3>4. run'[c.of].phase # "none" => run'[c.of].task = c.task
      <4>1. CASE c.of = f.of
        BY <1>8, <3>2, <4>1
      <4>2. CASE c.of # f.of
        BY <1>8, <3>1, <3>3, <4>2 DEF Begun
      <4> QED
        BY <4>1, <4>2
    <3> USE DEF c
    <3>5. \A t \in Task : c.of # gateway[t].current
      BY <3>1 DEF Ordered, OneTaskEach
    <3>6. \A j \in DOMAIN toWorker' :
            IsAssign(j)' /\ toWorker'[j].of = c.of => toWorker'[j].task = c.task
      <4>1. ASSUME NEW j \in DOMAIN toWorker, IsAssign(j), toWorker[j].of = c.of
            PROVE  toWorker[j].task = c.task
        BY <3>1, <4>1 DEF Ordered, OneTaskEach
      <4>2. \A j \in DOMAIN toWorker' : IsAssign(j)' <=> IsAssign(j + 1)
        BY <1>3 DEF IsAssign
      <4> HIDE DEF c
      <4> QED
        BY <1>3, <4>1, <4>2
    <3> HIDE DEF c
    <3> QED
      BY <3>1, <3>4, <3>5, <3>6 DEF Begun
  <2> QED
    BY <2>1, <2>2 DEF OneTaskEach, Begun
<1>12. ReportsAreOfRuns'
  <2> DEFINE Fine(e) == /\ run'[e.of].phase # "none" /\ run'[e.of].task = e.task
                        /\ e.type \in {"stage.result", "stage.failed"} => run'[e.of].phase = "ended"
                        /\ e.newText # <<>> => e.type = "stage.result" /\ ~e.done
  <2>1. ASSUME NEW i \in DOMAIN toGateway
        PROVE  Fine(toGateway[i])
    <3>1. toGateway[i].of \in Assignment
      BY <2>1, FramesTyped
    <3>2. Begun(toGateway[i].of)
      BY <2>1 DEF Ordered, ReportsAreOfRuns
    <3>3. run'[toGateway[i].of] = run[toGateway[i].of]
      BY <1>7, <1>8, <3>1, <3>2
    <3> QED
      BY <2>1, <3>3 DEF Ordered, ReportsAreOfRuns, Begun
  <2>2. \A e \in WorkerFrame : Truthful(e) => Fine(e)
    BY DEF Truthful
  <2> HIDE DEF Fine
  <2>3. \A i \in DOMAIN toGateway' : Fine(toGateway'[i])
    <3>1. ASSUME NEW e \in WorkerFrame, Truthful(e), toGateway' = Append(toGateway, e)
          PROVE  \A i \in DOMAIN toGateway' : Fine(toGateway'[i])
      BY <1>1, <2>1, <2>2, <3>1, SeqAppended
    <3>2. ASSUME NEW e \in WorkerFrame, NEW d \in WorkerFrame, Truthful(e), Truthful(d),
                 toGateway' = toGateway \o <<e, d>>
          PROVE  \A i \in DOMAIN toGateway' : Fine(toGateway'[i])
      <4>1. toGateway' = Append(Append(toGateway, e), d) /\ Append(toGateway, e) \in Seq(WorkerFrame)
        BY <1>1, <3>2
      <4>2. \A i \in DOMAIN Append(toGateway, e) : Fine(Append(toGateway, e)[i])
        BY <1>1, <2>1, <2>2, <3>2, SeqAppended
      <4> QED
        BY <2>2, <3>2, <4>1, <4>2, SeqAppended
    <3> QED
      BY <3>1, <3>2
  <2> QED
    BY <2>3 DEF ReportsAreOfRuns, Fine, Begun
<1>13. NothingWithoutConnection'
  BY DEF Ordered, NothingWithoutConnection
<1>14. ContinuesOnceReceived'
  BY <1>3 DEF Ordered, ContinuesOnceReceived, IsAssign
<1>15. CurrentsDiffer'
  BY DEF Ordered, CurrentsDiffer
<1> QED
  BY <1>2, <1>7, <1>10, <1>11, <1>12, <1>13, <1>14, <1>15 DEF Ordered

\* The worker reads a stage.cancel: nothing else of what was said changes.
LEMMA OrderedByCancel ==
  ASSUME WorkerTypeOK, Ordered, UNCHANGED <<gateway, assigned, connected, run, toGateway>>,
         toWorker # <<>>, toWorker' = Tail(toWorker)
  PROVE  Ordered'
<1>1. toWorker \in Seq(GatewayFrame)
  BY WorkerTypes
<1>2. \A i \in DOMAIN toWorker' : /\ i + 1 \in DOMAIN toWorker /\ toWorker'[i] = toWorker[i + 1]
                                  /\ i \in Nat \ {0} /\ (IsAssign(i)' <=> IsAssign(i + 1))
  BY <1>1, SeqTail DEF IsAssign
<1>3. \A a \in Assignment : Begun(a)' <=> Begun(a)
  BY DEF Begun
<1>4. AssignedInOrder'
  <2>1. ASSUME NEW i \in DOMAIN toWorker', NEW j \in DOMAIN toWorker',
               i < j, IsAssign(i)', IsAssign(j)'
        PROVE  toWorker'[i].of < toWorker'[j].of
    <3>1. i + 1 < j + 1
      BY <1>2, <2>1
    <3> QED
      BY <1>2, <2>1, <3>1 DEF Ordered, AssignedInOrder
  <2> QED
    BY <1>2, <1>3, <2>1 DEF Ordered, AssignedInOrder
<1>5. OneTaskEach'
  <2>1. ASSUME NEW t \in Task, gateway[t].current # None
        PROVE  /\ gateway[t].current \leq assigned
               /\ Begun(gateway[t].current) => run[gateway[t].current].task = t
               /\ \A i \in DOMAIN toWorker' : IsAssign(i)' =>
                    /\ toWorker'[i].of = gateway[t].current => toWorker'[i].task = t
                    /\ toWorker'[i].task = t => toWorker'[i].of \leq gateway[t].current
    BY <1>2, <2>1 DEF Ordered, OneTaskEach
  <2>2. ASSUME NEW i \in DOMAIN toWorker, ~IsAssign(i)
        PROVE  /\ \A t \in Task : toWorker[i].of # gateway[t].current
               /\ Begun(toWorker[i].of) => run[toWorker[i].of].task = toWorker[i].task
               /\ \A j \in DOMAIN toWorker' :
                    IsAssign(j)' /\ toWorker'[j].of = toWorker[i].of => toWorker'[j].task = toWorker[i].task
    BY <1>2, <2>2 DEF Ordered, OneTaskEach
  <2> QED
    BY <1>2, <2>1, <2>2 DEF OneTaskEach, Begun
<1>6. ReportsAreOfRuns' /\ NothingWithoutConnection'
  BY DEF Ordered, ReportsAreOfRuns, NothingWithoutConnection, Begun
<1>7. ContinuesOnceReceived'
  BY <1>2 DEF Ordered, ContinuesOnceReceived
<1>8. CurrentsDiffer'
  BY DEF Ordered, CurrentsDiffer
<1> QED
  BY <1>4, <1>5, <1>6, <1>7, <1>8 DEF Ordered

\* The connection closes, and takes the frames on their way with it.
LEMMA OrderedByClose ==
  ASSUME WorkerTypeOK, Ordered, UNCHANGED <<run, assigned>>, toWorker' = <<>>, toGateway' = <<>>,
         \A t \in Task : /\ gateway'[t].current = None
                         /\ gateway'[t].isContinuation = gateway[t].isContinuation
                         /\ gateway'[t].received = gateway[t].received
                         /\ gateway'[t].state = "queued" => gateway[t].state = "queued"
  PROVE  Ordered'
<1>1. DOMAIN toWorker' = {} /\ DOMAIN toGateway' = {}
  OBVIOUS
<1>2. AssignedInOrder' /\ OneTaskEach' /\ ReportsAreOfRuns'
  BY <1>1 DEF Ordered, AssignedInOrder, OneTaskEach, ReportsAreOfRuns, Begun
<1>3. NothingWithoutConnection' /\ ContinuesOnceReceived'
  BY <1>1 DEF Ordered, NothingWithoutConnection, ContinuesOnceReceived
<1>4. CurrentsDiffer'
  BY DEF CurrentsDiffer
<1> QED
  BY <1>2, <1>3, <1>4 DEF Ordered

\* The gateway reads a frame, or does not.
ReadsOrNot ==
  \/ UNCHANGED toGateway
  \/ toGateway # <<>> /\ toGateway' = Tail(toGateway)

(* The gateway taking a frame off the wire leaves only frames about runs. *)
LEMMA ReadsKeeps ==
  ASSUME WorkerTypeOK, ReportsAreOfRuns, UNCHANGED run, ReadsOrNot
  PROVE  ReportsAreOfRuns' /\ (toGateway = <<>> => toGateway' = <<>>)
<1>1. toGateway \in Seq(WorkerFrame)
  BY WorkerTypes
<1>2. CASE UNCHANGED toGateway
  BY <1>2 DEF ReportsAreOfRuns, Begun
<1>3. CASE toGateway # <<>> /\ toGateway' = Tail(toGateway)
  <2>1. \A i \in DOMAIN toGateway' : i + 1 \in DOMAIN toGateway /\ toGateway'[i] = toGateway[i + 1]
    BY <1>1, <1>3, SeqTail
  <2> QED
    BY <1>3, <2>1 DEF ReportsAreOfRuns, Begun
<1> QED
  BY <1>2, <1>3 DEF ReadsOrNot

\* The gateway takes a task off its assignment, or leaves it there, and may tell
\* the worker to cancel one.
LEMMA OrderedBySettling ==
  ASSUME WorkerTypeOK, Ordered, UNCHANGED <<run, assigned, connected>>, ReadsOrNot,
         \A t \in Task : /\ gateway'[t].current \in {gateway[t].current, None}
                         /\ gateway'[t].isContinuation = gateway[t].isContinuation
                         /\ gateway'[t].received = gateway[t].received
                         /\ gateway'[t].state = "queued" => gateway[t].state = "queued",
         \/ UNCHANGED toWorker
         \/ /\ connected
            /\ \E a \in Assignment, u \in Task :
                 /\ toWorker' = Append(toWorker, CancelFrame(a, u))
                 /\ a \leq assigned /\ \A t \in Task : gateway'[t].current # a
                 /\ Begun(a) => run[a].task = u
                 /\ \A i \in DOMAIN toWorker : IsAssign(i) /\ toWorker[i].of = a => toWorker[i].task = u
  PROVE  Ordered'
<1>1. /\ toWorker \in Seq(GatewayFrame) /\ gateway \in [Task -> GatewayTask]
  BY WorkerTypes
<1>2. ReportsAreOfRuns' /\ (toGateway = <<>> => toGateway' = <<>>)
  BY ReadsKeeps DEF Ordered
<1>5. CurrentsDiffer'
  BY DEF Ordered, CurrentsDiffer
<1>3. CASE UNCHANGED toWorker
  <2>1. AssignedInOrder' /\ OneTaskEach'
    <3>1. AssignedInOrder'
      BY <1>3 DEF Ordered, AssignedInOrder, IsAssign, Begun
    <3>2. ASSUME NEW t \in Task, gateway'[t].current # None
          PROVE  /\ gateway'[t].current \leq assigned
                 /\ run[gateway'[t].current].phase # "none" => run[gateway'[t].current].task = t
                 /\ \A i \in DOMAIN toWorker : IsAssign(i) =>
                      /\ toWorker[i].of = gateway'[t].current => toWorker[i].task = t
                      /\ toWorker[i].task = t => toWorker[i].of \leq gateway'[t].current
      <4>1. gateway'[t].current = gateway[t].current
        BY <3>2
      <4> QED
        BY <3>2, <4>1 DEF Ordered, OneTaskEach, Begun
    <3>3. ASSUME NEW i \in DOMAIN toWorker, ~IsAssign(i)
          PROVE  \A t \in Task : toWorker[i].of # gateway'[t].current
      <4>1. toWorker[i].of # None
        BY FramesTyped DEF None, Assignment
      <4> QED
        BY <3>3, <4>1 DEF Ordered, OneTaskEach
    <3>4. OneTaskEach'
      BY <1>3, <3>2, <3>3 DEF Ordered, OneTaskEach, IsAssign, Begun
    <3> QED
      BY <3>1, <3>4
  <2>2. NothingWithoutConnection'
    BY <1>2, <1>3 DEF Ordered, NothingWithoutConnection
  <2>3. ContinuesOnceReceived'
    BY <1>3, FramesTyped DEF Ordered, ContinuesOnceReceived, IsAssign
  <2> QED
    BY <1>2, <1>5, <2>1, <2>2, <2>3 DEF Ordered
<1>4. ASSUME NEW a \in Assignment, NEW u \in Task, toWorker' = Append(toWorker, CancelFrame(a, u)),
             connected, a \leq assigned, \A t \in Task : gateway'[t].current # a,
             Begun(a) => run[a].task = u,
             \A i \in DOMAIN toWorker : IsAssign(i) /\ toWorker[i].of = a => toWorker[i].task = u
      PROVE  Ordered'
  <2> DEFINE c == CancelFrame(a, u)
  <2>1. c \in GatewayFrame /\ c.of = a /\ c.task = u /\ c.type = "stage.cancel"
    BY DEF CancelFrame, GatewayFrame
  <2> HIDE DEF c
  <2>2. /\ \A i \in DOMAIN toWorker' : \/ i \in DOMAIN toWorker /\ toWorker'[i] = toWorker[i]
                                       \/ i = Len(toWorker) + 1 /\ toWorker'[i] = c
        /\ \A i \in DOMAIN toWorker : i \in DOMAIN toWorker' /\ toWorker'[i] = toWorker[i]
    BY <1>1, <1>4, <2>1, SeqAppended DEF c
  <2>3. \A i \in DOMAIN toWorker' : IsAssign(i)' =>
          i \in DOMAIN toWorker /\ toWorker'[i] = toWorker[i] /\ IsAssign(i)
    BY <2>1, <2>2 DEF IsAssign
  <2>4. AssignedInOrder'
    <3>1. \A i \in DOMAIN toWorker' : toWorker'[i].of \leq assigned
      BY <1>4, <2>1, <2>2 DEF Ordered, AssignedInOrder
    <3>2. \A i \in DOMAIN toWorker' : IsAssign(i)' => \A b \in Assignment : Begun(b) => b < toWorker'[i].of
      BY <2>3 DEF Ordered, AssignedInOrder
    <3>3. \A i, j \in DOMAIN toWorker' :
             i < j /\ IsAssign(i)' /\ IsAssign(j)' => toWorker'[i].of < toWorker'[j].of
      BY <2>3 DEF Ordered, AssignedInOrder
    <3> QED
      BY <3>1, <3>2, <3>3 DEF Ordered, AssignedInOrder, Begun
  <2>5. OneTaskEach'
    <3>1. ASSUME NEW t \in Task, gateway'[t].current # None
          PROVE  /\ gateway'[t].current \leq assigned
                 /\ run[gateway'[t].current].phase # "none" => run[gateway'[t].current].task = t
                 /\ \A i \in DOMAIN toWorker' : IsAssign(i)' =>
                      /\ toWorker'[i].of = gateway'[t].current => toWorker'[i].task = t
                      /\ toWorker'[i].task = t => toWorker'[i].of \leq gateway'[t].current
      <4>1. gateway'[t].current = gateway[t].current
        BY <3>1
      <4> QED
        BY <2>3, <3>1, <4>1 DEF Ordered, OneTaskEach, Begun
    <3>2. ASSUME NEW i \in DOMAIN toWorker', ~IsAssign(i)'
          PROVE  /\ \A t \in Task : toWorker'[i].of # gateway'[t].current
                 /\ run[toWorker'[i].of].phase # "none" => run[toWorker'[i].of].task = toWorker'[i].task
                 /\ \A j \in DOMAIN toWorker' :
                      IsAssign(j)' /\ toWorker'[j].of = toWorker'[i].of => toWorker'[j].task = toWorker'[i].task
      <4>1. CASE i \in DOMAIN toWorker /\ toWorker'[i] = toWorker[i]
        <5>1. toWorker[i].of # None /\ ~IsAssign(i)
          BY <3>2, <4>1, FramesTyped DEF None, Assignment, IsAssign
        <5> QED
          BY <2>3, <4>1, <5>1 DEF Ordered, OneTaskEach, Begun
      <4>2. CASE toWorker'[i] = c
        BY <1>4, <2>1, <2>3, <4>2 DEF Begun
      <4> QED
        BY <2>2, <4>1, <4>2
    <3> QED
      BY <3>1, <3>2 DEF OneTaskEach, Begun
  <2>6. NothingWithoutConnection'
    BY <1>4 DEF NothingWithoutConnection
  <2>7. ContinuesOnceReceived'
    <3>1. \A i \in DOMAIN toWorker' : IsAssign(i)' /\ ~toWorker'[i].isContinuation =>
             ~gateway'[toWorker'[i].task].isContinuation
      BY <2>3, FramesTyped DEF Ordered, ContinuesOnceReceived
    <3> QED
      BY <3>1 DEF Ordered, ContinuesOnceReceived
  <2> QED
    BY <1>2, <1>5, <2>4, <2>5, <2>6, <2>7 DEF Ordered
<1> QED
  BY <1>3, <1>4

\* The gateway assigns the stage of a task once more.
LEMMA OrderedBySending ==
  ASSUME WorkerTypeOK, Ordered, UNCHANGED <<run, connected>>, ReadsOrNot, connected,
         NEW t \in Task, NEW isContinuation \in BOOLEAN, assigned < MaxAssignments,
         assigned' = assigned + 1,
         \A u \in Task \ {t} : gateway'[u] = gateway[u],
         gateway'[t].current = assigned + 1, gateway'[t].isContinuation = isContinuation,
         gateway'[t].state = "assigned", ~isContinuation => gateway'[t].received = <<>>,
         toWorker' = Append(toWorker, [type |-> "stage.assign", of |-> assigned + 1, task |-> t,
                                       isContinuation |-> isContinuation]),
         isContinuation => \A i \in DOMAIN toWorker :
                             IsAssign(i) /\ toWorker[i].task = t => toWorker[i].isContinuation
  PROVE  Ordered'
<1> DEFINE a == assigned + 1
           c == [type |-> "stage.assign", of |-> a, task |-> t, isContinuation |-> isContinuation]
<1>1. /\ toWorker \in Seq(GatewayFrame) /\ gateway \in [Task -> GatewayTask]
      /\ assigned \in 0..MaxAssignments /\ MaxAssignments \in Nat
  BY WorkerTypes, HeldAnswersAssumption
<1>2. ReportsAreOfRuns' /\ (toGateway = <<>> => toGateway' = <<>>)
  BY ReadsKeeps DEF Ordered
<1>3. a \in Assignment /\ a # None /\ a > assigned /\ assigned \in Nat
  BY <1>1 DEF Assignment, None
<1>4. c \in GatewayFrame /\ c.of = a /\ c.task = t /\ c.type = "stage.assign" /\ c.isContinuation = isContinuation
  BY <1>3 DEF GatewayFrame
<1> HIDE DEF c
<1>5. toWorker' = Append(toWorker, c)
  BY DEF c
<1> HIDE DEF a
<1>6. /\ \A i \in DOMAIN toWorker' : \/ i \in DOMAIN toWorker /\ toWorker'[i] = toWorker[i]
                                     \/ i = Len(toWorker) + 1 /\ toWorker'[i] = c
      /\ DOMAIN toWorker = 1..Len(toWorker) /\ Len(toWorker) \in Nat
  BY <1>1, <1>4, <1>5, SeqAppended
<1>7. /\ ~Begun(a) /\ \A i \in DOMAIN toWorker : toWorker[i].of < a /\ toWorker[i].of # a
      /\ \A b \in Assignment : Begun(b) => b < a
  <2>1. /\ \A b \in Assignment : Begun(b) => b \leq assigned
        /\ \A i \in DOMAIN toWorker : toWorker[i].of \leq assigned
    BY DEF Ordered, AssignedInOrder
  <2>2. \A b \in Assignment : b \in Nat
    BY <1>1 DEF Assignment
  <2> QED
    BY <1>3, <2>1, <2>2, FramesTyped
<1>8. gateway'[t].current = a /\ assigned' = a
  BY DEF a
<1>9. \A i \in DOMAIN toWorker' : i \in DOMAIN toWorker => (IsAssign(i)' <=> IsAssign(i)) /\ toWorker'[i] = toWorker[i]
  BY <1>6 DEF IsAssign
<1>10. AssignedInOrder'
  <2>1. \A i \in DOMAIN toWorker' : toWorker'[i].of \leq a
    BY <1>3, <1>4, <1>6, <1>7, FramesTyped DEF Assignment
  <2>2. \A i \in DOMAIN toWorker' : IsAssign(i)' => \A b \in Assignment : Begun(b) => b < toWorker'[i].of
    BY <1>4, <1>6, <1>7, <1>9 DEF Ordered, AssignedInOrder
  <2>3. ASSUME NEW i \in DOMAIN toWorker', NEW j \in DOMAIN toWorker', i < j, IsAssign(i)', IsAssign(j)'
        PROVE  toWorker'[i].of < toWorker'[j].of
    <3>1. i \in DOMAIN toWorker /\ toWorker'[i] = toWorker[i] /\ IsAssign(i)
      BY <1>6, <1>9, <2>3
    <3>2. CASE j \in DOMAIN toWorker
      BY <1>9, <2>3, <3>1, <3>2 DEF Ordered, AssignedInOrder
    <3>3. CASE toWorker'[j] = c
      BY <1>4, <1>7, <3>1, <3>3
    <3> QED
      BY <1>6, <3>2, <3>3
  <2>4. \A b \in Assignment : Begun(b) => b \leq a
    BY <1>3, <1>7 DEF Assignment
  <2> QED
    BY <1>8, <2>1, <2>2, <2>3, <2>4 DEF AssignedInOrder, Begun
<1>11. OneTaskEach'
  <2>1. ASSUME NEW u \in Task, gateway'[u].current # None
        PROVE  /\ gateway'[u].current \leq a
               /\ run[gateway'[u].current].phase # "none" => run[gateway'[u].current].task = u
               /\ \A i \in DOMAIN toWorker' : IsAssign(i)' =>
                    /\ toWorker'[i].of = gateway'[u].current => toWorker'[i].task = u
                    /\ toWorker'[i].task = u => toWorker'[i].of \leq gateway'[u].current
    <3>1. CASE u = t
      <4>1. \A i \in DOMAIN toWorker' : toWorker'[i].of = a => toWorker'[i].task = t
        BY <1>4, <1>6, <1>7
      <4>2. \A i \in DOMAIN toWorker' : toWorker'[i].of \leq a
        BY <1>3, <1>4, <1>6, <1>7, FramesTyped DEF Assignment
      <4> QED
        BY <1>3, <1>7, <1>8, <3>1, <4>1, <4>2 DEF Begun, Assignment
    <3>2. CASE u # t
      <4>1. gateway'[u] = gateway[u] /\ gateway[u].current \leq assigned /\ gateway[u].current \in Assignment
        BY <2>1, <3>2, FramesTyped DEF Ordered, OneTaskEach
      <4>2. gateway[u].current < a
        BY <1>3, <4>1 DEF a, Assignment
      <4>3. ASSUME NEW i \in DOMAIN toWorker', IsAssign(i)'
            PROVE  /\ toWorker'[i].of = gateway[u].current => toWorker'[i].task = u
                   /\ toWorker'[i].task = u => toWorker'[i].of \leq gateway[u].current
        <5>1. CASE i \in DOMAIN toWorker
          BY <1>9, <2>1, <4>1, <4>3, <5>1 DEF Ordered, OneTaskEach
        <5>2. CASE toWorker'[i] = c
          BY <1>3, <1>4, <3>2, <4>1, <4>2, <5>2 DEF Assignment
        <5> QED
          BY <1>6, <5>1, <5>2
      <4> QED
        BY <1>3, <2>1, <4>1, <4>2, <4>3 DEF Ordered, OneTaskEach, Begun, Assignment
    <3> QED
      BY <3>1, <3>2
  <2>2. ASSUME NEW i \in DOMAIN toWorker', ~IsAssign(i)'
        PROVE  /\ \A u \in Task : toWorker'[i].of # gateway'[u].current
               /\ run[toWorker'[i].of].phase # "none" => run[toWorker'[i].of].task = toWorker'[i].task
               /\ \A j \in DOMAIN toWorker' :
                    IsAssign(j)' /\ toWorker'[j].of = toWorker'[i].of => toWorker'[j].task = toWorker'[i].task
    <3>1. i \in DOMAIN toWorker /\ toWorker'[i] = toWorker[i] /\ ~IsAssign(i)
      BY <1>4, <1>6, <2>2 DEF IsAssign
    <3>2. \A u \in Task : toWorker[i].of # gateway'[u].current
      BY <1>7, <1>8, <3>1 DEF Ordered, OneTaskEach
    <3>3. ASSUME NEW j \in DOMAIN toWorker', IsAssign(j)', toWorker'[j].of = toWorker[i].of
          PROVE  toWorker'[j].task = toWorker[i].task
      <4>1. j \in DOMAIN toWorker
        BY <1>4, <1>6, <1>7, <3>1, <3>3
      <4> QED
        BY <1>9, <3>1, <3>3, <4>1 DEF Ordered, OneTaskEach
    <3> QED
      BY <3>1, <3>2, <3>3 DEF Ordered, OneTaskEach, Begun
  <2> QED
    BY <1>8, <2>1, <2>2 DEF OneTaskEach, Begun
<1>12. NothingWithoutConnection'
  BY DEF NothingWithoutConnection
<1>13. ContinuesOnceReceived'
  <2>1. \A u \in Task : /\ gateway'[u].state = "queued" => ~gateway'[u].isContinuation
                        /\ ~gateway'[u].isContinuation => gateway'[u].received = <<>>
    BY DEF Ordered, ContinuesOnceReceived
  <2>2. ASSUME NEW i \in DOMAIN toWorker', IsAssign(i)', ~toWorker'[i].isContinuation
        PROVE  ~gateway'[toWorker'[i].task].isContinuation
    <3>1. CASE i \in DOMAIN toWorker
      BY <1>9, <2>2, <3>1, FramesTyped DEF Ordered, ContinuesOnceReceived
    <3>2. CASE toWorker'[i] = c
      BY <1>4, <2>2, <3>2
    <3> QED
      BY <1>6, <3>1, <3>2
  <2> QED
    BY <2>1, <2>2 DEF ContinuesOnceReceived
<1>14. CurrentsDiffer'
  <2>1. \A u \in Task : gateway[u].current # a
    <3>1. \A u \in Task : gateway[u].current # None => gateway[u].current \leq assigned
      BY DEF Ordered, OneTaskEach
    <3>2. ~(a \leq assigned)
      BY <1>3 DEF Assignment
    <3> QED
      BY <1>3, <3>1, <3>2
  <2> QED
    BY <1>8, <2>1 DEF Ordered, CurrentsDiffer
<1> QED
  BY <1>2, <1>10, <1>11, <1>12, <1>13, <1>14 DEF Ordered

-----------------------------------------------------------------------------
(* What the gateway does *)

\* The gateway takes a task off its assignment, or leaves it there, and may tell
\* the worker to cancel one.
Settling ==
  /\ UNCHANGED <<assigned, beats>> /\ ReadsOrNot
  /\ \A t \in Task : /\ gateway'[t].current \in {gateway[t].current, None}
                     /\ gateway'[t].isContinuation = gateway[t].isContinuation
                     /\ gateway'[t].received = gateway[t].received
                     /\ gateway'[t].state = "queued" => gateway[t].state = "queued"
  /\ \/ UNCHANGED toWorker
     \/ /\ connected
        /\ \E a \in Assignment, u \in Task :
             /\ toWorker' = Append(toWorker, CancelFrame(a, u))
             /\ a \leq assigned /\ \A t \in Task : gateway'[t].current # a
             /\ Begun(a) => run[a].task = u
             /\ \A i \in DOMAIN toWorker : IsAssign(i) /\ toWorker[i].of = a => toWorker[i].task = u

\* The gateway assigns the stage of t once more.
Sending(t, isContinuation) ==
  /\ connected /\ assigned < MaxAssignments /\ assigned' = assigned + 1
  /\ UNCHANGED beats /\ ReadsOrNot
  /\ \A u \in Task \ {t} : gateway'[u] = gateway[u]
  /\ gateway'[t].current = assigned + 1 /\ gateway'[t].isContinuation = isContinuation
  /\ gateway'[t].state = "assigned"
  /\ ~isContinuation => gateway'[t].received = <<>>
  /\ toWorker' = Append(toWorker, [type |-> "stage.assign", of |-> assigned + 1, task |-> t,
                                   isContinuation |-> isContinuation])
  /\ isContinuation => \A i \in DOMAIN toWorker :
                         IsAssign(i) /\ toWorker[i].task = t => toWorker[i].isContinuation

(* Every step of the gateway keeps the types. *)
LEMMA GatewayTyped ==
  ASSUME WorkerTypeOK, ReadsOrNot, gateway' \in [Task -> GatewayTask],
         assigned' \in 0..MaxAssignments, expiries' \in 0..MaxExpiries, UNCHANGED <<memory, workerVars>>,
         Settling \/ \E t \in Task, c \in BOOLEAN : Sending(t, c)
  PROVE  WorkerTypeOK'
<1>1. toWorker' \in Seq(GatewayFrame)
  <2>1. toWorker \in Seq(GatewayFrame)
    BY WorkerTypes
  <2>2. CASE UNCHANGED toWorker
    BY <2>1, <2>2
  <2>3. ASSUME NEW a \in Assignment, NEW u \in Task, toWorker' = Append(toWorker, CancelFrame(a, u))
        PROVE  toWorker' \in Seq(GatewayFrame)
    <3>1. CancelFrame(a, u) \in GatewayFrame
      BY DEF CancelFrame, GatewayFrame
    <3> QED
      BY <2>1, <2>3, <3>1, SeqAppended
  <2>4. ASSUME NEW t \in Task, NEW c \in BOOLEAN, Sending(t, c)
        PROVE  toWorker' \in Seq(GatewayFrame)
    <3> DEFINE f == [type |-> "stage.assign", of |-> assigned + 1, task |-> t, isContinuation |-> c]
    <3>1. assigned + 1 \in Assignment
      BY <2>4, HeldAnswersAssumption, WorkerTypes DEF Sending, Assignment
    <3>2. f \in GatewayFrame
      BY <3>1 DEF GatewayFrame
    <3>3. toWorker' = Append(toWorker, f)
      BY <2>4 DEF Sending
    <3> HIDE DEF f
    <3> QED
      BY <2>1, <3>2, <3>3, SeqAppended
  <2> QED
    BY <2>2, <2>3, <2>4 DEF Settling
<1>2. toGateway' \in Seq(WorkerFrame)
  <2>1. toGateway \in Seq(WorkerFrame)
    BY WorkerTypes
  <2> QED
    BY <2>1, SeqTail DEF ReadsOrNot
<1>3. beats' = beats
  BY DEF Settling, Sending
<1>4. /\ memory' \in Memory /\ connected' \in BOOLEAN /\ run' \in [Assignment -> RunRecord]
      /\ cancelled' \subseteq Assignment /\ heartbeats' \subseteq Assignment
      /\ beats' \in 0..MaxHeartbeats
  BY <1>3, WorkerTypes DEF workerVars
<1> QED
  BY <1>1, <1>2, <1>4 DEF WorkerTypeOK, HeldAnswersTypeOK, Memory, AnswerRecord, RunRecord, WorkerFrame, GatewayFrame

\* One task is changed.
LEMMA TaskChanged ==
  ASSUME WorkerTypeOK, NEW t \in Task, NEW z \in GatewayTask, gateway' = [gateway EXCEPT ![t] = z]
  PROVE  /\ gateway' \in [Task -> GatewayTask] /\ gateway'[t] = z
         /\ \A u \in Task \ {t} : gateway'[u] = gateway[u]
<1>1. gateway \in [Task -> GatewayTask]
  BY WorkerTypes
<1> QED
  BY <1>1

\* What AssignNext does for a stage it may be done for.
LEMMA AssignNextSends ==
  ASSUME WorkerTypeOK, Ordered, NEW t \in Task, NEW attempts \in Nat, attempts < MaxAttempts,
         NEW c \in BOOLEAN, c = gateway[t].isContinuation,
         connected, UNCHANGED <<beats, toGateway>>, AssignNext(t, attempts, c)
  PROVE  Sending(t, c) /\ gateway' \in [Task -> GatewayTask] /\ assigned' \in 0..MaxAssignments
         /\ gateway'[t].received = gateway[t].received /\ gateway'[t].refused = gateway[t].refused
<1> DEFINE a == assigned + 1
           u == gateway[t]
           z == [u EXCEPT !.state = "assigned", !.current = a, !.attempts = attempts + 1, !.isContinuation = c]
<1>1. /\ assigned \in 0..MaxAssignments /\ assigned < MaxAssignments /\ MaxAssignments \in Nat
      /\ u \in GatewayTask /\ MaxAttempts \in Nat
  BY HeldAnswersAssumption, OpenaiWorkerAssumption, WorkerTypes DEF AssignNext
<1>2. a \in Assignment /\ a \in 0..MaxAssignments /\ attempts + 1 \in 0..MaxAttempts
  BY <1>1 DEF Assignment
<1> HIDE DEF a
<1>3. /\ z \in GatewayTask /\ z.state = "assigned" /\ z.current = a /\ z.isContinuation = c
      /\ z.received = u.received /\ z.refused = u.refused
  BY <1>1, <1>2 DEF GatewayTask
<1>4. gateway' = [gateway EXCEPT ![t] = z]
  BY DEF AssignNext, a
<1> HIDE DEF z
<1>5. /\ gateway' \in [Task -> GatewayTask] /\ gateway'[t] = z
      /\ \A v \in Task \ {t} : gateway'[v] = gateway[v]
  BY <1>3, <1>4, TaskChanged
<1>6. /\ assigned' = a
      /\ toWorker' = Append(toWorker, [type |-> "stage.assign", of |-> a, task |-> t, isContinuation |-> c])
  BY DEF AssignNext, a
<1>7. /\ ~c => u.received = <<>>
      /\ c => \A i \in DOMAIN toWorker : IsAssign(i) /\ toWorker[i].task = t => toWorker[i].isContinuation
  BY DEF Ordered, ContinuesOnceReceived
<1>8. Sending(t, c)
  BY <1>1, <1>3, <1>5, <1>6, <1>7 DEF Sending, ReadsOrNot, a
<1> QED
  BY <1>2, <1>3, <1>5, <1>6, <1>8

\* What a step of the gateway may be.
GatewayStep ==
  /\ WorkerTypeOK' /\ UNCHANGED <<memory, workerVars>>
  /\ Settling \/ \E t \in Task, c \in BOOLEAN : Sending(t, c)

(* The placement of a task is a step of the gateway as the wire sees it, *)
LEMMA PlaceIsStep ==
  ASSUME WorkerTypeOK, Ordered, NEW t \in Task, Place(t)
  PROVE  GatewayStep
<1>1. /\ gateway[t].isContinuation = FALSE /\ 0 \in Nat /\ 0 < MaxAttempts
  BY OpenaiWorkerAssumption, WorkerTypes DEF Place, Ordered, ContinuesOnceReceived, GatewayTask
<1>2. /\ Sending(t, FALSE) /\ gateway' \in [Task -> GatewayTask] /\ assigned' \in 0..MaxAssignments
  BY <1>1, AssignNextSends DEF Place
<1>3. UNCHANGED <<memory, workerVars, toGateway, expiries>> /\ expiries \in 0..MaxExpiries
  BY WorkerTypes DEF Place
<1>4. WorkerTypeOK'
  BY <1>2, <1>3, GatewayTyped DEF ReadsOrNot
<1> QED
  BY <1>2, <1>3, <1>4 DEF GatewayStep

(* a lease that expires too, *)
LEMMA ExpiryIsStep ==
  ASSUME WorkerTypeOK, Ordered, NEW t \in Task, LeaseExpires(t)
  PROVE  GatewayStep
<1>1. /\ UNCHANGED <<memory, workerVars, toGateway, beats>>
      /\ expiries' \in 0..MaxExpiries /\ gateway[t].current # None
      /\ gateway[t] \in GatewayTask /\ assigned \in 0..MaxAssignments
  BY OpenaiWorkerAssumption, WorkerTypes DEF LeaseExpires
<1>2. connected
  BY <1>1 DEF Ordered, NothingWithoutConnection
<1>3. CASE gateway[t].attempts >= MaxAttempts
  <2> DEFINE z == [gateway[t] EXCEPT !.state = "failed", !.current = None]
  <2>1. /\ gateway' = [gateway EXCEPT ![t] = z] /\ UNCHANGED <<assigned, toWorker>>
    BY <1>3 DEF LeaseExpires
  <2>2. /\ z \in GatewayTask /\ z.state = "failed" /\ z.current = None
        /\ z.isContinuation = gateway[t].isContinuation /\ z.received = gateway[t].received
    BY <1>1 DEF GatewayTask
  <2> HIDE DEF z
  <2>3. /\ gateway' \in [Task -> GatewayTask] /\ gateway'[t] = z
        /\ \A u \in Task \ {t} : gateway'[u] = gateway[u]
    BY <2>1, <2>2, TaskChanged
  <2>4. Settling
    BY <1>1, <2>1, <2>2, <2>3 DEF Settling, ReadsOrNot
  <2>5. WorkerTypeOK'
    BY <1>1, <2>1, <2>3, <2>4, GatewayTyped DEF ReadsOrNot
  <2> QED
    BY <1>1, <2>4, <2>5 DEF GatewayStep
<1>4. CASE ~(gateway[t].attempts >= MaxAttempts)
  <2> DEFINE n == gateway[t].attempts
             c == gateway[t].isContinuation
  <2>1. n \in Nat /\ n < MaxAttempts /\ c \in BOOLEAN
    BY <1>1, <1>4, OpenaiWorkerAssumption DEF GatewayTask
  <2>2. AssignNext(t, n, c)
    BY <1>4 DEF LeaseExpires
  <2>3. /\ Sending(t, c) /\ gateway' \in [Task -> GatewayTask] /\ assigned' \in 0..MaxAssignments
    BY <1>1, <1>2, <2>1, <2>2, AssignNextSends
  <2>4. WorkerTypeOK'
    BY <1>1, <2>1, <2>3, GatewayTyped DEF ReadsOrNot
  <2> QED
    BY <1>1, <2>1, <2>3, <2>4 DEF GatewayStep
<1> QED
  BY <1>3, <1>4

(* a cancellation of the consumer too, *)
LEMMA CancelIsStep ==
  ASSUME WorkerTypeOK, Ordered, NEW t \in Task, ConsumerCancels(t)
  PROVE  GatewayStep
<1> DEFINE z == [gateway[t] EXCEPT !.state = "cancelled", !.current = None]
           a == gateway[t].current
<1>1. /\ UNCHANGED <<memory, workerVars, toGateway, assigned, expiries, beats>>
      /\ expiries \in 0..MaxExpiries /\ assigned \in 0..MaxAssignments
      /\ gateway' = [gateway EXCEPT ![t] = z] /\ gateway[t] \in GatewayTask
  BY WorkerTypes DEF ConsumerCancels
<1>2. /\ z \in GatewayTask /\ z.state = "cancelled" /\ z.current = None
      /\ z.isContinuation = gateway[t].isContinuation /\ z.received = gateway[t].received
  BY <1>1 DEF GatewayTask
<1> HIDE DEF z
<1>3. /\ gateway' \in [Task -> GatewayTask] /\ gateway'[t] = z
      /\ \A u \in Task \ {t} : gateway'[u] = gateway[u]
  BY <1>1, <1>2, TaskChanged
<1>4. \A u \in Task : /\ gateway'[u].current \in {gateway[u].current, None}
                      /\ gateway'[u].isContinuation = gateway[u].isContinuation
                      /\ gateway'[u].received = gateway[u].received
                      /\ gateway'[u].state = "queued" => gateway[u].state = "queued"
  BY <1>2, <1>3
<1>5. Settling
  <2>1. CASE a = None
    BY <1>1, <1>4, <2>1 DEF Settling, ReadsOrNot, ConsumerCancels
  <2>2. CASE a # None
    <3>1. a \in Assignment /\ connected /\ toWorker' = Append(toWorker, CancelFrame(a, t))
      BY <2>2, FramesTyped DEF Ordered, NothingWithoutConnection, ConsumerCancels
    <3>2. /\ a \leq assigned /\ (Begun(a) => run[a].task = t)
          /\ \A i \in DOMAIN toWorker : IsAssign(i) /\ toWorker[i].of = a => toWorker[i].task = t
      BY <2>2 DEF Ordered, OneTaskEach
    <3>3. \A u \in Task \ {t} : gateway[u].current # a
      BY <2>2 DEF Ordered, CurrentsDiffer
    <3>4. \A u \in Task : gateway'[u].current # a
      BY <1>2, <1>3, <2>2, <3>3
    <3> HIDE DEF a
    <3> QED
      BY <1>1, <1>4, <3>1, <3>2, <3>4 DEF Settling, ReadsOrNot
  <2> QED
    BY <2>1, <2>2
<1>6. WorkerTypeOK'
  BY <1>1, <1>3, <1>5, GatewayTyped DEF ReadsOrNot
<1> QED
  BY <1>1, <1>5, <1>6 DEF GatewayStep

\* A heartbeat, an acceptance or a failure that is read.
LEMMA OtherReadsAreSteps ==
  ASSUME WorkerTypeOK, Ordered, toGateway # <<>>, toGateway' = Tail(toGateway),
         UNCHANGED <<memory, workerVars>>, NEW f, f = Head(toGateway),
         ReadHeartbeat(f) \/ ReadAccepted(f) \/ ReadFailed(f)
  PROVE  GatewayStep
<1>1. /\ f = toGateway[1] /\ 1 \in DOMAIN toGateway
  BY SeqTail, WorkerTypes
<1>2. /\ f.of \in Assignment /\ f.task \in Task /\ Begun(f.of) /\ run[f.of].task = f.task
  BY <1>1, FramesTyped DEF Ordered, ReportsAreOfRuns
<1>3. /\ gateway \in [Task -> GatewayTask] /\ expiries \in 0..MaxExpiries /\ assigned \in 0..MaxAssignments
      /\ gateway[f.task] \in GatewayTask
  BY <1>2, WorkerTypes
<1>4. ReadsOrNot
  BY DEF ReadsOrNot
<1>5. connected
  BY DEF Ordered, NothingWithoutConnection
<1>6. CASE ReadHeartbeat(f)
  <2>1. UNCHANGED <<gateway, assigned, expiries, beats>>
    BY <1>6 DEF ReadHeartbeat, gatewayVars
  <2>2. Settling
    <3>1. CASE gateway[f.task].current = f.of
      BY <1>4, <1>6, <2>1, <3>1 DEF Settling, ReadHeartbeat
    <3>2. CASE gateway[f.task].current # f.of
      <4> DEFINE a == f.of
                 u == f.task
      <4>1. toWorker' = Append(toWorker, CancelFrame(a, u))
        BY <1>6, <3>2 DEF ReadHeartbeat
      <4>2. /\ a \leq assigned /\ \A t \in Task : gateway[t].current # a
        <5>1. ASSUME NEW t \in Task, gateway[t].current = a
              PROVE  FALSE
          <6>1. gateway[t].current # None
            BY <1>2, <5>1 DEF None, Assignment
          <6>2. run[a].task = t
            BY <1>2, <5>1, <6>1 DEF Ordered, OneTaskEach
          <6> QED
            BY <1>2, <3>2, <5>1, <6>2
        <5> QED
          BY <1>2, <5>1 DEF Ordered, AssignedInOrder
      <4>3. \A i \in DOMAIN toWorker : ~(IsAssign(i) /\ toWorker[i].of = a)
        <5>1. \A i \in DOMAIN toWorker : IsAssign(i) => a < toWorker[i].of
          BY <1>2 DEF Ordered, AssignedInOrder
        <5> QED
          BY <1>2, <5>1, FramesTyped DEF Assignment
      <4> HIDE DEF a, u
      <4>4. a \in Assignment /\ u \in Task /\ (Begun(a) => run[a].task = u)
        BY <1>2 DEF a, u
      <4> QED
        BY <1>4, <1>5, <2>1, <4>1, <4>2, <4>3, <4>4 DEF Settling
    <3> QED
      BY <3>1, <3>2
  <2>3. WorkerTypeOK'
    BY <1>3, <1>4, <2>1, <2>2, GatewayTyped
  <2> QED
    BY <2>2, <2>3 DEF GatewayStep
<1>7. CASE ReadAccepted(f) \/ ReadFailed(f)
  <2> DEFINE t == f.task
             y == [gateway[t] EXCEPT !.state = "running"]
             z == [gateway[t] EXCEPT !.state = "failed", !.current = None]
  <2>1. /\ UNCHANGED <<toWorker, assigned, expiries, beats>>
        /\ gateway' = gateway \/ gateway' = [gateway EXCEPT ![t] = y] \/ gateway' = [gateway EXCEPT ![t] = z]
    BY <1>7, ZenonT(40) DEF ReadAccepted, ReadFailed
  <2>2. /\ y \in GatewayTask /\ y.current = gateway[t].current /\ y.state = "running"
        /\ y.isContinuation = gateway[t].isContinuation /\ y.received = gateway[t].received
    BY <1>3 DEF GatewayTask
  <2>3. /\ z \in GatewayTask /\ z.current = None /\ z.state = "failed"
        /\ z.isContinuation = gateway[t].isContinuation /\ z.received = gateway[t].received
    BY <1>3 DEF GatewayTask
  <2> HIDE DEF y, z
  <2>4. ASSUME NEW x \in {y, z}, gateway' = [gateway EXCEPT ![t] = x]
        PROVE  /\ gateway' \in [Task -> GatewayTask] /\ gateway'[t] = x
               /\ \A u \in Task \ {t} : gateway'[u] = gateway[u]
    BY <1>2, <2>2, <2>3, <2>4, TaskChanged
  <2>5. /\ gateway' \in [Task -> GatewayTask]
        /\ \A u \in Task : /\ gateway'[u].current \in {gateway[u].current, None}
                           /\ gateway'[u].isContinuation = gateway[u].isContinuation
                           /\ gateway'[u].received = gateway[u].received
                           /\ gateway'[u].state = "queued" => gateway[u].state = "queued"
    <3>1. CASE gateway' = gateway
      BY <1>3, <3>1
    <3>2. ASSUME NEW x \in {y, z}, gateway' = [gateway EXCEPT ![t] = x]
          PROVE  /\ gateway' \in [Task -> GatewayTask]
                 /\ \A u \in Task : /\ gateway'[u].current \in {gateway[u].current, None}
                                    /\ gateway'[u].isContinuation = gateway[u].isContinuation
                                    /\ gateway'[u].received = gateway[u].received
                                    /\ gateway'[u].state = "queued" => gateway[u].state = "queued"
      BY <2>2, <2>3, <2>4, <3>2
    <3> QED
      BY <2>1, <3>1, <3>2
  <2>6. Settling
    BY <1>4, <2>1, <2>5 DEF Settling
  <2>7. WorkerTypeOK'
    BY <1>3, <1>4, <2>1, <2>5, <2>6, GatewayTyped
  <2> QED
    BY <2>6, <2>7 DEF GatewayStep
<1> QED
  BY <1>6, <1>7

\* A result that is read: it is refused, finishes the task, or is one more piece.
Refused(f) ==
  /\ gateway[f.task].current # f.of
  /\ gateway' = [gateway EXCEPT ![f.task].refused = @ \/ f.newText # <<>>]
  /\ UNCHANGED <<toWorker, assigned, expiries, beats>>

Finishes(f) ==
  /\ gateway[f.task].current = f.of /\ f.done
  /\ gateway' = [gateway EXCEPT ![f.task].state = "completed", ![f.task].current = None,
                                ![f.task].whole = f.whole]
  /\ UNCHANGED <<toWorker, assigned, expiries, beats>>

Accepted(f) ==
  /\ gateway[f.task].current = f.of /\ assigned < MaxAssignments /\ assigned' = assigned + 1
  /\ gateway' = [gateway EXCEPT ![f.task].state = "assigned", ![f.task].current = assigned + 1,
                                ![f.task].attempts = 1, ![f.task].isContinuation = TRUE,
                                ![f.task].received = @ \o f.newText]
  /\ toWorker' = Append(toWorker, [type |-> "stage.assign", of |-> assigned + 1,
                                   task |-> f.task, isContinuation |-> TRUE])
  /\ UNCHANGED <<expiries, beats>>

(* and a result, refused, final or accepted; it concerns the task it names and counts what it refuses. *)
LEMMA ResultIsStep ==
  ASSUME WorkerTypeOK, Ordered, toGateway # <<>>, toGateway' = Tail(toGateway),
         UNCHANGED <<memory, workerVars>>, NEW f, f = Head(toGateway), Refused(f) \/ Finishes(f) \/ Accepted(f)
  PROVE  /\ GatewayStep /\ f.task \in Task
         /\ \A u \in Task \ {f.task} : gateway'[u] = gateway[u]
         /\ Refused(f) => gateway'[f.task].refused = (gateway[f.task].refused \/ f.newText # <<>>)
         /\ ~Refused(f) => gateway'[f.task].refused = gateway[f.task].refused
         /\ Accepted(f) => gateway'[f.task].received = gateway[f.task].received \o f.newText
<1> DEFINE t == f.task
           u == gateway[t]
<1>1. f = toGateway[1] /\ 1 \in DOMAIN toGateway
  BY SeqTail, WorkerTypes
<1>2. /\ f.of \in Assignment /\ t \in Task /\ Begun(f.of) /\ run[f.of].task = t /\ f \in WorkerFrame
  BY <1>1, FramesTyped DEF Ordered, ReportsAreOfRuns
<1>3. /\ gateway \in [Task -> GatewayTask] /\ expiries \in 0..MaxExpiries /\ assigned \in 0..MaxAssignments
      /\ u \in GatewayTask
  BY <1>2, WorkerTypes
<1>4. ReadsOrNot /\ connected
  BY DEF ReadsOrNot, Ordered, NothingWithoutConnection
<1>5. ASSUME NEW z \in GatewayTask, gateway' = [gateway EXCEPT ![t] = z]
      PROVE  /\ gateway' \in [Task -> GatewayTask] /\ gateway'[t] = z
             /\ \A v \in Task \ {t} : gateway'[v] = gateway[v]
  BY <1>2, <1>5, TaskChanged
<1>6. /\ Refused(f) => ~Accepted(f) /\ ~Finishes(f)
  BY DEF Refused, Accepted, Finishes
<1>9. Accepted(f) => /\ assigned' = assigned + 1 /\ assigned < MaxAssignments
                     /\ gateway[f.task].current = f.of
  BY DEF Accepted
<1>10. assigned \in Nat /\ MaxAssignments \in Nat /\ MaxAttempts \in Nat \ {0}
  BY <1>3, HeldAnswersAssumption, OpenaiWorkerAssumption
<1>7. CASE Refused(f) \/ Finishes(f)
  <2> DEFINE y == [u EXCEPT !.refused = @ \/ f.newText # <<>>]
             z == [u EXCEPT !.state = "completed", !.current = None, !.whole = f.whole]
             x == IF Refused(f) THEN y ELSE z
  <2>1. /\ UNCHANGED <<toWorker, assigned, expiries, beats>> /\ gateway' = [gateway EXCEPT ![t] = x]
    BY <1>6, <1>7 DEF Refused, Finishes
  <2>2. /\ y \in GatewayTask /\ y.current = u.current /\ y.state = u.state
        /\ y.isContinuation = u.isContinuation /\ y.received = u.received
        /\ y.refused = (u.refused \/ f.newText # <<>>)
    BY <1>3 DEF GatewayTask
  <2>3. /\ z \in GatewayTask /\ z.current = None /\ z.state = "completed"
        /\ z.isContinuation = u.isContinuation /\ z.received = u.received /\ z.refused = u.refused
    <3>1. f.whole \in 0..LastPiece
      BY <1>2 DEF WorkerFrame
    <3> QED
      BY <1>3, <3>1 DEF GatewayTask
  <2>4. x \in GatewayTask /\ (x = y \/ x = z) /\ (Refused(f) => x = y) /\ (~Refused(f) => x = z)
    BY <2>2, <2>3
  <2> HIDE DEF y, z, x
  <2>5. /\ gateway' \in [Task -> GatewayTask] /\ gateway'[t] = x
        /\ \A v \in Task \ {t} : gateway'[v] = gateway[v]
    BY <1>5, <2>1, <2>4
  <2>6. Settling
    BY <1>4, <2>1, <2>2, <2>3, <2>4, <2>5 DEF Settling
  <2>7. WorkerTypeOK'
    BY <1>3, <1>4, <2>1, <2>5, <2>6, GatewayTyped
  <2>8. Accepted(f) => FALSE
    BY <1>9, <1>10, <2>1
  <2> QED
    BY <1>2, <2>2, <2>3, <2>4, <2>5, <2>6, <2>7, <2>8 DEF GatewayStep
<1>8. CASE Accepted(f)
  <2> DEFINE a == assigned + 1
             z == [u EXCEPT !.state = "assigned", !.current = a, !.attempts = 1,
                            !.isContinuation = TRUE, !.received = @ \o f.newText]
  <2>1. /\ a \in Assignment /\ assigned' = a /\ a \in 0..MaxAssignments /\ 1 \in 0..MaxAttempts
        /\ assigned < MaxAssignments
    BY <1>8, <1>9, <1>10 DEF Assignment
  <2>2. u.received \o f.newText \in Seq(1..LastPiece)
    <3>1. u.received \in Seq(1..LastPiece) /\ f.newText \in Seq(1..LastPiece)
      BY <1>2, <1>3 DEF GatewayTask, WorkerFrame
    <3> HIDE DEF u
    <3> QED
      BY <3>1, ConcatProperties
  <2>3. gateway' = [gateway EXCEPT ![t] = z]
    BY <1>8 DEF Accepted
  <2>4. toWorker' = Append(toWorker, [type |-> "stage.assign", of |-> a, task |-> t, isContinuation |-> TRUE])
    BY <1>8 DEF Accepted
  <2> HIDE DEF a
  <2>5. /\ z \in GatewayTask /\ z.current = a /\ z.state = "assigned"
        /\ z.isContinuation = TRUE /\ z.received = u.received \o f.newText /\ z.refused = u.refused
    BY <1>3, <2>1, <2>2 DEF GatewayTask
  <2> HIDE DEF z
  <2>6. /\ gateway' \in [Task -> GatewayTask] /\ gateway'[t] = z
        /\ \A v \in Task \ {t} : gateway'[v] = gateway[v]
    BY <1>5, <2>3, <2>5
  <2>7. \A i \in DOMAIN toWorker : ~(IsAssign(i) /\ toWorker[i].task = t)
    <3>1. u.current = f.of /\ f.of # None
      BY <1>2, <1>8, <1>9 DEF None, Assignment
    <3>2. \A i \in DOMAIN toWorker : IsAssign(i) => f.of < toWorker[i].of
      BY <1>2 DEF Ordered, AssignedInOrder
    <3>3. \A i \in DOMAIN toWorker : IsAssign(i) /\ toWorker[i].task = t => toWorker[i].of \leq f.of
      BY <1>2, <3>1 DEF Ordered, OneTaskEach
    <3> QED
      BY <1>2, <3>2, <3>3, FramesTyped DEF Assignment
  <2>8. Sending(t, TRUE)
    BY <1>4, <1>8, <2>1, <2>4, <2>5, <2>6, <2>7 DEF Sending, Accepted, a
  <2>9. /\ assigned' \in 0..MaxAssignments /\ expiries' \in 0..MaxExpiries
    BY <1>3, <1>8, <2>1 DEF Accepted
  <2>10. WorkerTypeOK'
    BY <1>2, <1>4, <2>6, <2>8, <2>9, GatewayTyped
  <2> QED
    BY <1>2, <1>6, <1>8, <2>5, <2>6, <2>8, <2>10 DEF GatewayStep
<1> QED
  BY <1>7, <1>8

-----------------------------------------------------------------------------
(* WireInv is kept by every step *)

(* The three parts of the wire's invariant. *)
LEMMA WireParts ==
  WireInv <=> WorkerTypeOK /\ Ordered /\ LeaseExtendedWhileRunning
BY DEF WireInv, Ordered

\* The gateway's steps leave the runs alone.
LEMMA WireByGateway ==
  ASSUME WireInv, GatewayStep
  PROVE  WireInv'
<1>1. Ordered /\ WorkerTypeOK /\ WorkerTypeOK' /\ UNCHANGED <<connected, run, cancelled, heartbeats>>
  BY WireParts DEF GatewayStep, workerVars
<1>2. CASE Settling
  <2>1. Ordered'
    BY <1>1, <1>2, OrderedBySettling DEF Settling
  <2> QED
    BY <1>1, <2>1 DEF WireInv, Ordered, LeaseExtendedWhileRunning, Active
<1>3. ASSUME NEW t \in Task, NEW c \in BOOLEAN, Sending(t, c)
      PROVE  WireInv'
  <2>1. Ordered'
    BY <1>1, <1>3, OrderedBySending DEF Sending
  <2> QED
    BY <1>1, <2>1 DEF WireInv, Ordered, LeaseExtendedWhileRunning, Active
<1> QED
  BY <1>2, <1>3 DEF GatewayStep

(* Whatever frame the gateway reads, it makes such a step. *)
LEMMA GatewayReadsIsStep ==
  ASSUME WireInv, GatewayReads
  PROVE  GatewayStep
<1> DEFINE f == Head(toGateway)
<1>1. /\ WorkerTypeOK /\ Ordered /\ toGateway # <<>> /\ toGateway' = Tail(toGateway)
      /\ UNCHANGED <<memory, workerVars>>
  BY WireParts DEF GatewayReads
<1>2. \/ ReadHeartbeat(f) \/ ReadAccepted(f) \/ ReadFailed(f)
      \/ ReadResult(f)
  BY DEF GatewayReads
<1> HIDE DEF f
<1>3. ReadResult(f) => Refused(f) \/ Finishes(f) \/ Accepted(f)
  BY DEF ReadResult, Refused, Finishes, Accepted
<1>4. CASE ReadHeartbeat(f) \/ ReadAccepted(f) \/ ReadFailed(f)
  BY <1>1, <1>4, OtherReadsAreSteps DEF f
<1>5. CASE Refused(f) \/ Finishes(f) \/ Accepted(f)
  BY <1>1, <1>5, ResultIsStep DEF f
<1> QED
  BY <1>2, <1>3, <1>4, <1>5

\* A run that goes on, or ends.
LEMMA WireByRun ==
  ASSUME WireInv, AnswersInv, NEW a \in Assignment, RunStep(a)
  PROVE  WireInv'
<1>1. WorkerTypeOK /\ Ordered /\ LeaseExtendedWhileRunning
  BY WireParts
<1>2. a \in Active /\ (GoesOn(a) \/ GivesUp(a) \/ ReportsPieces(a))
  BY <1>1, RunStepKinds
<1>3. /\ run \in [Assignment -> RunRecord] /\ memory \in Memory
      /\ toGateway \in Seq(WorkerFrame) /\ run[a] \in RunRecord
      /\ run[a].phase \in {"starting", "reading"}
  BY <1>1, <1>2, WorkerTypes DEF Active
<1>4. CASE GoesOn(a)
  <2>1. /\ run' \in [Assignment -> RunRecord] /\ run'[a].phase = "reading" /\ run'[a].task = run[a].task
        /\ \A b \in Assignment \ {a} : run'[b] = run[b]
    <3>1. [run[a] EXCEPT !.phase = "reading"] \in RunRecord
      BY <1>3 DEF RunRecord
    <3> QED
      BY <1>3, <1>4, <3>1 DEF GoesOn, RunRecord
  <2>2. /\ memory' \in Memory
        /\ UNCHANGED <<connected, cancelled, heartbeats, toWorker, toGateway, gateway, assigned, expiries, beats>>
    BY <1>4 DEF GoesOn, ReadsOn, gatewayVars
  <2>3. WorkerTypeOK'
    BY <1>1, <2>1, <2>2 DEF WorkerTypeOK, HeldAnswersTypeOK, Memory, AnswerRecord, RunRecord
  <2>4. Ordered'
    BY <1>1, <1>3, <2>1, <2>2, OrderedByRuns
  <2>5. \A b \in Assignment : b \in Active' <=> b \in Active
    BY <1>2, <2>1 DEF Active
  <2>6. Active' = Active
    BY <2>5 DEF Active
  <2> QED
    BY <1>1, <2>2, <2>3, <2>4, <2>6 DEF WireInv, Ordered, LeaseExtendedWhileRunning
<1>5. ASSUME NEW m \in Memory, NEW f \in WorkerFrame, EndRun(a, m, f),
             f.type \in {"stage.result", "stage.failed"}, f.of = a, f.task = run[a].task,
             f.newText # <<>> => f.type = "stage.result" /\ ~f.done
      PROVE  WireInv'
  <2>1. /\ run' \in [Assignment -> RunRecord] /\ run'[a].phase = "ended" /\ run'[a].task = run[a].task
        /\ \A b \in Assignment \ {a} : run'[b] = run[b]
    <3> DEFINE z == [run[a] EXCEPT !.phase = "ended", !.answer = None]
    <3>1. z \in RunRecord /\ z.phase = "ended" /\ z.task = run[a].task
      BY <1>3 DEF RunRecord
    <3>2. run' = [run EXCEPT ![a] = z]
      BY <1>5 DEF EndRun
    <3> HIDE DEF z
    <3> QED
      BY <1>3, <3>1, <3>2
  <2>2. /\ memory' = m /\ heartbeats' = heartbeats \ {a} /\ cancelled' = cancelled \ {a}
        /\ UNCHANGED <<connected, toWorker, gateway, assigned, expiries, beats>>
        /\ toGateway' = toGateway \/ (connected /\ toGateway' = Append(toGateway, f))
    BY <1>1, <1>5 DEF EndRun, gatewayVars, WorkerTypeOK
  <2>3. Truthful(f)
    BY <1>5, <2>1 DEF Truthful
  <2>4. Ordered'
    BY <1>1, <1>3, <2>1, <2>2, <2>3, OrderedByRuns
  <2>5. WorkerTypeOK'
    <3>1. toGateway' \in Seq(WorkerFrame)
      BY <1>3, <2>2, SeqAppended
    <3> QED
      BY <1>1, <1>5, <2>1, <2>2, <3>1 DEF WorkerTypeOK, HeldAnswersTypeOK, Memory, AnswerRecord, RunRecord, WorkerFrame
  <2>6. \A b \in Assignment : b \in Active' <=> b \in Active \ {a}
    BY <1>2, <2>1 DEF Active
  <2>7. Active' = Active \ {a}
    BY <2>6 DEF Active
  <2> QED
    BY <1>1, <2>2, <2>4, <2>5, <2>7 DEF WireInv, Ordered, LeaseExtendedWhileRunning
<1>6. CASE GivesUp(a)
  <2>1. PICK m \in Memory, f \in WorkerFrame :
          /\ EndRun(a, ClearGeneration(m, run[a].task, a), f)
          /\ f.type \in {"stage.result", "stage.failed"} /\ f.of = a /\ f.task = run[a].task
          /\ f.newText = <<>>
    BY <1>6 DEF GivesUp
  <2>2. ClearGeneration(m, run[a].task, a) \in Memory
    BY <1>3, ClearsIt DEF RunRecord
  <2> QED
    BY <1>5, <2>1, <2>2
<1>7. CASE ReportsPieces(a)
  <2>1. PICK m \in Memory, f \in WorkerFrame :
          /\ EndRun(a, PieceReported(m, run[a].answer), f)
          /\ f.type = "stage.result" /\ f.of = a /\ f.task = run[a].task /\ ~f.done
    BY <1>7 DEF ReportsPieces
  <2>2. run[a].answer \in Assignment
    BY <1>2, <1>3 DEF AnswersInv, AnswersOfTasks, RunRecord
  <2>3. PieceReported(m, run[a].answer) \in Memory
    BY <2>2, ReportsIt
  <2> QED
    BY <1>5, <2>1, <2>3
<1> QED
  BY <1>2, <1>4, <1>6, <1>7

\* A heartbeat, and a timer.
LEMMA WireByTimers ==
  ASSUME WireInv, NEW a \in Assignment, Heartbeat(a) \/ IdleTimeout(a)
  PROVE  WireInv'
<1>1. WorkerTypeOK /\ Ordered /\ LeaseExtendedWhileRunning /\ toGateway \in Seq(WorkerFrame)
      /\ run \in [Assignment -> RunRecord]
  BY WireParts, WorkerTypes
<1>2. CASE Heartbeat(a)
  <2> DEFINE f == Report(a, "stage.heartbeat", <<>>, FALSE, 0)
  <2>1. connected /\ a \in Active
    BY <1>1, <1>2 DEF Heartbeat, LeaseExtendedWhileRunning
  <2>2. /\ f \in WorkerFrame /\ f.of = a /\ f.task = run[a].task /\ f.type = "stage.heartbeat"
        /\ f.newText = <<>>
    <3>1. <<>> \in Seq(1..LastPiece) /\ 0 \in 0..LastPiece /\ run[a].task \in Task
      BY <1>1, HeldAnswersAssumption DEF RunRecord
    <3> QED
      BY <3>1 DEF Report, WorkerFrame
  <2>3. /\ UNCHANGED <<memory, connected, run, cancelled, heartbeats, toWorker, gateway, assigned, expiries>>
        /\ toGateway' = Append(toGateway, f) /\ beats' = beats + 1 /\ beats < MaxHeartbeats
    BY <1>2 DEF Heartbeat, workerVars
  <2> HIDE DEF f
  <2>4. Truthful(f)
    BY <2>1, <2>2, <2>3 DEF Truthful, Active
  <2>5. Ordered'
    BY <1>1, <2>1, <2>2, <2>3, <2>4, OrderedByRuns
  <2>6. toGateway' \in Seq(WorkerFrame) /\ beats' \in 0..MaxHeartbeats
    BY <1>1, <2>2, <2>3, SeqAppended, OpenaiWorkerAssumption, WorkerTypes
  <2>7. WorkerTypeOK'
    BY <1>1, <2>3, <2>6 DEF WorkerTypeOK, HeldAnswersTypeOK, WorkerFrame
  <2> QED
    BY <1>1, <2>3, <2>5, <2>7 DEF WireInv, Ordered, LeaseExtendedWhileRunning, Active
<1>3. CASE IdleTimeout(a)
  <2>1. /\ UNCHANGED <<connected, run, cancelled, heartbeats, toWorker, toGateway, gateway, assigned, expiries, beats>>
        /\ IdleTimerFires(a)
    BY <1>3 DEF IdleTimeout, workerVars, gatewayVars
  <2>2. memory' \in Memory
    BY <1>1, <2>1, TimerFires, WorkerTypes
  <2>3. Ordered'
    BY <1>1, <2>1, OrderedByRuns
  <2>4. WorkerTypeOK'
    BY <1>1, <2>1, <2>2 DEF WorkerTypeOK, HeldAnswersTypeOK, Memory, AnswerRecord
  <2> QED
    BY <1>1, <2>1, <2>3, <2>4 DEF WireInv, Ordered, LeaseExtendedWhileRunning, Active
<1> QED
  BY <1>2, <1>3

\* A frame sent while a stage.assign is handled.
LEMMA FramesOfStart ==
  ASSUME WorkerTypeOK, NEW f \in GatewayFrame, NEW done \in BOOLEAN, NEW whole \in 0..LastPiece,
         NEW type \in {"stage.accepted", "stage.result", "stage.failed"},
         NEW phase \in {"starting", "reading", "ended"}, NEW g \in Assignment \cup {None},
         type # "stage.accepted" => phase = "ended", run' = Started(f, phase, g)
  PROVE  /\ Truthful(RunFrame(type, f, done, whole))
         /\ RunFrame(type, f, done, whole) \in WorkerFrame
         /\ RunFrame(type, f, done, whole).newText = <<>> /\ RunFrame(type, f, done, whole).of = f.of
         /\ run' \in [Assignment -> RunRecord] /\ run'[f.of].phase = phase
         /\ run'[f.of].task = f.task /\ run'[f.of].answer = g
         /\ \A a \in Assignment \ {f.of} : run'[a] = run[a]
<1> DEFINE e == RunFrame(type, f, done, whole)
           z == [phase |-> phase, task |-> f.task, answer |-> g]
<1>1. run \in [Assignment -> RunRecord] /\ f.of \in Assignment /\ f.task \in Task
  BY WorkerTypes DEF GatewayFrame
<1>2. <<>> \in Seq(1..LastPiece)
  OBVIOUS
<1>3. /\ e \in WorkerFrame /\ e.type = type /\ e.of = f.of /\ e.task = f.task /\ e.newText = <<>>
  BY <1>1, <1>2 DEF RunFrame, WorkerFrame
<1>4. z \in RunRecord /\ z.phase = phase /\ z.task = f.task /\ z.answer = g
  BY <1>1 DEF RunRecord
<1>5. run' = [run EXCEPT ![f.of] = z]
  BY DEF Started
<1> HIDE DEF z, e
<1>6. /\ run' \in [Assignment -> RunRecord] /\ run'[f.of] = z
      /\ \A a \in Assignment \ {f.of} : run'[a] = run[a]
  BY <1>1, <1>4, <1>5
<1>7. Truthful(e)
  BY <1>3, <1>4, <1>6 DEF Truthful
<1> QED
  BY <1>3, <1>4, <1>6, <1>7 DEF e

\* The message a worker reads first.
LEMMA FirstMessage ==
  ASSUME WireInv, AnswersInv, toWorker # <<>>
  PROVE  LET f == Head(toWorker) IN
         /\ f \in GatewayFrame /\ f.of \in Assignment /\ f.task \in Task /\ connected
         /\ f = toWorker[1] /\ 1 \in DOMAIN toWorker
         /\ f.type = "stage.assign" => /\ ~Begun(f.of) /\ f.of \notin Active
                                       /\ ~memory.answer[f.of].exists
                                       /\ \A t \in Task : memory.held[t] # f.of
<1> DEFINE f == Head(toWorker)
<1>1. WorkerTypeOK /\ Ordered
  BY WireParts
<1>2. /\ f \in GatewayFrame /\ f.of \in Assignment /\ f.task \in Task
      /\ f = toWorker[1] /\ 1 \in DOMAIN toWorker
  BY <1>1, SeqTail, FramesTyped, WorkerTypes
<1>3. connected
  BY <1>1 DEF Ordered, NothingWithoutConnection
<1>4. ASSUME f.type = "stage.assign"
      PROVE  ~Begun(f.of) /\ f.of \notin Active /\ ~memory.answer[f.of].exists
             /\ \A t \in Task : memory.held[t] # f.of
  <2>1. Begun(f.of) => f.of < f.of
    BY <1>1, <1>2, <1>4 DEF Ordered, AssignedInOrder, IsAssign
  <2>2. ~Begun(f.of)
    BY <1>2, <2>1 DEF Assignment
  <2>3. f.of # None
    BY <1>2 DEF None, Assignment
  <2> QED
    BY <1>2, <2>2, <2>3 DEF AnswersInv, AnswersOfTasks, Active, Begun
<1> QED
  BY <1>2, <1>3, <1>4

(* The worker handling stage.assign keeps the wire's invariant, *)
LEMMA WireByAssign ==
  ASSUME WireInv, AnswersInv, HandleMessage, Head(toWorker).type = "stage.assign"
  PROVE  WireInv'
<1> DEFINE f == Head(toWorker)
<1>1. WorkerTypeOK /\ Ordered /\ LeaseExtendedWhileRunning /\ toWorker # <<>> /\ toWorker' = Tail(toWorker)
      /\ toWorker \in Seq(GatewayFrame) /\ toGateway \in Seq(WorkerFrame) /\ memory \in Memory
      /\ UNCHANGED <<connected, gateway, assigned, expiries, beats>>
      /\ UNCHANGED cancelled /\ (StartAnswer(f) \/ CarryOn(f) \/ CarryOnAtLimit(f) \/ CarryOnNothing(f))
  BY WireParts, WorkerTypes DEF HandleMessage, StartRun, gatewayVars
<1>2. /\ f \in GatewayFrame /\ f.of \in Assignment /\ f.task \in Task /\ connected /\ f.type = "stage.assign"
      /\ ~Begun(f.of) /\ f.of \notin Active /\ \A t \in Task : memory.held[t] # f.of
  BY <1>1, FirstMessage
<1>3. f.of \notin cancelled /\ heartbeats = Active \ cancelled /\ cancelled \subseteq Active
  BY <1>1, <1>2 DEF LeaseExtendedWhileRunning
<1> DEFINE accepted == RunFrame("stage.accepted", f, FALSE, 0)
<1>4. ASSUME NEW phase \in {"starting", "reading", "ended"}, NEW g \in Assignment \cup {None},
             run' = Started(f, phase, g), memory' \in Memory,
             \/ /\ phase # "ended" /\ heartbeats' = heartbeats \cup {f.of}
                /\ toGateway' = Append(toGateway, accepted)
             \/ /\ phase = "ended" /\ heartbeats' = heartbeats
                /\ \E d \in WorkerFrame : Truthful(d) /\ toGateway' = toGateway \o <<accepted, d>>
      PROVE  WireInv'
  <2>1. 0 \in 0..LastPiece
    BY HeldAnswersAssumption
  <2>2. /\ Truthful(accepted) /\ accepted \in WorkerFrame
        /\ run' \in [Assignment -> RunRecord] /\ run'[f.of].phase = phase
        /\ \A a \in Assignment \ {f.of} : run'[a] = run[a]
    BY <1>1, <1>2, <1>4, <2>1, FramesOfStart, ZenonT(40)
  <2> HIDE DEF accepted
  <2>3. \/ \E e \in WorkerFrame : Truthful(e) /\ toGateway' = Append(toGateway, e)
        \/ \E e, d \in WorkerFrame : Truthful(e) /\ Truthful(d) /\ toGateway' = toGateway \o <<e, d>>
    BY <1>4, <2>2
  <2>4. Ordered'
    <3> HIDE DEF f
    <3>1. f = Head(toWorker) /\ f.type = "stage.assign"
      BY <1>2 DEF f
    <3> QED
      BY <1>1, <1>4, <2>3, <3>1, OrderedByAssign
  <2>5. toGateway' \in Seq(WorkerFrame) /\ toWorker' \in Seq(GatewayFrame)
    <3>1. \A e, d \in WorkerFrame : toGateway \o <<e, d>> \in Seq(WorkerFrame)
      <4> TAKE e, d \in WorkerFrame
      <4>1. <<e, d>> \in Seq(WorkerFrame)
        OBVIOUS
      <4> QED
        BY <1>1, <4>1, ConcatProperties
    <3>2. \A e \in WorkerFrame : Append(toGateway, e) \in Seq(WorkerFrame)
      BY <1>1
    <3>3. Tail(toWorker) \in Seq(GatewayFrame)
      BY <1>1, SeqTail
    <3> QED
      BY <1>1, <2>3, <3>1, <3>2, <3>3
  <2>6. heartbeats' \subseteq Assignment
    BY <1>1, <1>2, <1>4 DEF WorkerTypeOK
  <2>7. WorkerTypeOK'
    BY <1>1, <1>4, <2>2, <2>5, <2>6
    DEF WorkerTypeOK, HeldAnswersTypeOK, Memory, AnswerRecord, RunRecord, WorkerFrame, GatewayFrame
  <2>8. \A a \in Assignment : a \in Active' <=> a \in Active \/ (a = f.of /\ phase # "ended")
    BY <1>2, <1>4, <2>2 DEF Active
  <2>9. LeaseExtendedWhileRunning'
    <3>1. Active \subseteq Assignment /\ Active' \subseteq Assignment
      BY DEF Active
    <3>2. cancelled' = cancelled /\ connected' = connected
      BY <1>1
    <3>3. CASE phase = "ended"
      <4>1. Active' = Active /\ heartbeats' = heartbeats
        BY <1>4, <2>8, <3>1, <3>3
      <4> QED
        BY <1>2, <1>3, <3>2, <4>1 DEF LeaseExtendedWhileRunning
    <3>4. CASE phase # "ended"
      <4>1. Active' = Active \cup {f.of} /\ heartbeats' = heartbeats \cup {f.of}
        BY <1>2, <1>4, <2>8, <3>1, <3>4
      <4> HIDE DEF f
      <4> QED
        BY <1>2, <1>3, <3>2, <4>1 DEF LeaseExtendedWhileRunning
    <3> QED
      BY <3>3, <3>4
  <2> QED
    BY <2>4, <2>7, <2>9 DEF WireInv, Ordered
<1>5. CASE StartAnswer(f)
  <2>1. memory' \in Memory
    BY <1>1, <1>2, <1>5, StartsAnswer DEF StartAnswer
  <2> QED
    BY <1>2, <1>4, <1>5, <2>1 DEF StartAnswer
<1>6. ASSUME memory.held[f.task] # None
      PROVE  LET m == HeldGeneration(memory, f.task, f.of)
             IN m \in Memory /\ memory.held[f.task] \in Assignment
  BY <1>1, <1>2, <1>6, CarriesOn
<1>7. CASE CarryOn(f)
  <2> DEFINE m == HeldGeneration(memory, f.task, f.of)
             g == memory.held[f.task]
  <2>1. m \in Memory /\ g \in Assignment /\ memory' = BeginRead(m, g, f.of)
    BY <1>6, <1>7 DEF CarryOn
  <2>2. memory' \in Memory
    <3> HIDE DEF m, g
    <3>1. ReadsOn(m, m, g, f.of)
      BY <1>2, <2>1, ReadsNothing
    <3> QED
      BY <1>2, <2>1, <3>1, BeginReads DEF ReadsOn
  <2> QED
    BY <1>4, <1>7, <2>1, <2>2 DEF CarryOn
<1>8. CASE CarryOnAtLimit(f)
  <2> DEFINE m == HeldGeneration(memory, f.task, f.of)
             g == memory.held[f.task]
             w == m.answer[g].pieceCount
             d == RunFrame("stage.result", f, TRUE, w)
  <2>1. m \in Memory /\ g \in Assignment /\ memory' = ClearGeneration(m, f.task, f.of)
        /\ run' = Started(f, "ended", None) /\ heartbeats' = heartbeats
        /\ toGateway' = toGateway \o <<accepted, d>>
    BY <1>6, <1>8 DEF CarryOnAtLimit
  <2>2. memory' \in Memory
    BY <1>2, <2>1, ClearsIt
  <2>3. w \in 0..LastPiece
    <3>1. m.answer[g] \in AnswerRecord
      BY <2>1 DEF Memory
    <3> QED
      BY <3>1 DEF AnswerRecord
  <2> HIDE DEF w
  <2>4. Truthful(d) /\ d \in WorkerFrame
    BY <1>1, <1>2, <2>1, <2>3, FramesOfStart
  <2> HIDE DEF d, accepted
  <2> QED
    BY <1>4, <2>1, <2>2, <2>4
<1>9. CASE CarryOnNothing(f)
  <2> DEFINE d == RunFrame("stage.failed", f, FALSE, 0)
  <2>1. /\ run' = Started(f, "ended", None) /\ heartbeats' = heartbeats /\ memory' \in Memory
        /\ toGateway' = toGateway \o <<accepted, d>>
    BY <1>1, <1>9 DEF CarryOnNothing
  <2>2. 0 \in 0..LastPiece
    BY HeldAnswersAssumption
  <2>3. Truthful(d) /\ d \in WorkerFrame
    BY <1>1, <1>2, <2>1, <2>2, FramesOfStart
  <2> HIDE DEF d, accepted
  <2> QED
    BY <1>4, <2>1, <2>3
<1> QED
  BY <1>1, <1>5, <1>7, <1>8, <1>9

(* handling stage.cancel too, *)
LEMMA WireByCancel ==
  ASSUME WireInv, AnswersInv, HandleMessage, Head(toWorker).type # "stage.assign"
  PROVE  WireInv'
<1> DEFINE f == Head(toWorker)
<1>1. /\ WorkerTypeOK /\ Ordered /\ LeaseExtendedWhileRunning /\ toWorker # <<>> /\ toWorker' = Tail(toWorker)
      /\ toWorker \in Seq(GatewayFrame) /\ memory \in Memory
      /\ UNCHANGED <<connected, gateway, assigned, expiries, beats, run, toGateway>>
      /\ OnCancel(f)
  BY WireParts, WorkerTypes DEF HandleMessage, OnCancel, gatewayVars
<1>2. /\ f.of \in Assignment /\ f.task \in Task /\ connected
  BY <1>1, FirstMessage
<1> HIDE DEF f
<1>3. memory' \in Memory
  BY <1>1, <1>2, ClearsIt DEF OnCancel
<1>4. Ordered'
  BY <1>1, OrderedByCancel
<1>5. /\ heartbeats' = heartbeats \ {f.of} /\ cancelled' = cancelled \cup ({f.of} \cap Active)
      /\ Active' = Active
  BY <1>1 DEF OnCancel, Active
<1>6. toWorker' \in Seq(GatewayFrame)
  BY <1>1, SeqTail
<1>7. cancelled' \subseteq Assignment /\ heartbeats' \subseteq Assignment
  BY <1>1, <1>2, <1>5 DEF WorkerTypeOK
<1>8. WorkerTypeOK'
  BY <1>1, <1>3, <1>6, <1>7 DEF WorkerTypeOK, HeldAnswersTypeOK, Memory, AnswerRecord, GatewayFrame
<1>9. LeaseExtendedWhileRunning'
  BY <1>1, <1>2, <1>5 DEF LeaseExtendedWhileRunning
<1> QED
  BY <1>4, <1>8, <1>9 DEF WireInv, Ordered

(* and losing the connection too. *)
LEMMA WireByClose ==
  ASSUME WireInv, OnClose
  PROVE  WireInv'
<1>1. /\ WorkerTypeOK /\ Ordered /\ LeaseExtendedWhileRunning /\ memory \in Memory
      /\ gateway \in [Task -> GatewayTask]
  BY WireParts, WorkerTypes
<1>2. ASSUME NEW t \in Task
      PROVE  /\ gateway'[t] \in GatewayTask /\ gateway'[t].current = None
             /\ gateway'[t].isContinuation = gateway[t].isContinuation
             /\ gateway'[t].received = gateway[t].received
             /\ gateway'[t].refused = gateway[t].refused
             /\ gateway'[t].state = "queued" => gateway[t].state = "queued"
  <2> DEFINE z == [gateway[t] EXCEPT !.state = "elsewhere", !.current = None]
  <2>1. gateway'[t] = IF gateway[t].current = None THEN gateway[t] ELSE z
    BY DEF OnClose
  <2>2. gateway[t] \in GatewayTask
    BY <1>1
  <2>3. /\ z \in GatewayTask /\ z.current = None /\ z.isContinuation = gateway[t].isContinuation
        /\ z.received = gateway[t].received /\ z.refused = gateway[t].refused /\ z.state = "elsewhere"
    BY <2>2 DEF GatewayTask
  <2> HIDE DEF z
  <2> QED
    BY <2>1, <2>2, <2>3
<1>3. gateway' \in [Task -> GatewayTask]
  BY <1>2 DEF OnClose
<1>4. /\ UNCHANGED <<run, cancelled, assigned, expiries, beats>> /\ toWorker' = <<>> /\ toGateway' = <<>>
      /\ heartbeats' = {} /\ connected' = FALSE /\ memory' = ClearEveryGeneration(memory)
  BY DEF OnClose
<1>5. Ordered'
  BY <1>1, <1>2, <1>4, OrderedByClose
<1>6. memory' \in Memory
  BY <1>1, <1>4, ClearsEvery
<1>7. WorkerTypeOK'
  <2>1. /\ toWorker' \in Seq(GatewayFrame) /\ toGateway' \in Seq(WorkerFrame)
        /\ connected' \in BOOLEAN /\ heartbeats' \subseteq Assignment
    <3>1. <<>> \in Seq(GatewayFrame) /\ <<>> \in Seq(WorkerFrame)
      OBVIOUS
    <3>2. toWorker' = <<>> /\ toGateway' = <<>> /\ heartbeats' = {} /\ connected' = FALSE
      BY <1>4
    <3>3. connected' \in BOOLEAN /\ heartbeats' \subseteq Assignment
      BY <3>2
    <3> QED
      BY <3>1, <3>2, <3>3
  <2>2. /\ cancelled' \subseteq Assignment /\ run' \in [Assignment -> RunRecord]
        /\ assigned' \in 0..MaxAssignments /\ expiries' \in 0..MaxExpiries /\ beats' \in 0..MaxHeartbeats
    BY <1>1, <1>4, WorkerTypes
  <2> QED
    BY <1>3, <1>6, <2>1, <2>2
    DEF WorkerTypeOK, HeldAnswersTypeOK, Memory, AnswerRecord, RunRecord, WorkerFrame, GatewayFrame
<1> QED
  BY <1>1, <1>4, <1>5, <1>7 DEF WireInv, Ordered, LeaseExtendedWhileRunning, Active

(* Nothing is on the wire when the worker starts. *)
LEMMA InitWire ==
  Init => WireInv
<1> SUFFICES ASSUME Init
             PROVE  WireInv
  OBVIOUS
<1> DEFINE x == NoAnswer
<1>1. \A a \in Assignment : run[a].phase = "none" /\ run[a] \in RunRecord
  <2>1. (CHOOSE t \in Task : TRUE) \in Task
    BY HeldAnswersAssumption
  <2> DEFINE z == [phase |-> "none", task |-> CHOOSE t \in Task : TRUE, answer |-> None]
  <2>2. z \in RunRecord /\ z.phase = "none"
    BY <2>1 DEF RunRecord
  <2> HIDE DEF z
  <2>3. run \in [Assignment -> {z}]
    BY DEF Init, z
  <2> QED
    BY <2>2, <2>3
<1>2. \A t \in Task : /\ gateway[t] \in GatewayTask /\ gateway[t].current = None /\ gateway[t].received = <<>>
                      /\ gateway[t].isContinuation = FALSE
  <2> DEFINE z(w) == [state |-> "queued", current |-> None, attempts |-> 0,
                      isContinuation |-> FALSE, wantsPieces |-> w, received |-> <<>>,
                      refused |-> FALSE, whole |-> 0]
  <2>1. \A w \in BOOLEAN : /\ z(w) \in GatewayTask /\ z(w).current = None /\ z(w).received = <<>>
                           /\ z(w).isContinuation = FALSE
    <3>1. 0 \in 0..MaxAttempts /\ 0 \in 0..LastPiece /\ <<>> \in Seq(1..LastPiece)
      BY HeldAnswersAssumption, OpenaiWorkerAssumption
    <3> QED
      BY <3>1 DEF GatewayTask
  <2> HIDE DEF z
  <2>2. gateway \in [Task -> {z(w) : w \in BOOLEAN}]
    BY DEF Init, z
  <2> QED
    BY <2>1, <2>2
<1>3. memory \in Memory
  <2>1. 0 \in 0..LastPiece /\ <<>> \in Seq(1..LastPiece) /\ <<>> \in Seq(Assignment)
    BY HeldAnswersAssumption
  <2>2. x \in AnswerRecord
    BY <2>1 DEF AnswerRecord, NoAnswer
  <2>3. memory = [held |-> [t \in Task |-> None], answer |-> [a \in Assignment |-> x]]
    BY DEF Init, HeldAnswersInit
  <2> HIDE DEF x
  <2> QED
    BY <2>2, <2>3 DEF Memory
<1>4. /\ connected = TRUE /\ cancelled = {} /\ heartbeats = {} /\ toWorker = <<>> /\ toGateway = <<>>
      /\ assigned = 0 /\ expiries = 0 /\ beats = 0
      /\ run \in [Assignment -> RunRecord] /\ gateway \in [Task -> GatewayTask]
  <2>1. DOMAIN run = Assignment /\ DOMAIN gateway = Task /\ run = [a \in Assignment |-> run[a]]
        /\ gateway = [t \in Task |-> gateway[t]]
    BY DEF Init
  <2> QED
    BY <1>1, <1>2, <2>1 DEF Init
<1>5. WorkerTypeOK
  BY <1>3, <1>4, HeldAnswersAssumption, OpenaiWorkerAssumption, WorkerTypes
<1>6. DOMAIN toWorker = {} /\ DOMAIN toGateway = {}
  BY <1>4
<1>7. Ordered
  BY <1>1, <1>2, <1>4, <1>6 DEF Ordered, AssignedInOrder, OneTaskEach, CurrentsDiffer, ReportsAreOfRuns,
     NothingWithoutConnection, ContinuesOnceReceived, Begun
<1>8. Active = {}
  BY <1>1 DEF Active
<1> QED
  BY <1>4, <1>5, <1>7, <1>8 DEF WireInv, Ordered, LeaseExtendedWhileRunning

\* Every step keeps WireInv.
LEMMA NextWire ==
  WireInv /\ AnswersInv /\ [Next]_vars => WireInv'
<1> SUFFICES ASSUME WireInv, AnswersInv, [Next]_vars
             PROVE  WireInv'
  OBVIOUS
<1>1. CASE HandleMessage
  BY <1>1, WireByAssign, WireByCancel
<1>2. CASE OnClose
  BY <1>2, WireByClose
<1>3. CASE GatewayReads
  BY <1>3, GatewayReadsIsStep, WireByGateway
<1>4. ASSUME NEW a \in Assignment, RunStep(a) \/ Heartbeat(a) \/ IdleTimeout(a)
      PROVE  WireInv'
  BY <1>4, WireByRun, WireByTimers
<1>5. ASSUME NEW t \in Task, Place(t) \/ LeaseExpires(t) \/ ConsumerCancels(t)
      PROVE  WireInv'
  BY <1>5, PlaceIsStep, ExpiryIsStep, CancelIsStep, WireByGateway, WireParts
<1>6. CASE UNCHANGED vars
  BY <1>6 DEF vars, workerVars, gatewayVars, WireInv, WorkerTypeOK, HeldAnswersTypeOK, AssignedInOrder, OneTaskEach,
     CurrentsDiffer, ReportsAreOfRuns, NothingWithoutConnection, ContinuesOnceReceived,
     LeaseExtendedWhileRunning, Active, Begun, IsAssign
<1> QED
  BY <1>1, <1>2, <1>3, <1>4, <1>5, <1>6 DEF Next

-----------------------------------------------------------------------------
(* AnswersInv is kept by every step *)

\* What it says, field by field.
LEMMA AnswersTyped ==
  ASSUME WorkerTypeOK, AnswersInv
  PROVE  /\ memory \in Memory /\ run \in [Assignment -> RunRecord]
         /\ \A t \in Task : memory.held[t] # None => memory.held[t] \in Assignment
         /\ \A g \in Assignment : memory.answer[g] \in AnswerRecord
         /\ \A a \in Active : a \in Assignment /\ run[a].answer \in Assignment /\ run[a].task \in Task
         /\ \A t, u \in Task : memory.held[t] # None /\ memory.held[t] = memory.held[u] => t = u
<1>1. memory \in Memory /\ run \in [Assignment -> RunRecord]
  BY WorkerTypes
<1>2. \A a \in Active : a \in Assignment /\ run[a].answer \in Assignment /\ run[a].task \in Task
  BY <1>1 DEF Active, RunRecord, AnswersInv, AnswersOfTasks
<1> QED
  BY <1>1, <1>2 DEF Memory, AnswersInv, AnswersOfTasks

\* A run that goes on leaves everything it does not read.
LEMMA AnswersByGoing ==
  ASSUME WireInv, AnswersInv, NEW a \in Active, GoesOn(a)
  PROVE  AnswersInv'
<1> DEFINE g == run[a].answer
<1>1. /\ memory \in Memory /\ run \in [Assignment -> RunRecord] /\ a \in Assignment
      /\ g \in Assignment /\ run[a].phase \in {"starting", "reading"}
  BY AnswersTyped, WireParts DEF Active
<1>2. /\ \A b \in Assignment : run'[b].task = run[b].task /\ run'[b].answer = run[b].answer
      /\ \A b \in Assignment \ {a} : run'[b] = run[b]
      /\ run'[a].phase = "reading"
  BY <1>1 DEF GoesOn, RunRecord
<1>3. /\ \A b \in Assignment : Begun(b)' <=> Begun(b)
      /\ Active' = Active
  BY <1>1, <1>2 DEF Begun, Active
<1>4. /\ memory'.held = memory.held
      /\ \A h \in Assignment : SameHold(memory.answer[h], memory'.answer[h])
      /\ \A h \in Assignment, b \in Assignment \ {a} :
            Waits(b, memory.answer[h]) => Waits(b, memory'.answer[h])
      /\ Waits(a, memory'.answer[g])
  BY <1>1 DEF GoesOn, ReadsOn, ReadOf, SameHold
<1>5. UNCHANGED <<connected, cancelled, gateway>>
  BY DEF GoesOn, gatewayVars
<1>6. \A b \in Active : run[b].answer \in Assignment /\ b \in Assignment
  BY AnswersTyped, WireParts
<1>7. \A t \in Task : memory.held[t] # None => memory.held[t] \in Assignment
  BY AnswersTyped, WireParts
<1>8. AnswersOfTasks'
  <2>1. ASSUME NEW h \in Assignment, memory'.answer[h].exists
        PROVE  Begun(h)' /\ memory'.answer[h].owner # None /\ run'[memory'.answer[h].owner].phase # "none"
    <3>1. /\ memory.answer[h].exists /\ memory'.answer[h].owner = memory.answer[h].owner
          /\ memory.answer[h].owner \in Assignment \cup {None}
      BY <1>1, <1>4, <2>1 DEF SameHold, Memory, AnswerRecord
    <3> QED
      BY <1>3, <3>1 DEF AnswersInv, AnswersOfTasks, Begun
  <2>2. ASSUME NEW t \in Task, memory'.held[t] # None
        PROVE  memory'.answer[memory'.held[t]].exists /\ run'[memory'.held[t]].task = t
    BY <1>2, <1>4, <1>7, <2>2 DEF AnswersInv, AnswersOfTasks, SameHold
  <2>3. ASSUME NEW b \in Active
        PROVE  /\ run'[b].answer # None /\ memory'.answer[run'[b].answer].exists
               /\ run'[run'[b].answer].task = run'[b].task
    BY <1>2, <1>4, <1>6 DEF AnswersInv, AnswersOfTasks, SameHold
  <2> QED
    BY <1>3, <2>1, <2>2, <2>3 DEF AnswersOfTasks, Begun
<1>9. ReadersWait'
  <2>1. ASSUME NEW b \in Assignment \ {a}, run[b].phase = "reading"
        PROVE  Waits(b, memory'.answer[run[b].answer])
    <3>1. b \in Active /\ run[b].answer \in Assignment
      BY <1>6, <2>1 DEF Active
    <3> QED
      BY <1>4, <2>1, <3>1 DEF AnswersInv, ReadersWait
  <2> QED
    BY <1>2, <1>4, <2>1 DEF ReadersWait
<1>10. OwnersAreCurrent'
  <2>1. ASSUME NEW t \in Task, gateway[t].current # None, run'[gateway[t].current].phase # "none"
        PROVE  /\ memory'.held[t] # None => memory'.answer[memory'.held[t]].owner = gateway[t].current
               /\ gateway[t].current \in Active => memory'.held[t] = run'[gateway[t].current].answer
    <3>1. gateway[t].current \in Assignment
      BY <2>1, FramesTyped, WireParts
    <3>2. Begun(gateway[t].current)
      BY <1>3, <2>1, <3>1 DEF Begun
    <3> QED
      BY <1>2, <1>4, <1>7, <2>1, <3>1, <3>2 DEF AnswersInv, OwnersAreCurrent, SameHold
  <2>2. ASSUME NEW b \in cancelled
        PROVE  memory'.answer[run'[b].answer].isReleased \/ memory'.answer[run'[b].answer].owner # b
    <3>1. b \in Active
      BY <2>2 DEF WireInv, LeaseExtendedWhileRunning
    <3> QED
      BY <1>2, <1>4, <1>6, <3>1 DEF AnswersInv, OwnersAreCurrent, SameHold
  <2> QED
    BY <1>3, <1>5, <2>1, <2>2 DEF OwnersAreCurrent, Begun
<1>11. NothingReadForNobody'
  <2>1. ASSUME NEW h \in Assignment, memory'.answer[h].exists, ~memory'.answer[h].isReleased
        PROVE  /\ connected /\ \E t \in Task : memory'.held[t] = h
               /\ memory'.answer[h].idleTimer <=>
                    ~\E b \in Active : run'[b].answer = h /\ memory'.answer[h].owner = b
    <3>1. SameHold(memory.answer[h], memory'.answer[h])
      BY <1>4
    <3>2. /\ connected /\ \E t \in Task : memory.held[t] = h
          /\ memory.answer[h].idleTimer <=>
               ~\E b \in Active : run[b].answer = h /\ memory.answer[h].owner = b
      BY <2>1, <3>1 DEF AnswersInv, NothingReadForNobody, SameHold
    <3>3. \A b \in Active : run'[b].answer = run[b].answer
      BY <1>2, <1>6
    <3> QED
      BY <1>4, <3>1, <3>2, <3>3 DEF SameHold
  <2>2. \A t \in Task : memory'.held[t] # None => ~memory'.answer[memory'.held[t]].isReleased
    BY <1>4, <1>7 DEF AnswersInv, NothingReadForNobody, SameHold
  <2> QED
    BY <1>3, <1>5, <2>1, <2>2 DEF NothingReadForNobody
<1> QED
  BY <1>8, <1>9, <1>10, <1>11 DEF AnswersInv

\* A run that ends: an answer it owned is released, or left with its timer armed.
EndsIt(a) ==
  /\ run' \in [Assignment -> RunRecord] /\ run'[a].phase = "ended" /\ run'[a].task = run[a].task
  /\ \A b \in Assignment \ {a} : run'[b] = run[b]
  /\ cancelled' = cancelled \ {a} /\ UNCHANGED <<connected, gateway>>
  /\ \A u \in Task : \/ memory'.held[u] = memory.held[u]
                     \/ /\ memory'.held[u] = None /\ memory.held[u] # None
                        /\ memory.answer[memory.held[u]].owner = a
                        /\ memory'.answer[memory.held[u]].isReleased
  /\ \A h \in Assignment :
       /\ memory'.answer[h].exists = memory.answer[h].exists
       /\ memory'.answer[h].owner = memory.answer[h].owner
       /\ \/ memory'.answer[h].isReleased = memory.answer[h].isReleased
          \/ memory'.answer[h].isReleased /\ \E u \in Task : memory.held[u] = h /\ memory'.held[u] = None
       /\ ~memory'.answer[h].isReleased =>
            (memory'.answer[h].idleTimer
               <=> memory.answer[h].idleTimer \/ (h = run[a].answer /\ memory.answer[h].owner = a))
       /\ \A b \in Assignment \ {a} : Waits(b, memory.answer[h]) => Waits(b, memory'.answer[h])

(* A run that ends keeps the answers' invariant: what it held is held by the next run or let go. *)
LEMMA AnswersByEnding ==
  ASSUME WireInv, AnswersInv, NEW a \in Active, EndsIt(a)
  PROVE  AnswersInv'
<1>1. /\ memory \in Memory /\ run \in [Assignment -> RunRecord] /\ a \in Assignment
      /\ \A b \in Active : b \in Assignment /\ run[b].answer \in Assignment
      /\ \A t \in Task : memory.held[t] # None => memory.held[t] \in Assignment
      /\ \A t, u \in Task : memory.held[t] # None /\ memory.held[t] = memory.held[u] => t = u
  BY AnswersTyped, WireParts
<1>2. /\ run'[a].phase = "ended" /\ run[a].phase \in {"starting", "reading"}
      /\ \A b \in Assignment : run'[b].task = run[b].task
      /\ \A b \in Assignment : run'[b].phase # "none" <=> run[b].phase # "none"
      /\ \A b \in Assignment \ {a} : run'[b] = run[b]
  BY <1>1 DEF EndsIt, Active
<1>3. \A b \in Assignment : b \in Active' <=> b \in Active /\ b # a
  BY <1>1, <1>2 DEF Active
<1>4. UNCHANGED <<connected, gateway>> /\ cancelled' = cancelled \ {a}
  BY DEF EndsIt
<1>5. \A b \in Active' : b \in Active /\ b # a /\ b \in Assignment /\ run'[b] = run[b]
  BY <1>2, <1>3 DEF Active
<1>6. \A h \in Assignment : /\ memory'.answer[h].exists = memory.answer[h].exists
                            /\ memory'.answer[h].owner = memory.answer[h].owner
                            /\ memory.answer[h].isReleased => memory'.answer[h].isReleased
  BY DEF EndsIt
<1>7. ASSUME NEW t \in Task, memory'.held[t] # None
      PROVE  memory'.held[t] = memory.held[t] /\ memory.held[t] \in Assignment
  BY <1>1, <1>7 DEF EndsIt
<1>8. AnswersOfTasks'
  <2>1. ASSUME NEW h \in Assignment, memory'.answer[h].exists
        PROVE  /\ run'[h].phase # "none" /\ memory'.answer[h].owner # None
               /\ run'[memory'.answer[h].owner].phase # "none"
    <3>1. /\ memory.answer[h].exists /\ memory'.answer[h].owner = memory.answer[h].owner
          /\ memory.answer[h].owner \in Assignment \cup {None}
      BY <1>1, <1>6, <2>1 DEF Memory, AnswerRecord
    <3> QED
      BY <1>2, <3>1 DEF AnswersInv, AnswersOfTasks, Begun
  <2>2. ASSUME NEW t \in Task, memory'.held[t] # None
        PROVE  memory'.answer[memory'.held[t]].exists /\ run'[memory'.held[t]].task = t
    BY <1>2, <1>6, <1>7, <2>2 DEF AnswersInv, AnswersOfTasks
  <2>3. ASSUME NEW b \in Active'
        PROVE  /\ run'[b].answer # None /\ memory'.answer[run'[b].answer].exists
               /\ run'[run'[b].answer].task = run'[b].task
    BY <1>1, <1>2, <1>5, <1>6 DEF AnswersInv, AnswersOfTasks
  <2> QED
    BY <2>1, <2>2, <2>3 DEF AnswersOfTasks, Begun
<1>9. ReadersWait'
  <2>1. ASSUME NEW b \in Assignment, run'[b].phase = "reading"
        PROVE  Waits(b, memory'.answer[run'[b].answer])
    <3>1. b # a /\ run'[b] = run[b]
      BY <1>2, <2>1
    <3>2. b \in Active
      BY <2>1, <3>1 DEF Active
    <3>3. Waits(b, memory.answer[run[b].answer])
      BY <2>1, <3>1 DEF AnswersInv, ReadersWait
    <3> QED
      BY <1>1, <3>1, <3>2, <3>3 DEF EndsIt
  <2> QED
    BY <2>1 DEF ReadersWait
<1>10. OwnersAreCurrent'
  <2>1. ASSUME NEW t \in Task, gateway[t].current # None, run'[gateway[t].current].phase # "none"
        PROVE  /\ memory'.held[t] # None => memory'.answer[memory'.held[t]].owner = gateway[t].current
               /\ gateway[t].current \in Active' => memory'.held[t] = run'[gateway[t].current].answer
    <3> DEFINE c == gateway[t].current
    <3>1. c \in Assignment
      BY <2>1, FramesTyped, WireParts
    <3>2. Begun(c)
      BY <1>2, <2>1, <3>1 DEF Begun
    <3>3. /\ memory.held[t] # None => memory.answer[memory.held[t]].owner = c
          /\ c \in Active => memory.held[t] = run[c].answer
      BY <2>1, <3>2 DEF AnswersInv, OwnersAreCurrent
    <3> HIDE DEF c
    <3>4. ASSUME c \in Active'
          PROVE  memory'.held[t] = run'[c].answer
      <4>1. c # a /\ c \in Active /\ run'[c] = run[c]
        BY <1>5, <3>4
      <4>2. memory.held[t] = run[c].answer /\ memory.held[t] # None
        BY <3>3, <4>1 DEF AnswersInv, AnswersOfTasks
      <4>3. memory'.held[t] = memory.held[t]
        BY <3>3, <4>1, <4>2 DEF EndsIt
      <4> QED
        BY <4>1, <4>2, <4>3
    <3>5. memory'.held[t] # None => memory'.answer[memory'.held[t]].owner = c
      BY <1>6, <1>7, <3>3
    <3> QED
      BY <3>4, <3>5 DEF c
  <2>2. ASSUME NEW b \in cancelled'
        PROVE  memory'.answer[run'[b].answer].isReleased \/ memory'.answer[run'[b].answer].owner # b
    <3>1. b \in cancelled /\ b # a /\ b \in Active
      BY <1>4, <2>2 DEF WireInv, LeaseExtendedWhileRunning
    <3>2. run'[b] = run[b] /\ run[b].answer \in Assignment
      BY <1>1, <1>2, <3>1
    <3> QED
      BY <1>6, <3>1, <3>2 DEF AnswersInv, OwnersAreCurrent
  <2> QED
    BY <1>4, <2>1, <2>2 DEF OwnersAreCurrent, Begun
<1>11. NothingReadForNobody'
  <2>1. ASSUME NEW h \in Assignment, memory'.answer[h].exists, ~memory'.answer[h].isReleased
        PROVE  /\ connected /\ \E t \in Task : memory'.held[t] = h
               /\ memory'.answer[h].idleTimer <=>
                    ~\E b \in Active' : run'[b].answer = h /\ memory'.answer[h].owner = b
    <3>1. memory.answer[h].exists /\ ~memory.answer[h].isReleased
      BY <1>6, <2>1
    <3>2. /\ connected /\ \E t \in Task : memory.held[t] = h
          /\ memory.answer[h].idleTimer <=>
               ~\E b \in Active : run[b].answer = h /\ memory.answer[h].owner = b
      BY <3>1 DEF AnswersInv, NothingReadForNobody
    <3>3. PICK t \in Task : memory.held[t] = h
      BY <3>2
    <3>4. memory'.held[t] = h
      BY <2>1, <3>3 DEF EndsIt
    <3>5. memory'.answer[h].idleTimer
            <=> memory.answer[h].idleTimer \/ (h = run[a].answer /\ memory.answer[h].owner = a)
      BY <2>1 DEF EndsIt
    <3>6. (\E b \in Active' : run'[b].answer = h /\ memory'.answer[h].owner = b)
            <=> \E b \in Active : b # a /\ run[b].answer = h /\ memory.answer[h].owner = b
      BY <1>1, <1>3, <1>5, <1>6
    <3> QED
      BY <3>2, <3>4, <3>5, <3>6
  <2>2. ASSUME NEW t \in Task, memory'.held[t] # None
        PROVE  ~memory'.answer[memory'.held[t]].isReleased
    <3> DEFINE h == memory.held[t]
    <3>1. memory'.held[t] = h /\ h \in Assignment /\ h # None
      BY <1>7, <2>2
    <3>2. ~memory.answer[h].isReleased
      BY <3>1 DEF AnswersInv, NothingReadForNobody
    <3>3. ~\E u \in Task : memory.held[u] = h /\ memory'.held[u] = None
      BY <1>1, <2>2, <3>1
    <3> HIDE DEF h
    <3> QED
      BY <3>1, <3>2, <3>3 DEF EndsIt
  <2> QED
    BY <1>4, <2>1, <2>2 DEF NothingReadForNobody
<1> QED
  BY <1>8, <1>9, <1>10, <1>11 DEF AnswersInv

\* Both ways a run ends are that.
LEMMA RunEndsIt ==
  ASSUME WireInv, AnswersInv, NEW a \in Active, GivesUp(a) \/ ReportsPieces(a)
  PROVE  EndsIt(a)
<1> DEFINE g == run[a].answer
           t == run[a].task
<1>1. /\ memory \in Memory /\ run \in [Assignment -> RunRecord] /\ a \in Assignment
      /\ g \in Assignment /\ t \in Task /\ run[a] \in RunRecord
      /\ \A u, v \in Task : memory.held[u] # None /\ memory.held[u] = memory.held[v] => u = v
  BY AnswersTyped, WireParts
<1>2. ASSUME NEW m, NEW f, EndRun(a, m, f)
      PROVE  /\ run' \in [Assignment -> RunRecord] /\ run'[a].phase = "ended" /\ run'[a].task = t
             /\ \A b \in Assignment \ {a} : run'[b] = run[b]
             /\ cancelled' = cancelled \ {a} /\ UNCHANGED <<connected, gateway>> /\ memory' = m
  <2> DEFINE z == [run[a] EXCEPT !.phase = "ended", !.answer = None]
  <2>1. z \in RunRecord /\ z.phase = "ended" /\ z.task = t
    BY <1>1 DEF RunRecord
  <2>2. run' = [run EXCEPT ![a] = z]
    BY <1>2 DEF EndRun
  <2> HIDE DEF z
  <2> QED
    BY <1>1, <1>2, <2>1, <2>2, ZenonT(40) DEF EndRun, gatewayVars
<1>3. CASE GivesUp(a)
  <2>1. PICK m \in Memory, f \in WorkerFrame :
          ReadsOn(memory, m, g, a) /\ EndRun(a, ClearGeneration(m, t, a), f)
    BY <1>3 DEF GivesUp
  <2>2. /\ memory' = ClearGeneration(m, t, a) /\ Clears(m, memory', t, a)
    BY <1>1, <1>2, <2>1, ClearsIt
  <2> HIDE DEF g, t
  <2>3. /\ m.held = memory.held
        /\ \A h \in Assignment : SameHold(memory.answer[h], m.answer[h])
        /\ \A h \in Assignment, b \in Assignment \ {a} :
             Waits(b, memory.answer[h]) => Waits(b, m.answer[h])
    BY <2>1 DEF ReadsOn, ReadOf, SameHold
  <2> DEFINE k == memory.held[t]
  <2>4. CASE k = None \/ memory.answer[k].owner # a
    <3>1. memory' = m
      <4>1. k # None => k \in Assignment
        BY <1>1 DEF Memory
      <4> QED
        BY <2>2, <2>3, <2>4, <4>1 DEF Clears, SameHold
    <3>2. ~(memory.answer[g].owner = a /\ memory.answer[g].exists /\ ~memory.answer[g].isReleased)
      <4> SUFFICES ASSUME memory.answer[g].owner = a, memory.answer[g].exists, ~memory.answer[g].isReleased
                   PROVE  FALSE
        OBVIOUS
      <4>1. PICK u \in Task : memory.held[u] = g
        BY <1>1 DEF AnswersInv, NothingReadForNobody
      <4>2. run[g].task = u /\ run[g].task = t
        BY <1>1, <4>1 DEF AnswersInv, AnswersOfTasks, g, t, None, Assignment
      <4> QED
        BY <1>1, <2>4, <4>1, <4>2 DEF None, Assignment
    <3>3. memory.answer[g].exists
      BY DEF AnswersInv, AnswersOfTasks, g
    <3>4. \A h \in Assignment :
            /\ memory'.answer[h].exists = memory.answer[h].exists
            /\ memory'.answer[h].owner = memory.answer[h].owner
            /\ memory'.answer[h].isReleased = memory.answer[h].isReleased
            /\ memory'.answer[h].idleTimer = memory.answer[h].idleTimer
            /\ \A b \in Assignment \ {a} : Waits(b, memory.answer[h]) => Waits(b, memory'.answer[h])
      BY <2>3, <3>1 DEF SameHold
    <3>5. \A u \in Task : memory'.held[u] = memory.held[u]
      BY <2>3, <3>1
    <3>6. \A h \in Assignment : ~memory'.answer[h].isReleased => ~(h = g /\ memory.answer[h].owner = a)
      BY <3>2, <3>3, <3>4
    <3> QED
      BY <1>2, <2>1, <3>4, <3>5, <3>6 DEF EndsIt, g, t
  <2>5. CASE k # None /\ memory.answer[k].owner = a
    <3>1. k \in Assignment
      BY <1>1, <2>5 DEF Memory
    <3>2. /\ memory'.held = [memory.held EXCEPT ![t] = None]
          /\ \A h \in Assignment \ {k} : memory'.answer[h] = m.answer[h]
          /\ ReleaseOf(m.answer[k], memory'.answer[k])
      BY <2>2, <2>3, <2>5, <3>1 DEF Clears, SameHold
    <3>3. \A u \in Task : memory'.held[u] = IF u = t THEN None ELSE memory.held[u]
      BY <1>1, <3>2 DEF Memory
    <3>4. \A h \in Assignment :
            /\ memory'.answer[h].exists = memory.answer[h].exists
            /\ memory'.answer[h].owner = memory.answer[h].owner
            /\ h # k => /\ memory'.answer[h].isReleased = memory.answer[h].isReleased
                        /\ memory'.answer[h].idleTimer = memory.answer[h].idleTimer
            /\ h = k => memory'.answer[h].isReleased
            /\ \A b \in Assignment \ {a} : Waits(b, memory.answer[h]) => Waits(b, memory'.answer[h])
      BY <2>3, <3>2, SMTT(20) DEF SameHold, ReleaseOf, Waits
    <3>5. memory.answer[g].owner = a /\ memory.answer[g].exists /\ ~memory.answer[g].isReleased => g = k
      <4> SUFFICES ASSUME memory.answer[g].owner = a, memory.answer[g].exists, ~memory.answer[g].isReleased
                   PROVE  g = k
        OBVIOUS
      <4>1. PICK u \in Task : memory.held[u] = g
        BY <1>1 DEF AnswersInv, NothingReadForNobody
      <4>2. run[g].task = u /\ run[g].task = t
        BY <1>1, <4>1 DEF AnswersInv, AnswersOfTasks, g, t, None, Assignment
      <4> QED
        BY <4>1, <4>2
    <3>6. memory.answer[g].exists
      BY DEF AnswersInv, AnswersOfTasks, g
    <3>7. \A h \in Assignment : ~memory'.answer[h].isReleased => h # k /\ ~(h = g /\ memory.answer[h].owner = a)
      BY <3>4, <3>5, <3>6
    <3>8. \E u \in Task : memory.held[u] = k /\ memory'.held[u] = None
      BY <1>1, <3>3
    <3> HIDE DEF k
    <3>9. \A u \in Task : \/ memory'.held[u] = memory.held[u]
                          \/ /\ memory'.held[u] = None /\ memory.held[u] # None
                             /\ memory.answer[memory.held[u]].owner = a
                             /\ memory'.answer[memory.held[u]].isReleased
      BY <2>5, <3>1, <3>3, <3>4 DEF k
    <3> QED
      BY <1>2, <2>1, <3>4, <3>7, <3>8, <3>9 DEF EndsIt, g, t
  <2> QED
    BY <2>4, <2>5
<1>4. CASE ReportsPieces(a)
  <2>1. PICK m \in Memory, f \in WorkerFrame :
          /\ ReadsOn(memory, m, g, a) /\ EndRun(a, PieceReported(m, g), f)
          /\ memory.answer[g].owner = a
    BY <1>4 DEF ReportsPieces
  <2>2. memory' = PieceReported(m, g)
    BY <1>2, <2>1
  <2> HIDE DEF g, t
  <2>3. /\ m.held = memory.held
        /\ \A h \in Assignment : SameHold(memory.answer[h], m.answer[h])
        /\ \A h \in Assignment, b \in Assignment \ {a} :
             Waits(b, memory.answer[h]) => Waits(b, m.answer[h])
    BY <2>1 DEF ReadsOn, ReadOf, SameHold
  <2>4. /\ memory'.held = m.held /\ \A h \in Assignment \ {g} : memory'.answer[h] = m.answer[h]
        /\ memory'.answer[g].exists = m.answer[g].exists /\ memory'.answer[g].owner = m.answer[g].owner
        /\ memory'.answer[g].isReleased = m.answer[g].isReleased /\ memory'.answer[g].idleTimer
        /\ memory'.answer[g].readers = m.answer[g].readers
    BY <1>1, <2>2, ReportsIt
  <2>5. \A h \in Assignment :
          /\ memory'.answer[h].exists = memory.answer[h].exists
          /\ memory'.answer[h].owner = memory.answer[h].owner
          /\ memory'.answer[h].isReleased = memory.answer[h].isReleased
          /\ h # g => memory'.answer[h].idleTimer = memory.answer[h].idleTimer
          /\ h = g => memory'.answer[h].idleTimer
          /\ \A b \in Assignment \ {a} : Waits(b, memory.answer[h]) => Waits(b, memory'.answer[h])
    BY <2>3, <2>4 DEF SameHold, Waits
  <2>6. \A u \in Task : memory'.held[u] = memory.held[u]
    BY <2>3, <2>4
  <2> QED
    BY <1>2, <2>1, <2>5, <2>6 DEF EndsIt, g, t
<1> QED
  BY <1>3, <1>4

\* A step that begins no run and ends none: some answers that the gateway's
\* current runs do not have in hand are released.
LetsGo ==
  /\ UNCHANGED run
  /\ \A t \in Task : LET c == gateway'[t].current IN c \in {gateway[t].current, None} \/ ~Begun(c)
  /\ \A u \in Task :
       /\ \/ memory'.held[u] = memory.held[u]
          \/ memory'.held[u] = None /\ memory.held[u] # None /\ memory'.answer[memory.held[u]].isReleased
       /\ gateway'[u].current \in Active => memory'.held[u] = memory.held[u]
       /\ memory'.held[u] # None => connected' = connected
  /\ \A h \in Assignment :
       /\ memory'.answer[h].exists = memory.answer[h].exists
       /\ memory'.answer[h].owner = memory.answer[h].owner
       /\ \/ memory'.answer[h].isReleased = memory.answer[h].isReleased
          \/ memory'.answer[h].isReleased /\ \E u \in Task : memory.held[u] = h /\ memory'.held[u] = None
       /\ memory.answer[h].exists /\ ~memory'.answer[h].isReleased =>
            memory'.answer[h].idleTimer = memory.answer[h].idleTimer
       /\ \A b \in Assignment : Waits(b, memory.answer[h]) => Waits(b, memory'.answer[h])
  /\ \A b \in cancelled' : \/ b \in cancelled
                           \/ /\ b \in Active
                              /\ \/ memory'.answer[run[b].answer].isReleased
                                 \/ memory.answer[run[b].answer].owner # b

(* So does letting answers go without a run, *)
LEMMA AnswersByLetting ==
  ASSUME WireInv, AnswersInv, LetsGo
  PROVE  AnswersInv'
<1>1. /\ memory \in Memory /\ run \in [Assignment -> RunRecord]
      /\ \A b \in Active : b \in Assignment /\ run[b].answer \in Assignment
      /\ \A t \in Task : memory.held[t] # None => memory.held[t] \in Assignment
      /\ \A t, u \in Task : memory.held[t] # None /\ memory.held[t] = memory.held[u] => t = u
  BY AnswersTyped, WireParts
<1>2. run' = run /\ Active' = Active
  BY DEF LetsGo, Active
<1>3. \A h \in Assignment : /\ memory'.answer[h].exists = memory.answer[h].exists
                            /\ memory'.answer[h].owner = memory.answer[h].owner
                            /\ memory.answer[h].isReleased => memory'.answer[h].isReleased
  BY DEF LetsGo
<1>4. ASSUME NEW t \in Task, memory'.held[t] # None
      PROVE  memory'.held[t] = memory.held[t] /\ memory.held[t] \in Assignment
  BY <1>1, <1>4 DEF LetsGo
<1>5. AnswersOfTasks'
  <2>1. ASSUME NEW h \in Assignment, memory'.answer[h].exists
        PROVE  /\ run'[h].phase # "none" /\ memory'.answer[h].owner # None
               /\ run'[memory'.answer[h].owner].phase # "none"
    BY <1>2, <1>3, <2>1 DEF AnswersInv, AnswersOfTasks, Begun
  <2>2. ASSUME NEW t \in Task, memory'.held[t] # None
        PROVE  memory'.answer[memory'.held[t]].exists /\ run'[memory'.held[t]].task = t
    BY <1>2, <1>3, <1>4, <2>2 DEF AnswersInv, AnswersOfTasks
  <2>3. ASSUME NEW b \in Active'
        PROVE  /\ run'[b].answer # None /\ memory'.answer[run'[b].answer].exists
               /\ run'[run'[b].answer].task = run'[b].task
    BY <1>1, <1>2, <1>3 DEF AnswersInv, AnswersOfTasks
  <2> QED
    BY <2>1, <2>2, <2>3 DEF AnswersOfTasks, Begun
<1>6. ReadersWait'
  <2>1. ASSUME NEW b \in Assignment, run[b].phase = "reading"
        PROVE  Waits(b, memory'.answer[run[b].answer])
    <3>1. b \in Active
      BY <2>1 DEF Active
    <3>2. run[b].answer \in Assignment /\ Waits(b, memory.answer[run[b].answer])
      BY <1>1, <2>1, <3>1 DEF AnswersInv, ReadersWait
    <3> QED
      BY <3>2 DEF LetsGo
  <2> QED
    BY <1>2, <2>1 DEF ReadersWait
<1>7. OwnersAreCurrent'
  <2>1. ASSUME NEW t \in Task, gateway'[t].current # None, Begun(gateway'[t].current)
        PROVE  /\ memory'.held[t] # None => memory'.answer[memory'.held[t]].owner = gateway'[t].current
               /\ gateway'[t].current \in Active => memory'.held[t] = run[gateway'[t].current].answer
    <3>1. gateway'[t].current = gateway[t].current
      BY <2>1 DEF LetsGo
    <3>2. /\ memory.held[t] # None => memory.answer[memory.held[t]].owner = gateway[t].current
          /\ gateway[t].current \in Active => memory.held[t] = run[gateway[t].current].answer
      BY <2>1, <3>1 DEF AnswersInv, OwnersAreCurrent
    <3>3. gateway'[t].current \in Active => memory'.held[t] = memory.held[t]
      BY DEF LetsGo
    <3> QED
      BY <1>3, <1>4, <3>1, <3>2, <3>3
  <2>2. ASSUME NEW b \in cancelled'
        PROVE  memory'.answer[run[b].answer].isReleased \/ memory'.answer[run[b].answer].owner # b
    <3>1. b \in Active
      BY <2>2 DEF LetsGo, WireInv, LeaseExtendedWhileRunning
    <3>2. run[b].answer \in Assignment
      BY <1>1, <3>1
    <3> QED
      BY <1>3, <2>2, <3>2 DEF LetsGo, AnswersInv, OwnersAreCurrent
  <2> QED
    BY <1>2, <2>1, <2>2 DEF OwnersAreCurrent, Begun
<1>8. NothingReadForNobody'
  <2>1. ASSUME NEW h \in Assignment, memory'.answer[h].exists, ~memory'.answer[h].isReleased
        PROVE  /\ connected' /\ \E t \in Task : memory'.held[t] = h
               /\ memory'.answer[h].idleTimer <=>
                    ~\E b \in Active : run[b].answer = h /\ memory'.answer[h].owner = b
    <3>1. memory.answer[h].exists /\ ~memory.answer[h].isReleased
      BY <1>3, <2>1
    <3>2. /\ connected /\ \E t \in Task : memory.held[t] = h
          /\ memory.answer[h].idleTimer <=>
               ~\E b \in Active : run[b].answer = h /\ memory.answer[h].owner = b
      BY <3>1 DEF AnswersInv, NothingReadForNobody
    <3>3. PICK t \in Task : memory.held[t] = h
      BY <3>2
    <3>4. memory'.held[t] = h
      BY <2>1, <3>3 DEF LetsGo
    <3>5. connected'
      <4>1. h # None
        BY DEF None, Assignment
      <4>2. connected' = connected
        BY <3>4, <4>1 DEF LetsGo
      <4> QED
        BY <3>2, <4>2
    <3>6. memory'.answer[h].idleTimer = memory.answer[h].idleTimer
      BY <2>1, <3>1 DEF LetsGo
    <3> QED
      BY <1>3, <3>2, <3>4, <3>5, <3>6
  <2>2. ASSUME NEW t \in Task, memory'.held[t] # None
        PROVE  ~memory'.answer[memory'.held[t]].isReleased
    <3> DEFINE h == memory.held[t]
    <3>1. memory'.held[t] = h /\ h \in Assignment /\ h # None
      BY <1>4, <2>2
    <3>2. ~memory.answer[h].isReleased
      BY <3>1 DEF AnswersInv, NothingReadForNobody
    <3>3. ~\E u \in Task : memory.held[u] = h /\ memory'.held[u] = None
      BY <1>1, <2>2, <3>1
    <3> HIDE DEF h
    <3> QED
      BY <3>1, <3>2, <3>3 DEF LetsGo
  <2> QED
    BY <1>2, <2>1, <2>2 DEF NothingReadForNobody
<1> QED
  BY <1>5, <1>6, <1>7, <1>8 DEF AnswersInv

\* The gateway's steps, a heartbeat and a step that changes nothing.
LEMMA AnswersByGateway ==
  ASSUME WireInv, AnswersInv, \/ GatewayStep
                              \/ UNCHANGED <<memory, workerVars, gateway>>
  PROVE  AnswersInv'
<1>1. memory' = memory /\ run' = run /\ connected' = connected /\ cancelled' = cancelled
  BY DEF GatewayStep, workerVars
<1>2. \A t \in Task : LET c == gateway'[t].current IN c \in {gateway[t].current, None} \/ ~Begun(c)
  <2>1. CASE UNCHANGED gateway
    BY <2>1
  <2>2. CASE Settling
    BY <2>2 DEF Settling
  <2>3. ASSUME NEW t \in Task, NEW c \in BOOLEAN, Sending(t, c)
        PROVE  \A u \in Task : gateway'[u].current = gateway[u].current \/ ~Begun(gateway'[u].current)
    <3>1. /\ gateway'[t].current = assigned + 1 /\ \A u \in Task \ {t} : gateway'[u] = gateway[u]
          /\ assigned < MaxAssignments
      BY <2>3 DEF Sending
    <3>2. ~Begun(assigned + 1)
      <4>1. assigned + 1 \in Assignment /\ ~(assigned + 1 \leq assigned)
        BY <3>1, HeldAnswersAssumption, WorkerTypes, WireParts DEF Assignment
      <4> QED
        BY <4>1 DEF WireInv, AssignedInOrder
    <3> QED
      BY <3>1, <3>2
  <2> QED
    BY <2>1, <2>2, <2>3 DEF GatewayStep
<1>3. LetsGo
  BY <1>1, <1>2 DEF LetsGo
<1> QED
  BY <1>3, AnswersByLetting

\* The timer of an answer that no current run has in hand.
LEMMA AnswersByTimeout ==
  ASSUME WireInv, AnswersInv, NEW g \in Assignment, IdleTimeout(g)
  PROVE  AnswersInv'
<1>1. /\ memory \in Memory
      /\ \A b \in Active : b \in Assignment /\ run[b].answer \in Assignment
      /\ \A t \in Task : memory.held[t] # None => memory.held[t] \in Assignment
  BY AnswersTyped, WireParts
<1>2. IdleTimerFires(g) /\ run' = run /\ connected' = connected /\ cancelled' = cancelled /\ gateway' = gateway
  BY DEF IdleTimeout, workerVars, gatewayVars
<1>3. /\ memory.answer[g].idleTimer
      /\ \A h \in Assignment \ {g} : memory'.answer[h] = memory.answer[h]
  BY <1>1, <1>2, TimerFires
<1>4. ASSUME NEW u \in Task, gateway[u].current \in Active, memory.held[u] = g
      PROVE  FALSE
  <2> DEFINE c == gateway[u].current
  <2>1. c \in Active /\ Begun(c) /\ c # None
    BY <1>1, <1>4 DEF Active, Begun, None, Assignment
  <2>2. run[c].answer = g /\ memory.answer[g].owner = c
    BY <1>4, <2>1 DEF AnswersInv, OwnersAreCurrent, None, Assignment
  <2>3. memory.answer[g].exists /\ ~memory.answer[g].isReleased
    BY <1>4 DEF AnswersInv, AnswersOfTasks, NothingReadForNobody, None, Assignment
  <2> QED
    BY <1>3, <2>1, <2>2, <2>3 DEF AnswersInv, NothingReadForNobody
<1>5. CASE /\ \E t \in Task : memory.held[t] = g
           /\ \A t \in Task : memory'.held[t] = IF memory.held[t] = g THEN None ELSE memory.held[t]
           /\ ReleaseOf(memory.answer[g], memory'.answer[g])
  <2>1. \A u \in Task :
          /\ \/ memory'.held[u] = memory.held[u]
             \/ memory'.held[u] = None /\ memory.held[u] # None /\ memory'.answer[memory.held[u]].isReleased
          /\ gateway[u].current \in Active => memory'.held[u] = memory.held[u]
    BY <1>4, <1>5 DEF ReleaseOf, None, Assignment
  <2>2. \A h \in Assignment :
          /\ memory'.answer[h].exists = memory.answer[h].exists
          /\ memory'.answer[h].owner = memory.answer[h].owner
          /\ \/ memory'.answer[h].isReleased = memory.answer[h].isReleased
             \/ memory'.answer[h].isReleased /\ \E u \in Task : memory.held[u] = h /\ memory'.held[u] = None
          /\ ~memory'.answer[h].isReleased => memory'.answer[h].idleTimer = memory.answer[h].idleTimer
          /\ \A b \in Assignment : Waits(b, memory.answer[h]) => Waits(b, memory'.answer[h])
    BY <1>3, <1>5 DEF ReleaseOf, Waits
  <2>3. LetsGo
    BY <1>2, <2>1, <2>2 DEF LetsGo
  <2> QED
    BY <2>3, AnswersByLetting
<1>6. CASE /\ \A t \in Task : memory.held[t] # g
           /\ memory'.held = memory.held
           /\ LET s == memory.answer[g]
                  z == memory'.answer[g]
              IN /\ z.exists = s.exists /\ z.owner = s.owner /\ z.isReleased = s.isReleased
                 /\ ~z.idleTimer /\ SamePieces(s, z) /\ z.readers = s.readers
  <2>1. memory.answer[g].exists => memory.answer[g].isReleased
    BY <1>6 DEF AnswersInv, NothingReadForNobody
  <2>2. \A h \in Assignment :
          /\ memory'.answer[h].exists = memory.answer[h].exists
          /\ memory'.answer[h].owner = memory.answer[h].owner
          /\ memory'.answer[h].isReleased = memory.answer[h].isReleased
          /\ memory.answer[h].exists /\ ~memory'.answer[h].isReleased =>
               memory'.answer[h].idleTimer = memory.answer[h].idleTimer
          /\ \A b \in Assignment : Waits(b, memory.answer[h]) => Waits(b, memory'.answer[h])
    BY <1>3, <1>6, <2>1 DEF Waits
  <2>3. LetsGo
    BY <1>2, <1>6, <2>2 DEF LetsGo
  <2> QED
    BY <2>3, AnswersByLetting
<1> QED
  BY <1>1, <1>2, <1>5, <1>6, TimerFires

\* A connection that closes.
LEMMA AnswersByClose ==
  ASSUME WireInv, AnswersInv, OnClose
  PROVE  AnswersInv'
<1>1. /\ memory \in Memory /\ \A t \in Task : memory.held[t] # None => memory.held[t] \in Assignment
  BY AnswersTyped, WireParts
<1>2. /\ run' = run /\ cancelled' = cancelled /\ memory' = ClearEveryGeneration(memory)
  BY DEF OnClose
<1>3. /\ \A t \in Task : memory'.held[t] = None
      /\ \A h \in Assignment :
           IF \E t \in Task : memory.held[t] = h THEN ReleaseOf(memory.answer[h], memory'.answer[h])
           ELSE memory'.answer[h] = memory.answer[h]
  BY <1>1, <1>2, ClearsEvery
<1>4. \A t \in Task : gateway'[t].current = None
  <2>1. ASSUME NEW t \in Task
        PROVE  gateway'[t].current = None
    <3> DEFINE z == [gateway[t] EXCEPT !.state = "elsewhere", !.current = None]
    <3>1. gateway'[t] = IF gateway[t].current = None THEN gateway[t] ELSE z
      BY DEF OnClose
    <3>2. gateway[t] \in GatewayTask
      BY WireParts, WorkerTypes
    <3>3. z.current = None
      BY <3>2 DEF GatewayTask
    <3> QED
      BY <3>1, <3>3
  <2> QED
    BY <2>1
<1>5. \A u \in Task :
        /\ memory'.held[u] = None
        /\ memory.held[u] # None => memory'.answer[memory.held[u]].isReleased
        /\ gateway'[u].current \notin Active
  <2>1. None \notin Active
    BY DEF Active, None, Assignment
  <2> QED
    BY <1>1, <1>3, <1>4, <2>1 DEF ReleaseOf
<1>6. \A h \in Assignment :
        /\ memory'.answer[h].exists = memory.answer[h].exists
        /\ memory'.answer[h].owner = memory.answer[h].owner
        /\ \/ memory'.answer[h].isReleased = memory.answer[h].isReleased
           \/ memory'.answer[h].isReleased /\ \E u \in Task : memory.held[u] = h /\ memory'.held[u] = None
        /\ ~memory'.answer[h].isReleased => memory'.answer[h].idleTimer = memory.answer[h].idleTimer
        /\ \A b \in Assignment : Waits(b, memory.answer[h]) => Waits(b, memory'.answer[h])
  BY <1>3 DEF ReleaseOf, Waits
<1>7. LetsGo
  BY <1>2, <1>4, <1>5, <1>6 DEF LetsGo
<1> QED
  BY <1>7, AnswersByLetting

\* A cancellation: of an assignment that is not current.
LEMMA AnswersByCancel ==
  ASSUME WireInv, AnswersInv, HandleMessage, Head(toWorker).type # "stage.assign"
  PROVE  AnswersInv'
<1> DEFINE f == Head(toWorker)
           a == f.of
           t == f.task
           k == memory.held[t]
<1>1. /\ toWorker # <<>> /\ run' = run /\ gateway' = gateway /\ connected' = connected
      /\ OnCancel(f)
  BY DEF HandleMessage, OnCancel, gatewayVars
<1>2. /\ a \in Assignment /\ t \in Task /\ f = toWorker[1] /\ 1 \in DOMAIN toWorker
  BY <1>1, FirstMessage
<1>3. /\ memory \in Memory
      /\ \A b \in Active : b \in Assignment /\ run[b].answer \in Assignment
      /\ \A u \in Task : memory.held[u] # None => memory.held[u] \in Assignment
  BY AnswersTyped, WireParts
<1>4. /\ \A u \in Task : gateway[u].current # a
      /\ Begun(a) => run[a].task = t
  BY <1>2 DEF WireInv, OneTaskEach, IsAssign
<1>5. Clears(memory, memory', t, a) /\ cancelled' = IF a \in Active THEN cancelled \cup {a} ELSE cancelled
  BY <1>1, <1>2, <1>3, ClearsIt DEF OnCancel
<1> HIDE DEF f, a, t
<1>6. \/ memory' = memory /\ (k = None \/ memory.answer[k].owner # a)
      \/ /\ k # None /\ memory.answer[k].owner = a /\ k \in Assignment
         /\ \A u \in Task : memory'.held[u] = IF u = t THEN None ELSE memory.held[u]
         /\ \A h \in Assignment \ {k} : memory'.answer[h] = memory.answer[h]
         /\ ReleaseOf(memory.answer[k], memory'.answer[k])
  <2>1. memory.held \in [Task -> Assignment \cup {None}]
    BY <1>3 DEF Memory
  <2> QED
    BY <1>2, <1>3, <1>5, <2>1 DEF Clears
<1>7. \A u \in Task :
        /\ \/ memory'.held[u] = memory.held[u]
           \/ memory'.held[u] = None /\ memory.held[u] # None /\ memory'.answer[memory.held[u]].isReleased
        /\ gateway[u].current \in Active => memory'.held[u] = memory.held[u]
  <2>1. CASE memory' = memory
    BY <2>1
  <2>2. CASE memory' # memory
    <3>1. gateway[t].current \notin Active
      <4>1. SUFFICES ASSUME gateway[t].current \in Active PROVE FALSE
        OBVIOUS
      <4>2. gateway[t].current # None /\ Begun(gateway[t].current)
        BY <4>1 DEF Active, Begun, None, Assignment
      <4>3. memory.answer[k].owner = gateway[t].current
        BY <1>2, <1>6, <2>2, <4>2 DEF AnswersInv, OwnersAreCurrent
      <4> QED
        BY <1>2, <1>4, <1>6, <2>2, <4>3
    <3> QED
      BY <1>2, <1>6, <2>2, <3>1 DEF ReleaseOf
  <2> QED
    BY <2>1, <2>2
<1>8. \A h \in Assignment :
        /\ memory'.answer[h].exists = memory.answer[h].exists
        /\ memory'.answer[h].owner = memory.answer[h].owner
        /\ \/ memory'.answer[h].isReleased = memory.answer[h].isReleased
           \/ memory'.answer[h].isReleased /\ \E u \in Task : memory.held[u] = h /\ memory'.held[u] = None
        /\ ~memory'.answer[h].isReleased => memory'.answer[h].idleTimer = memory.answer[h].idleTimer
        /\ \A b \in Assignment : Waits(b, memory.answer[h]) => Waits(b, memory'.answer[h])
  BY <1>2, <1>6 DEF ReleaseOf, Waits
<1>9. ASSUME a \in Active, memory.answer[run[a].answer].owner = a
      PROVE  memory'.answer[run[a].answer].isReleased
  <2> DEFINE g == run[a].answer
  <2>1. g \in Assignment /\ memory.answer[g].exists /\ run[g].task = run[a].task /\ run[a].task = t
    BY <1>3, <1>4, <1>9 DEF AnswersInv, AnswersOfTasks, Active, Begun
  <2>2. CASE memory.answer[g].isReleased
    BY <1>8, <2>1, <2>2
  <2>3. CASE ~memory.answer[g].isReleased
    <3>1. PICK u \in Task : memory.held[u] = g
      BY <2>1, <2>3 DEF AnswersInv, NothingReadForNobody
    <3>2. u = t
      BY <2>1, <3>1 DEF AnswersInv, AnswersOfTasks, None, Assignment
    <3>3. g # None
      BY <2>1 DEF None, Assignment
    <3> QED
      BY <1>6, <1>9, <3>1, <3>2, <3>3 DEF ReleaseOf
  <2> QED
    BY <2>2, <2>3
<1>10. LetsGo
  BY <1>1, <1>5, <1>7, <1>8, <1>9 DEF LetsGo
<1> QED
  BY <1>10, AnswersByLetting

\* Run a begins, for task t.  The answer it has in hand is its own, or the one
\* that was held; what was held and is not taken in hand is released.
Begins(a, t) ==
  /\ run' \in [Assignment -> RunRecord] /\ run'[a].phase # "none" /\ run'[a].task = t
  /\ \A b \in Assignment \ {a} : run'[b] = run[b]
  /\ UNCHANGED <<connected, gateway, cancelled>>
  /\ \A u \in Task \ {t} : memory'.held[u] = memory.held[u]
  /\ \A h \in Assignment \ {a} :
       /\ memory.held[t] # h => memory'.answer[h] = memory.answer[h]
       /\ memory'.answer[h].exists = memory.answer[h].exists
       /\ memory'.answer[h].owner \in {a, memory.answer[h].owner}
       /\ memory.answer[h].isReleased => memory'.answer[h].isReleased
       /\ memory.held[t] = h => memory'.held[t] = h \/ memory'.answer[h].isReleased
       /\ \A b \in Assignment : Waits(b, memory.answer[h]) => Waits(b, memory'.answer[h])
  /\ memory'.answer[a].exists => memory'.held[t] = a
  /\ \/ run'[a].phase = "ended" /\ memory'.held[t] = None
     \/ /\ run'[a].phase \in {"starting", "reading"} /\ run'[a].answer = memory'.held[t]
        /\ memory'.held[t] \in {a, memory.held[t]} /\ memory'.held[t] # None
        /\ LET z == memory'.answer[memory'.held[t]]
           IN /\ z.exists /\ z.owner = a /\ ~z.isReleased /\ ~z.idleTimer
              /\ run'[a].phase = "reading" => Waits(a, z)

(* and a run that begins. *)
LEMMA AnswersByBeginning ==
  ASSUME WireInv, AnswersInv, toWorker # <<>>, Head(toWorker).type = "stage.assign",
         Begins(Head(toWorker).of, Head(toWorker).task)
  PROVE  AnswersInv'
<1> DEFINE f == Head(toWorker)
           a == f.of
           t == f.task
<1>1. /\ a \in Assignment /\ t \in Task /\ connected /\ ~Begun(a) /\ a \notin Active
      /\ ~memory.answer[a].exists /\ f = toWorker[1] /\ 1 \in DOMAIN toWorker /\ f.type = "stage.assign"
      /\ \A u \in Task : memory.held[u] # a
  BY FirstMessage
<1>2. /\ memory \in Memory /\ run \in [Assignment -> RunRecord]
      /\ \A b \in Active : b \in Assignment /\ run[b].answer \in Assignment
      /\ \A u \in Task : memory.held[u] # None => memory.held[u] \in Assignment
      /\ \A u, v \in Task : memory.held[u] # None /\ memory.held[u] = memory.held[v] => u = v
  BY AnswersTyped, WireParts
<1>3. ASSUME NEW u \in Task, gateway[u].current # None
      PROVE  /\ gateway[u].current \in Assignment
             /\ gateway[u].current = a => u = t
             /\ gateway[u].current # a /\ Begun(gateway[u].current) => u # t
  <2>1. gateway[u].current \in Assignment
    BY <1>3, FramesTyped, WireParts
  <2>2. /\ a = gateway[u].current => t = u
        /\ t = u => a \leq gateway[u].current
        /\ \A b \in Assignment : Begun(b) => b < a
    BY <1>1, <1>3 DEF WireInv, OneTaskEach, AssignedInOrder, IsAssign
  <2>3. ~(gateway[u].current < a /\ a \leq gateway[u].current)
    BY <1>1, <2>1 DEF Assignment
  <2> QED
    BY <2>1, <2>2, <2>3
<1>4. Begins(a, t)
  OBVIOUS
<1> HIDE DEF f, a, t
<1>5. /\ \A b \in Assignment \ {a} : run'[b] = run[b]
      /\ \A h \in Assignment \ {a} : memory'.answer[h].exists = memory.answer[h].exists
      /\ run'[a].phase # "none" /\ run'[a].task = t
  BY <1>4 DEF Begins
<1>6. a # None /\ None \notin Assignment
  BY <1>1 DEF None, Assignment
<1>7. \A h \in Assignment : memory.answer[h].exists => h # a
  BY <1>1
<1>8. ASSUME memory'.held[t] # None
      PROVE  LET z == memory'.answer[memory'.held[t]]
             IN /\ memory'.held[t] \in Assignment /\ run'[memory'.held[t]].task = t
                /\ z.exists /\ z.owner = a /\ ~z.isReleased /\ ~z.idleTimer
                /\ a \in Active' /\ run'[a].answer = memory'.held[t]
                /\ run'[a].phase = "reading" => Waits(a, z)
  <2>1. /\ run'[a].phase \in {"starting", "reading"} /\ run'[a].answer = memory'.held[t]
        /\ memory'.held[t] \in {a, memory.held[t]}
        /\ LET z == memory'.answer[memory'.held[t]]
           IN /\ z.exists /\ z.owner = a /\ ~z.isReleased /\ ~z.idleTimer
              /\ run'[a].phase = "reading" => Waits(a, z)
    BY <1>4, <1>8 DEF Begins
  <2>2. memory'.held[t] \in Assignment
    BY <1>1, <1>2, <1>8, <2>1
  <2>3. run'[memory'.held[t]].task = t
    BY <1>1, <1>5, <1>8, <2>1, <2>2 DEF AnswersInv, AnswersOfTasks
  <2>4. a \in Active'
    BY <1>1, <2>1 DEF Active
  <2> QED
    BY <2>1, <2>2, <2>3, <2>4
<1>9. ASSUME a \in Active'
      PROVE  memory'.held[t] # None
  BY <1>4, <1>9 DEF Begins, Active
<1>10. \A b \in Assignment \ {a} : b \in Active' <=> b \in Active
  BY <1>5 DEF Active
<1>11. AnswersOfTasks'
  <2>1. ASSUME NEW h \in Assignment, memory'.answer[h].exists
        PROVE  /\ run'[h].phase # "none" /\ memory'.answer[h].owner # None
               /\ run'[memory'.answer[h].owner].phase # "none"
    <3>1. CASE h = a
      <4>1. memory'.held[t] = a
        BY <1>4, <2>1, <3>1 DEF Begins
      <4>2. memory'.answer[a].owner = a
        BY <1>6, <1>8, <4>1
      <4> QED
        BY <1>5, <1>6, <3>1, <4>2
    <3>2. CASE h # a
      <4>1. /\ memory.answer[h].exists /\ memory'.answer[h].owner \in {a, memory.answer[h].owner}
            /\ memory.answer[h].owner \in Assignment \cup {None}
        BY <1>2, <1>4, <1>5, <2>1, <3>2 DEF Begins, Memory, AnswerRecord
      <4> QED
        BY <1>5, <1>6, <3>2, <4>1 DEF AnswersInv, AnswersOfTasks, Begun
    <3> QED
      BY <3>1, <3>2
  <2>2. ASSUME NEW u \in Task, memory'.held[u] # None
        PROVE  memory'.answer[memory'.held[u]].exists /\ run'[memory'.held[u]].task = u
    <3>1. CASE u = t
      BY <1>8, <2>2, <3>1
    <3>2. CASE u # t
      <4>1. memory'.held[u] = memory.held[u] /\ memory.held[u] \in Assignment \ {a}
        BY <1>1, <1>2, <1>4, <2>2, <3>2, ZenonT(40) DEF Begins
      <4> QED
        BY <1>5, <2>2, <4>1 DEF AnswersInv, AnswersOfTasks
    <3> QED
      BY <3>1, <3>2
  <2>3. ASSUME NEW b \in Active'
        PROVE  /\ run'[b].answer # None /\ memory'.answer[run'[b].answer].exists
               /\ run'[run'[b].answer].task = run'[b].task
    <3>1. CASE b = a
      BY <1>5, <1>6, <1>8, <1>9, <2>3, <3>1
    <3>2. CASE b # a
      <4>1. b \in Assignment
        BY <2>3 DEF Active
      <4>2. b \in Active /\ run'[b] = run[b]
        BY <1>5, <1>10, <2>3, <3>2, <4>1
      <4>3. run[b].answer \in Assignment \ {a} /\ memory.answer[run[b].answer].exists
        BY <1>2, <1>7, <4>2 DEF AnswersInv, AnswersOfTasks
      <4> QED
        BY <1>5, <1>6, <4>2, <4>3 DEF AnswersInv, AnswersOfTasks
    <3> QED
      BY <3>1, <3>2
  <2> QED
    BY <2>1, <2>2, <2>3 DEF AnswersOfTasks, Begun
<1>12. ReadersWait'
  <2>1. ASSUME NEW b \in Assignment, run'[b].phase = "reading"
        PROVE  Waits(b, memory'.answer[run'[b].answer])
    <3>1. CASE b = a
      <4>1. a \in Active'
        BY <1>1, <2>1, <3>1 DEF Active
      <4> QED
        BY <1>8, <1>9, <2>1, <3>1, <4>1
    <3>2. CASE b # a
      <4>1. run'[b] = run[b] /\ b \in Active
        BY <1>5, <2>1, <3>2 DEF Active
      <4>2. run[b].answer \in Assignment \ {a} /\ Waits(b, memory.answer[run[b].answer])
        BY <1>2, <1>7, <2>1, <4>1 DEF AnswersInv, AnswersOfTasks, ReadersWait
      <4> QED
        BY <1>4, <4>1, <4>2 DEF Begins
    <3> QED
      BY <3>1, <3>2
  <2> QED
    BY <2>1 DEF ReadersWait
<1>13. OwnersAreCurrent'
  <2>1. ASSUME NEW u \in Task, gateway[u].current # None, run'[gateway[u].current].phase # "none"
        PROVE  /\ memory'.held[u] # None => memory'.answer[memory'.held[u]].owner = gateway[u].current
               /\ gateway[u].current \in Active' => memory'.held[u] = run'[gateway[u].current].answer
    <3> DEFINE c == gateway[u].current
    <3>1. c \in Assignment /\ (c = a => u = t) /\ (c # a /\ Begun(c) => u # t)
      <4>1. gateway[u].current # None
        BY <2>1
      <4> QED
        BY <1>3, <4>1 DEF Begun
    <3>2. CASE c = a
      BY <1>8, <1>9, <3>1, <3>2
    <3>3. CASE c # a
      <4>1. Begun(c) /\ run'[c] = run[c] /\ u # t
        BY <1>5, <2>1, <3>1, <3>3 DEF Begun
      <4>2. memory'.held[u] = memory.held[u]
        BY <1>4, <4>1 DEF Begins
      <4>3. /\ memory.held[u] # None => memory.answer[memory.held[u]].owner = c
            /\ c \in Active => memory.held[u] = run[c].answer
        BY <2>1, <4>1 DEF AnswersInv, OwnersAreCurrent
      <4>4. memory.held[u] # None => memory'.answer[memory.held[u]] = memory.answer[memory.held[u]]
        <5>1. memory.held[u] # None => memory.held[u] \in Assignment \ {a} /\ memory.held[t] # memory.held[u]
          BY <1>1, <1>2, <4>1
        <5> QED
          BY <1>4, <5>1 DEF Begins
      <4> HIDE DEF c
      <4> QED
        BY <1>10, <3>1, <3>3, <4>1, <4>2, <4>3, <4>4 DEF c
    <3> QED
      BY <3>2, <3>3
  <2>2. ASSUME NEW b \in cancelled
        PROVE  memory'.answer[run'[b].answer].isReleased \/ memory'.answer[run'[b].answer].owner # b
    <3>1. b \in Active /\ b # a
      BY <1>1, <2>2 DEF WireInv, LeaseExtendedWhileRunning
    <3>2. run'[b] = run[b]
      BY <1>2, <1>5, <3>1
    <3>3. run[b].answer \in Assignment \ {a}
      BY <1>2, <1>7, <3>1 DEF AnswersInv, AnswersOfTasks
    <3>4. memory.answer[run[b].answer].isReleased \/ memory.answer[run[b].answer].owner # b
      BY <2>2 DEF AnswersInv, OwnersAreCurrent
    <3> QED
      BY <1>4, <3>1, <3>2, <3>3, <3>4, ZenonT(40) DEF Begins
  <2>3. gateway' = gateway /\ cancelled' = cancelled
    BY <1>4 DEF Begins
  <2> QED
    BY <2>1, <2>2, <2>3 DEF OwnersAreCurrent, Begun
<1>14. NothingReadForNobody'
  <2>1. ASSUME NEW h \in Assignment, memory'.answer[h].exists, ~memory'.answer[h].isReleased
        PROVE  /\ connected /\ \E u \in Task : memory'.held[u] = h
               /\ memory'.answer[h].idleTimer <=>
                    ~\E b \in Active' : run'[b].answer = h /\ memory'.answer[h].owner = b
    <3>1. CASE memory'.held[t] = h
      <4>1. h # None
        BY <1>6
      <4> QED
        BY <1>1, <1>8, <3>1, <4>1
    <3>2. CASE memory'.held[t] # h
      <4>1. h # a /\ memory.held[t] # h
        BY <1>4, <2>1, <3>2 DEF Begins
      <4>2. memory'.answer[h] = memory.answer[h]
        BY <1>4, <4>1 DEF Begins
      <4>3. /\ \E u \in Task : memory.held[u] = h
            /\ memory.answer[h].idleTimer <=>
                 ~\E b \in Active : run[b].answer = h /\ memory.answer[h].owner = b
        BY <2>1, <4>2 DEF AnswersInv, NothingReadForNobody
      <4>4. PICK u \in Task : memory.held[u] = h
        BY <4>3
      <4>5. memory'.held[u] = h
        BY <1>4, <4>1, <4>4 DEF Begins
      <4>6. a \in Active' => run'[a].answer # h
        BY <1>8, <1>9, <3>2
      <4>7. (\E b \in Active' : run'[b].answer = h /\ memory.answer[h].owner = b)
              <=> \E b \in Active : run[b].answer = h /\ memory.answer[h].owner = b
        <5>1. ASSUME NEW b \in Active', run'[b].answer = h
              PROVE  b \in Active /\ run[b].answer = h
          <6>1. b # a /\ b \in Assignment
            BY <4>6, <5>1 DEF Active
          <6> QED
            BY <1>5, <1>10, <5>1, <6>1
        <5>2. ASSUME NEW b \in Active, run[b].answer = h
              PROVE  b \in Active' /\ run'[b].answer = h
          <6>1. b # a /\ b \in Assignment
            BY <1>1, <1>2
          <6> QED
            BY <1>5, <1>10, <5>2, <6>1
        <5> QED
          BY <5>1, <5>2
      <4> QED
        BY <1>1, <4>2, <4>3, <4>5, <4>7
    <3> QED
      BY <3>1, <3>2
  <2>2. ASSUME NEW u \in Task, memory'.held[u] # None
        PROVE  ~memory'.answer[memory'.held[u]].isReleased
    <3>1. CASE u = t
      BY <1>8, <2>2, <3>1
    <3>2. CASE u # t
      <4>1. memory'.held[u] = memory.held[u]
        BY <1>4, <3>2 DEF Begins
      <4>2. memory.held[u] \in Assignment \ {a} /\ memory.held[t] # memory.held[u]
        BY <1>1, <1>2, <2>2, <3>2, <4>1
      <4>3. memory'.answer[memory.held[u]] = memory.answer[memory.held[u]]
        BY <1>4, <4>2 DEF Begins
      <4> QED
        BY <2>2, <4>1, <4>3 DEF AnswersInv, NothingReadForNobody
    <3> QED
      BY <3>1, <3>2
  <2>3. connected' = connected
    BY <1>4 DEF Begins
  <2> QED
    BY <2>1, <2>2, <2>3 DEF NothingReadForNobody
<1> QED
  BY <1>11, <1>12, <1>13, <1>14 DEF AnswersInv

\* What StartRun makes of the first message is such a beginning.
LEMMA StartsARun ==
  ASSUME WireInv, AnswersInv, HandleMessage, Head(toWorker).type = "stage.assign"
  PROVE  Begins(Head(toWorker).of, Head(toWorker).task)
<1> DEFINE f == Head(toWorker)
           a == f.of
           t == f.task
           g == memory.held[t]
<1> SUFFICES Begins(a, t)
  OBVIOUS
<1>1. /\ toWorker # <<>> /\ UNCHANGED <<connected, gateway, cancelled>>
      /\ StartAnswer(f) \/ CarryOn(f) \/ CarryOnAtLimit(f) \/ CarryOnNothing(f)
  BY DEF HandleMessage, StartRun, gatewayVars
<1>2. /\ f \in GatewayFrame /\ a \in Assignment /\ t \in Task
      /\ ~memory.answer[a].exists /\ \A u \in Task : memory.held[u] # a
  BY <1>1, FirstMessage
<1>3. /\ memory \in Memory /\ WorkerTypeOK /\ memory.held \in [Task -> Assignment \cup {None}]
      /\ g # None => g \in Assignment /\ memory.answer[g].exists /\ ~memory.answer[g].isReleased
  BY <1>2, AnswersTyped, WireParts DEF Memory, AnswersInv, AnswersOfTasks, NothingReadForNobody
<1>4. ASSUME NEW phase \in {"starting", "reading", "ended"}, NEW h \in Assignment \cup {None},
             run' = Started(f, phase, h)
      PROVE  /\ run' \in [Assignment -> RunRecord] /\ run'[a].phase = phase /\ run'[a].task = t
             /\ run'[a].answer = h /\ \A b \in Assignment \ {a} : run'[b] = run[b]
  <2> DEFINE z == [phase |-> phase, task |-> t, answer |-> h]
  <2>1. z \in RunRecord /\ z.phase = phase /\ z.task = t /\ z.answer = h
    BY <1>2 DEF RunRecord
  <2>2. run' = [run EXCEPT ![a] = z]
    BY <1>4 DEF Started
  <2> HIDE DEF z, f, a, t
  <2>3. run \in [Assignment -> RunRecord]
    BY <1>3, WorkerTypes
  <2>4. run'[a] = z /\ run' \in [Assignment -> RunRecord] /\ \A b \in Assignment \ {a} : run'[b] = run[b]
    BY <1>2, <2>1, <2>2, <2>3
  <2> QED
    BY <2>1, <2>4
<1>5. ASSUME g # None
      PROVE  LET m == HeldGeneration(memory, t, a)
             IN /\ m \in Memory /\ m.held = memory.held
                /\ \A h \in Assignment \ {g} : m.answer[h] = memory.answer[h]
                /\ m.answer[g].exists = memory.answer[g].exists /\ m.answer[g].owner = a /\ ~m.answer[g].isReleased
                /\ ~m.answer[g].idleTimer
                /\ \A b \in Assignment : Waits(b, memory.answer[g]) => Waits(b, m.answer[g])
  <2> HIDE DEF f, a, t
  <2> QED
    BY <1>2, <1>3, <1>5, CarriesOn DEF Waits
<1>6. CASE StartAnswer(f)
  <2>1. memory' = NewGeneration(memory, t, a) /\ run' = Started(f, "starting", a)
    BY <1>6 DEF StartAnswer
  <2>2. /\ run' \in [Assignment -> RunRecord] /\ run'[a].phase = "starting" /\ run'[a].task = t
        /\ run'[a].answer = a /\ \A b \in Assignment \ {a} : run'[b] = run[b]
    BY <1>2, <1>4, <2>1
  <2> HIDE DEF f, a, t
  <2>3. StartsWith(memory, memory', t, a)
    BY <1>2, <1>3, <2>1, StartsAnswer
  <2>4. memory'.held[t] = a /\ \A u \in Task \ {t} : memory'.held[u] = memory.held[u]
    BY <1>2, <1>3, <2>3 DEF StartsWith
  <2>5. \A h \in Assignment \ {a} :
          /\ memory.held[t] # h => memory'.answer[h] = memory.answer[h]
          /\ memory'.answer[h].exists = memory.answer[h].exists
          /\ memory'.answer[h].owner \in {a, memory.answer[h].owner}
          /\ memory.answer[h].isReleased => memory'.answer[h].isReleased
          /\ memory.held[t] = h => memory'.held[t] = h \/ memory'.answer[h].isReleased
          /\ \A b \in Assignment : Waits(b, memory.answer[h]) => Waits(b, memory'.answer[h])
    BY <2>3 DEF StartsWith, ReleaseOf, Waits, None, Assignment
  <2>6. a # None
    BY <1>2 DEF None, Assignment
  <2> QED
    BY <1>1, <2>2, <2>3, <2>4, <2>5, <2>6 DEF StartsWith, Begins, IsFresh
<1>7. CASE CarryOn(f)
  <2> DEFINE m == HeldGeneration(memory, t, a)
  <2>1. g # None /\ memory' = BeginRead(m, g, a) /\ run' = Started(f, "reading", g)
    BY <1>7 DEF CarryOn
  <2>2. /\ run' \in [Assignment -> RunRecord] /\ run'[a].phase = "reading" /\ run'[a].task = t
        /\ run'[a].answer = g /\ \A b \in Assignment \ {a} : run'[b] = run[b]
    BY <1>3, <1>4, <2>1
  <2>3. /\ m \in Memory /\ m.held = memory.held
        /\ \A h \in Assignment \ {g} : m.answer[h] = memory.answer[h]
        /\ m.answer[g].exists = memory.answer[g].exists /\ m.answer[g].owner = a /\ ~m.answer[g].isReleased
        /\ ~m.answer[g].idleTimer
        /\ \A b \in Assignment : Waits(b, memory.answer[g]) => Waits(b, m.answer[g])
    BY <1>5, <2>1
  <2>4. g \in Assignment
    BY <1>3, <2>1
  <2> HIDE DEF f, a, t, m, g
  <2>5. ReadsOn(m, memory', g, a) /\ Waits(a, memory'.answer[g])
    <3>1. ReadsOn(m, m, g, a)
      BY <1>2, <2>3, <2>4, ReadsNothing
    <3> QED
      BY <1>2, <2>1, <2>3, <2>4, <3>1, BeginReads
  <2>6. /\ memory'.held = memory.held
        /\ \A h \in Assignment \ {g} : memory'.answer[h] = memory.answer[h]
        /\ memory'.answer[g].exists = memory.answer[g].exists /\ memory'.answer[g].owner = a
        /\ ~memory'.answer[g].isReleased
        /\ ~memory'.answer[g].idleTimer
    BY <2>3, <2>5 DEF ReadsOn, ReadOf, SameHold
  <2>7. \A b \in Assignment : Waits(b, memory.answer[g]) => Waits(b, memory'.answer[g])
    BY <2>3, <2>5 DEF ReadsOn, ReadOf
  <2>8. memory.held[t] = g
    BY DEF g
  <2>9. \A h \in Assignment \ {a} :
          /\ memory.held[t] # h => memory'.answer[h] = memory.answer[h]
          /\ memory'.answer[h].exists = memory.answer[h].exists
          /\ memory'.answer[h].owner \in {a, memory.answer[h].owner}
          /\ memory.answer[h].isReleased => memory'.answer[h].isReleased
          /\ memory.held[t] = h => memory'.held[t] = h \/ memory'.answer[h].isReleased
          /\ \A b \in Assignment : Waits(b, memory.answer[h]) => Waits(b, memory'.answer[h])
    BY <1>3, <2>1, <2>6, <2>7, <2>8
  <2>10. ~memory'.answer[a].exists
    BY <1>2, <2>6, <2>8
  <2>11. memory'.answer[g].exists
    BY <1>3, <2>1, <2>6
  <2> QED
    BY <1>1, <2>1, <2>2, <2>5, <2>6, <2>8, <2>9, <2>10, <2>11 DEF Begins
<1>8. CASE CarryOnAtLimit(f)
  <2> DEFINE m == HeldGeneration(memory, t, a)
  <2>1. g # None /\ memory' = ClearGeneration(m, t, a) /\ run' = Started(f, "ended", None)
    BY <1>8 DEF CarryOnAtLimit
  <2>2. /\ run' \in [Assignment -> RunRecord] /\ run'[a].phase = "ended" /\ run'[a].task = t
        /\ \A b \in Assignment \ {a} : run'[b] = run[b]
    BY <1>4, <2>1
  <2>3. /\ m \in Memory /\ m.held = memory.held
        /\ \A h \in Assignment \ {g} : m.answer[h] = memory.answer[h]
        /\ m.answer[g].exists = memory.answer[g].exists /\ m.answer[g].owner = a
        /\ \A b \in Assignment : Waits(b, memory.answer[g]) => Waits(b, m.answer[g])
    BY <1>5, <2>1
  <2>4. g \in Assignment /\ memory.held[t] = g
    BY <1>3, <2>1
  <2> HIDE DEF f, a, t, m, g
  <2>5. Clears(m, memory', t, a)
    BY <1>2, <2>1, <2>3, ClearsIt
  <2>6. /\ memory'.held = [memory.held EXCEPT ![t] = None]
        /\ \A h \in Assignment \ {g} : memory'.answer[h] = memory.answer[h]
        /\ ReleaseOf(m.answer[g], memory'.answer[g])
    BY <2>1, <2>3, <2>4, <2>5 DEF Clears
  <2>7. memory'.held[t] = None /\ \A u \in Task \ {t} : memory'.held[u] = memory.held[u]
    BY <1>2, <1>3, <2>6
  <2>8. \A h \in Assignment \ {a} :
          /\ memory.held[t] # h => memory'.answer[h] = memory.answer[h]
          /\ memory'.answer[h].exists = memory.answer[h].exists
          /\ memory'.answer[h].owner \in {a, memory.answer[h].owner}
          /\ memory.answer[h].isReleased => memory'.answer[h].isReleased
          /\ memory.held[t] = h => memory'.held[t] = h \/ memory'.answer[h].isReleased
          /\ \A b \in Assignment : Waits(b, memory.answer[h]) => Waits(b, memory'.answer[h])
    BY <1>3, <2>1, <2>3, <2>4, <2>6 DEF ReleaseOf, Waits
  <2>9. ~memory'.answer[a].exists
    BY <1>2, <2>4, <2>6
  <2> QED
    BY <1>1, <2>2, <2>7, <2>8, <2>9 DEF Begins
<1>9. CASE CarryOnNothing(f)
  <2>1. g = None /\ memory' = memory /\ run' = Started(f, "ended", None)
    BY <1>9 DEF CarryOnNothing
  <2>2. /\ run' \in [Assignment -> RunRecord] /\ run'[a].phase = "ended" /\ run'[a].task = t
        /\ \A b \in Assignment \ {a} : run'[b] = run[b]
    BY <1>4, <2>1
  <2> HIDE DEF f, a, t
  <2>3. \A h \in Assignment : memory.held[t] # h
    BY <2>1 DEF None, Assignment
  <2> QED
    BY <1>1, <1>2, <2>1, <2>2, <2>3 DEF Begins
<1> QED
  BY <1>1, <1>6, <1>7, <1>8, <1>9

(* The worker starts without answers. *)
LEMMA InitAnswers ==
  Init => AnswersInv
<1> SUFFICES ASSUME Init
             PROVE  AnswersInv
  OBVIOUS
<1> DEFINE x == NoAnswer
<1>1. \A a \in Assignment : run[a].phase = "none"
  <2> DEFINE z == [phase |-> "none", task |-> CHOOSE t \in Task : TRUE, answer |-> None]
  <2>1. z.phase = "none"
    OBVIOUS
  <2> HIDE DEF z
  <2>2. run \in [Assignment -> {z}]
    BY DEF Init, z
  <2> QED
    BY <2>1, <2>2
<1>2. /\ \A a \in Assignment : memory.answer[a].exists = FALSE
      /\ \A t \in Task : memory.held[t] = None
  <2>1. x.exists = FALSE
    BY DEF NoAnswer
  <2>2. memory = [held |-> [t \in Task |-> None], answer |-> [a \in Assignment |-> x]]
    BY DEF Init, HeldAnswersInit
  <2> HIDE DEF x
  <2> QED
    BY <2>1, <2>2
<1>3. Active = {} /\ cancelled = {}
  BY <1>1 DEF Active, Init
<1>4. \A t \in Task : gateway[t].current = None
  BY InitWire DEF Init
<1> QED
  BY <1>1, <1>2, <1>3, <1>4 DEF AnswersInv, AnswersOfTasks, ReadersWait, OwnersAreCurrent, NothingReadForNobody

\* Every step keeps AnswersInv.
LEMMA NextAnswers ==
  WireInv /\ AnswersInv /\ [Next]_vars => AnswersInv'
<1> SUFFICES ASSUME WireInv, AnswersInv, [Next]_vars
             PROVE  AnswersInv'
  OBVIOUS
<1>1. CASE HandleMessage
  <2>1. CASE Head(toWorker).type = "stage.assign"
    BY <1>1, <2>1, StartsARun, AnswersByBeginning DEF HandleMessage
  <2> QED
    BY <1>1, <2>1, AnswersByCancel
<1>2. CASE OnClose
  BY <1>2, AnswersByClose
<1>3. CASE GatewayReads
  BY <1>3, GatewayReadsIsStep, AnswersByGateway
<1>4. ASSUME NEW a \in Assignment, RunStep(a)
      PROVE  AnswersInv'
  <2>1. a \in Active /\ (GoesOn(a) \/ GivesUp(a) \/ ReportsPieces(a))
    BY <1>4, RunStepKinds, WireParts
  <2> QED
    BY <2>1, AnswersByGoing, RunEndsIt, AnswersByEnding
<1>5. ASSUME NEW a \in Assignment, Heartbeat(a) \/ IdleTimeout(a)
      PROVE  AnswersInv'
  <2>1. CASE Heartbeat(a)
    <3>1. UNCHANGED <<memory, workerVars, gateway>>
      BY <2>1 DEF Heartbeat
    <3> QED
      BY <3>1, AnswersByGateway
  <2> QED
    BY <1>5, <2>1, AnswersByTimeout
<1>6. ASSUME NEW t \in Task, Place(t) \/ LeaseExpires(t) \/ ConsumerCancels(t)
      PROVE  AnswersInv'
  BY <1>6, PlaceIsStep, ExpiryIsStep, CancelIsStep, AnswersByGateway, WireParts
<1>7. CASE UNCHANGED vars
  <2>1. UNCHANGED <<memory, workerVars, gateway>>
    BY <1>7 DEF vars, gatewayVars
  <2> QED
    BY <2>1, AnswersByGateway
<1> QED
  BY <1>1, <1>2, <1>3, <1>4, <1>5, <1>6, <1>7 DEF Next

-----------------------------------------------------------------------------
(* Who holds what *)

\* Of every execution: assignments and frames keep their order, each names one
\* task, and the answers held are those of the runs under way.
THEOREM WorkerInductive ==
  Spec => [](WireInv /\ AnswersInv)
<1>1. Init => WireInv /\ AnswersInv
  BY InitWire, InitAnswers
<1>2. WireInv /\ AnswersInv /\ [Next]_vars => (WireInv /\ AnswersInv)'
  BY NextWire, NextAnswers
<1> QED
  BY <1>1, <1>2, PTL DEF Spec

\* The type invariant of the worker, its gateway and the two channels.
THEOREM WorkerTypeCorrect ==
  Spec => []WorkerTypeOK
<1>1. WireInv /\ AnswersInv => WorkerTypeOK
  BY DEF WireInv
<1> QED
  BY <1>1, WorkerInductive, PTL

\* LeaseHeartbeat beats for exactly the runs under way that were not cancelled,
\* and cancelledStageAssignmentIds holds no run that is over.
THEOREM LeasesAreExtended ==
  Spec => []LeaseExtendedWhileRunning
<1>1. WireInv /\ AnswersInv => LeaseExtendedWhileRunning
  BY DEF WireInv
<1> QED
  BY <1>1, WorkerInductive, PTL

\* However starts, replacements, cancellations, timers and a closing connection
\* interleave, no answer is left open at the local server that no run and no
\* timer will close.
THEOREM NoAnswerIsLeaked ==
  Spec => []NothingReadForNobody
<1>1. WireInv /\ AnswersInv => NothingReadForNobody
  BY DEF AnswersInv
<1> QED
  BY <1>1, WorkerInductive, PTL

\* The run the gateway waits for has the answer of its task in hand, and nothing
\* said of an earlier assignment of the task takes it away.
THEOREM CurrentRunIsSafe ==
  Spec => []CurrentRunKeepsItsAnswer
<1>1. WireInv /\ AnswersInv => CurrentRunKeepsItsAnswer
  <2> SUFFICES ASSUME WireInv, AnswersInv, NEW t \in Task,
                      gateway[t].current # None, gateway[t].current \in Active
               PROVE  /\ memory.held[t] = run[gateway[t].current].answer
                      /\ memory.answer[run[gateway[t].current].answer].owner = gateway[t].current
                      /\ ~memory.answer[run[gateway[t].current].answer].isReleased
    BY DEF CurrentRunKeepsItsAnswer
  <2> DEFINE a == gateway[t].current
  <2>1. Begun(a) /\ a # None
    BY DEF Active, Begun
  <2>2. run[a].answer # None
    BY DEF AnswersInv, AnswersOfTasks
  <2>3. memory.held[t] = run[a].answer
    BY <2>1 DEF AnswersInv, OwnersAreCurrent
  <2>4. memory.answer[memory.held[t]].owner = a
    BY <2>1, <2>2, <2>3 DEF AnswersInv, OwnersAreCurrent
  <2>5. ~memory.answer[memory.held[t]].isReleased
    BY <2>2, <2>3 DEF AnswersInv, NothingReadForNobody
  <2> QED
    BY <2>3, <2>4, <2>5
<1> QED
  BY <1>1, WorkerInductive, PTL

\* From the moment a worker has read stage.cancel for a run it sends nothing but
\* a heartbeat for it, whatever the run does until it ends.
THEOREM CancelledRunsAreSilent ==
  Spec => CancelledRunsStaySilent
<1> DEFINE SaysNothingOf(a) ==
             Len(toGateway') > Len(toGateway) =>
               LET f == toGateway'[Len(toGateway')] IN f.of = a => f.type = "stage.heartbeat"
           Silence == \A a \in cancelled : SaysNothingOf(a)
<1>1. ASSUME WireInv, AnswersInv, Next
      PROVE  Silence
  <2>1. /\ toGateway \in Seq(WorkerFrame) /\ cancelled \subseteq Active /\ WorkerTypeOK
    BY <1>1, WireParts, WorkerTypes DEF LeaseExtendedWhileRunning
  <2>2. Len(toGateway) \in Nat /\ ~(Len(toGateway) > Len(toGateway))
    BY <2>1
  <2>3. CASE UNCHANGED toGateway
    BY <2>2, <2>3
  <2>4. ASSUME NEW f \in WorkerFrame, f.type = "stage.heartbeat" \/ f.of \notin cancelled,
               toGateway' = Append(toGateway, f)
        PROVE  Silence
    <3>1. toGateway'[Len(toGateway')] = f
      BY <2>1, <2>4, SeqAppended
    <3> QED
      BY <2>4, <3>1
  <2>5. ASSUME NEW a \in Assignment, RunStep(a)
        PROVE  Silence
    <3>1. GoesOn(a) \/ GivesUp(a) \/ ReportsPieces(a)
      BY <1>1, <2>1, <2>5, RunStepKinds
    <3>2. ASSUME NEW m, NEW f \in WorkerFrame, f.of = a, EndRun(a, m, f)
          PROVE  Silence
      <4>1. CASE a \in cancelled \/ ~connected
        BY <2>3, <3>2, <4>1 DEF EndRun
      <4>2. CASE ~(a \in cancelled \/ ~connected)
        <5>1. toGateway' = Append(toGateway, f) /\ f.of \notin cancelled
          BY <3>2, <4>2 DEF EndRun
        <5> QED
          BY <2>4, <5>1
      <4> QED
        BY <4>1, <4>2
    <3> HIDE DEF Silence
    <3>3. CASE GoesOn(a)
      BY <2>3, <3>3 DEF GoesOn
    <3>4. CASE GivesUp(a)
      BY <3>2, <3>4 DEF GivesUp
    <3>5. CASE ReportsPieces(a)
      BY <3>2, <3>5 DEF ReportsPieces
    <3> QED
      BY <3>1, <3>3, <3>4, <3>5
  <2>6. ASSUME NEW a \in Assignment, Heartbeat(a)
        PROVE  Silence
    <3> DEFINE f == Report(a, "stage.heartbeat", <<>>, FALSE, 0)
    <3>1. <<>> \in Seq(1..LastPiece) /\ 0 \in 0..LastPiece /\ run[a].task \in Task
      BY <2>1, HeldAnswersAssumption, WorkerTypes DEF RunRecord
    <3>2. f \in WorkerFrame /\ f.type = "stage.heartbeat"
      BY <3>1 DEF Report, WorkerFrame
    <3>3. toGateway' = Append(toGateway, f)
      BY <2>6 DEF Heartbeat
    <3> HIDE DEF f, Silence
    <3> QED
      BY <2>4, <3>2, <3>3
  <2>7. CASE HandleMessage
    <3> DEFINE f == Head(toWorker)
    <3>1. CASE f.type # "stage.assign"
      <4>1. UNCHANGED toGateway
        BY <2>7, <3>1 DEF HandleMessage, OnCancel
      <4> HIDE DEF Silence
      <4> QED
        BY <2>3, <4>1
    <3>2. CASE f.type = "stage.assign"
      <4>1. f.of \notin cancelled /\ f \in GatewayFrame
        BY <1>1, <2>1, <2>7, <3>2, FirstMessage DEF HandleMessage
      <4>2. StartAnswer(f) \/ CarryOn(f) \/ CarryOnAtLimit(f) \/ CarryOnNothing(f)
        BY <2>7, <3>2 DEF HandleMessage, StartRun
      <4> HIDE DEF f
      <4> DEFINE e == RunFrame("stage.accepted", f, FALSE, 0)
      <4>3. 0 \in 0..LastPiece /\ <<>> \in Seq(1..LastPiece)
        BY HeldAnswersAssumption
      <4>4. e \in WorkerFrame /\ e.of = f.of
        BY <4>1, <4>3 DEF RunFrame, WorkerFrame, GatewayFrame
      <4> HIDE DEF e
      <4>5. ASSUME toGateway' = Append(toGateway, e)
            PROVE  Silence
        BY <2>4, <4>1, <4>4, <4>5
      <4>6. ASSUME NEW d, d.of = f.of, toGateway' = toGateway \o <<e, d>>
            PROVE  Silence
        <5>1. toGateway'[Len(toGateway')] = d
          <6>1. /\ Len(toGateway') = Len(toGateway) + 2
                /\ toGateway'[Len(toGateway) + 2] = <<e, d>>[2]
            BY <2>1, <2>2, <4>6
          <6> QED
            BY <6>1
        <5> QED
          BY <4>1, <4>6, <5>1
      <4> HIDE DEF Silence
      <4>7. CASE StartAnswer(f) \/ CarryOn(f)
        BY <4>5, <4>7 DEF StartAnswer, CarryOn, e
      <4>8. CASE CarryOnAtLimit(f)
        <5> DEFINE d == RunFrame("stage.result", f, TRUE,
                                 HeldGeneration(memory, f.task, f.of).answer[memory.held[f.task]].pieceCount)
        <5>1. d.of = f.of
          BY DEF RunFrame
        <5>2. toGateway' = toGateway \o <<e, d>>
          BY <4>8 DEF CarryOnAtLimit, e
        <5> HIDE DEF d
        <5> QED
          BY <4>6, <5>1, <5>2
      <4>9. CASE CarryOnNothing(f)
        <5> DEFINE d == RunFrame("stage.failed", f, FALSE, 0)
        <5>1. d.of = f.of
          BY DEF RunFrame
        <5>2. toGateway' = toGateway \o <<e, d>>
          BY <4>9 DEF CarryOnNothing, e
        <5> HIDE DEF d
        <5> QED
          BY <4>6, <5>1, <5>2
      <4> QED
        BY <4>2, <4>7, <4>8, <4>9
    <3> QED
      BY <3>1, <3>2
  <2>8. CASE OnClose \/ GatewayReads
    <3>1. toGateway' = <<>> \/ (toGateway # <<>> /\ toGateway' = Tail(toGateway))
      BY <2>8 DEF OnClose, GatewayReads
    <3>2. ~(Len(toGateway') > Len(toGateway))
      BY <2>1, <2>2, <3>1, SeqTail
    <3> QED
      BY <3>2
  <2>9. ASSUME NEW a \in Assignment, IdleTimeout(a)
        PROVE  UNCHANGED toGateway
    BY <2>9 DEF IdleTimeout
  <2>10. ASSUME NEW t \in Task, Place(t) \/ LeaseExpires(t) \/ ConsumerCancels(t)
         PROVE  UNCHANGED toGateway
    BY <2>10 DEF Place, LeaseExpires, ConsumerCancels
  <2> HIDE DEF Silence
  <2> QED
    BY <1>1, <2>3, <2>5, <2>6, <2>7, <2>8, <2>9, <2>10 DEF Next
<1>2. WireInv /\ AnswersInv /\ [Next]_vars => [Silence]_vars
  BY <1>1
<1>3. CancelledRunsStaySilent <=> [][Silence]_vars
  BY DEF CancelledRunsStaySilent
<1> QED
  BY <1>2, <1>3, WorkerInductive, PTL DEF Spec

-----------------------------------------------------------------------------
(* The pieces of an answer *)

\* The pieces 1 to n, one by one.
LEMMA CountedGrows ==
  ASSUME NEW n \in Nat
  PROVE  /\ Counted(n) \in Seq(Nat) /\ Len(Counted(n)) = n
         /\ Append(Counted(n), n + 1) = Counted(n + 1)
<1>1. Counted(n) \in Seq(Nat) /\ Len(Counted(n)) = n
  BY DEF Counted
<1>2. Counted(n + 1) \in Seq(Nat) /\ Len(Counted(n + 1)) = n + 1
  BY DEF Counted
<1>3. /\ Append(Counted(n), n + 1) \in Seq(Nat) /\ Len(Append(Counted(n), n + 1)) = n + 1
      /\ \A i \in 1..n : Append(Counted(n), n + 1)[i] = Counted(n)[i]
      /\ Append(Counted(n), n + 1)[n + 1] = n + 1
  BY <1>1
<1>4. \A i \in 1..(n + 1) : Append(Counted(n), n + 1)[i] = Counted(n + 1)[i]
  <2> TAKE i \in 1..(n + 1)
  <2>1. Counted(n + 1)[i] = i
    BY DEF Counted
  <2>2. i \in 1..n => Counted(n)[i] = i
    BY DEF Counted
  <2>3. i \in 1..n \/ i = n + 1
    OBVIOUS
  <2> QED
    BY <1>3, <2>1, <2>2, <2>3
<1> QED
  BY <1>1, <1>2, <1>3, <1>4, SeqEqual

\* A sequence grows at its end.
LEMMA ConcatAppends ==
  ASSUME NEW S, NEW p \in Seq(S), NEW q \in Seq(S), NEW e \in S
  PROVE  p \o Append(q, e) = Append(p \o q, e)
<1>1. p \o q \in Seq(S) /\ Append(q, e) \in Seq(S)
  BY ConcatProperties, AppendProperties
<1>2. p \o Append(q, e) \in Seq(S) /\ Append(p \o q, e) \in Seq(S)
  BY <1>1, ConcatProperties, AppendProperties
<1>3. Len(p \o Append(q, e)) = Len(Append(p \o q, e)) /\ Len(p) \in Nat /\ Len(q) \in Nat
      /\ Len(Append(p \o q, e)) = Len(p) + Len(q) + 1
  BY <1>1, ConcatProperties, AppendProperties, LenProperties
<1>4. \A i \in 1..Len(Append(p \o q, e)) : (p \o Append(q, e))[i] = Append(p \o q, e)[i]
  <2> TAKE i \in 1..Len(Append(p \o q, e))
  <2>1. CASE i \in 1..Len(p)
    BY <1>1, <1>3, <2>1, ConcatProperties, AppendProperties
  <2>2. CASE i \in (Len(p) + 1)..(Len(p) + Len(q))
    BY <1>1, <1>3, <2>2, ConcatProperties, AppendProperties
  <2>3. CASE i = Len(p) + Len(q) + 1
    BY <1>1, <1>3, <2>3, ConcatProperties, AppendProperties
  <2> QED
    BY <1>3, <2>1, <2>2, <2>3
<1> QED
  BY <1>2, <1>3, <1>4, SeqEqual

\* What was reported of an answer, and what waits to be, is all that was read.
AllThere(s) == s.reported \o s.unreported = Counted(s.pieceCount)

(* Reading on appends the next piece and loses none. *)
LEMMA PieceIsAppended ==
  ASSUME NEW s \in AnswerRecord, NEW z \in AnswerRecord, NEW a, ReadOf(s, z, a), AllThere(s)
  PROVE  AllThere(z)
<1>1. /\ s.reported \in Seq(1..LastPiece) /\ s.unreported \in Seq(1..LastPiece)
      /\ s.pieceCount \in Nat /\ z.pieceCount \in 0..LastPiece
  BY HeldAnswersAssumption DEF AnswerRecord
<1>2. CASE z.pieceCount = s.pieceCount /\ z.unreported = s.unreported
  BY <1>2 DEF ReadOf, AllThere
<1>3. CASE z.pieceCount = s.pieceCount + 1 /\ z.unreported = Append(s.unreported, s.pieceCount + 1)
  <2>1. s.pieceCount + 1 \in 1..LastPiece
    BY <1>1, <1>3
  <2>2. s.reported \o Append(s.unreported, s.pieceCount + 1)
          = Append(s.reported \o s.unreported, s.pieceCount + 1)
    <3> DEFINE p == s.reported
               q == s.unreported
               e == s.pieceCount + 1
    <3>1. p \in Seq(1..LastPiece) /\ q \in Seq(1..LastPiece) /\ e \in 1..LastPiece
      BY <1>1, <2>1
    <3> HIDE DEF p, q, e
    <3>2. p \o Append(q, e) = Append(p \o q, e)
      BY <3>1, ConcatAppends
    <3> QED
      BY <3>2 DEF p, q, e
  <2>3. Append(Counted(s.pieceCount), s.pieceCount + 1) = Counted(s.pieceCount + 1)
    BY <1>1, CountedGrows
  <2>4. z.reported = s.reported
    BY DEF ReadOf
  <2> QED
    BY <1>3, <2>2, <2>3, <2>4 DEF AllThere
<1> QED
  BY <1>2, <1>3 DEF ReadOf

\* A first run starts without a piece.
LEMMA StartsWithNothing ==
  ASSUME NEW m \in Memory, NEW t \in Task, NEW a \in Assignment, m.held[t] # a,
         NEW n, n = NewGeneration(m, t, a), NEW h \in Assignment, AllThere(m.answer[h])
  PROVE  AllThere(n.answer[h])
<1>1. StartsWith(m, n, t, a)
  BY StartsAnswer
<1>2. CASE h = a
  <2>1. <<>> \o <<>> = <<>> /\ Counted(0) = <<>>
    <3>1. <<>> \in Seq(Nat)
      OBVIOUS
    <3>2. Counted(0) \in Seq(Nat) /\ Len(Counted(0)) = 0
      BY CountedGrows
    <3> QED
      BY <3>1, <3>2, ConcatEmptySeq, EmptySeq
  <2> QED
    BY <1>1, <1>2, <2>1 DEF StartsWith, IsFresh, AllThere
<1>3. CASE h # a
  <2>1. h # None
    BY DEF None, Assignment
  <2>2. n.answer[h] = m.answer[h] \/ ReleaseOf(m.answer[h], n.answer[h])
    BY <1>1, <1>3, <2>1 DEF StartsWith
  <2> QED
    BY <2>2 DEF ReleaseOf, SamePieces, AllThere
<1> QED
  BY <1>2, <1>3

\* Every step keeps them all.
LEMMA PiecesKept ==
  ASSUME WireInv, AnswersInv, [Next]_vars, NEW h \in Assignment, AllThere(memory.answer[h])
  PROVE  AllThere(memory'.answer[h])
<1> DEFINE s == memory.answer[h]
           z == memory'.answer[h]
<1>1. /\ memory \in Memory /\ memory' \in Memory /\ s \in AnswerRecord /\ z \in AnswerRecord
      /\ WorkerTypeOK /\ memory.held \in [Task -> Assignment \cup {None}]
  <2>1. /\ memory \in Memory /\ WorkerTypeOK
    BY WireParts, WorkerTypes
  <2>2. memory' \in Memory
    BY NextWire DEF WireInv, WorkerTypeOK, HeldAnswersTypeOK, Memory, AnswerRecord
  <2> QED
    BY <2>1, <2>2 DEF Memory
<1>2. SamePieces(s, z) => AllThere(z)
  BY DEF SamePieces, AllThere
<1>3. ASSUME NEW a \in Assignment, RunStep(a)
      PROVE  AllThere(z)
  <2> DEFINE g == run[a].answer
  <2>1. a \in Active /\ (GoesOn(a) \/ GivesUp(a) \/ ReportsPieces(a))
    BY <1>1, <1>3, RunStepKinds
  <2>2. g \in Assignment /\ run[a].task \in Task
    BY <1>1, <2>1, AnswersTyped
  <2> HIDE DEF g
  <2>3. ASSUME NEW m, ReadsOn(memory, m, g, a)
        PROVE  m \in Memory /\ m.answer[h] \in AnswerRecord /\ AllThere(m.answer[h])
    <3>1. m \in Memory /\ m.answer[h] \in AnswerRecord
      BY <2>3 DEF ReadsOn, Memory
    <3>2. CASE h = g
      BY <1>1, <2>3, <3>1, <3>2, PieceIsAppended DEF ReadsOn
    <3>3. CASE h # g
      BY <2>3, <3>1, <3>3 DEF ReadsOn
    <3> QED
      BY <3>1, <3>2, <3>3
  <2>4. CASE GoesOn(a)
    BY <2>3, <2>4 DEF GoesOn, g
  <2>5. CASE GivesUp(a)
    <3>1. PICK m \in Memory, f \in WorkerFrame :
            ReadsOn(memory, m, g, a) /\ EndRun(a, ClearGeneration(m, run[a].task, a), f)
      BY <2>5 DEF GivesUp, g
    <3>2. AllThere(m.answer[h])
      BY <2>3, <3>1
    <3>3. Clears(m, memory', run[a].task, a)
      BY <2>2, <3>1, ClearsIt DEF EndRun
    <3>4. SamePieces(m.answer[h], z)
      BY <2>2, <3>3 DEF Clears, ReleaseOf, SamePieces
    <3> QED
      BY <3>2, <3>4 DEF SamePieces, AllThere
  <2>6. CASE ReportsPieces(a)
    <3>1. PICK m \in Memory, f \in WorkerFrame :
            ReadsOn(memory, m, g, a) /\ EndRun(a, PieceReported(m, g), f)
      BY <2>6 DEF ReportsPieces, g
    <3>2. AllThere(m.answer[h]) /\ m.answer[h] \in AnswerRecord
      BY <2>3, <3>1
    <3>3. memory' = PieceReported(m, g)
      BY <3>1 DEF EndRun
    <3>4. CASE h # g
      <4>1. z = m.answer[h]
        <5>1. \A i \in Assignment \ {g} : memory'.answer[i] = m.answer[i]
          BY <2>2, <3>3, ReportsIt
        <5> QED
          BY <3>4, <5>1
      <4> QED
        BY <3>2, <4>1
    <3>5. CASE h = g
      <4> DEFINE x == m.answer[h]
      <4>1. /\ z.reported = x.reported \o x.unreported /\ z.unreported = <<>>
            /\ z.pieceCount = x.pieceCount
        BY <2>2, <3>3, <3>5, ReportsIt
      <4>2. z.reported \in Seq(1..LastPiece)
        BY <1>1 DEF AnswerRecord
      <4>3. z.reported \o <<>> = z.reported
        BY <4>2, ConcatEmptySeq
      <4> QED
        BY <3>2, <4>1, <4>3 DEF AllThere
    <3> QED
      BY <3>4, <3>5
  <2> QED
    BY <2>1, <2>4, <2>5, <2>6
<1>4. CASE HandleMessage
  <2> DEFINE f == Head(toWorker)
             a == f.of
             t == f.task
  <2>1. a \in Assignment /\ t \in Task /\ (f.type = "stage.assign" => memory.held[t] # a)
    BY <1>4, FirstMessage DEF HandleMessage
  <2>2. CASE f.type # "stage.assign"
    <3>1. Clears(memory, memory', t, a)
      BY <1>1, <1>4, <2>1, <2>2, ClearsIt DEF HandleMessage, OnCancel
    <3> HIDE DEF f, a, t
    <3>2. SamePieces(s, z)
      BY <1>1, <3>1 DEF Clears, ReleaseOf, SamePieces
    <3> QED
      BY <1>2, <3>2
  <2>3. CASE f.type = "stage.assign"
    <3>1. StartAnswer(f) \/ CarryOn(f) \/ CarryOnAtLimit(f) \/ CarryOnNothing(f)
      BY <1>4, <2>3 DEF HandleMessage, StartRun
    <3> DEFINE g == memory.held[t]
               m == HeldGeneration(memory, t, a)
    <3>2. ASSUME g # None
          PROVE  m \in Memory /\ g \in Assignment /\ SamePieces(s, m.answer[h])
      <4> HIDE DEF f, a, t
      <4> QED
        BY <1>1, <2>1, <3>2, CarriesOn, SMTT(20) DEF SamePieces
    <3>3. CASE StartAnswer(f)
      <4>1. memory' = NewGeneration(memory, t, a) /\ memory.held[t] # a
        BY <2>1, <2>3, <3>3 DEF StartAnswer
      <4> HIDE DEF f, a, t
      <4>2. memory \in Memory
        BY <1>1
      <4> QED
        BY <2>1, <4>1, <4>2, StartsWithNothing
    <3>4. CASE CarryOn(f)
      <4>1. g # None /\ memory' = BeginRead(m, g, a)
        BY <3>4 DEF CarryOn
      <4>2. m \in Memory /\ g \in Assignment /\ SamePieces(s, m.answer[h]) /\ m.answer[h] \in AnswerRecord
        BY <3>2, <4>1 DEF Memory
      <4> HIDE DEF f, a, t, m, g
      <4>3. AllThere(m.answer[h])
        BY <4>2 DEF SamePieces, AllThere
      <4>4. ReadsOn(m, memory', g, a)
        BY <2>1, <4>1, <4>2, ReadsNothing, BeginReads
      <4> QED
        BY <1>1, <4>2, <4>3, <4>4, PieceIsAppended DEF ReadsOn
    <3>5. CASE CarryOnAtLimit(f)
      <4>1. g # None /\ memory' = ClearGeneration(m, t, a)
        BY <3>5 DEF CarryOnAtLimit
      <4>2. m \in Memory /\ SamePieces(s, m.answer[h])
        BY <3>2, <4>1
      <4> HIDE DEF f, a, t, m, g
      <4>3. Clears(m, memory', t, a)
        BY <2>1, <4>1, <4>2, ClearsIt
      <4> QED
        BY <1>2, <4>2, <4>3 DEF Clears, ReleaseOf, SamePieces
    <3>6. CASE CarryOnNothing(f)
      BY <3>6 DEF CarryOnNothing
    <3> QED
      BY <3>1, <3>3, <3>4, <3>5, <3>6
  <2> QED
    BY <2>2, <2>3
<1>5. CASE OnClose
  <2>1. memory' = ClearEveryGeneration(memory)
    BY <1>5 DEF OnClose
  <2> QED
    BY <1>1, <1>2, <2>1, ClearsEvery DEF ReleaseOf
<1>6. ASSUME NEW a \in Assignment, IdleTimeout(a)
      PROVE  AllThere(z)
  <2>1. IdleTimerFires(a)
    BY <1>6 DEF IdleTimeout
  <2>2. z = s \/ SamePieces(s, z)
    BY <1>1, <2>1, TimerFires DEF ReleaseOf
  <2> QED
    BY <1>2, <2>2
<1>7. CASE UNCHANGED memory
  BY <1>7
<1>8. ASSUME GatewayReads \/ (\E a \in Assignment : Heartbeat(a)) \/ UNCHANGED vars
             \/ \E t \in Task : Place(t) \/ LeaseExpires(t) \/ ConsumerCancels(t)
      PROVE  UNCHANGED memory
  BY <1>8 DEF GatewayReads, Heartbeat, Place, LeaseExpires, ConsumerCancels, vars
<1> QED
  BY <1>3, <1>4, <1>5, <1>6, <1>7, <1>8 DEF Next

\* Two runs may read from one answer at a time, one of them replaced: whatever
\* they read, and in whichever order they end, no piece is lost or returned twice.
THEOREM NoPieceIsDropped ==
  Spec => []NoPieceDroppedByTheWorker
<1>1. NoPieceDroppedByTheWorker <=> \A h \in Assignment : AllThere(memory.answer[h])
  BY DEF NoPieceDroppedByTheWorker, AllThere, Counted
<1>2. Init => NoPieceDroppedByTheWorker
  <2> SUFFICES ASSUME Init, NEW h \in Assignment
               PROVE  AllThere(memory.answer[h])
    BY <1>1
  <2> DEFINE x == NoAnswer
  <2>1. x.reported = <<>> /\ x.unreported = <<>> /\ x.pieceCount = 0
    BY DEF NoAnswer
  <2>2. memory.answer[h] = x
    BY DEF Init, HeldAnswersInit
  <2> HIDE DEF x
  <2>3. <<>> \o <<>> = <<>> /\ Counted(0) = <<>>
    <3>1. <<>> \in Seq(Nat)
      OBVIOUS
    <3>2. Counted(0) \in Seq(Nat) /\ Len(Counted(0)) = 0
      BY CountedGrows
    <3> QED
      BY <3>1, <3>2, ConcatEmptySeq, EmptySeq
  <2> QED
    BY <2>1, <2>2, <2>3 DEF AllThere
<1>3. WireInv /\ AnswersInv /\ NoPieceDroppedByTheWorker /\ [Next]_vars => NoPieceDroppedByTheWorker'
  <2> SUFFICES ASSUME WireInv, AnswersInv, [Next]_vars, NoPieceDroppedByTheWorker
               PROVE  NoPieceDroppedByTheWorker'
    OBVIOUS
  <2>1. \A h \in Assignment : AllThere(memory'.answer[h])
    BY <1>1, PiecesKept
  <2> QED
    BY <2>1 DEF NoPieceDroppedByTheWorker, AllThere, Counted
<1> QED
  BY <1>2, <1>3, WorkerInductive, PTL DEF Spec

-----------------------------------------------------------------------------
(* What the consumer of a task has *)

\* What was held is held still, or is not held any more; and no run returned a
\* piece.
ReportsNothing(m, n) ==
  /\ \A t \in Task : n.held[t] \in {m.held[t], None}
  /\ \A h \in Assignment : n.answer[h].reported = m.answer[h].reported

\* What task t has of its answer is what it had.
SameSent(t, m, n) == n.held[t] # None => m.held[t] # None /\ Sent(t, n) = Sent(t, m)

(* A step that reports nothing changes nothing of what was sent. *)
LEMMA SameIsSent ==
  ASSUME NEW m \in Memory, NEW n \in Memory, ReportsNothing(m, n), NEW t \in Task
  PROVE  SameSent(t, m, n)
<1>1. m.held[t] # None => m.held[t] \in Assignment
  BY DEF Memory
<1> QED
  BY <1>1 DEF ReportsNothing, Sent, SameSent

\* The frames of q that carry pieces of t are those of p, d places further on;
\* or p has lost some of them.
ComesFrom(p, q, d, t) ==
  \A i \in DOMAIN p : Carries(p[i], t) => i + d \in DOMAIN q /\ q[i + d] = p[i]

GoesTo(q, p, d, t) ==
  \A i \in DOMAIN q : Carries(q[i], t) => i - d \in DOMAIN p /\ p[i - d] = q[i]

\* What a consumer has stays true of what is on its way: the pieces on their way
\* are the same, or fewer while the gateway has refused one.
LEMMA DeliveryKept ==
  ASSUME NEW t \in Task, NEW x \in GatewayTask, NEW y \in GatewayTask,
         NEW q \in Seq(WorkerFrame), NEW p \in Seq(WorkerFrame), NEW d \in {0, 1},
         NEW m \in Memory, NEW n \in Memory, Delivery(t, x, q, m), SameSent(t, m, n),
         y.received = x.received, ComesFrom(p, q, d, t),
         y.refused \/ (~x.refused /\ GoesTo(q, p, d, t)),
         y.current = x.current \/ \A i \in DOMAIN p : Carries(p[i], t) => p[i].of # y.current
  PROVE  Delivery(t, y, p, n)
<1>1. InOrder(y)
  <2>1. InOrder(x) /\ (~y.refused => ~x.refused)
    BY DEF Delivery
  <2> QED
    BY <2>1 DEF InOrder
<1>2. n.held[t] # None => m.held[t] # None /\ Sent(t, n) = Sent(t, m)
  BY DEF SameSent
<1>3. /\ \A i \in DOMAIN p : i \in Nat
      /\ \A i \in DOMAIN q : i \in Nat
  OBVIOUS
<1>4. BehindTheAnswer(t, y, p, n)
  <2> SUFFICES ASSUME n.held[t] # None
               PROVE  /\ \A k \in DOMAIN y.received : y.received[k] \leq Sent(t, n)
                      /\ ~y.refused /\ (\A i \in DOMAIN p : ~Carries(p[i], t)) => Len(y.received) = Sent(t, n)
    BY DEF BehindTheAnswer
  <2>1. BehindTheAnswer(t, x, q, m)
    BY DEF Delivery
  <2>2. \A k \in DOMAIN y.received : y.received[k] \leq Sent(t, n)
    BY <1>2, <2>1 DEF BehindTheAnswer
  <2>3. ASSUME ~y.refused, \A i \in DOMAIN p : ~Carries(p[i], t)
        PROVE  Len(y.received) = Sent(t, n)
    <3>1. \A i \in DOMAIN q : ~Carries(q[i], t)
      BY <2>3 DEF GoesTo
    <3> QED
      BY <1>2, <2>1, <2>3, <3>1 DEF BehindTheAnswer
  <2> QED
    BY <2>2, <2>3
<1>5. ASSUME NEW i \in DOMAIN p, Carries(p[i], t), p[i].of = y.current
      PROVE  Follows(i, t, y, p, n)
  <2>1. i + d \in DOMAIN q /\ q[i + d] = p[i] /\ y.current = x.current
    BY <1>5 DEF ComesFrom
  <2>2. Follows(i + d, t, x, q, m)
    BY <1>5, <2>1 DEF Delivery
  <2>3. PICK base \in Nat :
           /\ q[i + d].newText = [k \in 1..Len(q[i + d].newText) |-> base + k]
           /\ \A k \in DOMAIN x.received : x.received[k] \leq base
           /\ ~x.refused /\ ~LateBefore(i + d, t, q, x.current) => Len(x.received) = base
           /\ m.held[t] # None => Sent(t, m) = base + Len(q[i + d].newText)
    BY <2>2 DEF Follows
  <2>4. ASSUME ~y.refused, ~LateBefore(i, t, p, y.current)
        PROVE  Len(y.received) = base
    <3>1. ~x.refused /\ GoesTo(q, p, d, t)
      BY <2>4
    <3>2. ASSUME NEW j \in DOMAIN q, j < i + d, Carries(q[j], t), q[j].of # x.current
          PROVE  FALSE
      <4>1. j - d \in DOMAIN p /\ p[j - d] = q[j]
        BY <3>1, <3>2 DEF GoesTo
      <4>2. j - d < i
        BY <1>3, <3>2
      <4> QED
        BY <2>1, <2>4, <3>2, <4>1, <4>2 DEF LateBefore
    <3>3. ~LateBefore(i + d, t, q, x.current)
      BY <3>2 DEF LateBefore
    <3> QED
      BY <2>3, <3>1, <3>3
  <2>5. n.held[t] # None => Sent(t, n) = base + Len(p[i].newText)
    BY <1>2, <2>1, <2>3
  <2>6. p[i].newText = [k \in 1..Len(p[i].newText) |-> base + k]
    BY <2>1, <2>3
  <2>7. \A k \in DOMAIN y.received : y.received[k] \leq base
    BY <2>3
  <2> QED
    BY <2>4, <2>5, <2>6, <2>7 DEF Follows
<1> QED
  BY <1>1, <1>4, <1>5 DEF Delivery

\* Reading, releasing and taking in hand return no piece to the gateway.
LEMMA ReportingNothing ==
  ASSUME NEW m \in Memory, NEW n \in Memory
  PROVE  /\ \A g, a \in Assignment : ReadsOn(m, n, g, a) => ReportsNothing(m, n)
         /\ \A t \in Task, a \in Assignment : Clears(m, n, t, a) => ReportsNothing(m, n)
         /\ \A o \in Memory : ReportsNothing(m, n) /\ ReportsNothing(n, o) => ReportsNothing(m, o)
         /\ ReportsNothing(m, m)
<1>1. ASSUME NEW g \in Assignment, NEW a \in Assignment, ReadsOn(m, n, g, a)
      PROVE  ReportsNothing(m, n)
  <2>1. n.held = m.held /\ \A h \in Assignment : n.answer[h].reported = m.answer[h].reported
    BY <1>1 DEF ReadsOn, ReadOf
  <2> QED
    BY <2>1 DEF ReportsNothing
<1>2. ASSUME NEW t \in Task, NEW a \in Assignment, Clears(m, n, t, a)
      PROVE  ReportsNothing(m, n)
  <2>1. m.held \in [Task -> Assignment \cup {None}]
    BY DEF Memory
  <2>2. CASE n = m
    BY <2>2 DEF ReportsNothing
  <2>3. CASE /\ m.held[t] # None /\ n.held = [m.held EXCEPT ![t] = None]
             /\ \A h \in Assignment \ {m.held[t]} : n.answer[h] = m.answer[h]
             /\ ReleaseOf(m.answer[m.held[t]], n.answer[m.held[t]])
    <3>1. \A u \in Task : n.held[u] \in {m.held[u], None}
      BY <2>1, <2>3
    <3>2. \A h \in Assignment : n.answer[h].reported = m.answer[h].reported
      BY <2>3 DEF ReleaseOf, SamePieces
    <3> QED
      BY <3>1, <3>2 DEF ReportsNothing
  <2> QED
    BY <1>2, <2>2, <2>3 DEF Clears
<1>3. ASSUME NEW o \in Memory, ReportsNothing(m, n), ReportsNothing(n, o)
      PROVE  ReportsNothing(m, o)
  BY <1>3 DEF ReportsNothing
<1>4. ReportsNothing(m, m)
  BY DEF ReportsNothing
<1> QED
  BY <1>1, <1>2, <1>3, <1>4

\* No frame that carries a piece is sent or read.
SaysNothing(q, p) == \A t \in Task : ComesFrom(p, q, 0, t) /\ GoesTo(q, p, 0, t)

(* Frames without text deliver no piece. *)
LEMMA SayingNothing ==
  ASSUME NEW q \in Seq(WorkerFrame), NEW e \in WorkerFrame, e.newText = <<>>
  PROVE  /\ SaysNothing(q, q) /\ SaysNothing(q, Append(q, e))
         /\ \A d \in WorkerFrame : d.newText = <<>> => SaysNothing(q, q \o <<e, d>>)
<1>1. SaysNothing(q, q)
  <2>1. \A i \in DOMAIN q : i + 0 = i /\ i - 0 = i
    OBVIOUS
  <2> QED
    BY <2>1 DEF SaysNothing, ComesFrom, GoesTo
<1>2. ASSUME NEW o \in Seq(WorkerFrame), NEW d \in WorkerFrame, d.newText = <<>>
      PROVE  SaysNothing(o, Append(o, d))
  <2> DEFINE p == Append(o, d)
  <2>1. /\ \A i \in DOMAIN o : i \in DOMAIN p /\ p[i] = o[i] /\ i - 0 = i
        /\ \A i \in DOMAIN p : i + 0 = i /\ (i \in DOMAIN o \/ p[i] = d)
    BY SeqAppended
  <2> HIDE DEF p
  <2>2. SaysNothing(o, p)
    BY <1>2, <2>1 DEF SaysNothing, ComesFrom, GoesTo, Carries
  <2> QED
    BY <2>2 DEF p
<1>3. ASSUME NEW d \in WorkerFrame, d.newText = <<>>
      PROVE  SaysNothing(q, q \o <<e, d>>)
  <2> DEFINE o == Append(q, e)
             p == Append(o, d)
  <2>1. o \in Seq(WorkerFrame) /\ q \o <<e, d>> = p
    OBVIOUS
  <2>2. SaysNothing(q, o)
    BY <1>2
  <2>3. SaysNothing(o, p)
    BY <1>2, <1>3, <2>1
  <2>4. p \in Seq(WorkerFrame)
    BY <2>1
  <2>5. \A i \in DOMAIN q \cup DOMAIN o \cup DOMAIN p : i + 0 = i /\ i - 0 = i
    BY <2>1, <2>4
  <2> HIDE DEF o, p
  <2>6. SaysNothing(q, p)
    BY <2>2, <2>3, <2>5 DEF SaysNothing, ComesFrom, GoesTo
  <2> QED
    BY <2>1, <2>6
<1> QED
  BY <1>1, <1>2, <1>3

\* A step of the worker that returns no piece.
LEMMA DeliveryByQuietStep ==
  ASSUME DeliveryInv, WorkerTypeOK, WorkerTypeOK', UNCHANGED gateway,
         ReportsNothing(memory, memory'), SaysNothing(toGateway, toGateway')
  PROVE  DeliveryInv'
<1> SUFFICES ASSUME NEW t \in Task
             PROVE  Delivery(t, gateway'[t], toGateway', memory')
  BY DEF DeliveryInv
<1>1. gateway[t] \in GatewayTask /\ gateway'[t] = gateway[t] /\ gateway[t].refused \in BOOLEAN
  BY WorkerTypes DEF GatewayTask
<1>2. memory \in Memory /\ toGateway \in Seq(WorkerFrame)
  BY WorkerTypes
<1>3. memory' \in Memory /\ toGateway' \in Seq(WorkerFrame)
  BY DEF WorkerTypeOK, HeldAnswersTypeOK, Memory, AnswerRecord, WorkerFrame
<1>4. Delivery(t, gateway[t], toGateway, memory)
  BY DEF DeliveryInv
<1>5. /\ ComesFrom(toGateway', toGateway, 0, t) /\ GoesTo(toGateway, toGateway', 0, t)
      /\ SameSent(t, memory, memory')
  BY <1>2, <1>3, SameIsSent DEF SaysNothing
<1>6. Delivery(t, gateway[t], toGateway', memory')
  BY <1>1, <1>2, <1>3, <1>4, <1>5, DeliveryKept
<1> QED
  BY <1>1, <1>6

\* A run that goes on, or gives up, returns no piece.
LEMMA DeliveryByReading ==
  ASSUME WireInv, AnswersInv, WorkerTypeOK', DeliveryInv, NEW a \in Active, GoesOn(a) \/ GivesUp(a)
  PROVE  DeliveryInv'
<1> DEFINE g == run[a].answer
<1>1. /\ WorkerTypeOK /\ memory \in Memory /\ toGateway \in Seq(WorkerFrame) /\ a \in Assignment
      /\ g \in Assignment /\ run[a].task \in Task
  BY AnswersTyped, WireParts, WorkerTypes DEF Active
<1>2. memory' \in Memory
  BY DEF WorkerTypeOK, HeldAnswersTypeOK, Memory, AnswerRecord
<1>3. CASE GoesOn(a)
  <2>1. /\ ReadsOn(memory, memory', g, a) /\ UNCHANGED <<toGateway, gateway>>
    BY <1>3 DEF GoesOn, gatewayVars
  <2> HIDE DEF g
  <2>2. ReportsNothing(memory, memory')
    BY <1>1, <1>2, <2>1, ReportingNothing
  <2>3. SaysNothing(toGateway, toGateway')
    <3>1. \A i \in DOMAIN toGateway : i + 0 = i /\ i - 0 = i
      BY <1>1
    <3> QED
      BY <2>1, <3>1 DEF SaysNothing, ComesFrom, GoesTo
  <2> QED
    BY <1>1, <2>1, <2>2, <2>3, DeliveryByQuietStep
<1>4. CASE GivesUp(a)
  <2>1. PICK m \in Memory, f \in WorkerFrame :
          /\ ReadsOn(memory, m, g, a) /\ f.newText = <<>>
          /\ EndRun(a, ClearGeneration(m, run[a].task, a), f)
    BY <1>4 DEF GivesUp
  <2>2. /\ memory' = ClearGeneration(m, run[a].task, a) /\ UNCHANGED gateway
        /\ toGateway' = toGateway \/ toGateway' = Append(toGateway, f)
    BY <2>1 DEF EndRun, gatewayVars
  <2> HIDE DEF g
  <2>3. Clears(m, memory', run[a].task, a)
    BY <1>1, <2>1, <2>2, ClearsIt
  <2>4. ReportsNothing(memory, m) /\ ReportsNothing(m, memory')
    BY <1>1, <1>2, <2>1, <2>3, ReportingNothing
  <2>5. ReportsNothing(memory, memory')
    BY <1>1, <1>2, <2>4, ReportingNothing
  <2>6. SaysNothing(toGateway, toGateway')
    BY <1>1, <2>1, <2>2, SayingNothing
  <2> QED
    BY <1>1, <2>2, <2>5, <2>6, DeliveryByQuietStep
<1> QED
  BY <1>3, <1>4

\* Which run an answer that was not released is held for.
LEMMA HeldForItsTask ==
  ASSUME WireInv, AnswersInv, NEW a \in Active, ~memory.answer[run[a].answer].isReleased
  PROVE  connected /\ memory.held[run[a].task] = run[a].answer
<1> DEFINE g == run[a].answer
<1>1. g \in Assignment /\ memory.answer[g].exists /\ run[g].task = run[a].task
  BY AnswersTyped, WireParts DEF AnswersInv, AnswersOfTasks
<1>2. connected /\ \E u \in Task : memory.held[u] = g
  BY <1>1 DEF AnswersInv, NothingReadForNobody
<1>3. PICK u \in Task : memory.held[u] = g
  BY <1>2
<1>4. g # None
  BY <1>1 DEF Assignment, None
<1>5. run[g].task = u
  BY <1>3, <1>4 DEF AnswersInv, AnswersOfTasks
<1> QED
  BY <1>1, <1>2, <1>3, <1>5

\* No piece of an answer that is in the hand of the run that owns it is on its
\* way from the assignment the gateway waits for.
LEMMA NothingAhead ==
  ASSUME WireInv, AnswersInv, NEW a \in Active, ~memory.answer[run[a].answer].isReleased,
         memory.answer[run[a].answer].owner = a,
         NEW i \in DOMAIN toGateway, Carries(toGateway[i], run[a].task)
  PROVE  toGateway[i].of # gateway[run[a].task].current
<1> DEFINE t == run[a].task
           f == toGateway[i]
<1> SUFFICES ASSUME f.of = gateway[t].current
             PROVE  FALSE
  OBVIOUS
<1>1. /\ f.of \in Assignment /\ t \in Task /\ run[a].answer \in Assignment
  BY AnswersTyped, FramesTyped, WireParts
<1>2. f.of # None /\ run[a].answer # None
  BY <1>1 DEF Assignment, None
<1>3. /\ f.type = "stage.result" /\ Begun(f.of) /\ run[f.of].phase = "ended"
  BY DEF WireInv, ReportsAreOfRuns, Carries
<1>4. memory.held[t] = run[a].answer
  BY HeldForItsTask
<1>5. memory.answer[memory.held[t]].owner = f.of
  BY <1>1, <1>2, <1>3, <1>4 DEF AnswersInv, OwnersAreCurrent
<1> QED
  BY <1>3, <1>4, <1>5 DEF Active

\* The pieces a run returns are the ones that follow those it and the runs before
\* it returned.
LEMMA ReportedFollows ==
  ASSUME NEW s \in AnswerRecord, AllThere(s)
  PROVE  /\ Len(s.reported \o s.unreported) = Len(s.reported) + Len(s.unreported)
         /\ s.unreported = [k \in 1..Len(s.unreported) |-> Len(s.reported) + k]
<1> DEFINE p == s.reported
           q == s.unreported
           n == s.pieceCount
<1>1. p \in Seq(1..LastPiece) /\ q \in Seq(1..LastPiece) /\ n \in Nat /\ p \o q = Counted(n)
  BY HeldAnswersAssumption DEF AnswerRecord, AllThere
<1> HIDE DEF p, q, n
<1>2. Len(p) \in Nat /\ Len(q) \in Nat /\ Len(p \o q) = Len(p) + Len(q)
  BY <1>1
<1>3. n = Len(p) + Len(q)
  BY <1>1, <1>2, CountedGrows
<1>4. \A k \in 1..Len(q) : q[k] = Len(p) + k
  <2> TAKE k \in 1..Len(q)
  <2>1. (p \o q)[Len(p) + k] = q[k]
    <3>1. Len(p) + k \in (Len(p) + 1)..(Len(p) + Len(q)) /\ Len(p) + k - Len(p) = k
      BY <1>2
    <3> QED
      BY <1>1, <3>1, ConcatProperties
  <2>2. Len(p) + k \in 1..n
    BY <1>2, <1>3
  <2> QED
    BY <1>1, <2>1, <2>2 DEF Counted
<1>5. q = [k \in 1..Len(q) |-> Len(p) + k]
  <2> DEFINE z == [k \in 1..Len(q) |-> Len(p) + k]
  <2>1. z \in Seq(Nat) /\ Len(z) = Len(q) /\ q \in Seq(Nat)
    <3>1. q \in Seq(Nat)
      BY <1>1, HeldAnswersAssumption
    <3>2. \A k \in 1..Len(q) : Len(p) + k \in Nat
      BY <1>2
    <3>3. z \in Seq(Nat) /\ Len(z) = Len(q)
      BY <1>2, <3>2
    <3> QED
      BY <3>1, <3>3
  <2>2. \A k \in 1..Len(q) : q[k] = z[k]
    BY <1>4
  <2> HIDE DEF z
  <2>3. q = z
    BY <2>1, <2>2, SeqEqual
  <2> QED
    BY <2>3 DEF z
<1> QED
  BY <1>2, <1>5 DEF p, q

\* One more frame with the pieces that follow.
LEMMA DeliveryAppended ==
  ASSUME NEW t \in Task, NEW x \in GatewayTask, NEW q \in Seq(WorkerFrame), NEW f \in WorkerFrame,
         NEW m \in Memory, NEW n \in Memory, Delivery(t, x, q, m), f.newText # <<>>,
         m.held[t] # None, n.held[t] # None,
         f.newText = [k \in 1..Len(f.newText) |-> Sent(t, m) + k],
         Sent(t, n) = Sent(t, m) + Len(f.newText),
         \A i \in DOMAIN q : Carries(q[i], t) => q[i].of # x.current,
         f.task = t
  PROVE  Delivery(t, x, Append(q, f), n)
<1> DEFINE p == Append(q, f)
           l == Len(q) + 1
<1>1. /\ \A i \in DOMAIN q : i \in DOMAIN p /\ p[i] = q[i] /\ i < l
      /\ \A i \in DOMAIN p : i \in DOMAIN q \/ i = l
      /\ l \in DOMAIN p /\ p[l] = f
  <2>1. \A i \in DOMAIN q : i < l
    OBVIOUS
  <2> QED
    BY <2>1, SeqAppended
<1>2. m.answer[m.held[t]] \in AnswerRecord
  BY DEF Memory
<1>3. Sent(t, m) \in Nat
  BY <1>2 DEF Sent, AnswerRecord
<1>4. /\ Len(f.newText) \in Nat /\ x.received \in Seq(1..LastPiece)
      /\ \A k \in DOMAIN x.received : x.received[k] \in Nat
  BY HeldAnswersAssumption DEF WorkerFrame, GatewayTask
<1>5. /\ \A k \in DOMAIN x.received : x.received[k] \leq Sent(t, m)
      /\ ~x.refused /\ (\A i \in DOMAIN q : ~Carries(q[i], t)) => Len(x.received) = Sent(t, m)
      /\ InOrder(x)
  BY DEF Delivery, BehindTheAnswer
<1> HIDE DEF p, l
<1>6. BehindTheAnswer(t, x, p, n)
  <2>1. \A k \in DOMAIN x.received : x.received[k] \leq Sent(t, n)
    BY <1>3, <1>4, <1>5
  <2>2. Carries(p[l], t)
    BY <1>1 DEF Carries
  <2> QED
    BY <1>1, <2>1, <2>2 DEF BehindTheAnswer
<1>7. ASSUME ~x.refused, ~LateBefore(l, t, p, x.current)
      PROVE  Len(x.received) = Sent(t, m)
  <2>1. \A i \in DOMAIN q : ~Carries(q[i], t)
    BY <1>1, <1>7 DEF LateBefore
  <2> QED
    BY <1>5, <1>7, <2>1
<1>8. Follows(l, t, x, p, n)
  BY <1>1, <1>3, <1>5, <1>7 DEF Follows
<1>9. \A i \in DOMAIN p : Carries(p[i], t) /\ p[i].of = x.current => Follows(i, t, x, p, n)
  BY <1>1, <1>8
<1>10. Delivery(t, x, p, n)
  BY <1>5, <1>6, <1>9 DEF Delivery
<1> QED
  BY <1>10 DEF p

\* A run that returns pieces.
LEMMA DeliveryByReporting ==
  ASSUME WireInv, AnswersInv, WorkerTypeOK', NoPieceDroppedByTheWorker, DeliveryInv,
         NEW a \in Active, ReportsPieces(a)
  PROVE  DeliveryInv'
<1> DEFINE g == run[a].answer
           t == run[a].task
<1>1. /\ WorkerTypeOK /\ memory \in Memory /\ toGateway \in Seq(WorkerFrame) /\ a \in Assignment
      /\ g \in Assignment /\ t \in Task /\ memory.answer[g] \in AnswerRecord
      /\ \A u, v \in Task : memory.held[u] # None /\ memory.held[u] = memory.held[v] => u = v
      /\ gateway \in [Task -> GatewayTask]
  BY AnswersTyped, WireParts, WorkerTypes DEF Active
<1>2. memory' \in Memory
  BY DEF WorkerTypeOK, HeldAnswersTypeOK, Memory, AnswerRecord
<1>3. PICK m \in Memory, f \in WorkerFrame :
        /\ ~memory.answer[g].isReleased /\ memory.answer[g].owner = a
        /\ ReadsOn(memory, m, g, a) /\ EndRun(a, PieceReported(m, g), f)
        /\ f.task = t /\ f.newText = m.answer[g].unreported
  BY DEF ReportsPieces
<1>4. connected /\ memory.held[t] = g
  BY <1>3, HeldForItsTask
<1>5. a \notin cancelled
  BY <1>3 DEF AnswersInv, OwnersAreCurrent
<1>6. memory' = PieceReported(m, g) /\ toGateway' = Append(toGateway, f) /\ UNCHANGED gateway
  BY <1>3, <1>4, <1>5 DEF EndRun, gatewayVars
<1>7. \A i \in DOMAIN toGateway : Carries(toGateway[i], t) => toGateway[i].of # gateway[t].current
  BY <1>3, NothingAhead
<1>8. AllThere(memory.answer[g])
  BY <1>1 DEF NoPieceDroppedByTheWorker, AllThere, Counted
<1> HIDE DEF g, t
<1>9. /\ m.answer[g] \in AnswerRecord /\ m.held = memory.held
      /\ \A h \in Assignment \ {g} : m.answer[h] = memory.answer[h]
      /\ ReadOf(memory.answer[g], m.answer[g], a) /\ m.answer[g].reported = memory.answer[g].reported
  BY <1>1, <1>3 DEF ReadsOn, ReadOf, Memory
<1>10. AllThere(m.answer[g])
  BY <1>1, <1>8, <1>9, PieceIsAppended
<1>11. /\ memory'.held = memory.held /\ \A h \in Assignment \ {g} : memory'.answer[h] = memory.answer[h]
       /\ memory'.answer[g].reported = memory.answer[g].reported \o f.newText
  <2>1. /\ memory'.held = m.held /\ \A h \in Assignment \ {g} : memory'.answer[h] = m.answer[h]
        /\ memory'.answer[g].reported = m.answer[g].reported \o m.answer[g].unreported
    BY <1>1, <1>6, ReportsIt
  <2> QED
    BY <1>3, <1>9, <2>1
<1>12. f.newText = [k \in 1..Len(f.newText) |-> Len(memory.answer[g].reported) + k]
  <2>1. m.answer[g].unreported = [k \in 1..Len(m.answer[g].unreported) |-> Len(m.answer[g].reported) + k]
    BY <1>9, <1>10, ReportedFollows
  <2> QED
    BY <1>3, <1>9, <2>1
<1>13. Len(memory'.answer[g].reported) = Len(memory.answer[g].reported) + Len(f.newText)
  <2>1. memory.answer[g].reported \in Seq(1..LastPiece) /\ f.newText \in Seq(1..LastPiece)
    BY <1>1 DEF AnswerRecord, WorkerFrame
  <2> QED
    BY <1>11, <2>1
<1>14. CASE f.newText = <<>>
  <2>1. memory.answer[g].reported \in Seq(1..LastPiece)
    BY <1>1 DEF AnswerRecord
  <2>2. memory'.answer[g].reported = memory.answer[g].reported
    BY <1>11, <1>14, <2>1, ConcatEmptySeq
  <2>3. ReportsNothing(memory, memory')
    BY <1>1, <1>11, <2>2 DEF ReportsNothing
  <2>4. SaysNothing(toGateway, toGateway')
    BY <1>1, <1>6, <1>14, SayingNothing
  <2> QED
    BY <1>1, <1>6, <2>3, <2>4, DeliveryByQuietStep
<1>15. CASE f.newText # <<>>
  <2>1. g # None
    BY <1>1 DEF Assignment, None
  <2>2. Delivery(t, gateway[t], toGateway', memory')
    <3>1. Delivery(t, gateway[t], toGateway, memory) /\ gateway[t] \in GatewayTask
      BY <1>1 DEF DeliveryInv
    <3>2. Sent(t, memory) = Len(memory.answer[g].reported) /\ Sent(t, memory') = Len(memory'.answer[g].reported)
      BY <1>4, <1>11 DEF Sent
    <3>3. Sent(t, memory') = Sent(t, memory) + Len(f.newText)
      BY <1>13, <3>2
    <3>4. f.newText = [k \in 1..Len(f.newText) |-> Sent(t, memory) + k]
      BY <1>12, <3>2
    <3>5. memory.held[t] # None /\ memory'.held[t] # None
      BY <1>4, <1>11, <2>1
    <3>6. f \in WorkerFrame /\ f.task = t /\ toGateway' = Append(toGateway, f)
      BY <1>3, <1>6 DEF t
    <3>7. Delivery(t, gateway[t], Append(toGateway, f), memory')
      BY <1>1, <1>2, <1>7, <1>15, <3>1, <3>3, <3>4, <3>5, <3>6, DeliveryAppended
    <3> QED
      BY <3>6, <3>7
  <2>3. ASSUME NEW u \in Task, u # t
        PROVE  Delivery(u, gateway[u], toGateway', memory')
    <3>1. Delivery(u, gateway[u], toGateway, memory) /\ gateway[u] \in GatewayTask
          /\ gateway[u].refused \in BOOLEAN
      BY <1>1 DEF DeliveryInv, GatewayTask
    <3>2. u \in Task /\ memory.held[u] # g /\ memory'.held[u] = memory.held[u]
      BY <1>1, <1>4, <1>11, <2>1, <2>3
    <3>3. memory.held[u] # None => memory.held[u] \in Assignment
      BY <1>1 DEF Memory
    <3>4. SameSent(u, memory, memory')
      BY <1>11, <3>2, <3>3 DEF SameSent, Sent
    <3>5. ComesFrom(toGateway', toGateway, 0, u) /\ GoesTo(toGateway, toGateway', 0, u)
      <4>1. /\ \A i \in DOMAIN toGateway : i \in DOMAIN toGateway' /\ toGateway'[i] = toGateway[i]
            /\ \A i \in DOMAIN toGateway' : i \in DOMAIN toGateway \/ toGateway'[i] = f
        BY <1>1, <1>3, <1>6, SeqAppended
      <4>2. /\ \A i \in DOMAIN toGateway' : i + 0 = i
            /\ \A i \in DOMAIN toGateway : i - 0 = i
        BY <1>1, <1>6
      <4>3. ~Carries(f, u)
        BY <1>3, <2>3 DEF Carries, t
      <4> QED
        BY <4>1, <4>2, <4>3 DEF ComesFrom, GoesTo
    <3>6. toGateway' \in Seq(WorkerFrame)
      BY <1>1, <1>3, <1>6, SeqAppended
    <3> QED
      BY <1>1, <1>2, <3>1, <3>4, <3>5, <3>6, DeliveryKept
  <2> QED
    BY <1>6, <2>2, <2>3 DEF DeliveryInv
<1> QED
  BY <1>14, <1>15

\* A first run has nothing to follow: no piece of its task was ever received.
LEMMA DeliveryByStarting ==
  ASSUME WireInv, AnswersInv, WorkerTypeOK', DeliveryInv, HandleMessage,
         Head(toWorker).type = "stage.assign", StartAnswer(Head(toWorker))
  PROVE  DeliveryInv'
<1> DEFINE f == Head(toWorker)
           a == f.of
           t == f.task
           e == RunFrame("stage.accepted", f, FALSE, 0)
<1>1. /\ WorkerTypeOK /\ memory \in Memory /\ toGateway \in Seq(WorkerFrame) /\ toWorker # <<>>
      /\ gateway \in [Task -> GatewayTask] /\ UNCHANGED gateway
  BY WireParts, WorkerTypes DEF HandleMessage, gatewayVars
<1>2. /\ f \in GatewayFrame /\ a \in Assignment /\ t \in Task /\ ~Begun(a)
      /\ f = toWorker[1] /\ 1 \in DOMAIN toWorker /\ \A u \in Task : memory.held[u] # a
  BY <1>1, FirstMessage
<1>3. /\ memory' = NewGeneration(memory, t, a) /\ toGateway' = Append(toGateway, e) /\ ~f.isContinuation
  BY DEF StartAnswer
<1>4. e \in WorkerFrame /\ e.newText = <<>>
  <2>1. 0 \in 0..LastPiece /\ <<>> \in Seq(1..LastPiece)
    BY HeldAnswersAssumption
  <2> QED
    BY <1>2, <2>1 DEF RunFrame, WorkerFrame
<1>5. memory' \in Memory
  BY DEF WorkerTypeOK, HeldAnswersTypeOK, Memory, AnswerRecord
<1>6. gateway[t].received = <<>>
  <2>1. ~gateway[t].isContinuation
    BY <1>2, <1>3 DEF WireInv, ContinuesOnceReceived, IsAssign
  <2> QED
    BY <1>2, <2>1 DEF WireInv, ContinuesOnceReceived
<1>7. \A i \in DOMAIN toGateway : Carries(toGateway[i], t) => toGateway[i].of # gateway[t].current
  <2> SUFFICES ASSUME NEW i \in DOMAIN toGateway, toGateway[i].of = gateway[t].current
               PROVE  FALSE
    OBVIOUS
  <2> DEFINE c == gateway[t].current
  <2>1. c \in Assignment /\ Begun(c)
    BY <1>1, FramesTyped DEF WireInv, ReportsAreOfRuns
  <2>2. c # None
    BY <2>1 DEF Assignment, None
  <2>3. a \leq c
    BY <1>2, <2>2 DEF WireInv, OneTaskEach, IsAssign
  <2>4. c < a
    BY <1>2, <2>1 DEF WireInv, AssignedInOrder, IsAssign
  <2> QED
    BY <1>2, <2>1, <2>3, <2>4 DEF Assignment
<1> HIDE DEF f, a, t, e
<1>8. StartsWith(memory, memory', t, a)
  BY <1>1, <1>2, <1>3, StartsAnswer
<1>9. SaysNothing(toGateway, toGateway') /\ toGateway' \in Seq(WorkerFrame)
  BY <1>1, <1>3, <1>4, SayingNothing, SeqAppended
<1>10. /\ \A i \in DOMAIN toGateway' : Carries(toGateway'[i], t) => toGateway'[i].of # gateway[t].current
  <2>1. \A i \in DOMAIN toGateway' : (i \in DOMAIN toGateway /\ toGateway'[i] = toGateway[i]) \/ toGateway'[i] = e
    BY <1>1, <1>3, <1>4, SeqAppended
  <2> QED
    BY <1>4, <1>7, <2>1 DEF Carries
<1>11. Delivery(t, gateway[t], toGateway', memory')
  <2>1. memory'.held[t] = a /\ memory'.answer[a].reported = <<>>
    BY <1>1, <1>2, <1>8 DEF StartsWith, IsFresh, Memory
  <2>2. Sent(t, memory') = 0
    BY <2>1 DEF Sent
  <2>3. BehindTheAnswer(t, gateway[t], toGateway', memory')
    BY <1>6, <2>2 DEF BehindTheAnswer
  <2>4. InOrder(gateway[t])
    BY <1>2 DEF DeliveryInv, Delivery
  <2> QED
    BY <1>10, <2>3, <2>4 DEF Delivery
<1>12. ASSUME NEW u \in Task, u # t
       PROVE  Delivery(u, gateway[u], toGateway', memory')
  <2>1. Delivery(u, gateway[u], toGateway, memory) /\ gateway[u] \in GatewayTask
        /\ gateway[u].refused \in BOOLEAN
    BY <1>1 DEF DeliveryInv, GatewayTask
  <2>2. memory'.held[u] = memory.held[u]
    BY <1>1, <1>8, <1>12 DEF StartsWith, Memory
  <2>3. SameSent(u, memory, memory')
    <3>1. ASSUME memory.held[u] # None
          PROVE  memory'.answer[memory.held[u]].reported = memory.answer[memory.held[u]].reported
      <4>1. memory.held[u] \in Assignment /\ memory.held[u] # a /\ memory.held[u] # memory.held[t]
        BY <1>1, <1>2, <1>12, <3>1, AnswersTyped
      <4> QED
        BY <1>8, <4>1 DEF StartsWith
    <3> QED
      BY <2>2, <3>1 DEF SameSent, Sent
  <2>4. ComesFrom(toGateway', toGateway, 0, u) /\ GoesTo(toGateway, toGateway', 0, u)
    BY <1>9 DEF SaysNothing
  <2> QED
    BY <1>1, <1>5, <1>9, <2>1, <2>3, <2>4, DeliveryKept
<1> QED
  BY <1>1, <1>11, <1>12 DEF DeliveryInv

\* No message makes the worker return a piece at once.
LEMMA DeliveryByMessage ==
  ASSUME WireInv, AnswersInv, WorkerTypeOK', DeliveryInv, HandleMessage
  PROVE  DeliveryInv'
<1> DEFINE f == Head(toWorker)
           a == f.of
           t == f.task
           g == memory.held[t]
           m == HeldGeneration(memory, t, a)
           e == RunFrame("stage.accepted", f, FALSE, 0)
<1>1. /\ WorkerTypeOK /\ memory \in Memory /\ toGateway \in Seq(WorkerFrame) /\ toWorker # <<>>
      /\ gateway \in [Task -> GatewayTask] /\ UNCHANGED gateway
  BY WireParts, WorkerTypes DEF HandleMessage, gatewayVars
<1>2. /\ f \in GatewayFrame /\ a \in Assignment /\ t \in Task
  BY <1>1, FirstMessage
<1>3. memory' \in Memory
  BY DEF WorkerTypeOK, HeldAnswersTypeOK, Memory, AnswerRecord
<1>4. /\ f.type # "stage.assign" => OnCancel(f)
      /\ f.type = "stage.assign" => StartAnswer(f) \/ CarryOn(f) \/ CarryOnAtLimit(f) \/ CarryOnNothing(f)
  BY DEF HandleMessage, StartRun
<1>5. /\ e \in WorkerFrame /\ e.newText = <<>>
      /\ \A type \in {"stage.result", "stage.failed"}, done \in BOOLEAN, whole \in 0..LastPiece :
           RunFrame(type, f, done, whole) \in WorkerFrame /\ RunFrame(type, f, done, whole).newText = <<>>
  <2>1. 0 \in 0..LastPiece /\ <<>> \in Seq(1..LastPiece)
    BY HeldAnswersAssumption
  <2> QED
    BY <1>2, <2>1 DEF RunFrame, WorkerFrame, GatewayFrame
<1>6. ASSUME g # None
      PROVE  m \in Memory /\ g \in Assignment /\ ReportsNothing(memory, m) /\ m.answer[g] \in AnswerRecord
  <2> HIDE DEF f, a, t
  <2>1. /\ m \in Memory /\ m.held = memory.held /\ g \in Assignment
        /\ \A h \in Assignment \ {g} : m.answer[h] = memory.answer[h]
        /\ SamePieces(memory.answer[g], m.answer[g])
    BY <1>1, <1>2, <1>6, CarriesOn
  <2> HIDE DEF m
  <2> QED
    BY <2>1 DEF ReportsNothing, SamePieces, Memory
<1>7. ASSUME ReportsNothing(memory, memory'), SaysNothing(toGateway, toGateway')
      PROVE  DeliveryInv'
  BY <1>1, <1>7, DeliveryByQuietStep
<1>8. SaysNothing(toGateway, toGateway) /\ SaysNothing(toGateway, Append(toGateway, e))
      /\ \A d \in WorkerFrame : d.newText = <<>> => SaysNothing(toGateway, toGateway \o <<e, d>>)
  <2> HIDE DEF e
  <2> QED
    BY <1>1, <1>5, SayingNothing
<1>9. CASE f.type # "stage.assign"
  <2>1. memory' = ClearGeneration(memory, t, a) /\ UNCHANGED toGateway
    BY <1>4, <1>9 DEF OnCancel
  <2> HIDE DEF f, a, t
  <2>2. Clears(memory, memory', t, a)
    BY <1>1, <1>2, <2>1, ClearsIt
  <2> QED
    BY <1>1, <1>2, <1>3, <1>7, <1>8, <2>1, <2>2, ReportingNothing
<1>10. CASE f.type = "stage.assign" /\ StartAnswer(f)
  BY <1>10, DeliveryByStarting
<1>11. CASE CarryOn(f)
  <2>1. g # None /\ memory' = BeginRead(m, g, a) /\ toGateway' = Append(toGateway, e)
    BY <1>11 DEF CarryOn
  <2> HIDE DEF f, a, t, m, g, e
  <2>2. ReadsOn(m, memory', g, a)
    BY <1>2, <1>6, <2>1, ReadsNothing, BeginReads
  <2>3. ReportsNothing(memory, m) /\ ReportsNothing(m, memory')
    BY <1>2, <1>3, <1>6, <2>1, <2>2, ReportingNothing
  <2>4. ReportsNothing(memory, memory')
    BY <1>1, <1>3, <1>6, <2>1, <2>3, ReportingNothing
  <2> QED
    BY <1>7, <1>8, <2>1, <2>4
<1>12. CASE CarryOnAtLimit(f)
  <2> DEFINE d == RunFrame("stage.result", f, TRUE, m.answer[g].pieceCount)
  <2>1. g # None /\ memory' = ClearGeneration(m, t, a) /\ toGateway' = toGateway \o <<e, d>>
    BY <1>12 DEF CarryOnAtLimit
  <2>2. d \in WorkerFrame /\ d.newText = <<>>
    <3>1. m.answer[g].pieceCount \in 0..LastPiece
      <4> HIDE DEF m, g
      <4> QED
        BY <1>6, <2>1 DEF AnswerRecord
    <3> HIDE DEF m, g, f
    <3> QED
      BY <1>5, <3>1
  <2> HIDE DEF f, a, t, m, g, e, d
  <2>3. Clears(m, memory', t, a)
    BY <1>2, <1>6, <2>1, ClearsIt
  <2>4. ReportsNothing(memory, m) /\ ReportsNothing(m, memory')
    BY <1>2, <1>3, <1>6, <2>1, <2>3, ReportingNothing
  <2>5. ReportsNothing(memory, memory')
    BY <1>1, <1>3, <1>6, <2>1, <2>4, ReportingNothing
  <2> QED
    BY <1>7, <1>8, <2>1, <2>2, <2>5
<1>13. CASE CarryOnNothing(f)
  <2> DEFINE d == RunFrame("stage.failed", f, FALSE, 0)
  <2>1. UNCHANGED memory /\ toGateway' = toGateway \o <<e, d>>
    BY <1>13 DEF CarryOnNothing
  <2>2. d \in WorkerFrame /\ d.newText = <<>>
    <3>1. 0 \in 0..LastPiece /\ FALSE \in BOOLEAN
      BY HeldAnswersAssumption
    <3> HIDE DEF f
    <3> QED
      BY <1>5, <3>1
  <2> HIDE DEF f, a, t, m, g, e, d
  <2> QED
    BY <1>1, <1>7, <1>8, <2>1, <2>2, ReportingNothing
<1> QED
  BY <1>4, <1>9, <1>10, <1>11, <1>12, <1>13

\* Nor does a timer.
LEMMA DeliveryByTimers ==
  ASSUME WireInv, WorkerTypeOK', DeliveryInv, NEW a \in Assignment, Heartbeat(a) \/ IdleTimeout(a)
  PROVE  DeliveryInv'
<1>1. /\ WorkerTypeOK /\ memory \in Memory /\ toGateway \in Seq(WorkerFrame)
      /\ run \in [Assignment -> RunRecord]
  BY WireParts, WorkerTypes
<1>2. CASE Heartbeat(a)
  <2> DEFINE e == Report(a, "stage.heartbeat", <<>>, FALSE, 0)
  <2>1. /\ UNCHANGED <<memory, gateway>> /\ toGateway' = Append(toGateway, e)
    BY <1>2 DEF Heartbeat
  <2>2. e \in WorkerFrame /\ e.newText = <<>>
    <3>1. <<>> \in Seq(1..LastPiece) /\ 0 \in 0..LastPiece /\ run[a].task \in Task
      BY <1>1, HeldAnswersAssumption DEF RunRecord
    <3> QED
      BY <3>1 DEF Report, WorkerFrame
  <2> HIDE DEF e
  <2> QED
    BY <1>1, <2>1, <2>2, SayingNothing, ReportingNothing, DeliveryByQuietStep
<1>3. CASE IdleTimeout(a)
  <2>1. IdleTimerFires(a) /\ UNCHANGED <<toGateway, gateway>>
    BY <1>3 DEF IdleTimeout, gatewayVars
  <2>2. ReportsNothing(memory, memory')
    <3>1. /\ \A h \in Assignment \ {a} : memory'.answer[h] = memory.answer[h]
          /\ memory'.answer[a].reported = memory.answer[a].reported
      BY <1>1, <2>1, TimerFires DEF ReleaseOf, SamePieces
    <3>2. \A t \in Task : memory'.held[t] \in {memory.held[t], None}
      BY <1>1, <2>1, TimerFires
    <3> QED
      BY <3>1, <3>2 DEF ReportsNothing
  <2>3. SaysNothing(toGateway, toGateway')
    <3>1. \A i \in DOMAIN toGateway : i + 0 = i /\ i - 0 = i
      BY <1>1
    <3> QED
      BY <2>1, <3>1 DEF SaysNothing, ComesFrom, GoesTo
  <2> QED
    BY <1>1, <2>1, <2>2, <2>3, DeliveryByQuietStep
<1> QED
  BY <1>2, <1>3

\* A task whose consumer gets nothing: what is on its way for it stays there, or
\* the gateway has just refused it.
LEMMA DeliveryLeft ==
  ASSUME WireInv, DeliveryInv, GatewayStep, NEW u \in Task, gateway'[u].received = gateway[u].received,
         \/ gateway'[u].refused
         \/ ~gateway[u].refused /\ (toGateway' = toGateway \/ ~Carries(Head(toGateway), u))
  PROVE  Delivery(u, gateway'[u], toGateway', memory')
<1>1. /\ toGateway \in Seq(WorkerFrame) /\ memory \in Memory /\ gateway[u] \in GatewayTask
      /\ memory' = memory /\ assigned \in 0..MaxAssignments /\ MaxAssignments \in Nat
  BY WireParts, WorkerTypes, HeldAnswersAssumption DEF GatewayStep
<1>2. gateway'[u] \in GatewayTask /\ toGateway' \in Seq(WorkerFrame)
  BY DEF GatewayStep, WorkerTypeOK, WorkerFrame
<1>3. ReadsOrNot
  BY DEF GatewayStep, Settling, Sending
<1>4. gateway'[u].current \in {gateway[u].current, None, assigned + 1}
  BY DEF GatewayStep, Settling, Sending
<1>5. /\ \A i \in DOMAIN toGateway' : \E j \in DOMAIN toGateway : toGateway'[i] = toGateway[j]
      /\ \E d \in {0, 1} :
           /\ ComesFrom(toGateway', toGateway, d, u)
           /\ toGateway' = toGateway \/ ~Carries(Head(toGateway), u) => GoesTo(toGateway, toGateway', d, u)
  <2>1. CASE UNCHANGED toGateway
    <3>1. \A i \in DOMAIN toGateway : i + 0 = i /\ i - 0 = i
      BY <1>1
    <3>2. ComesFrom(toGateway', toGateway, 0, u) /\ GoesTo(toGateway, toGateway', 0, u)
      BY <2>1, <3>1 DEF ComesFrom, GoesTo
    <3> QED
      BY <2>1, <3>2
  <2>2. CASE toGateway # <<>> /\ toGateway' = Tail(toGateway)
    <3>1. /\ \A i \in DOMAIN toGateway' : i + 1 \in DOMAIN toGateway /\ toGateway'[i] = toGateway[i + 1]
          /\ \A i \in DOMAIN toGateway \ {1} : i - 1 \in DOMAIN toGateway' /\ toGateway'[i - 1] = toGateway[i]
          /\ Head(toGateway) = toGateway[1] /\ Len(toGateway') # Len(toGateway)
      BY <1>1, <2>2, SeqTail
    <3>2. ComesFrom(toGateway', toGateway, 1, u)
      BY <3>1 DEF ComesFrom
    <3>3. ~Carries(Head(toGateway), u) => GoesTo(toGateway, toGateway', 1, u)
      BY <3>1 DEF GoesTo
    <3>4. toGateway' # toGateway
      BY <3>1
    <3> QED
      BY <3>1, <3>2, <3>3, <3>4
  <2> QED
    BY <1>3, <2>1, <2>2 DEF ReadsOrNot
<1>6. gateway'[u].current = gateway[u].current \/
        \A i \in DOMAIN toGateway' : Carries(toGateway'[i], u) => toGateway'[i].of # gateway'[u].current
  <2>1. \A j \in DOMAIN toGateway : toGateway[j].of \in Assignment /\ toGateway[j].of \leq assigned
    BY FramesTyped DEF WireInv, ReportsAreOfRuns, AssignedInOrder
  <2>2. \A j \in DOMAIN toGateway : toGateway[j].of # None /\ toGateway[j].of # assigned + 1
    BY <1>1, <2>1 DEF Assignment, None
  <2> QED
    BY <1>4, <1>5, <2>2
<1>7. SameSent(u, memory, memory')
  BY <1>1 DEF SameSent
<1>8. Delivery(u, gateway[u], toGateway, memory) /\ gateway[u].refused \in BOOLEAN
  BY <1>1 DEF DeliveryInv, GatewayTask
<1>9. PICK d \in {0, 1} :
        /\ ComesFrom(toGateway', toGateway, d, u)
        /\ toGateway' = toGateway \/ ~Carries(Head(toGateway), u) => GoesTo(toGateway, toGateway', d, u)
  BY <1>5
<1>10. gateway'[u].refused \/ (~gateway[u].refused /\ GoesTo(toGateway, toGateway', d, u))
  BY <1>9
<1> QED
  BY <1>1, <1>2, <1>6, <1>7, <1>8, <1>9, <1>10, DeliveryKept

\* What else the gateway does gives a consumer nothing and refuses nothing.
LEMMA ReceivedKept ==
  ASSUME WireInv,
         \/ \E t \in Task : Place(t) \/ LeaseExpires(t) \/ ConsumerCancels(t)
         \/ \E f \in WorkerFrame : ReadHeartbeat(f) \/ ReadAccepted(f) \/ ReadFailed(f) \/ Finishes(f)
  PROVE  \A u \in Task : gateway'[u].received = gateway[u].received /\ gateway'[u].refused = gateway[u].refused
<1>1. gateway \in [Task -> GatewayTask]
  BY WireParts, WorkerTypes
<1>2. ASSUME NEW t \in Task, Place(t) \/ LeaseExpires(t)
      PROVE  \A u \in Task : gateway'[u].received = gateway[u].received /\ gateway'[u].refused = gateway[u].refused
  <2>1. ASSUME NEW n, NEW c, AssignNext(t, n, c)
        PROVE  \A u \in Task : gateway'[u].received = gateway[u].received /\ gateway'[u].refused = gateway[u].refused
    BY <1>1, <2>1 DEF AssignNext, GatewayTask
  <2>2. CASE gateway' = [gateway EXCEPT ![t].state = "failed", ![t].current = None]
    BY <1>1, <2>2 DEF GatewayTask
  <2> QED
    BY <1>2, <2>1, <2>2 DEF Place, LeaseExpires
<1>3. ASSUME NEW t \in Task, ConsumerCancels(t)
      PROVE  \A u \in Task : gateway'[u].received = gateway[u].received /\ gateway'[u].refused = gateway[u].refused
  BY <1>1, <1>3 DEF ConsumerCancels, GatewayTask
<1>4. ASSUME NEW f \in WorkerFrame, ReadHeartbeat(f) \/ ReadAccepted(f) \/ ReadFailed(f) \/ Finishes(f)
      PROVE  \A u \in Task : gateway'[u].received = gateway[u].received /\ gateway'[u].refused = gateway[u].refused
  <2>1. f.task \in Task
    BY DEF WorkerFrame
  <2>2. CASE ReadHeartbeat(f) \/ ReadAccepted(f)
    <3> DEFINE z == [gateway[f.task] EXCEPT !.state = "running"]
    <3>1. gateway' = gateway \/ gateway' = [gateway EXCEPT ![f.task] = z]
      BY <2>2 DEF ReadHeartbeat, ReadAccepted, gatewayVars
    <3>2. z.received = gateway[f.task].received /\ z.refused = gateway[f.task].refused
      BY <1>1, <2>1 DEF GatewayTask
    <3> HIDE DEF z
    <3>3. CASE gateway' = [gateway EXCEPT ![f.task] = z]
      BY <1>1, <2>1, <3>2, <3>3
    <3> QED
      BY <3>1, <3>3
  <2>3. CASE ReadFailed(f)
    BY <1>1, <2>1, <2>3 DEF ReadFailed, GatewayTask
  <2>4. CASE Finishes(f)
    <3> DEFINE t == f.task
               z == [gateway[t] EXCEPT !.state = "completed", !.current = None, !.whole = f.whole]
    <3>1. gateway' = [gateway EXCEPT ![t] = z]
      BY <2>4 DEF Finishes
    <3>2. t \in Task /\ gateway[t] \in GatewayTask
      BY <1>1, <2>1
    <3>3. z.received = gateway[t].received /\ z.refused = gateway[t].refused
      BY <3>2 DEF GatewayTask
    <3> HIDE DEF t, z
    <3> QED
      BY <1>1, <3>1, <3>2, <3>3
  <2> QED
    BY <1>4, <2>2, <2>3, <2>4
<1> QED
  BY <1>2, <1>3, <1>4

Increasing(r) == \A i, j \in DOMAIN r : i < j => r[i] < r[j]
UpTo(r, n) == \A k \in DOMAIN r : r[k] \leq n

\* Pieces that are taken follow the ones the consumer has.
LEMMA PiecesFollow ==
  ASSUME NEW r \in Seq(1..LastPiece), NEW s \in Seq(1..LastPiece), NEW z, z = r \o s, NEW base \in Nat,
         \A k \in 1..Len(s) : s[k] = base + k,
         UpTo(r, base), Increasing(r)
  PROVE  /\ Increasing(z) /\ UpTo(z, base + Len(s))
         /\ r = Counted(Len(r)) /\ Len(r) = base => z = Counted(Len(z)) /\ Len(z) = base + Len(s)
<1>1. /\ Len(r) \in Nat /\ Len(s) \in Nat /\ Len(z) = Len(r) + Len(s) /\ DOMAIN z = 1..Len(z)
      /\ DOMAIN r = 1..Len(r)
      /\ \A i \in 1..Len(r) : z[i] = r[i] /\ r[i] \in Nat
      /\ \A i \in (Len(r) + 1)..(Len(r) + Len(s)) : z[i] = s[i - Len(r)]
  BY HeldAnswersAssumption, ConcatProperties
<1>2. \A i \in DOMAIN z :
        \/ i \in 1..Len(r) /\ z[i] = r[i] /\ z[i] \in Nat /\ z[i] \leq base
        \/ i \in (Len(r) + 1)..Len(z) /\ z[i] = base + (i - Len(r))
  <2> TAKE i \in DOMAIN z
  <2>1. CASE i \in 1..Len(r)
    <3>1. i \in DOMAIN r /\ r[i] \leq base
      BY <1>1, <2>1 DEF UpTo
    <3>2. z[i] = r[i] /\ r[i] \in Nat
      BY <1>1, <2>1
    <3>3. z[i] \in Nat /\ z[i] \leq base
      BY <3>1, <3>2
    <3> QED
      BY <2>1, <3>2, <3>3
  <2>2. CASE i \in (Len(r) + 1)..(Len(r) + Len(s))
    <3>1. i - Len(r) \in 1..Len(s)
      BY <1>1, <2>2
    <3>2. s[i - Len(r)] = base + (i - Len(r))
      BY <3>1
    <3> QED
      BY <1>1, <2>2, <3>2
  <2> QED
    BY <1>1, <2>1, <2>2
<1>3. \A i, j \in DOMAIN z : i < j => z[i] < z[j]
  <2> SUFFICES ASSUME NEW i \in DOMAIN z, NEW j \in DOMAIN z, i < j
               PROVE  z[i] < z[j]
    OBVIOUS
  <2>1. CASE j \in 1..Len(r)
    BY <1>1, <2>1 DEF Increasing
  <2>2. CASE j \in (Len(r) + 1)..Len(z)
    BY <1>1, <1>2, <2>2, SMTT(20)
  <2> QED
    BY <1>2, <2>1, <2>2
<1>4. \A k \in DOMAIN z : z[k] \leq base + Len(s)
  BY <1>1, <1>2
<1>5. ASSUME r = Counted(Len(r)), Len(r) = base
      PROVE  z = Counted(Len(z)) /\ Len(z) = base + Len(s)
  <2>1. \A i \in 1..Len(z) : z[i] = i
    <3> TAKE i \in 1..Len(z)
    <3>1. i \in 1..Len(r) => r[i] = i
      BY <1>5 DEF Counted
    <3> QED
      BY <1>1, <1>2, <1>5, <3>1
  <2>2. Counted(Len(z)) \in Seq(Nat) /\ Len(Counted(Len(z))) = Len(z)
    <3> DEFINE n == Len(z)
    <3>1. n \in Nat
      BY <1>1
    <3> HIDE DEF n
    <3>2. Counted(n) \in Seq(Nat) /\ Len(Counted(n)) = n
      BY <3>1, CountedGrows
    <3> QED
      BY <3>2 DEF n
  <2>3. \A i \in 1..Len(z) : Counted(Len(z))[i] = i
    BY DEF Counted
  <2>4. z \in Seq(Nat)
    BY HeldAnswersAssumption
  <2>5. \A i \in 1..Len(z) : z[i] = Counted(Len(z))[i]
    BY <2>1, <2>3
  <2>6. z = Counted(Len(z))
    BY <2>2, <2>4, <2>5, SeqEqual
  <2> QED
    BY <1>1, <1>5, <2>6
<1> QED
  BY <1>3, <1>4, <1>5 DEF Increasing, UpTo

\* A result that is taken.
LEMMA DeliveryByAccepting ==
  ASSUME WireInv, DeliveryInv, GatewayStep, toGateway # <<>>, toGateway' = Tail(toGateway),
         NEW f, f = Head(toGateway), Accepted(f), f.newText # <<>>,
         gateway'[f.task].received = gateway[f.task].received \o f.newText,
         gateway'[f.task].refused = gateway[f.task].refused
  PROVE  Delivery(f.task, gateway'[f.task], toGateway', memory')
<1> DEFINE t == f.task
           x == gateway[t]
           y == gateway'[t]
<1>1. /\ toGateway \in Seq(WorkerFrame) /\ memory' = memory
      /\ assigned \in 0..MaxAssignments /\ MaxAssignments \in Nat /\ gateway \in [Task -> GatewayTask]
  BY WireParts, WorkerTypes, HeldAnswersAssumption DEF GatewayStep
<1>2. gateway' \in [Task -> GatewayTask] /\ toGateway' \in Seq(WorkerFrame)
  BY DEF GatewayStep, WorkerTypeOK, WorkerFrame
<1>3. /\ f = toGateway[1] /\ 1 \in DOMAIN toGateway /\ f \in WorkerFrame
      /\ \A i \in DOMAIN toGateway : i \geq 1
      /\ \A i \in DOMAIN toGateway' : i + 1 \in DOMAIN toGateway /\ toGateway'[i] = toGateway[i + 1]
  BY <1>1, SeqTail, SMTT(20)
<1>4. t \in Task /\ f.newText \in Seq(1..LastPiece) /\ Carries(f, t) /\ f.of = x.current
  BY <1>3 DEF WorkerFrame, Carries, Accepted
<1>5. /\ x \in GatewayTask /\ y \in GatewayTask /\ x.received \in Seq(1..LastPiece)
      /\ y.received \in Seq(1..LastPiece) /\ y.received = x.received \o f.newText
      /\ y.refused = x.refused
  BY <1>1, <1>2, <1>4 DEF GatewayTask
<1>6. y.current = assigned + 1
  <2> DEFINE z == [gateway[t] EXCEPT !.state = "assigned", !.current = assigned + 1, !.attempts = 1,
                                     !.isContinuation = TRUE, !.received = @ \o f.newText]
  <2>1. gateway' = [gateway EXCEPT ![t] = z]
    BY DEF Accepted
  <2>2. z.current = assigned + 1
    BY <1>5 DEF GatewayTask
  <2> HIDE DEF z
  <2> QED
    BY <1>1, <1>4, <2>1, <2>2
<1>7. Delivery(t, x, toGateway, memory)
  BY <1>4 DEF DeliveryInv
<1> HIDE DEF x, y, t
<1>8. ~LateBefore(1, t, toGateway, x.current)
  <2>1. \A i \in DOMAIN toGateway : ~(i < 1)
    BY <1>1, SMTT(20)
  <2> QED
    BY <2>1 DEF LateBefore
<1>9. Follows(1, t, x, toGateway, memory)
  BY <1>3, <1>4, <1>7 DEF Delivery
<1>10. PICK base \in Nat :
          /\ f.newText = [k \in 1..Len(f.newText) |-> base + k]
          /\ \A k \in DOMAIN x.received : x.received[k] \leq base
          /\ ~x.refused => Len(x.received) = base
          /\ memory.held[t] # None => Sent(t, memory) = base + Len(f.newText)
  BY <1>3, <1>8, <1>9 DEF Follows
<1>11. InOrder(x)
  BY <1>7 DEF Delivery
<1>12. /\ Increasing(y.received) /\ UpTo(y.received, base + Len(f.newText))
       /\ ~x.refused => y.received = Counted(Len(y.received)) /\ Len(y.received) = base + Len(f.newText)
  <2> DEFINE r == x.received
             s == f.newText
             z == y.received
  <2>1. /\ r \in Seq(1..LastPiece) /\ s \in Seq(1..LastPiece) /\ z = r \o s
        /\ UpTo(r, base) /\ Increasing(r)
    BY <1>4, <1>5, <1>10, <1>11 DEF InOrder, UpTo, Increasing
  <2>2. \A k \in 1..Len(s) : s[k] = base + k
    BY <1>10
  <2>3. ~x.refused => r = Counted(Len(r)) /\ Len(r) = base
    BY <1>10, <1>11 DEF InOrder
  <2> HIDE DEF r, s, z
  <2>4. /\ Increasing(z) /\ UpTo(z, base + Len(s))
        /\ r = Counted(Len(r)) /\ Len(r) = base => z = Counted(Len(z)) /\ Len(z) = base + Len(s)
    BY <2>1, <2>2, PiecesFollow, ZenonT(40)
  <2> QED
    BY <2>3, <2>4 DEF r, s, z
<1>13. InOrder(y)
  BY <1>5, <1>12 DEF InOrder, Increasing
<1>14. BehindTheAnswer(t, y, toGateway', memory')
  BY <1>1, <1>5, <1>10, <1>12 DEF BehindTheAnswer, UpTo
<1>15. \A i \in DOMAIN toGateway' : toGateway'[i].of # y.current
  <2>1. \A j \in DOMAIN toGateway : toGateway[j].of \in Assignment /\ toGateway[j].of \leq assigned
    BY FramesTyped DEF WireInv, ReportsAreOfRuns, AssignedInOrder
  <2>2. \A j \in DOMAIN toGateway : toGateway[j].of # assigned + 1
    BY <1>1, <2>1, SMTT(20) DEF Assignment
  <2> QED
    BY <1>3, <1>6, <2>2
<1>16. Delivery(t, y, toGateway', memory')
  BY <1>13, <1>14, <1>15 DEF Delivery
<1> QED
  BY <1>16 DEF t, y

\* A consumer has what the gateway took, and what it did not take is on its way.
LEMMA DeliveryByReads ==
  ASSUME WireInv, DeliveryInv, GatewayReads
  PROVE  DeliveryInv'
<1> DEFINE f == Head(toGateway)
<1>1. /\ WorkerTypeOK /\ Ordered /\ toGateway # <<>> /\ toGateway' = Tail(toGateway)
      /\ UNCHANGED <<memory, workerVars>> /\ toGateway \in Seq(WorkerFrame)
      /\ gateway \in [Task -> GatewayTask]
  BY WireParts, WorkerTypes DEF GatewayReads
<1>2. GatewayStep
  BY GatewayReadsIsStep
<1>3. f \in WorkerFrame /\ f = toGateway[1] /\ 1 \in DOMAIN toGateway /\ f.task \in Task
  BY <1>1, SeqTail DEF WorkerFrame
<1>4. f.newText # <<>> => f.type = "stage.result" /\ ~f.done
  BY <1>3 DEF WireInv, ReportsAreOfRuns
<1>5. \/ f.type = "stage.result" /\ (Refused(f) \/ Finishes(f) \/ Accepted(f))
      \/ f.type # "stage.result" /\ (ReadHeartbeat(f) \/ ReadAccepted(f) \/ ReadFailed(f))
  <2>1. f.type \in {"stage.accepted", "stage.heartbeat", "stage.result", "stage.failed"}
    BY <1>3 DEF WorkerFrame
  <2>2. ReadResult(f) => Refused(f) \/ Finishes(f) \/ Accepted(f)
    BY DEF ReadResult, Refused, Finishes, Accepted
  <2> QED
    BY <2>1, <2>2 DEF GatewayReads
<1> HIDE DEF f
<1>6. ASSUME NEW u \in Task, gateway'[u].received = gateway[u].received,
             gateway'[u].refused = gateway[u].refused, ~Carries(f, u)
      PROVE  Delivery(u, gateway'[u], toGateway', memory')
  <2>1. gateway[u].refused \in BOOLEAN
    BY <1>1 DEF GatewayTask
  <2> QED
    BY <1>2, <1>6, <2>1, DeliveryLeft DEF f
<1>7. CASE /\ ReadHeartbeat(f) \/ ReadAccepted(f) \/ ReadFailed(f) \/ Finishes(f)
           /\ f.newText = <<>>
  <2>1. \A u \in Task : gateway'[u].received = gateway[u].received /\ gateway'[u].refused = gateway[u].refused
    BY <1>3, <1>7, ReceivedKept
  <2>2. \A u \in Task : ~Carries(f, u)
    BY <1>7 DEF Carries
  <2> QED
    BY <1>6, <2>1, <2>2 DEF DeliveryInv
<1>8. CASE Refused(f) \/ Accepted(f)
  <2>1. /\ \A u \in Task \ {f.task} : gateway'[u] = gateway[u]
        /\ Refused(f) => gateway'[f.task].refused = (gateway[f.task].refused \/ f.newText # <<>>)
        /\ ~Refused(f) => gateway'[f.task].refused = gateway[f.task].refused
        /\ Accepted(f) => gateway'[f.task].received = gateway[f.task].received \o f.newText
    BY <1>1, <1>8, ResultIsStep DEF f
  <2>2. ASSUME NEW u \in Task, u # f.task
        PROVE  Delivery(u, gateway'[u], toGateway', memory')
    <3>1. ~Carries(f, u)
      BY <2>2 DEF Carries
    <3> QED
      BY <1>6, <2>1, <2>2, <3>1
  <2>3. CASE Refused(f)
    <3>1. gateway'[f.task].received = gateway[f.task].received
      <4> DEFINE z == [gateway[f.task] EXCEPT !.refused = @ \/ f.newText # <<>>]
      <4>1. gateway' = [gateway EXCEPT ![f.task] = z]
        BY <2>3 DEF Refused
      <4>2. z.received = gateway[f.task].received
        BY <1>1, <1>3 DEF GatewayTask
      <4> HIDE DEF z
      <4> QED
        BY <1>1, <1>3, <4>1, <4>2
    <3>2. CASE f.newText = <<>>
      <4>1. gateway[f.task].refused \in BOOLEAN /\ ~Carries(f, f.task)
        BY <1>1, <1>3, <3>2 DEF GatewayTask, Carries
      <4>2. gateway'[f.task].refused = gateway[f.task].refused
        BY <2>1, <2>3, <3>2, <4>1
      <4>3. Delivery(f.task, gateway'[f.task], toGateway', memory')
        BY <1>3, <1>6, <3>1, <4>1, <4>2
      <4> QED
        BY <2>2, <4>3 DEF DeliveryInv
    <3>3. CASE f.newText # <<>>
      <4>1. gateway'[f.task].refused
        BY <2>1, <2>3, <3>3
      <4>2. Delivery(f.task, gateway'[f.task], toGateway', memory')
        BY <1>2, <1>3, <3>1, <4>1, DeliveryLeft
      <4> QED
        BY <2>2, <4>2 DEF DeliveryInv
    <3> QED
      BY <3>2, <3>3
  <2>4. CASE Accepted(f)
    <3>1. ~Refused(f)
      BY <2>4 DEF Accepted, Refused
    <3>2. /\ gateway'[f.task].received = gateway[f.task].received \o f.newText
          /\ gateway'[f.task].refused = gateway[f.task].refused
      BY <2>1, <2>4, <3>1
    <3>3. Delivery(f.task, gateway'[f.task], toGateway', memory')
      <4>1. CASE f.newText = <<>>
        <5>1. gateway[f.task].received \in Seq(1..LastPiece)
          BY <1>1, <1>3 DEF GatewayTask
        <5>2. gateway[f.task].received \o <<>> = gateway[f.task].received
          BY <5>1, ConcatEmptySeq
        <5>3. ~Carries(f, f.task)
          BY <4>1 DEF Carries
        <5> QED
          BY <1>3, <1>6, <3>2, <4>1, <5>2, <5>3
      <4>2. CASE f.newText # <<>>
        <5>1. f = Head(toGateway)
          BY DEF f
        <5> QED
          BY <1>1, <1>2, <2>4, <3>2, <4>2, <5>1, DeliveryByAccepting
      <4> QED
        BY <4>1, <4>2
    <3> QED
      BY <2>2, <3>3 DEF DeliveryInv
  <2> QED
    BY <1>8, <2>3, <2>4
<1>9. Finishes(f) => f.newText = <<>>
  BY <1>4 DEF Finishes
<1> QED
  BY <1>4, <1>5, <1>7, <1>8, <1>9

(* A placement, an expired lease and a cancellation deliver no piece. *)
LEMMA DeliveryByTasks ==
  ASSUME WireInv, DeliveryInv, NEW t \in Task, Place(t) \/ LeaseExpires(t) \/ ConsumerCancels(t)
  PROVE  DeliveryInv'
<1>1. GatewayStep
  BY PlaceIsStep, ExpiryIsStep, CancelIsStep, WireParts
<1>2. \A u \in Task : gateway'[u].received = gateway[u].received /\ gateway'[u].refused = gateway[u].refused
  BY ReceivedKept
<1>3. toGateway' = toGateway
  BY DEF Place, LeaseExpires, ConsumerCancels
<1>4. ASSUME NEW u \in Task
      PROVE  Delivery(u, gateway'[u], toGateway', memory')
  <2>1. gateway[u].refused \in BOOLEAN
    BY WireParts, WorkerTypes DEF GatewayTask
  <2> QED
    BY <1>1, <1>2, <1>3, <2>1, DeliveryLeft
<1> QED
  BY <1>4 DEF DeliveryInv

\* With the connection, all that was on its way is gone.
LEMMA DeliveryByClose ==
  ASSUME WireInv, DeliveryInv, OnClose
  PROVE  DeliveryInv'
<1>1. gateway \in [Task -> GatewayTask] /\ memory \in Memory
  BY WireParts, WorkerTypes
<1>2. ASSUME NEW t \in Task
      PROVE  Delivery(t, gateway'[t], toGateway', memory')
  <2> DEFINE z == [gateway[t] EXCEPT !.state = "elsewhere", !.current = None]
  <2>1. z.received = gateway[t].received /\ z.refused = gateway[t].refused
    BY <1>1 DEF GatewayTask
  <2>2. gateway'[t] \in {gateway[t], z}
    BY DEF OnClose
  <2> HIDE DEF z
  <2>3. gateway'[t].received = gateway[t].received /\ gateway'[t].refused = gateway[t].refused
    BY <2>1, <2>2
  <2>4. memory' = ClearEveryGeneration(memory) /\ toGateway' = <<>>
    BY DEF OnClose
  <2>5. memory'.held[t] = None
    BY <1>1, <2>4, ClearsEvery
  <2>6. InOrder(gateway[t])
    BY DEF DeliveryInv, Delivery
  <2> QED
    BY <2>3, <2>4, <2>5, <2>6 DEF Delivery, InOrder, BehindTheAnswer
<1> QED
  BY <1>2 DEF DeliveryInv

(* No piece is delivered when the worker starts. *)
LEMMA InitDelivery ==
  Init => DeliveryInv
<1> SUFFICES ASSUME Init, NEW t \in Task
             PROVE  Delivery(t, gateway[t], toGateway, memory)
  BY DEF DeliveryInv
<1>1. /\ gateway[t].received = <<>> /\ toGateway = <<>> /\ memory.held[t] = None
  BY DEF Init, HeldAnswersInit
<1>2. InOrder(gateway[t])
  <2>1. Counted(0) \in Seq(Nat) /\ Len(Counted(0)) = 0
    BY CountedGrows
  <2>2. Counted(0) = <<>> /\ Len(<<>>) = 0
    BY <2>1, EmptySeq
  <2> QED
    BY <1>1, <2>2 DEF InOrder
<1> QED
  BY <1>1, <1>2 DEF Delivery, BehindTheAnswer

(* Every step delivers the pieces of an answer in order. *)
LEMMA NextDelivery ==
  WireInv /\ AnswersInv /\ NoPieceDroppedByTheWorker /\ DeliveryInv /\ [Next]_vars => DeliveryInv'
<1> SUFFICES ASSUME WireInv, AnswersInv, NoPieceDroppedByTheWorker, DeliveryInv, [Next]_vars
             PROVE  DeliveryInv'
  OBVIOUS
<1>1. WorkerTypeOK /\ WorkerTypeOK'
  BY NextWire DEF WireInv
<1>2. CASE HandleMessage
  BY <1>1, <1>2, DeliveryByMessage
<1>3. CASE OnClose
  BY <1>3, DeliveryByClose
<1>4. CASE GatewayReads
  BY <1>4, DeliveryByReads
<1>5. ASSUME NEW a \in Assignment, RunStep(a)
      PROVE  DeliveryInv'
  <2>1. a \in Active /\ (GoesOn(a) \/ GivesUp(a) \/ ReportsPieces(a))
    BY <1>1, <1>5, RunStepKinds
  <2> QED
    BY <1>1, <2>1, DeliveryByReading, DeliveryByReporting
<1>6. ASSUME NEW a \in Assignment, Heartbeat(a) \/ IdleTimeout(a)
      PROVE  DeliveryInv'
  BY <1>1, <1>6, DeliveryByTimers
<1>7. ASSUME NEW t \in Task, Place(t) \/ LeaseExpires(t) \/ ConsumerCancels(t)
      PROVE  DeliveryInv'
  BY <1>7, DeliveryByTasks
<1>8. CASE UNCHANGED vars
  BY <1>8 DEF vars, gatewayVars, DeliveryInv
<1> QED
  BY <1>2, <1>3, <1>4, <1>5, <1>6, <1>7, <1>8 DEF Next

\* Whatever is replaced, cancelled, refused or lost with the connection, the
\* updates of a task carry the pieces of its answer in order, none of them twice,
\* and leave one out only when the gateway refused the result that carried it.
THEOREM PiecesAreInOrder ==
  Spec => []PiecesArriveInOrder
<1>1. WireInv /\ AnswersInv /\ DeliveryInv => PiecesArriveInOrder
  <2> SUFFICES ASSUME WireInv, DeliveryInv, NEW t \in Task
               PROVE  LET r == gateway[t].received
                      IN /\ \A i, j \in DOMAIN r : i < j => r[i] < r[j]
                         /\ ~gateway[t].refused => r = [i \in DOMAIN r |-> i]
    BY DEF PiecesArriveInOrder
  <2> DEFINE r == gateway[t].received
  <2>1. r \in Seq(1..LastPiece)
    BY WireParts, WorkerTypes DEF GatewayTask
  <2>2. DOMAIN r = 1..Len(r)
    BY <2>1
  <2>3. InOrder(gateway[t])
    BY DEF DeliveryInv, Delivery
  <2> QED
    BY <2>2, <2>3 DEF InOrder, Counted
<1>2. WireInv /\ AnswersInv /\ NoPieceDroppedByTheWorker /\ DeliveryInv /\ [Next]_vars => DeliveryInv'
  BY NextDelivery
<1>3. Init => DeliveryInv
  BY InitDelivery
<1> QED
  BY <1>1, <1>2, <1>3, WorkerInductive, NoPieceIsDropped, PTL DEF Spec
=============================================================================
