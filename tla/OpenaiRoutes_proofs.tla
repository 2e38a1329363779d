-------------------------- MODULE OpenaiRoutes_proofs --------------------------
(***************************************************************************)
(* The OpenAI-compatible server, proved for any number of requests, of     *)
(* tasks in flight and of pieces: what the two channels of its connection  *)
(* may hold for a request (RunnerInv), and what has been written to each   *)
(* response (ResponsesInv), which rests on it.                             *)
(***************************************************************************)
EXTENDS OpenaiRoutes, SequenceTheorems, FiniteSetTheorems, TLAPS

ConnectionRecord == [socket : {"opening", "registered", "closed"}, isRegistered : BOOLEAN,
                     isClosed : BOOLEAN, reconnectTimer : BOOLEAN]
RunRecord == [phase : {"idle", "waiting", "pending", "settled"}, outcome : Outcomes,
              isStreaming : BOOLEAN, knowsTask : BOOLEAN, heard : Nat]
RunnerFrame == [type : {"task.submit", "task.cancel"}, of : Request]
GatewayFrame == [type : {"task.accepted", "task.updated", "error"},
                 of : Request, state : Finished \cup {"running"}, newText : BOOLEAN]
TaskRecord == [state : Finished \cup {"absent", "running"}, pieces : 0..MaxPieces, hasOwner : BOOLEAN]

\* RunnerTypeOK, but for the bound on what a call has heard.
RunnerTyped ==
  /\ connection \in ConnectionRecord
  /\ waiters \in Seq(Request)
  /\ run \in [Request -> RunRecord]
  /\ toGateway \in Seq(RunnerFrame)
  /\ toRunner \in Seq(GatewayFrame)
  /\ task \in [Request -> TaskRecord]

Queued(frames) == {frames[i] : i \in DOMAIN frames}
CancelFrame(r) == [type |-> "task.cancel", of |-> r]
PieceOf(r) == {f \in GatewayFrame : f.of = r /\ f.newText}
At(frames, kind) == {i \in DOMAIN frames : frames[i] \in kind}

\* A closed runner has no timer (close() clears it).
ConnectionFields ==
  /\ OneConnection
  /\ connection.isClosed => ~connection.reconnectTimer

\* A call waits for the connection once at most.
WaitersDistinct ==
  /\ \A i \in DOMAIN waiters : run[waiters[i]].phase = "waiting"
  /\ \A i, j \in DOMAIN waiters : waiters[i] = waiters[j] => i = j

\* A call that has not been submitted is unknown to the gateway.
UnknownUntilSubmitted ==
  \A r \in Request :
    /\ run[r].phase = "idle" => ~run[r].isStreaming
    /\ ~run[r].knowsTask => run[r].heard = 0
    /\ run[r].phase \in {"idle", "waiting"} =>
         /\ ~run[r].knowsTask /\ task[r].state = "absent"
         /\ \A f \in Queued(toGateway) : f.of # r
         /\ \A f \in Queued(toRunner) : f.of # r

\* A task is submitted once, and the gateway knows nothing of it before it reads that.
SubmitsDistinct ==
  \A i, j \in DOMAIN toGateway :
    toGateway[i].type = "task.submit" /\ toGateway[i] = toGateway[j] => i = j

SubmittedOnce ==
  \A r \in Request :
    /\ SubmitFrame(r) \in Queued(toGateway) =>
         /\ ~run[r].knowsTask /\ task[r].state = "absent"
         /\ \A f \in Queued(toRunner) : f.of # r
    /\ task[r].state = "absent" => ~task[r].hasOwner /\ ~run[r].knowsTask /\ task[r].pieces = 0
    /\ CancelFrame(r) \in Queued(toGateway) => run[r].knowsTask /\ task[r].hasOwner

\* The frames that come back are of a task the connection owns, or refuse to make one.
FramesTell ==
  \A f \in Queued(toRunner) :
    /\ f.type = "error" => task[f.of].state = "absent" /\ f.state = "failed" /\ ~f.newText
    /\ f.type = "task.accepted" => f.state = "running" /\ ~f.newText
    /\ f.type # "error" => task[f.of].hasOwner
    /\ f.type # "error" /\ f.state # "running" => task[f.of].state \in Finished
    /\ f.newText => f.state = "running" /\ run[f.of].isStreaming

\* Nothing follows the end of a task but another end, nor comes ahead of its acceptance.
FramesInOrder ==
  \A i, j \in DOMAIN toRunner :
    i < j /\ toRunner[i].of = toRunner[j].of =>
      /\ toRunner[j].type = "task.updated"
      /\ toRunner[i].state # "running" => toRunner[j].state # "running"

\* A call under way that knows its task has heard, or has on its way, every piece of it.
PiecesAccounted ==
  \A r \in Request : run[r].phase = "pending" =>
    /\ run[r].knowsTask => task[r].hasOwner
    /\ task[r].hasOwner /\ ~run[r].knowsTask =>
         \E f \in Queued(toRunner) : f.type = "task.accepted" /\ f.of = r
    /\ task[r].hasOwner =>
         run[r].heard + Cardinality(At(toRunner, PieceOf(r))) = task[r].pieces

ChannelInv ==
  /\ WaitersDistinct /\ UnknownUntilSubmitted
  /\ SubmitsDistinct /\ SubmittedOnce
  /\ FramesTell /\ FramesInOrder /\ PiecesAccounted

RunnerInv ==
  /\ RunnerTyped
  /\ ConnectionFields
  /\ ChannelInv
  /\ AbandonedOnlyWhenUnknown

-----------------------------------------------------------------------------
(* Queues of frames *)

(* Sending a frame adds it to the frames under way, behind all others. *)
LEMMA QueuedAppend ==
  ASSUME NEW S, NEW s \in Seq(S), NEW e \in S
  PROVE  /\ Append(s, e) \in Seq(S)
         /\ Queued(Append(s, e)) = Queued(s) \cup {e}
         /\ DOMAIN Append(s, e) = DOMAIN s \cup {Len(s) + 1}
         /\ Append(s, e)[Len(s) + 1] = e
         /\ \A i \in DOMAIN s : i \in Nat /\ i < Len(s) + 1 /\ Append(s, e)[i] = s[i]
<1>1. /\ Append(s, e) \in Seq(S) /\ DOMAIN s = 1..Len(s) /\ Len(s) \in Nat
      /\ DOMAIN Append(s, e) = 1..(Len(s) + 1)
      /\ Append(s, e)[Len(s) + 1] = e
      /\ \A i \in 1..Len(s) : Append(s, e)[i] = s[i]
  OBVIOUS
<1>2. DOMAIN Append(s, e) = DOMAIN s \cup {Len(s) + 1}
  BY <1>1
<1>3. Queued(Append(s, e)) = Queued(s) \cup {e}
  BY <1>1, <1>2 DEF Queued
<1> QED
  BY <1>1, <1>2, <1>3

(* Reading one takes the first of them. *)
LEMMA QueuedTail ==
  ASSUME NEW S, NEW s \in Seq(S), s # <<>>
  PROVE  /\ Head(s) \in S /\ Tail(s) \in Seq(S) /\ Head(s) = s[1] /\ 1 \in DOMAIN s
         /\ Queued(s) = {Head(s)} \cup Queued(Tail(s))
         /\ \A i \in DOMAIN Tail(s) : /\ i \in Nat \ {0} /\ i + 1 \in DOMAIN s
                                      /\ Tail(s)[i] = s[i + 1]
<1>1. /\ Head(s) \in S /\ Tail(s) \in Seq(S) /\ Head(s) = s[1] /\ 1 \in DOMAIN s
      /\ DOMAIN s = 1..Len(s) /\ Len(s) \in Nat \ {0} /\ DOMAIN Tail(s) = 1..(Len(s) - 1)
      /\ \A i \in 1..(Len(s) - 1) : Tail(s)[i] = s[i + 1]
  OBVIOUS
<1>2. \A i \in DOMAIN Tail(s) : i \in Nat \ {0} /\ i + 1 \in DOMAIN s /\ Tail(s)[i] = s[i + 1]
  BY <1>1
<1>3. \A i \in DOMAIN s : i # 1 => i - 1 \in DOMAIN Tail(s) /\ Tail(s)[i - 1] = s[i]
  <2> TAKE i \in DOMAIN s
  <2>1. i # 1 => i - 1 \in 1..(Len(s) - 1) /\ (i - 1) + 1 = i
    BY <1>1
  <2> QED
    BY <1>1, <2>1
<1>4. Queued(s) = {Head(s)} \cup Queued(Tail(s))
  <2>1. ASSUME NEW f \in Queued(s)
        PROVE  f = Head(s) \/ f \in Queued(Tail(s))
    <3>1. PICK i \in DOMAIN s : f = s[i]
      BY DEF Queued
    <3> QED
      BY <1>1, <1>3, <3>1 DEF Queued
  <2>2. ASSUME NEW f \in Queued(Tail(s))
        PROVE  f \in Queued(s)
    BY <1>2 DEF Queued
  <2>3. Head(s) \in Queued(s)
    BY <1>1 DEF Queued
  <2> QED
    BY <2>1, <2>2, <2>3
<1> QED
  BY <1>1, <1>2, <1>4

\* How many frames of one kind a queue holds, as frames come and go.
LEMMA AtIsFinite ==
  ASSUME NEW S, NEW s \in Seq(S), NEW kind
  PROVE  IsFiniteSet(At(s, kind)) /\ Cardinality(At(s, kind)) \in Nat
<1>1. At(s, kind) \subseteq 1..Len(s) /\ Len(s) \in Nat
  BY DEF At
<1>2. IsFiniteSet(1..Len(s))
  BY <1>1, FS_Interval
<1> QED
  BY <1>1, <1>2, FS_Subset, FS_CardinalityType

(* Sending a frame of a kind adds one to the number of that kind under way. *)
LEMMA CountAppend ==
  ASSUME NEW S, NEW s \in Seq(S), NEW e \in S, NEW kind
  PROVE  Cardinality(At(Append(s, e), kind)) =
           Cardinality(At(s, kind)) + (IF e \in kind THEN 1 ELSE 0)
<1> DEFINE n == Len(s) + 1
<1>1. /\ DOMAIN Append(s, e) = DOMAIN s \cup {n} /\ n \notin DOMAIN s
      /\ Append(s, e)[n] = e /\ \A i \in DOMAIN s : Append(s, e)[i] = s[i]
  OBVIOUS
<1>2. IsFiniteSet(At(s, kind)) /\ Cardinality(At(s, kind)) \in Nat
  BY AtIsFinite
<1> HIDE DEF n
<1>3. CASE e \in kind
  <2>1. At(Append(s, e), kind) = At(s, kind) \cup {n}
    BY <1>1, <1>3 DEF At
  <2>2. n \notin At(s, kind)
    BY <1>1 DEF At
  <2>3. Cardinality(At(s, kind) \cup {n}) = Cardinality(At(s, kind)) + 1
    BY <1>2, <2>2, FS_AddElement
  <2> QED
    BY <1>3, <2>1, <2>3
<1>4. CASE e \notin kind
  <2>1. At(Append(s, e), kind) = At(s, kind)
    BY <1>1, <1>4 DEF At
  <2> QED
    BY <1>2, <1>4, <2>1
<1> QED
  BY <1>3, <1>4

(* Reading one takes one off. *)
LEMMA CountTail ==
  ASSUME NEW S, NEW s \in Seq(S), s # <<>>, NEW kind
  PROVE  Cardinality(At(s, kind)) =
           Cardinality(At(Tail(s), kind)) + (IF Head(s) \in kind THEN 1 ELSE 0)
<1> DEFINE t == Tail(s)
           moved == {i \in At(s, kind) : i # 1}
<1>1. /\ t \in Seq(S) /\ Head(s) = s[1] /\ 1 \in DOMAIN s
      /\ DOMAIN s = 1..Len(s) /\ Len(s) \in Nat \ {0} /\ DOMAIN t = 1..(Len(s) - 1)
      /\ \A i \in 1..(Len(s) - 1) : t[i] = s[i + 1]
  OBVIOUS
<1>2. /\ IsFiniteSet(At(s, kind)) /\ Cardinality(At(s, kind)) \in Nat
      /\ IsFiniteSet(At(t, kind)) /\ Cardinality(At(t, kind)) \in Nat
  BY <1>1, AtIsFinite
<1> HIDE DEF t
<1>3. Cardinality(moved) = Cardinality(At(t, kind))
  <2> DEFINE g == [i \in At(t, kind) |-> i + 1]
  <2>1. \A i \in At(t, kind) : i \in Nat \ {0} /\ i + 1 \in moved
    BY <1>1 DEF At
  <2>2. \A j \in moved : j - 1 \in At(t, kind) /\ (j - 1) + 1 = j
    <3> TAKE j \in moved
    <3>1. j \in 1..Len(s) /\ j # 1 /\ s[j] \in kind
      BY <1>1 DEF At
    <3>2. j - 1 \in 1..(Len(s) - 1) /\ (j - 1) + 1 = j
      BY <1>1, <3>1
    <3> QED
      BY <1>1, <3>1, <3>2 DEF At
  <2> HIDE DEF moved
  <2>3. g \in Bijection(At(t, kind), moved)
    <3>1. g \in [At(t, kind) -> moved]
      BY <2>1
    <3>2. \A a, b \in At(t, kind) : g[a] = g[b] => a = b
      BY <2>1
    <3>3. \A j \in moved : \E a \in At(t, kind) : g[a] = j
      BY <2>2
    <3> QED
      BY <3>1, <3>2, <3>3 DEF Bijection, Injection, Surjection, IsInjective
  <2> HIDE DEF g
  <2>4. ExistsBijection(At(t, kind), moved)
    BY <2>3 DEF ExistsBijection
  <2> QED
    BY <1>2, <2>4, FS_Bijection
<1>4. CASE Head(s) \in kind
  <2>1. 1 \in At(s, kind) /\ moved = At(s, kind) \ {1}
    BY <1>1, <1>4 DEF At
  <2>2. Cardinality(At(s, kind) \ {1}) = Cardinality(At(s, kind)) - 1
    BY <1>2, <2>1, FS_RemoveElement
  <2> HIDE DEF moved
  <2>3. Cardinality(At(s, kind)) = Cardinality(At(t, kind)) + 1
    BY <1>2, <1>3, <2>1, <2>2
  <2> QED
    BY <1>4, <2>3 DEF t
<1>5. CASE Head(s) \notin kind
  <2>1. moved = At(s, kind)
    BY <1>1, <1>5 DEF At
  <2> HIDE DEF moved
  <2>2. Cardinality(At(s, kind)) = Cardinality(At(t, kind)) + 0
    BY <1>2, <1>3, <2>1
  <2> QED
    BY <1>5, <2>2 DEF t
<1> QED
  BY <1>4, <1>5

(* The frames under way are frames of the channel. *)
LEMMA QueuedTyped ==
  ASSUME NEW S, NEW s \in Seq(S)
  PROVE  Queued(s) \subseteq S
BY DEF Queued

\* What a frame to the gateway says of itself.
LEMMA FramesApart ==
  ASSUME NEW r, NEW q
  PROVE  /\ SubmitFrame(r).type = "task.submit" /\ SubmitFrame(r).of = r
         /\ CancelFrame(r).type = "task.cancel" /\ CancelFrame(r).of = r
         /\ SubmitFrame(r) # CancelFrame(q)
         /\ SubmitFrame(r) = SubmitFrame(q) => r = q
         /\ CancelFrame(r) = CancelFrame(q) => r = q
<1>1. /\ \A x : SubmitFrame(x).type = "task.submit" /\ SubmitFrame(x).of = x
      /\ \A x : CancelFrame(x).type = "task.cancel" /\ CancelFrame(x).of = x
  BY DEF SubmitFrame, CancelFrame
<1>2. SubmitFrame(r) = SubmitFrame(q) => SubmitFrame(r).of = SubmitFrame(q).of
  OBVIOUS
<1>3. CancelFrame(r) = CancelFrame(q) => CancelFrame(r).of = CancelFrame(q).of
  OBVIOUS
<1>4. SubmitFrame(r) = CancelFrame(q) => SubmitFrame(r).type = CancelFrame(q).type
  OBVIOUS
<1> QED
  BY <1>1, <1>2, <1>3, <1>4

-----------------------------------------------------------------------------
(* What the steps of the runner do *)

\* Calls are answered, or left as they are, or begin to wait.
RunKeeps ==
  \A r \in Request :
    /\ run'[r].knowsTask = run[r].knowsTask /\ run'[r].heard = run[r].heard
    /\ run'[r].phase = "pending" => run[r].phase = "pending"
    /\ run'[r].phase \in {"idle", "waiting"} => run[r].phase \in {"idle", "waiting"}
    /\ run'[r].phase = "idle" => ~run'[r].isStreaming
    /\ run[r].isStreaming => run'[r].isStreaming

\* ... and the task of one of them may be cancelled.
MayCancel ==
  \/ Queued(toGateway') = Queued(toGateway)
  \/ \E r \in Request :
       /\ run[r].phase = "pending" /\ run[r].knowsTask
       /\ Queued(toGateway') = Queued(toGateway) \cup {CancelFrame(r)}

(* A step that submits nothing and hears nothing, but may send a cancellation, keeps what relates requests, tasks
   and frames. *)
LEMMA RunnerKeeps ==
  ASSUME RunnerInv, RunKeeps, MayCancel, UNCHANGED <<toRunner, task>>
  PROVE  UnknownUntilSubmitted' /\ SubmittedOnce' /\ FramesTell' /\ FramesInOrder' /\ PiecesAccounted'
<1>1. /\ UnknownUntilSubmitted /\ SubmittedOnce /\ FramesTell /\ FramesInOrder /\ PiecesAccounted
      /\ toRunner \in Seq(GatewayFrame)
  BY DEF RunnerInv, ChannelInv, RunnerTyped
<1>2. \A f \in Queued(toRunner) : f.of \in Request
  BY <1>1, QueuedTyped DEF GatewayFrame
<1>3. \A r \in Request : SubmitFrame(r) \in Queued(toGateway') => SubmitFrame(r) \in Queued(toGateway)
  BY DEF MayCancel, SubmitFrame, CancelFrame
<1>4. \A r \in Request : CancelFrame(r) \in Queued(toGateway') =>
        CancelFrame(r) \in Queued(toGateway) \/ (run[r].knowsTask /\ task[r].hasOwner)
  <2> SUFFICES ASSUME NEW r \in Request, CancelFrame(r) \in Queued(toGateway'),
                      CancelFrame(r) \notin Queued(toGateway)
               PROVE  run[r].knowsTask /\ task[r].hasOwner
    OBVIOUS
  <2>0. Queued(toGateway') # Queued(toGateway)
    OBVIOUS
  <2>1. PICK q \in Request : /\ run[q].phase = "pending" /\ run[q].knowsTask
                             /\ Queued(toGateway') = Queued(toGateway) \cup {CancelFrame(q)}
    BY <2>0 DEF MayCancel
  <2>2. CancelFrame(r) = CancelFrame(q)
    BY <2>1
  <2> QED
    BY <1>1, <2>1, <2>2, FramesApart DEF PiecesAccounted
<1>5. UnknownUntilSubmitted'
  <2>1. ASSUME NEW r \in Request, run'[r].phase \in {"idle", "waiting"}
        PROVE  \A f \in Queued(toGateway') : f.of # r
    <3>1. run[r].phase \in {"idle", "waiting"} /\ ~run[r].knowsTask
      BY <1>1, <2>1 DEF RunKeeps, UnknownUntilSubmitted
    <3> QED
      BY <1>1, <3>1 DEF MayCancel, CancelFrame, UnknownUntilSubmitted
  <2> QED
    BY <1>1, <2>1 DEF RunKeeps, UnknownUntilSubmitted
<1>6. SubmittedOnce'
  BY <1>1, <1>3, <1>4 DEF SubmittedOnce, RunKeeps
<1>7. FramesTell'
  BY <1>1, <1>2 DEF FramesTell, RunKeeps
<1>8. FramesInOrder'
  BY <1>1 DEF FramesInOrder
<1>9. PiecesAccounted'
  BY <1>1 DEF PiecesAccounted, RunKeeps
<1> QED
  BY <1>5, <1>6, <1>7, <1>8, <1>9

\* Calls that had not been submitted are.
Submits(S) ==
  /\ \A r \in S : /\ run[r].phase \in {"idle", "waiting"} /\ run'[r].phase = "pending"
                  /\ run'[r].knowsTask = run[r].knowsTask /\ run'[r].heard = run[r].heard
                  /\ run[r].isStreaming => run'[r].isStreaming
  /\ \A r \in Request \ S : run'[r] = run[r]
  /\ Queued(toGateway') = Queued(toGateway) \cup {SubmitFrame(r) : r \in S}

(* Submitting the requests of a set, none submitted before, keeps it too. *)
LEMMA RunnerSubmits ==
  ASSUME RunnerInv, NEW S \in SUBSET Request, Submits(S), UNCHANGED <<toRunner, task>>
  PROVE  UnknownUntilSubmitted' /\ SubmittedOnce' /\ FramesTell' /\ FramesInOrder' /\ PiecesAccounted'
<1>1. /\ UnknownUntilSubmitted /\ SubmittedOnce /\ FramesTell /\ FramesInOrder /\ PiecesAccounted
      /\ toRunner \in Seq(GatewayFrame)
  BY DEF RunnerInv, ChannelInv, RunnerTyped
<1>2. \A f \in Queued(toRunner) : f.of \in Request
  BY <1>1, QueuedTyped DEF GatewayFrame
<1>3. \A r \in Request : SubmitFrame(r) \in Queued(toGateway') =>
        SubmitFrame(r) \in Queued(toGateway) \/ r \in S
  BY DEF Submits, SubmitFrame
<1>4. \A r \in Request : CancelFrame(r) \in Queued(toGateway') => CancelFrame(r) \in Queued(toGateway)
  BY DEF Submits, SubmitFrame, CancelFrame
<1>5. \A r \in S : ~run[r].knowsTask /\ task[r].state = "absent" /\ ~task[r].hasOwner
  BY <1>1 DEF Submits, UnknownUntilSubmitted, SubmittedOnce
<1>6. UnknownUntilSubmitted'
  <2>1. ASSUME NEW r \in Request, run'[r].phase \in {"idle", "waiting"}
        PROVE  \A f \in Queued(toGateway') : f.of # r
    <3>1. r \notin S
      BY <2>1 DEF Submits
    <3> QED
      BY <1>1, <2>1, <3>1 DEF Submits, SubmitFrame, UnknownUntilSubmitted
  <2>2. ASSUME NEW r \in Request
        PROVE  r \in S \/ run'[r] = run[r]
    BY DEF Submits
  <2> QED
    BY <1>1, <2>1, <2>2 DEF Submits, UnknownUntilSubmitted
<1>7. SubmittedOnce'
  <2>1. \A r \in Request : run'[r].knowsTask = run[r].knowsTask
    BY DEF Submits
  <2> QED
    BY <1>1, <1>3, <1>4, <1>5, <2>1 DEF SubmittedOnce, Submits, UnknownUntilSubmitted
<1>8. FramesTell'
  <2>1. \A r \in Request : run[r].isStreaming => run'[r].isStreaming
    BY DEF Submits
  <2> QED
    BY <1>1, <1>2, <2>1 DEF FramesTell
<1>9. FramesInOrder'
  BY <1>1 DEF FramesInOrder
<1>10. PiecesAccounted'
  <2>1. \A r \in Request : r \in S \/ run'[r] = run[r]
    BY DEF Submits
  <2> QED
    BY <1>1, <1>5, <2>1 DEF PiecesAccounted, Submits
<1> QED
  BY <1>6, <1>7, <1>8, <1>9, <1>10

\* A call that ends leaves its task to run only for a reason.
EndsFor(r) ==
  \/ ~run[r].knowsTask \/ task'[r].state # "running" \/ ~task'[r].hasOwner
  \/ connection'.isClosed \/ CancelFrame(r) \in Queued(toGateway')

(* A step after which every settled request has a reason to be settled leaves no task abandoned without one. *)
LEMMA AbandonedForAReason ==
  ASSUME AbandonedOnlyWhenUnknown,
         connection.isClosed => connection'.isClosed,
         \A r \in Request : run'[r].phase = "settled" =>
           /\ run'[r].knowsTask = run[r].knowsTask
           /\ \/ EndsFor(r)
              \/ /\ run[r].phase = "settled" /\ (task'[r].state = "running" => task[r].state = "running")
                 /\ task'[r].hasOwner => task[r].hasOwner
                 /\ CancelFrame(r) \in Queued(toGateway) => CancelFrame(r) \in Queued(toGateway')
  PROVE  AbandonedOnlyWhenUnknown'
<1>1. \A r \in Request :
        /\ (\E i \in DOMAIN toGateway : toGateway[i] = CancelFrame(r)) <=> CancelFrame(r) \in Queued(toGateway)
        /\ (\E i \in DOMAIN toGateway' : toGateway'[i] = CancelFrame(r)) <=> CancelFrame(r) \in Queued(toGateway')
  BY DEF Queued
<1>2. ASSUME NEW r \in Request, task'[r].state = "running", run'[r].phase = "settled"
      PROVE  \/ ~run'[r].knowsTask \/ ~task'[r].hasOwner \/ connection'.isClosed
             \/ CancelFrame(r) \in Queued(toGateway')
  <2>1. task[r].state = "running" /\ run[r].phase = "settled" =>
          \/ ~run[r].knowsTask \/ ~task[r].hasOwner \/ connection.isClosed
          \/ CancelFrame(r) \in Queued(toGateway)
    BY <1>1 DEF AbandonedOnlyWhenUnknown, CancelFrame
  <2> QED
    BY <1>2, <2>1 DEF EndsFor
<1> QED
  BY <1>1, <1>2 DEF AbandonedOnlyWhenUnknown, CancelFrame

-----------------------------------------------------------------------------
(* The steps that keep the channels *)

RunnerNext ==
  \/ RunnerStep
  \/ \E r \in Request : Abort(r) \/ \E isStreaming \in BOOLEAN : Run(r, isStreaming)

\* What answering the calls of S changes of them.
LEMMA SettledFields ==
  ASSUME RunnerTyped, NEW S, NEW outcome \in Outcomes, run' = Settled(S, outcome)
  PROVE  /\ run' \in [Request -> RunRecord]
         /\ \A r \in Request :
              /\ run'[r].phase = (IF r \in S THEN "settled" ELSE run[r].phase)
              /\ run'[r].knowsTask = run[r].knowsTask
              /\ run'[r].heard = run[r].heard
              /\ run'[r].isStreaming = run[r].isStreaming
<1>1. run \in [Request -> RunRecord]
  BY DEF RunnerTyped
<1>2. run' = [r \in Request |-> IF r \in S THEN [run[r] EXCEPT !.phase = "settled", !.outcome = outcome]
                                           ELSE run[r]]
  BY DEF Settled
<1>3. \A r \in Request :
        /\ run'[r] = IF r \in S THEN [run[r] EXCEPT !.phase = "settled", !.outcome = outcome] ELSE run[r]
        /\ run[r] \in RunRecord
  BY <1>1, <1>2
<1>4. \A r \in Request : run'[r] \in RunRecord
  BY <1>3 DEF RunRecord
<1>5. run' \in [Request -> RunRecord]
  BY <1>2, <1>4
<1>6. ASSUME NEW r \in Request
      PROVE  /\ run'[r].phase = (IF r \in S THEN "settled" ELSE run[r].phase)
             /\ run'[r].knowsTask = run[r].knowsTask
             /\ run'[r].heard = run[r].heard
             /\ run'[r].isStreaming = run[r].isStreaming
  BY <1>3 DEF RunRecord
<1> QED
  BY <1>5, <1>6

(* Settling requests neither submits nor hears anything. *)
LEMMA SettledKeeps ==
  ASSUME RunnerInv, NEW S, NEW outcome \in Outcomes, run' = Settled(S, outcome)
  PROVE  RunKeeps
<1>1. RunnerTyped /\ UnknownUntilSubmitted
  BY DEF RunnerInv, ChannelInv
<1>2. \A r \in Request :
        /\ run'[r].phase = (IF r \in S THEN "settled" ELSE run[r].phase)
        /\ run'[r].knowsTask = run[r].knowsTask
        /\ run'[r].heard = run[r].heard
        /\ run'[r].isStreaming = run[r].isStreaming
  BY <1>1, SettledFields
<1> QED
  BY <1>1, <1>2 DEF RunKeeps, UnknownUntilSubmitted

(* Steps that leave the channels alone keep the channel invariant. *)
LEMMA ChannelsUnchanged ==
  ASSUME ChannelInv, UNCHANGED <<waiters, run, toGateway, toRunner, task>>
  PROVE  ChannelInv'
<1>1. Queued(toGateway') = Queued(toGateway) /\ Queued(toRunner') = Queued(toRunner)
  OBVIOUS
<1>2. \A r \in Request : At(toRunner', PieceOf(r)) = At(toRunner, PieceOf(r))
  OBVIOUS
<1>3. WaitersDistinct' /\ SubmitsDistinct' /\ FramesInOrder'
  BY DEF ChannelInv, WaitersDistinct, SubmitsDistinct, FramesInOrder
<1>4. UnknownUntilSubmitted' /\ SubmittedOnce'
  BY <1>1 DEF ChannelInv, UnknownUntilSubmitted, SubmittedOnce
<1>5. FramesTell' /\ PiecesAccounted'
  BY <1>1, <1>2 DEF ChannelInv, FramesTell, PiecesAccounted
<1> QED
  BY <1>3, <1>4, <1>5 DEF ChannelInv

\* Connecting, or trying to.
LEMMA ConnectStep ==
  ASSUME RunnerInv, Connect
  PROVE  RunnerInv'
<1>1. /\ RunnerTyped /\ ConnectionFields /\ ChannelInv /\ AbandonedOnlyWhenUnknown
      /\ connection \in ConnectionRecord
  BY DEF RunnerInv, RunnerTyped
<1>2. /\ connection' \in ConnectionRecord
      /\ connection'.isClosed = connection.isClosed
      /\ connection'.reconnectTimer => ~connection'.isClosed
      /\ ~connection'.isClosed => (connection'.reconnectTimer <=> connection'.socket = "closed")
  <2> DEFINE fired == [connection EXCEPT !.reconnectTimer = FALSE]
  <2>1. /\ fired \in ConnectionRecord /\ ~fired.reconnectTimer
        /\ fired.socket = connection.socket /\ fired.isClosed = connection.isClosed
    BY <1>1 DEF ConnectionRecord
  <2>2. connection' = [fired EXCEPT !.socket = "opening"] \/ connection' = ScheduleReconnect(fired)
    BY DEF Connect
  <2>3. connection.reconnectTimer /\ ~connection.isClosed /\ connection.socket = "closed"
    BY <1>1 DEF Connect, ConnectionFields, OneConnection
  <2> HIDE DEF fired
  <2>4. CASE connection' = [fired EXCEPT !.socket = "opening"]
    BY <2>1, <2>3, <2>4 DEF ConnectionRecord
  <2>5. CASE connection' = ScheduleReconnect(fired)
    <3>1. connection' = [fired EXCEPT !.reconnectTimer = TRUE]
      BY <2>1, <2>3, <2>5 DEF ScheduleReconnect
    <3> QED
      BY <2>1, <2>3, <3>1 DEF ConnectionRecord
  <2> QED
    BY <2>2, <2>4, <2>5
<1>3. UNCHANGED <<waiters, run, toGateway, toRunner, task>>
  BY DEF Connect
<1>4. RunnerTyped' /\ ChannelInv'
  BY <1>1, <1>2, <1>3, ChannelsUnchanged DEF RunnerTyped
<1>5. ConnectionFields'
  BY <1>2 DEF ConnectionFields, OneConnection
<1>6. AbandonedOnlyWhenUnknown'
  BY <1>1, <1>2, <1>3 DEF AbandonedOnlyWhenUnknown
<1> QED
  BY <1>4, <1>5, <1>6 DEF RunnerInv

\* close() answers every call.
LEMMA CloseStep ==
  ASSUME RunnerInv, Close
  PROVE  RunnerInv'
<1>1. /\ RunnerTyped /\ ConnectionFields /\ ChannelInv /\ AbandonedOnlyWhenUnknown
      /\ connection \in ConnectionRecord
  BY DEF RunnerInv, RunnerTyped
<1> DEFINE S == Pending \cup {waiters[i] : i \in DOMAIN waiters}
<1>2. /\ run' = Settled(S, "failure") /\ waiters' = <<>>
      /\ UNCHANGED <<toGateway, toRunner, task>>
  BY DEF Close
<1> HIDE DEF S
<1>3. connection' \in ConnectionRecord /\ connection'.isClosed /\ ~connection'.reconnectTimer
  BY <1>1 DEF Close, ConnectionRecord
<1>4. "failure" \in Outcomes
  BY DEF Outcomes
<1>5. RunKeeps /\ run' \in [Request -> RunRecord]
  BY <1>1, <1>2, <1>4, SettledKeeps, SettledFields
<1>6. MayCancel
  BY <1>2 DEF MayCancel
<1>7. RunnerTyped' /\ ConnectionFields'
  BY <1>1, <1>2, <1>3, <1>5 DEF RunnerTyped, ConnectionFields, OneConnection
<1>8. WaitersDistinct' /\ SubmitsDistinct'
  BY <1>1, <1>2 DEF WaitersDistinct, ChannelInv, SubmitsDistinct
<1>9. AbandonedOnlyWhenUnknown'
  BY <1>3 DEF AbandonedOnlyWhenUnknown
<1> QED
  BY <1>2, <1>5, <1>6, <1>7, <1>8, <1>9, RunnerKeeps DEF RunnerInv, ChannelInv

\* A call that ends changes nothing else that is promised of the connection.
LEMMA SettledElsewhere ==
  ASSUME RunnerInv, UNCHANGED <<connection, toRunner, task>>,
         waiters' \in Seq(Request), WaitersDistinct', toGateway' \in Seq(RunnerFrame), SubmitsDistinct',
         run' \in [Request -> RunRecord], RunKeeps, MayCancel,
         Queued(toGateway) \subseteq Queued(toGateway'),
         \A r \in Request : run'[r].phase = "settled" => run[r].phase = "settled" \/ EndsFor(r)
  PROVE  RunnerInv'
<1>1. /\ RunnerTyped /\ ConnectionFields /\ ChannelInv /\ AbandonedOnlyWhenUnknown
  BY DEF RunnerInv
<1>2. RunnerTyped' /\ ConnectionFields'
  BY <1>1 DEF RunnerTyped, ConnectionFields, OneConnection
<1>3. UnknownUntilSubmitted' /\ SubmittedOnce' /\ FramesTell' /\ FramesInOrder' /\ PiecesAccounted'
  BY RunnerKeeps
<1>4. AbandonedOnlyWhenUnknown'
  BY <1>1, AbandonedForAReason DEF RunKeeps
<1> QED
  BY <1>2, <1>3, <1>4 DEF RunnerInv, ChannelInv

\* One element taken out of a sequence whose elements differ.
Without(s, i) == SubSeq(s, 1, i - 1) \o SubSeq(s, i + 1, Len(s))

(* A sequence of distinct elements without one of them is a sequence of distinct elements. *)
LEMMA TakenOut ==
  ASSUME NEW S, NEW s \in Seq(S), NEW i \in DOMAIN s, \A a, b \in DOMAIN s : s[a] = s[b] => a = b
  PROVE  /\ Without(s, i) \in Seq(S)
         /\ \A a \in DOMAIN Without(s, i) : \E b \in DOMAIN s \ {i} : Without(s, i)[a] = s[b]
         /\ \A a, b \in DOMAIN Without(s, i) : Without(s, i)[a] = Without(s, i)[b] => a = b
<1> DEFINE n == Len(s)
           u == SubSeq(s, 1, i - 1)
           v == SubSeq(s, i + 1, n)
           t == Without(s, i)
           from(a) == IF a \leq i - 1 THEN a ELSE a + 1
<1>1. DOMAIN s = 1..n /\ n \in Nat /\ i \in 1..n /\ \A a \in 1..n : s[a] \in S
  OBVIOUS
<1>2. /\ u \in Seq(S) /\ Len(u) = i - 1 /\ \A a \in 1..(i - 1) : u[a] = s[a]
  BY <1>1, SubSeqProperties
<1>3. /\ v \in Seq(S) /\ Len(v) = n - i /\ \A a \in 1..(n - i) : v[a] = s[i + a]
  <2>1. Len(v) = n - i /\ v \in Seq(S)
    BY <1>1, SubSeqProperties
  <2>2. ASSUME NEW a \in 1..(n - i)
        PROVE  v[a] = s[i + a]
    <3>1. v[a] = s[(i + 1) + a - 1] /\ (i + 1) + a - 1 = i + a
      BY <1>1, <2>2, SubSeqProperties
    <3> QED
      BY <3>1
  <2> QED
    BY <2>1, <2>2
<1>4. t = u \o v
  BY DEF Without
<1> HIDE DEF n, u, v, t
<1>5. /\ t \in Seq(S) /\ Len(t) = Len(u) + Len(v)
      /\ \A a \in 1..(Len(u) + Len(v)) : t[a] = IF a \leq Len(u) THEN u[a] ELSE v[a - Len(u)]
  <2>1. /\ u \o v \in Seq(S) /\ Len(u \o v) = Len(u) + Len(v)
        /\ \A a \in 1..(Len(u) + Len(v)) : (u \o v)[a] = IF a \leq Len(u) THEN u[a] ELSE v[a - Len(u)]
    <3>1. u \in Seq(S) /\ v \in Seq(S)
      BY <1>2, <1>3
    <3> QED
      BY <3>1, ConcatProperties
  <2> QED
    BY <1>4, <2>1, Zenon
<1>6. Len(u) + Len(v) = n - 1 /\ DOMAIN t = 1..(n - 1)
  <2>1. Len(u) + Len(v) = n - 1
    BY <1>1, <1>2, <1>3
  <2> QED
    BY <1>5, <2>1
<1>7. ASSUME NEW a \in DOMAIN t
      PROVE  from(a) \in DOMAIN s \ {i} /\ t[a] = s[from(a)]
  <2>1. a \in 1..(n - 1) /\ t[a] = IF a \leq i - 1 THEN u[a] ELSE v[a - (i - 1)]
    BY <1>2, <1>5, <1>6
  <2>2. CASE a \leq i - 1
    BY <1>1, <1>2, <2>1, <2>2
  <2>3. CASE ~(a \leq i - 1)
    <3> DEFINE k == a - (i - 1)
    <3>1. k \in 1..(n - i) /\ i + k = a + 1 /\ a + 1 \in 1..n /\ a + 1 # i
      BY <1>1, <2>1, <2>3
    <3>2. t[a] = v[k]
      BY <2>1, <2>3
    <3> HIDE DEF k
    <3>3. t[a] = s[a + 1]
      BY <1>3, <3>1, <3>2
    <3> QED
      BY <1>1, <2>3, <3>1, <3>3
  <2> QED
    BY <2>2, <2>3
<1>8. \A a, b \in DOMAIN t : from(a) = from(b) => a = b
  BY <1>1, <1>6
<1> HIDE DEF from
<1>9. \A a \in DOMAIN t : \E b \in DOMAIN s \ {i} : t[a] = s[b]
  BY <1>7
<1>10. \A a, b \in DOMAIN t : t[a] = t[b] => a = b
  BY <1>7, <1>8
<1> QED
  BY <1>5, <1>9, <1>10 DEF t

(* The timer of a request waiting for the connection keeps the runner's invariant. *)
LEMMA ExpiresStep ==
  ASSUME RunnerInv, NEW r \in Request, ConnectionWaitExpires(r)
  PROVE  RunnerInv'
<1>1. /\ RunnerTyped /\ WaitersDistinct /\ UnknownUntilSubmitted /\ SubmitsDistinct
      /\ waiters \in Seq(Request) /\ toGateway \in Seq(RunnerFrame)
  BY DEF RunnerInv, ChannelInv, RunnerTyped
<1>2. /\ run[r].phase = "waiting" /\ run' = Settled({r}, "failure")
      /\ UNCHANGED <<connection, toGateway, toRunner, task>>
  BY DEF ConnectionWaitExpires
<1>3. "failure" \in Outcomes
  BY DEF Outcomes
<1>4. /\ RunKeeps /\ run' \in [Request -> RunRecord]
      /\ \A q \in Request : run'[q].phase = (IF q \in {r} THEN "settled" ELSE run[q].phase)
  <2>1. RunKeeps
    BY <1>2, <1>3, SettledKeeps
  <2> QED
    BY <1>1, <1>2, <1>3, <2>1, SettledFields, ZenonT(40)
<1>5. waiters' \in Seq(Request) /\ WaitersDistinct'
  <2>1. PICK i \in DOMAIN waiters : waiters[i] = r /\ waiters' = Without(waiters, i)
    BY DEF ConnectionWaitExpires, Without
  <2>2. \A a, b \in DOMAIN waiters : waiters[a] = waiters[b] => a = b
    BY <1>1 DEF WaitersDistinct
  <2>3. /\ waiters' \in Seq(Request)
        /\ \A a \in DOMAIN waiters' : \E b \in DOMAIN waiters \ {i} : waiters'[a] = waiters[b]
        /\ \A a, b \in DOMAIN waiters' : waiters'[a] = waiters'[b] => a = b
    BY <1>1, <2>1, <2>2, TakenOut
  <2>4. \A b \in DOMAIN waiters \ {i} :
          waiters[b] \in Request /\ waiters[b] # r /\ run[waiters[b]].phase = "waiting"
    BY <1>1, <2>1, <2>2 DEF WaitersDistinct
  <2>5. \A b \in DOMAIN waiters \ {i} : run'[waiters[b]].phase = "waiting"
    BY <1>4, <2>4
  <2> QED
    BY <2>3, <2>5 DEF WaitersDistinct
<1>6. MayCancel /\ SubmitsDistinct' /\ Queued(toGateway) \subseteq Queued(toGateway')
  BY <1>1, <1>2 DEF MayCancel, SubmitsDistinct
<1>7. \A q \in Request : run'[q].phase = "settled" => run[q].phase = "settled" \/ EndsFor(q)
  BY <1>1, <1>2, <1>4 DEF EndsFor, UnknownUntilSubmitted
<1> QED
  BY <1>1, <1>2, <1>4, <1>5, <1>6, <1>7, SettledElsewhere

\* Giving up.
LEMMA GiveUpStep ==
  ASSUME RunnerInv, NEW r \in Request, NEW outcome \in Outcomes, GiveUp(r, outcome),
         UNCHANGED <<connection, waiters, toRunner, task>>
  PROVE  RunnerInv'
<1>1. /\ RunnerTyped /\ WaitersDistinct /\ UnknownUntilSubmitted /\ SubmitsDistinct
      /\ waiters \in Seq(Request) /\ toGateway \in Seq(RunnerFrame)
      /\ run \in [Request -> RunRecord] /\ run[r].knowsTask \in BOOLEAN
  BY DEF RunnerInv, ChannelInv, RunnerTyped, RunRecord
<1>2. CASE run[r].phase # "pending"
  <2>1. UNCHANGED <<run, toGateway>>
    BY <1>2 DEF GiveUp
  <2>2. RunKeeps /\ MayCancel
    BY <1>1, <2>1 DEF RunKeeps, MayCancel, UnknownUntilSubmitted
  <2>3. WaitersDistinct' /\ SubmitsDistinct' /\ Queued(toGateway) \subseteq Queued(toGateway')
    BY <1>1, <2>1 DEF WaitersDistinct, SubmitsDistinct
  <2> QED
    BY <1>1, <2>1, <2>2, <2>3, SettledElsewhere
<1>3. CASE run[r].phase = "pending"
  <2> DEFINE frame == CancelFrame(r)
  <2>1. /\ run' = Settled({r}, outcome)
        /\ toGateway' = IF run[r].knowsTask THEN Append(toGateway, frame) ELSE toGateway
    BY <1>3 DEF GiveUp, CancelFrame
  <2>2. /\ RunKeeps /\ run' \in [Request -> RunRecord]
        /\ \A q \in Request : run'[q].phase = (IF q \in {r} THEN "settled" ELSE run[q].phase)
    <3>1. RunKeeps
      BY <2>1, SettledKeeps
    <3> QED
      BY <1>1, <2>1, <3>1, SettledFields, ZenonT(40)
  <2>3. frame \in RunnerFrame /\ frame.type = "task.cancel"
    BY DEF RunnerFrame, CancelFrame
  <2>4. /\ toGateway' \in Seq(RunnerFrame) /\ SubmitsDistinct'
        /\ MayCancel /\ Queued(toGateway) \subseteq Queued(toGateway')
        /\ run[r].knowsTask => CancelFrame(r) \in Queued(toGateway')
    <3>1. CASE ~run[r].knowsTask
      BY <1>1, <2>1, <3>1 DEF MayCancel, SubmitsDistinct
    <3>2. CASE run[r].knowsTask
      <4>1. toGateway' = Append(toGateway, frame)
        BY <2>1, <3>2
      <4>2. /\ Append(toGateway, frame) \in Seq(RunnerFrame)
            /\ Queued(Append(toGateway, frame)) = Queued(toGateway) \cup {frame}
            /\ DOMAIN Append(toGateway, frame) = DOMAIN toGateway \cup {Len(toGateway) + 1}
            /\ Append(toGateway, frame)[Len(toGateway) + 1] = frame
            /\ \A i \in DOMAIN toGateway : Append(toGateway, frame)[i] = toGateway[i]
        BY <1>1, <2>3, QueuedAppend
      <4> HIDE DEF frame
      <4>3. SubmitsDistinct'
        BY <1>1, <2>3, <4>1, <4>2 DEF SubmitsDistinct
      <4>4. MayCancel
        BY <1>3, <3>2, <4>1, <4>2 DEF MayCancel, frame
      <4> QED
        BY <4>1, <4>2, <4>3, <4>4 DEF frame
    <3> QED
      BY <3>1, <3>2
  <2>5. WaitersDistinct'
    <3>1. \A i \in DOMAIN waiters : waiters[i] \in Request /\ waiters[i] # r
      BY <1>1, <1>3 DEF WaitersDistinct
    <3> QED
      BY <1>1, <2>2, <3>1 DEF WaitersDistinct
  <2>6. \A q \in Request : run'[q].phase = "settled" => run[q].phase = "settled" \/ EndsFor(q)
    BY <1>1, <2>2, <2>4 DEF EndsFor
  <2> QED
    BY <1>1, <2>2, <2>4, <2>5, <2>6, SettledElsewhere
<1> QED
  BY <1>2, <1>3

\* A call refused, or one that begins to wait.
LEMMA RefuseStep ==
  ASSUME RunnerInv, NEW r \in Request, run[r].phase = "idle", run' = Settled({r}, "failure"),
         UNCHANGED <<connection, waiters, toGateway, toRunner, task>>
  PROVE  RunnerInv'
<1>1. /\ RunnerTyped /\ WaitersDistinct /\ UnknownUntilSubmitted /\ SubmitsDistinct
      /\ waiters \in Seq(Request) /\ toGateway \in Seq(RunnerFrame)
  BY DEF RunnerInv, ChannelInv, RunnerTyped
<1>2. "failure" \in Outcomes
  BY DEF Outcomes
<1>3. /\ RunKeeps /\ run' \in [Request -> RunRecord]
      /\ \A q \in Request : run'[q].phase = (IF q \in {r} THEN "settled" ELSE run[q].phase)
  <2>1. RunKeeps
    BY <1>2, SettledKeeps
  <2> QED
    BY <1>1, <1>2, <2>1, SettledFields, ZenonT(40)
<1>4. WaitersDistinct'
  <2>1. \A i \in DOMAIN waiters : waiters[i] \in Request /\ waiters[i] # r
    BY <1>1 DEF WaitersDistinct
  <2> QED
    BY <1>1, <1>3, <2>1 DEF WaitersDistinct
<1>5. MayCancel /\ SubmitsDistinct' /\ Queued(toGateway) \subseteq Queued(toGateway')
  BY <1>1 DEF MayCancel, SubmitsDistinct
<1>6. \A q \in Request : run'[q].phase = "settled" => run[q].phase = "settled" \/ EndsFor(q)
  BY <1>1, <1>3 DEF EndsFor, UnknownUntilSubmitted
<1> QED
  BY <1>1, <1>3, <1>4, <1>5, <1>6, SettledElsewhere

\* What starting a call changes of it.
LEMMA StartedFields ==
  ASSUME RunnerTyped, NEW r \in Request, NEW isStreaming \in BOOLEAN, NEW phase \in {"waiting", "pending"},
         run' = [run EXCEPT ![r].phase = phase, ![r].isStreaming = isStreaming]
  PROVE  /\ run' \in [Request -> RunRecord]
         /\ \A q \in Request \ {r} : run'[q] = run[q]
         /\ run'[r].phase = phase
         /\ run'[r].knowsTask = run[r].knowsTask /\ run'[r].heard = run[r].heard
<1>1. run \in [Request -> RunRecord] /\ run[r] \in RunRecord
  BY DEF RunnerTyped
<1> DEFINE e == [[run[r] EXCEPT !.phase = phase] EXCEPT !.isStreaming = isStreaming]
<1>3. /\ e \in RunRecord /\ e.phase = phase
      /\ e.knowsTask = run[r].knowsTask /\ e.heard = run[r].heard
  BY <1>1 DEF RunRecord
<1>4. run' = [run EXCEPT ![r] = e]
  BY <1>1
<1> HIDE DEF e
<1> QED
  BY <1>1, <1>3, <1>4

(* So does a request that begins to wait. *)
LEMMA WaitStep ==
  ASSUME RunnerInv, NEW r \in Request, NEW isStreaming \in BOOLEAN, run[r].phase = "idle",
         WaitForConnection(r, isStreaming), UNCHANGED <<connection, toRunner, task>>
  PROVE  RunnerInv'
<1>1. /\ RunnerTyped /\ WaitersDistinct /\ UnknownUntilSubmitted /\ SubmitsDistinct
      /\ waiters \in Seq(Request) /\ toGateway \in Seq(RunnerFrame)
  BY DEF RunnerInv, ChannelInv, RunnerTyped
<1>2. /\ run' = [run EXCEPT ![r].phase = "waiting", ![r].isStreaming = isStreaming]
      /\ waiters' = Append(waiters, r) /\ toGateway' = toGateway
  BY DEF WaitForConnection
<1>3. /\ run' \in [Request -> RunRecord]
      /\ \A q \in Request \ {r} : run'[q] = run[q]
      /\ run'[r].phase = "waiting"
      /\ run'[r].knowsTask = run[r].knowsTask /\ run'[r].heard = run[r].heard
  BY <1>1, <1>2, StartedFields
<1>4. RunKeeps
  <2>1. \A q \in Request : q = r \/ run'[q] = run[q]
    BY <1>3
  <2> QED
    BY <1>1, <1>3, <2>1 DEF RunKeeps, UnknownUntilSubmitted
<1>5. waiters' \in Seq(Request) /\ WaitersDistinct'
  <2>1. /\ Append(waiters, r) \in Seq(Request)
        /\ DOMAIN Append(waiters, r) = DOMAIN waiters \cup {Len(waiters) + 1}
        /\ Append(waiters, r)[Len(waiters) + 1] = r
        /\ \A i \in DOMAIN waiters : Append(waiters, r)[i] = waiters[i]
    BY <1>1, QueuedAppend
  <2>2. \A i \in DOMAIN waiters : /\ waiters[i] \in Request \ {r}
                                  /\ run[waiters[i]].phase = "waiting"
    BY <1>1 DEF WaitersDistinct
  <2>3. \A i \in DOMAIN waiters' : run'[waiters'[i]].phase = "waiting"
    BY <1>2, <1>3, <2>1, <2>2
  <2>4. \A i, j \in DOMAIN waiters' : waiters'[i] = waiters'[j] => i = j
    BY <1>1, <1>2, <2>1, <2>2 DEF WaitersDistinct
  <2> QED
    BY <1>2, <2>1, <2>3, <2>4 DEF WaitersDistinct
<1>6. MayCancel /\ SubmitsDistinct' /\ Queued(toGateway) \subseteq Queued(toGateway')
  BY <1>1, <1>2 DEF MayCancel, SubmitsDistinct
<1>7. \A q \in Request : run'[q].phase = "settled" => run[q].phase = "settled" \/ EndsFor(q)
  BY <1>3
<1> QED
  BY <1>1, <1>2, <1>3, <1>4, <1>5, <1>6, <1>7, SettledElsewhere

\* A call submitted as soon as it comes.
LEMMA SubmitStep ==
  ASSUME RunnerInv, NEW r \in Request, NEW isStreaming \in BOOLEAN, run[r].phase = "idle",
         SubmitAtOnce(r, isStreaming), UNCHANGED <<connection, toRunner, task>>
  PROVE  RunnerInv'
<1>1. /\ RunnerTyped /\ ConnectionFields /\ ChannelInv /\ AbandonedOnlyWhenUnknown
      /\ WaitersDistinct /\ UnknownUntilSubmitted /\ SubmitsDistinct
      /\ waiters \in Seq(Request) /\ toGateway \in Seq(RunnerFrame)
  BY DEF RunnerInv, ChannelInv, RunnerTyped
<1> DEFINE frame == SubmitFrame(r)
<1>2. /\ run' = [run EXCEPT ![r].phase = "pending", ![r].isStreaming = isStreaming]
      /\ toGateway' = Append(toGateway, frame) /\ waiters' = waiters
  BY DEF SubmitAtOnce
<1>3. /\ run' \in [Request -> RunRecord]
      /\ \A q \in Request \ {r} : run'[q] = run[q]
      /\ run'[r].phase = "pending"
      /\ run'[r].knowsTask = run[r].knowsTask /\ run'[r].heard = run[r].heard
  BY <1>1, <1>2, StartedFields
<1>4. /\ frame \in RunnerFrame /\ frame.of = r
      /\ \A i \in DOMAIN toGateway : toGateway[i] # frame
  <2>1. \A i \in DOMAIN toGateway : toGateway[i].of # r
    BY <1>1 DEF UnknownUntilSubmitted, Queued
  <2> QED
    BY <2>1 DEF SubmitFrame, RunnerFrame
<1>5. /\ toGateway' \in Seq(RunnerFrame)
      /\ Queued(toGateway') = Queued(toGateway) \cup {frame}
      /\ DOMAIN toGateway' = DOMAIN toGateway \cup {Len(toGateway) + 1}
      /\ toGateway'[Len(toGateway) + 1] = frame
      /\ \A i \in DOMAIN toGateway : toGateway'[i] = toGateway[i]
  BY <1>1, <1>2, <1>4, QueuedAppend
<1> HIDE DEF frame
<1>6. SubmitsDistinct'
  BY <1>1, <1>4, <1>5 DEF SubmitsDistinct
<1>7. WaitersDistinct'
  <2>1. \A i \in DOMAIN waiters : waiters[i] \in Request \ {r}
    BY <1>1 DEF WaitersDistinct
  <2> QED
    BY <1>1, <1>2, <1>3, <2>1 DEF WaitersDistinct
<1>8. Submits({r})
  <2>1. ~run[r].isStreaming
    BY <1>1 DEF UnknownUntilSubmitted
  <2> QED
    BY <1>3, <1>5, <2>1 DEF Submits, frame
<1>9. UnknownUntilSubmitted' /\ SubmittedOnce' /\ FramesTell' /\ FramesInOrder' /\ PiecesAccounted'
  BY <1>8, RunnerSubmits
<1>10. RunnerTyped' /\ ConnectionFields'
  BY <1>1, <1>2, <1>3, <1>5 DEF RunnerTyped, ConnectionFields, OneConnection
<1>11. AbandonedOnlyWhenUnknown'
  <2>1. \A q \in Request : run'[q].phase = "settled" =>
          q # r /\ run'[q].knowsTask = run[q].knowsTask /\ run[q].phase = "settled"
    BY <1>3
  <2> QED
    BY <1>1, <1>5, <2>1, AbandonedForAReason
<1> QED
  BY <1>6, <1>7, <1>9, <1>10, <1>11 DEF RunnerInv, ChannelInv

\* Every call that waits is submitted.
LEMMA RegisteredStep ==
  ASSUME RunnerInv, Registered
  PROVE  RunnerInv'
<1>1. /\ RunnerTyped /\ ConnectionFields /\ ChannelInv /\ AbandonedOnlyWhenUnknown
      /\ WaitersDistinct /\ UnknownUntilSubmitted /\ SubmitsDistinct
      /\ waiters \in Seq(Request) /\ toGateway \in Seq(RunnerFrame)
      /\ run \in [Request -> RunRecord] /\ connection \in ConnectionRecord
  BY DEF RunnerInv, ChannelInv, RunnerTyped
<1> DEFINE S == {waiters[i] : i \in DOMAIN waiters}
           frames == [i \in DOMAIN waiters |-> SubmitFrame(waiters[i])]
<1>2. /\ run' = [r \in Request |-> IF r \in S THEN [run[r] EXCEPT !.phase = "pending"] ELSE run[r]]
      /\ toGateway' = toGateway \o frames /\ waiters' = <<>>
      /\ UNCHANGED <<toRunner, task>>
  BY DEF Registered, StartPending
<1>3. S \subseteq Request /\ \A r \in S : run[r].phase = "waiting"
  BY <1>1 DEF WaitersDistinct
<1>4. /\ frames \in Seq(RunnerFrame) /\ Len(frames) = Len(waiters) /\ DOMAIN frames = DOMAIN waiters
      /\ \A i \in DOMAIN waiters : frames[i] = SubmitFrame(waiters[i])
  <2>1. \A i \in 1..Len(waiters) : SubmitFrame(waiters[i]) \in RunnerFrame
    BY <1>1 DEF SubmitFrame, RunnerFrame
  <2>2. Len(waiters) \in Nat /\ DOMAIN waiters = 1..Len(waiters)
    BY <1>1
  <2> QED
    BY <2>1, <2>2
<1>5. /\ toGateway' \in Seq(RunnerFrame) /\ Len(toGateway') = Len(toGateway) + Len(frames)
      /\ \A i \in 1..(Len(toGateway) + Len(frames)) :
           toGateway'[i] = IF i \leq Len(toGateway) THEN toGateway[i] ELSE frames[i - Len(toGateway)]
  <2>1. /\ toGateway \o frames \in Seq(RunnerFrame)
        /\ Len(toGateway \o frames) = Len(toGateway) + Len(frames)
        /\ \A i \in 1..(Len(toGateway) + Len(frames)) :
             (toGateway \o frames)[i] = IF i \leq Len(toGateway) THEN toGateway[i] ELSE frames[i - Len(toGateway)]
    BY <1>1, <1>4, ConcatProperties
  <2> QED
    BY <1>2, <2>1
<1> DEFINE n == Len(toGateway)
           m == Len(waiters)
<1>6. n \in Nat /\ m \in Nat /\ DOMAIN toGateway = 1..n /\ DOMAIN waiters = 1..m /\ DOMAIN toGateway' = 1..(n + m)
  BY <1>1, <1>4, <1>5
<1> HIDE DEF frames
<1>7. /\ \A i \in 1..n : toGateway'[i] = toGateway[i]
      /\ \A i \in 1..m : toGateway'[n + i] = SubmitFrame(waiters[i])
      /\ \A i \in 1..(n + m) : i \in 1..n \/ (i - n \in 1..m /\ n + (i - n) = i)
  <2>1. \A i \in 1..m : n + i \in 1..(n + m) /\ ~(n + i \leq n) /\ (n + i) - n = i
    BY <1>6
  <2>2. \A i \in 1..n : i \in 1..(n + m) /\ i \leq n
    BY <1>6
  <2>3. \A i \in 1..(n + m) : i \in 1..n \/ (i - n \in 1..m /\ n + (i - n) = i)
    BY <1>6
  <2> QED
    BY <1>4, <1>5, <1>6, <2>1, <2>2, <2>3
<1> HIDE DEF n, m
<1>8. Queued(toGateway') = Queued(toGateway) \cup {SubmitFrame(r) : r \in S}
  <2>1. ASSUME NEW f \in Queued(toGateway')
        PROVE  f \in Queued(toGateway) \cup {SubmitFrame(r) : r \in S}
    <3>1. PICK i \in 1..(n + m) : f = toGateway'[i]
      BY <1>6 DEF Queued
    <3>2. CASE i \in 1..n
      BY <1>6, <1>7, <3>1, <3>2 DEF Queued
    <3>3. CASE i \notin 1..n
      <4>1. i - n \in 1..m /\ f = SubmitFrame(waiters[i - n])
        BY <1>7, <3>1, <3>3
      <4>2. waiters[i - n] \in S
        BY <1>6, <4>1
      <4> QED
        BY <4>1, <4>2
    <3> QED
      BY <3>2, <3>3
  <2>2. ASSUME NEW f \in Queued(toGateway)
        PROVE  f \in Queued(toGateway')
    <3>1. PICK i \in 1..n : f = toGateway[i]
      BY <1>6 DEF Queued
    <3>2. i \in DOMAIN toGateway' /\ toGateway'[i] = f
      BY <1>6, <1>7, <3>1
    <3> QED
      BY <3>2 DEF Queued
  <2>3. ASSUME NEW r \in S
        PROVE  SubmitFrame(r) \in Queued(toGateway')
    <3>1. PICK i \in 1..m : r = waiters[i]
      BY <1>6
    <3>2. n + i \in DOMAIN toGateway' /\ toGateway'[n + i] = SubmitFrame(r)
      BY <1>6, <1>7, <3>1
    <3> QED
      BY <3>2 DEF Queued
  <2> QED
    BY <2>1, <2>2, <2>3
<1>9. SubmitsDistinct'
  <2>1. \A i \in 1..n : \A k \in 1..m : toGateway[i] # SubmitFrame(waiters[k])
    <3> TAKE i \in 1..n
    <3> TAKE k \in 1..m
    <3>1. toGateway[i].of # waiters[k]
      BY <1>1, <1>3, <1>6 DEF UnknownUntilSubmitted, Queued
    <3> QED
      BY <3>1 DEF SubmitFrame
  <2>2. \A k, l \in 1..m : SubmitFrame(waiters[k]) = SubmitFrame(waiters[l]) => k = l
    BY <1>1, <1>6, FramesApart DEF WaitersDistinct
  <2>3. ASSUME NEW i \in 1..(n + m), NEW j \in 1..(n + m),
               toGateway'[i].type = "task.submit", toGateway'[i] = toGateway'[j]
        PROVE  i = j
    <3>1. CASE i \in 1..n /\ j \in 1..n
      BY <1>1, <1>6, <1>7, <2>3, <3>1 DEF SubmitsDistinct
    <3>2. CASE i \in 1..n /\ j \notin 1..n
      BY <1>7, <2>1, <2>3, <3>2
    <3>3. CASE i \notin 1..n /\ j \in 1..n
      BY <1>7, <2>1, <2>3, <3>3
    <3>4. CASE i \notin 1..n /\ j \notin 1..n
      <4>1. i - n = j - n
        BY <1>7, <2>2, <2>3, <3>4
      <4> QED
        BY <1>6, <4>1
    <3> QED
      BY <3>1, <3>2, <3>3, <3>4
  <2> QED
    BY <1>6, <2>3 DEF SubmitsDistinct
<1> HIDE DEF S
<1>10. /\ run' \in [Request -> RunRecord]
       /\ \A r \in Request \ S : run'[r] = run[r]
       /\ \A r \in S : /\ run'[r].phase = "pending" /\ run'[r].isStreaming = run[r].isStreaming
                       /\ run'[r].knowsTask = run[r].knowsTask /\ run'[r].heard = run[r].heard
  <2>1. \A r \in Request :
          /\ run'[r] = IF r \in S THEN [run[r] EXCEPT !.phase = "pending"] ELSE run[r]
          /\ run[r] \in RunRecord
    BY <1>1, <1>2
  <2>2. \A r \in Request : run'[r] \in RunRecord
    BY <2>1 DEF RunRecord
  <2>3. run' \in [Request -> RunRecord]
    BY <1>2, <2>2
  <2>4. \A r \in Request \ S : run'[r] = run[r]
    BY <2>1
  <2>5. \A r \in S : /\ run'[r].phase = "pending" /\ run'[r].isStreaming = run[r].isStreaming
                     /\ run'[r].knowsTask = run[r].knowsTask /\ run'[r].heard = run[r].heard
    BY <1>3, <2>1 DEF RunRecord
  <2> QED
    BY <2>3, <2>4, <2>5
<1>11. Submits(S)
  BY <1>3, <1>8, <1>10 DEF Submits
<1>12. UnknownUntilSubmitted' /\ SubmittedOnce' /\ FramesTell' /\ FramesInOrder' /\ PiecesAccounted'
  BY <1>2, <1>3, <1>11, RunnerSubmits
<1>13. /\ connection' \in ConnectionRecord /\ connection'.isClosed = connection.isClosed
       /\ connection'.reconnectTimer = connection.reconnectTimer /\ connection'.socket = "registered"
       /\ connection.socket = "opening"
  BY <1>1 DEF Registered, ConnectionRecord
<1>14. RunnerTyped' /\ ConnectionFields' /\ WaitersDistinct'
  <2>1. RunnerTyped'
    BY <1>1, <1>2, <1>5, <1>10, <1>13 DEF RunnerTyped
  <2>2. ConnectionFields'
    BY <1>1, <1>13 DEF ConnectionFields, OneConnection
  <2> QED
    BY <1>2, <2>1, <2>2 DEF WaitersDistinct
<1>15. AbandonedOnlyWhenUnknown'
  <2>1. \A q \in Request : run'[q].phase = "settled" =>
          /\ run'[q].knowsTask = run[q].knowsTask /\ run[q].phase = "settled"
    BY <1>10
  <2> QED
    BY <1>1, <1>2, <1>8, <1>13, <2>1, AbandonedForAReason
<1> QED
  BY <1>9, <1>12, <1>14, <1>15 DEF RunnerInv, ChannelInv

-----------------------------------------------------------------------------
(* The steps that read a frame *)

\* The gateway answers one request with a frame, and tells of no other.
AnswersWith(r, g) ==
  /\ g.of = r /\ toRunner' = Append(toRunner, g)
  /\ SubmitFrame(r) \notin Queued(toGateway') /\ run[r].phase \notin {"idle", "waiting"}
  /\ task' \in [Request -> TaskRecord] /\ \A q \in Request \ {r} : task'[q] = task[q]
  /\ task'[r].state = "absent" => ~task'[r].hasOwner /\ ~run[r].knowsTask /\ task'[r].pieces = 0
  /\ task[r].hasOwner => task'[r].hasOwner
  /\ task[r].state \in Finished => task'[r].state \in Finished

\* It says of the task what the task is, ...
TellsOf(r, g) ==
  /\ g.type = "error" => task'[r].state = "absent" /\ g.state = "failed" /\ ~g.newText
  /\ g.type = "task.accepted" => g.state = "running" /\ ~g.newText
  /\ g.type # "error" => task'[r].hasOwner
  /\ g.type # "error" /\ g.state # "running" => task'[r].state \in Finished
  /\ g.newText => g.state = "running" /\ run[r].isStreaming

\* ... after what it said before, ...
SaysInTurn(r, g) ==
  \A f \in Queued(toRunner) : f.of = r =>
    g.type = "task.updated" /\ f.type # "error" /\ (f.state # "running" => g.state # "running")

\* ... leaving no piece out, ...
SaysAll(r, g) ==
  run[r].phase = "pending" /\ task'[r].hasOwner =>
    /\ ~run[r].knowsTask => g.type = "task.accepted" \/ task[r].hasOwner
    /\ run[r].heard + Cardinality(At(toRunner, PieceOf(r))) + (IF g.newText THEN 1 ELSE 0) = task'[r].pieces

\* ... and the task only runs if it ran and is not being cancelled, or is not known yet.
RunsOn(r) ==
  task'[r].state = "running" =>
    \/ ~run[r].knowsTask
    \/ /\ task[r].state = "running" /\ (task'[r].hasOwner => task[r].hasOwner)
       /\ CancelFrame(r) \in Queued(toGateway) => CancelFrame(r) \in Queued(toGateway')

(* The frame of every step of the gateway: it answers one request with one frame. *)
LEMMA GatewayAnswers ==
  ASSUME RunnerInv, NEW r \in Request, NEW g \in GatewayFrame, UNCHANGED <<connection, waiters, run>>,
         toGateway' \in Seq(RunnerFrame), SubmitsDistinct', Queued(toGateway') \subseteq Queued(toGateway),
         \A q \in Request \ {r} : CancelFrame(q) \in Queued(toGateway) => CancelFrame(q) \in Queued(toGateway'),
         AnswersWith(r, g), TellsOf(r, g), SaysInTurn(r, g), SaysAll(r, g), RunsOn(r)
  PROVE  RunnerInv'
<1>1. /\ RunnerTyped /\ ConnectionFields /\ WaitersDistinct /\ UnknownUntilSubmitted /\ SubmittedOnce
      /\ FramesTell /\ FramesInOrder /\ PiecesAccounted /\ AbandonedOnlyWhenUnknown
      /\ toRunner \in Seq(GatewayFrame) /\ run \in [Request -> RunRecord] /\ task \in [Request -> TaskRecord]
  BY DEF RunnerInv, ChannelInv, RunnerTyped
<1>2. /\ g.of = r /\ toRunner' \in Seq(GatewayFrame)
      /\ Queued(toRunner') = Queued(toRunner) \cup {g}
      /\ DOMAIN toRunner' = DOMAIN toRunner \cup {Len(toRunner) + 1}
      /\ toRunner'[Len(toRunner) + 1] = g
      /\ \A i \in DOMAIN toRunner : i \in Nat /\ i < Len(toRunner) + 1 /\ toRunner'[i] = toRunner[i]
  BY <1>1, QueuedAppend DEF AnswersWith
<1>3. \A f \in Queued(toRunner) : f.of \in Request
  <2>1. Queued(toRunner) \subseteq GatewayFrame
    BY <1>1, QueuedTyped
  <2> QED
    BY <2>1 DEF GatewayFrame
<1>4. \A q \in Request : q = r \/ task'[q] = task[q]
  BY DEF AnswersWith
<1>5. RunnerTyped' /\ ConnectionFields' /\ WaitersDistinct'
  BY <1>1, <1>2 DEF RunnerTyped, ConnectionFields, OneConnection, WaitersDistinct, AnswersWith
<1>6. UnknownUntilSubmitted'
  BY <1>1, <1>2, <1>4 DEF UnknownUntilSubmitted, AnswersWith
<1>7. SubmittedOnce'
  BY <1>1, <1>2, <1>4 DEF SubmittedOnce, AnswersWith
<1>8. FramesTell'
  <2>1. ASSUME NEW f \in Queued(toRunner), f.of # r
        PROVE  task'[f.of] = task[f.of] /\ run'[f.of] = run[f.of]
    BY <1>3, <1>4, <2>1
  <2>2. ASSUME NEW f \in Queued(toRunner), f.of = r
        PROVE  /\ f.type # "error"
               /\ task[f.of].hasOwner => task'[f.of].hasOwner
               /\ task[f.of].state \in Finished => task'[f.of].state \in Finished
               /\ run'[f.of] = run[f.of]
    BY <2>2 DEF AnswersWith, SaysInTurn
  <2> QED
    BY <1>1, <1>2, <2>1, <2>2 DEF FramesTell, TellsOf
<1>9. FramesInOrder'
  <2>1. ASSUME NEW i \in DOMAIN toRunner', NEW j \in DOMAIN toRunner', i < j, toRunner'[i].of = toRunner'[j].of
        PROVE  /\ toRunner'[j].type = "task.updated"
               /\ toRunner'[i].state # "running" => toRunner'[j].state # "running"
    <3>1. i \in DOMAIN toRunner
      BY <1>1, <1>2, <2>1
    <3>2. CASE j \in DOMAIN toRunner
      BY <1>1, <1>2, <2>1, <3>1, <3>2 DEF FramesInOrder
    <3>3. CASE j = Len(toRunner) + 1
      BY <1>2, <2>1, <3>1, <3>3 DEF Queued, SaysInTurn
    <3> QED
      BY <1>2, <3>2, <3>3
  <2> QED
    BY <2>1 DEF FramesInOrder
<1>10. PiecesAccounted'
  <2>1. \A q \in Request : g \in PieceOf(q) <=> q = r /\ g.newText
    BY <1>2 DEF PieceOf
  <2>2. \A q \in Request : Cardinality(At(toRunner', PieceOf(q))) =
          Cardinality(At(toRunner, PieceOf(q))) + (IF q = r /\ g.newText THEN 1 ELSE 0)
    <3> TAKE q \in Request
    <3>1. Cardinality(At(Append(toRunner, g), PieceOf(q))) =
            Cardinality(At(toRunner, PieceOf(q))) + (IF g \in PieceOf(q) THEN 1 ELSE 0)
      BY <1>1, CountAppend
    <3> QED
      BY <2>1, <3>1 DEF AnswersWith
  <2>3. \A q \in Request : Cardinality(At(toRunner, PieceOf(q))) \in Nat /\ run[q].heard \in Nat
    BY <1>1, AtIsFinite DEF RunRecord
  <2>4. ASSUME NEW q \in Request, q # r, run[q].phase = "pending", task[q].hasOwner
        PROVE  run[q].heard + Cardinality(At(toRunner', PieceOf(q))) = task'[q].pieces
    <3>1. Cardinality(At(toRunner', PieceOf(q))) = Cardinality(At(toRunner, PieceOf(q)))
      BY <2>2, <2>3, <2>4
    <3> QED
      BY <1>1, <1>4, <2>4, <3>1 DEF PiecesAccounted
  <2>5. ASSUME run[r].phase = "pending", task'[r].hasOwner
        PROVE  run[r].heard + Cardinality(At(toRunner', PieceOf(r))) = task'[r].pieces
    <3> DEFINE c == Cardinality(At(toRunner, PieceOf(r)))
               d == Cardinality(At(toRunner', PieceOf(r)))
               x == IF g.newText THEN 1 ELSE 0
               h == run[r].heard
    <3>1. d = c + x /\ h + c + x = task'[r].pieces /\ c \in Nat /\ h \in Nat /\ x \in Nat
      BY <2>2, <2>3, <2>5 DEF SaysAll
    <3> HIDE DEF c, d, x, h
    <3>2. h + d = task'[r].pieces
      BY <3>1
    <3> QED
      BY <3>2 DEF h, d
  <2>6. ASSUME NEW q \in Request, run'[q].phase = "pending"
        PROVE  /\ run'[q].knowsTask => task'[q].hasOwner
               /\ task'[q].hasOwner /\ ~run'[q].knowsTask =>
                    \E f \in Queued(toRunner') : f.type = "task.accepted" /\ f.of = q
    <3>1. CASE q = r
      BY <1>1, <1>2, <2>6, <3>1 DEF PiecesAccounted, AnswersWith, SaysAll, TellsOf
    <3>2. CASE q # r
      BY <1>1, <1>2, <1>4, <2>6, <3>2 DEF PiecesAccounted
    <3> QED
      BY <3>1, <3>2
  <2>7. ASSUME NEW q \in Request, run'[q].phase = "pending", task'[q].hasOwner
        PROVE  run'[q].heard + Cardinality(At(toRunner', PieceOf(q))) = task'[q].pieces
    <3>1. CASE q = r
      BY <2>5, <2>7, <3>1
    <3>2. CASE q # r
      BY <1>4, <2>4, <2>7, <3>2
    <3> QED
      BY <3>1, <3>2
  <2> QED
    BY <2>6, <2>7 DEF PiecesAccounted
<1>11. AbandonedOnlyWhenUnknown'
  <2>1. EndsFor(r) \/ /\ task'[r].state = "running" => task[r].state = "running"
                      /\ task'[r].hasOwner => task[r].hasOwner
                      /\ CancelFrame(r) \in Queued(toGateway) => CancelFrame(r) \in Queued(toGateway')
    BY DEF EndsFor, RunsOn
  <2>2. \A q \in Request : run'[q] = run[q]
    OBVIOUS
  <2> QED
    BY <1>1, <1>4, <2>1, <2>2, AbandonedForAReason
<1> QED
  BY <1>5, <1>6, <1>7, <1>8, <1>9, <1>10, <1>11 DEF RunnerInv, ChannelInv

\* What the gateway has not read yet once it has read a frame.
LEMMA GatewayReads ==
  ASSUME RunnerInv, toGateway # <<>>, toGateway' = Tail(toGateway)
  PROVE  /\ Head(toGateway) \in RunnerFrame /\ Head(toGateway) \in Queued(toGateway)
         /\ toGateway' \in Seq(RunnerFrame) /\ SubmitsDistinct'
         /\ Queued(toGateway) = Queued(toGateway') \cup {Head(toGateway)}
         /\ Head(toGateway).type = "task.submit" => Head(toGateway) \notin Queued(toGateway')
<1>1. SubmitsDistinct /\ toGateway \in Seq(RunnerFrame)
  BY DEF RunnerInv, ChannelInv, RunnerTyped
<1>2. /\ Head(toGateway) \in RunnerFrame /\ Tail(toGateway) \in Seq(RunnerFrame)
      /\ Head(toGateway) = toGateway[1] /\ 1 \in DOMAIN toGateway
      /\ Queued(toGateway) = {Head(toGateway)} \cup Queued(Tail(toGateway))
      /\ \A i \in DOMAIN Tail(toGateway) : /\ i \in Nat \ {0} /\ i + 1 \in DOMAIN toGateway
                                           /\ Tail(toGateway)[i] = toGateway[i + 1]
  BY <1>1, QueuedTail
<1>3. SubmitsDistinct'
  <2>1. ASSUME NEW i \in DOMAIN toGateway', NEW j \in DOMAIN toGateway',
               toGateway'[i].type = "task.submit", toGateway'[i] = toGateway'[j]
        PROVE  i = j
    <3>1. i + 1 = j + 1
      BY <1>1, <1>2, <2>1 DEF SubmitsDistinct
    <3> QED
      BY <1>2, <3>1
  <2> QED
    BY <2>1 DEF SubmitsDistinct
<1>4. ASSUME Head(toGateway).type = "task.submit", NEW i \in DOMAIN toGateway', toGateway'[i] = Head(toGateway)
      PROVE  FALSE
  <2>1. i \in Nat \ {0} /\ i + 1 \in DOMAIN toGateway /\ toGateway[i + 1] = toGateway[1]
    BY <1>2, <1>4
  <2>2. i + 1 = 1
    BY <1>1, <1>2, <1>4, <2>1 DEF SubmitsDistinct
  <2> QED
    BY <2>1, <2>2
<1> QED
  BY <1>2, <1>3, <1>4 DEF Queued

(* The gateway reading a submission keeps the invariant, *)
LEMMA ReadsSubmitStep ==
  ASSUME RunnerInv, GatewayReadsSubmit
  PROVE  RunnerInv'
<1> DEFINE h == Head(toGateway)
           r == h.of
<1>1. /\ RunnerTyped /\ UnknownUntilSubmitted /\ SubmittedOnce /\ task \in [Request -> TaskRecord]
      /\ toRunner \in Seq(GatewayFrame) /\ run \in [Request -> RunRecord]
  BY DEF RunnerInv, ChannelInv, RunnerTyped
<1>2. /\ toGateway # <<>> /\ h.type = "task.submit" /\ toGateway' = Tail(toGateway)
      /\ UNCHANGED <<connection, waiters, run>>
      /\ \/ toRunner' = Append(toRunner, Frame("error", r, "failed", FALSE)) /\ UNCHANGED task
         \/ /\ task' = [task EXCEPT ![r].state = "running", ![r].hasOwner = TRUE]
            /\ toRunner' = Append(toRunner, Frame("task.accepted", r, "running", FALSE))
  BY DEF GatewayReadsSubmit
<1> HIDE DEF h
<1>3. /\ h \in RunnerFrame /\ h \in Queued(toGateway)
      /\ toGateway' \in Seq(RunnerFrame) /\ SubmitsDistinct'
      /\ Queued(toGateway) = Queued(toGateway') \cup {h} /\ h \notin Queued(toGateway')
  BY <1>2, GatewayReads DEF h
<1>4. r \in Request /\ h = SubmitFrame(r)
  BY <1>2, <1>3 DEF RunnerFrame, SubmitFrame
<1> HIDE DEF r
<1>5. /\ ~run[r].knowsTask /\ task[r].state = "absent" /\ ~task[r].hasOwner /\ task[r].pieces = 0
      /\ run[r].heard = 0 /\ run[r].phase \notin {"idle", "waiting"}
      /\ \A f \in Queued(toRunner) : f.of # r
  <2>1. h.of = r
    BY DEF r
  <2> QED
    BY <1>1, <1>3, <1>4, <2>1 DEF SubmittedOnce, UnknownUntilSubmitted
<1>6. \A q \in Request \ {r} : CancelFrame(q) \in Queued(toGateway) => CancelFrame(q) \in Queued(toGateway')
  BY <1>3, <1>4, FramesApart
<1>7. "failed" \in Finished /\ "absent" \notin Finished /\ "running" \notin Finished
  BY DEF Finished
<1>8. CASE toRunner' = Append(toRunner, Frame("error", r, "failed", FALSE)) /\ UNCHANGED task
  <2> DEFINE g == Frame("error", r, "failed", FALSE)
  <2>1. g \in GatewayFrame /\ g.of = r /\ g.type = "error" /\ g.state = "failed" /\ ~g.newText
    BY <1>4, <1>7 DEF Frame, GatewayFrame
  <2>2. toRunner' = Append(toRunner, g)
    BY <1>8
  <2> HIDE DEF g
  <2>3. AnswersWith(r, g)
    BY <1>1, <1>3, <1>4, <1>5, <1>8, <2>1, <2>2 DEF AnswersWith
  <2>4. TellsOf(r, g) /\ SaysInTurn(r, g)
    BY <1>5, <1>8, <2>1 DEF TellsOf, SaysInTurn
  <2>5. SaysAll(r, g) /\ RunsOn(r)
    BY <1>5, <1>8 DEF SaysAll, RunsOn
  <2> QED
    BY <1>2, <1>3, <1>4, <1>6, <2>1, <2>3, <2>4, <2>5, GatewayAnswers
<1>9. CASE /\ task' = [task EXCEPT ![r].state = "running", ![r].hasOwner = TRUE]
           /\ toRunner' = Append(toRunner, Frame("task.accepted", r, "running", FALSE))
  <2> DEFINE g == Frame("task.accepted", r, "running", FALSE)
  <2>1. g \in GatewayFrame /\ g.of = r /\ g.type = "task.accepted" /\ g.state = "running" /\ ~g.newText
    BY <1>4 DEF Frame, GatewayFrame
  <2>2. toRunner' = Append(toRunner, g)
    BY <1>9
  <2> HIDE DEF g
  <2>3. /\ task' \in [Request -> TaskRecord] /\ \A q \in Request \ {r} : task'[q] = task[q]
        /\ task'[r].state = "running" /\ task'[r].hasOwner /\ task'[r].pieces = 0
    <3>1. task[r] \in TaskRecord
      BY <1>1, <1>4
    <3> DEFINE e == [[task[r] EXCEPT !.state = "running"] EXCEPT !.hasOwner = TRUE]
    <3>2. e \in TaskRecord /\ e.state = "running" /\ e.hasOwner /\ e.pieces = 0
      BY <1>5, <3>1 DEF TaskRecord
    <3>3. task' = [task EXCEPT ![r] = e]
      BY <1>1, <1>4, <1>9
    <3> HIDE DEF e
    <3> QED
      BY <1>1, <1>4, <3>2, <3>3
  <2>4. Cardinality(At(toRunner, PieceOf(r))) = 0
    <3>1. At(toRunner, PieceOf(r)) = {}
      BY <1>5 DEF At, PieceOf, Queued
    <3> QED
      BY <3>1, FS_EmptySet
  <2>5. SaysAll(r, g)
    BY <1>5, <2>1, <2>3, <2>4 DEF SaysAll
  <2>6. AnswersWith(r, g)
    BY <1>3, <1>4, <1>5, <1>7, <2>1, <2>2, <2>3 DEF AnswersWith
  <2>7. TellsOf(r, g) /\ SaysInTurn(r, g) /\ RunsOn(r)
    BY <1>5, <2>1, <2>3 DEF TellsOf, SaysInTurn, RunsOn
  <2> QED
    BY <1>2, <1>3, <1>4, <1>6, <2>1, <2>5, <2>6, <2>7, GatewayAnswers
<1> QED
  BY <1>2, <1>8, <1>9 DEF r

(* reading a cancellation too, *)
LEMMA ReadsCancelStep ==
  ASSUME RunnerInv, GatewayReadsCancel
  PROVE  RunnerInv'
<1> DEFINE h == Head(toGateway)
           r == h.of
           g == Frame("task.updated", r, "cancelled", FALSE)
<1>1. /\ RunnerTyped /\ UnknownUntilSubmitted /\ SubmittedOnce /\ FramesTell /\ PiecesAccounted
      /\ task \in [Request -> TaskRecord] /\ toRunner \in Seq(GatewayFrame) /\ run \in [Request -> RunRecord]
  BY DEF RunnerInv, ChannelInv, RunnerTyped
<1>2. /\ toGateway # <<>> /\ h.type = "task.cancel" /\ toGateway' = Tail(toGateway)
      /\ UNCHANGED <<connection, waiters, run>>
      /\ task' = [task EXCEPT ![r].state = "cancelled"] /\ toRunner' = Append(toRunner, g)
  BY DEF GatewayReadsCancel
<1> HIDE DEF h
<1>3. /\ h \in RunnerFrame /\ h \in Queued(toGateway)
      /\ toGateway' \in Seq(RunnerFrame) /\ SubmitsDistinct'
      /\ Queued(toGateway) = Queued(toGateway') \cup {h}
  BY <1>2, GatewayReads DEF h
<1>4. r \in Request /\ h = CancelFrame(r)
  BY <1>2, <1>3 DEF RunnerFrame, CancelFrame
<1> HIDE DEF r
<1>5. "cancelled" \in Finished /\ "absent" \notin Finished /\ "running" \notin Finished
  BY DEF Finished
<1>6. g \in GatewayFrame /\ g.of = r /\ g.type = "task.updated" /\ g.state = "cancelled" /\ ~g.newText
  BY <1>4, <1>5 DEF Frame, GatewayFrame
<1> HIDE DEF g
<1>7. /\ run[r].knowsTask /\ task[r].hasOwner /\ task[r].state # "absent"
      /\ SubmitFrame(r) \notin Queued(toGateway) /\ run[r].phase \notin {"idle", "waiting"}
  BY <1>1, <1>3, <1>4 DEF SubmittedOnce, UnknownUntilSubmitted
<1>8. \A q \in Request \ {r} : CancelFrame(q) \in Queued(toGateway) => CancelFrame(q) \in Queued(toGateway')
  BY <1>3, <1>4, FramesApart
<1>9. /\ task' \in [Request -> TaskRecord] /\ \A q \in Request \ {r} : task'[q] = task[q]
      /\ task'[r].state = "cancelled" /\ task'[r].hasOwner /\ task'[r].pieces = task[r].pieces
  <2>1. task[r] \in TaskRecord
    BY <1>1, <1>4
  <2> DEFINE e == [task[r] EXCEPT !.state = "cancelled"]
  <2>2. /\ e \in TaskRecord /\ e.state = "cancelled" /\ e.hasOwner /\ e.pieces = task[r].pieces
    BY <1>5, <1>7, <2>1 DEF TaskRecord
  <2>3. task' = [task EXCEPT ![r] = e]
    BY <1>1, <1>2, <1>4
  <2> HIDE DEF e
  <2> QED
    BY <1>1, <1>4, <2>2, <2>3
<1>10. AnswersWith(r, g)
  BY <1>2, <1>3, <1>5, <1>6, <1>7, <1>9 DEF AnswersWith
<1>11. TellsOf(r, g) /\ RunsOn(r)
  BY <1>5, <1>6, <1>9 DEF TellsOf, RunsOn
<1>12. SaysInTurn(r, g)
  BY <1>1, <1>6, <1>7 DEF SaysInTurn, FramesTell
<1>13. SaysAll(r, g)
  <2>1. Cardinality(At(toRunner, PieceOf(r))) \in Nat /\ run[r].heard \in Nat
    BY <1>1, <1>4, AtIsFinite DEF RunRecord
  <2>2. run[r].phase = "pending" => run[r].heard + Cardinality(At(toRunner, PieceOf(r))) = task[r].pieces
    BY <1>1, <1>4, <1>7 DEF PiecesAccounted
  <2> QED
    BY <1>6, <1>7, <1>9, <2>1, <2>2 DEF SaysAll
<1> QED
  BY <1>2, <1>3, <1>4, <1>6, <1>8, <1>10, <1>11, <1>12, <1>13, GatewayAnswers

\* A running task reports a piece, or ends.
LEMMA BroadcastStep ==
  ASSUME RunnerInv, NEW r \in Request, NEW state \in Finished \cup {"running"}, NEW newText \in BOOLEAN,
         UNCHANGED <<connection, waiters, run, toGateway>>, Broadcast(r, state, newText),
         task[r].state = "running", task[r].hasOwner, newText => state = "running" /\ run[r].isStreaming,
         task' \in [Request -> TaskRecord], \A q \in Request \ {r} : task'[q] = task[q],
         task'[r].state = state, task'[r].hasOwner,
         task'[r].pieces = task[r].pieces + (IF newText THEN 1 ELSE 0)
  PROVE  RunnerInv'
<1> DEFINE g == Frame("task.updated", r, state, newText)
<1>1. /\ RunnerTyped /\ UnknownUntilSubmitted /\ SubmittedOnce /\ FramesTell /\ PiecesAccounted /\ SubmitsDistinct
      /\ toGateway \in Seq(RunnerFrame)
      /\ task \in [Request -> TaskRecord] /\ toRunner \in Seq(GatewayFrame) /\ run \in [Request -> RunRecord]
  BY DEF RunnerInv, ChannelInv, RunnerTyped
<1>2. toRunner' = Append(toRunner, g)
  BY DEF Broadcast
<1>3. "absent" \notin Finished /\ "running" \notin Finished
  BY DEF Finished
<1>4. g \in GatewayFrame /\ g.of = r /\ g.type = "task.updated" /\ g.state = state /\ g.newText = newText
  BY DEF Frame, GatewayFrame
<1> HIDE DEF g
<1>5. SubmitFrame(r) \notin Queued(toGateway) /\ run[r].phase \notin {"idle", "waiting"}
  BY <1>1 DEF SubmittedOnce, UnknownUntilSubmitted
<1>6. AnswersWith(r, g)
  BY <1>2, <1>3, <1>4, <1>5 DEF AnswersWith
<1>7. TellsOf(r, g) /\ RunsOn(r)
  BY <1>3, <1>4 DEF TellsOf, RunsOn
<1>8. SaysInTurn(r, g)
  BY <1>1, <1>3, <1>4 DEF SaysInTurn, FramesTell
<1>9. SaysAll(r, g)
  <2>1. Cardinality(At(toRunner, PieceOf(r))) \in Nat /\ run[r].heard \in Nat
    BY <1>1, AtIsFinite DEF RunRecord
  <2>2. run[r].phase = "pending" => run[r].heard + Cardinality(At(toRunner, PieceOf(r))) = task[r].pieces
    BY <1>1 DEF PiecesAccounted
  <2> QED
    BY <1>4, <2>1, <2>2 DEF SaysAll
<1>10. SubmitsDistinct' /\ Queued(toGateway') = Queued(toGateway)
  BY <1>1 DEF SubmitsDistinct
<1> QED
  BY <1>1, <1>4, <1>6, <1>7, <1>8, <1>9, <1>10, GatewayAnswers

(* reporting a piece too, *)
LEMMA ReportsStep ==
  ASSUME RunnerInv, NEW r \in Request, GatewayReportsPiece(r)
  PROVE  RunnerInv'
<1>1. task \in [Request -> TaskRecord] /\ task[r] \in TaskRecord
  BY DEF RunnerInv, RunnerTyped
<1>2. task[r].pieces < MaxPieces /\ task[r].state = "running" /\ task[r].hasOwner /\ run[r].isStreaming
  BY DEF GatewayReportsPiece
<1> DEFINE e == [task[r] EXCEPT !.pieces = @ + 1]
<1>3. task[r].pieces \in 0..MaxPieces /\ task[r].pieces + 1 \in 0..MaxPieces
  BY <1>1, <1>2, RunnerAssumption DEF TaskRecord
<1>4. e \in TaskRecord /\ e.state = "running" /\ e.hasOwner /\ e.pieces = task[r].pieces + 1
  BY <1>1, <1>2, <1>3 DEF TaskRecord
<1>5. task' = [task EXCEPT ![r] = e]
  BY <1>1 DEF GatewayReportsPiece
<1> HIDE DEF e
<1>6. /\ task' \in [Request -> TaskRecord] /\ \A q \in Request \ {r} : task'[q] = task[q]
      /\ task'[r].state = "running" /\ task'[r].hasOwner /\ task'[r].pieces = task[r].pieces + 1
  BY <1>1, <1>4, <1>5
<1>7. Broadcast(r, "running", TRUE) /\ UNCHANGED <<connection, waiters, run, toGateway>>
  BY DEF GatewayReportsPiece
<1> QED
  BY <1>2, <1>6, <1>7, BroadcastStep

(* and finishing a task too. *)
LEMMA FinishesStep ==
  ASSUME RunnerInv, NEW r \in Request, NEW state \in Finished, GatewayFinishes(r, state)
  PROVE  RunnerInv'
<1>1. task \in [Request -> TaskRecord] /\ task[r] \in TaskRecord
  BY DEF RunnerInv, RunnerTyped
<1>2. task[r].state = "running" /\ task[r].hasOwner
  BY DEF GatewayFinishes
<1> DEFINE e == [task[r] EXCEPT !.state = state]
<1>3. e \in TaskRecord /\ e.state = state /\ e.hasOwner /\ e.pieces = task[r].pieces
  BY <1>1, <1>2 DEF TaskRecord
<1>4. task' = [task EXCEPT ![r] = e]
  BY <1>1 DEF GatewayFinishes
<1> HIDE DEF e
<1>5. task[r].pieces + 0 = task[r].pieces
  BY <1>1, RunnerAssumption DEF TaskRecord
<1>6. /\ task' \in [Request -> TaskRecord] /\ \A q \in Request \ {r} : task'[q] = task[q]
      /\ task'[r].state = state /\ task'[r].hasOwner /\ task'[r].pieces = task[r].pieces + 0
  BY <1>1, <1>3, <1>4, <1>5
<1>7. Broadcast(r, state, FALSE) /\ UNCHANGED <<connection, waiters, run, toGateway>>
  BY DEF GatewayFinishes
<1> QED
  BY <1>2, <1>6, <1>7, BroadcastStep

\* The connection is lost with everything on its way.
LEMMA LostStep ==
  ASSUME RunnerInv, ConnectionLost
  PROVE  RunnerInv'
<1>1. /\ RunnerTyped /\ ConnectionFields /\ ChannelInv
      /\ WaitersDistinct /\ UnknownUntilSubmitted /\ SubmittedOnce
      /\ connection \in ConnectionRecord /\ task \in [Request -> TaskRecord]
      /\ run \in [Request -> RunRecord] /\ waiters \in Seq(Request)
  BY DEF RunnerInv, RunnerTyped, ChannelInv
<1>2. /\ run' = Settled(Pending, "failure") /\ UNCHANGED waiters
      /\ toGateway' = <<>> /\ toRunner' = <<>>
      /\ task' = [r \in Request |-> [task[r] EXCEPT !.hasOwner = FALSE]]
  BY DEF ConnectionLost
<1>3. /\ connection' \in ConnectionRecord /\ connection'.isClosed = connection.isClosed
      /\ connection'.socket = "closed"
      /\ connection'.isClosed => ~connection'.reconnectTimer
      /\ ~connection'.isClosed => connection'.reconnectTimer
  <2> DEFINE c == [connection EXCEPT !.socket = "closed", !.isRegistered = FALSE]
  <2>1. /\ c \in ConnectionRecord /\ c.isClosed = connection.isClosed
        /\ c.socket = "closed" /\ c.reconnectTimer = connection.reconnectTimer
    BY <1>1 DEF ConnectionRecord
  <2>2. connection' = ScheduleReconnect(c)
    BY DEF ConnectionLost
  <2> HIDE DEF c
  <2>3. \/ connection' = c /\ (c.isClosed \/ c.reconnectTimer)
        \/ connection' = [c EXCEPT !.reconnectTimer = TRUE] /\ ~c.isClosed
    BY <2>2 DEF ScheduleReconnect
  <2>4. connection.isClosed => ~connection.reconnectTimer
    BY <1>1 DEF ConnectionFields
  <2>5. CASE connection' = c /\ (c.isClosed \/ c.reconnectTimer)
    BY <2>1, <2>4, <2>5
  <2>6. CASE connection' = [c EXCEPT !.reconnectTimer = TRUE] /\ ~c.isClosed
    BY <2>1, <2>6 DEF ConnectionRecord
  <2> QED
    BY <2>3, <2>5, <2>6
<1>4. "failure" \in Outcomes
  BY DEF Outcomes
<1>5. /\ run' \in [Request -> RunRecord]
      /\ \A r \in Request :
           /\ run'[r].phase = (IF r \in Pending THEN "settled" ELSE run[r].phase)
           /\ run'[r].knowsTask = run[r].knowsTask
           /\ run'[r].heard = run[r].heard
           /\ run'[r].isStreaming = run[r].isStreaming
  BY <1>1, <1>2, <1>4, SettledFields
<1>6. \A r \in Request : /\ task'[r] \in TaskRecord /\ ~task'[r].hasOwner
                         /\ task'[r].state = task[r].state /\ task'[r].pieces = task[r].pieces
  BY <1>1, <1>2 DEF TaskRecord
<1>7. task' \in [Request -> TaskRecord]
  BY <1>2, <1>6
<1>8. RunnerTyped' /\ ConnectionFields'
  BY <1>1, <1>2, <1>3, <1>5, <1>7 DEF RunnerTyped, ConnectionFields, OneConnection
<1>9. Queued(toGateway') = {} /\ Queued(toRunner') = {}
  BY <1>2 DEF Queued
<1>10. \A r \in Request : run'[r].phase # "pending" /\ (r \in Pending => run[r].phase = "pending")
  BY <1>5 DEF Pending
<1>11. WaitersDistinct' /\ SubmitsDistinct' /\ FramesInOrder'
  <2>1. \A i \in DOMAIN waiters : waiters[i] \in Request /\ run'[waiters[i]].phase = "waiting"
    BY <1>1, <1>5 DEF WaitersDistinct, Pending
  <2> QED
    BY <1>1, <1>2, <2>1 DEF WaitersDistinct, SubmitsDistinct, FramesInOrder
<1>12. UnknownUntilSubmitted' /\ SubmittedOnce'
  BY <1>1, <1>5, <1>6, <1>9, <1>10 DEF UnknownUntilSubmitted, SubmittedOnce
<1>13. FramesTell' /\ PiecesAccounted' /\ AbandonedOnlyWhenUnknown'
  BY <1>6, <1>9, <1>10 DEF FramesTell, PiecesAccounted, AbandonedOnlyWhenUnknown
<1> QED
  BY <1>8, <1>11, <1>12, <1>13 DEF RunnerInv, ChannelInv

\* What reading a frame may do to the call it is for, and to no other.
Hears(f) ==
  \/ /\ UNCHANGED run
     /\ run[f.of].phase # "pending" \/ (f.type = "task.updated" /\ ~f.newText)
  \/ /\ run[f.of].phase = "pending"
     /\ \/ /\ f.type = "task.accepted"
           /\ run' = [run EXCEPT ![f.of].knowsTask = TRUE]
        \/ /\ f.type = "task.updated" /\ run[f.of].knowsTask /\ f.newText
           /\ run' = [run EXCEPT ![f.of].heard = @ + 1]
        \/ /\ f.type = "task.updated" /\ run[f.of].knowsTask /\ f.state # "running"
           /\ run' = Settled({f.of}, OutcomeOf(f.state)) /\ OutcomeOf(f.state) \in Outcomes \ {"none"}
        \/ /\ f.type = "error"
           /\ run' = Settled({f.of}, "failure")

(* The frame the runner reads is one it may hear: of a submitted request, in turn. *)
LEMMA ReceiveHears ==
  ASSUME RunnerInv, ReceiveFrame
  PROVE  /\ Head(toRunner) \in GatewayFrame /\ Head(toRunner) \in Queued(toRunner)
         /\ Hears(Head(toRunner))
<1> DEFINE f == Head(toRunner)
           r == f.of
<1>1. /\ run \in [Request -> RunRecord] /\ toRunner \in Seq(GatewayFrame)
      /\ FramesTell /\ FramesInOrder /\ PiecesAccounted /\ toRunner # <<>>
  BY DEF RunnerInv, RunnerTyped, ChannelInv, ReceiveFrame
<1>2. /\ f \in GatewayFrame /\ f \in Queued(toRunner) /\ f = toRunner[1] /\ 1 \in DOMAIN toRunner
      /\ Queued(toRunner) = {f} \cup Queued(Tail(toRunner))
      /\ \A i \in DOMAIN Tail(toRunner) : /\ i \in Nat \ {0} /\ i + 1 \in DOMAIN toRunner
                                          /\ Tail(toRunner)[i] = toRunner[i + 1]
  BY <1>1, QueuedTail
<1>3. /\ f.type = "task.accepted" => OnTaskAccepted(f)
      /\ f.type = "task.updated" => OnTaskUpdated(f)
      /\ f.type = "error" => OnGatewayError(f)
  BY DEF ReceiveFrame
<1> HIDE DEF f
<1>4. r \in Request /\ run[r] \in RunRecord
  BY <1>1, <1>2 DEF GatewayFrame
<1>5. f.type \in {"task.accepted", "task.updated", "error"} /\ f.state \in Finished \cup {"running"}
  BY <1>2 DEF GatewayFrame
<1>6. /\ OutcomeOf("running") = "none"
      /\ f.state # "running" => OutcomeOf(f.state) \in Outcomes \ {"none"}
  BY <1>5 DEF OutcomeOf, Outcomes, Finished
<1>7. CASE run[r].phase # "pending"
  <2>1. UNCHANGED run
    BY <1>3, <1>5, <1>7 DEF OnTaskAccepted, OnTaskUpdated, OnGatewayError
  <2> QED
    BY <1>2, <1>7, <2>1 DEF Hears, f
<1>8. CASE run[r].phase = "pending" /\ f.type = "task.accepted"
  <2>1. f.state = "running" /\ ~f.newText
    BY <1>1, <1>2, <1>8 DEF FramesTell
  <2>2. run' = [run EXCEPT ![r].knowsTask = TRUE]
    BY <1>3, <1>6, <1>8, <2>1 DEF OnTaskAccepted, SettledFromTaskState
  <2> QED
    BY <1>2, <1>8, <2>1, <2>2 DEF Hears, f
<1>9. CASE run[r].phase = "pending" /\ f.type = "task.updated"
  <2>1. run[r].knowsTask
    <3> SUFFICES ASSUME ~run[r].knowsTask
                 PROVE  FALSE
      BY <1>4 DEF RunRecord
    <3>1. PICK g \in Queued(toRunner) : g.type = "task.accepted" /\ g.of = r
      BY <1>1, <1>2, <1>4, <1>9 DEF PiecesAccounted, FramesTell
    <3>2. PICK i \in DOMAIN toRunner : toRunner[i] = g
      BY <3>1 DEF Queued
    <3>3. i \in Nat \ {0}
      BY <1>1
    <3>4. i # 1
      BY <1>2, <1>9, <3>1, <3>2
    <3>5. 1 < i
      BY <3>3, <3>4
    <3>6. toRunner[i].type = "task.updated"
      BY <1>1, <1>2, <3>1, <3>2, <3>5 DEF FramesInOrder
    <3> QED
      BY <3>1, <3>2, <3>6
  <2>2. run' = [SettledFromTaskState(r, f.state) EXCEPT ![r].heard = IF f.newText THEN @ + 1 ELSE @]
    BY <1>3, <1>9, <2>1 DEF OnTaskUpdated
  <2>3. CASE f.newText
    <3>1. f.state = "running"
      BY <1>1, <1>2, <2>3 DEF FramesTell
    <3>2. run' = [run EXCEPT ![r].heard = @ + 1]
      BY <1>1, <1>4, <1>6, <2>2, <2>3, <3>1 DEF SettledFromTaskState
    <3> QED
      BY <1>2, <1>9, <2>1, <2>3, <3>2 DEF Hears, f
  <2>4. CASE ~f.newText /\ f.state = "running"
    <3>1. run' = [run EXCEPT ![r].heard = @]
      BY <1>6, <2>2, <2>4 DEF SettledFromTaskState
    <3>2. [run[r] EXCEPT !.heard = @] = run[r]
      BY <1>4 DEF RunRecord
    <3>3. run' = [run EXCEPT ![r] = run[r]]
      BY <1>1, <1>4, <3>1, <3>2
    <3>4. UNCHANGED run
      BY <1>1, <1>4, <3>3
    <3> QED
      BY <1>2, <1>9, <2>4, <3>4 DEF Hears, f
  <2>5. CASE ~f.newText /\ f.state # "running"
    <3> DEFINE o == OutcomeOf(f.state)
               s == Settled({r}, o)
    <3>1. o \in Outcomes \ {"none"}
      BY <1>6, <2>5
    <3>2. run' = [s EXCEPT ![r].heard = @]
      BY <2>2, <2>5, <3>1 DEF SettledFromTaskState
    <3>3. /\ DOMAIN s = Request /\ s[r] = [run[r] EXCEPT !.phase = "settled", !.outcome = o]
          /\ s = [q \in Request |-> s[q]]
      BY <1>4 DEF Settled
    <3>4. s[r] \in RunRecord
      BY <1>4, <3>1, <3>3 DEF RunRecord
    <3> HIDE DEF s, o
    <3>5. [s[r] EXCEPT !.heard = @] = s[r]
      BY <3>4 DEF RunRecord
    <3>6. run' = [s EXCEPT ![r] = s[r]]
      BY <1>4, <3>2, <3>3, <3>5
    <3>7. run' = s
      BY <1>4, <3>3, <3>6
    <3> QED
      BY <1>2, <1>9, <2>1, <2>5, <3>1, <3>7 DEF Hears, f, s, o
  <2> QED
    BY <1>2, <1>5, <2>3, <2>4, <2>5 DEF GatewayFrame
<1>10. CASE run[r].phase = "pending" /\ f.type = "error"
  <2>1. run' = Settled({r}, "failure") /\ ~f.newText
    BY <1>1, <1>2, <1>3, <1>10 DEF OnGatewayError, FramesTell
  <2> QED
    BY <1>2, <1>10, <2>1 DEF Hears, f
<1> QED
  BY <1>5, <1>7, <1>8, <1>9, <1>10

\* ... field by field.
LEMMA HeardFields ==
  ASSUME RunnerInv, NEW f \in GatewayFrame, Hears(f)
  PROVE  /\ run' \in [Request -> RunRecord]
         /\ \A q \in Request : q # f.of => run'[q] = run[q]
         /\ run'[f.of].isStreaming = run[f.of].isStreaming
         /\ \/ run'[f.of] = run[f.of]
            \/ /\ run[f.of].phase = "pending" /\ f.type = "task.accepted"
               /\ run'[f.of].phase = "pending" /\ run'[f.of].knowsTask
               /\ run'[f.of].heard = run[f.of].heard
            \/ /\ run[f.of].phase = "pending" /\ f.type = "task.updated" /\ run[f.of].knowsTask /\ f.newText
               /\ run'[f.of].phase = "pending" /\ run'[f.of].knowsTask
               /\ run'[f.of].heard = run[f.of].heard + 1
            \/ /\ run[f.of].phase = "pending" /\ (f.type = "error" \/ (f.type = "task.updated" /\ f.state # "running"))
               /\ run'[f.of].phase = "settled" /\ run'[f.of].knowsTask = run[f.of].knowsTask
               /\ run'[f.of].heard = run[f.of].heard
<1> DEFINE r == f.of
<1>1. RunnerTyped /\ run \in [Request -> RunRecord] /\ r \in Request /\ run[r] \in RunRecord
  BY DEF RunnerInv, RunnerTyped, GatewayFrame
<1>2. CASE UNCHANGED run
  BY <1>1, <1>2
<1>3. CASE /\ run[r].phase = "pending" /\ f.type = "task.accepted"
           /\ run' = [run EXCEPT ![r].knowsTask = TRUE]
  <2> DEFINE e == [run[r] EXCEPT !.knowsTask = TRUE]
  <2>1. /\ e \in RunRecord /\ e.phase = "pending" /\ e.knowsTask /\ e.heard = run[r].heard
        /\ e.isStreaming = run[r].isStreaming
    BY <1>1, <1>3 DEF RunRecord
  <2>2. run' = [run EXCEPT ![r] = e]
    BY <1>1, <1>3
  <2> HIDE DEF e
  <2> QED
    BY <1>1, <1>3, <2>1, <2>2
<1>4. CASE /\ run[r].phase = "pending" /\ f.type = "task.updated" /\ run[r].knowsTask /\ f.newText
           /\ run' = [run EXCEPT ![r].heard = @ + 1]
  <2> DEFINE e == [run[r] EXCEPT !.heard = @ + 1]
  <2>1. /\ e \in RunRecord /\ e.phase = "pending" /\ e.knowsTask /\ e.heard = run[r].heard + 1
        /\ e.isStreaming = run[r].isStreaming
    BY <1>1, <1>4 DEF RunRecord
  <2>2. run' = [run EXCEPT ![r] = e]
    BY <1>1, <1>4
  <2> HIDE DEF e
  <2> QED
    BY <1>1, <1>4, <2>1, <2>2
<1>5. ASSUME NEW o \in Outcomes, run[r].phase = "pending", run' = Settled({r}, o)
      PROVE  /\ run' \in [Request -> RunRecord]
             /\ \A q \in Request : q # r => run'[q] = run[q]
             /\ run'[r].phase = "settled" /\ run'[r].knowsTask = run[r].knowsTask
             /\ run'[r].heard = run[r].heard /\ run'[r].isStreaming = run[r].isStreaming
  <2>1. run' \in [Request -> RunRecord]
    BY <1>1, <1>5, SettledFields
  <2>2. \A q \in Request : /\ run'[q].phase = (IF q \in {r} THEN "settled" ELSE run[q].phase)
                           /\ run'[q].knowsTask = run[q].knowsTask
                           /\ run'[q].heard = run[q].heard
                           /\ run'[q].isStreaming = run[q].isStreaming
    BY <1>1, <1>5, SettledFields
  <2>3. \A q \in Request : q # r => run'[q] = run[q]
    BY <1>5 DEF Settled
  <2> QED
    BY <1>1, <2>1, <2>2, <2>3
<1>6. CASE /\ run[r].phase = "pending" /\ f.type = "task.updated" /\ run[r].knowsTask /\ f.state # "running"
           /\ run' = Settled({r}, OutcomeOf(f.state)) /\ OutcomeOf(f.state) \in Outcomes \ {"none"}
  <2> DEFINE o == OutcomeOf(f.state)
  <2>1. o \in Outcomes /\ run' = Settled({r}, o) /\ run[r].phase = "pending"
    BY <1>6
  <2> HIDE DEF o
  <2>2. /\ run' \in [Request -> RunRecord]
        /\ \A q \in Request : q # r => run'[q] = run[q]
        /\ run'[r].phase = "settled" /\ run'[r].knowsTask = run[r].knowsTask
        /\ run'[r].heard = run[r].heard /\ run'[r].isStreaming = run[r].isStreaming
    BY <1>5, <2>1
  <2> QED
    BY <1>6, <2>2
<1>7. CASE run[r].phase = "pending" /\ f.type = "error" /\ run' = Settled({r}, "failure")
  <2>1. "failure" \in Outcomes
    BY DEF Outcomes
  <2>2. /\ run' \in [Request -> RunRecord]
        /\ \A q \in Request : q # r => run'[q] = run[q]
        /\ run'[r].phase = "settled" /\ run'[r].knowsTask = run[r].knowsTask
        /\ run'[r].heard = run[r].heard /\ run'[r].isStreaming = run[r].isStreaming
    BY <1>5, <1>7, <2>1
  <2> QED
    BY <1>7, <2>2
<1> QED
  BY <1>2, <1>3, <1>4, <1>6, <1>7 DEF Hears

(* The runner reading a frame keeps the invariant. *)
LEMMA ReceiveStep ==
  ASSUME RunnerInv, ReceiveFrame
  PROVE  RunnerInv'
<1> DEFINE f == Head(toRunner)
           r == f.of
<1>1. /\ RunnerTyped /\ ConnectionFields /\ WaitersDistinct /\ UnknownUntilSubmitted /\ SubmitsDistinct
      /\ SubmittedOnce /\ FramesTell /\ FramesInOrder /\ PiecesAccounted /\ AbandonedOnlyWhenUnknown
      /\ run \in [Request -> RunRecord] /\ toRunner \in Seq(GatewayFrame) /\ waiters \in Seq(Request)
      /\ task \in [Request -> TaskRecord]
  BY DEF RunnerInv, RunnerTyped, ChannelInv
<1>2. /\ toRunner # <<>> /\ toRunner' = Tail(toRunner)
      /\ UNCHANGED <<connection, waiters, toGateway, task>>
  BY DEF ReceiveFrame
<1>3. f \in GatewayFrame /\ f \in Queued(toRunner) /\ Hears(f)
  BY ReceiveHears
<1>4. /\ toRunner' \in Seq(GatewayFrame) /\ f = toRunner[1] /\ 1 \in DOMAIN toRunner
      /\ Queued(toRunner) = {f} \cup Queued(toRunner')
      /\ \A i \in DOMAIN toRunner' : /\ i \in Nat \ {0} /\ i + 1 \in DOMAIN toRunner
                                     /\ toRunner'[i] = toRunner[i + 1]
  BY <1>1, <1>2, QueuedTail
<1>5. \A q \in Request : Cardinality(At(toRunner, PieceOf(q))) =
        Cardinality(At(toRunner', PieceOf(q))) + (IF f \in PieceOf(q) THEN 1 ELSE 0)
  BY <1>1, <1>2, CountTail
<1>6. \A q \in Request : /\ Cardinality(At(toRunner', PieceOf(q))) \in Nat /\ run[q].heard \in Nat
                         /\ task[q].pieces \in Int
  BY <1>1, <1>4, AtIsFinite, RunnerAssumption DEF RunRecord, TaskRecord
<1> HIDE DEF f
<1>7. r \in Request
  BY <1>3 DEF GatewayFrame
<1>8. /\ run' \in [Request -> RunRecord]
      /\ \A q \in Request : q # r => run'[q] = run[q]
      /\ run'[r].isStreaming = run[r].isStreaming
      /\ \/ run'[r] = run[r]
         \/ /\ run[r].phase = "pending" /\ f.type = "task.accepted"
            /\ run'[r].phase = "pending" /\ run'[r].knowsTask
            /\ run'[r].heard = run[r].heard
         \/ /\ run[r].phase = "pending" /\ f.type = "task.updated" /\ run[r].knowsTask /\ f.newText
            /\ run'[r].phase = "pending" /\ run'[r].knowsTask
            /\ run'[r].heard = run[r].heard + 1
         \/ /\ run[r].phase = "pending" /\ (f.type = "error" \/ (f.type = "task.updated" /\ f.state # "running"))
            /\ run'[r].phase = "settled" /\ run'[r].knowsTask = run[r].knowsTask
            /\ run'[r].heard = run[r].heard
  BY <1>3, HeardFields
<1> HIDE DEF r
<1>9. \A q \in Request :
        /\ run'[q].isStreaming = run[q].isStreaming
        /\ run[q].knowsTask => run'[q].knowsTask
        /\ ~run'[q].knowsTask => run'[q].heard = run[q].heard
        /\ run'[q].phase = "pending" => run[q].phase = "pending"
        /\ run'[q].phase # run[q].phase => run[q].phase = "pending" /\ run'[q].phase = "settled"
        /\ run[q].phase = "waiting" => run'[q].phase = "waiting"
        /\ run[q].phase # "pending" => run'[q] = run[q]
  BY <1>8
<1>10. Queued(toRunner') \subseteq Queued(toRunner)
  BY <1>4
<1>11. RunnerTyped' /\ ConnectionFields' /\ WaitersDistinct' /\ SubmitsDistinct'
  <2>1. \A i \in DOMAIN waiters : waiters[i] \in Request
    BY <1>1
  <2>2. WaitersDistinct' /\ SubmitsDistinct'
    BY <1>1, <1>2, <1>9, <2>1 DEF WaitersDistinct, SubmitsDistinct
  <2> QED
    BY <1>1, <1>2, <1>4, <1>8, <2>2 DEF RunnerTyped, ConnectionFields, OneConnection
<1>12. UnknownUntilSubmitted'
  BY <1>1, <1>2, <1>9, <1>10 DEF UnknownUntilSubmitted
<1>13. SubmittedOnce'
  <2>1. run'[r].knowsTask => run[r].knowsTask \/ f.type = "task.accepted"
    BY <1>8
  <2>2. \A q \in Request : q # r => run'[q].knowsTask = run[q].knowsTask
    BY <1>8
  <2>3. f.type = "task.accepted" => task[r].hasOwner /\ SubmitFrame(r) \notin Queued(toGateway)
    BY <1>1, <1>3, <1>7 DEF FramesTell, SubmittedOnce, r
  <2>4. ASSUME NEW q \in Request, SubmitFrame(q) \in Queued(toGateway')
        PROVE  /\ ~run'[q].knowsTask /\ task'[q].state = "absent"
               /\ \A g \in Queued(toRunner') : g.of # q
    BY <1>1, <1>2, <1>10, <2>1, <2>2, <2>3, <2>4 DEF SubmittedOnce
  <2>5. ASSUME NEW q \in Request, task'[q].state = "absent"
        PROVE  ~task'[q].hasOwner /\ ~run'[q].knowsTask /\ task'[q].pieces = 0
    BY <1>1, <1>2, <2>1, <2>2, <2>3, <2>5 DEF SubmittedOnce
  <2>6. ASSUME NEW q \in Request, CancelFrame(q) \in Queued(toGateway')
        PROVE  run'[q].knowsTask /\ task'[q].hasOwner
    BY <1>1, <1>2, <1>9, <2>6 DEF SubmittedOnce
  <2> QED
    BY <2>4, <2>5, <2>6 DEF SubmittedOnce
<1>14. FramesTell'
  <2>1. \A g \in Queued(toRunner) : g.of \in Request
    <3>1. Queued(toRunner) \subseteq GatewayFrame
      BY <1>1, QueuedTyped
    <3> QED
      BY <3>1 DEF GatewayFrame
  <2> QED
    BY <1>1, <1>2, <1>9, <1>10, <2>1 DEF FramesTell
<1>15. FramesInOrder'
  <2>1. ASSUME NEW i \in DOMAIN toRunner', NEW j \in DOMAIN toRunner', i < j, toRunner'[i].of = toRunner'[j].of
        PROVE  /\ toRunner'[j].type = "task.updated"
               /\ toRunner'[i].state # "running" => toRunner'[j].state # "running"
    <3>1. i + 1 < j + 1
      BY <1>4, <2>1
    <3> QED
      BY <1>1, <1>4, <2>1, <3>1 DEF FramesInOrder
  <2> QED
    BY <2>1 DEF FramesInOrder
<1>16. PiecesAccounted'
  <2>1. ASSUME NEW q \in Request, run'[q].phase = "pending"
        PROVE  run'[q].knowsTask => task'[q].hasOwner
    <3>1. run[q].knowsTask => task[q].hasOwner
      BY <1>1, <1>9, <2>1 DEF PiecesAccounted
    <3>2. f.type = "task.accepted" => task[r].hasOwner
      BY <1>1, <1>3 DEF FramesTell, r
    <3> QED
      BY <1>2, <1>8, <3>1, <3>2
  <2>2. ASSUME NEW q \in Request, run'[q].phase = "pending", task'[q].hasOwner, ~run'[q].knowsTask
        PROVE  \E g \in Queued(toRunner') : g.type = "task.accepted" /\ g.of = q
    <3>1. ~run[q].knowsTask /\ run[q].phase = "pending"
      BY <1>1, <1>8, <1>9, <2>2 DEF RunRecord
    <3>2. PICK g \in Queued(toRunner) : g.type = "task.accepted" /\ g.of = q
      BY <1>1, <1>2, <2>2, <3>1 DEF PiecesAccounted
    <3>3. g # f
      <4> SUFFICES ASSUME g = f PROVE FALSE
        OBVIOUS
      <4>1. q = r /\ f.type = "task.accepted"
        BY <3>2 DEF r
      <4>2. run'[r].knowsTask
        <5>1. run' = [run EXCEPT ![r].knowsTask = TRUE]
          BY <1>3, <3>1, <4>1 DEF Hears, r
        <5> QED
          BY <1>1, <1>7, <5>1 DEF RunRecord
      <4> QED
        BY <2>2, <4>1, <4>2
    <3> QED
      BY <1>4, <3>2, <3>3
  <2>3. ASSUME NEW q \in Request, run'[q].phase = "pending", task'[q].hasOwner
        PROVE  run'[q].heard + Cardinality(At(toRunner', PieceOf(q))) = task'[q].pieces
    <3> DEFINE c == Cardinality(At(toRunner, PieceOf(q)))
               d == Cardinality(At(toRunner', PieceOf(q)))
               p == task[q].pieces
    <3>1. run[q].heard + c = p /\ c \in Nat /\ d \in Nat /\ run[q].heard \in Nat
      BY <1>1, <1>2, <1>6, <1>9, <2>3, AtIsFinite DEF PiecesAccounted
    <3>2. c = d + (IF f \in PieceOf(q) THEN 1 ELSE 0)
      BY <1>5
    <3>3. f \in PieceOf(q) <=> q = r /\ f.newText
      BY <1>3 DEF PieceOf, r
    <3> HIDE DEF c, d, p
    <3>4. run'[q].heard = run[q].heard + (IF q = r /\ f.newText THEN 1 ELSE 0)
      <4>1. CASE q # r \/ ~f.newText
        <5>1. run'[q].heard = run[q].heard
          BY <1>8, <4>1
        <5> QED
          BY <3>1, <4>1, <5>1
      <4>2. CASE q = r /\ f.newText
        <5>1. run[r].phase = "pending"
          BY <1>9, <2>3, <4>2
        <5>2. run' = [run EXCEPT ![r].heard = @ + 1]
          <6>1. f.type = "task.updated" /\ f.state = "running"
            BY <1>1, <1>3, <4>2, <1>4 DEF FramesTell, GatewayFrame
          <6> QED
            BY <1>3, <4>2, <5>1, <6>1 DEF Hears, r
        <5>3. run'[r].heard = run[r].heard + 1
          BY <1>1, <1>7, <5>2 DEF RunRecord
        <5> QED
          BY <4>2, <5>3
      <4> QED
        BY <4>1, <4>2
    <3>5. run'[q].heard + d = p
      BY <3>1, <3>2, <3>3, <3>4
    <3> QED
      BY <1>2, <3>5 DEF d, p
  <2> QED
    BY <2>1, <2>2, <2>3 DEF PiecesAccounted
<1>17. AbandonedOnlyWhenUnknown'
  <2>1. run'[r].phase = "settled" => run[r].phase = "settled" \/ EndsFor(r)
    <3>1. f.type = "error" => task[r].state = "absent"
      BY <1>1, <1>3 DEF FramesTell, r
    <3>2. f.type = "task.updated" /\ f.state # "running" => task[r].state # "running"
      BY <1>1, <1>3 DEF FramesTell, Finished, r
    <3> QED
      BY <1>2, <1>8, <3>1, <3>2 DEF EndsFor
  <2>2. \A q \in Request : run'[q].phase = "settled" =>
          run'[q].knowsTask = run[q].knowsTask /\ (run[q].phase = "settled" \/ EndsFor(q))
    BY <1>8, <2>1
  <2> QED
    BY <1>1, <1>2, <2>2, AbandonedForAReason
<1> QED
  BY <1>11, <1>12, <1>13, <1>14, <1>15, <1>16, <1>17 DEF RunnerInv, ChannelInv

-----------------------------------------------------------------------------
(* The runner *)

(* The runner starts right. *)
LEMMA InitRunner ==
  RoutesInit => RunnerInv
<1> SUFFICES ASSUME RoutesInit
             PROVE  RunnerInv
  OBVIOUS
<1>1. RunnerInit
  BY DEF RoutesInit
<1>2. /\ connection \in ConnectionRecord /\ connection.socket = "opening"
      /\ ~connection.isClosed /\ ~connection.reconnectTimer
  BY <1>1 DEF RunnerInit, ConnectionRecord
<1>3. /\ run \in [Request -> RunRecord]
      /\ \A r \in Request : /\ run[r].phase = "idle" /\ ~run[r].isStreaming
                            /\ ~run[r].knowsTask /\ run[r].heard = 0
  BY <1>1 DEF RunnerInit, RunRecord, Outcomes
<1>4. /\ task \in [Request -> TaskRecord]
      /\ \A r \in Request : task[r].state = "absent" /\ ~task[r].hasOwner /\ task[r].pieces = 0
  <2>1. 0 \in 0..MaxPieces
    BY RunnerAssumption
  <2> QED
    BY <1>1, <2>1 DEF RunnerInit, TaskRecord
<1>5. waiters = <<>> /\ toGateway = <<>> /\ toRunner = <<>>
  BY <1>1 DEF RunnerInit
<1>6. Queued(toGateway) = {} /\ Queued(toRunner) = {}
  BY <1>5 DEF Queued
<1>7. RunnerTyped /\ ConnectionFields
  BY <1>2, <1>3, <1>4, <1>5 DEF RunnerTyped, ConnectionFields, OneConnection
<1>8. WaitersDistinct /\ SubmitsDistinct /\ FramesInOrder
  BY <1>5 DEF WaitersDistinct, SubmitsDistinct, FramesInOrder
<1>9. UnknownUntilSubmitted /\ SubmittedOnce /\ FramesTell
  BY <1>3, <1>4, <1>6 DEF UnknownUntilSubmitted, SubmittedOnce, FramesTell
<1>10. PiecesAccounted /\ AbandonedOnlyWhenUnknown
  BY <1>3 DEF PiecesAccounted, AbandonedOnlyWhenUnknown
<1> QED
  BY <1>7, <1>8, <1>9, <1>10 DEF RunnerInv, ChannelInv

(* Steps outside the runner keep its invariant. *)
LEMMA RunnerUnchanged ==
  RunnerInv /\ UNCHANGED runnerVars => RunnerInv'
<1> SUFFICES ASSUME RunnerInv, UNCHANGED runnerVars
             PROVE  RunnerInv'
  OBVIOUS
<1>1. ChannelInv'
  BY ChannelsUnchanged DEF RunnerInv, runnerVars
<1>2. RunnerTyped' /\ ConnectionFields' /\ AbandonedOnlyWhenUnknown'
  BY DEF RunnerInv, runnerVars, RunnerTyped, ConnectionFields, OneConnection, AbandonedOnlyWhenUnknown
<1> QED
  BY <1>1, <1>2 DEF RunnerInv

(* Every step of the runner, its gateway and its connection keeps the invariant. *)
LEMMA NextRunner ==
  RunnerInv /\ RunnerNext => RunnerInv'
<1> SUFFICES ASSUME RunnerInv, RunnerNext
             PROVE  RunnerInv'
  OBVIOUS
<1>1. CASE Connect \/ Registered \/ ConnectionLost \/ Close \/ ReceiveFrame
  BY <1>1, ConnectStep, RegisteredStep, LostStep, CloseStep, ReceiveStep
<1>2. CASE GatewayReadsSubmit \/ GatewayReadsCancel
  BY <1>2, ReadsSubmitStep, ReadsCancelStep
<1>3. ASSUME NEW r \in Request, ConnectionWaitExpires(r)
      PROVE  RunnerInv'
  BY <1>3, ExpiresStep
<1>4. ASSUME NEW r \in Request, RequestTimesOut(r) \/ Abort(r)
      PROVE  RunnerInv'
  <2>1. "timed_out" \in Outcomes /\ "failure" \in Outcomes
    BY DEF Outcomes
  <2>2. /\ GiveUp(r, "timed_out") \/ GiveUp(r, "failure")
        /\ UNCHANGED <<connection, waiters, toRunner, task>>
    BY <1>4 DEF RequestTimesOut, Abort
  <2> QED
    BY <2>1, <2>2, GiveUpStep
<1>5. ASSUME NEW r \in Request, GatewayReportsPiece(r)
      PROVE  RunnerInv'
  BY <1>5, ReportsStep
<1>6. ASSUME NEW r \in Request, NEW state \in Finished, GatewayFinishes(r, state)
      PROVE  RunnerInv'
  BY <1>6, FinishesStep
<1>7. ASSUME NEW r \in Request, NEW isStreaming \in BOOLEAN, Run(r, isStreaming)
      PROVE  RunnerInv'
  <2>1. run[r].phase = "idle" /\ UNCHANGED <<connection, toRunner, task>>
    BY <1>7 DEF Run
  <2>2. CASE RefuseWhenFull(r) \/ RefuseWhenClosed(r)
    BY <2>1, <2>2, RefuseStep DEF RefuseWhenFull, RefuseWhenClosed
  <2>3. CASE SubmitAtOnce(r, isStreaming)
    BY <2>1, <2>3, SubmitStep
  <2>4. CASE WaitForConnection(r, isStreaming)
    BY <2>1, <2>4, WaitStep
  <2> QED
    BY <1>7, <2>2, <2>3, <2>4 DEF Run
<1> QED
  BY <1>1, <1>2, <1>3, <1>4, <1>5, <1>6, <1>7 DEF RunnerNext, RunnerStep

\* A step of the routes is one of the runner, or leaves it alone.
LEMMA NextIsRunnerNext ==
  [Next]_vars => RunnerNext \/ UNCHANGED runnerVars
BY DEF Next, vars, RunnerNext, RefuseUnreadable, Reject, CallerHangsUp, Handle

\* What the two channels and the calls promise of each other holds throughout.
THEOREM RunnerInductive ==
  Spec => []RunnerInv
<1>1. RoutesInit => RunnerInv
  BY InitRunner
<1>2. RunnerInv /\ [Next]_vars => RunnerInv'
  BY RunnerUnchanged, NextRunner, NextIsRunnerNext
<1> QED
  BY <1>1, <1>2, PTL DEF Spec

\* Until it is closed, the runner has a socket or a timer to open one, never both
\* (OneConnection).
THEOREM RunnerHasOneConnection ==
  Spec => []OneConnection
<1>1. RunnerInv => OneConnection
  BY DEF RunnerInv, ConnectionFields
<1> QED
  BY <1>1, RunnerInductive, PTL

\* A task that runs for nobody could not be cancelled, or is being cancelled
\* (AbandonedOnlyWhenUnknown).
THEOREM TasksAreNotAbandoned ==
  Spec => []AbandonedOnlyWhenUnknown
<1>1. RunnerInv => AbandonedOnlyWhenUnknown
  BY DEF RunnerInv
<1> QED
  BY <1>1, RunnerInductive, PTL

-----------------------------------------------------------------------------
(* What has been written to a response *)

ResponseRecord == [kind : Kinds \cup {"none"}, written : Seq(Chunk), text : Seq(Nat),
                   isStarted : BOOLEAN, writableEnded : BOOLEAN, isClosed : BOOLEAN]

\* The role, and then the text.
Told(w, n) == \A i \in 1..n : w[i] = (IF i = 1 THEN "role" ELSE "text")

\* ... and then the end of the stream.
EndsWith(w, tail) ==
  \E n \in 1..Len(w) :
    /\ Len(w) = n + Len(tail) /\ Told(w, n)
    /\ \A i \in 1..Len(tail) : w[n + i] = tail[i]

Finish == <<"finish">> \o (IF ReportsUsage THEN <<"usage">> ELSE <<>>) \o <<"[DONE]">>

Counted(n) == [k \in 1..n |-> k]
WholeText(n) == IF n = 0 THEN <<0>> ELSE Counted(n)

\* A response under way carries what its call has heard.
OpenResponse(p, heard) ==
  /\ ~p.writableEnded /\ ~p.isClosed
  /\ p.isStarted <=> heard # 0
  /\ Told(p.written, Len(p.written))
  /\ p.written = <<>> <=> heard = 0
  /\ p.text = Counted(heard)

\* One whose caller has gone carries no more than that.
LeftResponse(p) == p.isClosed /\ Told(p.written, Len(p.written))

AnswersWhole(p, t) ==
  \/ p.written = <<"json">>
  \/ EndsWith(p.written, Finish) /\ t.state \in Finished /\ p.text = WholeText(t.pieces)

AnswersFailure(p) == p.written = <<"failure">> \/ EndsWith(p.written, <<"error", "[DONE]">>)

ResponseInv(r) ==
  \/ /\ OpenResponse(response[r], run[r].heard) /\ logged[r] = "no"
     /\ run[r].phase # "settled" /\ (response[r].kind = "none" => run[r].phase = "idle")
  \/ LeftResponse(response[r]) /\ logged[r] = "cancelled" /\ response[r].kind # "none"
  \/ /\ response[r].writableEnded /\ ~response[r].isClosed /\ response[r].kind # "none"
     /\ \/ logged[r] = "completed" /\ AnswersWhole(response[r], task[r])
        \/ logged[r] \in {"failed", "no"} /\ AnswersFailure(response[r])

ResponsesInv ==
  /\ response \in [Request -> ResponseRecord]
  /\ logged \in [Request -> {"no", "completed", "failed", "cancelled"}]
  /\ \A r \in Request : ResponseInv(r) /\ (run[r].heard # 0 => run[r].isStreaming)

\* Sequences of chunks and of pieces, as they grow.
LEMMA ToldMore ==
  ASSUME NEW w \in Seq(Chunk), Told(w, Len(w)), NEW v \in Seq(Chunk),
         \/ w # <<>> /\ v = <<"text">>
         \/ w = <<>> /\ v = <<"role", "text">>
  PROVE  w \o v \in Seq(Chunk) /\ Told(w \o v, Len(w \o v)) /\ w \o v # <<>>
<1>1. Len(w) \in Nat /\ (w = <<>> <=> Len(w) = 0) /\ Len(v) \in Nat
  OBVIOUS
<1>2. /\ w \o v \in Seq(Chunk) /\ Len(w \o v) = Len(w) + Len(v)
      /\ \A i \in 1..(Len(w) + Len(v)) : (w \o v)[i] = IF i \leq Len(w) THEN w[i] ELSE v[i - Len(w)]
  BY ConcatProperties
<1>3. CASE w # <<>> /\ v = <<"text">>
  <2>1. Len(v) = 1 /\ v[1] = "text"
    BY <1>3
  <2>2. ASSUME NEW i \in 1..(Len(w) + 1)
        PROVE  (w \o v)[i] = IF i = 1 THEN "role" ELSE "text"
    <3>1. CASE i \leq Len(w)
      <4>1. i \in 1..Len(w) /\ i \in 1..(Len(w) + Len(v))
        BY <1>1, <2>1, <3>1
      <4> QED
        BY <1>2, <3>1, <4>1 DEF Told
    <3>2. CASE ~(i \leq Len(w))
      <4>1. i - Len(w) = 1 /\ i # 1 /\ i \in 1..(Len(w) + Len(v))
        BY <1>1, <1>3, <2>1, <3>2
      <4> QED
        BY <1>2, <2>1, <3>2, <4>1
    <3> QED
      BY <3>1, <3>2
  <2> QED
    BY <1>1, <1>2, <2>1, <2>2 DEF Told
<1>4. CASE w = <<>> /\ v = <<"role", "text">>
  <2>1. w \o v = v
    BY <1>4, ConcatEmptySeq
  <2> QED
    BY <1>4, <2>1 DEF Told
<1> QED
  BY <1>3, <1>4

(* A response that ends with some chunks after it was told others ends with those chunks. *)
LEMMA ToldEnds ==
  ASSUME NEW w \in Seq(Chunk), Told(w, Len(w)), w # <<>>, NEW tail \in Seq(Chunk)
  PROVE  w \o tail \in Seq(Chunk) /\ EndsWith(w \o tail, tail)
<1> DEFINE n == Len(w)
           m == Len(tail)
<1>1. n \in Nat \ {0} /\ m \in Nat
  OBVIOUS
<1>2. /\ w \o tail \in Seq(Chunk) /\ Len(w \o tail) = n + m
      /\ \A i \in 1..(n + m) : (w \o tail)[i] = IF i \leq n THEN w[i] ELSE tail[i - n]
  BY ConcatProperties
<1>3. \A i \in 1..n : w[i] = (IF i = 1 THEN "role" ELSE "text")
  BY DEF Told
<1> HIDE DEF n, m
<1>4. \A i \in 1..n : i \in 1..(n + m) /\ i \leq n
  BY <1>1
<1>5. \A i \in 1..m : n + i \in 1..(n + m) /\ ~(n + i \leq n) /\ (n + i) - n = i
  BY <1>1
<1>6. Told(w \o tail, n) /\ \A i \in 1..m : (w \o tail)[n + i] = tail[i]
  BY <1>2, <1>3, <1>4, <1>5 DEF Told
<1>7. n \in 1..Len(w \o tail)
  BY <1>1, <1>2
<1> QED
  BY <1>2, <1>6, <1>7 DEF EndsWith, m

(* The pieces 1..n followed by piece n+1 are the pieces 1..n+1. *)
LEMMA CountedMore ==
  ASSUME NEW n \in Nat
  PROVE  /\ Counted(n) \in Seq(Nat) /\ Counted(0) = <<>>
         /\ Counted(n) \o <<n + 1>> = Counted(n + 1)
<1> DEFINE s == Counted(n)
           t == <<n + 1>>
           u == Counted(n + 1)
<1>1. /\ s \in Seq(Nat) /\ Len(s) = n /\ \A k \in 1..n : s[k] = k
      /\ u \in Seq(Nat) /\ Len(u) = n + 1 /\ \A k \in 1..(n + 1) : u[k] = k
      /\ t \in Seq(Nat) /\ Len(t) = 1 /\ t[1] = n + 1
  BY DEF Counted
<1>2. Counted(0) = <<>>
  BY DEF Counted
<1> HIDE DEF s, t, u
<1>3. /\ s \o t \in Seq(Nat) /\ Len(s \o t) = Len(s) + Len(t)
      /\ \A i \in 1..(Len(s) + Len(t)) : (s \o t)[i] = IF i \leq Len(s) THEN s[i] ELSE t[i - Len(s)]
  BY <1>1, ConcatProperties, ZenonT(40)
<1>4. \A i \in 1..(n + 1) : (s \o t)[i] = i
  <2> TAKE i \in 1..(n + 1)
  <2>1. CASE i \leq n
    BY <1>1, <1>3, <2>1
  <2>2. CASE ~(i \leq n)
    <3>1. i = n + 1 /\ i - n = 1
      BY <2>2
    <3> QED
      BY <1>1, <1>3, <2>2, <3>1
  <2> QED
    BY <2>1, <2>2
<1>5. s \o t = u
  BY <1>1, <1>3, <1>4, SeqEqual
<1> QED
  BY <1>1, <1>2, <1>5 DEF s, t, u

\* The end of a stream that answers.
LEMMA FinishChunks ==
  /\ Finish \in Seq(Chunk) /\ <<"error", "[DONE]">> \in Seq(Chunk)
  /\ \/ Len(Finish) = 3 /\ Finish[1] = "finish" /\ Finish[2] = "usage" /\ Finish[3] = "[DONE]"
     \/ Len(Finish) = 2 /\ Finish[1] = "finish" /\ Finish[2] = "[DONE]"
<1>1. /\ \A c \in Chunk : <<c>> \in Seq(Chunk)
      /\ {"finish", "usage", "error", "[DONE]"} \subseteq Chunk
  BY DEF Chunk
<1> DEFINE a == <<"finish">>
           b == <<"[DONE]">>
           m == IF ReportsUsage THEN <<"usage">> ELSE <<>>
<1>2. /\ a \in Seq(Chunk) /\ Len(a) = 1 /\ a[1] = "finish"
      /\ b \in Seq(Chunk) /\ Len(b) = 1 /\ b[1] = "[DONE]"
      /\ m \in Seq(Chunk)
      /\ IF ReportsUsage THEN Len(m) = 1 /\ m[1] = "usage" ELSE Len(m) = 0
  BY <1>1
<1>3. Finish = (a \o m) \o b
  BY DEF Finish
<1>4. <<"error", "[DONE]">> \in Seq(Chunk)
  BY <1>1
<1> HIDE DEF a, b, m
<1> DEFINE am == a \o m
<1>5. /\ am \in Seq(Chunk) /\ Len(am) = Len(a) + Len(m)
      /\ \A i \in 1..(Len(a) + Len(m)) : am[i] = IF i \leq Len(a) THEN a[i] ELSE m[i - Len(a)]
  BY <1>2, ConcatProperties
<1>6. /\ am[1] = "finish"
      /\ IF ReportsUsage THEN Len(am) = 2 /\ am[2] = "usage" ELSE Len(am) = 1
  BY <1>2, <1>5
<1> HIDE DEF am
<1>7. /\ am \o b \in Seq(Chunk) /\ Len(am \o b) = Len(am) + Len(b)
      /\ \A i \in 1..(Len(am) + Len(b)) : (am \o b)[i] = IF i \leq Len(am) THEN am[i] ELSE b[i - Len(am)]
  <2>1. am \in Seq(Chunk) /\ b \in Seq(Chunk)
    BY <1>2, <1>5
  <2> QED
    BY <2>1, ConcatProperties
<1> DEFINE whole == am \o b
<1>8. Finish = whole
  BY <1>3 DEF am
<1>9. Finish \in Seq(Chunk)
  BY <1>7, <1>8
<1>10. CASE ReportsUsage
  <2>1. Len(am) = 2 /\ am[1] = "finish" /\ am[2] = "usage"
    BY <1>6, <1>10
  <2>2. /\ Len(whole) = 3
        /\ \A i \in 1..3 : whole[i] = IF i \leq 2 THEN am[i] ELSE b[i - 2]
    BY <1>2, <1>7, <2>1
  <2> HIDE DEF whole
  <2>3. whole[1] = "finish" /\ whole[2] = "usage" /\ whole[3] = "[DONE]"
    BY <1>2, <2>1, <2>2
  <2> QED
    BY <1>4, <1>8, <1>9, <2>2, <2>3
<1>11. CASE ~ReportsUsage
  <2>1. Len(am) = 1 /\ am[1] = "finish"
    BY <1>6, <1>11
  <2>2. /\ Len(whole) = 2
        /\ \A i \in 1..2 : whole[i] = IF i \leq 1 THEN am[i] ELSE b[i - 1]
    BY <1>2, <1>7, <2>1
  <2> HIDE DEF whole
  <2>3. whole[1] = "finish" /\ whole[2] = "[DONE]"
    BY <1>2, <2>1, <2>2
  <2> QED
    BY <1>4, <1>8, <1>9, <2>2, <2>3
<1> QED
  BY <1>10, <1>11

\* What a write does to a response that is open, ...
LEMMA WritesOpen ==
  ASSUME NEW p \in ResponseRecord, ~p.writableEnded, ~p.isClosed,
         NEW chunks \in Seq(Chunk), NEW text \in Seq(Nat)
  PROVE  LET q == WriteText(p, chunks, text)
         IN /\ q \in ResponseRecord /\ q.kind = p.kind /\ q.isStarted /\ ~q.writableEnded /\ ~q.isClosed
            /\ q.written = p.written \o chunks /\ q.text = p.text \o text
<1> DEFINE e1 == [p EXCEPT !.isStarted = TRUE]
           e2 == [e1 EXCEPT !.written = @ \o chunks]
           q == [e2 EXCEPT !.text = @ \o text]
<1>1. p.written \o chunks \in Seq(Chunk) /\ p.text \o text \in Seq(Nat)
  BY ConcatProperties DEF ResponseRecord
<1>2. /\ e1 \in ResponseRecord /\ e1.kind = p.kind /\ e1.isStarted /\ ~e1.writableEnded /\ ~e1.isClosed
      /\ e1.written = p.written /\ e1.text = p.text
  BY DEF ResponseRecord
<1> HIDE DEF e1
<1>3. /\ e2 \in ResponseRecord /\ e2.kind = p.kind /\ e2.isStarted /\ ~e2.writableEnded /\ ~e2.isClosed
      /\ e2.written = p.written \o chunks /\ e2.text = p.text
  BY <1>1, <1>2 DEF ResponseRecord
<1> HIDE DEF e2
<1>4. /\ q \in ResponseRecord /\ q.kind = p.kind /\ q.isStarted /\ ~q.writableEnded /\ ~q.isClosed
      /\ q.written = p.written \o chunks /\ q.text = p.text \o text
  BY <1>1, <1>3 DEF ResponseRecord
<1>5. WriteText(p, chunks, text) = q
  BY DEF WriteText, e1, e2
<1> HIDE DEF q
<1> QED
  BY <1>4, <1>5

\* ... and that it does nothing to one that is not.
Frozen(p, q) ==
  /\ q \in ResponseRecord /\ q.kind = p.kind /\ q.written = p.written /\ q.text = p.text
  /\ q.isClosed = p.isClosed /\ (p.writableEnded => q.writableEnded)

(* Writing to an ended or closed response changes nothing the client sees. *)
LEMMA WritesNothing ==
  ASSUME NEW p \in ResponseRecord, p.writableEnded \/ p.isClosed, NEW chunks, NEW text
  PROVE  Frozen(p, WriteText(p, chunks, text))
<1>1. WriteText(p, chunks, text) = p \/ WriteText(p, chunks, text) = [p EXCEPT !.isStarted = TRUE]
  BY DEF WriteText, ResponseRecord
<1> QED
  BY <1>1 DEF Frozen, ResponseRecord

(* Ending it again changes nothing either. *)
LEMMA EndsNothing ==
  ASSUME NEW p \in ResponseRecord, p.writableEnded \/ p.isClosed, NEW chunks
  PROVE  Frozen(p, End(p, chunks)) /\ (p.writableEnded => End(p, chunks) = p)
<1> DEFINE q == Write(p, chunks)
<1>1. Frozen(p, q) /\ (p.writableEnded => q = p)
  <2>1. Frozen(p, WriteText(p, chunks, <<>>))
    BY WritesNothing
  <2>2. p.writableEnded => q = p
    BY DEF Write, WriteText
  <2> QED
    BY <2>1, <2>2 DEF Write
<1>2. End(p, chunks) = [q EXCEPT !.writableEnded = TRUE]
  BY DEF End
<1> HIDE DEF q
<1> DEFINE e == [q EXCEPT !.writableEnded = TRUE]
<1>3. /\ e \in ResponseRecord /\ e.kind = q.kind /\ e.written = q.written /\ e.text = q.text
      /\ e.isClosed = q.isClosed /\ e.writableEnded
  BY <1>1 DEF Frozen, ResponseRecord
<1>4. p.writableEnded => e = p
  <2> SUFFICES ASSUME p.writableEnded
               PROVE  [p EXCEPT !.writableEnded = TRUE] = p
    BY <1>1
  <2> QED
    BY DEF ResponseRecord
<1> HIDE DEF e
<1>5. Frozen(p, e)
  BY <1>1, <1>3 DEF Frozen
<1> QED
  BY <1>2, <1>4, <1>5 DEF e

(* Two changes of which the client sees nothing are one. *)
LEMMA FrozenTwice ==
  ASSUME NEW p, NEW q, NEW s, Frozen(p, q), Frozen(q, s)
  PROVE  Frozen(p, s)
BY DEF Frozen

(* Answering an ended or closed response changes nothing the client sees. *)
LEMMA AnswersNothing ==
  ASSUME NEW p \in ResponseRecord, p.writableEnded \/ p.isClosed, NEW isStreaming, NEW outcome
  PROVE  Frozen(p, Answered(p, isStreaming, outcome))
<1>1. \A chunks : Frozen(p, End(p, chunks))
  BY EndsNothing
<1> DEFINE q == WriteWhole(p)
<1>2. Frozen(p, q) /\ q \in ResponseRecord /\ (q.writableEnded \/ q.isClosed)
  <2>1. q = p \/ q = WriteText(p, <<"role", "text">>, <<0>>)
    BY DEF WriteWhole
  <2>2. Frozen(p, q)
    BY <2>1, WritesNothing DEF Frozen
  <2> QED
    BY <2>2 DEF Frozen
<1> HIDE DEF q
<1>3. \A chunks : Frozen(p, End(q, chunks))
  BY <1>2, EndsNothing, FrozenTwice
<1>4. Frozen(p, SendFailure(p))
  BY <1>1 DEF SendFailure
<1>5. Frozen(p, EndStream(p, outcome))
  BY <1>1, <1>3, <1>4 DEF EndStream, q
<1> QED
  BY <1>1, <1>4, <1>5 DEF Answered

\* Ending an open response.
LEMMA EndsOpen ==
  ASSUME NEW p \in ResponseRecord, ~p.writableEnded, ~p.isClosed, NEW chunks \in Seq(Chunk)
  PROVE  LET q == End(p, chunks)
         IN /\ q \in ResponseRecord /\ q.kind = p.kind /\ q.writableEnded /\ ~q.isClosed
            /\ q.written = p.written \o chunks /\ q.text = p.text
<1> DEFINE w == Write(p, chunks)
           q == [w EXCEPT !.writableEnded = TRUE]
<1>1. /\ w \in ResponseRecord /\ w.kind = p.kind /\ ~w.isClosed
      /\ w.written = p.written \o chunks /\ w.text = p.text \o <<>>
  <2>1. <<>> \in Seq(Nat) /\ w = WriteText(p, chunks, <<>>)
    BY DEF Write
  <2> HIDE DEF w
  <2> QED
    BY <2>1, WritesOpen
<1>2. p.text \o <<>> = p.text
  BY ConcatEmptySeq DEF ResponseRecord
<1> HIDE DEF w
<1>3. /\ q \in ResponseRecord /\ q.kind = p.kind /\ q.writableEnded /\ ~q.isClosed
      /\ q.written = p.written \o chunks /\ q.text = p.text
  BY <1>1, <1>2 DEF ResponseRecord
<1>4. End(p, chunks) = q
  BY DEF End, w
<1> HIDE DEF q
<1> QED
  BY <1>3, <1>4

\* A piece goes out.
LEMMA PieceKeepsOpen ==
  ASSUME NEW p \in ResponseRecord, NEW n \in Nat, OpenResponse(p, n)
  PROVE  /\ WritePiece(p, n + 1) \in ResponseRecord /\ OpenResponse(WritePiece(p, n + 1), n + 1)
         /\ WritePiece(p, n + 1).kind = p.kind
<1> DEFINE chunks == IF p.isStarted THEN <<"text">> ELSE <<"role", "text">>
           q == WriteText(p, chunks, <<n + 1>>)
<1>1. chunks \in Seq(Chunk) /\ <<n + 1>> \in Seq(Nat) /\ p.written \in Seq(Chunk)
  <2>1. n + 1 \in Nat /\ p.written \in Seq(Chunk) /\ "role" \in Chunk /\ "text" \in Chunk
    BY DEF Chunk, ResponseRecord
  <2>2. <<"text">> \in Seq(Chunk) /\ <<"role", "text">> \in Seq(Chunk) /\ <<n + 1>> \in Seq(Nat)
    BY <2>1
  <2> QED
    BY <2>1, <2>2
<1>2. \/ p.written # <<>> /\ chunks = <<"text">>
      \/ p.written = <<>> /\ chunks = <<"role", "text">>
  BY DEF OpenResponse
<1> HIDE DEF chunks
<1>3. /\ q \in ResponseRecord /\ q.kind = p.kind /\ q.isStarted /\ ~q.writableEnded /\ ~q.isClosed
      /\ q.written = p.written \o chunks /\ q.text = p.text \o <<n + 1>>
  BY <1>1, WritesOpen DEF OpenResponse
<1>4. /\ Told(p.written \o chunks, Len(p.written \o chunks)) /\ p.written \o chunks # <<>>
  BY <1>1, <1>2, ToldMore DEF OpenResponse
<1>5. p.text \o <<n + 1>> = Counted(n + 1)
  BY CountedMore DEF OpenResponse
<1>6. WritePiece(p, n + 1) = q
  BY DEF WritePiece, chunks
<1> HIDE DEF q
<1>7. OpenResponse(q, n + 1)
  BY <1>3, <1>4, <1>5 DEF OpenResponse
<1> QED
  BY <1>3, <1>6, <1>7

\* How the settling of a call ends the response under way.
LEMMA AnswersOpen ==
  ASSUME NEW p \in ResponseRecord, NEW n \in Nat, OpenResponse(p, n),
         NEW isStreaming \in BOOLEAN, n # 0 => isStreaming,
         NEW outcome \in Outcomes \ {"none"}
  PROVE  LET q == Answered(p, isStreaming, outcome)
         IN /\ q \in ResponseRecord /\ q.kind = p.kind /\ q.writableEnded /\ ~q.isClosed
            /\ IF outcome = "answer"
               THEN q.written = <<"json">> \/ (EndsWith(q.written, Finish) /\ q.text = WholeText(n))
               ELSE AnswersFailure(q)
<1> DEFINE q == Answered(p, isStreaming, outcome)
<1>1. /\ ~p.writableEnded /\ ~p.isClosed /\ p.written \in Seq(Chunk) /\ p.text \in Seq(Nat)
      /\ Told(p.written, Len(p.written))
      /\ p.text = Counted(n) /\ (p.isStarted <=> n # 0) /\ (p.written = <<>> <=> n = 0)
  BY DEF OpenResponse, ResponseRecord
<1>2. /\ <<"json">> \in Seq(Chunk) /\ <<"failure">> \in Seq(Chunk)
      /\ <<"role", "text">> \in Seq(Chunk) /\ <<0>> \in Seq(Nat)
      /\ Finish \in Seq(Chunk) /\ <<"error", "[DONE]">> \in Seq(Chunk)
  BY FinishChunks DEF Chunk
<1>3. \A v \in Seq(Chunk) : <<>> \o v = v
  BY ConcatEmptySeq
<1>4. ASSUME NEW v \in Seq(Chunk), n = 0, q = End(p, v)
      PROVE  q \in ResponseRecord /\ q.kind = p.kind /\ q.writableEnded /\ ~q.isClosed /\ q.written = v
  <2>1. End(p, v).written = p.written \o v /\ p.written = <<>>
    BY <1>1, <1>4, EndsOpen
  <2> QED
    BY <1>1, <1>3, <1>4, <2>1, EndsOpen
<1> DEFINE w == WriteWhole(p)
<1>5. /\ w \in ResponseRecord /\ w.kind = p.kind /\ ~w.writableEnded /\ ~w.isClosed
      /\ w.written \in Seq(Chunk) /\ Told(w.written, Len(w.written)) /\ w.written # <<>>
      /\ w.text = WholeText(n)
  <2>1. CASE p.isStarted
    BY <1>1, <2>1 DEF WriteWhole, WholeText
  <2>2. CASE ~p.isStarted
    <3>1. w = WriteText(p, <<"role", "text">>, <<0>>)
      BY <2>2 DEF WriteWhole
    <3>2. /\ w \in ResponseRecord /\ w.kind = p.kind /\ ~w.writableEnded /\ ~w.isClosed
          /\ w.written = p.written \o <<"role", "text">> /\ w.text = p.text \o <<0>>
      <4> DEFINE v == <<"role", "text">>
                 x == <<0>>
      <4>1. v \in Seq(Chunk) /\ x \in Seq(Nat) /\ w = WriteText(p, v, x)
        BY <1>2, <3>1
      <4> HIDE DEF w, v, x
      <4>2. /\ w \in ResponseRecord /\ w.kind = p.kind /\ ~w.writableEnded /\ ~w.isClosed
            /\ w.written = p.written \o v /\ w.text = p.text \o x
        BY <1>1, <4>1, WritesOpen, ZenonT(40)
      <4> QED
        BY <4>2 DEF v, x
    <3> HIDE DEF w
    <3>3. n = 0 /\ p.written = <<>> /\ p.text = <<>>
      BY <1>1, <2>2, CountedMore
    <3>4. /\ p.written \o <<"role", "text">> \in Seq(Chunk)
          /\ Told(p.written \o <<"role", "text">>, Len(p.written \o <<"role", "text">>))
          /\ p.written \o <<"role", "text">> # <<>>
      BY <1>1, <1>2, <3>3, ToldMore
    <3>5. <<>> \o <<0>> = <<0>>
      BY <1>2, ConcatEmptySeq
    <3> QED
      BY <3>2, <3>3, <3>4, <3>5 DEF WholeText
  <2> QED
    BY <2>1, <2>2 DEF ResponseRecord
<1> HIDE DEF w
<1>6. ASSUME NEW v \in Seq(Chunk), q = End(w, v)
      PROVE  /\ q \in ResponseRecord /\ q.kind = p.kind /\ q.writableEnded /\ ~q.isClosed
             /\ EndsWith(q.written, v) /\ q.text = WholeText(n)
  <2>1. /\ q \in ResponseRecord /\ q.kind = w.kind /\ q.writableEnded /\ ~q.isClosed
        /\ q.written = w.written \o v /\ q.text = w.text
    BY <1>5, <1>6, EndsOpen
  <2> HIDE DEF q
  <2>2. EndsWith(w.written \o v, v)
    BY <1>5, ToldEnds
  <2> QED
    BY <1>5, <2>1, <2>2
<1>7. ASSUME NEW v \in Seq(Chunk), n # 0, q = End(p, v)
      PROVE  /\ q \in ResponseRecord /\ q.kind = p.kind /\ q.writableEnded /\ ~q.isClosed
             /\ EndsWith(q.written, v)
  <2>1. /\ q \in ResponseRecord /\ q.kind = p.kind /\ q.writableEnded /\ ~q.isClosed
        /\ q.written = p.written \o v
    BY <1>1, <1>7, EndsOpen
  <2> HIDE DEF q
  <2>2. EndsWith(p.written \o v, v)
    BY <1>1, <1>7, ToldEnds
  <2> QED
    BY <2>1, <2>2
<1>8. \/ /\ outcome = "answer" /\ ((n = 0 /\ q = End(p, <<"json">>)) \/ q = End(w, Finish))
      \/ /\ outcome # "answer"
         /\ \/ n = 0 /\ q = End(p, <<"failure">>)
            \/ n # 0 /\ q = End(p, <<"error", "[DONE]">>)
            \/ q = End(w, <<"error", "[DONE]">>)
  <2>1. CASE ~isStreaming
    BY <2>1 DEF Answered, SendFailure
  <2>2. CASE isStreaming
    <3>1. q = EndStream(p, outcome)
      BY <2>2 DEF Answered
    <3> HIDE DEF q
    <3>2. CASE outcome = "answer"
      BY <3>1, <3>2 DEF EndStream, Finish, w
    <3>3. CASE outcome = "interrupted"
      BY <3>1, <3>3 DEF EndStream, w
    <3>4. CASE outcome \notin {"answer", "interrupted"} /\ p.isStarted
      BY <1>1, <3>1, <3>4 DEF EndStream
    <3>5. CASE outcome \notin {"answer", "interrupted"} /\ ~p.isStarted
      BY <1>1, <3>1, <3>5 DEF EndStream, SendFailure
    <3> QED
      BY <3>2, <3>3, <3>4, <3>5
  <2> QED
    BY <2>1, <2>2
<1> HIDE DEF q
<1>9. CASE outcome = "answer"
  <2>1. CASE n = 0 /\ q = End(p, <<"json">>)
    BY <1>2, <1>4, <1>9, <2>1 DEF q
  <2>2. CASE q = End(w, Finish)
    BY <1>2, <1>6, <1>9, <2>2 DEF q
  <2> QED
    BY <1>8, <1>9, <2>1, <2>2
<1>10. CASE outcome # "answer"
  <2>1. CASE n = 0 /\ q = End(p, <<"failure">>)
    BY <1>2, <1>4, <1>10, <2>1 DEF q, AnswersFailure
  <2>2. CASE n # 0 /\ q = End(p, <<"error", "[DONE]">>)
    BY <1>2, <1>7, <1>10, <2>2 DEF q, AnswersFailure
  <2>3. CASE q = End(w, <<"error", "[DONE]">>)
    BY <1>2, <1>6, <1>10, <2>3 DEF q, AnswersFailure
  <2> QED
    BY <1>8, <1>10, <2>1, <2>2, <2>3
<1> QED
  BY <1>9, <1>10

-----------------------------------------------------------------------------
(* What a step of the runner does to a call *)

\* The call goes on as it was, hears a piece, or is settled, and a task that has
\* ended reports no more.
CallStep(r) ==
  /\ run[r].isStreaming => run'[r].isStreaming
  /\ task[r].state \in Finished => task'[r].state \in Finished /\ task'[r].pieces = task[r].pieces
  /\ \/ run'[r].heard = run[r].heard /\ (run'[r].phase = "settled" => run[r].phase = "settled")
     \/ /\ run'[r].heard = run[r].heard + 1 /\ run[r].isStreaming
        /\ run[r].phase = "pending" /\ run'[r].phase = "pending"
     \/ /\ run'[r].heard = run[r].heard
        /\ run[r].phase # "settled" /\ run'[r].phase = "settled"
        /\ run'[r].outcome \in Outcomes \ {"none"}
        /\ run'[r].outcome = "answer" =>
             task'[r].state \in Finished /\ task'[r].pieces = run'[r].heard

\* Calls answered otherwise than with the answer.
LEMMA SettledCalls ==
  ASSUME RunnerInv, NEW S, NEW outcome \in Outcomes \ {"none", "answer"}, run' = Settled(S, outcome),
         \A r \in Request : task'[r].state = task[r].state /\ task'[r].pieces = task[r].pieces
  PROVE  \A r \in Request : CallStep(r) /\ (r \notin S => run'[r] = run[r])
<1>1. RunnerTyped /\ run \in [Request -> RunRecord]
  BY DEF RunnerInv, RunnerTyped
<1>2. \A r \in Request :
        /\ run'[r].phase = (IF r \in S THEN "settled" ELSE run[r].phase)
        /\ run'[r].heard = run[r].heard
        /\ run'[r].isStreaming = run[r].isStreaming
  BY <1>1, SettledFields
<1>3. \A r \in Request : IF r \in S THEN run'[r].outcome = outcome ELSE run'[r] = run[r]
  BY <1>1 DEF Settled, RunRecord
<1> QED
  BY <1>2, <1>3 DEF CallStep

\* Calls that stay as they are.
LEMMA SameCall ==
  ASSUME NEW r \in Request, run'[r] = run[r],
         task[r].state \in Finished => task'[r].state \in Finished /\ task'[r].pieces = task[r].pieces
  PROVE  CallStep(r)
BY DEF CallStep

\* A call that starts.
LEMMA RunCalls ==
  ASSUME RunnerInv, NEW r \in Request, NEW isStreaming \in BOOLEAN, Run(r, isStreaming)
  PROVE  /\ \A q \in Request : CallStep(q)
         /\ \A q \in Request \ {r} : run'[q] = run[q]
         /\ run[r].phase = "idle" /\ run'[r].phase # "idle" /\ run'[r].heard = run[r].heard
<1>1. RunnerTyped /\ UnknownUntilSubmitted
  BY DEF RunnerInv, ChannelInv
<1>2. run[r].phase = "idle" /\ UNCHANGED task /\ ~run[r].isStreaming
  BY <1>1 DEF Run, UnknownUntilSubmitted
<1>3. CASE RefuseWhenFull(r) \/ RefuseWhenClosed(r)
  <2>1. run' = Settled({r}, "failure") /\ "failure" \in Outcomes \ {"none", "answer"}
    BY <1>3 DEF RefuseWhenFull, RefuseWhenClosed, Outcomes
  <2>2. \A q \in Request : CallStep(q) /\ (q \notin {r} => run'[q] = run[q])
    BY <1>2, <2>1, SettledCalls
  <2>3. run'[r].phase = "settled" /\ run'[r].heard = run[r].heard
    BY <1>1, <2>1, SettledFields
  <2> QED
    BY <1>2, <2>2, <2>3
<1>4. ASSUME NEW phase \in {"waiting", "pending"},
             run' = [run EXCEPT ![r].phase = phase, ![r].isStreaming = isStreaming]
      PROVE  /\ \A q \in Request : CallStep(q)
             /\ \A q \in Request \ {r} : run'[q] = run[q]
             /\ run'[r].phase # "idle" /\ run'[r].heard = run[r].heard
  <2>1. /\ \A q \in Request \ {r} : run'[q] = run[q]
        /\ run'[r].phase = phase /\ run'[r].heard = run[r].heard
    BY <1>1, <1>4, StartedFields
  <2>2. \A q \in Request \ {r} : CallStep(q)
    BY <1>2, <2>1, SameCall
  <2>3. CallStep(r)
    BY <1>2, <2>1 DEF CallStep
  <2> QED
    BY <2>1, <2>2, <2>3
<1>5. CASE SubmitAtOnce(r, isStreaming) \/ WaitForConnection(r, isStreaming)
  <2>1. PICK phase \in {"waiting", "pending"} :
          run' = [run EXCEPT ![r].phase = phase, ![r].isStreaming = isStreaming]
    BY <1>5 DEF SubmitAtOnce, WaitForConnection
  <2> QED
    BY <1>2, <1>4, <2>1
<1> QED
  BY <1>3, <1>5 DEF Run

\* A call given up.
LEMMA GiveUpCalls ==
  ASSUME RunnerInv, NEW r \in Request, NEW outcome \in {"failure", "timed_out"}, GiveUp(r, outcome), UNCHANGED task
  PROVE  /\ \A q \in Request : CallStep(q) /\ (q # r => run'[q] = run[q])
         /\ run'[r].phase # run[r].phase => run[r].phase = "pending"
         /\ run'[r].heard = run[r].heard
<1>1. CASE run[r].phase # "pending"
  <2>1. UNCHANGED run
    BY <1>1 DEF GiveUp
  <2> QED
    BY <2>1, SameCall
<1>2. CASE run[r].phase = "pending"
  <2>1. run' = Settled({r}, outcome) /\ outcome \in Outcomes \ {"none", "answer"}
    BY <1>2 DEF GiveUp, Outcomes
  <2>2. \A q \in Request : CallStep(q) /\ (q \notin {r} => run'[q] = run[q])
    BY <2>1, SettledCalls
  <2>3. run'[r].heard = run[r].heard
    BY <2>1, SettledFields DEF RunnerInv
  <2> QED
    BY <1>2, <2>2, <2>3
<1> QED
  BY <1>1, <1>2

\* A frame that ends a call ends it after the last piece of its task.
LEMMA ReceiveCalls ==
  ASSUME RunnerInv, ReceiveFrame
  PROVE  \A q \in Request : CallStep(q) /\ (run[q].phase # "pending" => run'[q] = run[q])
<1> DEFINE f == Head(toRunner)
           r == f.of
<1>1. /\ RunnerTyped /\ FramesTell /\ FramesInOrder /\ PiecesAccounted
      /\ run \in [Request -> RunRecord] /\ toRunner \in Seq(GatewayFrame) /\ toRunner # <<>>
      /\ task \in [Request -> TaskRecord] /\ UNCHANGED task
  BY DEF RunnerInv, RunnerTyped, ChannelInv, ReceiveFrame
<1>2. f \in GatewayFrame /\ f \in Queued(toRunner) /\ Hears(f)
  BY ReceiveHears
<1>3. f = toRunner[1] /\ 1 \in DOMAIN toRunner
  BY <1>1
<1> HIDE DEF f
<1>4. r \in Request
  BY <1>2 DEF GatewayFrame
<1>5. /\ \A q \in Request : q # r => run'[q] = run[q]
      /\ run'[r].isStreaming = run[r].isStreaming
      /\ \/ run'[r] = run[r]
         \/ /\ run[r].phase = "pending" /\ f.type = "task.accepted"
            /\ run'[r].phase = "pending" /\ run'[r].knowsTask
            /\ run'[r].heard = run[r].heard
         \/ /\ run[r].phase = "pending" /\ f.type = "task.updated" /\ run[r].knowsTask /\ f.newText
            /\ run'[r].phase = "pending" /\ run'[r].knowsTask
            /\ run'[r].heard = run[r].heard + 1
         \/ /\ run[r].phase = "pending" /\ (f.type = "error" \/ (f.type = "task.updated" /\ f.state # "running"))
            /\ run'[r].phase = "settled" /\ run'[r].knowsTask = run[r].knowsTask
            /\ run'[r].heard = run[r].heard
  BY <1>2, HeardFields
<1> HIDE DEF r
<1>6. f.newText => run[r].isStreaming
  BY <1>1, <1>2 DEF FramesTell, r
<1>7. ASSUME run[r].phase = "pending", run'[r].phase = "settled"
      PROVE  /\ run'[r].outcome \in Outcomes \ {"none"}
             /\ run'[r].outcome = "answer" => task[r].state \in Finished /\ task[r].pieces = run[r].heard
  <2>1. \/ /\ f.type = "task.updated" /\ run[r].knowsTask /\ f.state # "running"
           /\ run' = Settled({r}, OutcomeOf(f.state)) /\ OutcomeOf(f.state) \in Outcomes \ {"none"}
        \/ f.type = "error" /\ run' = Settled({r}, "failure")
    <3>1. run[r] \in RunRecord
      BY <1>1, <1>4
    <3>2. run' # run
      BY <1>7
    <3>3. run' # [run EXCEPT ![r].knowsTask = TRUE] /\ run' # [run EXCEPT ![r].heard = @ + 1]
      BY <1>1, <1>4, <1>7, <3>1 DEF RunRecord
    <3> QED
      BY <1>2, <3>2, <3>3 DEF Hears, r
  <2>2. ASSUME NEW o, run' = Settled({r}, o)
        PROVE  run'[r].outcome = o
    BY <1>1, <1>4, <2>2 DEF Settled, RunRecord
  <2>3. CASE f.type = "error" /\ run' = Settled({r}, "failure")
    BY <2>2, <2>3 DEF Outcomes
  <2>4. CASE /\ f.type = "task.updated" /\ run[r].knowsTask /\ f.state # "running"
             /\ run' = Settled({r}, OutcomeOf(f.state)) /\ OutcomeOf(f.state) \in Outcomes \ {"none"}
    <3>1. run'[r].outcome = OutcomeOf(f.state)
      BY <2>2, <2>4
    <3>2. task[r].hasOwner /\ task[r].state \in Finished /\ ~f.newText
      BY <1>1, <1>2, <2>4 DEF FramesTell, GatewayFrame, r
    <3>3. At(toRunner, PieceOf(r)) = {}
      <4> SUFFICES ASSUME NEW i \in DOMAIN toRunner, toRunner[i].of = r, toRunner[i].newText
                   PROVE  FALSE
        BY DEF At, PieceOf
      <4>1. toRunner[i].state = "running"
        BY <1>1 DEF FramesTell, Queued
      <4>2. i \in Nat \ {0} /\ i # 1
        BY <1>1, <1>3, <2>4, <4>1
      <4>3. 1 < i
        BY <4>2
      <4>4. toRunner[i].state # "running"
        BY <1>1, <1>3, <2>4, <4>3 DEF FramesInOrder, r
      <4> QED
        BY <4>1, <4>4
    <3>4. run[r].heard + Cardinality(At(toRunner, PieceOf(r))) = task[r].pieces
      BY <1>1, <1>4, <1>7, <3>2 DEF PiecesAccounted
    <3>5. Cardinality(At(toRunner, PieceOf(r))) = 0
      BY <3>3, FS_EmptySet
    <3>6. run[r].heard \in Nat
      BY <1>1, <1>4 DEF RunRecord
    <3>7. task[r].pieces = run[r].heard
      BY <3>4, <3>5, <3>6
    <3> QED
      BY <2>4, <3>1, <3>2, <3>7
  <2> QED
    BY <2>1, <2>3, <2>4
<1>8. CallStep(r)
  <2>1. CASE run'[r] = run[r]
    BY <1>1, <1>4, <2>1, SameCall
  <2>2. CASE run'[r].phase = "settled" /\ run[r].phase = "pending" /\ run'[r].heard = run[r].heard
    BY <1>1, <1>5, <1>7, <2>2 DEF CallStep
  <2>3. CASE run'[r].phase = "pending" /\ run'[r].heard = run[r].heard
    BY <1>1, <1>5, <2>3 DEF CallStep
  <2>4. CASE run'[r].phase = "pending" /\ run[r].phase = "pending" /\ f.newText /\ run'[r].heard = run[r].heard + 1
    BY <1>1, <1>5, <1>6, <2>4 DEF CallStep
  <2> QED
    BY <1>5, <2>1, <2>2, <2>3, <2>4
<1>9. \A q \in Request \ {r} : CallStep(q)
  BY <1>1, <1>5, SameCall
<1> QED
  BY <1>5, <1>8, <1>9

\* Whatever happens of its own accord leaves the calls not yet made alone.
LEMMA StepCalls ==
  ASSUME RunnerInv, RunnerStep
  PROVE  \A q \in Request : CallStep(q) /\ (run[q].phase = "idle" => run'[q].phase = "idle")
<1>1. /\ RunnerTyped /\ WaitersDistinct /\ SubmittedOnce /\ run \in [Request -> RunRecord]
      /\ task \in [Request -> TaskRecord] /\ waiters \in Seq(Request)
      /\ toGateway \in Seq(RunnerFrame)
  BY DEF RunnerInv, RunnerTyped, ChannelInv
<1>2. "failure" \in Outcomes \ {"none", "answer"} /\ "timed_out" \in Outcomes \ {"none", "answer"}
  BY DEF Outcomes
<1>3. CASE Connect
  BY <1>3, SameCall DEF Connect
<1>4. CASE Registered
  <2> DEFINE S == {waiters[i] : i \in DOMAIN waiters}
  <2>1. S \subseteq Request /\ \A r \in S : run[r].phase = "waiting"
    BY <1>1 DEF WaitersDistinct
  <2>2. /\ run' = [r \in Request |-> IF r \in S THEN [run[r] EXCEPT !.phase = "pending"] ELSE run[r]]
        /\ UNCHANGED task
    BY <1>4 DEF Registered, StartPending
  <2> HIDE DEF S
  <2>3. ASSUME NEW q \in Request
        PROVE  CallStep(q) /\ (run[q].phase = "idle" => run'[q].phase = "idle")
    <3>1. CASE q \in S
      <4>1. /\ run'[q].phase = "pending" /\ run'[q].heard = run[q].heard
            /\ run'[q].isStreaming = run[q].isStreaming /\ run[q].phase = "waiting"
        BY <1>1, <2>1, <2>2, <3>1 DEF RunRecord
      <4> QED
        BY <2>2, <4>1 DEF CallStep
    <3>2. CASE q \notin S
      BY <2>2, <3>2, SameCall
    <3> QED
      BY <3>1, <3>2
  <2> QED
    BY <2>3
<1>5. ASSUME NEW S, \A r \in S : run[r].phase # "idle", NEW outcome \in Outcomes \ {"none", "answer"},
             run' = Settled(S, outcome),
             \A r \in Request : task'[r].state = task[r].state /\ task'[r].pieces = task[r].pieces
      PROVE  \A q \in Request : CallStep(q) /\ (run[q].phase = "idle" => run'[q].phase = "idle")
  <2>1. \A q \in Request : CallStep(q) /\ (q \notin S => run'[q] = run[q])
    BY <1>5, SettledCalls
  <2> QED
    BY <1>5, <2>1
<1>6. CASE ConnectionLost
  <2>1. \A r \in Request : task'[r].state = task[r].state /\ task'[r].pieces = task[r].pieces
    BY <1>1, <1>6 DEF ConnectionLost, TaskRecord
  <2>2. run' = Settled(Pending, "failure") /\ \A r \in Pending : run[r].phase # "idle"
    BY <1>6 DEF ConnectionLost, Pending
  <2> QED
    BY <1>2, <1>5, <2>1, <2>2
<1>7. CASE Close
  <2> DEFINE S == Pending \cup {waiters[i] : i \in DOMAIN waiters}
  <2>1. run' = Settled(S, "failure") /\ UNCHANGED task /\ \A r \in S : run[r].phase # "idle"
    BY <1>1, <1>7 DEF Close, Pending, WaitersDistinct
  <2> HIDE DEF S
  <2> QED
    BY <1>2, <1>5, <2>1
<1>8. CASE ReceiveFrame
  BY <1>8, ReceiveCalls
<1>9. CASE GatewayReadsSubmit
  <2> DEFINE r == Head(toGateway).of
  <2>1. r \in Request /\ task[r].state = "absent" /\ UNCHANGED run
    <3>1. toGateway # <<>> /\ Head(toGateway).type = "task.submit" /\ toGateway' = Tail(toGateway) /\ UNCHANGED run
      BY <1>9 DEF GatewayReadsSubmit
    <3>2. Head(toGateway) \in RunnerFrame /\ Head(toGateway) \in Queued(toGateway)
      BY <3>1, GatewayReads
    <3>3. r \in Request /\ Head(toGateway) = SubmitFrame(r)
      BY <3>1, <3>2 DEF RunnerFrame, SubmitFrame
    <3> QED
      BY <1>1, <3>1, <3>2, <3>3 DEF SubmittedOnce
  <2>2. UNCHANGED task \/ task' = [task EXCEPT ![r].state = "running", ![r].hasOwner = TRUE]
    BY <1>9 DEF GatewayReadsSubmit
  <2>3. \A q \in Request : task[q].state \in Finished => task'[q] = task[q]
    BY <1>1, <2>1, <2>2 DEF Finished
  <2> QED
    BY <2>1, <2>3, SameCall
<1>10. CASE GatewayReadsCancel
  <2>1. /\ task' = [task EXCEPT ![Head(toGateway).of].state = "cancelled"] /\ UNCHANGED run
    BY <1>10 DEF GatewayReadsCancel
  <2>2. \A q \in Request : task[q].state \in Finished =>
          task'[q].state \in Finished /\ task'[q].pieces = task[q].pieces
    BY <1>1, <2>1 DEF TaskRecord, Finished
  <2> QED
    BY <2>1, <2>2, SameCall
<1>11. ASSUME NEW r \in Request, ConnectionWaitExpires(r)
       PROVE  \A q \in Request : CallStep(q) /\ (run[q].phase = "idle" => run'[q].phase = "idle")
  <2>1. /\ run' = Settled({r}, "failure") /\ UNCHANGED task
        /\ \A q \in {r} : run[q].phase # "idle"
    BY <1>11 DEF ConnectionWaitExpires
  <2> QED
    BY <1>2, <1>5, <2>1
<1>12. ASSUME NEW r \in Request, RequestTimesOut(r)
       PROVE  \A q \in Request : CallStep(q) /\ (run[q].phase = "idle" => run'[q].phase = "idle")
  <2>1. GiveUp(r, "timed_out") /\ UNCHANGED task
    BY <1>12 DEF RequestTimesOut
  <2>2. /\ \A q \in Request : CallStep(q) /\ (q # r => run'[q] = run[q])
        /\ run'[r].phase # run[r].phase => run[r].phase = "pending"
    BY <2>1, GiveUpCalls
  <2> QED
    BY <2>2
<1>13. ASSUME NEW r \in Request, task[r].state = "running", \A q \in Request \ {r} : task'[q] = task[q], UNCHANGED run
       PROVE  \A q \in Request : CallStep(q) /\ (run[q].phase = "idle" => run'[q].phase = "idle")
  <2>1. \A q \in Request : task[q].state \in Finished => task'[q] = task[q]
    BY <1>13 DEF Finished
  <2> QED
    BY <1>13, <2>1, SameCall
<1>14. ASSUME NEW r \in Request, GatewayReportsPiece(r)
       PROVE  \A q \in Request : CallStep(q) /\ (run[q].phase = "idle" => run'[q].phase = "idle")
  <2>1. task[r].state = "running" /\ (\A q \in Request \ {r} : task'[q] = task[q]) /\ UNCHANGED run
    BY <1>1, <1>14 DEF GatewayReportsPiece
  <2> QED
    BY <1>13, <2>1
<1>15. ASSUME NEW r \in Request, NEW state \in Finished, GatewayFinishes(r, state)
       PROVE  \A q \in Request : CallStep(q) /\ (run[q].phase = "idle" => run'[q].phase = "idle")
  <2>1. task[r].state = "running" /\ (\A q \in Request \ {r} : task'[q] = task[q]) /\ UNCHANGED run
    BY <1>1, <1>15 DEF GatewayFinishes
  <2> QED
    BY <1>13, <2>1
<1> QED
  BY <1>3, <1>4, <1>6, <1>7, <1>8, <1>9, <1>10, <1>11, <1>12, <1>14, <1>15 DEF RunnerStep

-----------------------------------------------------------------------------
(* The responses *)

Outcome == {"no", "completed", "failed", "cancelled"}

\* Nothing more comes of a response that is over.
LEMMA StaysOver ==
  ASSUME NEW r \in Request, ResponseInv(r), CallStep(r),
         response[r].writableEnded \/ response[r].isClosed,
         Frozen(response[r], response'[r]), logged'[r] = logged[r]
  PROVE  ResponseInv(r)'
<1>1. CASE LeftResponse(response[r]) /\ logged[r] = "cancelled" /\ response[r].kind # "none"
  BY <1>1 DEF ResponseInv, LeftResponse, Frozen
<1>2. CASE /\ response[r].writableEnded /\ ~response[r].isClosed /\ response[r].kind # "none"
           /\ \/ logged[r] = "completed" /\ AnswersWhole(response[r], task[r])
              \/ logged[r] \in {"failed", "no"} /\ AnswersFailure(response[r])
  <2>1. AnswersWhole(response[r], task[r]) => AnswersWhole(response'[r], task'[r])
    BY DEF AnswersWhole, CallStep, Frozen
  <2>2. AnswersFailure(response[r]) => AnswersFailure(response'[r])
    BY DEF AnswersFailure, Frozen
  <2>3. response'[r].writableEnded /\ ~response'[r].isClosed /\ response'[r].kind # "none"
    BY <1>2 DEF Frozen
  <2> QED
    BY <1>2, <2>1, <2>2, <2>3 DEF ResponseInv
<1> QED
  BY <1>1, <1>2 DEF ResponseInv, OpenResponse

\* The call behind an open response is settled.
LEMMA IsAnswered ==
  ASSUME NEW r \in Request, NEW p \in ResponseRecord, p.kind # "none",
         run[r].heard \in Nat, OpenResponse(p, run[r].heard), logged[r] = "no",
         NEW isStreaming \in BOOLEAN, run[r].heard # 0 => isStreaming,
         CallStep(r), run[r].phase # "settled", run'[r].phase = "settled",
         response'[r] = Answered(p, isStreaming, run'[r].outcome),
         logged'[r] = OutcomeLogged(r, p, response'[r], run'[r].outcome)
  PROVE  ResponseInv(r)' /\ response'[r] \in ResponseRecord /\ logged'[r] \in Outcome
<1> DEFINE q == response'[r]
           o == run'[r].outcome
           n == run[r].heard
<1>1. /\ o \in Outcomes \ {"none"} /\ run'[r].heard = n
      /\ o = "answer" => task'[r].state \in Finished /\ task'[r].pieces = n
  BY DEF CallStep
<1>2. /\ q \in ResponseRecord /\ q.kind = p.kind /\ q.writableEnded /\ ~q.isClosed
      /\ IF o = "answer"
         THEN q.written = <<"json">> \/ (EndsWith(q.written, Finish) /\ q.text = WholeText(n))
         ELSE AnswersFailure(q)
  BY <1>1, AnswersOpen
<1>3. logged'[r] = IF o = "answer" THEN "completed" ELSE "failed"
  BY <1>2 DEF OutcomeLogged, OpenResponse
<1>4. logged'[r] \in Outcome
  BY <1>3 DEF Outcome
<1>5. CASE o = "answer"
  <2>1. AnswersWhole(q, task'[r]) /\ logged'[r] = "completed"
    BY <1>1, <1>2, <1>3, <1>5 DEF AnswersWhole
  <2> QED
    BY <1>2, <1>4, <2>1 DEF ResponseInv
<1>6. CASE o # "answer"
  <2>1. AnswersFailure(q) /\ logged'[r] = "failed"
    BY <1>2, <1>3, <1>6
  <2> QED
    BY <1>2, <1>4, <2>1 DEF ResponseInv
<1> QED
  BY <1>5, <1>6

\* What is logged when a response changes is logged as it ends.
LEMMA LoggedOnce ==
  ASSUME NEW r, NEW p, NEW q, NEW outcome, p.writableEnded \/ p.isClosed \/ ~q.writableEnded
  PROVE  OutcomeLogged(r, p, q, outcome) = logged[r]
BY DEF OutcomeLogged

(* One step of the route's call, with what it writes and logs, keeps the response right. *)
LEMMA RespondKeeps ==
  ASSUME RunnerInv, ResponsesInv, NEW r \in Request, CallStep(r),
         run[r].phase = "idle" => run'[r].phase = "idle",
         response'[r] = RespondTo(r),
         logged'[r] = OutcomeLogged(r, response[r], RespondTo(r), run'[r].outcome)
  PROVE  ResponseInv(r)' /\ response'[r] \in ResponseRecord /\ logged'[r] \in Outcome
<1> DEFINE p == response[r]
           n == run[r].heard
<1>1. /\ p \in ResponseRecord /\ ResponseInv(r) /\ logged[r] \in Outcome
      /\ n \in Nat /\ run[r].isStreaming \in BOOLEAN /\ (n # 0 => run[r].isStreaming)
  <2>1. run[r] \in RunRecord
    BY DEF RunnerInv, RunnerTyped
  <2> QED
    BY <2>1 DEF ResponsesInv, Outcome, RunRecord
<1>2. CASE run'[r].heard = n /\ (run'[r].phase = "settled" => run[r].phase = "settled")
  <2>1. RespondTo(r) = p
    BY <1>1, <1>2 DEF RespondTo
  <2>2. logged'[r] = logged[r]
    BY <2>1 DEF OutcomeLogged
  <2>3. CASE p.writableEnded \/ p.isClosed
    <3>1. Frozen(p, response'[r])
      BY <1>1, <2>1 DEF Frozen
    <3> QED
      BY <1>1, <2>1, <2>2, <2>3, <3>1, StaysOver
  <2>4. CASE ~p.writableEnded /\ ~p.isClosed
    BY <1>1, <1>2, <2>1, <2>2, <2>4 DEF ResponseInv, OpenResponse, LeftResponse
  <2> QED
    BY <2>3, <2>4
<1>3. CASE /\ run'[r].heard = n + 1 /\ run[r].phase = "pending" /\ run'[r].phase = "pending"
  <2>1. RespondTo(r) = WritePiece(p, n + 1)
    BY <1>1, <1>3 DEF RespondTo
  <2>2. CASE p.writableEnded \/ p.isClosed
    <3>1. Frozen(p, WritePiece(p, n + 1))
      BY <1>1, <2>2, WritesNothing DEF WritePiece
    <3>2. logged'[r] = logged[r]
      BY <2>2, LoggedOnce
    <3> QED
      BY <1>1, <2>1, <2>2, <3>1, <3>2, StaysOver DEF Frozen
  <2>3. CASE ~p.writableEnded /\ ~p.isClosed
    <3>1. OpenResponse(p, n) /\ logged[r] = "no" /\ p.kind # "none"
      BY <1>1, <1>3, <2>3 DEF ResponseInv, LeftResponse
    <3> DEFINE q == WritePiece(p, n + 1)
    <3>2. q \in ResponseRecord /\ OpenResponse(q, n + 1) /\ q.kind = p.kind
      BY <1>1, <3>1, PieceKeepsOpen
    <3> HIDE DEF q
    <3>3. response'[r] = q
      BY <2>1 DEF q
    <3>4. logged'[r] = logged[r]
      BY <2>1, <3>2, <3>3, LoggedOnce DEF OpenResponse
    <3> QED
      BY <1>1, <1>3, <3>1, <3>2, <3>3, <3>4 DEF ResponseInv
  <2> QED
    BY <2>2, <2>3
<1>4. CASE run'[r].heard = n /\ run[r].phase # "settled" /\ run'[r].phase = "settled"
  <2>1. RespondTo(r) = Answered(p, run[r].isStreaming, run'[r].outcome)
    BY <1>1, <1>4 DEF RespondTo
  <2>2. CASE p.writableEnded \/ p.isClosed
    <3>1. Frozen(p, response'[r])
      BY <1>1, <2>1, <2>2, AnswersNothing
    <3>2. logged'[r] = logged[r]
      BY <2>2, LoggedOnce
    <3> QED
      BY <1>1, <2>2, <3>1, <3>2, StaysOver DEF Frozen
  <2>3. CASE ~p.writableEnded /\ ~p.isClosed
    <3>1. OpenResponse(p, n) /\ logged[r] = "no" /\ p.kind # "none"
      BY <1>1, <1>4, <2>3 DEF ResponseInv, LeftResponse
    <3> QED
      BY <1>1, <1>4, <2>1, <3>1, IsAnswered
  <2> QED
    BY <2>2, <2>3
<1> QED
  BY <1>2, <1>3, <1>4 DEF CallStep

\* A request a step has nothing to do with.
LEMMA StaysAside ==
  ASSUME ResponsesInv, NEW r \in Request, CallStep(r), run'[r] = run[r],
         response'[r] = response[r], logged'[r] = logged[r]
  PROVE  ResponseInv(r)' /\ response'[r] \in ResponseRecord /\ logged'[r] \in Outcome
<1>1. response[r] \in ResponseRecord /\ ResponseInv(r) /\ logged[r] \in Outcome
  BY DEF ResponsesInv, Outcome
<1>2. CASE response[r].writableEnded \/ response[r].isClosed
  <2>1. Frozen(response[r], response'[r])
    BY <1>1 DEF Frozen
  <2> QED
    BY <1>1, <1>2, <2>1, StaysOver
<1>3. CASE ~response[r].writableEnded /\ ~response[r].isClosed
  BY <1>1, <1>3 DEF ResponseInv, OpenResponse, LeftResponse
<1> QED
  BY <1>2, <1>3

\* A request that is refused before run() is called.
LEMMA RefusalAnswers ==
  ASSUME RunnerInv, ResponsesInv, NEW r \in Request, NEW kind \in Kinds, response[r].kind = "none",
         response' = [response EXCEPT ![r] = SendFailure([@ EXCEPT !.kind = kind])],
         UNCHANGED runnerVars, \A q \in Request \ {r} : logged'[q] = logged[q],
         logged'[r] \in {"no", "failed"}
  PROVE  \A q \in Request : ResponseInv(q)' /\ response'[q] \in ResponseRecord /\ logged'[q] \in Outcome
<1> DEFINE p == response[r]
           e == [p EXCEPT !.kind = kind]
           w == <<"failure">>
           q == End(e, w)
<1>1. /\ p \in ResponseRecord /\ response \in [Request -> ResponseRecord] /\ ResponseInv(r)
      /\ run[r] \in RunRecord /\ UnknownUntilSubmitted
  BY DEF RunnerInv, RunnerTyped, ChannelInv, ResponsesInv
<1>2. OpenResponse(p, run[r].heard) /\ run[r].phase = "idle"
  BY <1>1 DEF ResponseInv
<1>3. run[r].heard = 0
  BY <1>1, <1>2 DEF UnknownUntilSubmitted
<1>4. /\ e \in ResponseRecord /\ e.kind = kind /\ ~e.writableEnded /\ ~e.isClosed /\ e.written = <<>>
  BY <1>1, <1>2, <1>3 DEF OpenResponse, ResponseRecord
<1>5. w \in Seq(Chunk)
  BY DEF Chunk
<1>6. <<>> \o w = w
  BY <1>5, ConcatEmptySeq
<1>7. response' = [response EXCEPT ![r] = q]
  BY <1>1 DEF SendFailure
<1> HIDE DEF e
<1>8. /\ q \in ResponseRecord /\ q.kind = kind /\ q.writableEnded /\ ~q.isClosed /\ q.written = w
  <2>1. /\ q \in ResponseRecord /\ q.kind = e.kind /\ q.writableEnded /\ ~q.isClosed
        /\ q.written = e.written \o w
    BY <1>4, <1>5, EndsOpen
  <2> QED
    BY <1>4, <1>6, <2>1
<1> HIDE DEF q
<1>9. /\ response'[r] = q /\ \A x \in Request \ {r} : response'[x] = response[x]
  BY <1>1, <1>7
<1>10. kind # "none"
  BY DEF Kinds
<1>11. ResponseInv(r)'
  <2>1. AnswersFailure(q)
    BY <1>8 DEF AnswersFailure
  <2> QED
    BY <1>8, <1>9, <1>10, <2>1 DEF ResponseInv
<1>12. ASSUME NEW x \in Request, x # r
       PROVE  ResponseInv(x)' /\ response'[x] \in ResponseRecord /\ logged'[x] \in Outcome
  <2>1. run'[x] = run[x] /\ task'[x] = task[x]
    BY DEF runnerVars
  <2>2. CallStep(x)
    BY <2>1, SameCall
  <2> QED
    BY <1>9, <1>12, <2>1, <2>2, StaysAside
<1> QED
  BY <1>8, <1>9, <1>11, <1>12 DEF Outcome

\* The caller goes.
LEMMA HangingUpLeaves ==
  ASSUME RunnerInv, ResponsesInv, NEW r \in Request, CallerHangsUp(r)
  PROVE  \A q \in Request : ResponseInv(q)' /\ response'[q] \in ResponseRecord /\ logged'[q] \in Outcome
<1> DEFINE p == response[r]
           gone == [p EXCEPT !.isClosed = TRUE]
<1>1. /\ p \in ResponseRecord /\ response \in [Request -> ResponseRecord] /\ ResponseInv(r)
      /\ logged \in [Request -> Outcome]
  BY DEF ResponsesInv, Outcome
<1>2. /\ p.kind # "none" /\ ~p.writableEnded /\ ~p.isClosed /\ Abort(r)
      /\ logged' = [logged EXCEPT ![r] = "cancelled"]
  BY DEF CallerHangsUp
<1>3. OpenResponse(p, run[r].heard)
  BY <1>1, <1>2 DEF ResponseInv, LeftResponse
<1>4. /\ gone \in ResponseRecord /\ gone.kind # "none" /\ gone.isClosed
      /\ Told(gone.written, Len(gone.written))
  BY <1>1, <1>2, <1>3 DEF OpenResponse, ResponseRecord
<1>5. PICK q : /\ q = gone \/ q = Answered(gone, run[r].isStreaming, run'[r].outcome)
               /\ response' = [response EXCEPT ![r] = q]
  BY DEF CallerHangsUp
<1> HIDE DEF gone
<1>6. Frozen(gone, q)
  <2>1. CASE q = gone
    BY <1>4, <2>1 DEF Frozen
  <2>2. CASE q = Answered(gone, run[r].isStreaming, run'[r].outcome)
    <3>1. Frozen(gone, Answered(gone, run[r].isStreaming, run'[r].outcome))
      BY <1>4, AnswersNothing
    <3> QED
      BY <2>2, <3>1
  <2> QED
    BY <1>5, <2>1, <2>2
<1>7. /\ response'[r] = q /\ logged'[r] = "cancelled"
      /\ \A x \in Request \ {r} : response'[x] = response[x] /\ logged'[x] = logged[x]
  BY <1>1, <1>2, <1>5
<1>8. ResponseInv(r)'
  BY <1>4, <1>6, <1>7 DEF ResponseInv, LeftResponse, Frozen
<1>9. \A x \in Request : CallStep(x) /\ (x # r => run'[x] = run[x])
  <2>1. GiveUp(r, "failure") /\ UNCHANGED task
    BY <1>2 DEF Abort
  <2> QED
    BY <2>1, GiveUpCalls
<1>10. \A x \in Request \ {r} : ResponseInv(x)' /\ response'[x] \in ResponseRecord /\ logged'[x] \in Outcome
  BY <1>7, <1>9, StaysAside
<1> QED
  BY <1>6, <1>7, <1>8, <1>10 DEF Frozen, Outcome

\* A request is handed to run().
LEMMA HandlingOpens ==
  ASSUME RunnerInv, ResponsesInv, NEW r \in Request, NEW isStreaming \in BOOLEAN, Handle(r, isStreaming)
  PROVE  \A q \in Request : ResponseInv(q)' /\ response'[q] \in ResponseRecord /\ logged'[q] \in Outcome
<1> DEFINE p == response[r]
           received == [p EXCEPT !.kind = "chat"]
           after == IF run'[r].phase = "settled"
                    THEN Answered(received, isStreaming, run'[r].outcome) ELSE received
<1>1. /\ p \in ResponseRecord /\ response \in [Request -> ResponseRecord] /\ ResponseInv(r)
      /\ logged \in [Request -> Outcome]
      /\ run[r] \in RunRecord /\ UnknownUntilSubmitted
  BY DEF RunnerInv, RunnerTyped, ChannelInv, ResponsesInv, Outcome
<1>2. /\ p.kind = "none" /\ Run(r, isStreaming)
      /\ response' = [response EXCEPT ![r] = after]
      /\ logged' = [logged EXCEPT ![r] = OutcomeLogged(r, received, after, run'[r].outcome)]
  BY DEF Handle
<1>3. OpenResponse(p, run[r].heard) /\ run[r].phase = "idle" /\ logged[r] = "no"
  BY <1>1, <1>2 DEF ResponseInv
<1>4. run[r].heard = 0
  BY <1>1, <1>3 DEF UnknownUntilSubmitted
<1>5. /\ received \in ResponseRecord /\ received.kind = "chat" /\ OpenResponse(received, 0)
  <2>1. /\ received \in ResponseRecord /\ received.kind = "chat" /\ received.written = p.written
        /\ received.text = p.text /\ received.isStarted = p.isStarted
        /\ received.writableEnded = p.writableEnded /\ received.isClosed = p.isClosed
    BY <1>1 DEF ResponseRecord, Kinds
  <2> HIDE DEF received, p
  <2> QED
    BY <1>3, <1>4, <2>1 DEF OpenResponse
<1>6. /\ \A q \in Request : CallStep(q)
      /\ \A q \in Request \ {r} : run'[q] = run[q]
      /\ run'[r].heard = 0
  BY <1>2, <1>4, RunCalls
<1> HIDE DEF received
<1>7. CASE run'[r].phase = "settled"
  <2> DEFINE q == Answered(received, isStreaming, run'[r].outcome)
  <2>1. after = q
    BY <1>7
  <2> HIDE DEF q, after
  <2>2. /\ response'[r] = q /\ logged'[r] = OutcomeLogged(r, received, q, run'[r].outcome)
        /\ \A x \in Request \ {r} : response'[x] = response[x] /\ logged'[x] = logged[x]
    BY <1>1, <1>2, <2>1
  <2>3. ResponseInv(r)' /\ response'[r] \in ResponseRecord /\ logged'[r] \in Outcome
    BY <1>3, <1>4, <1>5, <1>6, <1>7, <2>2, IsAnswered DEF q
  <2>4. \A x \in Request \ {r} : ResponseInv(x)' /\ response'[x] \in ResponseRecord /\ logged'[x] \in Outcome
    BY <1>6, <2>2, StaysAside
  <2> QED
    BY <2>3, <2>4
<1>8. CASE run'[r].phase # "settled"
  <2>1. after = received
    BY <1>8
  <2> HIDE DEF after
  <2>2. /\ response'[r] = received /\ logged'[r] = OutcomeLogged(r, received, received, run'[r].outcome)
        /\ \A x \in Request \ {r} : response'[x] = response[x] /\ logged'[x] = logged[x]
    BY <1>1, <1>2, <2>1
  <2>3. logged'[r] = "no"
    BY <1>3, <1>5, <2>2, LoggedOnce DEF OpenResponse
  <2>4. ResponseInv(r)'
    BY <1>5, <1>6, <1>8, <2>2, <2>3 DEF ResponseInv
  <2>5. \A x \in Request \ {r} : ResponseInv(x)' /\ response'[x] \in ResponseRecord /\ logged'[x] \in Outcome
    BY <1>6, <2>2, StaysAside
  <2> QED
    BY <1>5, <2>2, <2>3, <2>4, <2>5 DEF Outcome
<1> QED
  BY <1>7, <1>8

\* Every step leaves every response as it should be.
LEMMA NextResponses ==
  RunnerInv /\ ResponsesInv /\ [Next]_vars => ResponsesInv'
<1> SUFFICES ASSUME RunnerInv, ResponsesInv, [Next]_vars
             PROVE  ResponsesInv'
  OBVIOUS
<1>1. /\ response \in [Request -> ResponseRecord] /\ logged \in [Request -> Outcome]
      /\ \A r \in Request : run[r].heard # 0 => run[r].isStreaming
      /\ \A r \in Request : run[r] \in RunRecord
  BY DEF ResponsesInv, RunnerInv, RunnerTyped, Outcome
<1> DEFINE Kept == \A q \in Request : ResponseInv(q)' /\ response'[q] \in ResponseRecord /\ logged'[q] \in Outcome
           Called == \A q \in Request : CallStep(q)
           Shaped == response' = [q \in Request |-> response'[q]] /\ logged' = [q \in Request |-> logged'[q]]
<1>2. ASSUME RunnerStep, Respond
      PROVE  Kept /\ Called /\ Shaped
  <2>1. \A q \in Request : CallStep(q) /\ (run[q].phase = "idle" => run'[q].phase = "idle")
    BY <1>2, StepCalls
  <2>2. \A q \in Request :
          /\ response'[q] = RespondTo(q)
          /\ logged'[q] = OutcomeLogged(q, response[q], RespondTo(q), run'[q].outcome)
    BY <1>2 DEF Respond
  <2>3. Kept
    BY <2>1, <2>2, RespondKeeps
  <2>4. Shaped
    BY <1>2 DEF Respond
  <2> QED
    BY <2>1, <2>3, <2>4
<1>3. ASSUME NEW r \in Request, RefuseUnreadable(r) \/ Reject(r)
      PROVE  Kept /\ Called /\ Shaped
  <2>1. PICK kind \in Kinds : response' = [response EXCEPT ![r] = SendFailure([@ EXCEPT !.kind = kind])]
    BY <1>3 DEF RefuseUnreadable, Reject, Kinds
  <2>2. /\ response[r].kind = "none" /\ UNCHANGED runnerVars
        /\ UNCHANGED logged \/ logged' = [logged EXCEPT ![r] = "failed"]
    BY <1>3 DEF RefuseUnreadable, Reject
  <2>3. logged[r] = "no"
    BY <2>2 DEF ResponsesInv, ResponseInv
  <2>4. /\ \A q \in Request \ {r} : logged'[q] = logged[q]
        /\ logged'[r] \in {"no", "failed"} /\ logged' = [q \in Request |-> logged'[q]]
    BY <1>1, <2>2, <2>3
  <2>5. Kept
    BY <2>1, <2>2, <2>4, RefusalAnswers
  <2>6. Called
    BY <2>2, SameCall DEF runnerVars
  <2>7. Shaped
    BY <1>1, <2>1, <2>4
  <2> QED
    BY <2>5, <2>6, <2>7
<1>4. ASSUME NEW r \in Request, CallerHangsUp(r)
      PROVE  Kept /\ Called /\ Shaped
  <2>1. Kept
    BY <1>4, HangingUpLeaves
  <2>2. Called
    <3>1. GiveUp(r, "failure") /\ UNCHANGED task
      BY <1>4 DEF CallerHangsUp, Abort
    <3> QED
      BY <3>1, GiveUpCalls
  <2>3. Shaped
    BY <1>1, <1>4 DEF CallerHangsUp
  <2> QED
    BY <2>1, <2>2, <2>3
<1>5. ASSUME NEW r \in Request, NEW isStreaming \in BOOLEAN, Handle(r, isStreaming)
      PROVE  Kept /\ Called /\ Shaped
  <2>1. Kept
    BY <1>5, HandlingOpens
  <2>2. Called
    BY <1>5, RunCalls DEF Handle
  <2>3. Shaped
    BY <1>1, <1>5 DEF Handle
  <2> QED
    BY <2>1, <2>2, <2>3
<1>6. ASSUME UNCHANGED vars
      PROVE  Kept /\ Called /\ Shaped
  <2>1. /\ \A q \in Request : run'[q] = run[q] /\ task'[q] = task[q]
        /\ UNCHANGED <<response, logged>>
    BY <1>6 DEF vars, runnerVars
  <2>2. Called
    BY <2>1, SameCall
  <2>3. Kept
    BY <2>1, <2>2, StaysAside
  <2> QED
    BY <1>1, <2>1, <2>2, <2>3
<1> HIDE DEF Kept, Called, Shaped
<1>7. Kept /\ Called /\ Shaped
  BY <1>2, <1>3, <1>4, <1>5, <1>6 DEF Next
<1> USE DEF Kept, Called, Shaped
<1>8. \A q \in Request : run'[q].heard # 0 => run'[q].isStreaming
  BY <1>1, <1>7 DEF CallStep, RunRecord
<1> QED
  BY <1>7, <1>8 DEF ResponsesInv, Outcome

\* Nothing is written before anything is asked.
LEMMA InitResponses ==
  RoutesInit => ResponsesInv
<1> SUFFICES ASSUME RoutesInit
             PROVE  ResponsesInv
  OBVIOUS
<1>1. Counted(0) = <<>>
  BY CountedMore
<1>2. /\ response \in [Request -> ResponseRecord]
      /\ logged \in [Request -> {"no", "completed", "failed", "cancelled"}]
  BY DEF RoutesInit, ResponseRecord
<1>3. ASSUME NEW r \in Request
      PROVE  ResponseInv(r) /\ (run[r].heard # 0 => run[r].isStreaming)
  <2>1. /\ run[r].phase = "idle" /\ run[r].heard = 0 /\ logged[r] = "no"
        /\ response[r] = [kind |-> "none", written |-> <<>>, text |-> <<>>,
                          isStarted |-> FALSE, writableEnded |-> FALSE, isClosed |-> FALSE]
    BY DEF RoutesInit, RunnerInit
  <2>2. OpenResponse(response[r], 0)
    BY <1>1, <2>1 DEF OpenResponse, Told
  <2> QED
    BY <2>1, <2>2 DEF ResponseInv
<1> QED
  BY <1>2, <1>3 DEF ResponsesInv

\* The responses are what the calls behind them have heard and been answered,
\* in every reachable state.
THEOREM ResponsesInductive ==
  Spec => []ResponsesInv
<1>1. RoutesInit => ResponsesInv
  BY InitResponses
<1>2. RunnerInv /\ ResponsesInv /\ [Next]_vars => ResponsesInv'
  BY NextResponses
<1> QED
  BY <1>1, <1>2, RunnerInductive, PTL DEF Spec

\* The three ends a stream may have, place by place.
LEMMA EndPlaces ==
  ASSUME NEW w \in Seq(Chunk), NEW tail \in {Finish, <<"error", "[DONE]">>}, EndsWith(w, tail)
  PROVE  \E n \in Nat \ {0} :
           /\ Told(w, n)
           /\ \/ /\ tail = Finish /\ Len(w) = n + 3
                 /\ w[n + 1] = "finish" /\ w[n + 2] = "usage" /\ w[n + 3] = "[DONE]"
              \/ /\ tail = Finish /\ Len(w) = n + 2 /\ w[n + 1] = "finish" /\ w[n + 2] = "[DONE]"
              \/ /\ tail # Finish /\ Len(w) = n + 2 /\ w[n + 1] = "error" /\ w[n + 2] = "[DONE]"
<1>1. PICK n \in 1..Len(w) : /\ Len(w) = n + Len(tail) /\ Told(w, n)
                             /\ \A i \in 1..Len(tail) : w[n + i] = tail[i]
  BY DEF EndsWith
<1>2. n \in Nat \ {0}
  BY <1>1
<1>3. CASE tail = Finish /\ Len(Finish) = 3
  BY <1>1, <1>2, <1>3, FinishChunks
<1>4. CASE tail = Finish /\ Len(Finish) = 2
  BY <1>1, <1>2, <1>4, FinishChunks
<1>5. CASE tail # Finish
  <2>1. tail = <<"error", "[DONE]">>
    BY <1>5
  <2>2. Len(tail) = 2 /\ tail[1] = "error" /\ tail[2] = "[DONE]"
    BY <2>1
  <2> QED
    BY <1>1, <1>2, <1>5, <2>2
<1> QED
  BY <1>3, <1>4, <1>5, FinishChunks

\* What was told so far is a stream that has not ended.
LEMMA ToldIsStream ==
  ASSUME NEW w \in Seq(Chunk), Told(w, Len(w))
  PROVE  IsStream(w) /\ \A i \in DOMAIN w : w[i] \in {"role", "text"}
<1>1. Len(w) \in Nat /\ DOMAIN w = 1..Len(w)
  OBVIOUS
<1>2. \A i \in DOMAIN w : w[i] = IF i = 1 THEN "role" ELSE "text"
  BY <1>1 DEF Told
<1>3. \A i \in DOMAIN w : w[i] = "text" => i - 1 \in DOMAIN w
  BY <1>1, <1>2
<1>4. w # <<>> => 1 \in DOMAIN w
  BY <1>1
<1> QED
  BY <1>1, <1>2, <1>3, <1>4 DEF IsStream

\* A stream that ended is well formed, ends in [DONE], and says `finish` or `error`.
LEMMA EndedIsStream ==
  ASSUME NEW w \in Seq(Chunk), NEW tail \in {Finish, <<"error", "[DONE]">>}, EndsWith(w, tail)
  PROVE  /\ IsStream(w) /\ w[Len(w)] = "[DONE]"
         /\ (\E i \in DOMAIN w : w[i] = "finish") <=> tail = Finish
         /\ (\E i \in DOMAIN w : w[i] = "error") <=> tail # Finish
<1>1. PICK n \in Nat \ {0} :
           /\ Told(w, n)
           /\ \/ /\ tail = Finish /\ Len(w) = n + 3
                 /\ w[n + 1] = "finish" /\ w[n + 2] = "usage" /\ w[n + 3] = "[DONE]"
              \/ /\ tail = Finish /\ Len(w) = n + 2 /\ w[n + 1] = "finish" /\ w[n + 2] = "[DONE]"
              \/ /\ tail # Finish /\ Len(w) = n + 2 /\ w[n + 1] = "error" /\ w[n + 2] = "[DONE]"
  BY EndPlaces
<1>2. DOMAIN w = 1..Len(w)
  OBVIOUS
<1>3. \A i \in 1..n : w[i] = IF i = 1 THEN "role" ELSE "text"
  BY <1>1 DEF Told
<1> HIDE DEF Finish
<1>4. CASE /\ tail = Finish /\ Len(w) = n + 3
           /\ w[n + 1] = "finish" /\ w[n + 2] = "usage" /\ w[n + 3] = "[DONE]"
  <2>1. /\ DOMAIN w = 1..(n + 3) /\ n + 1 \in DOMAIN w /\ n + 2 \in DOMAIN w /\ n + 3 \in DOMAIN w
        /\ \A i \in DOMAIN w : i \in 1..n \/ i = n + 1 \/ i = n + 2 \/ i = n + 3
    BY <1>1, <1>2, <1>4
  <2>2. \A i \in DOMAIN w : w[i] = IF i = 1 THEN "role" ELSE IF i \leq n THEN "text"
                                   ELSE IF i = n + 1 THEN "finish" ELSE IF i = n + 2 THEN "usage" ELSE "[DONE]"
    BY <1>1, <1>3, <1>4, <2>1
  <2>3. IsStream(w)
    <3>1. w # <<>> => w[1] = "role"
      BY <1>1, <2>1, <2>2
    <3>2. \A i, j \in DOMAIN w : w[i] = w[j] /\ w[i] # "text" => i = j
      BY <1>1, <2>1, <2>2
    <3>3. ASSUME NEW i \in DOMAIN w
          PROVE  /\ w[i] \notin {"json", "failure"}
                 /\ w[i] = "text"   => w[i - 1] \in {"role", "text"}
                 /\ w[i] = "[DONE]" => i = Len(w) /\ w[i - 1] \in {"finish", "usage", "error"}
                 /\ w[i] = "usage"  => w[i - 1] = "finish"
                 /\ w[i] \in {"finish", "error"} => w[i - 1] \notin {"finish", "error", "usage"}
      <4>1. i # 1 => i - 1 \in DOMAIN w
        BY <1>1, <2>1
      <4> QED
        BY <1>1, <1>4, <2>1, <2>2, <4>1
    <3> QED
      BY <3>1, <3>2, <3>3 DEF IsStream
  <2> QED
    BY <1>1, <1>4, <2>1, <2>2, <2>3
<1>5. CASE /\ Len(w) = n + 2 /\ w[n + 2] = "[DONE]"
           /\ \/ tail = Finish /\ w[n + 1] = "finish"
              \/ tail # Finish /\ w[n + 1] = "error"
  <2> DEFINE last == w[n + 1]
  <2>1. /\ DOMAIN w = 1..(n + 2) /\ n + 1 \in DOMAIN w /\ n + 2 \in DOMAIN w
        /\ \A i \in DOMAIN w : i \in 1..n \/ i = n + 1 \/ i = n + 2
    BY <1>1, <1>2, <1>5
  <2>2. last \in {"finish", "error"} /\ (last = "finish" <=> tail = Finish)
    BY <1>5
  <2>3. \A i \in DOMAIN w : w[i] = IF i = 1 THEN "role" ELSE IF i \leq n THEN "text"
                                   ELSE IF i = n + 1 THEN last ELSE "[DONE]"
    BY <1>1, <1>3, <1>5, <2>1
  <2> HIDE DEF last
  <2>4. IsStream(w)
    <3>1. w # <<>> => w[1] = "role"
      BY <1>1, <2>1, <2>3
    <3>2. \A i, j \in DOMAIN w : w[i] = w[j] /\ w[i] # "text" => i = j
      BY <1>1, <2>1, <2>2, <2>3
    <3>3. ASSUME NEW i \in DOMAIN w
          PROVE  /\ w[i] \notin {"json", "failure"}
                 /\ w[i] = "text"   => w[i - 1] \in {"role", "text"}
                 /\ w[i] = "[DONE]" => i = Len(w) /\ w[i - 1] \in {"finish", "usage", "error"}
                 /\ w[i] = "usage"  => w[i - 1] = "finish"
                 /\ w[i] \in {"finish", "error"} => w[i - 1] \notin {"finish", "error", "usage"}
      <4>1. i # 1 => i - 1 \in DOMAIN w
        BY <1>1, <2>1
      <4> QED
        BY <1>1, <1>5, <2>1, <2>2, <2>3, <4>1
    <3> QED
      BY <3>1, <3>2, <3>3 DEF IsStream
  <2> QED
    BY <1>1, <1>5, <2>1, <2>2, <2>3, <2>4
<1> QED
  BY <1>1, <1>4, <1>5

\* What a response may look like, whatever became of its request.
LEMMA ResponseShapes ==
  ASSUME ResponsesInv, NEW r \in Request
  PROVE  LET p == response[r] IN
         /\ p.written \in Seq(Chunk)
         /\ \/ /\ Told(p.written, Len(p.written)) /\ (~p.writableEnded \/ p.isClosed)
               /\ logged[r] \in {"no", "cancelled"}
            \/ AnswersWhole(p, task[r]) /\ logged[r] = "completed"
            \/ AnswersFailure(p) /\ logged[r] \in {"failed", "no"}
<1>1. response[r] \in ResponseRecord /\ ResponseInv(r)
  BY DEF ResponsesInv
<1> QED
  BY <1>1 DEF ResponseInv, OpenResponse, LeftResponse, ResponseRecord

\* A response is a stream from its role to its [DONE], or one JSON body
\* (WellFormedResponse).
THEOREM ResponsesAreWellFormed ==
  Spec => []WellFormedResponse
<1>1. ASSUME ResponsesInv, NEW r \in Request
      PROVE  LET w == response[r].written
             IN \/ IsStream(w) /\ (response[r].writableEnded /\ ~response[r].isClosed => w[Len(w)] = "[DONE]")
                \/ w \in {<<"json">>, <<"failure">>}
  <2> DEFINE w == response[r].written
  <2>1. /\ w \in Seq(Chunk)
        /\ \/ Told(w, Len(w)) /\ (~response[r].writableEnded \/ response[r].isClosed)
           \/ AnswersWhole(response[r], task[r])
           \/ AnswersFailure(response[r])
    BY <1>1, ResponseShapes
  <2>2. CASE Told(w, Len(w)) /\ (~response[r].writableEnded \/ response[r].isClosed)
    BY <2>1, <2>2, ToldIsStream
  <2>3. CASE EndsWith(w, Finish) \/ EndsWith(w, <<"error", "[DONE]">>)
    BY <2>1, <2>3, EndedIsStream
  <2> QED
    BY <2>1, <2>2, <2>3 DEF AnswersWhole, AnswersFailure
<1>2. ResponsesInv => WellFormedResponse
  BY <1>1 DEF WellFormedResponse
<1> QED
  BY <1>2, ResponsesInductive, PTL

\* A stream that says it finished carried the whole answer, once and in order
\* (FinishedStreamIsTheAnswer).
THEOREM FinishedMeansWhole ==
  Spec => []FinishedStreamIsTheAnswer
<1>1. ASSUME ResponsesInv, NEW r \in Request,
             \E i \in DOMAIN response[r].written : response[r].written[i] = "finish"
      PROVE  response[r].text = WholeText(task[r].pieces)
  <2> DEFINE w == response[r].written
  <2>1. /\ w \in Seq(Chunk)
        /\ Told(w, Len(w)) \/ AnswersWhole(response[r], task[r]) \/ AnswersFailure(response[r])
    BY <1>1, ResponseShapes
  <2>2. ~Told(w, Len(w))
    BY <1>1, <2>1, ToldIsStream
  <2>3. w # <<"json">> /\ w # <<"failure">>
    <3>1. /\ DOMAIN <<"json">> = {1} /\ <<"json">>[1] = "json"
          /\ DOMAIN <<"failure">> = {1} /\ <<"failure">>[1] = "failure"
      OBVIOUS
    <3> QED
      BY <1>1, <3>1
  <2>4. ~EndsWith(w, <<"error", "[DONE]">>)
    <3>1. Finish # <<"error", "[DONE]">>
      BY FinishChunks
    <3> QED
      BY <1>1, <2>1, <3>1, EndedIsStream
  <2> QED
    BY <2>1, <2>2, <2>3, <2>4 DEF AnswersWhole, AnswersFailure
<1>2. ResponsesInv => FinishedStreamIsTheAnswer
  BY <1>1 DEF FinishedStreamIsTheAnswer, WholeText, Counted
<1> QED
  BY <1>2, ResponsesInductive, PTL

\* The transaction log tells what the caller was sent (LogTellsTheExchange).
THEOREM LogIsTrue ==
  Spec => []LogTellsTheExchange
<1>1. ASSUME ResponsesInv, NEW r \in Request
      PROVE  LET w == response[r].written
                 Has(c) == \E i \in DOMAIN w : w[i] = c
             IN /\ logged[r] = "completed" => Has("json") \/ Has("finish")
                /\ logged[r] = "failed"    => Has("failure") \/ Has("error")
                /\ logged[r] = "cancelled" => ~Has("[DONE]") /\ ~Has("json") /\ ~Has("failure")
  <2> DEFINE w == response[r].written
             Has(c) == \E i \in DOMAIN w : w[i] = c
  <2>1. /\ w \in Seq(Chunk)
        /\ logged[r] = "completed" => AnswersWhole(response[r], task[r])
        /\ logged[r] = "failed"    => AnswersFailure(response[r])
        /\ logged[r] = "cancelled" => Told(w, Len(w))
    BY <1>1, ResponseShapes
  <2>2. /\ w = <<"json">> => Has("json")
        /\ w = <<"failure">> => Has("failure")
    <3>1. /\ 1 \in DOMAIN <<"json">> /\ <<"json">>[1] = "json"
          /\ 1 \in DOMAIN <<"failure">> /\ <<"failure">>[1] = "failure"
      OBVIOUS
    <3> QED
      BY <3>1
  <2>3. EndsWith(w, Finish) => Has("finish")
    BY <2>1, EndedIsStream
  <2>4. EndsWith(w, <<"error", "[DONE]">>) => Has("error")
    <3>1. Finish # <<"error", "[DONE]">>
      BY FinishChunks
    <3> QED
      BY <2>1, <3>1, EndedIsStream
  <2>5. Told(w, Len(w)) => ~Has("[DONE]") /\ ~Has("json") /\ ~Has("failure")
    BY <2>1, ToldIsStream
  <2> QED
    BY <2>1, <2>2, <2>3, <2>4, <2>5 DEF AnswersWhole, AnswersFailure
<1>2. ResponsesInv => LogTellsTheExchange
  BY <1>1 DEF LogTellsTheExchange
<1> QED
  BY <1>2, ResponsesInductive, PTL
=============================================================================
