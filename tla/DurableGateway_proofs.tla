------------------------- MODULE DurableGateway_proofs -------------------------
(***************************************************************************)
(* What the gateway keeps through the ends of its process, proved of       *)
(* DurableSpec.                                                            *)
(*                                                                         *)
(* A handler cut off behind a completed stage leaves a task that is        *)
(* running without an assignment, so IndInv fails here and the proofs rest *)
(* on StoredInv instead.  A cut-off handler still has one of the effects   *)
(* of TaskScheduling_proofs on its record: it stops in the middle of one.  *)
(***************************************************************************)
EXTENDS DurableGateway, TaskScheduling_proofs, SequenceTheorems

\* What every step, also one cut off, does to the records.
Effects ==
  \A t \in Task : \/ tasks'[t] = tasks[t]
                  \/ RecordStep(tasks[t], tasks'[t])
                  \/ ResultStep(tasks[t], tasks'[t])

\* The lines written for one accepted result: all of them, or the first n of them
\* before the process ends or a write fails.
Pays(t, n) ==
  /\ tasks[t].assignment # 0
  /\ ResultStep(tasks[t], tasks'[t])
  /\ \A u \in Task : u # t => tasks'[u] = tasks[u]
  /\ ledger' = ledger \o SubSeq(Entries(t, tasks[t].assignment), 1, n)
  /\ \/ n = 2 /\ crashes' = crashes
     \/ crashes < MaxCrashes /\ crashes' = crashes + 1

PaysNothing ==
  /\ RecordsStep
  /\ UNCHANGED ledger
  /\ crashes' = crashes \/ (crashes < MaxCrashes /\ crashes' = crashes + 1)

Paying == PaysNothing \/ \E t \in Task, n \in 0..2 : Pays(t, n)

-----------------------------------------------------------------------------
(* Steps *)

Line(t, i, c) == [task |-> t, assignment |-> i, credit |-> c]

\* What is written for a result: its credit, then its debit, and for a handler cut off
\* as many of the two as it got to (accounting_recorder.ts).
LEMMA FirstLines ==
  ASSUME NEW t, NEW i, NEW n \in 0..2
  PROVE  LET new == SubSeq(Entries(t, i), 1, n)
         IN  /\ new \in Seq({Line(t, i, 1), Line(t, i, -1)}) /\ Len(new) = n
             /\ n >= 1 => new[1] = Line(t, i, 1)
             /\ n = 2 => new[2] = Line(t, i, -1) /\ new = Entries(t, i)
<1> DEFINE all == Entries(t, i)
           new == SubSeq(all, 1, n)
           S == {Line(t, i, 1), Line(t, i, -1)}
<1>1. /\ all \in Seq(S) /\ Len(all) = 2
      /\ all[1] = Line(t, i, 1) /\ all[2] = Line(t, i, -1)
  BY DEF Entries, Line
<1> HIDE DEF all, S
<1>2. \A k \in 1..n : all[k] \in S
  BY <1>1, SMTT(20)
<1>3. /\ new \in Seq(S) /\ Len(new) = n
      /\ \A k \in 1..n : new[k] = all[k]
  BY <1>1, <1>2, SubSeqProperties
<1> HIDE DEF new
<1>4. n = 2 => new = all
  BY <1>1, <1>3, SeqEqual
<1> QED
  BY <1>1, <1>3, <1>4 DEF all, new, S

\* A device of a process that has ended is still a device.
LEMMA DisconnectedTyped ==
  ASSUME devices \in [Worker -> Device]
  PROVE  Disconnected \in [Worker -> Device]
<1>1. [Unregistered EXCEPT !.connection = "gone"] \in Device
  BY DEF Unregistered, Device
<1> QED
  BY <1>1 DEF Disconnected

\* A result whose handler is cut off behind the completed stage: the stage is counted,
\* and that is all (task_store.ts:229-246).
LEMMA CutOffResultEffect ==
  ASSUME ConstantsAssumption, StoredInv,
         NEW t \in Task, NEW w \in Worker, NEW v \in Value,
         NEW i \in DOMAIN tasks[t].attempts, NEW n \in 0..2, CutOffResult(w, t, i, v, n)
  PROVE  StoredInv' /\ Pays(t, n)
<1> DEFINE task == tasks[t]
           mid == AddStage(task, i, w, v)
<1>1. /\ handler \in Handler /\ devices \in [Worker -> Device] /\ RecordOK(task)
      /\ handler = Idle /\ handler' = handler
      /\ task.assignment = i /\ i # 0 /\ task.state = "running"
  BY SMTT(20) DEF StoredInv, StoredOK, RecordOK, TaskRecord, CutOffResult, IsCurrent, Restarts
<1>2. devices' \in [Worker -> Device]
  BY <1>1, DisconnectedTyped DEF CutOffResult, Restarts
<1>3. RecordOK(mid) /\ ResultCounted(task, mid) /\ mid.state = "running"
  BY <1>1, AddStageCounts
<1>4. tasks' = [tasks EXCEPT ![t] = mid]
  BY <1>1 DEF CutOffResult, StoredInv
<1> HIDE DEF mid
<1>5. StoredOK(mid) /\ mid.assignment = 0
  BY <1>3 DEF StoredOK, ResultCounted
<1>6. ResultStep(task, mid)
  BY <1>3, <1>5 DEF ResultStep, SameWork
<1>7. /\ StoredInv'
      /\ tasks'[t] = mid /\ \A u \in Task : u # t => tasks'[u] = tasks[u]
  BY <1>1, <1>2, <1>4, <1>5, ReplaceStored DEF Idle
<1>8. /\ ledger' = ledger \o SubSeq(Entries(t, i), 1, n)
      /\ crashes < MaxCrashes /\ crashes' = crashes + 1
  BY DEF CutOffResult, Restarts
<1> QED
  BY <1>1, <1>6, <1>7, <1>8 DEF Pays

\* A submission whose handler is cut off leaves a queued task.
LEMMA CutOffSubmitEffect ==
  ASSUME ConstantsAssumption, StoredInv, NEW t \in Task, CutOffSubmit(t)
  PROVE  StoredInv' /\ RecordsStep
<1> DEFINE new == [NewTask EXCEPT !.state = "queued"]
<1>1. /\ handler \in Handler /\ devices \in [Worker -> Device]
      /\ StoredOK(tasks[t]) /\ RecordOK(tasks[t])
      /\ handler = Idle /\ handler' = handler /\ tasks[t].state = "absent"
  BY DEF StoredInv, StoredOK, CutOffSubmit, Restarts
<1>2. devices' \in [Worker -> Device]
  BY <1>1, DisconnectedTyped DEF CutOffSubmit, Restarts
<1>3. /\ new \in TaskRecord /\ SameAssignment(new, NewTask)
      /\ new.completed = 0 /\ new.attempts = <<>> /\ new.assignment = 0
      /\ new.acknowledged = {} /\ new.state = "queued"
  <2>1. NewTask \in TaskRecord
    BY NewTaskSound DEF RecordOK
  <2> QED
    BY <2>1 DEF NewTask, TaskRecord, State, SameAssignment
<1>4. tasks' = [tasks EXCEPT ![t] = new]
  BY DEF CutOffSubmit
<1> HIDE DEF new
<1>5. RecordOK(new)
  BY <1>3, NewTaskSound, SameAssignmentSound
<1>6. /\ tasks[t].attempts = <<>> /\ tasks[t].completed = 0
      /\ tasks[t].assignment = 0 /\ tasks[t].acknowledged = {}
  <2>1. tasks[t].attempts = <<>> /\ tasks[t].completed = 0
    BY <1>1 DEF StoredOK
  <2>2. Len(<<>>) = 0 /\ 1..0 = {}
    OBVIOUS
  <2> QED
    BY <1>1, <2>1, <2>2 DEF RecordOK
<1>7. RecordStep(tasks[t], new)
  BY <1>1, <1>3, <1>5, <1>6 DEF RecordStep, StoredOK, Dropped, SameWork, Finished
<1> QED
  BY <1>1, <1>2, <1>3, <1>4, <1>7, ReplaceStep DEF Idle

\* Every step keeps the stored records sound, has one of the effects on each of them,
\* and pays for the one result it accepts, if any.
LEMMA DurableStep ==
  ASSUME ConstantsAssumption, StoredInv, [DurableNext]_durable
  PROVE  StoredInv' /\ Effects /\ Paying
<1>1. RecordsStep => Effects
  BY DEF RecordsStep, Effects
<1>2. ASSUME NEW t \in Task, NEW n \in 0..2, Pays(t, n)
      PROVE  Effects /\ Paying
  BY <1>2 DEF Pays, Effects, Paying
<1>3. CASE Undisturbed
  BY <1>1, <1>3, OtherRecords DEF Undisturbed, PaysNothing, Paying
<1>4. ASSUME NEW t \in Task, NEW w \in Worker, NEW v \in Value,
             NEW i \in DOMAIN tasks[t].attempts, CompleteStage(w, t, i, v)
      PROVE  StoredInv' /\ Effects /\ Paying
  <2>1. /\ StoredInv'
        /\ tasks[t].assignment = i /\ ResultStep(tasks[t], tasks'[t])
        /\ \A u \in Task : u # t => tasks'[u] = tasks[u]
    BY <1>4, ResultRecords DEF CompleteStage
  <2>2. tasks[t].assignment # 0
    BY <2>1 DEF ResultStep, ResultCounted
  <2>3. SubSeq(Entries(t, i), 1, 2) = Entries(t, i)
    BY FirstLines
  <2>4. Pays(t, 2)
    BY <1>4, <2>1, <2>2, <2>3 DEF Pays, CompleteStage
  <2> QED
    BY <1>2, <2>1, <2>4
<1>5. ASSUME NEW t \in Task, NEW w \in Worker, NEW v \in Value, NEW n \in 0..2,
             NEW i \in DOMAIN tasks[t].attempts, CutOffResult(w, t, i, v, n)
      PROVE  StoredInv' /\ Effects /\ Paying
  BY <1>2, <1>5, CutOffResultEffect
<1>6. CASE Restart
  <2>1. devices' \in [Worker -> Device] /\ handler' \in Handler /\ handler'.left = {}
    BY <1>6, DisconnectedTyped DEF StoredInv, Restart, Restarts, Idle, Handler
  <2>2. StoredInv' /\ RecordsStep
    BY <1>6, <2>1, SameStored DEF Restart
  <2> QED
    BY <1>1, <1>6, <2>2 DEF Restart, Restarts, PaysNothing, Paying
<1>7. ASSUME NEW t \in Task, CutOffSubmit(t)
      PROVE  StoredInv' /\ Effects /\ Paying
  BY <1>1, <1>7, CutOffSubmitEffect DEF CutOffSubmit, Restarts, PaysNothing, Paying
<1>8. CASE UNCHANGED durable
  <2>1. UNCHANGED <<tasks, devices, handler, ledger, crashes>>
    BY <1>8 DEF durable
  <2>2. StoredInv' /\ RecordsStep
    BY <2>1 DEF StoredInv, WalkOK, RecordsStep
  <2> QED
    BY <1>1, <2>1, <2>2 DEF PaysNothing, Paying
<1> QED
  BY <1>3, <1>4, <1>5, <1>6, <1>7, <1>8 DEF DurableNext

-----------------------------------------------------------------------------
(* The ledger *)

Has(t, i, c) == \E k \in DOMAIN ledger : ledger[k] = Line(t, i, c)

\* The accepted results whose two lines do not balance.
Unpaired ==
  {p \in UNION {{t} \X tasks[t].acknowledged : t \in Task} :
     Has(p[1], p[2], 1) /\ ~Has(p[1], p[2], -1)}

\* No line is written twice, none before its result was accepted and no debit without
\* its credit; each end of the process or failed write unbalances one result at most.
LedgerOK ==
  /\ ledger \in Seq(Entry)
  /\ \A k \in DOMAIN ledger : ledger[k].assignment \in tasks[ledger[k].task].acknowledged
  /\ \A k, l \in DOMAIN ledger : ledger[k] = ledger[l] => k = l
  /\ \A t \in Task : \A i \in tasks[t].acknowledged : Has(t, i, -1) => Has(t, i, 1)
  /\ IsFiniteSet(Unpaired) /\ Cardinality(Unpaired) <= crashes
  /\ crashes \in 0..MaxCrashes

\* Accepting a result acknowledges the current assignment, which was not before.
LEMMA ResultAcknowledges ==
  ASSUME StoredInv, NEW t \in Task, ResultStep(tasks[t], tasks'[t])
  PROVE  /\ tasks'[t].acknowledged = tasks[t].acknowledged \cup {tasks[t].assignment}
         /\ tasks[t].assignment \notin tasks[t].acknowledged
         /\ tasks[t].assignment \in Nat \ {0}
<1>1. RecordOK(tasks[t])
  BY DEF StoredInv, StoredOK
<1>2. tasks'[t].acknowledged = tasks[t].acknowledged \cup {tasks[t].assignment}
  BY DEF ResultStep, ResultCounted, SameWork, Given
<1> QED
  BY <1>1, <1>2 DEF RecordOK, TaskRecord, ResultStep, ResultCounted

\* A line of the ledger names a task.
LEMMA LinesTyped ==
  ASSUME ledger \in Seq(Entry), NEW k \in DOMAIN ledger
  PROVE  ledger[k] \in Entry /\ ledger[k].task \in Task
<1>1. ledger[k] \in Entry
  OBVIOUS
<1> QED
  BY <1>1 DEF Entry

\* A step that accepts no result leaves the ledger as sound as it was.
LEMMA PaysNothingKeepsLedger ==
  ASSUME DurableAssumption, StoredInv, LedgerOK, PaysNothing
  PROVE  LedgerOK'
<1>1. \A t \in Task : tasks'[t].acknowledged = tasks[t].acknowledged
  BY DEF PaysNothing, RecordsStep, RecordStep, GoesOn, Dropped, Given, SameWork
<1>2. \A t, i, c : Has(t, i, c)' <=> Has(t, i, c)
  BY DEF Has, PaysNothing
<1>3. Unpaired' = Unpaired
  BY <1>1, <1>2 DEF Unpaired
<1>4. crashes' \in 0..MaxCrashes /\ crashes \in Nat /\ crashes' >= crashes
  BY DEF PaysNothing, LedgerOK, DurableAssumption
<1>5. Cardinality(Unpaired) \in Nat
  BY FS_CardinalityType DEF LedgerOK
<1>6. UNCHANGED ledger /\ \A k \in DOMAIN ledger : ledger[k].task \in Task
  BY LinesTyped DEF PaysNothing, LedgerOK
<1>7. \A k \in DOMAIN ledger : ledger[k].assignment \in tasks'[ledger[k].task].acknowledged
  BY <1>1, <1>6 DEF LedgerOK
<1>8. \A t \in Task : \A i \in tasks'[t].acknowledged : Has(t, i, -1)' => Has(t, i, 1)'
  BY <1>1, <1>2 DEF LedgerOK
<1>9. IsFiniteSet(Unpaired') /\ Cardinality(Unpaired') <= crashes'
  BY <1>3, <1>4, <1>5 DEF LedgerOK
<1> QED
  BY <1>4, <1>6, <1>7, <1>8, <1>9 DEF LedgerOK

\* A step that accepts a result writes the first lines of a pair not written before.
LEMMA PaysKeepsLedger ==
  ASSUME DurableAssumption, StoredInv, LedgerOK, NEW t \in Task, NEW n \in 0..2, Pays(t, n)
  PROVE  LedgerOK'
<1> DEFINE i == tasks[t].assignment
           new == SubSeq(Entries(t, i), 1, n)
<1>1. /\ tasks'[t].acknowledged = tasks[t].acknowledged \cup {i}
      /\ i \notin tasks[t].acknowledged /\ i \in Nat \ {0}
      /\ \A u \in Task : u # t => tasks'[u] = tasks[u]
  BY ResultAcknowledges DEF Pays
<1>2. /\ new \in Seq({Line(t, i, 1), Line(t, i, -1)}) /\ Len(new) = n
      /\ n >= 1 => new[1] = Line(t, i, 1)
      /\ n = 2 => new[2] = Line(t, i, -1)
  BY FirstLines
<1>3. /\ ledger' = ledger \o new /\ ledger \in Seq(Entry)
      /\ n = 2 \/ crashes' = crashes + 1
      /\ crashes \in Nat /\ crashes' >= crashes /\ crashes' \in 0..MaxCrashes
  BY DEF Pays, LedgerOK, DurableAssumption
<1>4. Line(t, i, 1) \in Entry /\ Line(t, i, -1) \in Entry /\ Line(t, i, 1) # Line(t, i, -1)
  BY <1>1 DEF Line, Entry
<1> HIDE DEF i, new
<1>5. /\ ledger' \in Seq(Entry)
      /\ DOMAIN ledger = 1..Len(ledger) /\ DOMAIN ledger' = 1..(Len(ledger) + n)
      /\ \A k \in 1..Len(ledger) : ledger'[k] = ledger[k]
      /\ n >= 1 => ledger'[Len(ledger) + 1] = Line(t, i, 1)
      /\ n = 2 => ledger'[Len(ledger) + 2] = Line(t, i, -1)
      /\ Len(ledger) \in Nat
  BY <1>2, <1>3, <1>4
<1>6. \A k \in DOMAIN ledger : ledger[k].task = t => ledger[k].assignment # i
  BY <1>1 DEF LedgerOK
<1>7. \A k \in DOMAIN ledger' :
        \/ k \in DOMAIN ledger /\ ledger'[k] = ledger[k]
        \/ k = Len(ledger) + 1 /\ n >= 1 /\ ledger'[k] = Line(t, i, 1)
        \/ k = Len(ledger) + 2 /\ n = 2 /\ ledger'[k] = Line(t, i, -1)
  BY <1>5
<1>8. \A k \in DOMAIN ledger' : ledger'[k].assignment \in tasks'[ledger'[k].task].acknowledged
  <2>1. \A k \in DOMAIN ledger : /\ ledger[k].task \in Task
                                 /\ ledger[k].assignment \in tasks[ledger[k].task].acknowledged
    BY <1>3, LinesTyped DEF LedgerOK
  <2>2. /\ Line(t, i, 1).task = t /\ Line(t, i, 1).assignment = i
        /\ Line(t, i, -1).task = t /\ Line(t, i, -1).assignment = i
    BY DEF Line
  <2>3. /\ \A u \in Task : tasks[u].acknowledged \subseteq tasks'[u].acknowledged
        /\ i \in tasks'[t].acknowledged
    BY <1>1
  <2> QED
    BY <1>7, <2>1, <2>2, <2>3
<1>9. \A k \in DOMAIN ledger : ledger[k] # Line(t, i, 1) /\ ledger[k] # Line(t, i, -1)
  BY <1>6 DEF Line
<1>10. \A k, l \in DOMAIN ledger' : ledger'[k] = ledger'[l] => k = l
  <2>1. \A k, l \in DOMAIN ledger : ledger[k] = ledger[l] => k = l
    BY DEF LedgerOK
  <2> QED
    BY <1>4, <1>7, <1>9, <2>1
<1>11. \A u, j, c : Has(u, j, c)' <=>
         \/ Has(u, j, c)
         \/ n >= 1 /\ Line(u, j, c) = Line(t, i, 1)
         \/ n = 2 /\ Line(u, j, c) = Line(t, i, -1)
  <2> TAKE u, j, c
  <2>1. Has(u, j, c) => Has(u, j, c)'
    BY <1>5 DEF Has
  <2>2. n >= 1 /\ Line(u, j, c) = Line(t, i, 1) => Has(u, j, c)'
    <3>1. n >= 1 => Len(ledger) + 1 \in DOMAIN ledger'
      BY <1>5
    <3> QED  BY <1>5, <3>1 DEF Has
  <2>3. n = 2 /\ Line(u, j, c) = Line(t, i, -1) => Has(u, j, c)'
    <3>1. n = 2 => Len(ledger) + 2 \in DOMAIN ledger'
      BY <1>5
    <3> QED  BY <1>5, <3>1 DEF Has
  <2>4. Has(u, j, c)' => \/ Has(u, j, c)
                         \/ n >= 1 /\ Line(u, j, c) = Line(t, i, 1)
                         \/ n = 2 /\ Line(u, j, c) = Line(t, i, -1)
    BY <1>7 DEF Has
  <2> QED
    BY <2>1, <2>2, <2>3, <2>4
<1>12. \A u, j, c : Line(u, j, c) = Line(t, i, 1) <=> u = t /\ j = i /\ c = 1
  BY DEF Line
<1>13. \A u, j, c : Line(u, j, c) = Line(t, i, -1) <=> u = t /\ j = i /\ c = -1
  BY DEF Line
<1>14. \A c : ~Has(t, i, c)
  BY <1>6 DEF Has, Line
<1>15. \A u \in Task : \A j \in tasks'[u].acknowledged : Has(u, j, -1)' => Has(u, j, 1)'
  <2> SUFFICES ASSUME NEW u \in Task, NEW j \in tasks'[u].acknowledged, Has(u, j, -1)'
               PROVE  Has(u, j, 1)'
    OBVIOUS
  <2>1. CASE u = t /\ j = i
    BY <1>11, <1>12, <1>13, <1>14, <2>1
  <2>2. CASE ~(u = t /\ j = i)
    <3>1. Has(u, j, -1) /\ j \in tasks[u].acknowledged
      BY <1>1, <1>11, <1>12, <1>13, <2>2
    <3> QED
      BY <1>11, <3>1 DEF LedgerOK
  <2> QED
    BY <2>1, <2>2
<1>16. /\ Unpaired' \subseteq Unpaired \cup {<<t, i>>}
       /\ n = 2 => Unpaired' \subseteq Unpaired
  <2> SUFFICES ASSUME NEW p \in Unpaired'
               PROVE  p \in Unpaired \/ (p = <<t, i>> /\ n # 2)
    OBVIOUS
  <2>1. PICK u \in Task : p \in {u} \X tasks'[u].acknowledged
    BY DEF Unpaired
  <2>2. p = <<u, p[2]>> /\ p[1] = u /\ p[2] \in tasks'[u].acknowledged
    BY <2>1
  <2>3. Has(u, p[2], 1)' /\ ~Has(u, p[2], -1)'
    BY <2>2 DEF Unpaired
  <2>4. CASE u = t /\ p[2] = i
    BY <1>11, <1>13, <2>2, <2>3, <2>4
  <2>5. CASE ~(u = t /\ p[2] = i)
    <3>1. Has(u, p[2], 1) /\ ~Has(u, p[2], -1)
      BY <1>11, <1>12, <1>13, <2>3, <2>5
    <3>2. p[2] \in tasks[u].acknowledged
      BY <1>1, <2>2, <2>5
    <3>3. p \in {u} \X tasks[u].acknowledged
      BY <2>2, <3>2
    <3> QED
      BY <2>2, <3>1, <3>3 DEF Unpaired
  <2> QED
    BY <2>4, <2>5
<1>17. IsFiniteSet(Unpaired') /\ Cardinality(Unpaired') <= crashes'
  <2>1. /\ IsFiniteSet(Unpaired) /\ Cardinality(Unpaired) <= crashes
        /\ Cardinality(Unpaired) \in Nat
    BY FS_CardinalityType DEF LedgerOK
  <2>2. /\ IsFiniteSet(Unpaired \cup {<<t, i>>})
        /\ Cardinality(Unpaired \cup {<<t, i>>}) \in Nat
        /\ Cardinality(Unpaired \cup {<<t, i>>}) <= Cardinality(Unpaired) + 1
    <3>1. /\ IsFiniteSet(Unpaired \cup {<<t, i>>})
          /\ Cardinality(Unpaired \cup {<<t, i>>}) =
               IF <<t, i>> \in Unpaired THEN Cardinality(Unpaired) ELSE Cardinality(Unpaired) + 1
      BY <2>1, FS_AddElement
    <3> QED
      BY <2>1, <3>1
  <2>3. /\ IsFiniteSet(Unpaired')
        /\ Cardinality(Unpaired') <= Cardinality(Unpaired \cup {<<t, i>>})
        /\ n = 2 => Cardinality(Unpaired') <= Cardinality(Unpaired)
    BY <1>16, <2>1, <2>2, FS_Subset
  <2>4. Cardinality(Unpaired') \in Nat
    BY <2>3, FS_CardinalityType
  <2> QED
    BY <1>3, <2>1, <2>2, <2>3, <2>4
<1> QED
  BY <1>3, <1>5, <1>8, <1>10, <1>15, <1>17 DEF LedgerOK

\* With no line written twice, counting lines is asking whether there is one.
LEMMA LinesCount ==
  ASSUME LedgerOK, NEW t, NEW i, NEW c
  PROVE  Lines(t, i, c) = IF Has(t, i, c) THEN 1 ELSE 0
<1> DEFINE found == {k \in DOMAIN ledger : ledger[k] = Line(t, i, c)}
<1>1. Lines(t, i, c) = Cardinality(found)
  BY DEF Lines, Line
<1>2. CASE Has(t, i, c)
  <2>1. PICK k \in DOMAIN ledger : ledger[k] = Line(t, i, c)
    BY <1>2 DEF Has
  <2>2. found = {k}
    BY <2>1 DEF LedgerOK
  <2> QED
    BY <1>1, <1>2, <2>2, FS_Singleton
<1>3. CASE ~Has(t, i, c)
  <2>1. found = {}
    BY <1>3 DEF Has
  <2> QED
    BY <1>1, <1>3, <2>1, FS_EmptySet
<1> QED
  BY <1>2, <1>3

\* A sound ledger says what PaidOnceForAcceptedWork says.
LEMMA LedgerPaysOnce ==
  ASSUME LedgerOK
  PROVE  PaidOnceForAcceptedWork
<1> DEFINE paidFor == UNION {{t} \X tasks[t].acknowledged : t \in Task}
           uneven == {p \in paidFor : Lines(p[1], p[2], 1) # Lines(p[1], p[2], -1)}
<1>1. \A t, i, c : Lines(t, i, c) = IF Has(t, i, c) THEN 1 ELSE 0
  BY LinesCount
<1>2. \A t \in Task : \A i \in tasks[t].acknowledged :
        Lines(t, i, -1) <= Lines(t, i, 1) /\ Lines(t, i, 1) <= 1
  BY <1>1 DEF LedgerOK
<1>3. uneven \subseteq Unpaired
  <2> SUFFICES ASSUME NEW p \in uneven
               PROVE  p \in Unpaired
    OBVIOUS
  <2>1. p \in paidFor /\ Lines(p[1], p[2], 1) # Lines(p[1], p[2], -1)
    OBVIOUS
  <2>2. PICK t \in Task : p \in {t} \X tasks[t].acknowledged
    BY <2>1
  <2>3. Has(p[1], p[2], -1) => Has(p[1], p[2], 1)
    BY <2>2 DEF LedgerOK
  <2>4. Has(p[1], p[2], 1) /\ ~Has(p[1], p[2], -1)
    BY <1>1, <2>1, <2>3
  <2> QED
    BY <2>1, <2>4 DEF Unpaired
<1>4. Cardinality(uneven) <= crashes
  <2>1. /\ IsFiniteSet(Unpaired) /\ Cardinality(Unpaired) <= crashes /\ crashes \in Nat
        /\ uneven \in SUBSET Unpaired
    BY <1>3 DEF LedgerOK
  <2>2. /\ IsFiniteSet(uneven) /\ Cardinality(uneven) <= Cardinality(Unpaired)
        /\ Cardinality(uneven) \in Nat /\ Cardinality(Unpaired) \in Nat
    <3> HIDE DEF uneven
    <3> QED  BY <2>1, FS_Subset, FS_CardinalityType
  <2> QED
    BY <2>1, <2>2
<1> QED
  BY <1>2, <1>4 DEF LedgerOK, PaidOnceForAcceptedWork

-----------------------------------------------------------------------------
(* The specification *)

DurableInv == StoredInv /\ StagesCounted /\ LedgerOK

(* The strengthened invariant holds before the first task. *)
LEMMA DurableInitInv ==
  ASSUME ConstantsAssumption, DurableAssumption, DurableInit
  PROVE  DurableInv
<1>1. StoredInv /\ StagesCounted
  BY InitStored DEF DurableInit
<1>2. ledger = <<>> /\ crashes = 0 /\ DOMAIN ledger = {} /\ ledger \in Seq(Entry)
  BY DEF DurableInit
<1>3. Unpaired = {}
  BY <1>2 DEF Unpaired, Has
<1> QED
  BY <1>1, <1>2, <1>3, FS_EmptySet DEF DurableInv, LedgerOK, Has, DurableAssumption

(* Every step keeps it: a step of the running gateway, one of its writes, its end or its restart. *)
LEMMA DurableNextInv ==
  ASSUME ConstantsAssumption, DurableAssumption, DurableInv, [DurableNext]_durable
  PROVE  DurableInv' /\ Effects
<1>1. StoredInv' /\ Effects /\ Paying
  BY DurableStep DEF DurableInv
<1>2. StagesCounted'
  <2>1. \A t \in Task : StoredOK(tasks[t]) /\ CountedOK(tasks[t])
    BY DEF DurableInv, StoredInv, StagesCounted
  <2>2. \A t \in Task : CountedOK(tasks'[t])
    BY <1>1, <2>1, StepKeepsCount DEF Effects
  <2> QED
    BY <2>2 DEF StagesCounted
<1>3. LedgerOK'
  BY <1>1, PaysNothingKeepsLedger, PaysKeepsLedger DEF DurableInv, Paying
<1> QED
  BY <1>1, <1>2, <1>3 DEF DurableInv

(* The records, the stage counts and the ledger agree in every reachable state, restarts included. *)
THEOREM DurableInductive == DurableSpec => []DurableInv
<1>1. DurableInit => DurableInv
  BY DurableInitInv, ConstantsAssumption, DurableAssumption
<1>2. DurableInv /\ [DurableNext]_durable => DurableInv'
  BY DurableNextInv, ConstantsAssumption, DurableAssumption
<1> QED
  BY <1>1, <1>2, PTL DEF DurableSpec

\* Ends of the process and failed writes leave records, registry and ledger of their
\* types; the current assignment stays one the task was given.
THEOREM DurableTypeCorrect == DurableSpec => []DurableTypeOK
<1>1. DurableInv => DurableTypeOK
  BY DEF DurableInv, StoredInv, StoredOK, RecordOK, LedgerOK, DurableTypeOK, TypeOK
<1> QED
  BY <1>1, DurableInductive, PTL

\* Whatever is cut off, restarted or reported late, the ledger pays once at most for a
\* result, only when it was accepted, and each end of the process or failed append
\* unbalances the two lines of one result at most (accounting_recorder.ts,
\* client_message_handler.ts:535-591).
THEOREM LedgerIsSound == DurableSpec => []PaidOnceForAcceptedWork
<1>1. DurableInv => PaidOnceForAcceptedWork
  BY LedgerPaysOnce DEF DurableInv
<1> QED
  BY <1>1, DurableInductive, PTL

\* A stage completed just before the process ended is not run or counted again.
THEOREM StagesSurviveRestarts == DurableSpec => []EachStageCountedOnce
<1>1. DurableInv => EachStageCountedOnce
  BY CountedIsOnce DEF DurableInv
<1> QED
  BY <1>1, DurableInductive, PTL

\* A restart gives no stage a fresh budget, and turns no stage.cancel already sent into
\* one for the assignment that is current afterwards.
THEOREM RecordsSurviveRestarts ==
  DurableSpec => [](AttemptsWithinBudget /\ CurrentIsNotWithdrawn)
<1>1. DurableInv => AttemptsWithinBudget /\ CurrentIsNotWithdrawn
  BY DEF DurableInv, StoredInv, StoredOK, RecordOK, AttemptsWithinBudget, CurrentIsNotWithdrawn
<1> QED
  BY <1>1, DurableInductive, PTL

\* What StrandedOnlyBehindAStage says of one step.
StaysFindable ==
  \A t \in Task :
    Findable(tasks[t]) /\ Unfinished(tasks'[t]) =>
      Findable(tasks'[t]) \/ tasks'[t].completed > tasks[t].completed

\* The three promises about single steps, from the effects alone.
LEMMA EffectsKeepPromises ==
  ASSUME ConstantsAssumption, StoredInv, Effects
  PROVE  StaysFindable /\ FinishedStays /\ LostMovesAway
<1>1. LostMovesAway
  BY EffectMovesAway DEF Effects
<1>2. ASSUME NEW t \in Task
      PROVE  /\ Findable(tasks[t]) /\ Unfinished(tasks'[t]) =>
                  Findable(tasks'[t]) \/ tasks'[t].completed > tasks[t].completed
             /\ tasks[t].state \in Finished =>
                  tasks'[t].state \in Finished /\ tasks'[t].attempts = tasks[t].attempts
  <2> DEFINE old == tasks[t]
             new == tasks'[t]
  <2>1. /\ old.assignment # 0 => old.state \in {"assigned", "running"}
        /\ old.completed \in Nat /\ Len(old.attempts) \in Nat
    BY DEF StoredInv, StoredOK, InProgress, RecordOK, TaskRecord
  <2>2. CASE new = old
    BY <2>2
  <2>3. CASE RecordStep(old, new)
    BY <2>1, <2>3 DEF RecordStep, GoesOn, Dropped, Given, Findable, Unfinished, Finished
  <2>4. CASE ResultStep(old, new)
    <3>1. old.state = "running" /\ new.completed = old.completed + 1
      BY <2>4 DEF ResultStep, ResultCounted, SameWork, Given
    <3> QED
      BY <2>1, <3>1 DEF Finished
  <2> QED
    BY <2>2, <2>3, <2>4 DEF Effects
<1> QED
  BY <1>1, <1>2 DEF StaysFindable, FinishedStays

\* No restart, retry or late message takes an unfinished task out of the sight of both
\* sweeps; only a handler cut off right behind a completed stage does
\* (task_store.ts:229-246, task_scheduler.ts:143 and 173).
THEOREM OnlyACutOffStageStrands == DurableSpec => StrandedOnlyBehindAStage
<1>1. DurableInv /\ [DurableNext]_durable => [StaysFindable]_durable
  BY DurableNextInv, EffectsKeepPromises, ConstantsAssumption, DurableAssumption DEF DurableInv
<1>2. StaysFindable <=>
        \A t \in Task :
          Findable(tasks[t]) /\ Unfinished(tasks'[t]) =>
            Findable(tasks'[t]) \/ tasks'[t].completed > tasks[t].completed
  BY DEF StaysFindable
<1> QED
  BY <1>1, <1>2, DurableInductive, PTL DEF DurableSpec, StrandedOnlyBehindAStage

\* A finished task stays finished through restarts too, and no lost attempt returns to
\* its worker because of one.
THEOREM PromisesSurviveRestarts == DurableSpec => FinishedIsForGood /\ RetryMovesAway
<1>1. DurableInv /\ [DurableNext]_durable => [FinishedStays /\ LostMovesAway]_vars
  BY DurableNextInv, EffectsKeepPromises, ConstantsAssumption, DurableAssumption DEF DurableInv
<1>2. FinishedStays <=>
        \A t \in Task :
          tasks[t].state \in Finished =>
            tasks'[t].state \in Finished /\ tasks'[t].attempts = tasks[t].attempts
  BY DEF FinishedStays
<1>3. LostMovesAway <=>
        \A t \in Task :
          LET old == tasks[t].assignment
              new == tasks'[t].assignment
          IN  (old # 0 /\ new \notin {0, old} /\ old \notin tasks'[t].acknowledged) =>
                \/ tasks[t].attempts[old].stage \in Sticky
                \/ tasks'[t].attempts[new].worker # tasks[t].attempts[old].worker
  BY DEF LostMovesAway
<1> QED
  BY <1>1, <1>2, <1>3, DurableInductive, PTL DEF DurableSpec, FinishedIsForGood, RetryMovesAway

-----------------------------------------------------------------------------
(* Refinement *)

\* A stage counted by a handler that is cut off is one more stage of an open task.  Of
\* a pipeline that repeats: the last stage of one that does not would be counted and
\* the task still be open, which TaskLifecycle knows nothing of.
LEMMA CutOffResultRefines ==
  ASSUME ConstantsAssumption, StoredInv, PipelineAhead, Repeats,
         NEW t \in Task, NEW w \in Worker, NEW v \in Value,
         NEW i \in DOMAIN tasks[t].attempts, NEW n \in 0..2, CutOffResult(w, t, i, v, n)
  PROVE  Refines
<1> DEFINE mid == AddStage(tasks[t], i, w, v)
<1>1. RecordOK(tasks[t]) /\ tasks[t] \in TaskRecord /\ tasks[t].state = "running"
  BY DEF StoredInv, StoredOK, RecordOK, CutOffResult
<1>2. mid.state = "running" /\ mid.completed = tasks[t].completed + 1
  BY <1>1, AddStageFields
<1>3. tasks' = [tasks EXCEPT ![t] = mid]
  BY DEF CutOffResult, StoredInv
<1> HIDE DEF mid
<1>4. PhaseOf(mid) = "open" /\ PhaseOf(tasks[t]) = "open"
  BY <1>1, <1>2, PhaseTyped DEF State
<1> QED
  BY <1>2, <1>3, <1>4, ReplaceRefines DEF SeenStep, Ahead

\* A submission whose handler is cut off is accepted all the same.
LEMMA CutOffSubmitRefines ==
  ASSUME ConstantsAssumption, StoredInv, PipelineAhead, NEW t \in Task, CutOffSubmit(t)
  PROVE  Refines
<1> DEFINE new == [NewTask EXCEPT !.state = "queued"]
<1>1. tasks' = [tasks EXCEPT ![t] = new] /\ tasks[t].state = "absent"
  BY DEF CutOffSubmit
<1>2. new.state = "queued" /\ new.completed = 0 /\ tasks[t].completed = 0
  BY <1>1 DEF NewTask, StoredInv, StoredOK
<1> HIDE DEF new
<1>3. PhaseOf(new) = "open" /\ PhaseOf(tasks[t]) = "absent"
  BY <1>1, <1>2, PhaseTyped DEF State, Finished
<1>4. 0 < StageCount
  BY DEF ConstantsAssumption
<1> QED
  BY <1>1, <1>2, <1>3, <1>4, ReplaceRefines DEF SeenStep, Ahead

(* Every step of the gateway with its files is a step of the abstract lifecycle or a stutter. *)
LEMMA DurableRefines ==
  ASSUME ConstantsAssumption, Repeats \/ ~CutOff,
         StoredInv, PipelineAhead, [DurableNext]_durable
  PROVE  Refines
<1>1. Undisturbed \/ (\E t \in Task, w \in Worker, v \in Value :
         \E i \in DOMAIN tasks[t].attempts : CompleteStage(w, t, i, v)) => Next
  BY DEF Undisturbed, CompleteStage, Next, StageCompletes
<1>2. Restart \/ UNCHANGED durable => UNCHANGED tasks
  BY DEF Restart, durable
<1>3. ASSUME NEW t \in Task, NEW w \in Worker, NEW v \in Value, NEW n \in 0..2,
             NEW i \in DOMAIN tasks[t].attempts, CutOffResult(w, t, i, v, n)
      PROVE  Refines
  BY <1>3, CutOffResultRefines DEF CutOffResult
<1> QED
  BY <1>1, <1>2, <1>3, NextRefines, SameTasksRefines, CutOffSubmitRefines DEF DurableNext

\* Through ends of the process and failed writes every task goes on with the life
\* TaskLifecycle promises (task_store.ts:229-246 and 357-368).  A pipeline that does not
\* repeat is left out where handlers may be cut off: its last stage may be stored and the
\* task not completed.
THEOREM LifecycleSurvivesRestarts ==
  ASSUME Repeats \/ ~CutOff
  PROVE  DurableSpec => ImplementsLifecycle
<1>1. DurableInit => Lifecycle!Init /\ PipelineAhead
  BY InitRefines DEF DurableInit
<1>2. DurableInv /\ PipelineAhead /\ [DurableNext]_durable =>
        [Lifecycle!Next]_(Lifecycle!lifecycle) /\ PipelineAhead'
  BY ConstantsAssumption, DurableRefines DEF Refines, DurableInv
<1> QED
  BY <1>1, <1>2, DurableInductive, PTL DEF DurableSpec, ImplementsLifecycle, Lifecycle!Spec

-----------------------------------------------------------------------------
(* Counters and the queue *)

\* A process that ends in the middle of a handler closes every connection; the record
\* it was at has no assignment.
LEMMA EndCounts ==
  ASSUME ConstantsAssumption, StoredInv, HeldCounted, NEW t \in Task,
         tasks'[t].assignment = 0, \A u \in Task : u # t => tasks'[u] = tasks[u],
         devices' = Disconnected
  PROVE  HeldCounted' /\ ~Overbooks
<1>1. ASSUME NEW w \in Worker
      PROVE  /\ IsFiniteSet(Held(w)') /\ ~(Cardinality(Held(w)') > Cardinality(Held(w)))
             /\ devices'[w].connection # "open"
             /\ devices'[w].connection = "new" => Held(w)' = {}
  <2>1. /\ IsFiniteSet(Held(w))
        /\ devices[w].connection = "new" => Held(w) = {}
    BY DEF HeldCounted
  <2>2. Superseded(tasks'[t]) # w
    BY SupersededOf DEF ConstantsAssumption
  <2>3. Holds(tasks'[t], w) = 0 /\ Holds(tasks[t], w) \in {0, 1}
    BY <2>2, HoldsTyped DEF Holds
  <2>4. /\ IsFiniteSet(Held(w)') /\ Cardinality(Held(w)) \in Nat
        /\ Cardinality(Held(w)') =
             Cardinality(Held(w)) + Holds(tasks'[t], w) - Holds(tasks[t], w)
    BY <2>1, HeldChanges
  <2>5. Held(w)' \subseteq Held(w)
    BY <2>2 DEF Held
  <2>6. devices'[w].connection # "open" /\
        (devices'[w].connection = "new" => devices[w].connection = "new")
    BY DEF Disconnected, Unregistered, IsOpen
  <2> QED
    BY <2>1, <2>3, <2>4, <2>5, <2>6
<1> QED
  BY <1>1 DEF HeldCounted, Overbooks, IsOpen

(* Every such step keeps the counters at or above what the tasks hold. *)
LEMMA DurableCounts ==
  ASSUME ConstantsAssumption, ~Reregisters, StoredInv, HeldCounted, [DurableNext]_durable
  PROVE  HeldCounted' /\ ~Overbooks
<1>1. StoredInv'
  BY DurableStep
<1>2. (Undisturbed \/ \E t \in Task, w \in Worker, v \in Value :
         \E i \in DOMAIN tasks[t].attempts : CompleteStage(w, t, i, v)) \/ UNCHANGED durable
        => [Next]_vars
  BY DEF Undisturbed, CompleteStage, Next, StageCompletes, durable, vars
<1>3. CASE Restart
  <2>1. UNCHANGED tasks /\ devices' = Disconnected
    BY <1>3 DEF Restart, Restarts
  <2>2. \A w \in Worker : \/ devices'[w] = devices[w]
                          \/ devices'[w].connection = "gone"
    BY <2>1 DEF Disconnected, Unregistered
  <2> QED
    BY <1>1, <2>1, <2>2, DevicesCount
<1>4. ASSUME NEW t \in Task, NEW w \in Worker, NEW v \in Value, NEW n \in 0..2,
             NEW i \in DOMAIN tasks[t].attempts, CutOffResult(w, t, i, v, n)
      PROVE  HeldCounted' /\ ~Overbooks
  <2> DEFINE mid == AddStage(tasks[t], i, w, v)
  <2>1. tasks[t] \in TaskRecord /\ tasks \in [Task -> TaskRecord]
    BY DEF StoredInv
  <2>2. tasks' = [tasks EXCEPT ![t] = mid]
    BY <1>4, <2>1 DEF CutOffResult
  <2>3. mid.assignment = 0
    BY <2>1, AddStageFields
  <2> HIDE DEF mid
  <2>4. tasks'[t].assignment = 0 /\ \A u \in Task : u # t => tasks'[u] = tasks[u]
    BY <2>1, <2>2, <2>3
  <2>5. CASE devices' = Disconnected
    BY <2>4, <2>5, EndCounts
  <2>6. CASE UNCHANGED devices
    BY <1>1, <2>2, <2>3, <2>6, KeepsBooks, BooksCounts
  <2> QED
    BY <1>4, <2>5, <2>6 DEF CutOffResult, Restarts
<1>5. ASSUME NEW t \in Task, CutOffSubmit(t)
      PROVE  HeldCounted' /\ ~Overbooks
  <2>1. tasks'[t].assignment = 0 /\ \A u \in Task : u # t => tasks'[u] = tasks[u]
    BY <1>5 DEF CutOffSubmit, StoredInv, NewTask
  <2> QED
    BY <1>5, <2>1, EndCounts DEF CutOffSubmit, Restarts
<1> QED
  BY <1>2, <1>3, <1>4, <1>5, NextCounts DEF DurableNext

\* The end of a process ends the walk it was in; a failed write leaves no walk running.
LEMMA DurableWaits ==
  ASSUME ConstantsAssumption, StoredInv, VisitedWait, [DurableNext]_durable
  PROVE  VisitedWait'
<1>1. (Undisturbed \/ \E t \in Task, w \in Worker, v \in Value :
         \E i \in DOMAIN tasks[t].attempts : CompleteStage(w, t, i, v)) \/ UNCHANGED durable
        => [Next]_vars
  BY DEF Undisturbed, CompleteStage, Next, StageCompletes, durable, vars
<1>2. Restart \/ (\E t \in Task : CutOffSubmit(t))
        \/ (\E t \in Task, w \in Worker, v \in Value, n \in 0..2 :
              \E i \in DOMAIN tasks[t].attempts : CutOffResult(w, t, i, v, n))
        => handler' = Idle
  BY DEF Restart, Restarts, CutOffSubmit, CutOffResult
<1>3. handler' = Idle => VisitedWait'
  BY DEF VisitedWait, Idle
<1> QED
  BY <1>1, <1>2, <1>3, NextWaits DEF DurableNext

\* Restarts and failed writes leave no counter below what its worker holds, so room by
\* the counter stays room indeed, and no walk of the queue passes a task over.
THEOREM PlacingSurvivesRestarts ==
  ASSUME ~Reregisters
  PROVE  DurableSpec => NeverOverbooked /\ [](CountsEveryAssignment /\ NoTaskPassedOver)
<1> DEFINE Fits == \A w \in Worker :
                     Cardinality(Held(w)') > Cardinality(Held(w)) =>
                       Cardinality(Held(w)') <= devices[w].limit
<1>1. DurableInit => HeldCounted /\ VisitedWait
  BY InitCounts, ConstantsAssumption DEF DurableInit, Init, Idle, VisitedWait
<1>2. DurableInv /\ HeldCounted /\ VisitedWait /\ [DurableNext]_durable =>
        (HeldCounted /\ VisitedWait)'
  BY DurableCounts, DurableWaits, ConstantsAssumption DEF DurableInv
<1>3. DurableInv /\ HeldCounted /\ [DurableNext]_durable => [Fits]_vars
  BY DurableCounts, ConstantsAssumption DEF DurableInv, Overbooks
<1>4. Fits <=> \A w \in Worker :
                 Cardinality(Held(w)') > Cardinality(Held(w)) =>
                   Cardinality(Held(w)') <= devices[w].limit
  OBVIOUS
<1>5. HeldCounted /\ VisitedWait => CountsEveryAssignment /\ NoTaskPassedOver
  BY DEF HeldCounted, CountsEveryAssignment, VisitedWait, Waits, NoTaskPassedOver, Queued
<1> HIDE DEF Fits
<1> QED
  BY <1>1, <1>2, <1>3, <1>4, <1>5, DurableInductive, PTL DEF DurableSpec, NeverOverbooked
=============================================================================
