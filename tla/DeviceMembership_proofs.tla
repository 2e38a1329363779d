------------------------ MODULE DeviceMembership_proofs ------------------------
(***************************************************************************)
(* What DeviceMembership promises those who watch the registry, for every  *)
(* number of workers, observers and changes.                               *)
(*                                                                         *)
(* The first part is about lists of devices and what one message makes of  *)
(* them, the second about what several make of one: View is a fold, which  *)
(* a message at its end changes by that message and a message read at its  *)
(* front leaves as it is.  The third follows a list and the registry       *)
(* through each of the four announcements.  ViewFollowsRegistry, with the  *)
(* types of the messages on their way, is then inductive as it stands.     *)
(***************************************************************************)
EXTENDS DeviceMembership, Folding_proofs, SequenceTheorems

-----------------------------------------------------------------------------
(* Lists of devices and the messages that change them.                     *)

\* The messages the gateway sends.
ActivityRecord == [workerState : {"ready", "draining"}, activeAssignments : 0..MaxAssignments]

ActivityLists == UNION {[ids -> ActivityRecord] : ids \in SUBSET Worker}

Message ==
  [type : {"devices"}, devices : DeviceLists, revision : Nat]
    \union [type : {"device"}, worker : Worker, device : Device, revision : Nat]
    \union [type : {"device.left"}, worker : Connection, revision : Nat]
    \union [type : {"device.activity"}, revision : Nat, activities : ActivityLists]

\* A list has a device for some of the workers.
LEMMA DeviceListOf ==
  ASSUME NEW list
  PROVE  list \in DeviceLists <=> /\ DOMAIN list \subseteq Worker
                                  /\ list \in [DOMAIN list -> Device]
BY DEF DeviceLists

\* The empty list is one.
LEMMA NoDevices == <<>> \in DeviceLists /\ DOMAIN <<>> = {}
<1>1. <<>> \in [{} -> Device] /\ DOMAIN <<>> = {}
  OBVIOUS
<1> QED
  BY <1>1 DEF DeviceLists

\* A list with one device more, or with one described anew.
LEMMA WithDevice ==
  ASSUME NEW list \in DeviceLists, NEW w \in Worker, NEW device \in Device
  PROVE  /\ With(list, w, device) \in DeviceLists
         /\ DOMAIN With(list, w, device) = DOMAIN list \union {w}
         /\ With(list, w, device)[w] = device
         /\ \A v \in DOMAIN list : v # w => With(list, w, device)[v] = list[v]
<1>1. DOMAIN list \subseteq Worker /\ \A v \in DOMAIN list : list[v] \in Device
  BY DEF DeviceLists
<1>2. With(list, w, device) \in [DOMAIN list \union {w} -> Device]
  BY <1>1 DEF With
<1> QED
  BY <1>1, <1>2 DEF DeviceLists, With

\* A list without a device, which it need not have.
LEMMA WithoutDevice ==
  ASSUME NEW list \in DeviceLists, NEW w
  PROVE  /\ Without(list, w) \in DeviceLists
         /\ DOMAIN Without(list, w) = DOMAIN list \ {w}
         /\ \A v \in DOMAIN list : v # w => Without(list, w)[v] = list[v]
<1>1. DOMAIN list \subseteq Worker /\ \A v \in DOMAIN list : list[v] \in Device
  BY DEF DeviceLists
<1>2. Without(list, w) = [v \in DOMAIN list \ {w} |-> list[v]]
  BY DEF Without, Restrict
<1>3. Without(list, w) \in [DOMAIN list \ {w} -> Device]
  BY <1>1, <1>2
<1> QED
  BY <1>1, <1>2, <1>3 DEF DeviceLists

\* The device that a device is taken for when its activity is announced (mergeActivity).
Busy(device, activity) ==
  [device EXCEPT !.workerState = activity.workerState,
                 !.activeAssignments = activity.activeAssignments]

\* Such a device is described as before, and is any other that is described and as busy
\* like it.
LEMMA BusyDevice ==
  ASSUME NEW device \in Device, NEW activity \in ActivityRecord
  PROVE  /\ Busy(device, activity) \in Device
         /\ Stable(Busy(device, activity)) = Stable(device)
         /\ \A other \in Device : Stable(other) = Stable(device) /\ Activity(other) = activity
                                    => Busy(device, activity) = other
<1>1. Busy(device, activity) \in Device /\ Stable(Busy(device, activity)) = Stable(device)
  BY DEF Busy, Device, ActivityRecord, Stable
<1>2. ASSUME NEW other \in Device, Stable(other) = Stable(device), Activity(other) = activity
      PROVE  Busy(device, activity) = other
  <2>1. other.about = device.about /\ other.maxConcurrentAssignments = device.maxConcurrentAssignments
    BY <1>2 DEF Stable
  <2>2. /\ other.workerState = activity.workerState
        /\ other.activeAssignments = activity.activeAssignments
    BY <1>2 DEF Activity
  <2> DEFINE busy == Busy(device, activity)
  <2>3. /\ busy.about = device.about /\ busy.maxConcurrentAssignments = device.maxConcurrentAssignments
        /\ busy.workerState = activity.workerState /\ busy.activeAssignments = activity.activeAssignments
    BY DEF Busy, Device
  <2>4. busy \in Device
    BY <1>1
  <2> HIDE DEF busy
  <2>5. ASSUME NEW d \in Device
        PROVE  d = [about |-> d.about, maxConcurrentAssignments |-> d.maxConcurrentAssignments,
                    workerState |-> d.workerState, activeAssignments |-> d.activeAssignments]
    BY DEF Device
  <2>6. busy = other
    BY <2>1, <2>2, <2>3, <2>4, <2>5
  <2> QED
    BY <2>6 DEF busy
<1> QED
  BY <1>1, <1>2

\* What is announced of a device is an activity.
LEMMA ActivityOf ==
  ASSUME NEW device \in Device
  PROVE  Activity(device) \in ActivityRecord
BY DEF Activity, ActivityRecord, Device

\* What a device.activity message makes of a list.
LEMMA MergedActivity ==
  ASSUME NEW list \in DeviceLists, NEW message, message.type = "device.activity",
         message.activities \in ActivityLists
  PROVE  /\ Merged(list, message) \in DeviceLists
         /\ DOMAIN Merged(list, message) = DOMAIN list
         /\ \A w \in DOMAIN list :
              /\ Merged(list, message)[w] = IF w \in DOMAIN message.activities
                                              THEN Busy(list[w], message.activities[w]) ELSE list[w]
              /\ list[w] \in Device
<1>1. DOMAIN list \subseteq Worker /\ \A w \in DOMAIN list : list[w] \in Device
  BY DEF DeviceLists
<1>2. \A w \in DOMAIN message.activities : message.activities[w] \in ActivityRecord
  BY DEF ActivityLists
<1>3. Merged(list, message)
        = [w \in DOMAIN list |-> IF w \in DOMAIN message.activities
                                   THEN Busy(list[w], message.activities[w]) ELSE list[w]]
  BY DEF Merged, Busy
<1>4. Merged(list, message) \in [DOMAIN list -> Device]
  BY <1>1, <1>2, <1>3, BusyDevice
<1> QED
  BY <1>1, <1>3, <1>4 DEF DeviceLists

\* Every message makes a list of a list.
LEMMA MergedTypes ==
  ASSUME NEW list \in DeviceLists, NEW message \in Message
  PROVE  Merged(list, message) \in DeviceLists
<1>1. CASE message \in [type : {"devices"}, devices : DeviceLists, revision : Nat]
  BY <1>1 DEF Merged
<1>2. CASE message \in [type : {"device"}, worker : Worker, device : Device, revision : Nat]
  <2>1. Merged(list, message) = With(list, message.worker, message.device)
    BY <1>2 DEF Merged
  <2>2. message.worker \in Worker /\ message.device \in Device
    BY <1>2
  <2>3. With(list, message.worker, message.device) \in DeviceLists
    BY ONLY <2>2, list \in DeviceLists, WithDevice, Zenon
  <2> QED
    BY <2>1, <2>3
<1>3. CASE message \in [type : {"device.left"}, worker : Connection, revision : Nat]
  <2>1. Merged(list, message) = Without(list, message.worker)
    BY <1>3 DEF Merged
  <2> QED
    BY <2>1, WithoutDevice
<1>4. CASE message \in [type : {"device.activity"}, revision : Nat, activities : ActivityLists]
  BY <1>4, MergedActivity
<1> QED
  BY <1>1, <1>2, <1>3, <1>4 DEF Message

-----------------------------------------------------------------------------
(* What an observer will have seen.                                        *)

\* The list that some messages make of one.
ListAfter(list, messages) == FoldLeft(Merged, list, messages)

\* g folds the places of some messages into a list (one step of it is mergeActivity).
Merges(g, list, messages) ==
  g = [T \in SUBSET (DOMAIN messages) |->
         IF T = {} THEN list ELSE Merged(g[T \ {Max(T)}], messages[Max(T)])]

\* What some messages make of a list is such a fold, where there is one.
LEMMA ListFolds ==
  ASSUME NEW list, NEW messages
  PROVE  \E g : /\ ListAfter(list, messages) = g[DOMAIN messages]
                /\ (\E h : Merges(h, list, messages)) => Merges(g, list, messages)
<1> DEFINE P(g) == g = [T \in SUBSET (DOMAIN messages) |->
                          IF T = {} THEN list
                          ELSE LET x == Max(T) IN Merged(g[T \ {x}], messages[x])]
<1>1. ListAfter(list, messages) = (CHOOSE g : P(g))[DOMAIN messages]
  BY DEF ListAfter, FoldLeft, MapThenFoldSet
<1>2. \A g : P(g) <=> Merges(g, list, messages)
  BY DEF Merges
<1> HIDE DEF P
<1>3. (\E h : P(h)) => P(CHOOSE g : P(g))
  OBVIOUS
<1> QED
  BY <1>1, <1>2, <1>3

\* Such a fold exists.
LEMMA MergesExists ==
  ASSUME NEW list \in DeviceLists, NEW messages \in Seq(Message)
  PROVE  \E g \in [SUBSET (1..Len(messages)) -> DeviceLists] : Merges(g, list, messages)
<1> DEFINE n == Len(messages)
           F == [p \in DeviceLists \X (1..n) |-> Merged(p[1], messages[p[2]])]
<1>1. ASSUME NEW p \in DeviceLists \X (1..n)
      PROVE  F[p] \in DeviceLists
  <2>1. p[1] \in DeviceLists /\ p[2] \in 1..n /\ messages[p[2]] \in Message
    OBVIOUS
  <2> QED
    BY <2>1, MergedTypes
<1>2. F \in [DeviceLists \X (1..n) -> DeviceLists] /\ n \in Nat
  BY <1>1
<1>3. PICK g \in [SUBSET (1..n) -> DeviceLists] : IsFold(g, n, list, F)
  <2> HIDE DEF F, n
  <2> QED
    BY <1>2, FoldExists
<1>4. ASSUME NEW T \in SUBSET (1..n)
      PROVE  g[T] = IF T = {} THEN list ELSE Merged(g[T \ {Max(T)}], messages[Max(T)])
  <2>1. g[T] = IF T = {} THEN list ELSE F[<<g[T \ {Max(T)}], Max(T)>>]
    BY <1>3 DEF IsFold
  <2>2. ASSUME T # {}
        PROVE  F[<<g[T \ {Max(T)}], Max(T)>>] = Merged(g[T \ {Max(T)}], messages[Max(T)])
    <3>1. T \ {Max(T)} \in SUBSET (1..n) /\ Max(T) \in 1..n
      BY <2>2, WithoutGreatest
    <3>2. <<g[T \ {Max(T)}], Max(T)>> \in DeviceLists \X (1..n)
      BY <3>1
    <3> QED
      BY <3>2
  <2> QED
    BY <2>1, <2>2
<1>5. DOMAIN messages = 1..n
  OBVIOUS
<1> HIDE DEF F, n
<1>6. Merges(g, list, messages)
  BY <1>4, <1>5 DEF Merges
<1> QED
  BY <1>6 DEF n

\* The folds of two sequences of messages agree as far as the messages do.
LEMMA MergesUnique ==
  ASSUME NEW n \in Nat, NEW old, NEW new, DOMAIN old = 1..n,
         NEW m \in Nat, n \leq m, DOMAIN new = 1..m,
         \A i \in 1..n : new[i] = old[i], NEW list,
         NEW g, Merges(g, list, old), NEW h, Merges(h, list, new)
  PROVE  Agree(n, g, h)
<1>1. ASSUME NEW T \in SUBSET (1..n), T = {} \/ g[T \ {Max(T)}] = h[T \ {Max(T)}]
      PROVE  g[T] = h[T]
  <2>1. T \in SUBSET (1..m)
    OBVIOUS
  <2>2. g[T] = IF T = {} THEN list ELSE Merged(g[T \ {Max(T)}], old[Max(T)])
    BY DEF Merges
  <2>3. h[T] = IF T = {} THEN list ELSE Merged(h[T \ {Max(T)}], new[Max(T)])
    BY <2>1 DEF Merges
  <2>4. T # {} => Max(T) \in 1..n
    BY WithoutGreatest
  <2> QED
    BY <1>1, <2>2, <2>3, <2>4
<1>2. AgreeByStep(n, g, h)
  BY <1>1 DEF AgreeByStep
<1> QED
  BY <1>2, FoldUnique

\* One message more changes the list by that message.
LEMMA ListGrows ==
  ASSUME NEW list \in DeviceLists, NEW old \in Seq(Message), NEW message \in Message
  PROVE  /\ ListAfter(list, old) \in DeviceLists
         /\ ListAfter(list, Append(old, message)) = Merged(ListAfter(list, old), message)
<1> DEFINE n == Len(old)
           new == Append(old, message)
<1>0. /\ n \in Nat /\ n + 1 \in Nat /\ n \leq n + 1 /\ n \leq n
      /\ new \in Seq(Message) /\ Len(new) = n + 1 /\ DOMAIN new = 1..(n + 1) /\ DOMAIN old = 1..n
      /\ \A i \in 1..n : new[i] = old[i]
      /\ new[n + 1] = message
  OBVIOUS
<1> HIDE DEF n, new
<1>1. PICK f \in [SUBSET (1..n) -> DeviceLists] : Merges(f, list, old)
  BY <1>0, MergesExists DEF n
<1>2. PICK g : ListAfter(list, old) = g[1..n] /\ Merges(g, list, old)
  BY <1>0, <1>1, ListFolds
<1>3. \E k : Merges(k, list, new)
  BY <1>0, MergesExists
<1>4. PICK h : ListAfter(list, new) = h[1..(n + 1)] /\ Merges(h, list, new)
  BY <1>0, <1>3, ListFolds
<1>5. Agree(n, g, f)
  BY <1>0, <1>1, <1>2, MergesUnique
<1>6. Agree(n, g, h)
  BY <1>0, <1>2, <1>4, MergesUnique
<1>7. g[1..n] \in DeviceLists /\ g[1..n] = h[1..n]
  BY <1>1, <1>5, <1>6 DEF Agree
<1>8. Max(1..(n + 1)) = n + 1 /\ (1..(n + 1)) \ {n + 1} = 1..n
  BY <1>0, GreatestIsLast
<1>9. h[1..(n + 1)] = Merged(h[1..n], message)
  <2> DEFINE T == 1..(n + 1)
  <2>1. h = [U \in SUBSET T |-> IF U = {} THEN list ELSE Merged(h[U \ {Max(U)}], new[Max(U)])]
    BY <1>0, <1>4 DEF Merges
  <2>2. T \in SUBSET T /\ n + 1 \in T
    BY <1>0
  <2>3. Max(T) = n + 1 /\ T \ {n + 1} = 1..n
    BY <1>8
  <2> HIDE DEF T
  <2>4. h[T] = Merged(h[T \ {Max(T)}], new[Max(T)])
    BY <2>1, <2>2
  <2> QED
    BY <1>0, <2>3, <2>4 DEF T
<1> QED
  BY <1>2, <1>4, <1>7, <1>9 DEF new

\* No message leaves a list as it is.
LEMMA ListUnchanged ==
  ASSUME NEW list \in DeviceLists
  PROVE  ListAfter(list, <<>>) = list
<1>1. <<>> \in Seq(Message) /\ Len(<<>>) = 0 /\ DOMAIN <<>> = 1..0 /\ 1..0 = {}
  OBVIOUS
<1>2. PICK g : ListAfter(list, <<>>) = g[1..0] /\ Merges(g, list, <<>>)
  BY <1>1, MergesExists, ListFolds
<1>3. g[{}] = list
  BY <1>2 DEF Merges
<1> QED
  BY <1>1, <1>2, <1>3

\* Several messages have a last one.
LEMMA LastMessage ==
  ASSUME NEW s \in Seq(Message), s # <<>>
  PROVE  \E front \in Seq(Message), m \in Message :
           /\ s = Append(front, m) /\ Len(s) = Len(front) + 1
           /\ front = <<>> => Head(s) = m /\ Tail(s) = <<>>
           /\ front # <<>> => Head(s) = Head(front) /\ Tail(s) = Append(Tail(front), m)
<1>1. PICK front \in Seq(Message), m \in Message : s = Append(front, m)
  BY ONLY s # <<>>, s \in Seq(Message), SequenceEmptyOrAppend
<1>2. Len(s) = Len(front) + 1
  BY <1>1
<1>3. /\ Head(s) = IF front = <<>> THEN m ELSE Head(front)
      /\ Tail(s) = IF front = <<>> THEN <<>> ELSE Append(Tail(front), m)
  BY ONLY <1>1, front \in Seq(Message), HeadTailAppend
<1> QED
  BY <1>1, <1>2, <1>3

\* Several messages make of a list what those behind the first make of it once the first
\* is read.
ReadsFirst(list, messages) ==
  ListAfter(list, messages) = ListAfter(Merged(list, Head(messages)), Tail(messages))

\* Reading the first of several messages changes nothing about what they make of a list
\* (ReceiveDeviceMessage leaves View as it is).
LEMMA FirstRead ==
  ASSUME NEW list \in DeviceLists, NEW messages \in Seq(Message), messages # <<>>
  PROVE  ReadsFirst(list, messages)
<1> DEFINE S == {n \in Nat : \A s \in Seq(Message) : Len(s) = n + 1 => ReadsFirst(list, s)}
<1>1. Merged(list, Head(messages)) \in DeviceLists
  BY MergedTypes
<1>3. 0 \in S
  <2>1. ASSUME NEW s \in Seq(Message), Len(s) = 0 + 1 PROVE ReadsFirst(list, s)
    <3>1. PICK m \in Message : s = Append(<<>>, m) /\ Head(s) = m /\ Tail(s) = <<>>
      <4>1. s # <<>> /\ Len(s) = 1
        BY ONLY <2>1, s \in Seq(Message)
      <4>2. \A front \in Seq(Message) : 1 = Len(front) + 1 => front = <<>>
        OBVIOUS
      <4> QED
        BY ONLY <4>1, <4>2, s \in Seq(Message), LastMessage
    <3>2. ListAfter(list, s) = Merged(list, m)
      <4>1. <<>> \in Seq(Message)
        OBVIOUS
      <4>2. ListAfter(list, Append(<<>>, m)) = Merged(ListAfter(list, <<>>), m)
        BY ONLY <4>1, list \in DeviceLists, m \in Message, ListGrows
      <4>3. ListAfter(list, <<>>) = list
        BY ListUnchanged
      <4> QED
        BY ONLY <3>1, <4>2, <4>3
    <3>3. ListAfter(Merged(list, m), <<>>) = Merged(list, m)
      BY MergedTypes, ListUnchanged
    <3> QED
      BY <3>1, <3>2, <3>3 DEF ReadsFirst
  <2> QED
    BY <2>1
<1>4. ASSUME NEW n \in Nat, n \in S PROVE n + 1 \in S
  <2>1. ASSUME NEW s \in Seq(Message), Len(s) = (n + 1) + 1 PROVE ReadsFirst(list, s)
    <3>1. PICK front \in Seq(Message), m \in Message :
            /\ s = Append(front, m) /\ Len(s) = Len(front) + 1
            /\ front # <<>> => Head(s) = Head(front) /\ Tail(s) = Append(Tail(front), m)
      <4>1. s # <<>>
        BY ONLY <2>1, s \in Seq(Message), n \in Nat
      <4> QED
        BY ONLY <4>1, s \in Seq(Message), LastMessage
    <3>2. front # <<>> /\ Len(front) = n + 1
      BY ONLY <2>1, <3>1, front \in Seq(Message), n \in Nat
    <3>3. ReadsFirst(list, front)
      BY <1>4, <3>2
    <3>4. Head(front) \in Message /\ Tail(front) \in Seq(Message)
      BY ONLY <3>2, front \in Seq(Message)
    <3>5. Merged(list, Head(front)) \in DeviceLists
      BY <3>4, MergedTypes
    <3>6. ListAfter(list, s) = Merged(ListAfter(list, front), m)
      BY <3>1, ListGrows
    <3>7. ListAfter(Merged(list, Head(front)), Append(Tail(front), m))
            = Merged(ListAfter(Merged(list, Head(front)), Tail(front)), m)
      BY <3>4, <3>5, ListGrows
    <3> QED
      BY <3>1, <3>3, <3>6, <3>7, <3>2 DEF ReadsFirst
  <2> QED
    BY <2>1
<1>5. Nat \subseteq S
  <2> HIDE DEF S
  <2> QED
    BY <1>3, <1>4, Induction
<1>6. Len(messages) - 1 \in Nat /\ Len(messages) = (Len(messages) - 1) + 1
  OBVIOUS
<1>7. Len(messages) - 1 \in S
  <2> HIDE DEF S
  <2> QED
    BY <1>5, <1>6
<1> QED
  BY <1>6, <1>7

-----------------------------------------------------------------------------
(* A list that follows the registry.                                       *)

\* A list has the devices of the registry, as it describes them, and as busy as they are
\* unless they are in the batch.
Follows(list, registry, batch) ==
  /\ DOMAIN list = DOMAIN registry
  /\ \A w \in DOMAIN registry : /\ Stable(list[w]) = Stable(registry[w])
                                /\ w \notin batch => list[w] = registry[w]

\* A device that registers or is described anew is announced at once.
LEMMA FollowsJoined ==
  ASSUME NEW list \in DeviceLists, NEW registry \in DeviceLists, NEW batch,
         Follows(list, registry, batch), NEW w \in Worker, NEW device \in Device
  PROVE  Follows(With(list, w, device), With(registry, w, device), batch)
<1> DEFINE newer == With(list, w, device)
           new == With(registry, w, device)
<1>1. /\ DOMAIN newer = DOMAIN list \union {w} /\ newer[w] = device
      /\ \A v \in DOMAIN list : v # w => newer[v] = list[v]
  BY WithDevice
<1>2. /\ DOMAIN new = DOMAIN registry \union {w} /\ new[w] = device
      /\ \A v \in DOMAIN registry : v # w => new[v] = registry[v]
  BY WithDevice
<1> HIDE DEF newer, new
<1> QED
  BY <1>1, <1>2 DEF Follows, newer, new

\* A device that is only busier or less busy goes into the batch.
LEMMA FollowsBatched ==
  ASSUME NEW list \in DeviceLists, NEW registry \in DeviceLists, NEW batch,
         Follows(list, registry, batch), NEW w \in DOMAIN registry, NEW device \in Device,
         Stable(registry[w]) = Stable(device)
  PROVE  Follows(list, With(registry, w, device), batch \union {w})
<1> DEFINE new == With(registry, w, device)
<1>1. w \in Worker
  BY DeviceListOf
<1>2. /\ DOMAIN new = DOMAIN registry \union {w} /\ new[w] = device
      /\ \A v \in DOMAIN registry : v # w => new[v] = registry[v]
  BY <1>1, WithDevice
<1> HIDE DEF new
<1> QED
  BY <1>2 DEF Follows, new

\* A device that leaves is announced at once.
LEMMA FollowsLeft ==
  ASSUME NEW list \in DeviceLists, NEW registry \in DeviceLists, NEW batch,
         Follows(list, registry, batch), NEW w
  PROVE  Follows(Without(list, w), Without(registry, w), batch \ {w})
<1> DEFINE newer == Without(list, w)
           new == Without(registry, w)
<1>1. DOMAIN newer = DOMAIN list \ {w} /\ \A v \in DOMAIN list : v # w => newer[v] = list[v]
  BY WithoutDevice
<1>2. DOMAIN new = DOMAIN registry \ {w} /\ \A v \in DOMAIN registry : v # w => new[v] = registry[v]
  BY WithoutDevice
<1> HIDE DEF newer, new
<1> QED
  BY <1>1, <1>2 DEF Follows, newer, new

\* The batch leaves nothing to be announced.
LEMMA FollowsFlushed ==
  ASSUME NEW list \in DeviceLists, NEW registry \in DeviceLists, NEW batch,
         Follows(list, registry, batch), NEW message, message.type = "device.activity",
         message.activities = [w \in batch \intersect DOMAIN registry |-> Activity(registry[w])]
  PROVE  /\ message.activities \in ActivityLists
         /\ Follows(Merged(list, message), registry, {})
<1>1. DOMAIN registry \subseteq Worker /\ \A w \in DOMAIN registry : registry[w] \in Device
  BY DeviceListOf
<1>2. message.activities \in [batch \intersect DOMAIN registry -> ActivityRecord]
  BY <1>1, ActivityOf
<1>3. message.activities \in ActivityLists
  BY <1>1, <1>2 DEF ActivityLists
<1> DEFINE merged == Merged(list, message)
<1>4. /\ DOMAIN merged = DOMAIN list
      /\ \A w \in DOMAIN list :
           /\ merged[w] = IF w \in DOMAIN message.activities
                            THEN Busy(list[w], message.activities[w]) ELSE list[w]
           /\ list[w] \in Device
  BY <1>3, MergedActivity
<1> HIDE DEF merged
<1>5. ASSUME NEW w \in DOMAIN registry
      PROVE  merged[w] = registry[w]
  <2>1. w \in DOMAIN list /\ list[w] \in Device /\ registry[w] \in Device
        /\ Stable(list[w]) = Stable(registry[w])
    BY <1>1, <1>4 DEF Follows
  <2>2. CASE w \in batch
    <3>1. w \in DOMAIN message.activities /\ message.activities[w] = Activity(registry[w])
      BY <2>2
    <3>2. Activity(registry[w]) \in ActivityRecord
      BY <2>1, ActivityOf
    <3>3. Busy(list[w], Activity(registry[w])) = registry[w]
      BY ONLY <2>1, <3>2, BusyDevice
    <3> QED
      BY <1>4, <2>1, <3>1, <3>3
  <2>3. CASE w \notin batch
    <3>1. w \notin DOMAIN message.activities /\ list[w] = registry[w]
      BY <2>3 DEF Follows
    <3> QED
      BY <1>4, <2>1, <3>1
  <2> QED
    BY <2>2, <2>3
<1>6. DOMAIN merged = DOMAIN registry
  BY <1>4 DEF Follows
<1> QED
  BY <1>3, <1>5, <1>6 DEF Follows, merged

-----------------------------------------------------------------------------
(* The inductive invariant.                                                *)

\* What is on the way to the observers.
Mail == inTransit \in [Observer -> Seq(Message)]

\* Whenever a batch is under way, its timer is set (DeviceAnnouncer.queueActivity).
BatchesHaveATimer == pendingActivityDeviceIds # {} => activityTimer

\* Who has read everything, when no batch is under way, has the registry as it is.
SettledViewsAgree ==
  \A o \in deviceSubscriberIds :
    socket[o] = "open" /\ inTransit[o] = <<>> /\ ~activityTimer => deviceById[o] = devices

\* A connection that is closed is in neither the registry nor the subscriptions, and does
\* not come back (ConnectionHub.forget and the close handler).
ClosedLeavesNothing ==
  \A c \in Connection :
    socket[c] = "closed" => c \notin DOMAIN devices /\ c \notin deviceSubscriberIds

\* The inductive invariant.
MembershipInv ==
  /\ MembershipTypeOK
  /\ Mail
  /\ BatchesHaveATimer
  /\ ViewFollowsRegistry

\* View, in terms of the list and the messages on their way.
LEMMA ViewIs ==
  ASSUME NEW o
  PROVE  View(o) = ListAfter(deviceById[o], inTransit[o])
BY DEF View, ListAfter

\* ViewFollowsRegistry says that the lists of those subscribed follow the registry.
LEMMA FollowedBySubscribers ==
  ViewFollowsRegistry <=>
    \A o \in deviceSubscriberIds :
      socket[o] = "open" => Follows(View(o), devices, pendingActivityDeviceIds)
BY DEF ViewFollowsRegistry, Follows

\* What an observer will see is a list of devices.
LEMMA ViewTypes ==
  ASSUME MembershipTypeOK, Mail, NEW o \in Observer
  PROVE  View(o) \in DeviceLists
<1>1. deviceById[o] \in DeviceLists /\ inTransit[o] \in Seq(Message)
  BY DEF MembershipTypeOK, Mail
<1>2. ListAfter(deviceById[o], inTransit[o]) \in DeviceLists
  <2>1. PICK m : m \in Message
    <3>1. [type |-> "devices", devices |-> <<>>, revision |-> 0] \in Message
      BY NoDevices DEF Message
    <3> QED
      BY <3>1
  <2> QED
    BY <1>1, <2>1, ListGrows
<1> QED
  BY <1>2, ViewIs

\* What a frame changes about the lists of the observers (sendToDeviceSubscribers).
LEMMA Delivered ==
  ASSUME MembershipTypeOK, Mail, NEW recipients, NEW message \in Message,
         Deliver(recipients, message), deviceById' = deviceById
  PROVE  /\ Mail'
         /\ \A o \in Observer :
              View(o)' = IF o \in recipients /\ socket[o] = "open"
                           THEN Merged(View(o), message) ELSE View(o)
<1>1. ASSUME NEW o \in Observer
      PROVE  /\ inTransit'[o] \in Seq(Message)
             /\ View(o)' = IF o \in recipients /\ socket[o] = "open"
                             THEN Merged(View(o), message) ELSE View(o)
  <2>1. deviceById[o] \in DeviceLists /\ inTransit[o] \in Seq(Message)
    BY DEF MembershipTypeOK, Mail
  <2>2. inTransit'[o] = IF o \in recipients /\ socket[o] = "open"
                          THEN Append(inTransit[o], message) ELSE inTransit[o]
    BY DEF Deliver
  <2>3. View(o) = ListAfter(deviceById[o], inTransit[o])
    BY ViewIs
  <2>4. View(o)' = ListAfter(deviceById[o], inTransit'[o])
    BY DEF View, ListAfter
  <2>5. /\ Append(inTransit[o], message) \in Seq(Message)
        /\ ListAfter(deviceById[o], Append(inTransit[o], message)) = Merged(View(o), message)
    BY <2>1, <2>3, ListGrows
  <2> QED
    BY <2>1, <2>2, <2>3, <2>4, <2>5
<1>2. inTransit' = [o \in Observer |-> inTransit'[o]]
  BY DEF Deliver
<1>3. Mail'
  BY <1>1, <1>2 DEF Mail
<1> QED
  BY <1>1, <1>3

\* Nothing is sent, and nothing is read.
LEMMA NothingSent ==
  ASSUME inTransit' = inTransit, deviceById' = deviceById
  PROVE  (Mail => Mail') /\ \A o : View(o)' = View(o)
BY DEF Mail, View

\* A gateway that has just started.
LEMMA InitInv == Init => MembershipInv
<1> SUFFICES ASSUME Init PROVE MembershipInv
  OBVIOUS
<1>1. MembershipTypeOK
  <2>1. /\ devices \in DeviceLists
        /\ deviceById \in [Observer -> DeviceLists]
    BY NoDevices DEF Init
  <2>2. requests \in [Observer -> 0..MaxRequests]
    BY MembershipAssumption DEF Init
  <2>3. /\ socket \in [Connection -> {"open", "closing", "closed"}]
        /\ isAlive \in [Connection -> BOOLEAN]
    BY DEF Init
  <2>4. /\ deviceListRevision \in Nat /\ pendingActivityDeviceIds \subseteq Worker
        /\ activityTimer \in BOOLEAN /\ deviceSubscriberIds \subseteq Observer
        /\ hung \subseteq Connection
    BY DEF Init
  <2> QED
    BY <2>1, <2>2, <2>3, <2>4 DEF MembershipTypeOK
<1>2. Mail
  BY DEF Init, Mail
<1>3. BatchesHaveATimer /\ ViewFollowsRegistry
  BY DEF Init, BatchesHaveATimer, ViewFollowsRegistry
<1> QED
  BY <1>1, <1>2, <1>3 DEF MembershipInv

\* DeviceRegistry.add and its announcement, whatever the device.
LEMMA AddInv ==
  ASSUME MembershipInv, NEW w \in Worker, NEW device \in Device, Add(w, device),
         UNCHANGED <<deviceSubscriberIds, heartbeatVars, observerVars>>
  PROVE  MembershipInv'
<1> USE DEF registryVars, announcerVars, heartbeatVars, observerVars
<1>0. MembershipTypeOK /\ Mail /\ BatchesHaveATimer /\ ViewFollowsRegistry
  BY DEF MembershipInv
<1>1. /\ devices \in DeviceLists /\ deviceListRevision \in Nat
      /\ pendingActivityDeviceIds \subseteq Worker /\ activityTimer \in BOOLEAN
      /\ deviceSubscriberIds \subseteq Observer
  BY <1>0 DEF MembershipTypeOK
<1>2. \A o \in deviceSubscriberIds :
        /\ View(o) \in DeviceLists
        /\ socket[o] = "open" => Follows(View(o), devices, pendingActivityDeviceIds)
  BY <1>0, <1>1, ViewTypes, FollowedBySubscribers
<1>3. \A o \in deviceSubscriberIds : socket'[o] = "open" =>
        o \in Observer /\ socket[o] = "open"
  BY <1>1
<1>4. CASE w \in DOMAIN devices /\ devices[w] = device
           /\ UNCHANGED <<registryVars, announcerVars, inTransit>>
  <2>1. Mail' /\ \A o : View(o)' = View(o)
    BY <1>0, <1>4, NothingSent
  <2>2. ViewFollowsRegistry'
    BY <1>0, <1>4, <2>1 DEF ViewFollowsRegistry
  <2> QED
    BY <1>0, <1>4, <2>1, <2>2 DEF MembershipInv, MembershipTypeOK, BatchesHaveATimer
<1>5. CASE /\ devices' = With(devices, w, device)
           /\ deviceListRevision' = deviceListRevision + 1
           /\ SendToDeviceSubscribers(Joined(w, device)) /\ UNCHANGED announcerVars
  <2>1. Joined(w, device) \in Message
    BY <1>1 DEF Joined, Message
  <2>2. Mail' /\ \A o \in Observer :
          View(o)' = IF o \in deviceSubscriberIds /\ socket[o] = "open"
                       THEN Merged(View(o), Joined(w, device)) ELSE View(o)
    BY <1>0, <1>5, <2>1, Delivered DEF SendToDeviceSubscribers
  <2>3. \A list : Merged(list, Joined(w, device)) = With(list, w, device)
    BY DEF Merged, Joined
  <2>4. ASSUME NEW o \in deviceSubscriberIds, socket'[o] = "open"
        PROVE  Follows(View(o)', devices', pendingActivityDeviceIds')
    <3>1. o \in Observer /\ socket[o] = "open"
      BY <1>3, <2>4
    <3>2. View(o)' = With(View(o), w, device)
      BY <2>2, <2>3, <3>1
    <3>3. View(o) \in DeviceLists /\ Follows(View(o), devices, pendingActivityDeviceIds)
      BY <1>2, <3>1
    <3>4. Follows(With(View(o), w, device), With(devices, w, device), pendingActivityDeviceIds)
      BY <1>1, <3>3, FollowsJoined
    <3> QED
      BY <1>5, <3>2, <3>4
  <2>5. ViewFollowsRegistry'
    BY <2>4 DEF ViewFollowsRegistry, Follows
  <2>6. devices' \in DeviceLists
    BY <1>1, <1>5, WithDevice
  <2>7. MembershipTypeOK'
    BY <1>0, <1>5, <2>6 DEF MembershipTypeOK
  <2> QED
    BY <1>0, <1>5, <2>2, <2>5, <2>7 DEF MembershipInv, BatchesHaveATimer
<1>6. CASE /\ devices' = With(devices, w, device)
           /\ deviceListRevision' = deviceListRevision + 1
           /\ w \in DOMAIN devices /\ Stable(devices[w]) = Stable(device)
           /\ QueueActivity(w) /\ UNCHANGED inTransit
  <2>1. Mail' /\ \A o : View(o)' = View(o)
    BY <1>0, <1>6, NothingSent
  <2>2. ASSUME NEW o \in deviceSubscriberIds, socket'[o] = "open"
        PROVE  Follows(View(o)', devices', pendingActivityDeviceIds')
    <3>1. View(o) \in DeviceLists /\ Follows(View(o), devices, pendingActivityDeviceIds)
      BY <1>2, <1>3, <2>2
    <3>2. pendingActivityDeviceIds' = pendingActivityDeviceIds \union {w}
      BY <1>6, <2>2 DEF QueueActivity
    <3>3. Follows(View(o), With(devices, w, device), pendingActivityDeviceIds \union {w})
      BY <1>1, <1>6, <3>1, FollowsBatched
    <3> QED
      BY <1>6, <2>1, <3>2, <3>3
  <2>3. ViewFollowsRegistry'
    BY <2>2 DEF ViewFollowsRegistry, Follows
  <2>4. devices' \in DeviceLists
    BY <1>1, <1>6, WithDevice
  <2>5. /\ pendingActivityDeviceIds' \subseteq Worker /\ activityTimer' \in BOOLEAN
        /\ BatchesHaveATimer'
    <3>1. CASE UNCHANGED announcerVars
      BY <1>0, <1>1, <3>1 DEF BatchesHaveATimer
    <3>2. CASE /\ pendingActivityDeviceIds' = pendingActivityDeviceIds \union {w}
               /\ activityTimer' = TRUE
      BY <1>1, <3>2 DEF BatchesHaveATimer
    <3> QED
      BY <1>6, <3>1, <3>2 DEF QueueActivity
  <2>6. MembershipTypeOK'
    BY <1>0, <1>6, <2>4, <2>5 DEF MembershipTypeOK
  <2> QED
    BY <2>1, <2>3, <2>5, <2>6 DEF MembershipInv
<1> QED
  BY <1>4, <1>5, <1>6 DEF Add

\* flushDeviceActivity.
LEMMA FlushInv ==
  ASSUME MembershipInv, FlushDeviceActivity
  PROVE  MembershipInv'
<1> USE DEF registryVars, announcerVars, heartbeatVars, observerVars
<1>0. MembershipTypeOK /\ Mail /\ BatchesHaveATimer /\ ViewFollowsRegistry
  BY DEF MembershipInv
<1>1. /\ devices \in DeviceLists /\ deviceListRevision \in Nat /\ deviceSubscriberIds \subseteq Observer
      /\ devices' = devices /\ deviceSubscriberIds' = deviceSubscriberIds /\ socket' = socket
      /\ deviceById' = deviceById /\ pendingActivityDeviceIds' = {}
  BY <1>0 DEF MembershipTypeOK, FlushDeviceActivity
<1>2. \A o \in deviceSubscriberIds :
        /\ o \in Observer /\ View(o) \in DeviceLists
        /\ socket[o] = "open" => Follows(View(o), devices, pendingActivityDeviceIds)
  BY <1>0, <1>1, ViewTypes, FollowedBySubscribers
<1>3. MembershipTypeOK' /\ BatchesHaveATimer'
  BY <1>0, <1>1 DEF MembershipTypeOK, BatchesHaveATimer, FlushDeviceActivity
<1>4. ActivityMessage.type = "device.activity" /\ ActivityMessage.revision = deviceListRevision
      /\ ActivityMessage.activities
           = [w \in pendingActivityDeviceIds \intersect DOMAIN devices |-> Activity(devices[w])]
  BY DEF ActivityMessage
<1>5. CASE DOMAIN ActivityMessage.activities = {} /\ inTransit' = inTransit
  <2>1. Mail' /\ \A o : View(o)' = View(o)
    BY <1>0, <1>1, <1>5, NothingSent
  <2>2. pendingActivityDeviceIds \intersect DOMAIN devices = {}
    BY <1>4, <1>5
  <2>3. ViewFollowsRegistry'
    BY <1>0, <1>1, <2>1, <2>2 DEF ViewFollowsRegistry
  <2> QED
    BY <1>3, <2>1, <2>3 DEF MembershipInv
<1>6. CASE SendToDeviceSubscribers(ActivityMessage)
  <2>1. ActivityMessage \in Message
    <3>1. DOMAIN devices \subseteq Worker /\ \A w \in DOMAIN devices : devices[w] \in Device
      BY <1>1, DeviceListOf
    <3>2. ActivityMessage.activities \in [pendingActivityDeviceIds \intersect DOMAIN devices -> ActivityRecord]
      BY <1>4, <3>1, ActivityOf
    <3>3. ActivityMessage.activities \in ActivityLists
      BY <3>1, <3>2 DEF ActivityLists
    <3> QED
      BY <1>1, <3>3 DEF ActivityMessage, Message
  <2>2. Mail' /\ \A o \in Observer :
          View(o)' = IF o \in deviceSubscriberIds /\ socket[o] = "open"
                       THEN Merged(View(o), ActivityMessage) ELSE View(o)
    BY <1>0, <1>1, <1>6, <2>1, Delivered DEF SendToDeviceSubscribers
  <2>3. ASSUME NEW o \in deviceSubscriberIds, socket[o] = "open"
        PROVE  Follows(View(o)', devices, {})
    <3>1. View(o) \in DeviceLists /\ Follows(View(o), devices, pendingActivityDeviceIds) /\ o \in Observer
      BY <1>2, <2>3
    <3>2. Follows(Merged(View(o), ActivityMessage), devices, {})
      BY <1>1, <1>4, <3>1, FollowsFlushed
    <3> QED
      BY <2>2, <2>3, <3>1, <3>2
  <2>4. ViewFollowsRegistry'
    BY <1>1, <2>3 DEF ViewFollowsRegistry, Follows
  <2> QED
    BY <1>3, <2>2, <2>4 DEF MembershipInv
<1> QED
  BY <1>5, <1>6 DEF FlushDeviceActivity

\* The close handler.
LEMMA ClosedInv ==
  ASSUME MembershipInv, NEW c \in Connection, Closed(c)
  PROVE  MembershipInv'
<1> USE DEF registryVars, announcerVars, heartbeatVars, observerVars
<1>0. MembershipTypeOK /\ Mail /\ BatchesHaveATimer /\ ViewFollowsRegistry
  BY DEF MembershipInv
<1>1. /\ devices \in DeviceLists /\ deviceListRevision \in Nat
      /\ pendingActivityDeviceIds \subseteq Worker /\ activityTimer \in BOOLEAN
      /\ deviceSubscriberIds \subseteq Observer
      /\ socket \in [Connection -> {"open", "closing", "closed"}]
      /\ socket[c] = "closing" /\ socket' = [socket EXCEPT ![c] = "closed"]
      /\ deviceSubscriberIds' = deviceSubscriberIds \ {c}
      /\ isAlive' = isAlive /\ hung' = hung /\ deviceById' = deviceById /\ requests' = requests
  BY <1>0 DEF MembershipTypeOK, Closed
<1>2. ASSUME NEW o \in deviceSubscriberIds', socket'[o] = "open"
      PROVE  /\ o \in Observer /\ o \in deviceSubscriberIds /\ socket[o] = "open"
             /\ View(o) \in DeviceLists /\ Follows(View(o), devices, pendingActivityDeviceIds)
  <2>1. o \in Observer /\ o \in deviceSubscriberIds /\ o \in Connection /\ o # c
    BY <1>1, <1>2 DEF Connection
  <2>2. socket[o] = "open"
    BY <1>1, <1>2, <2>1
  <2> QED
    BY <1>0, <2>1, <2>2, ViewTypes, FollowedBySubscribers
<1>3. socket' \in [Connection -> {"open", "closing", "closed"}]
  BY <1>1
<1>4. CASE c \in DOMAIN devices
  <2> DEFINE left == [type |-> "device.left", worker |-> c, revision |-> deviceListRevision + 1]
  <2>1. /\ devices' = Without(devices, c) /\ deviceListRevision' = deviceListRevision + 1
        /\ pendingActivityDeviceIds' = pendingActivityDeviceIds \ {c}
        /\ Deliver(deviceSubscriberIds, left) /\ activityTimer' = activityTimer
    BY <1>4 DEF Closed, RemoveDevice, SendToDeviceSubscribers
  <2>2. left \in Message
    BY <1>1 DEF Message
  <2>3. \A list : Merged(list, left) = Without(list, c)
    BY DEF Merged
  <2> HIDE DEF left
  <2>4. Mail' /\ \A o \in Observer :
          View(o)' = IF o \in deviceSubscriberIds /\ socket[o] = "open"
                       THEN Merged(View(o), left) ELSE View(o)
    BY <1>0, <1>1, <2>1, <2>2, Delivered
  <2>5. ASSUME NEW o \in deviceSubscriberIds', socket'[o] = "open"
        PROVE  Follows(View(o)', devices', pendingActivityDeviceIds')
    <3>1. /\ o \in Observer /\ o \in deviceSubscriberIds /\ socket[o] = "open"
          /\ View(o) \in DeviceLists /\ Follows(View(o), devices, pendingActivityDeviceIds)
      BY <1>2, <2>5
    <3>2. View(o)' = Without(View(o), c)
      BY <2>3, <2>4, <3>1
    <3>3. Follows(Without(View(o), c), Without(devices, c), pendingActivityDeviceIds \ {c})
      BY <1>1, <3>1, FollowsLeft
    <3> QED
      BY <2>1, <3>2, <3>3
  <2>6. ViewFollowsRegistry'
    BY <2>5 DEF ViewFollowsRegistry, Follows
  <2>7. devices' \in DeviceLists
    BY <1>1, <2>1, WithoutDevice
  <2>8. MembershipTypeOK' /\ BatchesHaveATimer'
    BY <1>0, <1>1, <1>3, <2>1, <2>7 DEF MembershipTypeOK, BatchesHaveATimer
  <2> QED
    BY <2>4, <2>6, <2>8 DEF MembershipInv
<1>5. CASE c \notin DOMAIN devices
  <2>1. UNCHANGED <<registryVars, announcerVars, inTransit>>
    BY <1>5 DEF Closed, RemoveDevice
  <2>2. Mail' /\ \A o : View(o)' = View(o)
    BY <1>0, <1>1, <2>1, NothingSent
  <2>3. ViewFollowsRegistry'
    BY <1>2, <2>1, <2>2 DEF ViewFollowsRegistry, Follows
  <2>4. MembershipTypeOK' /\ BatchesHaveATimer'
    BY <1>0, <1>1, <1>3, <2>1 DEF MembershipTypeOK, BatchesHaveATimer
  <2> QED
    BY <2>2, <2>3, <2>4 DEF MembershipInv
<1> QED
  BY <1>4, <1>5

\* `observe` and devices.subscribe.
LEMMA SubscribeInv ==
  ASSUME MembershipInv, NEW o \in Observer, Subscribe(o)
  PROVE  MembershipInv'
<1> USE DEF registryVars, announcerVars, heartbeatVars, observerVars
<1>0. MembershipTypeOK /\ Mail /\ BatchesHaveATimer /\ ViewFollowsRegistry
  BY DEF MembershipInv
<1> DEFINE list == [type |-> "devices", devices |-> devices, revision |-> deviceListRevision]
<1>1. /\ devices \in DeviceLists /\ deviceListRevision \in Nat
      /\ deviceSubscriberIds \subseteq Observer /\ requests \in [Observer -> 0..MaxRequests]
  BY <1>0 DEF MembershipTypeOK
<1>2. /\ socket[o] = "open" /\ deviceSubscriberIds' = deviceSubscriberIds \union {o}
      /\ requests[o] < MaxRequests /\ requests' = [requests EXCEPT ![o] = @ + 1]
      /\ Deliver({o}, list)
      /\ UNCHANGED <<registryVars, announcerVars, heartbeatVars, deviceById>>
  BY DEF Subscribe, Heard
<1>3. list \in Message /\ \A any : Merged(any, list) = devices
  BY <1>1 DEF Message, Merged
<1> HIDE DEF list
<1>4. Mail' /\ \A p \in Observer :
        View(p)' = IF p \in {o} /\ socket[p] = "open" THEN Merged(View(p), list) ELSE View(p)
  BY <1>0, <1>2, <1>3, Delivered
<1>5. ASSUME NEW p \in deviceSubscriberIds', socket'[p] = "open"
      PROVE  Follows(View(p)', devices, pendingActivityDeviceIds)
  <2>1. p \in Observer /\ socket[p] = "open"
    BY <1>1, <1>2, <1>5
  <2>2. CASE p = o
    <3>1. View(p)' = devices
      BY <1>2, <1>3, <1>4, <2>2
    <3> QED
      BY <3>1 DEF Follows
  <2>3. CASE p # o
    <3>1. View(p)' = View(p) /\ p \in deviceSubscriberIds
      BY <1>2, <1>4, <1>5, <2>1, <2>3
    <3> QED
      BY <1>0, <2>1, <3>1, FollowedBySubscribers
  <2> QED
    BY <2>2, <2>3
<1>6. ViewFollowsRegistry'
  BY <1>2, <1>5 DEF ViewFollowsRegistry, Follows
<1>7. requests' \in [Observer -> 0..MaxRequests]
  BY <1>1, <1>2, MembershipAssumption
<1>8. MembershipTypeOK' /\ BatchesHaveATimer'
  BY <1>0, <1>2, <1>7 DEF MembershipTypeOK, BatchesHaveATimer
<1> QED
  BY <1>4, <1>6, <1>8 DEF MembershipInv

\* ObserverClient and the monitor page read what they were sent.
LEMMA ReceiveInv ==
  ASSUME MembershipInv, NEW o \in Observer, ReceiveDeviceMessage(o)
  PROVE  MembershipInv'
<1> USE DEF registryVars, announcerVars, heartbeatVars, observerVars
<1>0. MembershipTypeOK /\ Mail /\ BatchesHaveATimer /\ ViewFollowsRegistry
  BY DEF MembershipInv
<1>1. /\ deviceById \in [Observer -> DeviceLists] /\ inTransit \in [Observer -> Seq(Message)]
      /\ deviceSubscriberIds \subseteq Observer /\ inTransit[o] # <<>>
      /\ deviceById' = [deviceById EXCEPT ![o] = Merged(@, Head(inTransit[o]))]
      /\ inTransit' = [inTransit EXCEPT ![o] = Tail(@)]
      /\ UNCHANGED <<registryVars, announcerVars, deviceSubscriberIds, heartbeatVars, requests>>
  BY <1>0 DEF MembershipTypeOK, Mail, ReceiveDeviceMessage
<1>2. /\ deviceById[o] \in DeviceLists /\ inTransit[o] \in Seq(Message)
      /\ Head(inTransit[o]) \in Message /\ Tail(inTransit[o]) \in Seq(Message)
  BY <1>1
<1>3. Merged(deviceById[o], Head(inTransit[o])) \in DeviceLists
  BY <1>2, MergedTypes
<1>4. ASSUME NEW p \in Observer PROVE View(p)' = View(p)
  <2>1. View(p) = ListAfter(deviceById[p], inTransit[p]) /\ View(p)' = ListAfter(deviceById'[p], inTransit'[p])
    BY DEF View, ListAfter
  <2>2. CASE p = o
    <3>1. ListAfter(deviceById[o], inTransit[o])
            = ListAfter(Merged(deviceById[o], Head(inTransit[o])), Tail(inTransit[o]))
      BY <1>1, <1>2, FirstRead DEF ReadsFirst
    <3>2. deviceById'[o] = Merged(deviceById[o], Head(inTransit[o])) /\ inTransit'[o] = Tail(inTransit[o])
      BY <1>1
    <3> QED
      BY ONLY <2>1, <2>2, <3>1, <3>2
  <2>3. CASE p # o
    <3>1. deviceById'[p] = deviceById[p] /\ inTransit'[p] = inTransit[p]
      BY <1>1, <2>3
    <3> QED
      BY ONLY <2>1, <3>1
  <2> QED
    BY <2>2, <2>3
<1>5. ViewFollowsRegistry'
  BY <1>0, <1>1, <1>4 DEF ViewFollowsRegistry
<1>6. deviceById' \in [Observer -> DeviceLists] /\ Mail'
  BY <1>1, <1>2, <1>3 DEF Mail
<1>7. MembershipTypeOK' /\ BatchesHaveATimer'
  BY <1>0, <1>1, <1>6 DEF MembershipTypeOK, BatchesHaveATimer
<1> QED
  BY <1>5, <1>6, <1>7 DEF MembershipInv

\* A step that changes nothing but connections and subscriptions, and brings nobody a
\* subscription or an open socket.
LEMMA ConnectionStepInv ==
  ASSUME MembershipInv, MembershipTypeOK', inTransit' = inTransit, deviceById' = deviceById,
         UNCHANGED <<registryVars, announcerVars>>,
         deviceSubscriberIds' \subseteq deviceSubscriberIds,
         \A o \in Observer : socket'[o] = "open" => socket[o] = "open"
  PROVE  MembershipInv'
<1> USE DEF registryVars, announcerVars
<1>0. MembershipTypeOK /\ Mail /\ BatchesHaveATimer /\ ViewFollowsRegistry
  BY DEF MembershipInv
<1>1. Mail' /\ \A o : View(o)' = View(o)
  BY <1>0, NothingSent
<1>2. deviceSubscriberIds \subseteq Observer
  BY <1>0 DEF MembershipTypeOK
<1>3. ViewFollowsRegistry'
  BY <1>0, <1>1, <1>2 DEF ViewFollowsRegistry
<1> QED
  BY <1>0, <1>1, <1>3 DEF MembershipInv, BatchesHaveATimer

\* Every step preserves the invariant.
LEMMA NextInv ==
  ASSUME MembershipInv, [Next]_vars
  PROVE  MembershipInv'
<1> USE DEF registryVars, announcerVars, heartbeatVars, observerVars
<1>0. MembershipTypeOK /\ \A w \in DOMAIN devices : devices[w] \in Device
  <2>1. MembershipTypeOK /\ devices \in DeviceLists
    BY DEF MembershipInv, MembershipTypeOK
  <2> QED
    BY <2>1, DeviceListOf
<1>1. ASSUME NEW w \in Worker,
             Register(w) \/ WorkerState(w) \/ OccupyWorkerAssignment(w) \/ ReleaseWorkerAssignment(w)
      PROVE  MembershipInv'
  <2>1. UNCHANGED <<deviceSubscriberIds, heartbeatVars, observerVars>>
    BY <1>1 DEF Register, WorkerState, OccupyWorkerAssignment, ReleaseWorkerAssignment
  <2>2. \E device \in Device : Add(w, device)
    <3>1. CASE Register(w)
      <4>1. PICK about \in Description, limit \in Limits, state \in {"ready", "draining"} :
              Add(w, [about |-> about, maxConcurrentAssignments |-> limit,
                      workerState |-> state, activeAssignments |-> 0])
        BY <3>1 DEF Register
      <4>2. [about |-> about, maxConcurrentAssignments |-> limit,
             workerState |-> state, activeAssignments |-> 0] \in Device
        BY MembershipAssumption DEF Device
      <4> QED
        BY <4>1, <4>2
    <3>2. CASE WorkerState(w)
      <4>1. PICK state \in {"ready", "draining"}, limit \in Limits :
              Add(w, [devices[w] EXCEPT !.workerState = state, !.maxConcurrentAssignments = limit])
        BY <3>2 DEF WorkerState
      <4>2. devices[w] \in Device
        BY <1>0, <3>2 DEF WorkerState
      <4>3. [devices[w] EXCEPT !.workerState = state, !.maxConcurrentAssignments = limit] \in Device
        BY <4>2 DEF Device
      <4> QED
        BY <4>1, <4>3
    <3>3. CASE OccupyWorkerAssignment(w)
      <4>1. /\ devices[w] \in Device /\ devices[w].activeAssignments < MaxAssignments
            /\ Add(w, [devices[w] EXCEPT !.activeAssignments = @ + 1])
        BY <1>0, <3>3 DEF OccupyWorkerAssignment
      <4>2. [devices[w] EXCEPT !.activeAssignments = @ + 1] \in Device
        BY <4>1, MembershipAssumption DEF Device
      <4> QED
        BY <4>1, <4>2
    <3>4. CASE ReleaseWorkerAssignment(w)
      <4>1. /\ devices[w] \in Device
            /\ Add(w, [devices[w] EXCEPT !.activeAssignments = IF @ = 0 THEN 0 ELSE @ - 1])
        BY <1>0, <3>4 DEF ReleaseWorkerAssignment
      <4>2. [devices[w] EXCEPT !.activeAssignments = IF @ = 0 THEN 0 ELSE @ - 1] \in Device
        BY <4>1, MembershipAssumption DEF Device
      <4> QED
        BY <4>1, <4>2
    <3> QED
      BY <1>1, <3>1, <3>2, <3>3, <3>4
  <2> QED
    BY <2>1, <2>2, AddInv
<1>2. ASSUME NEW o \in Observer, Unsubscribe(o)
      PROVE  MembershipInv'
  <2>1. MembershipTypeOK'
    BY <1>0, <1>2 DEF Unsubscribe, MembershipTypeOK
  <2> QED
    BY <1>2, <2>1, ConnectionStepInv DEF Unsubscribe
<1>3. ASSUME NEW c \in Connection, Leave(c) \/ Hang(c) \/ Pong(c)
      PROVE  MembershipInv'
  <2>1. MembershipTypeOK' /\ \A o \in Observer : socket'[o] = "open" => socket[o] = "open"
    <3>1. CASE Leave(c)
      BY <1>0, <3>1 DEF Leave, MembershipTypeOK, Connection
    <3>2. CASE Hang(c)
      BY <1>0, <3>2 DEF Hang, MembershipTypeOK
    <3>3. CASE Pong(c)
      BY <1>0, <3>3 DEF Pong, MembershipTypeOK
    <3> QED
      BY <1>3, <3>1, <3>2, <3>3
  <2>2. UNCHANGED <<registryVars, announcerVars, deviceSubscriberIds, inTransit, deviceById>>
    BY <1>3 DEF Leave, Hang, Pong
  <2> QED
    BY <2>1, <2>2, ConnectionStepInv
<1>4. ASSUME PingEveryConnection
      PROVE  MembershipInv'
  <2>1. /\ \A c \in Connection : socket'[c] \in {socket[c], "closing"}
        /\ \A c \in Connection : isAlive'[c] \in BOOLEAN
        /\ socket' = [c \in Connection |-> socket'[c]] /\ isAlive' = [c \in Connection |-> isAlive'[c]]
    BY <1>4 DEF PingEveryConnection
  <2>2. socket' \in [Connection -> {"open", "closing", "closed"}] /\ isAlive' \in [Connection -> BOOLEAN]
    BY <1>0, <2>1 DEF MembershipTypeOK
  <2>3. MembershipTypeOK'
    BY <1>0, <1>4, <2>2 DEF MembershipTypeOK, PingEveryConnection
  <2>4. \A o \in Observer : socket'[o] = "open" => socket[o] = "open"
    BY <2>1 DEF Connection
  <2> QED
    BY <1>4, <2>3, <2>4, ConnectionStepInv DEF PingEveryConnection
<1>5. ASSUME UNCHANGED vars
      PROVE  MembershipInv'
  <2>1. MembershipTypeOK'
    BY <1>0, <1>5 DEF MembershipTypeOK, vars
  <2> QED
    BY <1>5, <2>1, ConnectionStepInv DEF vars
<1> QED
  BY <1>1, <1>2, <1>3, <1>4, <1>5, SubscribeInv, ReceiveInv, ClosedInv, FlushInv DEF Next

\* The inductive invariant is an invariant.
LEMMA MembershipInvariant == Spec => []MembershipInv
<1>1. Init => MembershipInv
  BY InitInv
<1>2. MembershipInv /\ [Next]_vars => MembershipInv'
  BY NextInv
<1> QED
  BY <1>1, <1>2, PTL DEF Spec

\* Every step leaves the registry, the batch, the sockets and the observers' lists within
\* their types.
THEOREM MembershipTypes == Spec => []MembershipTypeOK
<1>1. MembershipInv => MembershipTypeOK
  BY DEF MembershipInv
<1> QED
  BY <1>1, MembershipInvariant, PTL

\* Whoever is subscribed is owed nothing more than the batch under way: with what is on
\* its way to it, its list has the devices of the registry, described as the registry
\* describes them, and as busy as they are unless they are in the batch, over any order of
\* joins, changes, departures, late subscriptions and flushes (publishDevice,
\* flushDeviceActivity, mergeActivity).
THEOREM ViewsFollow == Spec => []ViewFollowsRegistry
<1>1. MembershipInv => ViewFollowsRegistry
  BY DEF MembershipInv
<1> QED
  BY <1>1, MembershipInvariant, PTL

\* A batch is never left without the timer that will flush it (queueActivity,
\* flushDeviceActivity).
THEOREM BatchesAreTimed == Spec => []BatchesHaveATimer
<1>1. MembershipInv => BatchesHaveATimer
  BY DEF MembershipInv
<1> QED
  BY <1>1, MembershipInvariant, PTL

\* An observer that has read all it was sent, when no batch is timed, has the registry as
\* it is: what ViewsCatchUp comes back to holds whenever nothing is under way.
THEOREM ViewsSettle == Spec => []SettledViewsAgree
<1>1. MembershipInv => SettledViewsAgree
  <2> SUFFICES ASSUME MembershipInv, NEW o \in deviceSubscriberIds, socket[o] = "open",
                      inTransit[o] = <<>>, ~activityTimer
               PROVE  deviceById[o] = devices
    BY DEF SettledViewsAgree
  <2>1. /\ deviceSubscriberIds \subseteq Observer /\ deviceById \in [Observer -> DeviceLists]
        /\ devices \in DeviceLists
    BY DEF MembershipInv, MembershipTypeOK
  <2>2. pendingActivityDeviceIds = {} /\ Follows(View(o), devices, pendingActivityDeviceIds)
    BY FollowedBySubscribers DEF MembershipInv, BatchesHaveATimer
  <2>3. deviceById[o] \in DeviceLists
    BY <2>1
  <2>4. View(o) = deviceById[o]
    BY <2>3, ListUnchanged, ViewIs
  <2>5. DOMAIN deviceById[o] = DOMAIN devices /\ \A w \in DOMAIN devices : deviceById[o][w] = devices[w]
    BY <2>2, <2>4 DEF Follows
  <2>6. deviceById[o] \in [DOMAIN deviceById[o] -> Device] /\ devices \in [DOMAIN devices -> Device]
    BY <2>1, <2>3, DeviceListOf
  <2> QED
    BY <2>5, <2>6
<1> QED
  BY <1>1, MembershipInvariant, PTL

\* No step registers or subscribes a connection that is closed.
LEMMA ClosedStep ==
  ASSUME MembershipTypeOK, ClosedLeavesNothing, [Next]_vars
  PROVE  ClosedLeavesNothing'
<1> USE DEF registryVars, announcerVars, heartbeatVars, observerVars
<1>0. socket \in [Connection -> {"open", "closing", "closed"}] /\ Worker \subseteq Connection
  BY DEF MembershipTypeOK, Connection
<1>1. ASSUME NEW w \in Worker, NEW device, Add(w, device), socket[w] = "open" \/ w \in DOMAIN devices,
             UNCHANGED <<deviceSubscriberIds, heartbeatVars>>
      PROVE  ClosedLeavesNothing'
  <2>1. DOMAIN devices' \subseteq DOMAIN devices \union {w}
    BY <1>1 DEF Add, With
  <2>2. socket[w] # "closed"
    BY <1>0, <1>1 DEF ClosedLeavesNothing
  <2> QED
    BY <1>1, <2>1, <2>2 DEF ClosedLeavesNothing
<1>2. ASSUME NEW w \in Worker,
             Register(w) \/ WorkerState(w) \/ OccupyWorkerAssignment(w) \/ ReleaseWorkerAssignment(w)
      PROVE  ClosedLeavesNothing'
  <2>1. /\ UNCHANGED <<deviceSubscriberIds, heartbeatVars>>
        /\ socket[w] = "open" \/ w \in DOMAIN devices
        /\ \E device : Add(w, device)
    <3>1. CASE Register(w)
      BY <3>1 DEF Register, Heard
    <3>2. CASE WorkerState(w)
      BY <3>2 DEF WorkerState
    <3>3. CASE OccupyWorkerAssignment(w)
      BY <3>3 DEF OccupyWorkerAssignment
    <3>4. CASE ReleaseWorkerAssignment(w)
      BY <3>4 DEF ReleaseWorkerAssignment
    <3> QED
      BY <1>2, <3>1, <3>2, <3>3, <3>4
  <2> QED
    BY <1>1, <2>1
<1>3. ASSUME NEW c \in Connection, Closed(c)
      PROVE  ClosedLeavesNothing'
  <2>1. /\ socket' = [socket EXCEPT ![c] = "closed"]
        /\ deviceSubscriberIds' = deviceSubscriberIds \ {c}
    BY <1>3 DEF Closed
  <2>2. DOMAIN devices' \subseteq DOMAIN devices \ {c}
    <3>1. CASE c \in DOMAIN devices
      <4>1. devices' = Without(devices, c)
        BY <1>3, <3>1 DEF Closed, RemoveDevice
      <4> QED
        BY <4>1 DEF Without, Restrict
    <3>2. CASE c \notin DOMAIN devices
      BY <1>3, <3>2 DEF Closed, RemoveDevice
    <3> QED
      BY <3>1, <3>2
  <2> QED
    BY <1>0, <2>1, <2>2 DEF ClosedLeavesNothing
<1>4. ASSUME NEW o \in Observer, Subscribe(o)
      PROVE  ClosedLeavesNothing'
  BY <1>4 DEF Subscribe, Heard, ClosedLeavesNothing
<1>5. ASSUME NEW c \in Connection, Leave(c) \/ Hang(c) \/ Pong(c)
      PROVE  ClosedLeavesNothing'
  BY <1>0, <1>5 DEF Leave, Hang, Pong, ClosedLeavesNothing
<1>6. ASSUME NEW o \in Observer, Unsubscribe(o) \/ ReceiveDeviceMessage(o)
      PROVE  ClosedLeavesNothing'
  BY <1>6 DEF Unsubscribe, ReceiveDeviceMessage, ClosedLeavesNothing
<1>7. CASE FlushDeviceActivity
  BY <1>7 DEF FlushDeviceActivity, ClosedLeavesNothing
<1>8. CASE PingEveryConnection
  BY <1>8 DEF PingEveryConnection, ClosedLeavesNothing
<1>9. CASE UNCHANGED vars
  BY <1>9 DEF vars, ClosedLeavesNothing
<1> QED
  BY <1>2, <1>3, <1>4, <1>5, <1>6, <1>7, <1>8, <1>9 DEF Next

\* A connection that has been closed leaves no device and no subscription behind, and
\* nothing brings one back, an assignment it still had included (the close handler,
\* ConnectionHub.forget, releaseWorkerAssignment).
THEOREM ClosedIsGone == Spec => []ClosedLeavesNothing
<1>1. Init => ClosedLeavesNothing
  BY DEF Init, ClosedLeavesNothing
<1>2. MembershipTypeOK /\ ClosedLeavesNothing /\ [Next]_vars => ClosedLeavesNothing'
  BY ClosedStep
<1> QED
  BY <1>1, <1>2, MembershipTypes, PTL DEF Spec

=============================================================================
