--------------------------- MODULE DeviceMembership ---------------------------
(***************************************************************************)
(* Who is connected, as the gateway holds it and as those watching it see  *)
(* it: the DeviceRegistry, the DeviceAnnouncer, which sends what describes *)
(* a device at once and how busy it is in batches, the subscriptions of    *)
(* the ConnectionHub, the WebsocketHeartbeat that closes connections which *)
(* no longer answer, and the lists the ObserverClient of the command line  *)
(* and the monitor page keep by merging what they are sent.                *)
(*                                                                         *)
(* When a worker is given and loses assignments is TaskScheduling's; here  *)
(* it may happen at any time.  `ready` always says workerState = "ready"   *)
(* and is not a field of its own, nor is lastSeenAt, which is announced    *)
(* only along with something else.                                         *)
(***************************************************************************)
EXTENDS Naturals, Sequences, SequencesExt, Functions

CONSTANTS
  Worker,       \* connections that may register as workers
  Observer,     \* connections that may ask for device membership
  Fallible,     \* bound: connections that may end, fall silent or answer a ping late
  Description,  \* what describes a device: its name, stages and the time it registered
  Limits,       \* the values of maxConcurrentAssignments
  MaxAssignments, \* bound: assignments of one worker
  MaxRevision,  \* bound: changes of the device list other than departures
  MaxRequests   \* bound: times an observer subscribes

ASSUME MembershipAssumption ==
  /\ Worker \intersect Observer = {} /\ Fallible \subseteq Worker \union Observer
  /\ Limits \subseteq Nat /\ MaxAssignments \in Nat /\ MaxRevision \in Nat /\ MaxRequests \in Nat

VARIABLES
  devices,                  \* DeviceRegistry: the registered devices
  deviceListRevision,       \* DeviceRegistry: the revision of the list
  pendingActivityDeviceIds, \* DeviceAnnouncer: whose activity has yet to be announced
  activityTimer,            \* DeviceAnnouncer: whether the timer of the batch is set
  deviceSubscriberIds,      \* ConnectionHub: who asked for device membership
  socket,                   \* the gateway's end of each connection
  isAlive,                  \* WebsocketHeartbeat: whether it answered the last ping
  hung,                     \* connections whose other end has silently gone
  inTransit,                \* what the gateway has sent each observer
  deviceById,               \* each observer's own list
  requests                  \* how often each observer has subscribed

registryVars == <<devices, deviceListRevision>>
announcerVars == <<pendingActivityDeviceIds, activityTimer>>
heartbeatVars == <<socket, isAlive, hung>>
observerVars == <<deviceById, requests>>
vars == <<registryVars, announcerVars, deviceSubscriberIds, heartbeatVars, inTransit, observerVars>>

Connection == Worker \union Observer
Device == [about : Description, maxConcurrentAssignments : Limits,
           workerState : {"ready", "draining"}, activeAssignments : 0..MaxAssignments]
Stable(device) == <<device.about, device.maxConcurrentAssignments>>
Activity(device) == [workerState |-> device.workerState, activeAssignments |-> device.activeAssignments]

\* The lists of devices there may be: a record for some of the workers.
DeviceLists == UNION {[ids -> Device] : ids \in SUBSET Worker}

MembershipTypeOK ==
  /\ devices \in DeviceLists
  /\ deviceListRevision \in Nat
  /\ pendingActivityDeviceIds \subseteq Worker
  /\ activityTimer \in BOOLEAN
  /\ deviceSubscriberIds \subseteq Observer
  /\ socket \in [Connection -> {"open", "closing", "closed"}]
  /\ isAlive \in [Connection -> BOOLEAN]
  /\ hung \subseteq Connection
  /\ deviceById \in [Observer -> DeviceLists]
  /\ requests \in [Observer -> 0..MaxRequests]

Init ==
  /\ devices = <<>> /\ deviceListRevision = 0
  /\ pendingActivityDeviceIds = {} /\ activityTimer = FALSE
  /\ deviceSubscriberIds = {}
  /\ socket = [c \in Connection |-> "open"]
  /\ isAlive = [c \in Connection |-> TRUE]
  /\ hung = {}
  /\ inTransit = [o \in Observer |-> <<>>]
  /\ deviceById = [o \in Observer |-> <<>>]
  /\ requests = [o \in Observer |-> 0]

-----------------------------------------------------------------------------
(* The gateway's announcements.                                            *)

\* Every frame is written to a socket that is still open, and to no other.
Deliver(recipients, message) ==
  inTransit' = [o \in Observer |->
                  IF o \in recipients /\ socket[o] = "open" THEN Append(inTransit[o], message)
                                                             ELSE inTransit[o]]

SendToDeviceSubscribers(message) == Deliver(deviceSubscriberIds, message)

With(list, w, device) == [v \in DOMAIN list \union {w} |-> IF v = w THEN device ELSE list[v]]
Without(list, w) == Restrict(list, DOMAIN list \ {w})

Joined(w, device) ==
  [type |-> "device", worker |-> w, device |-> device, revision |-> deviceListRevision + 1]

\* A slip: the timer is taken to be set already.
QueueActivityUnarmed(w) ==
  IF deviceSubscriberIds = {}
    THEN UNCHANGED announcerVars
    ELSE pendingActivityDeviceIds' = pendingActivityDeviceIds \union {w} /\ UNCHANGED activityTimer

\* An activity change is batched, unless nobody would be told of it.
QueueActivity(w) ==
  IF deviceSubscriberIds = {}
    THEN UNCHANGED announcerVars
    ELSE /\ pendingActivityDeviceIds' = pendingActivityDeviceIds \union {w}
         /\ activityTimer' = TRUE

\* DeviceRegistry.add and what publishDevice makes of it, by what changed.
Add(w, device) ==
  \/ /\ w \in DOMAIN devices /\ devices[w] = device
     /\ UNCHANGED <<registryVars, announcerVars, inTransit>>
  \/ /\ deviceListRevision < MaxRevision
     /\ devices' = With(devices, w, device)
     /\ deviceListRevision' = deviceListRevision + 1
     /\ IF w \notin DOMAIN devices \/ Stable(devices[w]) # Stable(device)
          THEN SendToDeviceSubscribers(Joined(w, device)) /\ UNCHANGED announcerVars
          ELSE /\ Activity(devices[w]) # Activity(device)
               /\ QueueActivity(w)
               /\ UNCHANGED inTransit

\* A slip: the announcement of a departure is left to the next list.
RemoveDeviceQuietly(c) ==
  IF c \in DOMAIN devices
    THEN /\ devices' = Without(devices, c)
         /\ deviceListRevision' = deviceListRevision + 1
         /\ pendingActivityDeviceIds' = pendingActivityDeviceIds \ {c}
         /\ UNCHANGED <<inTransit, activityTimer>>
    ELSE UNCHANGED <<registryVars, announcerVars, inTransit>>

\* DeviceRegistry.remove and its announcement.
RemoveDevice(c) ==
  IF c \in DOMAIN devices
    THEN /\ devices' = Without(devices, c)
         /\ deviceListRevision' = deviceListRevision + 1
         /\ pendingActivityDeviceIds' = pendingActivityDeviceIds \ {c}
         /\ SendToDeviceSubscribers([type |-> "device.left", worker |-> c,
                                     revision |-> deviceListRevision + 1])
         /\ UNCHANGED activityTimer
    ELSE UNCHANGED <<registryVars, announcerVars, inTransit>>

\* flushDeviceActivity: the activity of the moment, for the devices still here.
ActivityMessage ==
  [type |-> "device.activity", revision |-> deviceListRevision,
   activities |-> [w \in pendingActivityDeviceIds \intersect DOMAIN devices |-> Activity(devices[w])]]

FlushDeviceActivity ==
  /\ activityTimer
  /\ activityTimer' = FALSE
  /\ pendingActivityDeviceIds' = {}
  /\ IF DOMAIN ActivityMessage.activities = {} THEN UNCHANGED inTransit
                                              ELSE SendToDeviceSubscribers(ActivityMessage)
  /\ UNCHANGED <<registryVars, deviceSubscriberIds, heartbeatVars, observerVars>>

-----------------------------------------------------------------------------
(* What changes the registry.                                              *)

Heard(c) == socket[c] = "open" /\ c \notin hung

\* register: a worker may register again, and starts from no assignment.
Register(w) ==
  /\ Heard(w)
  /\ \E about \in Description, limit \in Limits, state \in {"ready", "draining"} :
       Add(w, [about |-> about, maxConcurrentAssignments |-> limit,
               workerState |-> state, activeAssignments |-> 0])
  /\ UNCHANGED <<deviceSubscriberIds, heartbeatVars, observerVars>>

\* worker.state, which may also set the limit.
WorkerState(w) ==
  /\ Heard(w) /\ w \in DOMAIN devices
  /\ \E state \in {"ready", "draining"}, limit \in Limits :
       Add(w, [devices[w] EXCEPT !.workerState = state, !.maxConcurrentAssignments = limit])
  /\ UNCHANGED <<deviceSubscriberIds, heartbeatVars, observerVars>>

OccupyWorkerAssignment(w) ==
  /\ w \in DOMAIN devices /\ devices[w].activeAssignments < MaxAssignments
  /\ Add(w, [devices[w] EXCEPT !.activeAssignments = @ + 1])
  /\ UNCHANGED <<deviceSubscriberIds, heartbeatVars, observerVars>>

ReleaseWorkerAssignment(w) ==
  /\ w \in DOMAIN devices
  /\ Add(w, [devices[w] EXCEPT !.activeAssignments = IF @ = 0 THEN 0 ELSE @ - 1])
  /\ UNCHANGED <<deviceSubscriberIds, heartbeatVars, observerVars>>

-----------------------------------------------------------------------------
(* Subscriptions, connections and observers.                               *)

\* `observe` and devices.subscribe: the whole list, and every change from now on.
Subscribe(o) ==
  /\ Heard(o) /\ requests[o] < MaxRequests
  /\ requests' = [requests EXCEPT ![o] = @ + 1]
  /\ deviceSubscriberIds' = deviceSubscriberIds \union {o}
  /\ Deliver({o}, [type |-> "devices", devices |-> devices, revision |-> deviceListRevision])
  /\ UNCHANGED <<registryVars, announcerVars, heartbeatVars, deviceById>>

Unsubscribe(o) ==
  /\ Heard(o) /\ o \in deviceSubscriberIds
  /\ deviceSubscriberIds' = deviceSubscriberIds \ {o}
  /\ UNCHANGED <<registryVars, announcerVars, heartbeatVars, inTransit, observerVars>>

\* The other end closes; the gateway's socket no longer takes frames.
Leave(c) ==
  /\ Heard(c) /\ c \in Fallible
  /\ socket' = [socket EXCEPT ![c] = "closing"]
  /\ UNCHANGED <<registryVars, announcerVars, deviceSubscriberIds, isAlive, hung, inTransit, observerVars>>

\* The other end is gone, and nothing tells the gateway.
Hang(c) ==
  /\ Heard(c) /\ c \in Fallible
  /\ hung' = hung \union {c}
  /\ UNCHANGED <<registryVars, announcerVars, deviceSubscriberIds, socket, isAlive, inTransit, observerVars>>

\* A slip: a connection is taken to have answered until it says otherwise.
PingEveryConnectionBlind ==
  LET open == {c \in Fallible : socket[c] = "open"}
  IN /\ socket' = [c \in Connection |-> IF c \in open /\ ~isAlive[c] THEN "closing" ELSE socket[c]]
     /\ UNCHANGED <<isAlive, registryVars, announcerVars, deviceSubscriberIds, hung, inTransit, observerVars>>

\* One round: who did not answer the last ping is terminated, the rest are
\* pinged.  Connections that are not fallible have answered before the next.
PingEveryConnection ==
  LET open == {c \in Fallible : socket[c] = "open"}
  IN /\ socket' = [c \in Connection |-> IF c \in open /\ ~isAlive[c] THEN "closing" ELSE socket[c]]
     /\ isAlive' = [c \in Connection |-> isAlive[c] /\ c \notin open]
     /\ UNCHANGED <<registryVars, announcerVars, deviceSubscriberIds, hung, inTransit, observerVars>>

Pong(c) ==
  /\ Heard(c) /\ ~isAlive[c]
  /\ isAlive' = [isAlive EXCEPT ![c] = TRUE]
  /\ UNCHANGED <<registryVars, announcerVars, deviceSubscriberIds, socket, hung, inTransit, observerVars>>

\* The close handler: ConnectionHub.forget, then the registry and its announcement.
Closed(c) ==
  /\ socket[c] = "closing"
  /\ socket' = [socket EXCEPT ![c] = "closed"]
  /\ deviceSubscriberIds' = deviceSubscriberIds \ {c}
  /\ RemoveDevice(c)
  /\ UNCHANGED <<isAlive, hung, observerVars>>

\* What an observer makes of a message: mergeActivity changes only devices it has.
Merged(list, message) ==
  CASE message.type = "devices" -> message.devices
    [] message.type = "device" -> With(list, message.worker, message.device)
    [] message.type = "device.left" -> Without(list, message.worker)
    [] message.type = "device.activity" ->
         [w \in DOMAIN list |->
            IF w \in DOMAIN message.activities
              THEN [list[w] EXCEPT !.workerState = message.activities[w].workerState,
                                   !.activeAssignments = message.activities[w].activeAssignments]
              ELSE list[w]]

ReceiveDeviceMessage(o) ==
  /\ inTransit[o] # <<>> /\ o \notin hung
  /\ deviceById' = [deviceById EXCEPT ![o] = Merged(@, Head(inTransit[o]))]
  /\ inTransit' = [inTransit EXCEPT ![o] = Tail(@)]
  /\ UNCHANGED <<registryVars, announcerVars, deviceSubscriberIds, heartbeatVars, requests>>

-----------------------------------------------------------------------------
Next ==
  \/ \E w \in Worker : \/ Register(w) \/ WorkerState(w)
                       \/ OccupyWorkerAssignment(w) \/ ReleaseWorkerAssignment(w)
  \/ \E o \in Observer : Subscribe(o) \/ Unsubscribe(o) \/ ReceiveDeviceMessage(o)
  \/ \E c \in Connection : Leave(c) \/ Hang(c) \/ Pong(c) \/ Closed(c)
  \/ FlushDeviceActivity
  \/ PingEveryConnection

Spec == Init /\ [][Next]_vars

\* The two timers fire, sockets that are closing close, and the network delivers.
FairSpec ==
  /\ Spec
  /\ WF_vars(FlushDeviceActivity) /\ WF_vars(PingEveryConnection)
  /\ \A c \in Connection : WF_vars(Closed(c))
  /\ \A o \in Observer : WF_vars(ReceiveDeviceMessage(o))

-----------------------------------------------------------------------------
(* Properties.                                                             *)

\* What an observer will see once it has read everything on its way to it.
View(o) == FoldLeft(Merged, deviceById[o], inTransit[o])

\* Whoever is subscribed is owed nothing more than the batch under way: with
\* what is on its way to it, its list has exactly the devices of the registry,
\* each described as the registry describes it, and as busy as it is unless it
\* is in the batch (publishDevice, flushDeviceActivity and mergeActivity, over
\* any order of joins, changes, departures, late subscriptions and flushes).
ViewFollowsRegistry ==
  \A o \in deviceSubscriberIds : socket[o] = "open" =>
    /\ DOMAIN View(o) = DOMAIN devices
    /\ \A w \in DOMAIN devices :
         /\ Stable(View(o)[w]) = Stable(devices[w])
         /\ w \notin pendingActivityDeviceIds => View(o)[w] = devices[w]

\* Whatever the batches and however late it came, an observer that stays
\* connected and subscribed always sees the registry as it is again (the
\* timer of publishDevice is set whenever a batch is under way).
ViewsCatchUp ==
  \A o \in Observer : []<>(o \notin deviceSubscriberIds \/ o \in hung \/ deviceById[o] = devices)

\* A worker that has silently gone is found out by the heartbeat and leaves
\* the registry and the list of everyone subscribed (pingEveryConnection, the
\* close handler and device.left together).
HungWorkersLeave ==
  \A w \in Worker :
    w \in hung ~> /\ w \notin DOMAIN devices
                  /\ \A o \in deviceSubscriberIds \ hung : w \notin DOMAIN deviceById[o]

=============================================================================
