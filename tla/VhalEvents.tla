---------------------------- MODULE VhalEvents ----------------------------
(***************************************************************************)
(* The event path of DefaultVehicleHal and its destructor                  *)
(* (vhal/src/DefaultVehicleHal.cpp), with ConcurrentQueue and              *)
(* BatchingConsumer (utils/common/include/ConcurrentQueue.h).              *)
(*                                                                         *)
(* Threads: those of the hardware that report events, the batching         *)
(* consumer's worker, the handler of dead binders, the timer thread with   *)
(* the heartbeat, and the thread that runs ~DefaultVehicleHal.  What they  *)
(* share: the batched event queue and the SubscriptionManager, which       *)
(* hardware threads and the heartbeat hold weakly and the worker by plain  *)
(* pointers, and the hardware, which the heartbeat and the handler use by  *)
(* plain pointers.                                                         *)
(*                                                                         *)
(* A step ends where a lock is released, a thread waits or sleeps, or      *)
(* another object is called that may be gone.  An event is the number of   *)
(* the hardware's call it came in and its place there.  Binder calls hold  *)
(* a reference to the HAL and so are over when the destructor runs.        *)
(***************************************************************************)
EXTENDS Integers, Sequences

CONSTANTS HardwareThreads,
          MaxCalls,   \* event callbacks the hardware makes
          Sizes,      \* how many events one of them may have
          MaxBeats,   \* heartbeats
          MaxDeaths   \* binders that die

ASSUME VhalEventsAssumption ==
    /\ MaxCalls \in Nat /\ Sizes \subseteq Nat \ {0} /\ MaxBeats \in Nat /\ MaxDeaths \in Nat

VARIABLES batching,      \* mEventBatchingWindow is not 0
          calls,         \* event callbacks so far
          at,            \* where each hardware thread is
          hand,          \* the events of its call
          queue,         \* mQueue of mBatchedEventQueue
          active,        \* its mIsActive
          queueOwned,    \* mBatchedEventQueue is set
          state,         \* mState of the consumer
          worker,        \* where its worker is
          batch,         \* the events the worker has flushed
          managerOwned,  \* mSubscriptionManager is set
          hardware,      \* mVehicleHardware is set
          registered,    \* mRecurrentAction is registered with mRecurrentTimer
          heartbeat,     \* where the timer thread is
          beats,         \* heartbeats so far
          deaths,        \* binders that have died
          binderEvents,  \* the number of events in mBinderEvents
          binderActive,  \* its mIsActive
          handler,       \* where the handler of binder events is
          flushed,       \* the number of events it has flushed and not handled
          dtor,          \* how far ~DefaultVehicleHal is
          delivered      \* the hardware's events sent to clients, oldest first

hardwareVars == <<calls, at, hand>>
queueVars    == <<queue, active, queueOwned>>
workerVars   == <<state, worker, batch>>
timerVars    == <<registered, heartbeat, beats>>
binderVars   == <<deaths, binderEvents, binderActive, handler, flushed>>
ownedVars    == <<managerOwned, hardware>>
vars == <<batching, hardwareVars, queueVars, workerVars, timerVars, binderVars,
          ownedVars, dtor, delivered>>

Event == (1..MaxCalls) \X (Nat \ {0})

\* A weak pointer can be locked while the HAL or another thread has a strong
\* one.
QueueExists   == queueOwned \/ \E t \in HardwareThreads : at[t] \in {"push", "notify"}
ManagerExists == \/ managerOwned
                 \/ \E t \in HardwareThreads : at[t] = "send"
                 \/ heartbeat = "send"
-----------------------------------------------------------------------------
Init ==
    /\ batching \in BOOLEAN
    /\ calls = 0
    /\ at = [t \in HardwareThreads |-> "idle"]
    /\ hand = [t \in HardwareThreads |-> <<>>]
    /\ queue = <<>> /\ active = TRUE /\ queueOwned = batching
    /\ state = "INIT" /\ batch = <<>>
    /\ worker = IF batching THEN "start" ELSE "ended"
    /\ managerOwned = TRUE /\ hardware = TRUE
    /\ registered = TRUE /\ heartbeat = "idle" /\ beats = 0
    /\ deaths = 0 /\ binderEvents = 0 /\ binderActive = TRUE
    /\ handler = "check" /\ flushed = 0
    /\ dtor = "alive"
    /\ delivered = <<>>
-----------------------------------------------------------------------------
(* The hardware's threads *)

\* The callback the constructor registered is called with n events: it locks
\* its weak pointer, or drops the events if the HAL is ending.
OnPropertyChangeEvent(t) == \E n \in Sizes :
    /\ hardware /\ at[t] = "idle" /\ calls < MaxCalls
    /\ calls' = calls + 1
    /\ IF (IF batching THEN QueueExists ELSE ManagerExists)
       THEN /\ at' = [at EXCEPT ![t] = IF batching THEN "push" ELSE "send"]
            /\ hand' = [hand EXCEPT ![t] = [i \in 1..n |-> <<calls', i>>]]
       ELSE UNCHANGED <<at, hand>>
    /\ UNCHANGED <<batching, queueVars, workerVars, timerVars, binderVars, ownedVars,
                   dtor, delivered>>

\* Variant: takes the lock for every item.
Push_ItemByItem(t) ==
    /\ at[t] = "push"
    /\ IF active
       THEN /\ queue' = Append(queue, Head(hand[t]))
            /\ hand' = [hand EXCEPT ![t] = Tail(@)]
            /\ at' = [at EXCEPT ![t] = IF Len(hand[t]) = 1 THEN "notify" ELSE "push"]
       ELSE /\ at' = [at EXCEPT ![t] = "idle"]
            /\ hand' = [hand EXCEPT ![t] = <<>>]
            /\ UNCHANGED queue
    /\ UNCHANGED <<batching, calls, active, queueOwned, workerVars, timerVars, binderVars,
                   ownedVars, dtor, delivered>>

\* ConcurrentQueue::push of all items, up to the end of the locked section.
Push(t) ==
    /\ at[t] = "push"
    /\ IF active
       THEN /\ queue' = queue \o hand[t]
            /\ at' = [at EXCEPT ![t] = "notify"]
       ELSE /\ at' = [at EXCEPT ![t] = "idle"]
            /\ UNCHANGED queue
    /\ hand' = [hand EXCEPT ![t] = <<>>]
    /\ UNCHANGED <<batching, calls, active, queueOwned, workerVars, timerVars, binderVars,
                   ownedVars, dtor, delivered>>

\* A thread that waits on the condition goes on to check it again.
Woken(place) == IF place = "waiting" THEN "check" ELSE place

\* Variant: nobody is told.
Notify_Nobody(t) ==
    /\ at[t] = "notify"
    /\ at' = [at EXCEPT ![t] = "idle"]
    /\ UNCHANGED <<batching, calls, hand, queueVars, workerVars, timerVars,
                   binderVars, ownedVars, dtor, delivered>>

\* notify_one; the strong pointer of batchPropertyChangeEvent ends.
Notify(t) ==
    /\ at[t] = "notify"
    /\ at' = [at EXCEPT ![t] = "idle"]
    /\ worker' = Woken(worker)
    /\ UNCHANGED <<batching, calls, hand, queueVars, state, batch, timerVars, binderVars,
                   ownedVars, dtor, delivered>>

\* Without batching: onPropertyChangeEvent asks the manager for the clients
\* and sends them the events.
SendAtOnce(t) ==
    /\ at[t] = "send"
    /\ at' = [at EXCEPT ![t] = "idle"]
    /\ delivered' = delivered \o hand[t]
    /\ hand' = [hand EXCEPT ![t] = <<>>]
    /\ UNCHANGED <<batching, calls, queueVars, workerVars, timerVars, binderVars,
                   ownedVars, dtor>>
-----------------------------------------------------------------------------
(* BatchingConsumer::runInternal *)

workerOnly == <<batching, hardwareVars, active, queueOwned, timerVars, binderVars,
                ownedVars, dtor>>

\* Variant: does not look at the state it replaces.
StartWorker_Regardless ==
    /\ worker = "start"
    /\ state' = "RUNNING" /\ worker' = "loop"
    /\ UNCHANGED <<workerOnly, queue, batch, delivered>>

\* mState.exchange(RUNNING): a stop requested before the worker got here is
\* what was there before.
StartWorker ==
    /\ worker = "start"
    /\ state' = "RUNNING"
    /\ worker' = IF state = "INIT" THEN "loop" ELSE "end"
    /\ UNCHANGED <<workerOnly, queue, batch, delivered>>

Loop ==
    /\ worker = "loop"
    /\ worker' = IF state = "RUNNING" THEN "check" ELSE "end"
    /\ UNCHANGED <<workerOnly, queue, state, batch, delivered>>

\* waitForItems: waits while there is nothing and the queue is active.
WaitForItems ==
    /\ worker = "check"
    /\ worker' = IF queue = <<>> /\ active THEN "waiting" ELSE "wake"
    /\ UNCHANGED <<workerOnly, queue, state, batch, delivered>>

\* The check after waitForItems, and the one after the sleep.
StopOr(place) == IF state = "STOP_REQUESTED" THEN "end" ELSE place

Wake ==
    /\ worker = "wake"
    /\ worker' = StopOr("sleep")
    /\ UNCHANGED <<workerOnly, queue, state, batch, delivered>>

SleepEnds ==
    /\ worker = "sleep"
    /\ worker' = StopOr("flush")
    /\ UNCHANGED <<workerOnly, queue, state, batch, delivered>>

\* Variant: leaves the items in the queue.
Flush_Copies ==
    /\ worker = "flush"
    /\ batch' = queue
    /\ worker' = IF queue = <<>> THEN "loop" ELSE "deliver"
    /\ UNCHANGED <<workerOnly, queue, state, delivered>>

\* ConcurrentQueue::flush takes everything.
Flush ==
    /\ worker = "flush"
    /\ batch' = queue /\ queue' = <<>>
    /\ worker' = IF queue = <<>> THEN "loop" ELSE "deliver"
    /\ UNCHANGED <<workerOnly, state, delivered>>

\* Variant: the items are copied, not moved.
Deliver_KeepsBatch ==
    /\ worker = "deliver"
    /\ delivered' = delivered \o batch
    /\ worker' = "loop"
    /\ UNCHANGED <<workerOnly, queue, state, batch>>

\* handleBatchedPropertyEvents: the manager's clients are sent the batch.
Deliver ==
    /\ worker = "deliver"
    /\ delivered' = delivered \o batch /\ batch' = <<>>
    /\ worker' = "loop"
    /\ UNCHANGED <<workerOnly, queue, state>>

EndWorker ==
    /\ worker = "end"
    /\ state' = "STOPPED" /\ worker' = "ended"
    /\ UNCHANGED <<workerOnly, queue, batch, delivered>>
-----------------------------------------------------------------------------
(* The heartbeat, in the timer thread *)

timerOnly == <<batching, hardwareVars, queueVars, workerVars, binderVars, ownedVars, dtor,
               delivered>>

\* RecurrentTimer::handleMessage has taken the callback and released its lock;
\* the callback is checkHealth, which calls the hardware ...
TakeHeartbeat ==
    /\ registered /\ heartbeat = "idle" /\ beats < MaxBeats
    /\ heartbeat' = "in hardware" /\ beats' = beats + 1
    /\ UNCHANGED <<timerOnly, registered>>

\* ... which is not well, or the manager is gone, or the event can be sent.
CheckHealth ==
    /\ heartbeat = "in hardware"
    /\ \/ heartbeat' = "idle"
       \/ heartbeat' = IF ManagerExists THEN "send" ELSE "idle"
    /\ UNCHANGED <<timerOnly, registered, beats>>

\* onPropertyChangeEvent with the heartbeat's own event, which is none of the
\* hardware's.
SendHeartbeat ==
    /\ heartbeat = "send"
    /\ heartbeat' = "idle"
    /\ UNCHANGED <<timerOnly, registered, beats>>
-----------------------------------------------------------------------------
(* Dead binders: onBinderDied and onBinderDiedUnlinkedHandler *)

binderOnly == <<batching, hardwareVars, queueVars, workerVars, timerVars, ownedVars, dtor,
                delivered>>

\* Only while there is a death recipient.
OnBinderDied ==
    /\ dtor = "alive" /\ deaths < MaxDeaths
    /\ deaths' = deaths + 1
    /\ binderEvents' = binderEvents + 1
    /\ handler' = Woken(handler)
    /\ UNCHANGED <<binderOnly, binderActive, flushed>>

\* waitForItems, whose result ends the handler.
HandlerWaits ==
    /\ handler = "check"
    /\ handler' = IF ~binderActive THEN "ended"
                  ELSE IF binderEvents = 0 THEN "waiting" ELSE "flush"
    /\ UNCHANGED <<binderOnly, deaths, binderEvents, binderActive, flushed>>

HandlerFlushes ==
    /\ handler = "flush"
    /\ flushed' = binderEvents /\ binderEvents' = 0
    /\ handler' = IF binderEvents = 0 THEN "check" ELSE "handle"
    /\ UNCHANGED <<binderOnly, deaths, binderActive>>

\* onBinderDiedWithContext: the manager unsubscribes the client from the
\* hardware.
HandleDeath ==
    /\ handler = "handle"
    /\ flushed' = flushed - 1
    /\ handler' = IF flushed = 1 THEN "check" ELSE "handle"
    /\ UNCHANGED <<binderOnly, deaths, binderEvents, binderActive>>
-----------------------------------------------------------------------------
(* ~DefaultVehicleHal, and the destructor of mRecurrentTimer after it *)

\* The destructor gets from one place to the next; what no step of it changes.
From(here, there) ==
    /\ dtor = here /\ dtor' = there
    /\ UNCHANGED <<batching, hardwareVars, queue, batch, heartbeat, beats, deaths,
                   binderEvents, flushed, delivered>>

DeleteDeathRecipient ==
    /\ From("alive", "no recipient")
    /\ UNCHANGED <<active, queueOwned, state, worker, registered, binderActive, handler,
                   ownedVars>>

\* mBinderEvents.deactivate(): the flag, then notify_all.
DeactivateBinderEvents ==
    /\ From("no recipient", "binder events off")
    /\ binderActive' = FALSE /\ handler' = Woken(handler)
    /\ UNCHANGED <<active, queueOwned, state, worker, registered, ownedVars>>

JoinHandler ==
    /\ handler = "ended"
    /\ From("binder events off", "handler ended")
    /\ UNCHANGED <<active, queueOwned, state, worker, registered, binderActive, handler,
                   ownedVars>>

UnregisterHeartbeat ==
    /\ From("handler ended", IF batching THEN "heartbeat off" ELSE "queue gone")
    /\ registered' = FALSE
    /\ UNCHANGED <<active, queueOwned, state, worker, binderActive, handler, ownedVars>>

DeactivateQueue ==
    /\ From("heartbeat off", "queue off")
    /\ active' = FALSE /\ worker' = Woken(worker)
    /\ UNCHANGED <<queueOwned, state, registered, binderActive, handler, ownedVars>>

RequestStop ==
    /\ From("queue off", "stop requested")
    /\ state' = "STOP_REQUESTED"
    /\ UNCHANGED <<active, queueOwned, worker, registered, binderActive, handler, ownedVars>>

\* Variant: waits for the state, not for the thread.
WaitStopped_ByState ==
    /\ state # "RUNNING"
    /\ From("stop requested", "worker ended")
    /\ UNCHANGED <<active, queueOwned, state, worker, registered, binderActive, handler,
                   ownedVars>>

WaitStopped ==
    /\ worker = "ended"
    /\ From("stop requested", "worker ended")
    /\ UNCHANGED <<active, queueOwned, state, worker, registered, binderActive, handler,
                   ownedVars>>

\* The consumer and the queue are reset; a hardware thread may still hold the
\* queue.
ResetQueue ==
    /\ From("worker ended", "queue gone")
    /\ queueOwned' = FALSE
    /\ UNCHANGED <<active, state, worker, registered, binderActive, handler, ownedVars>>

ResetManager ==
    /\ From("queue gone", "manager gone")
    /\ managerOwned' = FALSE
    /\ UNCHANGED <<active, queueOwned, state, worker, registered, binderActive, handler,
                   hardware>>

\* The hardware's destructor joins its threads.
ResetHardware ==
    /\ \A t \in HardwareThreads : at[t] = "idle"
    /\ From("manager gone", "hardware gone")
    /\ hardware' = FALSE
    /\ UNCHANGED <<active, queueOwned, state, worker, registered, binderActive, handler,
                   managerOwned>>

\* The members are destroyed; mRecurrentTimer joins its thread.
JoinTimer ==
    /\ heartbeat = "idle"
    /\ From("hardware gone", "done")
    /\ UNCHANGED <<active, queueOwned, state, worker, registered, binderActive, handler,
                   ownedVars>>
-----------------------------------------------------------------------------
HardwareThread(t) == OnPropertyChangeEvent(t) \/ Push(t) \/ Notify(t) \/ SendAtOnce(t)

Worker == StartWorker \/ Loop \/ WaitForItems \/ Wake \/ SleepEnds \/ Flush \/ Deliver
              \/ EndWorker

Timer == TakeHeartbeat \/ CheckHealth \/ SendHeartbeat

Handler == HandlerWaits \/ HandlerFlushes \/ HandleDeath

Destructor == DeleteDeathRecipient \/ DeactivateBinderEvents \/ JoinHandler
                  \/ UnregisterHeartbeat \/ DeactivateQueue \/ RequestStop \/ WaitStopped
                  \/ ResetQueue \/ ResetManager \/ ResetHardware \/ JoinTimer

Next == \/ \E t \in HardwareThreads : HardwareThread(t)
        \/ Worker \/ Timer \/ OnBinderDied \/ Handler \/ Destructor

\* Threads the HAL started go on, calls that have begun end (the hardware's
\* checkHealth and the oneway calls to clients return), and so does a
\* destructor.  Nobody need call, die or destroy.
Fairness ==
    /\ \A t \in HardwareThreads : WF_vars(Push(t) \/ Notify(t) \/ SendAtOnce(t))
    /\ WF_vars(Worker)
    /\ WF_vars(CheckHealth \/ SendHeartbeat)
    /\ WF_vars(Handler)
    /\ WF_vars(dtor # "alive" /\ Destructor)

Spec == Init /\ [][Next]_vars /\ Fairness
-----------------------------------------------------------------------------
CallsOf(events) == {events[i][1] : i \in DOMAIN events}

HardwareTypes ==
    /\ calls \in 0..MaxCalls
    /\ at \in [HardwareThreads -> {"idle", "push", "notify", "send"}]
    /\ hand \in [HardwareThreads -> Seq(Event)]
    /\ \A t \in HardwareThreads : hand[t] # <<>> <=> at[t] \in {"push", "send"}

QueueTypes == queue \in Seq(Event) /\ active \in BOOLEAN /\ queueOwned \in BOOLEAN

WorkerTypes ==
    /\ state \in {"INIT", "RUNNING", "STOP_REQUESTED", "STOPPED"}
    /\ worker \in {"start", "loop", "check", "waiting", "wake", "sleep", "flush",
                   "deliver", "end", "ended"}
    /\ batch \in Seq(Event)
    /\ batch # <<>> <=> worker = "deliver"

TimerTypes ==
    /\ registered \in BOOLEAN
    /\ heartbeat \in {"idle", "in hardware", "send"}
    /\ beats \in 0..MaxBeats

BinderTypes ==
    /\ deaths \in 0..MaxDeaths /\ binderEvents \in 0..MaxDeaths
    /\ binderActive \in BOOLEAN
    /\ handler \in {"check", "waiting", "flush", "handle", "ended"}
    /\ flushed \in 0..MaxDeaths
    /\ flushed > 0 <=> handler = "handle"

OwnerTypes ==
    /\ batching \in BOOLEAN /\ managerOwned \in BOOLEAN /\ hardware \in BOOLEAN
    /\ dtor \in {"alive", "no recipient", "binder events off", "handler ended",
                 "heartbeat off", "queue off", "stop requested", "worker ended",
                 "queue gone", "manager gone", "hardware gone", "done"}

\* The state has its type; a thread has events in its hands exactly while it
\* is in the part of the code that has to get rid of them (moved items leave
\* nothing behind, ConcurrentQueue.h:60).
TypeOK == /\ HardwareTypes /\ QueueTypes /\ WorkerTypes
          /\ TimerTypes /\ BinderTypes /\ OwnerTypes
          /\ delivered \in Seq(Event)

\* The comments of the destructor: the batching consumer uses the subscription
\* manager and the queue (DefaultVehicleHal.cpp:196), the manager uses the
\* hardware (204).  Neither is gone while a thread that uses it by a plain
\* pointer may still run, and what hardware threads lock stays until they are
\* done.
ObjectsOutliveThreads ==
    /\ worker # "ended" => queueOwned /\ managerOwned
    /\ handler # "ended" => managerOwned /\ hardware
    /\ \A t \in HardwareThreads : at[t] # "idle" => hardware

\* "mRecurrentAction uses pointer to mVehicleHardware, so it has to be
\* unregistered before mVehicleHardware" (DefaultVehicleHal.cpp:191): a
\* heartbeat that is in the hardware finds it alive.
HeartbeatHasHardware == heartbeat = "in hardware" => hardware

\* The clients get what a channel promises: only what the hardware reported,
\* every event that was accepted once and in the order it was accepted,
\* whatever the worker and the hardware threads do in between, until the HAL
\* ends (ConcurrentQueue.h: push, flush).
Channel == INSTANCE EventChannel
           WITH Sources <- HardwareThreads,
                held    <- hand,
                pending <- IF queueOwned THEN batch \o queue ELSE <<>>,
                open    <- active

ImplementsChannel == Channel!Spec

\* The values of one callback of the hardware reach the clients in one batch:
\* push takes the lock once for all of them and flush takes all there is.
CallsStayWhole ==
    [][\A i \in Len(delivered) + 1 .. Len(delivered') :
          delivered'[i][1] \notin
              CallsOf(delivered) \union CallsOf(queue')
                  \union UNION {CallsOf(hand'[t]) : t \in HardwareThreads}]_vars

\* No notification is lost: what is in the queue is sent to the clients, also
\* when it came while the worker was between its checks, unless the HAL ends.
EventsDelivered ==
    \A c \in 1..MaxCalls :
        c \in CallsOf(queue) ~> (c \in CallsOf(delivered) \/ dtor # "alive")

\* The destructor joins threads that wait on queues, sleep, or have not even
\* started; it always gets to its end.
DestructorEnds == dtor # "alive" ~> dtor = "done"
=============================================================================
