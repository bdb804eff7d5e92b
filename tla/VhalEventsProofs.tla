------------------------- MODULE VhalEventsProofs -------------------------
(***************************************************************************)
(* Proofs about VhalEvents: types, the lifetimes of what the threads       *)
(* share, that the event path implements EventChannel, and that the events *)
(* of one call stay together.                                              *)
(***************************************************************************)
EXTENDS VhalEvents, SequenceTheorems, TLAPS

\* How far the destructor is when it may still have to join the handler, or
\* the worker.
HandlerRuns == {"alive", "no recipient", "binder events off"}
WorkerRuns  == HandlerRuns \union {"handler ended", "heartbeat off", "queue off",
                                   "stop requested"}

\* What the HAL owns depends on how far the destructor is.
Ownership ==
    /\ queueOwned <=> batching /\ dtor \in WorkerRuns \union {"worker ended"}
    /\ managerOwned <=> dtor \notin {"manager gone", "hardware gone", "done"}
    /\ hardware <=> dtor \notin {"hardware gone", "done"}
    /\ batching /\ active => dtor \in HandlerRuns \union {"handler ended", "heartbeat off"}
    /\ dtor \in {"heartbeat off", "queue off", "stop requested", "worker ended"} => batching

\* So do the threads that may run.
Running ==
    /\ handler # "ended" => dtor \in HandlerRuns
    /\ worker # "ended" => batching /\ dtor \in WorkerRuns
    /\ \A t \in HardwareThreads :
          /\ at[t] # "idle" => hardware
          /\ at[t] \in {"push", "notify"} => batching
          /\ at[t] = "send" => ~batching

\* Every death is queued and flushed once.
DeathsCounted == binderEvents + flushed <= deaths

EventsInv == TypeOK /\ Ownership /\ Running /\ DeathsCounted
-----------------------------------------------------------------------------
LEMMA InitEventsInv == Init => EventsInv
  <1> SUFFICES ASSUME Init PROVE EventsInv
      OBVIOUS
  <1>1. TypeOK
    <2>1. <<>> \in Seq(Event)
        OBVIOUS
    <2>2. HardwareTypes
        BY <2>1, VhalEventsAssumption DEF Init, HardwareTypes
    <2>3. QueueTypes /\ delivered \in Seq(Event)
      <3>1. queueOwned \in BOOLEAN /\ active \in BOOLEAN
          BY DEF Init
      <3> QED
          BY <2>1, <3>1 DEF Init, QueueTypes
    <2>4. WorkerTypes
        BY <2>1 DEF Init, WorkerTypes
    <2>5. TimerTypes /\ BinderTypes /\ OwnerTypes
        BY VhalEventsAssumption DEF Init, TimerTypes, BinderTypes, OwnerTypes
    <2> QED
        BY <2>2, <2>3, <2>4, <2>5 DEF TypeOK
  <1>2. Ownership
      BY DEF Init, Ownership, WorkerRuns, HandlerRuns
  <1>3. Running
      BY DEF Init, Running, WorkerRuns, HandlerRuns
  <1>4. DeathsCounted
      BY DEF Init, DeathsCounted
  <1> QED
      BY <1>1, <1>2, <1>3, <1>4 DEF EventsInv

LEMMA ConcatTyped ==
    ASSUME NEW S, NEW a \in Seq(S), NEW b \in Seq(S)
    PROVE  a \o b \in Seq(S)
BY ConcatProperties

\* What a call of the hardware brings is a sequence of events.
LEMMA CallIsEvents ==
    ASSUME NEW c \in 1..MaxCalls, NEW n \in Sizes
    PROVE  /\ [i \in 1..n |-> <<c, i>>] \in Seq(Event)
           /\ [i \in 1..n |-> <<c, i>>] # <<>>
  <1> DEFINE s == [i \in 1..n |-> <<c, i>>]
  <1>1. n \in Nat \ {0}
      BY VhalEventsAssumption
  <1>2. s \in [1..n -> Event]
      BY <1>1 DEF Event
  <1>3. s \in Seq(Event)
      BY <1>1, <1>2
  <1>4. DOMAIN s # {}
      BY <1>1
  <1>5. DOMAIN <<>> = {}
      OBVIOUS
  <1> QED
      BY <1>3, <1>4, <1>5
-----------------------------------------------------------------------------
\* What a step leaves alone keeps its type.
LEMMA TypesKept ==
    /\ HardwareTypes /\ UNCHANGED hardwareVars => HardwareTypes'
    /\ QueueTypes /\ UNCHANGED queueVars => QueueTypes'
    /\ WorkerTypes /\ UNCHANGED workerVars => WorkerTypes'
    /\ TimerTypes /\ UNCHANGED timerVars => TimerTypes'
    /\ BinderTypes /\ UNCHANGED binderVars => BinderTypes'
    /\ OwnerTypes /\ UNCHANGED <<batching, ownedVars, dtor>> => OwnerTypes'
    /\ DeathsCounted /\ UNCHANGED binderVars => DeathsCounted'
  <1>1. HardwareTypes /\ UNCHANGED hardwareVars => HardwareTypes'
      BY DEF HardwareTypes, hardwareVars
  <1>2. QueueTypes /\ UNCHANGED queueVars => QueueTypes'
      BY DEF QueueTypes, queueVars
  <1>3. WorkerTypes /\ UNCHANGED workerVars => WorkerTypes'
      BY DEF WorkerTypes, workerVars
  <1>4. TimerTypes /\ UNCHANGED timerVars => TimerTypes'
      BY DEF TimerTypes, timerVars
  <1>5. BinderTypes /\ UNCHANGED binderVars => BinderTypes'
      BY DEF BinderTypes, binderVars
  <1>6. OwnerTypes /\ UNCHANGED <<batching, ownedVars, dtor>> => OwnerTypes'
      BY DEF OwnerTypes, ownedVars
  <1>7. DeathsCounted /\ UNCHANGED binderVars => DeathsCounted'
      BY DEF DeathsCounted, binderVars
  <1> QED
      BY <1>1, <1>2, <1>3, <1>4, <1>5, <1>6, <1>7

LEMMA HardwareThreadTypes ==
    ASSUME EventsInv, NEW t \in HardwareThreads, HardwareThread(t)
    PROVE  TypeOK' /\ DeathsCounted'
  <1>1. TypeOK /\ DeathsCounted
      BY DEF EventsInv
  <1>2. CASE OnPropertyChangeEvent(t)
    <2>1. PICK n \in Sizes :
             /\ calls < MaxCalls /\ calls' = calls + 1
             /\ \/ UNCHANGED <<at, hand>>
                \/ /\ at' = [at EXCEPT ![t] = IF batching THEN "push" ELSE "send"]
                   /\ hand' = [hand EXCEPT ![t] = [i \in 1..n |-> <<calls', i>>]]
        BY <1>2 DEF OnPropertyChangeEvent
    <2>2. calls' \in 1..MaxCalls
        BY <1>1, <2>1, VhalEventsAssumption DEF TypeOK, HardwareTypes
    <2> DEFINE h == [i \in 1..n |-> <<calls', i>>]
    <2>3. h \in Seq(Event) /\ h # <<>>
        BY <2>2, CallIsEvents
    <2>4. \/ UNCHANGED <<at, hand>>
          \/ /\ at' = [at EXCEPT ![t] = IF batching THEN "push" ELSE "send"]
             /\ hand' = [hand EXCEPT ![t] = h]
        BY <2>1
    <2> HIDE DEF h
    <2>5. HardwareTypes'
      <3>1. /\ at' \in [HardwareThreads -> {"idle", "push", "notify", "send"}]
            /\ hand' \in [HardwareThreads -> Seq(Event)]
          BY <1>1, <2>3, <2>4 DEF TypeOK, HardwareTypes
      <3>2. ASSUME NEW u \in HardwareThreads
            PROVE  hand'[u] # <<>> <=> at'[u] \in {"push", "send"}
          BY <1>1, <2>3, <2>4 DEF TypeOK, HardwareTypes
      <3> QED
          BY <2>2, <3>1, <3>2 DEF HardwareTypes
    <2>6. UNCHANGED <<batching, queueVars, workerVars, timerVars, binderVars, ownedVars, dtor,
                      delivered>>
        BY <1>2 DEF OnPropertyChangeEvent
    <2> QED
        BY <1>1, <2>5, <2>6, TypesKept DEF TypeOK
  <1>3. CASE Push(t)
    <2> DEFINE place == IF active THEN "notify" ELSE "idle"
    <2>3. /\ at' = [at EXCEPT ![t] = place]
          /\ hand' = [hand EXCEPT ![t] = <<>>]
          /\ calls' = calls
        BY <1>3 DEF Push
    <2>4. HardwareTypes'
      <3>1. place \in {"notify", "idle"}
          OBVIOUS
      <3> HIDE DEF place
      <3>2. /\ at' \in [HardwareThreads -> {"idle", "push", "notify", "send"}]
            /\ hand' \in [HardwareThreads -> Seq(Event)]
          BY <1>1, <2>3, <3>1 DEF TypeOK, HardwareTypes
      <3>3. ASSUME NEW u \in HardwareThreads
            PROVE  hand'[u] # <<>> <=> at'[u] \in {"push", "send"}
          BY <1>1, <2>3, <3>1 DEF TypeOK, HardwareTypes
      <3> QED
          BY <1>1, <2>3, <3>2, <3>3 DEF TypeOK, HardwareTypes
    <2>5. QueueTypes'
      <3>1. queue' \in Seq(Event)
        <4>1. queue \in Seq(Event) /\ hand[t] \in Seq(Event)
            BY <1>1 DEF TypeOK, HardwareTypes, QueueTypes
        <4>2. queue' = queue \o hand[t] \/ queue' = queue
            BY <1>3 DEF Push
        <4>3. queue \o hand[t] \in Seq(Event)
            BY <4>1, ConcatTyped
        <4> QED
            BY <4>1, <4>2, <4>3
      <3> QED
          BY <1>1, <1>3, <3>1 DEF Push, TypeOK, QueueTypes
    <2>1. HardwareTypes' /\ QueueTypes'
        BY <2>4, <2>5
    <2>2. UNCHANGED <<batching, workerVars, timerVars, binderVars, ownedVars, dtor, delivered>>
        BY <1>3 DEF Push
    <2> QED
        BY <1>1, <2>1, <2>2, TypesKept DEF TypeOK
  <1>4. CASE Notify(t)
    <2>1. HardwareTypes' /\ WorkerTypes'
        BY <1>1, <1>4 DEF Notify, Woken, TypeOK, HardwareTypes, WorkerTypes
    <2>2. UNCHANGED <<batching, queueVars, timerVars, binderVars, ownedVars, dtor, delivered>>
        BY <1>4 DEF Notify
    <2> QED
        BY <1>1, <2>1, <2>2, TypesKept DEF TypeOK
  <1>5. CASE SendAtOnce(t)
    <2>1. HardwareTypes' /\ delivered' \in Seq(Event)
        BY <1>1, <1>5 DEF SendAtOnce, TypeOK, HardwareTypes
    <2>2. UNCHANGED <<batching, queueVars, workerVars, timerVars, binderVars, ownedVars, dtor>>
        BY <1>5 DEF SendAtOnce
    <2> QED
        BY <1>1, <2>1, <2>2, TypesKept DEF TypeOK
  <1> QED
      BY <1>2, <1>3, <1>4, <1>5 DEF HardwareThread

LEMMA WorkerTypesKept ==
    ASSUME EventsInv, Worker
    PROVE  TypeOK' /\ DeathsCounted'
  <1>1. TypeOK /\ DeathsCounted
      BY DEF EventsInv
  <1>2. UNCHANGED <<batching, hardwareVars, active, queueOwned, timerVars, binderVars, ownedVars,
                    dtor>>
      BY DEF Worker, StartWorker, Loop, WaitForItems, Wake, SleepEnds, Flush, Deliver,
             EndWorker, workerOnly
  <1>3. WorkerTypes' /\ queue' \in Seq(Event) /\ delivered' \in Seq(Event)
    <2>1. CASE StartWorker
        BY <1>1, <2>1 DEF StartWorker, TypeOK, WorkerTypes, QueueTypes
    <2>2. CASE Loop
        BY <1>1, <2>2 DEF Loop, TypeOK, WorkerTypes, QueueTypes
    <2>3. CASE WaitForItems
        BY <1>1, <2>3 DEF WaitForItems, TypeOK, WorkerTypes, QueueTypes
    <2>4. CASE Wake
        BY <1>1, <2>4 DEF Wake, StopOr, TypeOK, WorkerTypes, QueueTypes
    <2>5. CASE SleepEnds
        BY <1>1, <2>5 DEF SleepEnds, StopOr, TypeOK, WorkerTypes, QueueTypes
    <2>6. CASE Flush
        BY <1>1, <2>6 DEF Flush, TypeOK, WorkerTypes, QueueTypes
    <2>7. CASE Deliver
        BY <1>1, <2>7 DEF Deliver, TypeOK, WorkerTypes, QueueTypes
    <2>8. CASE EndWorker
        BY <1>1, <2>8 DEF EndWorker, TypeOK, WorkerTypes, QueueTypes
    <2> QED
        BY <2>1, <2>2, <2>3, <2>4, <2>5, <2>6, <2>7, <2>8 DEF Worker
  <1>4. QueueTypes'
      BY <1>1, <1>2, <1>3 DEF TypeOK, QueueTypes
  <1> QED
      BY <1>1, <1>2, <1>3, <1>4, TypesKept DEF TypeOK

LEMMA TimerAndHandlerTypes ==
    ASSUME EventsInv, Timer \/ OnBinderDied \/ Handler
    PROVE  TypeOK' /\ DeathsCounted'
  <1>1. TypeOK /\ DeathsCounted
      BY DEF EventsInv
  <1>2. CASE Timer
    <2>1. TimerTypes'
      <3> USE VhalEventsAssumption DEF TypeOK, TimerTypes
      <3>1. CASE TakeHeartbeat
        <4>1. beats' \in 0..MaxBeats
          <5>1. beats \in 0..MaxBeats /\ MaxBeats \in Nat
              BY <1>1
          <5>2. beats < MaxBeats /\ beats' = beats + 1
              BY <3>1 DEF TakeHeartbeat
          <5> HIDE DEF TypeOK, TimerTypes
          <5> QED
              BY <5>1, <5>2
        <4>2. registered' \in BOOLEAN
            BY <1>1, <3>1 DEF TakeHeartbeat
        <4> QED
            BY <3>1, <4>1, <4>2 DEF TakeHeartbeat
      <3>2. CASE CheckHealth
        <4>1. heartbeat' \in {"idle", "send"}
            BY <3>2 DEF CheckHealth
        <4> QED
            BY <1>1, <3>2, <4>1 DEF CheckHealth
      <3>3. CASE SendHeartbeat
          BY <1>1, <3>3 DEF SendHeartbeat
      <3> QED
          BY <1>2, <3>1, <3>2, <3>3 DEF Timer
    <2>2. UNCHANGED <<batching, hardwareVars, queueVars, workerVars, binderVars, ownedVars, dtor,
                      delivered>>
        BY <1>2 DEF Timer, TakeHeartbeat, CheckHealth, SendHeartbeat, timerOnly
    <2> QED
        BY <1>1, <2>1, <2>2, TypesKept DEF TypeOK
  <1>3. CASE OnBinderDied \/ Handler
    <2>1. BinderTypes' /\ DeathsCounted'
      <3> USE VhalEventsAssumption DEF TypeOK, BinderTypes, DeathsCounted
      <3>1. CASE OnBinderDied
          BY <1>1, <3>1 DEF OnBinderDied, Woken
      <3>2. CASE HandlerWaits
          BY <1>1, <3>2 DEF HandlerWaits
      <3>3. CASE HandlerFlushes
          BY <1>1, <3>3 DEF HandlerFlushes
      <3>4. CASE HandleDeath
          BY <1>1, <3>4 DEF HandleDeath
      <3> QED
          BY <1>3, <3>1, <3>2, <3>3, <3>4 DEF Handler
    <2>2. UNCHANGED <<batching, hardwareVars, queueVars, workerVars, timerVars, ownedVars, dtor,
                      delivered>>
        BY <1>3 DEF OnBinderDied, Handler, HandlerWaits, HandlerFlushes, HandleDeath, binderOnly
    <2> QED
        BY <1>1, <2>1, <2>2, TypesKept DEF TypeOK
  <1> QED
      BY <1>2, <1>3
LEMMA DestructorTypes ==
    ASSUME EventsInv, Destructor
    PROVE  TypeOK' /\ DeathsCounted'
  <1>1. TypeOK /\ DeathsCounted
      BY DEF EventsInv
  <1> DEFINE Common == UNCHANGED <<batching, hardwareVars, queue, batch, heartbeat, beats,
                                   deaths, binderEvents, flushed, delivered>>
  <1>2. Common
      BY DEF Destructor, DeleteDeathRecipient, DeactivateBinderEvents, JoinHandler,
             UnregisterHeartbeat, DeactivateQueue, RequestStop, WaitStopped, ResetQueue,
             ResetManager, ResetHardware, JoinTimer, From
  <1>3. QueueTypes'
    <2>1. active' \in BOOLEAN /\ queueOwned' \in BOOLEAN
        BY <1>1 DEF Destructor, DeleteDeathRecipient, DeactivateBinderEvents, JoinHandler,
             UnregisterHeartbeat, DeactivateQueue, RequestStop, WaitStopped, ResetQueue,
             ResetManager, ResetHardware, JoinTimer, TypeOK, QueueTypes
    <2> QED
        BY <1>1, <1>2, <2>1 DEF TypeOK, QueueTypes
  <1>4. WorkerTypes'
    <2>1. CASE DeactivateQueue
        BY <1>1, <2>1 DEF DeactivateQueue, From, Woken, TypeOK, WorkerTypes
    <2>2. CASE RequestStop
        BY <1>1, <2>2 DEF RequestStop, From, TypeOK, WorkerTypes
    <2>3. CASE UNCHANGED <<state, worker>>
        BY <1>1, <1>2, <2>3 DEF TypeOK, WorkerTypes
    <2> QED
        BY <2>1, <2>2, <2>3 DEF Destructor, DeleteDeathRecipient, DeactivateBinderEvents,
             JoinHandler, UnregisterHeartbeat, WaitStopped, ResetQueue, ResetManager,
             ResetHardware, JoinTimer
  <1>5. TimerTypes'
    <2>1. registered' \in BOOLEAN
        BY <1>1 DEF Destructor, DeleteDeathRecipient, DeactivateBinderEvents, JoinHandler,
             UnregisterHeartbeat, DeactivateQueue, RequestStop, WaitStopped, ResetQueue,
             ResetManager, ResetHardware, JoinTimer, TypeOK, TimerTypes
    <2> QED
        BY <1>1, <1>2, <2>1 DEF TypeOK, TimerTypes
  <1>6. BinderTypes' /\ DeathsCounted'
    <2>1. CASE DeactivateBinderEvents
        BY <1>1, <2>1 DEF DeactivateBinderEvents, From, Woken, TypeOK, BinderTypes,
                          DeathsCounted
    <2>2. CASE UNCHANGED <<binderActive, handler>>
        BY <1>1, <1>2, <2>2 DEF TypeOK, BinderTypes, DeathsCounted
    <2> QED
        BY <2>1, <2>2 DEF Destructor, DeleteDeathRecipient, JoinHandler,
             UnregisterHeartbeat, DeactivateQueue, RequestStop, WaitStopped, ResetQueue,
             ResetManager, ResetHardware, JoinTimer
  <1>7. OwnerTypes'
    <2>1. managerOwned' \in BOOLEAN /\ hardware' \in BOOLEAN
        BY <1>1 DEF Destructor, DeleteDeathRecipient, DeactivateBinderEvents, JoinHandler,
             UnregisterHeartbeat, DeactivateQueue, RequestStop, WaitStopped, ResetQueue,
             ResetManager, ResetHardware, JoinTimer, TypeOK, OwnerTypes, ownedVars
    <2>2. dtor' \in {"alive", "no recipient", "binder events off", "handler ended",
                     "heartbeat off", "queue off", "stop requested", "worker ended",
                     "queue gone", "manager gone", "hardware gone", "done"}
        BY DEF Destructor, DeleteDeathRecipient, DeactivateBinderEvents, JoinHandler,
             UnregisterHeartbeat, DeactivateQueue, RequestStop, WaitStopped, ResetQueue,
             ResetManager, ResetHardware, JoinTimer, From
    <2> QED
        BY <1>1, <1>2, <2>1, <2>2 DEF TypeOK, OwnerTypes
  <1>8. HardwareTypes' /\ delivered' \in Seq(Event)
      BY <1>1, <1>2, TypesKept DEF TypeOK
  <1> QED
      BY <1>3, <1>4, <1>5, <1>6, <1>7, <1>8 DEF TypeOK
-----------------------------------------------------------------------------
\* Threads change neither what the HAL owns nor where the destructor is.
LEMMA ThreadsKeepOwnership ==
    ASSUME EventsInv, UNCHANGED <<batching, queueOwned, active, ownedVars, dtor>>
    PROVE  Ownership'
  BY DEF EventsInv, Ownership, ownedVars

LEMMA HardwareThreadRunning ==
    ASSUME EventsInv, NEW t \in HardwareThreads, HardwareThread(t)
    PROVE  Running'
  <1>1. UNCHANGED <<batching, hardware, dtor, handler>>
      BY DEF HardwareThread, OnPropertyChangeEvent, Push, Notify, SendAtOnce, ownedVars,
             binderVars
  <1>2. worker' # "ended" => worker # "ended"
      BY DEF HardwareThread, OnPropertyChangeEvent, Push, Notify, SendAtOnce, workerVars,
             Woken
  <1>3. ASSUME NEW u \in HardwareThreads
        PROVE  /\ at'[u] # "idle" => hardware
               /\ at'[u] \in {"push", "notify"} => batching
               /\ at'[u] = "send" => ~batching
    <2>1. \/ at'[u] = at[u] \/ at'[u] = "idle"
          \/ hardware /\ at'[u] = IF batching THEN "push" ELSE "send"
          \/ at[u] = "push" /\ at'[u] = "notify"
        BY DEF EventsInv, TypeOK, HardwareTypes, HardwareThread, OnPropertyChangeEvent, Push,
               Notify, SendAtOnce
    <2> QED
        BY <2>1 DEF EventsInv, Running
  <1> QED
      BY <1>1, <1>2, <1>3 DEF EventsInv, Running

LEMMA OtherThreadsRunning ==
    ASSUME EventsInv, Worker \/ Timer \/ OnBinderDied \/ Handler
    PROVE  Running'
  <1>1. UNCHANGED <<batching, hardware, dtor, at>>
      BY DEF Worker, StartWorker, Loop, WaitForItems, Wake, SleepEnds, Flush, Deliver,
             EndWorker, workerOnly, Timer, TakeHeartbeat, CheckHealth, SendHeartbeat,
             timerOnly, OnBinderDied, Handler, HandlerWaits, HandlerFlushes, HandleDeath,
             binderOnly, hardwareVars, ownedVars
  <1>2. worker' # "ended" => worker # "ended"
      BY DEF Worker, StartWorker, Loop, WaitForItems, Wake, SleepEnds, Flush, Deliver,
             EndWorker, Timer, TakeHeartbeat, CheckHealth, SendHeartbeat,
             timerOnly, OnBinderDied, Handler, HandlerWaits, HandlerFlushes, HandleDeath,
             binderOnly, workerVars
  <1>3. handler' # "ended" => handler # "ended"
      BY DEF Worker, StartWorker, Loop, WaitForItems, Wake, SleepEnds, Flush, Deliver,
             EndWorker, workerOnly, Timer, TakeHeartbeat, CheckHealth, SendHeartbeat,
             timerOnly, OnBinderDied, Handler, HandlerWaits, HandlerFlushes, HandleDeath,
             Woken, binderVars
  <1> QED
      BY <1>1, <1>2, <1>3 DEF EventsInv, Running

LEMMA DestructorOwnership ==
    ASSUME EventsInv, Destructor
    PROVE  Ownership' /\ Running'
  <1> USE DEF EventsInv, Ownership, Running, HandlerRuns, WorkerRuns, From, hardwareVars,
              ownedVars
  <1>1. CASE DeleteDeathRecipient
      BY <1>1 DEF DeleteDeathRecipient
  <1>2. CASE DeactivateBinderEvents
      BY <1>2 DEF DeactivateBinderEvents, Woken
  <1>3. CASE JoinHandler
      BY <1>3 DEF JoinHandler
  <1>4. CASE UnregisterHeartbeat
      BY <1>4 DEF UnregisterHeartbeat
  <1>5. CASE DeactivateQueue
      BY <1>5 DEF DeactivateQueue, Woken
  <1>6. CASE RequestStop
      BY <1>6 DEF RequestStop
  <1>7. CASE WaitStopped
      BY <1>7 DEF WaitStopped
  <1>8. CASE ResetQueue
      BY <1>8 DEF ResetQueue
  <1>9. CASE ResetManager
      BY <1>9 DEF ResetManager
  <1>10. CASE ResetHardware
      BY <1>10 DEF ResetHardware
  <1>11. CASE JoinTimer
      BY <1>11 DEF JoinTimer
  <1> QED
      BY <1>1, <1>2, <1>3, <1>4, <1>5, <1>6, <1>7, <1>8, <1>9, <1>10, <1>11 DEF Destructor

LEMMA NextEventsInv == EventsInv /\ [Next]_vars => EventsInv'
  <1> SUFFICES ASSUME EventsInv, [Next]_vars PROVE EventsInv'
      OBVIOUS
  <1>1. ASSUME NEW t \in HardwareThreads, HardwareThread(t) PROVE EventsInv'
    <2>1. UNCHANGED <<batching, queueOwned, active, ownedVars, dtor>>
        BY <1>1 DEF HardwareThread, OnPropertyChangeEvent, Push, Notify, SendAtOnce, queueVars
    <2> QED
        BY <1>1, <2>1, ThreadsKeepOwnership, HardwareThreadRunning, HardwareThreadTypes
           DEF EventsInv
  <1>2. CASE Worker
    <2>1. UNCHANGED <<batching, queueOwned, active, ownedVars, dtor>>
        BY <1>2 DEF Worker, StartWorker, Loop, WaitForItems, Wake, SleepEnds, Flush, Deliver,
                    EndWorker, workerOnly
    <2> QED
        BY <1>2, <2>1, ThreadsKeepOwnership, OtherThreadsRunning, WorkerTypesKept
           DEF EventsInv
  <1>3. CASE Timer \/ OnBinderDied \/ Handler
    <2>1. UNCHANGED <<batching, queueOwned, active, ownedVars, dtor>>
        BY <1>3 DEF Timer, TakeHeartbeat, CheckHealth, SendHeartbeat, timerOnly, OnBinderDied,
                    Handler, HandlerWaits, HandlerFlushes, HandleDeath, binderOnly, queueVars
    <2> QED
        BY <1>3, <2>1, ThreadsKeepOwnership, OtherThreadsRunning, TimerAndHandlerTypes
           DEF EventsInv
  <1>4. CASE Destructor
      BY <1>4, DestructorOwnership, DestructorTypes DEF EventsInv
  <1>5. CASE UNCHANGED vars
    <2>1. UNCHANGED <<batching, queueOwned, active, ownedVars, dtor>>
        BY <1>5 DEF vars, queueVars
    <2>2. Running'
        BY <1>5 DEF vars, hardwareVars, workerVars, binderVars, ownedVars, EventsInv, Running
    <2>3. TypeOK' /\ DeathsCounted'
      <3>1. UNCHANGED <<hardwareVars, queueVars, workerVars, timerVars, binderVars, batching,
                        ownedVars, dtor, delivered>>
          BY <1>5 DEF vars
      <3> QED
          BY <3>1, TypesKept DEF EventsInv, TypeOK
    <2> QED
        BY <2>1, <2>2, <2>3, ThreadsKeepOwnership DEF EventsInv
  <1> QED
      BY <1>1, <1>2, <1>3, <1>4, <1>5 DEF Next
-----------------------------------------------------------------------------
\* The inductive invariant holds of every execution.
THEOREM EventsInvHolds == Spec => []EventsInv
  BY InitEventsInv, NextEventsInv, PTL DEF Spec

\* Type correctness, for any threads and bounds.
THEOREM TypeCorrect == Spec => []TypeOK
  <1>1. EventsInv => TypeOK
      BY DEF EventsInv
  <1> QED
      BY <1>1, EventsInvHolds, PTL

\* No interleaving of ~DefaultVehicleHal with the threads it ends takes away
\* the queue, the manager or the hardware from a thread that uses it by a
\* plain pointer (the heartbeat excepted, see HeartbeatHasHardware).
THEOREM LifetimesCorrect == Spec => []ObjectsOutliveThreads
  <1>1. EventsInv => ObjectsOutliveThreads
      BY DEF EventsInv, Ownership, Running, ObjectsOutliveThreads, WorkerRuns, HandlerRuns
  <1> QED
      BY <1>1, EventsInvHolds, PTL
-----------------------------------------------------------------------------
(* Whole calls.  The events of one call are all in one place: in the hands *)
(* of its thread, in the queue, in the worker's batch or with the clients. *)

CallsApart ==
    /\ \A t \in HardwareThreads :
          /\ CallsOf(hand[t]) \subseteq 1..calls
          /\ CallsOf(hand[t]) \cap CallsOf(queue) = {}
          /\ CallsOf(hand[t]) \cap CallsOf(batch) = {}
          /\ CallsOf(hand[t]) \cap CallsOf(delivered) = {}
          /\ \A u \in HardwareThreads \ {t} : CallsOf(hand[t]) \cap CallsOf(hand[u]) = {}
    /\ CallsOf(queue) \subseteq 1..calls
    /\ CallsOf(batch) \subseteq 1..calls
    /\ CallsOf(delivered) \subseteq 1..calls
    /\ CallsOf(queue) \cap CallsOf(batch) = {}
    /\ CallsOf(queue) \cap CallsOf(delivered) = {}
    /\ CallsOf(batch) \cap CallsOf(delivered) = {}

LEMMA CallsOfConcat ==
    ASSUME NEW a \in Seq(Event), NEW b \in Seq(Event)
    PROVE  CallsOf(a \o b) = CallsOf(a) \union CallsOf(b)
  <1> DEFINE c == a \o b
  <1>1. /\ Len(a) \in Nat /\ Len(b) \in Nat
        /\ DOMAIN a = 1..Len(a) /\ DOMAIN b = 1..Len(b) /\ DOMAIN c = 1..(Len(a) + Len(b))
        /\ \A i \in DOMAIN a : c[i] = a[i]
        /\ \A i \in DOMAIN b : c[Len(a) + i] = b[i]
      OBVIOUS
  <1> HIDE DEF c
  <1>2. \A i \in DOMAIN c : i \in DOMAIN a \/ i - Len(a) \in DOMAIN b
      BY <1>1
  <1>3. CallsOf(c) \subseteq CallsOf(a) \union CallsOf(b)
    <2> SUFFICES ASSUME NEW i \in DOMAIN c PROVE c[i][1] \in CallsOf(a) \union CallsOf(b)
        BY DEF CallsOf
    <2>1. CASE i \in DOMAIN a
        BY <1>1, <2>1 DEF CallsOf
    <2>2. CASE i - Len(a) \in DOMAIN b
      <3>1. c[i] = b[i - Len(a)]
        <4>1. i = Len(a) + (i - Len(a))
            BY <1>1
        <4> QED
            BY <1>1, <2>2, <4>1
      <3> QED
          BY <2>2, <3>1 DEF CallsOf
    <2> QED
        BY <1>2, <2>1, <2>2
  <1>4. CallsOf(a) \subseteq CallsOf(c)
    <2>1. DOMAIN a \subseteq DOMAIN c
        BY <1>1
    <2> QED
        BY <1>1, <2>1 DEF CallsOf
  <1>5. CallsOf(b) \subseteq CallsOf(c)
    <2>1. \A i \in DOMAIN b : Len(a) + i \in DOMAIN c
        BY <1>1
    <2> QED
        BY <1>1, <2>1 DEF CallsOf
  <1> QED
      BY <1>3, <1>4, <1>5 DEF c

LEMMA CallsOfNone == CallsOf(<<>>) = {}
  <1>1. DOMAIN <<>> = {}
      OBVIOUS
  <1> QED
      BY <1>1 DEF CallsOf

LEMMA EventsTyped ==
    ASSUME TypeOK
    PROVE  /\ queue \in Seq(Event) /\ batch \in Seq(Event) /\ delivered \in Seq(Event)
           /\ calls \in Nat
           /\ DOMAIN hand = HardwareThreads
           /\ \A t \in HardwareThreads : hand[t] \in Seq(Event)
BY VhalEventsAssumption DEF TypeOK, HardwareTypes, QueueTypes, WorkerTypes

LEMMA InitCallsApart == Init => CallsApart
  <1> SUFFICES ASSUME Init PROVE CallsApart
      OBVIOUS
  <1>1. /\ queue = <<>> /\ batch = <<>> /\ delivered = <<>>
        /\ \A t \in HardwareThreads : hand[t] = <<>>
      BY DEF Init
  <1> QED
      BY <1>1, CallsOfNone DEF CallsApart

\* What a thread hands over is apart from what the hands hold afterwards.
LEMMA HandedOver ==
    ASSUME EventsInv, CallsApart, NEW t \in HardwareThreads, hand' = [hand EXCEPT ![t] = <<>>]
    PROVE  \A u \in HardwareThreads :
              /\ CallsOf(hand'[u]) \subseteq 1..calls
              /\ CallsOf(hand'[u]) \cap CallsOf(hand[t]) = {}
              /\ CallsOf(hand'[u]) \cap CallsOf(queue) = {}
              /\ CallsOf(hand'[u]) \cap CallsOf(batch) = {}
              /\ CallsOf(hand'[u]) \cap CallsOf(delivered) = {}
              /\ \A w \in HardwareThreads \ {u} : CallsOf(hand'[u]) \cap CallsOf(hand'[w]) = {}
  <1>1. DOMAIN hand = HardwareThreads
      BY EventsTyped DEF EventsInv
  <1>2. CallsOf(hand'[t]) = {} /\ \A u \in HardwareThreads \ {t} : hand'[u] = hand[u]
      BY <1>1, CallsOfNone
  <1>3. ASSUME NEW u \in HardwareThreads, NEW w \in HardwareThreads \ {u}
        PROVE  CallsOf(hand'[u]) \cap CallsOf(hand'[w]) = {}
    <2>1. CASE u = t \/ w = t
        BY <1>2, <2>1
    <2>2. CASE u # t /\ w # t
        BY <1>2, <2>2 DEF CallsApart
    <2> QED
        BY <2>1, <2>2
  <1>4. ASSUME NEW u \in HardwareThreads
        PROVE  /\ CallsOf(hand'[u]) \subseteq 1..calls
               /\ CallsOf(hand'[u]) \cap CallsOf(hand[t]) = {}
               /\ CallsOf(hand'[u]) \cap CallsOf(queue) = {}
               /\ CallsOf(hand'[u]) \cap CallsOf(batch) = {}
               /\ CallsOf(hand'[u]) \cap CallsOf(delivered) = {}
    <2>1. CASE u = t
        BY <1>2, <2>1
    <2>2. CASE u # t
        BY <1>2, <2>2 DEF CallsApart
    <2> QED
        BY <2>1, <2>2
  <1> QED
      BY <1>3, <1>4

LEMMA HardwareCallsApart ==
    ASSUME EventsInv, CallsApart, NEW t \in HardwareThreads, HardwareThread(t)
    PROVE  CallsApart'
  <1>1. /\ queue \in Seq(Event) /\ batch \in Seq(Event) /\ delivered \in Seq(Event)
        /\ calls \in Nat
        /\ DOMAIN hand = HardwareThreads
        /\ \A u \in HardwareThreads : hand[u] \in Seq(Event)
      BY EventsTyped DEF EventsInv
  <1>2. CASE OnPropertyChangeEvent(t)
    <2>1. /\ calls' = calls + 1
          /\ UNCHANGED <<queue, batch, delivered>>
        BY <1>2 DEF OnPropertyChangeEvent, queueVars, workerVars
    <2>2. \/ hand' = hand
          \/ \E n \in Sizes : hand' = [hand EXCEPT ![t] = [i \in 1..n |-> <<calls', i>>]]
        BY <1>2 DEF OnPropertyChangeEvent
    <2>3. CallsOf(hand'[t]) \subseteq CallsOf(hand[t]) \union {calls + 1}
      <3>1. CASE hand' = hand
          BY <3>1
      <3>2. CASE \E n \in Sizes : hand' = [hand EXCEPT ![t] = [i \in 1..n |-> <<calls', i>>]]
        <4>1. PICK n \in Sizes : hand' = [hand EXCEPT ![t] = [i \in 1..n |-> <<calls', i>>]]
            BY <3>2
        <4>2. hand'[t] = [i \in 1..n |-> <<calls', i>>]
            BY <1>1, <4>1
        <4> QED
            BY <2>1, <4>2 DEF CallsOf
      <3> QED
          BY <2>2, <3>1, <3>2
    <2>4. \A u \in HardwareThreads \ {t} : hand'[u] = hand[u]
        BY <1>1, <2>2
    <2>5. 1..calls \subseteq 1..calls' /\ calls + 1 \in 1..calls' /\ calls + 1 \notin 1..calls
        BY <1>1, <2>1
    <2>6. /\ calls + 1 \notin CallsOf(queue) \union CallsOf(batch) \union CallsOf(delivered)
          /\ \A u \in HardwareThreads : calls + 1 \notin CallsOf(hand[u])
        BY <2>5 DEF CallsApart
    <2>7. /\ CallsOf(queue') \subseteq 1..calls' /\ CallsOf(batch') \subseteq 1..calls'
          /\ CallsOf(delivered') \subseteq 1..calls'
          /\ CallsOf(queue') \cap CallsOf(batch') = {}
          /\ CallsOf(queue') \cap CallsOf(delivered') = {}
          /\ CallsOf(batch') \cap CallsOf(delivered') = {}
        BY <2>1, <2>5 DEF CallsApart
    <2>8. ASSUME NEW u \in HardwareThreads
          PROVE  /\ CallsOf(hand'[u]) \subseteq 1..calls'
                 /\ CallsOf(hand'[u]) \cap CallsOf(queue') = {}
                 /\ CallsOf(hand'[u]) \cap CallsOf(batch') = {}
                 /\ CallsOf(hand'[u]) \cap CallsOf(delivered') = {}
                 /\ \A w \in HardwareThreads \ {u} : CallsOf(hand'[u]) \cap CallsOf(hand'[w]) = {}
      <3>1. CASE u = t
        <4>1. \A w \in HardwareThreads \ {t} : CallsOf(hand'[t]) \cap CallsOf(hand'[w]) = {}
            BY <2>3, <2>4, <2>6 DEF CallsApart
        <4>2. /\ CallsOf(hand'[t]) \subseteq 1..calls'
              /\ CallsOf(hand'[t]) \cap CallsOf(queue) = {}
              /\ CallsOf(hand'[t]) \cap CallsOf(batch) = {}
              /\ CallsOf(hand'[t]) \cap CallsOf(delivered) = {}
            BY <2>3, <2>5, <2>6 DEF CallsApart
        <4> QED
            BY <2>1, <3>1, <4>1, <4>2
      <3>2. CASE u # t
        <4>1. hand'[u] = hand[u]
            BY <2>4, <3>2
        <4>2. ASSUME NEW w \in HardwareThreads \ {u}
              PROVE  CallsOf(hand[u]) \cap CallsOf(hand'[w]) = {}
          <5>1. CallsOf(hand[u]) \cap CallsOf(hand[w]) = {}
              BY DEF CallsApart
          <5>2. CASE w = t
              BY <2>3, <2>6, <5>1, <5>2
          <5>3. CASE w # t
              BY <2>4, <5>1, <5>3
          <5> QED
              BY <5>2, <5>3
        <4>3. /\ CallsOf(hand[u]) \subseteq 1..calls'
              /\ CallsOf(hand[u]) \cap CallsOf(queue) = {}
              /\ CallsOf(hand[u]) \cap CallsOf(batch) = {}
              /\ CallsOf(hand[u]) \cap CallsOf(delivered) = {}
            BY <2>5 DEF CallsApart
        <4> QED
            BY <2>1, <4>1, <4>2, <4>3
      <3> QED
          BY <3>1, <3>2
    <2> QED
        BY <2>7, <2>8 DEF CallsApart
  <1>3. CASE Push(t)
    <2>1. /\ queue' = queue \o hand[t] \/ queue' = queue
          /\ hand' = [hand EXCEPT ![t] = <<>>]
          /\ UNCHANGED <<calls, batch, delivered>>
        BY <1>3 DEF Push, workerVars
    <2>2. CallsOf(queue') \subseteq CallsOf(queue) \union CallsOf(hand[t])
        BY <1>1, <2>1, CallsOfConcat
    <2>3. \A u \in HardwareThreads :
             /\ CallsOf(hand'[u]) \subseteq 1..calls'
             /\ CallsOf(hand'[u]) \cap CallsOf(queue') = {}
             /\ CallsOf(hand'[u]) \cap CallsOf(batch') = {}
             /\ CallsOf(hand'[u]) \cap CallsOf(delivered') = {}
             /\ \A w \in HardwareThreads \ {u} : CallsOf(hand'[u]) \cap CallsOf(hand'[w]) = {}
        BY <2>1, <2>2, HandedOver
    <2>4. /\ CallsOf(queue') \subseteq 1..calls' /\ CallsOf(batch') \subseteq 1..calls'
          /\ CallsOf(delivered') \subseteq 1..calls'
          /\ CallsOf(queue') \cap CallsOf(batch') = {}
          /\ CallsOf(queue') \cap CallsOf(delivered') = {}
          /\ CallsOf(batch') \cap CallsOf(delivered') = {}
        BY <2>1, <2>2 DEF CallsApart
    <2> QED
        BY <2>3, <2>4 DEF CallsApart
  <1>4. CASE Notify(t)
    <2>1. UNCHANGED <<calls, hand, queue, batch, delivered>>
        BY <1>4 DEF Notify, queueVars
    <2> QED
        BY <2>1 DEF CallsApart
  <1>5. CASE SendAtOnce(t)
    <2>1. /\ delivered' = delivered \o hand[t]
          /\ hand' = [hand EXCEPT ![t] = <<>>]
          /\ UNCHANGED <<calls, queue, batch>>
        BY <1>5 DEF SendAtOnce, queueVars, workerVars
    <2>2. CallsOf(delivered') = CallsOf(delivered) \union CallsOf(hand[t])
        BY <1>1, <2>1, CallsOfConcat
    <2>3. \A u \in HardwareThreads :
             /\ CallsOf(hand'[u]) \subseteq 1..calls'
             /\ CallsOf(hand'[u]) \cap CallsOf(delivered') = {}
             /\ CallsOf(hand'[u]) \cap CallsOf(queue') = {}
             /\ CallsOf(hand'[u]) \cap CallsOf(batch') = {}
             /\ \A w \in HardwareThreads \ {u} : CallsOf(hand'[u]) \cap CallsOf(hand'[w]) = {}
        BY <2>1, <2>2, HandedOver
    <2>4. /\ CallsOf(queue') \subseteq 1..calls' /\ CallsOf(batch') \subseteq 1..calls'
          /\ CallsOf(delivered') \subseteq 1..calls'
          /\ CallsOf(queue') \cap CallsOf(batch') = {}
          /\ CallsOf(queue') \cap CallsOf(delivered') = {}
          /\ CallsOf(batch') \cap CallsOf(delivered') = {}
        BY <2>1, <2>2 DEF CallsApart
    <2> QED
        BY <2>3, <2>4 DEF CallsApart
  <1> QED
      BY <1>2, <1>3, <1>4, <1>5 DEF HardwareThread

LEMMA WorkerCallsApart ==
    ASSUME EventsInv, CallsApart, Worker
    PROVE  CallsApart'
  <1>1. batch \in Seq(Event) /\ delivered \in Seq(Event)
      BY EventsTyped DEF EventsInv
  <1>2. UNCHANGED <<calls, hand>>
      BY DEF Worker, StartWorker, Loop, WaitForItems, Wake, SleepEnds, Flush, Deliver, EndWorker,
         workerOnly, hardwareVars
  <1>3. CASE Flush
    <2>1. batch' = queue /\ queue' = <<>> /\ delivered' = delivered
        BY <1>3 DEF Flush
    <2>2. CallsOf(queue') = {}
        BY <2>1, CallsOfNone
    <2> QED
        BY <1>2, <2>1, <2>2 DEF CallsApart
  <1>4. CASE Deliver
    <2>1. delivered' = delivered \o batch /\ batch' = <<>> /\ queue' = queue
        BY <1>4 DEF Deliver
    <2>2. /\ CallsOf(delivered') = CallsOf(delivered) \union CallsOf(batch)
          /\ CallsOf(batch') = {}
        BY <1>1, <2>1, CallsOfConcat, CallsOfNone
    <2> QED
        BY <1>2, <2>1, <2>2 DEF CallsApart
  <1>5. CASE StartWorker \/ Loop \/ WaitForItems \/ Wake \/ SleepEnds \/ EndWorker
    <2>1. UNCHANGED <<queue, batch, delivered>>
        BY <1>5 DEF StartWorker, Loop, WaitForItems, Wake, SleepEnds, EndWorker
    <2> QED
        BY <1>2, <2>1 DEF CallsApart
  <1> QED
      BY <1>3, <1>4, <1>5 DEF Worker

\* The other threads leave the events alone.
LEMMA OthersLeaveEvents ==
    ASSUME Timer \/ OnBinderDied \/ Handler \/ Destructor \/ UNCHANGED vars
    PROVE  UNCHANGED <<calls, hand, queue, batch, delivered>>
  <1>1. CASE Timer
      BY <1>1 DEF Timer, TakeHeartbeat, CheckHealth, SendHeartbeat, timerOnly, hardwareVars,
         queueVars, workerVars
  <1>2. CASE OnBinderDied \/ Handler
      BY <1>2 DEF OnBinderDied, Handler, HandlerWaits, HandlerFlushes, HandleDeath, binderOnly,
         hardwareVars, queueVars, workerVars
  <1>3. CASE Destructor
      BY <1>3 DEF Destructor, DeleteDeathRecipient, DeactivateBinderEvents, JoinHandler,
         UnregisterHeartbeat, DeactivateQueue, RequestStop, WaitStopped, ResetQueue, ResetManager,
         ResetHardware, JoinTimer, From, hardwareVars
  <1>4. CASE UNCHANGED vars
      BY <1>4 DEF vars, hardwareVars, queueVars, workerVars
  <1> QED
      BY <1>1, <1>2, <1>3, <1>4

LEMMA NextCallsApart == EventsInv /\ CallsApart /\ [Next]_vars => CallsApart'
  <1> SUFFICES ASSUME EventsInv, CallsApart, [Next]_vars PROVE CallsApart'
      OBVIOUS
  <1>1. CASE Timer \/ OnBinderDied \/ Handler \/ Destructor \/ UNCHANGED vars
    <2>1. UNCHANGED <<calls, hand, queue, batch, delivered>>
        BY <1>1, OthersLeaveEvents
    <2> QED
        BY <2>1 DEF CallsApart
  <1> QED
      BY <1>1, HardwareCallsApart, WorkerCallsApart DEF Next

\* What is appended to the clients' events is one of two sequences.
LEMMA AppendedWhole ==
    ASSUME EventsInv, CallsApart, [Next]_vars
    PROVE  \A i \in Len(delivered) + 1 .. Len(delivered') :
              delivered'[i][1] \notin
                  CallsOf(delivered) \union CallsOf(queue')
                      \union UNION {CallsOf(hand'[t]) : t \in HardwareThreads}
  <1>1. /\ queue \in Seq(Event) /\ batch \in Seq(Event) /\ delivered \in Seq(Event)
        /\ DOMAIN hand = HardwareThreads
        /\ \A u \in HardwareThreads : hand[u] \in Seq(Event)
      BY EventsTyped DEF EventsInv
  <1>2. ASSUME NEW s \in Seq(Event), delivered' = delivered \o s,
               NEW i \in Len(delivered) + 1 .. Len(delivered')
        PROVE  delivered'[i][1] \in CallsOf(s)
    <2>1. /\ i - Len(delivered) \in DOMAIN s
          /\ (delivered \o s)[i] = s[i - Len(delivered)]
        BY <1>1, <1>2
    <2> QED
        BY <1>2, <2>1 DEF CallsOf
  <1>3. ASSUME delivered' = delivered, NEW i \in Len(delivered) + 1 .. Len(delivered')
        PROVE  FALSE
      BY <1>1, <1>3
  <1>4. ASSUME NEW t \in HardwareThreads, SendAtOnce(t),
               NEW i \in Len(delivered) + 1 .. Len(delivered')
        PROVE  delivered'[i][1] \notin
                   CallsOf(delivered) \union CallsOf(queue')
                       \union UNION {CallsOf(hand'[u]) : u \in HardwareThreads}
    <2>1. /\ delivered' = delivered \o hand[t] /\ queue' = queue
          /\ hand' = [hand EXCEPT ![t] = <<>>]
        BY <1>4 DEF SendAtOnce, queueVars
    <2>2. delivered'[i][1] \in CallsOf(hand[t])
        BY <1>1, <1>2, <1>4, <2>1
    <2>3. CallsOf(hand'[t]) = {} /\ \A u \in HardwareThreads \ {t} : hand'[u] = hand[u]
        BY <1>1, <2>1, CallsOfNone
    <2>4. \A u \in HardwareThreads : CallsOf(hand[t]) \cap CallsOf(hand'[u]) = {}
        BY <2>3 DEF CallsApart
    <2>5. CallsOf(hand[t]) \cap CallsOf(queue') = {} /\ CallsOf(hand[t]) \cap CallsOf(delivered) = {}
        BY <2>1 DEF CallsApart
    <2> QED
        BY <2>2, <2>4, <2>5
  <1>5. ASSUME Deliver, NEW i \in Len(delivered) + 1 .. Len(delivered')
        PROVE  delivered'[i][1] \notin
                   CallsOf(delivered) \union CallsOf(queue')
                       \union UNION {CallsOf(hand'[u]) : u \in HardwareThreads}
    <2>1. delivered' = delivered \o batch /\ queue' = queue /\ hand' = hand
        BY <1>5 DEF Deliver, workerOnly, hardwareVars
    <2>2. delivered'[i][1] \in CallsOf(batch)
        BY <1>1, <1>2, <1>5, <2>1
    <2>3. /\ \A u \in HardwareThreads : CallsOf(batch) \cap CallsOf(hand'[u]) = {}
          /\ CallsOf(batch) \cap CallsOf(queue') = {} /\ CallsOf(batch) \cap CallsOf(delivered) = {}
        BY <2>1 DEF CallsApart
    <2> QED
        BY <2>2, <2>3
  <1>6. CASE \E t \in HardwareThreads : OnPropertyChangeEvent(t) \/ Push(t) \/ Notify(t)
    <2>1. delivered' = delivered
        BY <1>6 DEF OnPropertyChangeEvent, Push, Notify
    <2> QED
        BY <1>3, <2>1
  <1>7. CASE StartWorker \/ Loop \/ WaitForItems \/ Wake \/ SleepEnds \/ Flush \/ EndWorker
    <2>1. delivered' = delivered
        BY <1>7 DEF StartWorker, Loop, WaitForItems, Wake, SleepEnds, Flush, EndWorker
    <2> QED
        BY <1>3, <2>1
  <1>8. CASE Timer \/ OnBinderDied \/ Handler \/ Destructor \/ UNCHANGED vars
      BY <1>3, <1>8, OthersLeaveEvents
  <1> QED
      BY <1>4, <1>5, <1>6, <1>7, <1>8 DEF Next, HardwareThread, Worker

\* ConcurrentQueue::push and flush keep the values of one callback together, and
\* moving them leaves nothing behind: they reach the clients in one batch.
THEOREM CallsReachClientsWhole == Spec => CallsStayWhole
  <1>1. Init => CallsApart
      BY InitCallsApart
  <1>2. EventsInv /\ CallsApart /\ [Next]_vars => CallsApart'
      BY NextCallsApart
  <1>3. EventsInv /\ CallsApart /\ [Next]_vars =>
          [\A i \in Len(delivered) + 1 .. Len(delivered') :
              delivered'[i][1] \notin
                  CallsOf(delivered) \union CallsOf(queue')
                      \union UNION {CallsOf(hand'[t]) : t \in HardwareThreads}]_vars
      BY AppendedWhole
  <1> QED
      BY <1>1, <1>2, <1>3, EventsInvHolds, PTL DEF Spec, CallsStayWhole
-----------------------------------------------------------------------------
(* The event path implements EventChannel *)

\* The refinement mapping.
Pending == IF queueOwned THEN batch \o queue ELSE <<>>

LEMMA PendingTyped ==
    ASSUME EventsInv
    PROVE  /\ Pending \in Seq(Event) /\ batch \in Seq(Event) /\ queue \in Seq(Event)
           /\ delivered \in Seq(Event)
           /\ worker # "deliver" => batch = <<>>
  BY DEF EventsInv, TypeOK, WorkerTypes, QueueTypes, Pending

\* Steps that move no event and do not touch the queue.
LEMMA OtherStepsStutter ==
    ASSUME UNCHANGED <<hand, queue, batch, queueOwned, active, delivered>>
    PROVE  UNCHANGED Channel!vars
  BY DEF Channel!vars

LEMMA JoinAssociative ==
    \A a, b, c \in Seq(Event) : (a \o b) \o c = a \o (b \o c)
  <1> TAKE a, b, c \in Seq(Event)
  <1> QED
      BY ConcatAssociative

\* The events of a new call are in no place yet.
LEMMA CallReports ==
    ASSUME EventsInv, CallsApart, NEW t \in HardwareThreads, OnPropertyChangeEvent(t)
    PROVE  [Channel!Next]_Channel!vars
  <1>1. PICK n \in Sizes :
           /\ at[t] = "idle" /\ calls < MaxCalls /\ calls' = calls + 1
           /\ hand' = hand \/ hand' = [hand EXCEPT ![t] = [i \in 1..n |-> <<calls', i>>]]
           /\ UNCHANGED <<queue, queueOwned, active, batch, delivered>>
      BY DEF OnPropertyChangeEvent, queueVars, workerVars
  <1>2. CASE hand' = hand
      BY <1>1, <1>2, OtherStepsStutter
  <1> DEFINE h == [i \in 1..n |-> <<calls', i>>]
  <1>3. CASE hand' = [hand EXCEPT ![t] = h]
    <2>1. /\ calls \in Nat /\ calls' \in 1..MaxCalls
          /\ DOMAIN hand = HardwareThreads
          /\ hand[t] = <<>>
        BY <1>1, EventsTyped, VhalEventsAssumption DEF EventsInv, TypeOK, HardwareTypes
    <2>2. h \in Seq(Event)
        BY <2>1, CallIsEvents
    <2>3. Channel!IsInjective(h)
        BY DEF Channel!IsInjective
    <2>4. \A e \in Channel!Range(h) : e[1] = calls + 1
        BY <1>1 DEF Channel!Range
    <2>5. hand'[t] = h /\ hand' = [hand EXCEPT ![t] = hand'[t]]
        BY <1>3, <2>1
    <2> HIDE DEF h
    <2>6. ASSUME NEW s, CallsOf(s) \subseteq 1..calls
          PROVE  Channel!Range(h) \cap Channel!Range(s) = {}
      <3>1. \A e \in Channel!Range(s) : e[1] \in 1..calls
          BY <2>6 DEF Channel!Range, CallsOf
      <3>2. calls + 1 \notin 1..calls
          BY <2>1
      <3> QED
          BY <2>4, <3>1, <3>2
    <2>7. CallsOf(Pending) \subseteq 1..calls
      <3>1. CallsOf(batch \o queue) \subseteq 1..calls
          BY PendingTyped, CallsOfConcat DEF CallsApart
      <3>2. CallsOf(<<>>) \subseteq 1..calls
          BY CallsOfNone
      <3> QED
          BY <3>1, <3>2 DEF Pending
    <2>8. /\ CallsOf(delivered) \subseteq 1..calls
          /\ \A u \in HardwareThreads : CallsOf(hand[u]) \subseteq 1..calls
        BY DEF CallsApart
    <2>9. Channel!Range(h) \cap Channel!Known = {}
        BY <2>6, <2>7, <2>8 DEF Channel!Known, Pending
    <2>10. Pending' = Pending
        BY <1>1 DEF Pending
    <2>11. Channel!Report(t)
        BY <1>1, <2>1, <2>2, <2>3, <2>5, <2>9, <2>10 DEF Channel!Report, Pending
    <2> QED
        BY <2>11 DEF Channel!Next
  <1> QED
      BY <1>1, <1>2, <1>3

LEMMA HandingOver ==
    ASSUME EventsInv, NEW t \in HardwareThreads, at[t] \in {"push", "send"},
           hand' = [hand EXCEPT ![t] = <<>>], active' = active
    PROVE  Channel!HandsOver(t)
  <1>1. hand[t] # <<>>
      BY DEF EventsInv, TypeOK, HardwareTypes
  <1> QED
      BY <1>1 DEF Channel!HandsOver

LEMMA PushAccepts ==
    ASSUME EventsInv, NEW t \in HardwareThreads, Push(t)
    PROVE  [Channel!Next]_Channel!vars
  <1>0. /\ UNCHANGED <<queueOwned, batch, active, delivered>>
        /\ Channel!HandsOver(t)
    <2>1. /\ UNCHANGED <<queueOwned, batch, active, delivered>>
          /\ hand' = [hand EXCEPT ![t] = <<>>] /\ at[t] = "push"
        BY DEF Push, workerVars
    <2> QED
        BY <2>1, HandingOver
  <1>1. CASE active
    <2>1. queueOwned
        BY <1>1 DEF Push, EventsInv, Ownership, Running, HandlerRuns, WorkerRuns
    <2>2. queue' = queue \o hand[t]
        BY <1>1 DEF Push
    <2>3. hand[t] \in Seq(Event)
        BY DEF EventsInv, TypeOK, HardwareTypes
    <2>4. Pending' = Pending \o hand[t]
      <3>1. batch \o (queue \o hand[t]) = (batch \o queue) \o hand[t]
        <4>1. batch \in Seq(Event) /\ queue \in Seq(Event)
            BY PendingTyped
        <4>2. (batch \o queue) \o hand[t] = batch \o (queue \o hand[t])
            BY <2>3, <4>1, JoinAssociative, Zenon
        <4> QED
            BY <4>2
      <3>2. Pending = batch \o queue
          BY <2>1 DEF Pending
      <3>3. Pending' = batch \o (queue \o hand[t])
        <4>1. queueOwned' /\ batch' = batch
            BY <1>0, <2>1
        <4> QED
            BY <2>2, <4>1 DEF Pending
      <3> QED
          BY <3>1, <3>2, <3>3
    <2>5. Channel!Accept(t)
        BY <1>0, <1>1, <2>4 DEF Channel!Accept, Pending
    <2> QED
        BY <2>5 DEF Channel!Next
  <1>2. CASE ~active
    <2>1. Pending' = Pending
        BY <1>0, <1>2 DEF Push, Pending
    <2>2. Channel!Discard(t)
        BY <1>0, <1>2, <2>1 DEF Channel!Discard, Pending
    <2> QED
        BY <2>2 DEF Channel!Next
  <1> QED
      BY <1>1, <1>2

LEMMA SendAtOncePasses ==
    ASSUME EventsInv, NEW t \in HardwareThreads, SendAtOnce(t)
    PROVE  [Channel!Next]_Channel!vars
  <1>1. ~queueOwned
      BY DEF SendAtOnce, EventsInv, Ownership, Running
  <1>2. /\ delivered' = delivered \o hand[t]
        /\ UNCHANGED <<queue, queueOwned, active, batch>>
        /\ hand' = [hand EXCEPT ![t] = <<>>] /\ at[t] = "send"
      BY DEF SendAtOnce, queueVars, workerVars
  <1>3. Channel!HandsOver(t)
      BY <1>2, HandingOver
  <1>4. Pending = <<>> /\ Pending' = <<>>
      BY <1>1, <1>2 DEF Pending
  <1>5. Channel!Pass(t)
      BY <1>2, <1>3, <1>4 DEF Channel!Pass, Pending
  <1> QED
      BY <1>5 DEF Channel!Next

LEMMA FlushStutters ==
    ASSUME EventsInv, Flush
    PROVE  UNCHANGED Channel!vars
  <1>1. batch = <<>> /\ batch' = queue /\ queue' = <<>>
      BY PendingTyped DEF Flush
  <1>2. UNCHANGED <<hand, queueOwned, active, delivered>>
      BY DEF Flush, workerOnly, hardwareVars
  <1>3. <<>> \o queue = queue \o <<>>
      BY PendingTyped
  <1>4. Pending' = Pending
      BY <1>1, <1>2, <1>3 DEF Pending
  <1> QED
      BY <1>2, <1>4 DEF Channel!vars, Pending

LEMMA DeliverDelivers ==
    ASSUME EventsInv, Deliver
    PROVE  Channel!Deliver
  <1>1. queueOwned
      BY DEF Deliver, EventsInv, Ownership, Running
  <1>2. /\ delivered' = delivered \o batch /\ batch' = <<>>
        /\ UNCHANGED <<hand, queue, queueOwned, active>>
      BY DEF Deliver, workerOnly, hardwareVars
  <1>3. batch \in Seq(Event) /\ queue \in Seq(Event)
      BY PendingTyped
  <1>4. batch # <<>>
      BY DEF Deliver, EventsInv, TypeOK, WorkerTypes
  <1>5. Pending = batch \o queue /\ Pending' = queue
      BY <1>1, <1>2, <1>3 DEF Pending
  <1> DEFINE n == Len(batch)
  <1>6. n \in 1..Len(Pending)
      BY <1>3, <1>4, <1>5
  <1>7. SubSeq(Pending, 1, n) = batch
      BY <1>3, <1>5
  <1>8. SubSeq(Pending, n + 1, Len(Pending)) = queue
      BY <1>3, <1>5
  <1> QED
      BY <1>2, <1>5, <1>6, <1>7, <1>8 DEF Channel!Deliver, Pending

LEMMA DestructorCloses ==
    ASSUME EventsInv, Destructor
    PROVE  [Channel!Next]_Channel!vars
  <1>1. UNCHANGED <<hand, queue, batch, delivered>>
      BY OthersLeaveEvents
  <1>2. CASE DeactivateQueue
    <2>1. active' = FALSE /\ queueOwned' = queueOwned
        BY <1>2 DEF DeactivateQueue
    <2>2. Pending' = Pending
        BY <1>1, <2>1 DEF Pending
    <2> QED
        BY <1>1, <2>1, <2>2 DEF Channel!Next, Channel!Close, Pending
  <1>3. CASE ResetQueue
    <2>1. ~active
        BY <1>3 DEF ResetQueue, From, EventsInv, Ownership, HandlerRuns
    <2>2. queueOwned' = FALSE /\ active' = active
        BY <1>3 DEF ResetQueue
    <2>3. Pending' = <<>>
        BY <2>2 DEF Pending
    <2> QED
        BY <1>1, <2>1, <2>2, <2>3 DEF Channel!Next, Channel!Drop, Pending
  <1>4. CASE UNCHANGED <<queueOwned, active>>
      BY <1>1, <1>4, OtherStepsStutter
  <1> QED
      BY <1>2, <1>3, <1>4 DEF Destructor, DeleteDeathRecipient, DeactivateBinderEvents,
             JoinHandler, UnregisterHeartbeat, RequestStop, WaitStopped, ResetManager,
             ResetHardware, JoinTimer

LEMMA NextImplements == EventsInv /\ CallsApart /\ [Next]_vars => [Channel!Next]_Channel!vars
  <1> SUFFICES ASSUME EventsInv, CallsApart, [Next]_vars PROVE [Channel!Next]_Channel!vars
      OBVIOUS
  <1>1. ASSUME NEW t \in HardwareThreads, HardwareThread(t)
        PROVE  [Channel!Next]_Channel!vars
    <2>1. CASE Notify(t)
        BY <2>1, OtherStepsStutter DEF Notify, queueVars
    <2> QED
        BY <1>1, <2>1, CallReports, PushAccepts, SendAtOncePasses DEF HardwareThread
  <1>2. CASE Worker
    <2>1. CASE StartWorker \/ Loop \/ WaitForItems \/ Wake \/ SleepEnds \/ EndWorker
        BY <2>1, OtherStepsStutter
           DEF StartWorker, Loop, WaitForItems, Wake, SleepEnds, EndWorker, workerOnly,
               hardwareVars
    <2> QED
        BY <1>2, <2>1, FlushStutters, DeliverDelivers DEF Worker, Channel!Next
  <1>3. CASE Timer \/ OnBinderDied \/ Handler
    <2>1. UNCHANGED <<queueOwned, active>>
        BY <1>3 DEF Timer, TakeHeartbeat, CheckHealth, SendHeartbeat, timerOnly, OnBinderDied,
               Handler, HandlerWaits, HandlerFlushes, HandleDeath, binderOnly, queueVars
    <2> QED
        BY <1>3, <2>1, OthersLeaveEvents, OtherStepsStutter
  <1>4. CASE Destructor
      BY <1>4, DestructorCloses
  <1>5. CASE UNCHANGED vars
      BY <1>5, OtherStepsStutter DEF vars, hardwareVars, queueVars, workerVars
  <1> QED
      BY <1>1, <1>2, <1>3, <1>4, <1>5 DEF Next

\* Batched or not, the event path is a channel: nothing but what the hardware
\* reported is sent, each event once and in the order of acceptance, and
\* nothing that was accepted is left out before the HAL ends.
THEOREM EventsImplementChannel == Spec => ImplementsChannel
  <1>1. Init => Channel!Init
    <2>1. <<>> \o <<>> = <<>>
        OBVIOUS
    <2> QED
        BY <2>1 DEF Init, Channel!Init
  <1> QED
      BY <1>1, InitCallsApart, NextCallsApart, EventsInvHolds, NextImplements, PTL
         DEF Spec, ImplementsChannel, Channel!Spec
===========================================================================
