--------------------------- MODULE SensorsHalProxy ---------------------------
(***************************************************************************)
(* The event path of the sensors multi-HAL proxy                           *)
(* (sensors/common/default/2.X/multihal/HalProxy.cpp, HalProxyCallback.cpp *)
(* and ScopedWakelock.cpp).                                                *)
(*                                                                         *)
(* Sub-HALs post batches of events.  They go to the event FMQ at once if   *)
(* there is room and nothing waits before them, otherwise to a queue that  *)
(* the pending writes thread moves to the FMQ.  As long as wake-up events  *)
(* are under way the proxy holds a wakelock: a counter goes up with every  *)
(* locked ScopedWakelock and every wake-up event, and down when the former *)
(* is destroyed and when the framework says on the wake lock FMQ that it   *)
(* has handled the latter.  The wakelock thread works off these answers    *)
(* and resets the counter when nothing was counted for too long.           *)
(* initialize stops both threads, empties everything and starts again.     *)
(*                                                                         *)
(* Both threads wait on condition variables.  A thread that has found its  *)
(* predicate false and does not wait yet is "checked": it holds the mutex. *)
(* The model starts after a first initialize.                              *)
(***************************************************************************)
EXTENDS Integers, Sequences, FiniteSets

CONSTANTS SubHals,            \* threads of sub-HALs
          BatchShapes,        \* of a batch: which of its events are wake-up events
          QueueSize,          \* quantum count of the event FMQ
          MaxPendingWrites,   \* kMaxSizePendingWriteEventsQueue
          Timeout,            \* kWakelockTimeoutNs, in ticks
          MaxTime,            \* bound of the model: the clock
          MaxPosts,           \* bound of the model: events
          MaxInits,           \* bound of the model: further calls of initialize
          InitPosts           \* bound of the model: events posted before one, and in all with one

ASSUME SensorsAssumption ==
    /\ BatchShapes \subseteq Seq(BOOLEAN) \ {<<>>}
    /\ QueueSize \in Nat \ {0}
    /\ MaxPendingWrites \in Nat
    /\ Timeout \in Nat
    /\ MaxTime \in Nat
    /\ MaxPosts \in Nat
    /\ MaxInits \in Nat
    /\ InitPosts \in Nat

VARIABLES threadsRun,     \* mThreadsRun
          fmq,            \* the event FMQ
          pendingWrites,  \* mPendingWriteEventsQueue
          sizePending,    \* mSizePendingWriteEventsQueue
          writer,         \* the pending writes thread
          refCount,       \* mWakelockRefCount
          held,           \* is the system's wakelock held?
          startTime,      \* mWakelockTimeoutStartTime
          resetTime,      \* mWakelockTimeoutResetTime
          locker,         \* the wakelock thread
          subhal,         \* the call each sub-HAL is in
          unhandled,      \* wake-up events the framework has read and not handled
          acks,           \* the wake lock FMQ: the events each number stands for
          owner,          \* the thread that calls initialize
          inits, now,
          posted,         \* events posted so far, they are numbered
          era,            \* history: resets of the counter after a timeout
          dropped,        \* history: wake-up events counted in this era and then dropped
          exact           \* history: is the counter still exact?

queueVars   == <<fmq, pendingWrites, sizePending, writer>>
lockVars    == <<refCount, held, startTime, resetTime, locker>>
frameVars   == <<unhandled, acks>>
ownerVars   == <<threadsRun, owner, inits>>
historyVars == <<era, dropped, exact>>
vars == <<queueVars, lockVars, frameVars, ownerVars, historyVars, subhal, now, posted>>

ThreadStates == {"woken", "checked", "waiting", "exited"}
WriterStates == ThreadStates \union {"writing", "written", "failed"}
LockerStates == [pc : ThreadStates] \union [pc : {"reading"}, until : Nat, timed : BOOLEAN]
OwnerStates  == {"serving", "flagged", "drained", "notified", "joined", "cleared"}

Least(a, b) == IF a < b THEN a ELSE b
Elements(s) == {s[i] : i \in DOMAIN s}
Wakeups(s)  == {e \in Elements(s) : e.wake}

Idle == [pc |-> "idle"]
SubHalStates == {Idle} \union [pc : {"created", "posting", "posted"}, shape : Seq(BOOLEAN),
                               locked : BOOLEAN, createdAt : Nat, era : Nat]

Init == /\ threadsRun = TRUE
        /\ fmq = <<>> /\ pendingWrites = <<>> /\ sizePending = 0
        /\ writer = "woken"
        /\ refCount = 0 /\ held = FALSE
        /\ startTime = 0 /\ resetTime = 0
        /\ locker = [pc |-> "woken"]
        /\ subhal = [s \in SubHals |-> Idle]
        /\ unhandled = {} /\ acks = <<>>
        /\ owner = "serving" /\ inits = 0
        /\ now = 0 /\ posted = 0
        /\ era = 0 /\ dropped = 0 /\ exact = TRUE
-----------------------------------------------------------------------------
(* The counter of the shared wakelock *)

EventMutexFree    == writer # "checked"
WakelockMutexFree == locker.pc # "checked"

Notified(pc) == IF pc = "waiting" THEN "woken" ELSE pc

\* incrementRefCountAndMaybeAcquireWakelock.  Here and in Decrement the look at
\* mThreadsRun and the section under the mutex are one step; a flag that falls
\* between the two, in stopThreads, is not in the model.
Increment(delta) ==
    IF threadsRun
    THEN /\ WakelockMutexFree
         /\ refCount' = refCount + delta
         /\ held' = (held \/ refCount = 0)
         /\ startTime' = now
         /\ locker' = IF refCount = 0 THEN [locker EXCEPT !.pc = Notified(@)] ELSE locker
         /\ UNCHANGED resetTime
    ELSE UNCHANGED lockVars

\* Variants: a ScopedWakelock from before a reset counts; the wakelock is only
\* released if the count comes out even.
Lowered_Stale(delta, start) ==
    IF refCount = 0 THEN <<refCount, held>>
    ELSE LET count == refCount - Least(refCount, delta) IN <<count, count # 0 /\ held>>
Lowered_Even(delta, start) ==
    IF refCount = 0 \/ start < resetTime THEN <<refCount, held>>
    ELSE <<refCount - Least(refCount, delta), held /\ delta # refCount>>

\* What a decrement leaves of the count and the wakelock.
Lowered(delta, start) ==
    IF refCount = 0 \/ start < resetTime
    THEN <<refCount, held>>
    ELSE LET count == refCount - Least(refCount, delta)
         IN  <<count, held /\ count # 0>>

\* decrementRefCountAndMaybeReleaseWakelock
Decrement(delta, start) ==
    IF threadsRun
    THEN /\ WakelockMutexFree
         /\ refCount' = Lowered(delta, start)[1]
         /\ held'     = Lowered(delta, start)[2]
    ELSE UNCHANGED <<refCount, held>>
-----------------------------------------------------------------------------
(* Sub-HALs *)

HasWakeup(shape) == TRUE \in Elements(shape)

\* createScopedWakelock, locked if there are wake-up events to post.
CreateScopedWakelock(s, shape) ==
    /\ subhal[s].pc = "idle"
    /\ posted + Len(shape) <= IF inits = 0 /\ owner = "serving" THEN MaxPosts ELSE InitPosts
    /\ LET locked == HasWakeup(shape) /\ threadsRun
       IN  /\ subhal' = [subhal EXCEPT ![s] = [pc |-> "created", shape |-> shape, locked |-> locked,
                                               createdAt |-> now, era |-> era]]
           /\ IF HasWakeup(shape) THEN Increment(1) ELSE UNCHANGED lockVars
    /\ UNCHANGED <<queueVars, frameVars, ownerVars, historyVars, now, posted>>

\* postEvents up to areThreadsRunning.
PostEvents(s) ==
    /\ subhal[s].pc = "created"
    /\ subhal' = [subhal EXCEPT ![s].pc = IF threadsRun THEN "posting" ELSE "posted"]
    /\ UNCHANGED <<queueVars, lockVars, frameVars, ownerVars, historyVars, now, posted>>

\* The batch of a call; an event is known by its number.
Batch(s) == [i \in DOMAIN subhal[s].shape |->
               [n |-> posted + i, wake |-> subhal[s].shape[i], era |-> era]]

\* Variant: the FMQ is written although older events wait.
Direct_Overtakes(events) == Least(Len(events), QueueSize - Len(fmq))

\* How many events of a batch go to the FMQ at once.
Direct(events) ==
    IF pendingWrites = <<>> THEN Least(Len(events), QueueSize - Len(fmq)) ELSE 0

Fits(n) == sizePending + n <= MaxPendingWrites

\* postEventsToMessageQueue
PostEventsToMessageQueue(s) ==
    /\ subhal[s].pc = "posting"
    /\ EventMutexFree
    /\ LET events == Batch(s)
           wakeups == Cardinality(Wakeups(events))
           direct == Direct(events)
           left   == SubSeq(events, direct + 1, Len(events))
       IN  /\ IF subhal[s].locked THEN Increment(wakeups) ELSE UNCHANGED lockVars
           /\ fmq' = fmq \o SubSeq(events, 1, direct)
           /\ IF left # <<>> /\ Fits(Len(left))
              THEN /\ pendingWrites' = Append(pendingWrites,
                                              [events |-> left, numWakeupEvents |-> wakeups])
                   /\ sizePending' = sizePending + Len(left)
                   /\ writer' = Notified(writer)
                   /\ UNCHANGED dropped
              ELSE /\ dropped' = dropped + Cardinality(Wakeups(left))
                   /\ UNCHANGED <<pendingWrites, sizePending, writer>>
           /\ posted' = posted + Len(events)
    /\ subhal' = [subhal EXCEPT ![s].pc = "posted"]
    /\ UNCHANGED <<frameVars, ownerVars, era, exact, now>>

\* ~ScopedWakelock.  One that was created in the tick of a later reset lowers a
\* count it is no longer part of.
DestroyScopedWakelock(s) ==
    /\ subhal[s].pc = "posted"
    /\ IF subhal[s].locked
       THEN /\ Decrement(1, subhal[s].createdAt)
            /\ exact' = (exact /\ (subhal[s].era = era \/ subhal[s].createdAt < resetTime))
       ELSE UNCHANGED <<refCount, held, exact>>
    /\ subhal' = [subhal EXCEPT ![s] = Idle]
    /\ UNCHANGED <<queueVars, startTime, resetTime, locker, frameVars, ownerVars,
                   era, dropped, now, posted>>
-----------------------------------------------------------------------------
(* The pending writes thread *)

\* The loop's condition and the predicate of the wait, with the mutex.
WriterChecks ==
    /\ writer = "woken"
    /\ writer' = IF ~threadsRun THEN "exited"
                 ELSE IF pendingWrites # <<>> THEN "writing"
                 ELSE "checked"
    /\ UNCHANGED <<fmq, pendingWrites, sizePending, lockVars, frameVars, ownerVars,
                   historyVars, subhal, now, posted>>

WriterWaits ==
    /\ writer = "checked"
    /\ writer' = "waiting"
    /\ UNCHANGED <<fmq, pendingWrites, sizePending, lockVars, frameVars, ownerVars,
                   historyVars, subhal, now, posted>>

\* The events of the front that are written together.
NumToWrite == Least(Len(Head(pendingWrites).events), QueueSize)
Chunk      == SubSeq(Head(pendingWrites).events, 1, NumToWrite)
IsPart     == Len(Head(pendingWrites).events) > QueueSize

\* writeBlocking finds room, maybe after the framework has read some events ...
WriteBlocking ==
    /\ writer = "writing"
    /\ Len(fmq) + NumToWrite <= QueueSize
    /\ fmq' = fmq \o Chunk
    /\ writer' = "written"
    /\ UNCHANGED <<pendingWrites, sizePending, lockVars, frameVars, ownerVars, historyVars,
                   subhal, now, posted>>

\* ... or fails, and the events are no longer counted.  What is counted for a
\* batch of which a part was written before is the whole batch.
WriteTimesOut ==
    /\ writer = "writing"
    /\ Len(fmq) + NumToWrite > QueueSize
    /\ LET whole == Head(pendingWrites).numWakeupEvents
           delta == IF IsPart THEN Cardinality(Wakeups(Chunk)) ELSE whole
       IN  /\ IF whole > 0 THEN Decrement(delta, resetTime) ELSE UNCHANGED <<refCount, held>>
           /\ exact' = (exact /\ delta = Cardinality({e \in Wakeups(Chunk) : e.era = era}))
    /\ writer' = "failed"
    /\ UNCHANGED <<fmq, pendingWrites, sizePending, startTime, resetTime, locker, frameVars,
                   ownerVars, era, dropped, subhal, now, posted>>

\* Variants: the size is lowered by the whole entry; events that could not be
\* written are tried again.
WriterPops_WholeSize ==
    /\ writer \in {"written", "failed"}
    /\ sizePending' = sizePending - Len(Head(pendingWrites).events)
    /\ pendingWrites' =
          IF IsPart
          THEN [pendingWrites EXCEPT ![1].events = SubSeq(@, QueueSize + 1, Len(@))]
          ELSE Tail(pendingWrites)
    /\ writer' = "woken"
    /\ UNCHANGED <<fmq, lockVars, frameVars, ownerVars, historyVars, subhal, now, posted>>
WriterPops_Retries ==
    /\ writer \in {"written", "failed"}
    /\ IF writer = "failed"
       THEN UNCHANGED <<sizePending, pendingWrites>>
       ELSE /\ sizePending' = sizePending - NumToWrite
            /\ pendingWrites' =
                  IF IsPart
                  THEN [pendingWrites EXCEPT ![1].events = SubSeq(@, QueueSize + 1, Len(@))]
                  ELSE Tail(pendingWrites)
    /\ writer' = "woken"
    /\ UNCHANGED <<fmq, lockVars, frameVars, ownerVars, historyVars, subhal, now, posted>>

\* With the mutex again, the events leave the queue.
WriterPops ==
    /\ writer \in {"written", "failed"}
    /\ sizePending' = sizePending - NumToWrite
    /\ pendingWrites' =
          IF IsPart
          THEN [pendingWrites EXCEPT ![1].events = SubSeq(@, QueueSize + 1, Len(@))]
          ELSE Tail(pendingWrites)
    /\ writer' = "woken"
    /\ UNCHANGED <<fmq, lockVars, frameVars, ownerVars, historyVars, subhal, now, posted>>
-----------------------------------------------------------------------------
(* The wakelock thread *)

DidTimeout == now - startTime > Timeout

\* It resets the counter ...
WakelockTimesOut ==
    /\ locker.pc = "woken" /\ threadsRun
    /\ refCount > 0
    /\ DidTimeout
    /\ Decrement(refCount, resetTime)
    /\ resetTime' = now
    /\ era' = era + 1
    /\ dropped' = 0
    /\ UNCHANGED <<queueVars, startTime, locker, frameVars, ownerVars, exact, subhal, now, posted>>

\* ... or reads the wake lock FMQ for as long as is left; at the very end of the
\* time nothing is left, and readBlocking takes 0 for no timeout ...
LockerReads ==
    /\ locker.pc = "woken" /\ threadsRun
    /\ refCount > 0
    /\ ~DidTimeout
    /\ LET until == startTime + Timeout IN
           locker' = [pc |-> "reading", until |-> until, timed |-> until # now]
    /\ UNCHANGED <<queueVars, refCount, held, startTime, resetTime, frameVars, ownerVars,
                   historyVars, subhal, now, posted>>

\* ... or waits for something to be counted ...
LockerChecks ==
    /\ locker.pc = "woken" /\ threadsRun
    /\ refCount = 0
    /\ locker' = [pc |-> "checked"]
    /\ UNCHANGED <<queueVars, refCount, held, startTime, resetTime, frameVars, ownerVars,
                   historyVars, subhal, now, posted>>

LockerWaits ==
    /\ locker.pc = "checked"
    /\ locker' = [pc |-> "waiting"]
    /\ UNCHANGED <<queueVars, refCount, held, startTime, resetTime, frameVars, ownerVars,
                   historyVars, subhal, now, posted>>

\* ... or ends.  Its last resetSharedWakelock lowers nothing: the flag is down.
LockerExits ==
    /\ locker.pc = "woken" /\ ~threadsRun
    /\ locker' = [pc |-> "exited"]
    /\ resetTime' = now
    /\ UNCHANGED <<queueVars, refCount, held, startTime, frameVars, ownerVars,
                   historyVars, subhal, now, posted>>

\* readBlocking returns a number.
AckArrives ==
    /\ locker.pc = "reading"
    /\ acks # <<>>
    /\ Decrement(Cardinality(Head(acks)), resetTime)
    /\ acks' = Tail(acks)
    /\ exact' = (exact /\ \A e \in Head(acks) : e.era = era)
    /\ locker' = [pc |-> "woken"]
    /\ UNCHANGED <<queueVars, startTime, resetTime, unhandled, ownerVars, era, dropped,
                   subhal, now, posted>>

\* Variant: the thread waits for more to be counted before it looks again.
ReadTimesOut_Waits ==
    /\ locker.pc = "reading" /\ locker.timed
    /\ now >= locker.until
    /\ locker' = [pc |-> "waiting"]
    /\ UNCHANGED <<queueVars, refCount, held, startTime, resetTime, frameVars, ownerVars,
                   historyVars, subhal, now, posted>>

\* It gives up, if it has a timeout.
ReadTimesOut ==
    /\ locker.pc = "reading" /\ locker.timed
    /\ now >= locker.until
    /\ locker' = [pc |-> "woken"]
    /\ UNCHANGED <<queueVars, refCount, held, startTime, resetTime, frameVars, ownerVars,
                   historyVars, subhal, now, posted>>
-----------------------------------------------------------------------------
(* The framework *)

ReadEvents(n) ==
    /\ fmq' = SubSeq(fmq, n + 1, Len(fmq))
    /\ unhandled' = unhandled \union Wakeups(SubSeq(fmq, 1, n))
    /\ UNCHANGED <<pendingWrites, sizePending, writer, lockVars, acks, ownerVars, historyVars,
                   subhal, now, posted>>

HandleEvents ==
    /\ unhandled # {}
    /\ acks' = Append(acks, unhandled)
    /\ unhandled' = {}
    /\ UNCHANGED <<queueVars, lockVars, ownerVars, historyVars, subhal, now, posted>>
-----------------------------------------------------------------------------
(* initialize *)

\* stopThreads: the flag ...
StopThreads ==
    /\ owner = "serving"
    /\ inits < MaxInits
    /\ posted <= InitPosts
    /\ threadsRun' = FALSE
    /\ owner' = "flagged"
    /\ exact' = FALSE
    /\ UNCHANGED <<queueVars, lockVars, frameVars, inits, era, dropped, subhal, now, posted>>

\* ... the queues, so that threads that are writing or reading go on ...
StopDrains ==
    /\ owner = "flagged"
    /\ fmq' = <<>>
    /\ acks' = Append(acks, {})
    /\ owner' = "drained"
    /\ UNCHANGED <<pendingWrites, sizePending, writer, lockVars, unhandled, threadsRun, inits,
                   historyVars, subhal, now, posted>>

\* ... and those that wait.  No mutex is taken.
StopNotifies ==
    /\ owner = "drained"
    /\ writer' = Notified(writer)
    /\ locker' = [locker EXCEPT !.pc = Notified(@)]
    /\ owner' = "notified"
    /\ UNCHANGED <<fmq, pendingWrites, sizePending, refCount, held, startTime, resetTime, frameVars,
                   threadsRun, inits, historyVars, subhal, now, posted>>

JoinThreads ==
    /\ owner = "notified"
    /\ writer = "exited" /\ locker.pc = "exited"
    /\ owner' = "joined"
    /\ UNCHANGED <<queueVars, lockVars, frameVars, threadsRun, inits, historyVars,
                   subhal, now, posted>>

\* initializeCommon resets the wakelock (which lowers nothing, the flag is down),
\* empties the queue and takes new FMQs ...
ClearQueues ==
    /\ owner = "joined"
    /\ Decrement(refCount, resetTime)
    /\ resetTime' = now
    /\ pendingWrites' = <<>> /\ sizePending' = 0
    /\ fmq' = <<>> /\ acks' = <<>> /\ unhandled' = {}
    /\ owner' = "cleared"
    /\ UNCHANGED <<writer, startTime, locker, threadsRun, inits, historyVars,
                   subhal, now, posted>>

\* ... and starts the threads.
StartThreads ==
    /\ owner = "cleared"
    /\ threadsRun' = TRUE
    /\ writer' = "woken"
    /\ locker' = [pc |-> "woken"]
    /\ owner' = "serving"
    /\ inits' = inits + 1
    /\ UNCHANGED <<fmq, pendingWrites, sizePending, refCount, held, startTime, resetTime, frameVars,
                   historyVars, subhal, now, posted>>

Tick == /\ now < MaxTime
        /\ now' = now + 1
        /\ UNCHANGED <<queueVars, lockVars, frameVars, ownerVars, historyVars, subhal, posted>>
-----------------------------------------------------------------------------
WriterNext == WriterChecks \/ WriterWaits \/ WriteBlocking \/ WriteTimesOut \/ WriterPops

LockerNext == \/ WakelockTimesOut \/ LockerReads \/ LockerChecks \/ LockerWaits
              \/ LockerExits \/ AckArrives \/ ReadTimesOut

SubHalGoesOn(s) == PostEvents(s) \/ PostEventsToMessageQueue(s) \/ DestroyScopedWakelock(s)

OwnerGoesOn == \/ StopDrains \/ StopNotifies \/ JoinThreads \/ ClearQueues \/ StartThreads

Next == \/ WriterNext
        \/ LockerNext
        \/ \E s \in SubHals : SubHalGoesOn(s) \/ \E shape \in BatchShapes : CreateScopedWakelock(s, shape)
        \/ \E n \in 1 .. Len(fmq) : ReadEvents(n)
        \/ HandleEvents
        \/ StopThreads
        \/ OwnerGoesOn
        \/ Tick

\* The proxy's threads, the sub-HALs' calls and initialize go on and time
\* passes.  The framework need not read or handle anything.
Fairness == /\ WF_vars(WriterNext) /\ WF_vars(LockerNext)
            /\ \A s \in SubHals : WF_vars(SubHalGoesOn(s))
            /\ WF_vars(OwnerGoesOn)
            /\ WF_vars(Tick)

Spec     == Init /\ [][Next]_vars
FairSpec == Spec /\ Fairness
-----------------------------------------------------------------------------
(* What must hold *)

Event == [n : Nat, wake : BOOLEAN, era : Nat]

TypeOK ==
    /\ threadsRun \in BOOLEAN
    /\ fmq \in Seq(Event) /\ Len(fmq) <= QueueSize
    /\ pendingWrites \in Seq([events : Seq(Event), numWakeupEvents : Nat])
    /\ sizePending \in Nat
    /\ writer \in WriterStates
    /\ refCount \in Nat /\ held \in BOOLEAN
    /\ startTime \in Nat /\ resetTime \in Nat /\ now \in Nat
    /\ locker \in LockerStates
    /\ DOMAIN subhal = SubHals /\ \A s \in SubHals : subhal[s] \in SubHalStates
    /\ unhandled \subseteq Event
    /\ acks \in Seq(SUBSET Event)
    /\ owner \in OwnerStates /\ inits \in Nat
    /\ posted \in Nat /\ era \in Nat /\ dropped \in Nat /\ exact \in BOOLEAN

\* The system's wakelock is held exactly while something is counted.
HeldIffCounted == held <=> refCount > 0

\* The pending entries without the events that were just written or given up.
Rest == IF writer \in {"written", "failed"}
        THEN IF IsPart
             THEN [pendingWrites EXCEPT ![1].events = SubSeq(@, QueueSize + 1, Len(@))]
             ELSE Tail(pendingWrites)
        ELSE pendingWrites

\* Wake-up events of this era that the framework has not been seen to handle,
\* and the ScopedWakelocks of this era.
OnTheWay ==
    {e \in (UNION {Wakeups(Rest[q].events) : q \in DOMAIN Rest}) \union Wakeups(fmq)
           \union unhandled \union UNION Elements(acks) : e.era = era}
Scoped == {s \in SubHals : subhal[s].pc # "idle" /\ subhal[s].locked /\ subhal[s].era = era}

\* HalProxy.h: "The refcount of how many ScopedWakelocks and pending wakeup events
\* are active".  It is exact, also after a timeout, until an event from before a
\* timeout is answered, writing fails for the rest of a batch or the proxy is
\* initialized again.  Events that found no room stay counted.
CountExact ==
    exact => refCount = Cardinality(Scoped) + Cardinality(OnTheWay) + dropped

\* Two threads write to the FMQ, which allows one writer: sub-HALs do so only
\* while nothing is pending, so the thread must leave the events it writes where
\* they are.
SingleWriter == writer \in {"writing", "written", "failed"} => pendingWrites # <<>>

Increasing(s) == \A i, j \in DOMAIN s : i < j => s[i].n < s[j].n
Before(S, T)  == \A e \in S, f \in T : e.n < f.n

\* Events reach the framework in the order in which they were posted.
InOrder ==
    /\ Increasing(fmq)
    /\ Before(unhandled, Elements(fmq))
    /\ \A q \in DOMAIN Rest :
          /\ Increasing(Rest[q].events)
          /\ Before(Elements(fmq), Elements(Rest[q].events))
          /\ \A p \in 1 .. q - 1 : Before(Elements(Rest[p].events), Elements(Rest[q].events))

\* The size that limits the queue is the number of events in it; it is lowered
\* after the mutex was released, and unsigned.
QueueWithinLimit ==
    /\ sizePending <= MaxPendingWrites
    /\ \E sum \in [0 .. Len(pendingWrites) -> 0 .. sizePending] :
          /\ sum[0] = 0 /\ sum[Len(pendingWrites)] = sizePending
          /\ \A q \in DOMAIN pendingWrites :
                sum[q] = sum[q - 1] + Len(pendingWrites[q].events)

\* No thread sleeps while there is work for it, unless the proxy is being stopped.
NoLostWakeup ==
    threadsRun => /\ writer = "waiting" => pendingWrites = <<>>
                  /\ locker.pc = "waiting" => refCount = 0

\* Pending events are written or given up, whether or not the framework reads.
PendingDrained == pendingWrites # <<>> ~> (pendingWrites = <<>> \/ ~threadsRun)

\* The wakelock thread reads without a timeout: it computed the time left exactly
\* at the end of the timeout, and blocks until the framework answers.
ReadsUntimed == locker.pc = "reading" /\ ~locker.timed

\* ISensors.hal: a wakelock that is held without an answer from the framework is
\* released.  It is, unless the thread's read falls on the end of the timeout.
WakelockReleased ==
    (held /\ startTime + Timeout < MaxTime)
        ~> (~held \/ startTime + Timeout >= MaxTime \/ ~threadsRun \/ ReadsUntimed)

\* HalProxy.h: stopThreads "Stops all threads by setting the threads running flag
\* to false and joining to them."
StopEnds == owner = "flagged" ~> owner = "joined"
==============================================================================
