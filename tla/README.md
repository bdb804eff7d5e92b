# Verification of the reference Vehicle HAL and the sensors multi-HAL proxy

The repository collects the hardware abstraction layers (HALs) of Android:
interface definitions, test suites and, for some of them, a reference
implementation. This development models the two implementations in which
several actors share state under locks, timeouts and failures: the reference
**Vehicle HAL** (`automotive/vehicle/aidl/impl/current`, written "V" below) and
the event path of the **sensors multi-HAL proxy**
(`sensors/common/default/2.X/multihal`, "S"). TLC checks small instances of
each module; TLAPS proves the main results for all values of the constants.

Run a model with `tlc -config X.cfg M`, where M is the MC module the
configuration is named after, and the proofs with `tlapm <M>Proofs.tla`.

## 1. Inventory

### The Vehicle HAL

Clients (binder processes) call an `IVehicle`; the vehicle's properties live
behind an `IVehicleHardware`.

    client --getValues/setValues--> DefaultVehicleHal --> PendingRequestPool
       ^                                 |    ^                 | timer thread
       |                                 v    | results         v
       +-- results, timeouts ------- ConnectedClient <----- IVehicleHardware
       +-- events <---- SubscriptionManager <-- batching <-------+
    client --subscribe/unsubscribe--> SubscriptionManager --> IVehicleHardware
    RecurrentTimer: heartbeat of DefaultVehicleHal, refresh of FakeVehicleHardware

| Component | State | Operations | What is hard | What makes it correct |
|---|---|---|---|---|
| `PendingRequestPool` (V/utils/common) | a list of batches per client, the timer thread's stop flag | `addRequests`, `tryFinishRequests`, periodic `checkTimeout`, destructor | callbacks run after the lock is released; the pass stops at the first batch that is not overdue; results race timeouts | each accepted request is answered exactly once; nothing overdue is missed; the limit holds |
| `DefaultVehicleHal`, get/set (V/vhal) | client objects per binder, death recipients and their contexts, the binder event queue | `getValues`, `setValues`, result and timeout callbacks, `onBinderDied`, `onBinderUnlinked`, the event handler | the lock is dropped between the liveness check and `addRequests`; the pool is keyed by a raw address; part of a call is denied, part goes to the hardware, which may refuse or never answer | an answer reaches the client that asked, once; dead clients are forgotten; cookies do not dangle |
| `SubscriptionManager` (V/vhal) | clients per property, properties per client, the configuration of each continuous property and its combination, the values of the update rate filter, supported value subscriptions | `subscribe`, two `unsubscribe`, supported value (un)subscription, `getSubscribedClients` | the hardware may refuse in the middle of a list; three copies of one fact; maps that grow by being read | the hardware is asked for what the clients ask together, never without a client, and every client can leave |
| `DefaultVehicleHal`, subscriptions | none beyond the above | `subscribe`, `unsubscribe`, supported values, client death | two manager calls per `subscribe`, under a lock that `unsubscribe` does not take; the death of a client between them | no subscription survives its client, the manager is used as it means to be |
| `DefaultVehicleHal`, events and destruction; `ConcurrentQueue`, `BatchingConsumer` | the event queue and its active flag, the consumer's state, the threads' owners | event callbacks with and without batching, the worker, the heartbeat, each step of the destructor | notifications after the lock is released; the order of shutdown against four kinds of threads | clients get the hardware's events once, in order, in whole callbacks; nothing is used after it is freed; the destructor ends |
| `RecurrentTimer` (V/utils/common) | two maps of registrations, the Looper's messages, one thread | `registerTimerCallback`, `unregisterTimerCallback`, `handleMessage`, destructor | registrations between the steps of `handleMessage`; late threads | one chain of messages per registration, no drift, no double call |
| `FakeVehicleHardware`, `VehiclePropertyStore` | property values, refresh tables, request threads | set/get, subscribe, refresh | copies of tables used after unlock, lock order with the timer | tables and timer agree, events only for subscribed properties |
| property configs, permissions, dump, gRPC, generators | read mostly | lookups, parsing, transport | little | unit tests |

### The sensors multi-HAL proxy

    sub-HALs --postEventsToMessageQueue--> HalProxy --event FMQ--> framework
                        |                   ^    ^                     |
                        v                   |    +---- wake lock FMQ --+
                pending writes queue --> writer thread
                ScopedWakelock ----------> wakelock count, wakelock thread

| Component | State | Operations | What is hard | What makes it correct |
|---|---|---|---|---|
| `HalProxy`, event path | the pending writes queue with its size, the wakelock count and times, two threads, two FMQs | `postEventsToMessageQueue`, `ScopedWakelock`, both threads' loops, `initialize`, `stopThreads` | the writer thread writes without the mutex; a timeout races late acknowledgements; entries leave the queue in parts; notifications without a mutex | events in order with one FMQ writer; the wakelock is held exactly while something is counted; no thread sleeps through work |
| `HalProxy`, the rest | dynamic sensors, operation mode, direct channels | calls passed on to one or all sub-HALs | little: one map under one mutex, calls in sequence | unit tests |

### The other HALs

Candidates with logic of their own: the audio stream workers (a state machine
driven by commands, asynchronous drains), the remote access service (task loop
with retries), biometric sessions (worker queue, cancellation), EVS buffers.
`PROJECT.json` lists every group with the reason why it is not modelled or
where it stands in the plan.

`PROJECT.json` also lists the hazards, each at the line where it bites, with
the properties that would catch it or the reason why none does.

## 2. Plan

Most important behaviour first. Done:

1. `RequestLedger`, `PendingRequestPool` and its proofs.
2. `VhalRequests` on top of the pool, with `BinderLifecycle`, and its proofs.
3. `SubscriptionManager` and its proofs.
4. `RecurrentTimer` and its proofs.
5. `VhalSubscriptions`: the HAL's use of the manager, around 3 and
   `BinderLifecycle`, and its proofs.
6. `EventChannel`, `VhalEvents`: events, batching and `~DefaultVehicleHal`, and
   proofs.
7. `SensorsHalProxy` and its proofs.

Left, in this order:

8. `FakeHardwareRefresh`: the refresh tables of the fake hardware composed with
   `RecurrentTimer`, including the lock order; `VehiclePropertyStore`, whose
   change callback runs outside its lock.
9. `AudioStream`: the state machine of `StreamWorker`, asynchronous drain and
   transfer callbacks, close and binder death.
10. Proofs for the modules of 8 and 9; every safety property of the passing runs
    so far is proved (section 5).

The runs are kept to a dozen, one per question. A later module takes the place
of the narrowest one, and properties that can share an instance share a run.

## 3. Modules

Every operation that holds one lock from start to end is one action. Where
the code releases a lock and goes on, there are several actions and anything
may come in between. A definition is named after the function it models;
`map` in `PROJECT.json` gives its lines. Operators called `X_Something` just
before `X` are variants with a plausible bug; the properties tell them from
the code.

**`RequestLedger`** says what a pool of requests promises, without lists,
clocks or threads: what was accepted is owed an answer until it is answered,
and no two requests that are answered together have the same name.

**`PendingRequestPool`** models `PendingRequestPool.cpp`. `pending` is
`mPendingRequestsByClient`: since lists grow at the back and tickets grow, the
list of a client is its set of batches ordered by ticket. `expired` holds what
`checkTimeout` has taken out and not called back yet, because the callbacks
run without the lock. `life`, `timer` and `threadStop` follow the destructor,
which sets the flag under the lock the timer thread holds whenever it is not
waiting, joins, and answers what is left. `Outstanding` (pending or expired)
is the refinement mapping to `RequestLedger`.

**`BinderLifecycle`** models how the HAL follows the death of a client's
binder: `linkToDeath` with a cookie that points into `mOnBinderDiedContexts`,
the obituary (`onBinderDied`), `onBinderUnlinked`, and the queue of both that a
handler thread works off because binder may call back while `mLock` is held.
Two modules use it, each with what its handler does for a dead client.

**`VhalRequests`** models `getValues` and `setValues` and everything their
answers meet: `GetOrCreateClient`, the liveness check and `linkToDeath`, `Call`
(up to the end of the locked section), `Register` (`addRequests`),
`SendDenied`, `HardwareAccepts` or `HardwareRefuses`, the hardware's results
(any part of a request, at any time, or never), timeouts, and the handler that
drops the client objects of a dead binder. `clients[k][b]` is the address of
the client object of binder b for calls of kind k. It instantiates the pool
with these addresses as keys, as the code does. The allocator may give out a
freed address again, and clients may use any request ID again, only not twice in
one call (`MayAsk`): of a pending ID the pool refuses the call. Which requests of
a call are denied at once is an input. An answer carries the call it was made for, so that `Matches` can say
which calls' answers may finish a request.

**`SubscriptionManager`** models `SubscriptionManager.cpp`. A property stands
for a `[propId, areaId]`. The state of one property is a record (clients,
configuration, what the hardware was told) and the operators `JoinContinuous`,
`JoinOnChange`, `Leave` give the state a call leaves behind; `...Fails` give
the states of a call the hardware refused. A call over a list is a `Walk`: some
of the properties are finished and one may be refused, in any order. `configs`
has entries that appear by being read (`operator[]` in
`getSubscribedClients`), as in the code. `values` is the store of the filter
for variable update rates. What the hardware was told is two things, as it is
told by two calls: the options of the last subscribe it accepted and the rate of
the last `updateSampleRate` it accepted. `Held` says of the first that it is the
clients' combination, and of the second (`RateHeld`) that it is the rate in it
as long as the hardware refuses no call for that property.

**`VhalSubscriptions`** puts `SubscriptionManager` and `BinderLifecycle` under
the HAL's locks. `call` is the `subscribe` that holds `mLock`, with what is
left of it: `OnChangeHalf`, then `ContinuousHalf`. `Unsubscribe` takes no
`mLock` and so may come between them; the handler of dead binders
(`HandleDied`, which calls the manager's `unsubscribe(client)` and ignores its
result) may not. The manager's actions are used as they are, and
`ImplementsManager` says that this uses it as it is meant to be used.

**`EventChannel`** says what clients may rely on for events. An event is in one
place: with the source that reported it, among those that wait, or with the
clients. A source reports events that are in no place yet; from there each event
only moves on. So clients get nothing the hardware did not report and nothing
twice, in the order of acceptance, and nothing that was accepted is lost as long
as the HAL lives.

**`VhalEvents`** models the event path of `DefaultVehicleHal` with
`ConcurrentQueue` and `BatchingConsumer`, and its destructor line by line:
hardware threads that push and then notify without the lock, or send at once
without batching; the worker that waits, sleeps for the batching window,
flushes and delivers; the heartbeat of the timer thread; the handler of dead
binders; and `dtor`, the destructor's position. Objects that threads use by
plain pointers have an "is it still there" variable. It is mapped to
`EventChannel` by what the hardware's threads hold and by what is in the queue
and in the worker's batch. The heartbeat's own event is not among `delivered`: it
is none of the hardware's.

**`RecurrentTimer`** models `RecurrentTimer.cpp`. `messages` is the Looper's
queue as a bag of (ID, time); `taken` is the message the thread holds between
the Looper and `handleMessage`, `running` the callback it calls without the
lock. `Reregistered` are the callbacks that callers register a second time.
Messages with the same time may be taken in any order.

**`SensorsHalProxy`** models the event path of `HalProxy.cpp`,
`HalProxyCallback.cpp` and `ScopedWakelock.cpp`. Events are numbered in the
order in which they were posted. `fmq` holds at most `QueueSize` of them,
`pendingWrites` is the queue with `sizePending`, its separately kept size;
`refCount`, `held`, `startTime` and `resetTime` are the wakelock's fields,
`acks` the wake lock FMQ. A read of that FMQ for which no time is left
(`HalProxy.cpp:651` gives 0 when exactly the timeout has passed) has no
timeout, as in `readBlocking`; otherwise it ends with its timeout. `writer`,
`locker`, `subhal` and `owner` are the positions of the two threads, of each
sub-HAL's call and of the thread in `initialize`; a thread is "checked" between
a false predicate and the wait. The history variables only record the resets of
the counter after a timeout (`era`), the events that were counted and then
dropped, and whether one of the events has happened that make the count wrong
in the code (below).

The MC modules only give constants their values and define symmetry.

## 4. Runs

| Run | Question | Bounds |
|---|---|---|
| `pool` | Does the pool answer everything once, miss no timeout, keep to the limit, and end? | 2 clients, 3 IDs, limit 2, 2 accepted calls, clock to 4 with a timeout of 1 |
| `requests_clients` | Is a request answered once and with an answer made for its address and ID, is nothing left of a failed call, is every client watched and forgotten when it dies, does the HAL use the pool as it is meant? | set, 2 threads, 2 clients of which 1 may die, 2 addresses, 1 ID, 2 calls, 1 request at a time in the pool, a timeout of 0 ticks (a request is overdue in the tick after it), clock to 1 |
| `subscriptions_refused` | Do the maps and the hardware agree when the hardware may refuse, and does nobody's leaving end another's subscription? | 2 clients, 2 continuous properties and an on-change one, 2 sets of options; one continuous property and the on-change one may be refused, the on-change one has events |
| `hal_subscriptions` | Is a subscription watched and does it end with its client, and does the hardware serve the on-change property exactly while someone is left, through the HAL's locks? | 2 clients of which 1 may die, 1 continuous and 1 on-change property, 2 sets of options, supported values of one, hardware that refuses nothing, 2 binder events waiting |
| `timer` | One chain per callback, on time, never lost? | 2 callbacks, 3 registrations and 1 repeated one, intervals 2 and 3, clock to 6 |
| `sensors` | Events in order, the count exact, the wakelock right, nothing stuck, also across `initialize`? | 1 sub-HAL, batches of 1 event without and of 2 events with wake-up, an FMQ of 1, a queue limit of 2, 4 events (2 where there is an `initialize`), timeout 1, clock to 2 |
| `events` | Do clients get the events of the hardware and no others, once, in order and in whole callbacks, and does the destructor end and take nothing away from a thread? | 2 hardware threads, 2 callbacks of 2 events, batching on and off, 1 heartbeat, 2 dying binders |
| `requests_address_reuse`, `subscriptions_events`, `subscriptions_rates`, `sensors_stop`, `events_heartbeat` | findings, below | the smallest instance that shows each |

Why the bounds are enough for the questions. Two clients are the least that can
be confused or cut each other off, and no operation relates three. Two accepted
calls give a list with a batch behind another and an ID that comes back in a
later batch; with three IDs and a limit of two the limit is met. The pool's
clock runs past every deadline, so timeouts, results and new calls meet in
every order; in `requests_clients` one tick passes the deadline of both calls.
There two addresses and one ID are few enough that both come back: a client may
be given the address of a dead one, and may ask under an ID to which a late
answer is under way. `getValues` and `setValues` do the same with other tables,
so one of them is enough. Of the two continuous properties one is never
refused, so that the rate the hardware is told is compared in every state; a
list of the three fails at its beginning, in its middle or at its end. Two
callbacks with intervals 2 and 3 are due together and apart; the thread may be
late by several intervals, and three registrations let a callback come back
while the message of its first life is in the thread's hands. A batch of two
events does not fit an FMQ of one, so it is written in parts, and a second
batch waits behind it or is dropped at the limit; with a timeout of 1 and a
clock to 2 a read may begin before the timeout's last tick, in it, and after
it, and what is posted meanwhile moves it. Two threads with one callback each,
of two events, are the least that can be torn apart or overtake each other in
the queue.

The larger state spaces have 20,000 to 700,000 states. Deadlock checking is off:
every model ends when its bounded clock or counters are used up, and the pool,
the timer and the HAL end by being destroyed.

### Fairness

All of it is weak fairness of threads the code starts and of calls that have
begun, and of time; nobody outside is assumed to start anything.

- `pool`, `timer`: the thread is scheduled and its callbacks return (oneway
  binder calls in the HAL). Repeated registrations are bounded (`MaxAgain`): a
  caller that registers for a time in the past faster than the thread works
  could hold up the others.
- `requests_clients`: calls go on, the timer thread and the event handler are
  scheduled, obituaries arrive once a process is dead. The hardware is never
  assumed to answer.
- `hal_subscriptions`: calls go on and obituaries arrive. The handler competes
  for `mLock` with `subscribe` calls that come again and again; that it gets the
  lock in the end is strong fairness, which is what one expects of a mutex and
  what the standard does not promise.
- `sensors`: the proxy's threads, a sub-HAL's call and `initialize` go on. The
  framework need not read or acknowledge anything.
- `events`: the HAL's threads go on, begun calls end, and so does a destructor
  that has begun.

### Findings

- **`requests_address_reuse`**: the pool's key is the address of a client
  object that is freed when its binder dies; a new client object at the same
  address inherits pending requests, and a late result for the dead client
  finishes the new one's request. What does hold with reuse, and is proved, is
  that a foreign answer was made for the same address and the same ID
  (`AnswersMatchAddressAndId`).
- **`subscriptions_events`**: delivering an event creates a configuration
  entry for an on-change property; the first of two clients to leave then ends
  the hardware's subscription for both. (`hal_subscriptions` has no events of
  on-change properties, and there `OnChangeServed` holds.)
- **`subscriptions_rates`**: `updateSampleRate` is accepted and the subscribe or
  unsubscribe after it is refused (`SubscriptionManager.cpp:231`, `:240`, `:249`).
  The manager keeps the old configuration, but the hardware was told the new
  rate; when the call was the last client's unsubscribe, that rate is 0.
- **`sensors_stop`**: `stopThreads` notifies without the mutexes, so a thread
  that has found its predicate false and does not wait yet sleeps for ever, and
  `initialize` with it.
- **`events_heartbeat`**: `unregisterTimerCallback` does not wait for a callback
  that runs, so the heartbeat may use the hardware the destructor frees.

Seen while modelling and not given a run of their own:

- A call whose requests are all denied registers an empty batch, which times
  out into a callback with no results (`DefaultVehicleHal.cpp:577`).
- Only request IDs that go to the hardware are compared with pending ones
  (`DefaultVehicleHal.cpp:560`); `IVehicle.aidl` asks for all.
- An `unsubscribe` that failed half-way keeps the whole set of the client
  (`SubscriptionManager.cpp:387`). When it is repeated, which
  `SubscriptionManager.h:105` calls safe, a property the client has already left
  and on which one other client is left loses the hardware's subscription.
  `SubscriptionsEndForCause` names this (`LeavesAgain`) and the entry an event
  made as the only ways in which it happens.
- `IVehicle.aidl:88` asks for IDs that are unique among the pending requests. A
  client that uses an ID again after its timeout may get the late result of the
  first request as the answer to the second (`Matches` allows it).
- `sharedWakelockDidTimeout` says "no timeout, 0 left" when exactly the timeout
  has passed (`HalProxy.cpp:647`), and `readBlocking` takes 0 for "no timeout":
  the thread then waits for the framework however long it takes, where
  `ISensors.hal:118` asks for the release. `WakelockReleased` excepts this one
  wait (`ReadsUntimed`).
- The update rate filter's `insert` never replaces, so it compares with the
  first event for ever (`SubscriptionManager.cpp:508`).
- A dead client stays subscribed if the hardware refuses to unsubscribe it:
  there is no second attempt (`DefaultVehicleHal.cpp:319`).
- A repeated timer registration with another interval keeps the old one
  (`RecurrentTimer.cpp:92` against `RecurrentTimer.h:50`), and one made while
  the callback is being handled leaves two chains.
- Batched events that are in the queue at `requestStop` are dropped
  (`ConcurrentQueue.h:58`).
- `HalProxy::resetSharedWakelock` at `HalProxy.cpp:220` lowers nothing, because
  the threads' flag is down already; `ISensors.hal:125` asks for the reset.
- The count of the wakelock is too low after a failed write of the rest of a
  batch (the whole batch is taken off) and after an acknowledgement of events
  from before a timeout, and too high after a batch was dropped at the limit (it
  stays counted until the timeout). `CountExact` states the count with the
  dropped events in it, as long as neither of the first two has happened and the
  proxy was not initialized again.
- A `postEvents` call that is under way may put events of before into the
  queue after `initialize` has emptied it; `stopThreads` reads the event FMQ
  although the framework is its only reader (`ISensors.hal:78`);
  `activate(false)` leaves pending events of the sensor (`ISensors.hal:58`).

## 5. Proofs

All proofs are for any values of the constants; the assumptions are the named
`ASSUME`s of the modules (types of the constants) and, where said, an
assumption of the theorem itself. Every invariant that is proved was first
checked by TLC.

**`PendingRequestPoolProofs`**. The inductive invariant adds to the type
invariant that tickets are unique and below `nextTicket` and that deadlines are
at most `now + Timeout`: this is why a new batch can go to the back of a sorted
list. From it: `TypeCorrect`, `ListsSorted`, `IdsUnique`, `LimitKept`,
`NotEarly`, `DestructorAnswersAll`, `TimeoutPassComplete` (sortedness is what
makes it sound to stop at the first batch that is not overdue) and
`PoolImplementsLedger`: each action of the pool is an `Accept`, an `Answer` or
a stutter of the ledger. `SortedByDeadline`, `UniqueIds`, `NeverEarly` and
`NothingLeftBehind` are stated only here; no run repeats them.

**`VhalRequestsProofs`**. `HalUsesPool`: every step of the HAL is a step of the
pool, from `CallsInv` and `BatchesInv` (what a call registers has the types the
pool expects) and `HoldersInv`. `RequestsAnsweredOnce` and
`FailedCallsLeaveNothingPending` add `OnceInv`: a registered request is in
exactly one of the pool, the expired batches, the answers sent and the
failures. `AnswersMatchTheirRequests` has no hypothesis on addresses and IDs:
that an answer finishes a request with its own address and ID follows from what
each of the places an answer can come from names (`HardwareInv` for the
hardware's results, the pool's batches for timeouts, the call itself for denials
and refusals). `ClientsWatched` and
`CookiesStayAlive` follow from `LifecycleInv` and `WatchInv`: a context is there
from `linkToDeath` until the unlinked event is handled.

**`SubscriptionManagerProofs`**. `SubscribersCanLeave`: lemmas say what each
operation does to the clients of one property, `WalkCases` what a walk leaves
of each property, and the invariant is that the client map is contained in the
clients' own sets. `SupportedValuesAgree`: the two maps and the hardware's
copy stay equal. `ContinuousOptionsServed`, the rate included, and `NoOrphans` rest on `HeldInv`,
which holds of each property's record by itself: a continuous property with
clients is configured for exactly these and the hardware has their combination
(a refusal leaves the old one on both sides, and at most an empty entry), one
without has no options; an on-change property whose entry an event made has
either the default entry or one that has already ended the hardware's
subscription. That some client asks the fastest rate and one the finest
resolution (`Extremes`) is part of the invariant, since for an arbitrary finite
set it would need induction. `NoneAssumption` says that None is no
configuration. `TypeCorrect` joins these with `TypedInv` and `ValuesInv` (a
client is registered with its own callback, what the hardware has is a
combination of options, the filter's values belong to known properties). All of
this holds for any refusals and any events.

`SubscriptionsEndOnlyForCause` is proved without a hypothesis too: a call that
ends the hardware's subscription of a property which another client keeps is one
of the two cases the property names, since everywhere else the code asks the
hardware to stop only when it has counted the last client. That on-change
properties are served exactly while they have clients (`OnChangeServed`) would
need hardware that neither refuses a call nor reports such a property; it is not
proved, only checked under those bounds in `hal_subscriptions`.

**`VhalSubscriptionsProofs`**. `HalImplementsManager`: every step of the HAL is
a step of the manager; `HalSubscribersCanLeave`, `HalServesItsClients` and
`HalEndsSubscriptionsForCause` take the manager's theorems over, so that they
hold between the halves of a `subscribe` and for any overlap of calls too.
`WatchedWhileSubscribed` assumes `Failing = {}` (a
refusal leaves a dead client subscribed, see above); its invariant joins
`CallInv`, `LeaveInv`, `SupportedInv` and `LifecycleInv`, because the death of
a client removes only what is found in the client's own sets.

**`RecurrentTimerProofs`**. The inductive invariant adds to `OneChain` that no
ID has two messages in any life of the timer, and that the message in the
thread's hands is due; without the latter `handleMessage` could move a time by
more than the intervals that passed. The arithmetic (quotients and multiples)
is in lemmas of its own. From it: `TypeCorrect`, `MapsCorrect`,
`ChainsCorrect`, `TimesCorrect`, `ServedOnce`.

**`VhalEventsProofs`**. The invariant ties what the HAL still owns to how far
the destructor is, and to it where each thread can be: `LifetimesCorrect`
follows since a thread that uses an object is joined before it goes.
`EventsImplementChannel` adds that the batch and the queue together are what
the channel has pending, that nothing is sent directly while anything waits, and
that the events of a new call are in no place yet, which rests on `CallsApart`.
`CallsReachClientsWhole` follows from `CallsApart`: the events of one call are all
in one place, the hands of a thread, the queue, the batch or with the clients.

**`SensorsHalProxyProofs`**. The invariant says of every position of the two
threads, of a sub-HAL's call and of `initialize` who holds which mutex and what
that thread may rely on. From it: `TypeCorrect` (the size that is kept apart
never goes below zero), `WakelockHeldIffCounted`, `OneWriter` (the writer thread
writes without the mutex, but sub-HALs do not write while the queue is not
empty), `NoSleepWithWork` (no thread waits while its predicate is true and the
threads run) and `QueueSizeKept`. `EventsInOrder` adds `OrderInv`: what the
framework has read or answered for, the FMQ and the queue, without what the writer
has just written, are ordered one behind the other, and nothing is newer than
the last number given out. That is why a batch may go to the FMQ only while the
queue is empty, and why the writer leaves what it writes at the front of the
queue.

`CountIsExact` says that the counter is, but for what was dropped, a cardinality:
that of the active `ScopedWakelock`s and of the wake-up events under way, in the
queue, in the FMQ, read or answered for. Since these places are ordered one behind the other they
share no event, so an event that moves is counted once (`Apart` says the same of
the answers among themselves, which the order does not separate). `CountInv`
holds while the count is exact: `ScopedWakelock`s made since the last timeout
have a creation time the code will not reject (`CallsOfEra`), no event is of a
later era than the proxy, and both sets are finite. That last part is kept
step by step as well; it makes each step a sum or a difference of cardinalities.
`EntriesCounted` says that an entry whose own counter is 0 has no wake-up events.
A timeout starts an era in which nothing is under way yet.

Only model-checked is liveness, which is out of the prover's reach:
`EveryRequestAnswered`, `DestructorEnds`, `DeadClientsForgotten`,
`DeadClientsUnsubscribed`, `DueCallbacksRun`, `PendingDrained`,
`WakelockReleased`, `EventsDelivered`; and `OnChangeServed`, for the reason
above. Every other property of the passing runs, type invariants, safety
invariants, action properties and refinements, is stated by a theorem. The
properties of the runs that expect a violation do not hold of the code:
`AnswersReachAsker`, `RatesServed`, `StopEnds`, `HeartbeatHasHardware`, and
`OnChangeServed` with events.

## 6. Not modelled, and abstractions

- Memory: objects are shared pointers except where the code keeps a raw
  address or a plain pointer (client objects, death recipient cookies, what the
  destructor frees); those are modelled. The death recipient is deleted with
  the HAL; callbacks of it that are under way then are binder's business.
- Delivery to a client is a oneway binder call: it is counted when sent.
  `SendAnswers` happens with the step that decides it; messages to a client
  carry no order.
- Property values: events have a value and a time; rates and resolutions are
  small numbers. Requests are IDs.
- Error events and supported value events, which change no state; the event the
  heartbeat sends is not kept among those delivered.
- `incrementRefCountAndMaybeAcquireWakelock` and its counterpart read
  `mThreadsRun` before they take the mutex (`HalProxy.cpp:695`, `:711`); the model
  reads it in the same step as the locked section. The difference is a call that
  read the flag just before `stopThreads` cleared it and counts after.
- Spurious wakeups: every wait is guarded by a predicate or, in the batching
  worker, has the same effect as a notification.
- The memory file a large parcel is sent in, logging, tracing, dump.
- Calls that are refused before they change anything, because of their
  arguments, are not steps.
- The Looper, binder, FMQs and the allocator are modelled from how the code
  uses them and are marked external in `PROJECT.json`.

The models cover a small part of the repository by lines (it has some 620,000,
in more than a hundred HALs). Most of these are test suites of the interfaces,
conversions between versions and between C and AIDL structures, parsers,
emulated property data and cryptography, which have no interleaving and no
protocol a state machine would add anything to; a definition that claimed those
lines would translate none of them. What is left with shared state and is worth
a module is in the plan (items 8 and 9) and, with less of it, in the notes of
the components in `PROJECT.json`.
