--------------------------- MODULE RecurrentTimer ---------------------------
(***************************************************************************)
(* RecurrentTimer (utils/common/src/RecurrentTimer.cpp): callbacks that    *)
(* are called again and again by one thread, which polls a Looper.         *)
(*                                                                         *)
(* A registered callback has a chain of messages: each message that the    *)
(* thread handles sends the next.  register and unregister hold mLock from *)
(* start to end.  The thread takes a due message from the Looper, then     *)
(* looks the callback up and sends the next message with mLock held, then  *)
(* calls the callback without it; registrations come in between.           *)
(*                                                                         *)
(* The Looper keeps messages by time; those of one time it delivers in the *)
(* order they were sent, here in any order.                                *)
(***************************************************************************)
EXTENDS Integers, FiniteSetsExt, Functions

CONSTANTS Callbacks,
          Intervals,     \* the intervals callers ask for, in clock ticks
          Reregistered,  \* the callbacks that callers register when they are registered
          MaxTime,       \* bound of the model: the clock stops here
          MaxId,         \* bound of the model: the last ID given out
          MaxAgain,      \* bound of the model: repeated registrations
          None

ASSUME TimerAssumption ==
    /\ Intervals \subseteq Nat \ {0}
    /\ Reregistered \subseteq Callbacks
    /\ MaxTime \in Nat /\ MaxId \in Nat /\ MaxAgain \in Nat
    /\ None \notin Callbacks

VARIABLES now,         \* uptimeNanos()
          nextId,      \* mCallbackId
          idOf,        \* mIdByCallback
          infos,       \* mCallbackInfoById
          messages,    \* the Looper's messages, a bag
          taken,       \* the ID of the message the thread is about to handle
          running,     \* the callback the thread is calling
          life,        \* alive, stopping, joining (in ~RecurrentTimer) or gone
          again        \* counts repeated registrations, for the bound

registrations == <<nextId, idOf, infos>>
thread        == <<taken, running>>
vars == <<now, registrations, messages, thread, life, again>>

INVALID_ID == -1

Init == /\ now = 0
        /\ nextId = 0
        /\ idOf = [cb \in Callbacks |-> INVALID_ID]
        /\ infos = <<>>
        /\ messages = <<>>
        /\ taken = INVALID_ID
        /\ running = None
        /\ life = "alive"
        /\ again = 0
-----------------------------------------------------------------------------
(* The Looper, and the map from IDs *)

Message(id, time) == [id |-> id, time |-> time]

Sent(m) ==
    [k \in DOMAIN messages \union {m} |->
        IF k # m THEN messages[k] ELSE IF m \in DOMAIN messages THEN messages[m] + 1 ELSE 1]

Removed(m) == IF messages[m] > 1 THEN [messages EXCEPT ![m] = @ - 1]
              ELSE Restrict(messages, DOMAIN messages \ {m})

MessagesFor(id) == {m \in DOMAIN messages : m.id = id}

\* removeMessages(mHandler, id)
RemoveMessages(id) ==
    messages' = Restrict(messages, DOMAIN messages \ MessagesFor(id))

\* std::unordered_map::insert: an entry that is there stays as it is.
Inserted(id, info) ==
    [k \in DOMAIN infos \union {id} |-> IF k \in DOMAIN infos THEN infos[k] ELSE info]
-----------------------------------------------------------------------------
(* Registration *)

\* Variants: the lowest ID that is free; the counter is advanced first.
NewId_Lowest == Min({id \in 0..nextId : id \notin DOMAIN infos})
NewId_PreIncremented == nextId + 1

NewId == nextId

\* Variant: the first call is due now.
Aligned_ToNow(interval) == now

\* The quotient is an integer before ceil sees it: the last multiple, not the next.
Aligned(interval) == (now \div interval) * interval

NewInfo(cb, interval) ==
    [callback |-> cb, interval |-> interval, nextTime |-> Aligned(interval)]

RegisterTimerCallback(interval, cb) ==
    /\ life = "alive"
    /\ idOf[cb] = INVALID_ID
    /\ nextId <= MaxId
    /\ nextId' = nextId + 1
    /\ idOf' = [idOf EXCEPT ![cb] = NewId]
    /\ infos' = Inserted(NewId, NewInfo(cb, interval))
    /\ messages' = Sent(Message(NewId, Aligned(interval)))
    /\ UNCHANGED <<now, thread, life, again>>

\* The callback is registered: its messages are replaced by one.
RegisterAgain(interval, cb) ==
    /\ life = "alive"
    /\ cb \in Reregistered
    /\ idOf[cb] # INVALID_ID
    /\ infos' = Inserted(idOf[cb], NewInfo(cb, interval))
    /\ messages' = [m \in (DOMAIN messages \ MessagesFor(idOf[cb]))
                              \union {Message(idOf[cb], Aligned(interval))} |->
                       IF m.id = idOf[cb] THEN 1 ELSE messages[m]]
    /\ again < MaxAgain
    /\ again' = again + 1
    /\ UNCHANGED <<now, nextId, idOf, thread, life>>

\* Unregistering what is not registered changes nothing.
UnregisterTimerCallback(cb) ==
    /\ life = "alive"
    /\ idOf[cb] # INVALID_ID
    /\ RemoveMessages(idOf[cb])
    /\ infos' = Restrict(infos, DOMAIN infos \ {idOf[cb]})
    /\ idOf' = [idOf EXCEPT ![cb] = INVALID_ID]
    /\ UNCHANGED <<now, nextId, thread, life, again>>
-----------------------------------------------------------------------------
(* The thread *)

Idle == taken = INVALID_ID /\ running = None

Due == {m \in DOMAIN messages : m.time <= now}

\* The Looper takes the earliest message out and calls the handler.
TakeMessage ==
    /\ Idle
    /\ life # "gone"
    /\ \E m \in Due :
          /\ \A o \in Due : m.time <= o.time
          /\ taken' = m.id
          /\ messages' = Removed(m)
    /\ UNCHANGED <<now, registrations, running, life, again>>

\* int64 division rounds towards 0.
Quotient(a, b) == IF a >= 0 THEN a \div b ELSE -((-a) \div b)

\* Variant: one interval on, however many have passed.
NextTime_OneStep(info) == info.nextTime + info.interval

\* The first multiple of the interval after now.
NextTime(info) ==
    info.nextTime + (Quotient(now - info.nextTime, info.interval) + 1) * info.interval

\* Variant: the next message is not sent.
HandleMessage_SendsNothing ==
    /\ taken \in DOMAIN infos
    /\ infos' = [infos EXCEPT ![taken].nextTime = NextTime(infos[taken])]
    /\ running' = infos[taken].callback
    /\ taken' = INVALID_ID
    /\ UNCHANGED <<now, nextId, idOf, messages, life, again>>

\* handleMessage up to the call, with mLock held.
HandleMessage ==
    /\ taken \in DOMAIN infos
    /\ infos' = [infos EXCEPT ![taken].nextTime = NextTime(infos[taken])]
    /\ messages' = Sent(Message(taken, NextTime(infos[taken])))
    /\ running' = infos[taken].callback
    /\ taken' = INVALID_ID
    /\ UNCHANGED <<now, nextId, idOf, life, again>>

\* The callback was unregistered after its message was taken.
IgnoreOutdated ==
    /\ taken # INVALID_ID
    /\ taken \notin DOMAIN infos
    /\ taken' = INVALID_ID
    /\ UNCHANGED <<now, registrations, messages, running, life, again>>

CallbackReturns ==
    /\ running # None
    /\ running' = None
    /\ UNCHANGED <<now, registrations, messages, taken, life, again>>
-----------------------------------------------------------------------------
(* ~RecurrentTimer *)

RequestStop ==
    /\ life = "alive"
    /\ life' = "stopping"
    /\ UNCHANGED <<now, registrations, messages, thread, again>>

RemoveAllMessages ==
    /\ life = "stopping"
    /\ life' = "joining"
    /\ messages' = <<>>
    /\ UNCHANGED <<now, registrations, thread, again>>

\* pollOnce returns, the loop ends and so does the join.  The message that a
\* last handleMessage sent stays behind, due or not.
Join ==
    /\ life = "joining"
    /\ Idle
    /\ life' = "gone"
    /\ UNCHANGED <<now, registrations, messages, thread, again>>

Tick == /\ now < MaxTime
        /\ now' = now + 1
        /\ UNCHANGED <<registrations, messages, thread, life, again>>
-----------------------------------------------------------------------------
CallerNext ==
    \E cb \in Callbacks :
        \/ \E interval \in Intervals :
              RegisterTimerCallback(interval, cb) \/ RegisterAgain(interval, cb)
        \/ UnregisterTimerCallback(cb)

ThreadNext == TakeMessage \/ HandleMessage \/ IgnoreOutdated \/ CallbackReturns

Next == \/ CallerNext
        \/ ThreadNext
        \/ RequestStop \/ RemoveAllMessages \/ Join
        \/ Tick

\* The thread is scheduled, callbacks return and time passes.
Fairness == /\ WF_vars(TakeMessage)
            /\ WF_vars(HandleMessage)
            /\ WF_vars(IgnoreOutdated)
            /\ WF_vars(CallbackReturns)
            /\ WF_vars(Tick)

Spec     == Init /\ [][Next]_vars
FairSpec == Spec /\ Fairness
-----------------------------------------------------------------------------
(* What must hold *)

Infos == [callback : Callbacks, interval : Intervals, nextTime : Nat]

\* The type invariant.
TypeOK ==
    /\ now \in Nat
    /\ nextId \in Nat
    /\ idOf \in [Callbacks -> -1..nextId - 1]
    /\ DOMAIN infos \subseteq 0..nextId - 1
    /\ infos \in [DOMAIN infos -> Infos]
    /\ DOMAIN messages \subseteq [id : 0..nextId - 1, time : Nat]
    /\ messages \in [DOMAIN messages -> Nat \ {0}]
    /\ taken \in -1..nextId - 1
    /\ running \in Callbacks \union {None}
    /\ life \in {"alive", "stopping", "joining", "gone"}
    /\ again \in Nat

\* mIdByCallback and mCallbackInfoById are each other's inverse: no entry is
\* left behind by an unregistration, no callback is registered under two IDs.
MapsAgree ==
    /\ \A cb \in Callbacks : idOf[cb] # INVALID_ID =>
           idOf[cb] \in DOMAIN infos /\ infos[idOf[cb]].callback = cb
    /\ \A id \in DOMAIN infos : idOf[infos[id].callback] = id

\* The registrations that were made once.
Single == {id \in DOMAIN infos : infos[id].callback \notin Reregistered}

\* A registered callback has exactly one message, on its way through the thread
\* or in the Looper at the time the timer has noted, and what is not registered
\* has none: no callback dies out or is called by two chains, also when it is
\* unregistered and registered while its message is being handled.
OneChain ==
    life = "alive" =>
        /\ \A id \in Single :
              /\ MessagesFor(id) = IF taken = id THEN {}
                                   ELSE {Message(id, infos[id].nextTime)}
              /\ \A m \in MessagesFor(id) : messages[m] = 1
        /\ \A m \in DOMAIN messages : m.id \in DOMAIN infos

\* Calls are due at multiples of the interval, and never more than one
\* interval ahead: delays of the thread do not add up.
NoDrift ==
    \A id \in Single :
        /\ infos[id].nextTime % infos[id].interval = 0
        /\ infos[id].nextTime <= now + infos[id].interval

\* A call uses up every interval that has passed and none that has not: a late
\* thread does not call a callback twice to make up for it (handleMessage).
OncePerInterval ==
    [][\A id \in Single \intersect DOMAIN infos' :
          infos'[id].nextTime # infos[id].nextTime =>
              infos[id].nextTime <= now /\ now < infos'[id].nextTime]_vars

\* A registered callback that is due is called, or unregistered.
DueCallbacksRun ==
    \A id \in 0..MaxId :
        (id \in DOMAIN infos /\ infos[id].nextTime <= now)
            ~> \/ id \notin DOMAIN infos \/ life # "alive"
               \/ infos[id].nextTime > now
=============================================================================
