------------------------ MODULE RecurrentTimerProofs ------------------------
(***************************************************************************)
(* Proofs about RecurrentTimer, for any callbacks, intervals and bounds:   *)
(* a callback that is registered once has one chain of messages, which     *)
(* keeps to the multiples of its interval and serves each interval at most *)
(* once.                                                                   *)
(***************************************************************************)
EXTENDS RecurrentTimer, TLAPS

\* The messages of a single registration in every life of the timer; OneChain
\* adds that there is one while the timer is alive.
AtMostOneMessage ==
    \A id \in Single :
        /\ MessagesFor(id) \subseteq IF taken = id THEN {}
                                     ELSE {Message(id, infos[id].nextTime)}
        /\ \A m \in MessagesFor(id) : messages[m] = 1

\* The thread handles no message before its time.
TakenIsDue == taken \in Single => infos[taken].nextTime <= now

Chains == OneChain /\ AtMostOneMessage /\ TakenIsDue /\ NoDrift

\* The inductive invariant.
TimerInv == TypeOK /\ MapsAgree /\ Chains
-----------------------------------------------------------------------------
(* Multiples of an interval *)

LEMMA MultipleOf ==
    ASSUME NEW n \in Nat, NEW b \in Nat \ {0}, n % b = 0
    PROVE  \E k \in Nat : n = k * b
OBVIOUS

LEMMA ProductDivides ==
    ASSUME NEW k \in Nat, NEW b \in Nat \ {0}
    PROVE  (k * b) % b = 0
OBVIOUS

LEMMA QuotientBounds ==
    ASSUME NEW a \in Nat, NEW b \in Nat \ {0}
    PROVE  a \div b \in Nat /\ (a \div b) * b <= a /\ a < (a \div b) * b + b
OBVIOUS

\* The aligned time is the last multiple that is not after now.
LEMMA AlignedTime ==
    ASSUME now \in Nat, NEW interval \in Nat \ {0}
    PROVE  /\ Aligned(interval) \in Nat
           /\ Aligned(interval) % interval = 0
           /\ Aligned(interval) <= now
<1> DEFINE q == now \div interval
<1>1. q \in Nat /\ q * interval <= now
  BY QuotientBounds
<1>2. (q * interval) % interval = 0
  BY <1>1, ProductDivides
<1>3. q * interval \in Nat
  BY <1>1
<1> QED
  BY <1>1, <1>2, <1>3 DEF Aligned

\* The next time of a call is after now, whatever the time of this one was.
LEMMA NextTimeLater ==
    ASSUME now \in Nat, NEW info \in Infos
    PROVE  NextTime(info) \in Nat /\ now < NextTime(info)
<1> DEFINE n == info.nextTime
           b == info.interval
<1>1. n \in Nat /\ b \in Nat \ {0}
  BY TimerAssumption DEF Infos
<1>2. CASE n <= now
  <2> DEFINE q == (now - n) \div b
  <2>1. now - n \in Nat
    BY <1>1, <1>2
  <2>2. q \in Nat /\ now - n < q * b + b
    BY <1>1, <2>1, QuotientBounds
  <2>3. NextTime(info) = n + (q + 1) * b
    BY <1>1, <1>2 DEF NextTime, Quotient
  <2> HIDE DEF q, n, b
  <2>4. (q + 1) * b = q * b + b /\ q * b \in Nat
    BY <1>1, <2>2
  <2> QED
    BY <1>1, <2>2, <2>3, <2>4
<1>3. CASE now < n
  <2> DEFINE q == (n - now) \div b
  <2>1. n - now \in Nat /\ n - now # 0
    BY <1>1, <1>3
  <2>2. q \in Nat /\ q * b <= n - now
    BY <1>1, <2>1, QuotientBounds
  <2>3. NextTime(info) = n + (-q + 1) * b
    <3>1. -(now - n) = n - now /\ ~(now - n >= 0)
      BY <1>1, <1>3
    <3> QED
      BY <3>1 DEF NextTime, Quotient
  <2> HIDE DEF q, n, b
  <2>4. (-q + 1) * b = b - q * b /\ q * b \in Nat
    BY <1>1, <2>2
  <2> QED
    BY <1>1, <2>2, <2>3, <2>4
<1> QED
  BY <1>1, <1>2, <1>3

\* If this call was due, the next is at the first multiple after now.
LEMMA NextTimeOnGrid ==
    ASSUME now \in Nat, NEW info \in Infos,
           info.nextTime <= now, info.nextTime % info.interval = 0
    PROVE  /\ NextTime(info) % info.interval = 0
           /\ NextTime(info) <= now + info.interval
<1> DEFINE n == info.nextTime
           b == info.interval
           q == (now - n) \div b
<1>1. n \in Nat /\ b \in Nat \ {0} /\ n <= now /\ n % b = 0
  BY TimerAssumption DEF Infos
<1>2. now - n \in Nat
  BY <1>1
<1>3. q \in Nat /\ q * b <= now - n
  BY <1>1, <1>2, QuotientBounds
<1>4. NextTime(info) = n + (q + 1) * b
  BY <1>1 DEF NextTime, Quotient
<1> HIDE DEF n, b, q
<1>5. PICK k \in Nat : n = k * b
  BY <1>1, MultipleOf
<1>6. n + (q + 1) * b = (k + q + 1) * b
  BY <1>1, <1>3, <1>5
<1>7. ((k + q + 1) * b) % b = 0
  <2>1. k + q + 1 \in Nat
    BY <1>3
  <2> QED
    BY <1>1, <2>1, ProductDivides
<1>8. (q + 1) * b = q * b + b /\ q * b \in Nat
  BY <1>1, <1>3
<1>9. n + (q + 1) * b <= now + b
  BY <1>1, <1>3, <1>8
<1> QED
  BY <1>4, <1>6, <1>7, <1>9 DEF b
-----------------------------------------------------------------------------
(* The timer's data *)

LEMMA SentMessages ==
    ASSUME NEW m
    PROVE  LET after == Sent(m) IN
           /\ DOMAIN after = DOMAIN messages \union {m}
           /\ m \notin DOMAIN messages => after[m] = 1
           /\ \A k \in DOMAIN messages \ {m} : after[k] = messages[k]
BY DEF Sent

LEMMA RemovedMessages ==
    ASSUME NEW m \in DOMAIN messages
    PROVE  LET after == Removed(m) IN
           /\ DOMAIN after \subseteq DOMAIN messages
           /\ DOMAIN messages \ {m} \subseteq DOMAIN after
           /\ messages[m] = 1 => m \notin DOMAIN after
           /\ \A k \in DOMAIN after \ {m} : after[k] = messages[k]
           /\ messages \in [DOMAIN messages -> Nat \ {0}] =>
                  after \in [DOMAIN after -> Nat \ {0}]
<1>1. CASE messages[m] > 1
  <2>1. Removed(m) = [messages EXCEPT ![m] = @ - 1]
    BY <1>1 DEF Removed
  <2>2. messages[m] # 1
    BY <1>1
  <2> QED
    BY <1>1, <2>1, <2>2
<1>2. CASE ~(messages[m] > 1)
  BY <1>2 DEF Removed, Restrict
<1> QED
  BY <1>1, <1>2

\* No registration is made twice over: an ID that is given out is new.
LEMMA NewIdIsNew ==
    ASSUME TypeOK
    PROVE  /\ NewId = nextId /\ nextId \in Nat
           /\ nextId \notin DOMAIN infos
           /\ taken # nextId
           /\ life = "alive" /\ OneChain => MessagesFor(nextId) = {}
BY DEF TypeOK, NewId, OneChain, MessagesFor
-----------------------------------------------------------------------------
(* Type correctness *)

LEMMA TypeInit == Init => TypeOK
BY DEF Init, TypeOK, INVALID_ID, registrations

LEMMA TypeStep == TypeOK /\ MapsAgree /\ [Next]_vars => TypeOK'
<1> SUFFICES ASSUME TypeOK, MapsAgree, [Next]_vars
             PROVE  TypeOK'
  OBVIOUS
<1> USE DEF INVALID_ID
<1>1. ASSUME NEW cb \in Callbacks, NEW interval \in Intervals,
             RegisterTimerCallback(interval, cb)
      PROVE  TypeOK'
  <2> DEFINE id == nextId
             t  == Aligned(interval)
  <2>1. interval \in Nat \ {0} /\ now \in Nat
    BY TimerAssumption DEF TypeOK
  <2>2. t \in Nat
    BY <2>1, AlignedTime
  <2> HIDE DEF t
  <2>3. NewInfo(cb, interval) \in Infos
    BY <2>2 DEF NewInfo, Infos, t
  <2>4. /\ nextId' = nextId + 1 /\ nextId' \in Nat /\ 0..nextId - 1 \subseteq 0..nextId' - 1
        /\ -1..nextId - 1 \subseteq -1..nextId' - 1 /\ id \in 0..nextId' - 1
    BY <1>1 DEF RegisterTimerCallback, TypeOK
  <2>5. idOf' \in [Callbacks -> -1..nextId' - 1]
    BY <1>1, <2>4 DEF RegisterTimerCallback, TypeOK, NewId
  <2>6. DOMAIN infos' \subseteq 0..nextId' - 1 /\ infos' \in [DOMAIN infos' -> Infos]
    BY <1>1, <2>3, <2>4 DEF RegisterTimerCallback, TypeOK, NewId, Inserted
  <2>7. /\ DOMAIN messages' \subseteq [id : 0..nextId' - 1, time : Nat]
        /\ messages' \in [DOMAIN messages' -> Nat \ {0}]
    BY <1>1, <2>2, <2>4 DEF RegisterTimerCallback, TypeOK, NewId, Sent, Message, t
  <2> QED
    BY <1>1, <2>4, <2>5, <2>6, <2>7 DEF RegisterTimerCallback, TypeOK, thread
<1>2. ASSUME NEW cb \in Callbacks, NEW interval \in Intervals,
             RegisterAgain(interval, cb)
      PROVE  TypeOK'
  <2>1. Aligned(interval) \in Nat
    BY AlignedTime, TimerAssumption DEF TypeOK
  <2>2. idOf[cb] \in 0..nextId - 1 /\ idOf[cb] \in DOMAIN infos
    BY <1>2 DEF RegisterAgain, TypeOK, MapsAgree
  <2>3. infos' = infos
    BY <1>2, <2>2 DEF RegisterAgain, Inserted, TypeOK
  <2>4. /\ DOMAIN messages' \subseteq [id : 0..nextId - 1, time : Nat]
        /\ messages' \in [DOMAIN messages' -> Nat \ {0}]
    BY <1>2, <2>1, <2>2 DEF RegisterAgain, TypeOK, Message, MessagesFor
  <2> QED
    BY <1>2, <2>3, <2>4 DEF RegisterAgain, TypeOK, thread
<1>3. ASSUME NEW cb \in Callbacks, UnregisterTimerCallback(cb)
      PROVE  TypeOK'
  BY <1>3 DEF UnregisterTimerCallback, RemoveMessages, Restrict, TypeOK, thread
<1>4. CASE TakeMessage
  <2> PICK m \in Due : taken' = m.id /\ messages' = Removed(m)
    BY <1>4 DEF TakeMessage
  <2>1. m \in DOMAIN messages
    BY DEF Due
  <2>2. /\ DOMAIN messages' \subseteq DOMAIN messages
        /\ messages' \in [DOMAIN messages' -> Nat \ {0}]
    BY <2>1, RemovedMessages DEF TypeOK
  <2>3. taken' \in -1..nextId - 1
    BY <2>1 DEF TypeOK
  <2> QED
    BY <1>4, <2>2, <2>3 DEF TakeMessage, TypeOK, registrations
<1>5. CASE HandleMessage
  <2> DEFINE next == NextTime(infos[taken])
  <2>1. taken \in DOMAIN infos /\ infos[taken] \in Infos /\ taken \in 0..nextId - 1
    BY <1>5 DEF HandleMessage, TypeOK
  <2>2. next \in Nat
    BY <2>1, NextTimeLater DEF TypeOK
  <2> HIDE DEF next
  <2>3. DOMAIN infos' = DOMAIN infos /\ infos' \in [DOMAIN infos' -> Infos]
    BY <1>5, <2>1, <2>2 DEF HandleMessage, TypeOK, Infos, next
  <2>4. running' \in Callbacks
    BY <1>5, <2>1 DEF HandleMessage, Infos
  <2>5. /\ DOMAIN messages' \subseteq [id : 0..nextId - 1, time : Nat]
        /\ messages' \in [DOMAIN messages' -> Nat \ {0}]
    BY <1>5, <2>1, <2>2 DEF HandleMessage, TypeOK, Sent, Message, next
  <2> QED
    BY <1>5, <2>3, <2>4, <2>5 DEF HandleMessage, TypeOK
<1>6. CASE IgnoreOutdated
  BY <1>6 DEF IgnoreOutdated, TypeOK, registrations
<1>7. CASE CallbackReturns
  BY <1>7 DEF CallbackReturns, TypeOK, registrations
<1>8. CASE RequestStop \/ RemoveAllMessages \/ Join \/ Tick
  <2> USE DEF TypeOK, registrations, thread
  <2>1. CASE RequestStop
    BY <2>1 DEF RequestStop
  <2>2. CASE RemoveAllMessages
    BY <2>2 DEF RemoveAllMessages
  <2>3. CASE Join
    BY <2>3 DEF Join
  <2>4. CASE Tick
    <3>1. now' \in Nat
      BY <2>4 DEF Tick
    <3> QED
      BY <2>4, <3>1 DEF Tick
  <2> QED
    BY <1>8, <2>1, <2>2, <2>3, <2>4
<1>9. CASE UNCHANGED vars
  BY <1>9 DEF vars, TypeOK, registrations, thread
<1> QED
  BY <1>1, <1>2, <1>3, <1>4, <1>5, <1>6, <1>7, <1>8, <1>9 DEF Next, CallerNext, ThreadNext
-----------------------------------------------------------------------------
(* The maps *)

\* The steps that touch no registration.
Quiet == TakeMessage \/ IgnoreOutdated \/ CallbackReturns \/ RequestStop
         \/ RemoveAllMessages \/ Join \/ Tick \/ UNCHANGED vars

LEMMA QuietKeepsRegistrations == Quiet => UNCHANGED registrations
BY DEF Quiet, TakeMessage, IgnoreOutdated, CallbackReturns, RequestStop,
       RemoveAllMessages, Join, Tick, vars

LEMMA HandlingKeepsRegistrations ==
    ASSUME TypeOK, HandleMessage
    PROVE  /\ UNCHANGED <<nextId, idOf>>
           /\ DOMAIN infos' = DOMAIN infos
           /\ \A id \in DOMAIN infos : /\ infos'[id].callback = infos[id].callback
                                       /\ infos'[id].interval = infos[id].interval
           /\ \A id \in DOMAIN infos \ {taken} : infos'[id] = infos[id]
           /\ infos'[taken].nextTime = NextTime(infos[taken])
           /\ infos[taken] \in Infos
<1>1. taken \in DOMAIN infos /\ infos[taken] \in Infos
  BY DEF HandleMessage, TypeOK
<1> QED
  BY <1>1 DEF HandleMessage, TypeOK, Infos

LEMMA RegisteringAgainKeepsRegistrations ==
    ASSUME TypeOK, MapsAgree, NEW cb \in Callbacks, NEW interval \in Intervals,
           RegisterAgain(interval, cb)
    PROVE  UNCHANGED registrations
BY DEF RegisterAgain, Inserted, MapsAgree, TypeOK, registrations

LEMMA MapsStep == TypeOK /\ MapsAgree /\ [Next]_vars => MapsAgree'
<1> SUFFICES ASSUME TypeOK, MapsAgree, [Next]_vars
             PROVE  MapsAgree'
  OBVIOUS
<1> USE DEF INVALID_ID
<1>1. ASSUME NEW cb \in Callbacks, NEW interval \in Intervals,
             RegisterTimerCallback(interval, cb)
      PROVE  MapsAgree'
  <2>1. nextId \notin DOMAIN infos /\ nextId # -1 /\ NewId = nextId
    BY NewIdIsNew
  <2>2. idOf' = [idOf EXCEPT ![cb] = nextId] /\ idOf[cb] = -1
    BY <1>1, <2>1 DEF RegisterTimerCallback
  <2>3. /\ DOMAIN infos' = DOMAIN infos \union {nextId}
        /\ infos'[nextId].callback = cb
        /\ \A id \in DOMAIN infos : infos'[id] = infos[id]
    BY <1>1, <2>1 DEF RegisterTimerCallback, Inserted, NewInfo
  <2>4. \A id \in DOMAIN infos : id # -1 /\ infos[id].callback \in Callbacks
    BY DEF TypeOK, Infos
  <2> QED
    BY <2>1, <2>2, <2>3, <2>4 DEF MapsAgree, TypeOK
<1>2. ASSUME NEW cb \in Callbacks, NEW interval \in Intervals,
             RegisterAgain(interval, cb)
      PROVE  MapsAgree'
  BY <1>2, RegisteringAgainKeepsRegistrations DEF MapsAgree, registrations
<1>3. ASSUME NEW cb \in Callbacks, UnregisterTimerCallback(cb)
      PROVE  MapsAgree'
  <2>1. idOf' = [idOf EXCEPT ![cb] = -1]
    BY <1>3 DEF UnregisterTimerCallback
  <2>2. /\ DOMAIN infos' = DOMAIN infos \ {idOf[cb]}
        /\ \A id \in DOMAIN infos' : infos'[id] = infos[id]
    BY <1>3 DEF UnregisterTimerCallback, Restrict
  <2>3. \A id \in DOMAIN infos : infos[id].callback \in Callbacks
    BY DEF TypeOK, Infos
  <2>4. idOf[cb] \in DOMAIN infos /\ infos[idOf[cb]].callback = cb
    BY <1>3 DEF UnregisterTimerCallback, MapsAgree
  <2> QED
    BY <2>1, <2>2, <2>3, <2>4 DEF MapsAgree, TypeOK
<1>4. CASE HandleMessage
  BY <1>4, HandlingKeepsRegistrations DEF MapsAgree
<1>5. CASE Quiet
  BY <1>5, QuietKeepsRegistrations DEF MapsAgree, registrations
<1> QED
  BY <1>1, <1>2, <1>3, <1>4, <1>5 DEF Next, CallerNext, ThreadNext, Quiet
-----------------------------------------------------------------------------
(* The chains of messages *)

LEMMA SingleIds ==
    ASSUME TypeOK
    PROVE  /\ Single \subseteq DOMAIN infos
           /\ \A id \in Single : /\ id \in Nat /\ infos[id] \in Infos
                                 /\ infos[id].callback \notin Reregistered
BY DEF Single, TypeOK

LEMMA RegisterKeepsChains ==
    ASSUME TypeOK, MapsAgree, Chains, NEW cb \in Callbacks, NEW interval \in Intervals,
           RegisterTimerCallback(interval, cb)
    PROVE  Chains'
<1>0. PICK id \in Nat : id = nextId
  BY DEF TypeOK
<1> DEFINE t == Aligned(interval)
           m == Message(id, t)
<1>1. /\ NewId = id /\ id \notin DOMAIN infos /\ taken # id /\ taken' = taken
      /\ life = "alive" /\ MessagesFor(id) = {} /\ now' = now /\ now \in Nat
  BY <1>0, NewIdIsNew DEF RegisterTimerCallback, Chains, thread, TypeOK
<1>2. /\ DOMAIN infos' = DOMAIN infos \union {id}
      /\ infos'[id] = NewInfo(cb, interval)
      /\ \A i \in DOMAIN infos : infos'[i] = infos[i]
  BY <1>1 DEF RegisterTimerCallback, Inserted
<1>3. m.id = id /\ m.time = t /\ m \notin DOMAIN messages
  BY <1>1 DEF Message, MessagesFor
<1>4. /\ DOMAIN messages' = DOMAIN messages \union {m}
      /\ messages'[m] = 1
      /\ \A k \in DOMAIN messages : messages'[k] = messages[k]
  BY <1>1, <1>3, SentMessages DEF RegisterTimerCallback
<1>5. Single \subseteq Single' /\ Single' \subseteq Single \union {id}
  BY <1>2, SingleIds DEF Single
<1>6. MessagesFor(id)' = {m} /\ \A i \in DOMAIN infos : MessagesFor(i)' = MessagesFor(i)
  BY <1>1, <1>3, <1>4 DEF MessagesFor
<1>7. infos'[id].nextTime = t /\ infos'[id].interval = interval
  BY <1>2 DEF NewInfo
<1>8. t % interval = 0 /\ t <= now + interval
  <2>1. interval \in Nat \ {0}
    BY TimerAssumption
  <2>2. t \in Nat /\ t % interval = 0 /\ t <= now
    BY <1>1, <2>1, AlignedTime
  <2> HIDE DEF t
  <2> QED
    BY <1>1, <2>1, <2>2
<1> HIDE DEF t, m
<1>9. \A i \in Single : i \in DOMAIN infos /\ i # id
  BY <1>1, SingleIds
<1>10. AtMostOneMessage'
  <2> SUFFICES ASSUME NEW i \in Single'
               PROVE  /\ MessagesFor(i)' \subseteq IF taken' = i THEN {}
                                                   ELSE {Message(i, infos'[i].nextTime)}
                      /\ \A k \in MessagesFor(i)' : messages'[k] = 1
    BY DEF AtMostOneMessage
  <2>1. CASE i = id
    BY <1>1, <1>4, <1>6, <1>7, <2>1 DEF m
  <2>2. CASE i \in Single
    <3>1. MessagesFor(i)' = MessagesFor(i) /\ infos'[i] = infos[i]
      BY <1>2, <1>6, <1>9, <2>2
    <3>2. \A k \in MessagesFor(i) : messages'[k] = messages[k]
      BY <1>4 DEF MessagesFor
    <3> QED
      BY <1>1, <2>2, <3>1, <3>2 DEF Chains, AtMostOneMessage
  <2> QED
    BY <1>5, <2>1, <2>2
<1>11. OneChain'
  <2>1. \A i \in Single' : MessagesFor(i)' = IF taken' = i THEN {}
                                             ELSE {Message(i, infos'[i].nextTime)}
    <3> SUFFICES ASSUME NEW i \in Single'
                 PROVE  MessagesFor(i)' = IF taken' = i THEN {}
                                          ELSE {Message(i, infos'[i].nextTime)}
      OBVIOUS
    <3>1. CASE i = id
      BY <1>1, <1>6, <1>7, <3>1 DEF m
    <3>2. CASE i \in Single
      BY <1>1, <1>2, <1>6, <1>9, <3>2 DEF Chains, OneChain
    <3> QED
      BY <1>5, <3>1, <3>2
  <2>2. \A k \in DOMAIN messages' : k.id \in DOMAIN infos'
    BY <1>1, <1>2, <1>3, <1>4 DEF Chains, OneChain
  <2> QED
    BY <1>10, <2>1, <2>2 DEF OneChain, AtMostOneMessage
<1>12. TakenIsDue'
  <2> SUFFICES ASSUME taken' \in Single'
               PROVE  infos'[taken'].nextTime <= now'
    BY DEF TakenIsDue
  <2> QED
    BY <1>1, <1>2, <1>5, <1>9 DEF Chains, TakenIsDue
<1>13. NoDrift'
  BY <1>1, <1>2, <1>5, <1>7, <1>8, <1>9 DEF Chains, NoDrift
<1> QED
  BY <1>10, <1>11, <1>12, <1>13 DEF Chains

\* When only messages of other IDs come and go, the chains stay.
LEMMA OtherMessagesKeepChains ==
    ASSUME TypeOK, Chains, UNCHANGED <<now, infos, taken, life>>,
           \A id \in Single : MessagesFor(id)' = MessagesFor(id),
           \A id \in Single : \A m \in MessagesFor(id) : messages'[m] = messages[m],
           \A m \in DOMAIN messages' \ DOMAIN messages : m.id \in DOMAIN infos
    PROVE  Chains'
<1>1. Single' = Single
  BY DEF Single
<1>2. AtMostOneMessage'
  BY <1>1 DEF Chains, AtMostOneMessage
<1>3. OneChain'
  BY <1>1 DEF Chains, OneChain
<1>4. TakenIsDue' /\ NoDrift'
  BY <1>1 DEF Chains, TakenIsDue, NoDrift
<1> QED
  BY <1>2, <1>3, <1>4 DEF Chains

LEMMA RegisterAgainKeepsChains ==
    ASSUME TypeOK, MapsAgree, Chains, NEW cb \in Callbacks, NEW interval \in Intervals,
           RegisterAgain(interval, cb)
    PROVE  Chains'
<1>0. PICK id \in Int : id = idOf[cb]
  BY DEF TypeOK
<1> DEFINE m == Message(id, Aligned(interval))
<1>1. id \in DOMAIN infos /\ infos[id].callback = cb
  BY <1>0 DEF RegisterAgain, MapsAgree
<1>2. UNCHANGED <<now, infos, taken, life>>
  BY RegisteringAgainKeepsRegistrations DEF RegisterAgain, registrations, thread
<1>3. /\ DOMAIN messages' = (DOMAIN messages \ MessagesFor(id)) \union {m}
      /\ \A k \in DOMAIN messages' : k.id # id => messages'[k] = messages[k]
  BY <1>0 DEF RegisterAgain
<1>4. m.id = id
  BY DEF Message
<1> HIDE DEF m
<1>5. id \notin Single
  BY <1>1 DEF Single, RegisterAgain
<1>6. \A i \in Single : MessagesFor(i)' = MessagesFor(i)
  BY <1>3, <1>4, <1>5 DEF MessagesFor
<1>7. \A i \in Single : \A k \in MessagesFor(i) : messages'[k] = messages[k]
  BY <1>3, <1>5, <1>6 DEF MessagesFor
<1>8. \A k \in DOMAIN messages' \ DOMAIN messages : k.id \in DOMAIN infos
  BY <1>1, <1>3, <1>4
<1> QED
  BY <1>2, <1>6, <1>7, <1>8, OtherMessagesKeepChains

LEMMA UnregisterKeepsChains ==
    ASSUME TypeOK, MapsAgree, Chains, NEW cb \in Callbacks, UnregisterTimerCallback(cb)
    PROVE  Chains'
<1>0. PICK id \in Int : id = idOf[cb]
  BY DEF TypeOK
<1>1. /\ DOMAIN infos' = DOMAIN infos \ {id}
      /\ \A i \in DOMAIN infos' : infos'[i] = infos[i]
      /\ UNCHANGED <<now, taken, life>>
  BY <1>0 DEF UnregisterTimerCallback, Restrict, thread
<1>2. /\ DOMAIN messages' = DOMAIN messages \ MessagesFor(id)
      /\ \A m \in DOMAIN messages' : messages'[m] = messages[m]
  BY <1>0 DEF UnregisterTimerCallback, RemoveMessages, Restrict
<1>3. Single' = Single \ {id} /\ \A i \in Single' : infos'[i] = infos[i]
  BY <1>1 DEF Single
<1>4. \A i \in Single' : /\ MessagesFor(i)' = MessagesFor(i)
                         /\ \A m \in MessagesFor(i) : messages'[m] = messages[m]
  BY <1>2, <1>3 DEF MessagesFor
<1>5. AtMostOneMessage'
  BY <1>1, <1>3, <1>4 DEF Chains, AtMostOneMessage
<1>6. OneChain'
  <2>1. life = "alive" => \A m \in DOMAIN messages' : m.id \in DOMAIN infos'
    BY <1>1, <1>2 DEF Chains, OneChain, MessagesFor
  <2> QED
    BY <1>1, <1>3, <1>4, <2>1 DEF Chains, OneChain
<1>7. TakenIsDue' /\ NoDrift'
  BY <1>1, <1>3 DEF Chains, TakenIsDue, NoDrift
<1> QED
  BY <1>5, <1>6, <1>7 DEF Chains

LEMMA TakeKeepsChains ==
    ASSUME TypeOK, Chains, TakeMessage
    PROVE  Chains'
<1> PICK m \in Due : taken' = m.id /\ messages' = Removed(m)
  BY DEF TakeMessage
<1>1. m \in DOMAIN messages /\ m.time <= now
  BY DEF Due
<1>2. UNCHANGED <<now, infos, life>> /\ taken = -1
  BY DEF TakeMessage, registrations, Idle, INVALID_ID
<1>3. /\ DOMAIN messages' \subseteq DOMAIN messages
      /\ DOMAIN messages \ {m} \subseteq DOMAIN messages'
      /\ messages[m] = 1 => m \notin DOMAIN messages'
      /\ \A k \in DOMAIN messages' \ {m} : messages'[k] = messages[k]
  BY <1>1, RemovedMessages
<1>4. Single' = Single /\ -1 \notin Single
  BY <1>2, SingleIds DEF Single
<1>5. \A id \in Single : id # m.id =>
          /\ MessagesFor(id)' = MessagesFor(id)
          /\ \A k \in MessagesFor(id) : messages'[k] = messages[k]
  BY <1>3 DEF MessagesFor
<1>6. \A id \in Single : id = m.id =>
          /\ MessagesFor(id)' = {}
          /\ m = Message(id, infos[id].nextTime)
  <2> SUFFICES ASSUME NEW id \in Single, id = m.id
               PROVE  MessagesFor(id)' = {} /\ m = Message(id, infos[id].nextTime)
    OBVIOUS
  <2>1. m \in MessagesFor(id)
    BY <1>1 DEF MessagesFor
  <2>2. MessagesFor(id) = {m} /\ messages[m] = 1 /\ m = Message(id, infos[id].nextTime)
    BY <1>2, <1>4, <2>1 DEF Chains, AtMostOneMessage
  <2> QED
    BY <1>3, <2>2 DEF MessagesFor
<1>7. AtMostOneMessage'
  BY <1>2, <1>4, <1>5, <1>6 DEF Chains, AtMostOneMessage
<1>8. OneChain'
  BY <1>2, <1>3, <1>4, <1>5, <1>6 DEF Chains, OneChain
<1>9. TakenIsDue'
  BY <1>1, <1>2, <1>4, <1>6 DEF TakenIsDue, Message
<1>10. NoDrift'
  BY <1>2, <1>4 DEF Chains, NoDrift
<1> QED
  BY <1>7, <1>8, <1>9, <1>10 DEF Chains

LEMMA HandleKeepsChains ==
    ASSUME TypeOK, Chains, HandleMessage
    PROVE  Chains'
<1>0. PICK id \in Nat : id = taken
  BY DEF HandleMessage, TypeOK
<1> DEFINE next == NextTime(infos[id])
           m    == Message(id, next)
<1>1. /\ id \in DOMAIN infos /\ infos[id] \in Infos /\ taken' = -1 /\ now \in Nat
      /\ UNCHANGED <<now, life>>
  BY <1>0 DEF HandleMessage, TypeOK, INVALID_ID
<1>2. next \in Nat /\ now < next
  BY <1>1, NextTimeLater
<1>3. /\ DOMAIN infos' = DOMAIN infos
      /\ \A i \in DOMAIN infos : /\ infos'[i].callback = infos[i].callback
                                 /\ infos'[i].interval = infos[i].interval
      /\ \A i \in DOMAIN infos \ {id} : infos'[i] = infos[i]
      /\ infos'[id].nextTime = next
  BY <1>0, HandlingKeepsRegistrations
<1>4. messages' = Sent(m)
  BY <1>0 DEF HandleMessage
<1>5. m.id = id
  BY DEF Message
<1>6. id \in Single => /\ infos[id].nextTime <= now
                       /\ infos[id].nextTime % infos[id].interval = 0
  BY <1>0 DEF Chains, TakenIsDue, NoDrift
<1>7. id \in Single => /\ next % infos[id].interval = 0
                       /\ next <= now + infos[id].interval
  BY <1>1, <1>6, NextTimeOnGrid
<1> HIDE DEF next
<1>8. m = Message(id, infos'[id].nextTime)
  BY <1>3
<1> HIDE DEF m
<1>9. /\ DOMAIN messages' = DOMAIN messages \union {m}
      /\ m \notin DOMAIN messages => messages'[m] = 1
      /\ \A k \in DOMAIN messages \ {m} : messages'[k] = messages[k]
  BY <1>4, SentMessages
<1>10. Single' = Single /\ -1 \notin Single
  BY <1>3, SingleIds DEF Single
<1>11. \A i \in Single : i # id =>
           /\ MessagesFor(i)' = MessagesFor(i)
           /\ \A k \in MessagesFor(i) : messages'[k] = messages[k]
           /\ infos'[i] = infos[i]
  BY <1>3, <1>5, <1>9, SingleIds DEF MessagesFor
<1>12. id \in Single => MessagesFor(id)' = {m} /\ messages'[m] = 1
  <2> SUFFICES ASSUME id \in Single
               PROVE  MessagesFor(id)' = {m} /\ messages'[m] = 1
    OBVIOUS
  <2>1. MessagesFor(id) = {}
    BY <1>0 DEF Chains, AtMostOneMessage
  <2> QED
    BY <1>5, <1>9, <2>1 DEF MessagesFor
<1>13. AtMostOneMessage'
  BY <1>0, <1>1, <1>8, <1>10, <1>11, <1>12 DEF Chains, AtMostOneMessage
<1>14. OneChain'
  <2>1. life = "alive" => \A k \in DOMAIN messages' : k.id \in DOMAIN infos'
    BY <1>1, <1>3, <1>5, <1>9 DEF Chains, OneChain
  <2>2. life = "alive" => \A i \in Single :
            MessagesFor(i)' = {Message(i, infos'[i].nextTime)}
    BY <1>0, <1>8, <1>11, <1>12 DEF Chains, OneChain
  <2> QED
    BY <1>1, <1>10, <1>13, <2>1, <2>2 DEF OneChain, AtMostOneMessage
<1>15. TakenIsDue'
  BY <1>1, <1>10 DEF TakenIsDue
<1>16. NoDrift'
  BY <1>1, <1>3, <1>7, <1>10, <1>11, SingleIds DEF Chains, NoDrift
<1> QED
  BY <1>13, <1>14, <1>15, <1>16 DEF Chains

LEMMA ChainsStep == TypeOK /\ MapsAgree /\ Chains /\ [Next]_vars => Chains'
<1> SUFFICES ASSUME TypeOK, MapsAgree, Chains, [Next]_vars
             PROVE  Chains'
  OBVIOUS
<1> USE DEF registrations, thread
<1>1. ASSUME NEW cb \in Callbacks, NEW interval \in Intervals,
             RegisterTimerCallback(interval, cb) \/ RegisterAgain(interval, cb)
      PROVE  Chains'
  BY <1>1, RegisterKeepsChains, RegisterAgainKeepsChains
<1>2. ASSUME NEW cb \in Callbacks, UnregisterTimerCallback(cb)
      PROVE  Chains'
  BY <1>2, UnregisterKeepsChains
<1>3. CASE TakeMessage
  BY <1>3, TakeKeepsChains
<1>4. CASE HandleMessage
  BY <1>4, HandleKeepsChains
<1>5. CASE IgnoreOutdated
  <2>1. Single' = Single /\ taken \notin Single /\ -1 \notin Single /\ taken' = -1
    BY <1>5, SingleIds DEF IgnoreOutdated, Single, INVALID_ID
  <2>2. UNCHANGED <<now, infos, messages, life>>
    BY <1>5 DEF IgnoreOutdated
  <2> QED
    BY <2>1, <2>2 DEF Chains, OneChain, AtMostOneMessage, TakenIsDue, NoDrift, MessagesFor
<1>6. CASE CallbackReturns \/ UNCHANGED vars
  <2>1. UNCHANGED <<now, infos, messages, taken, life>>
    BY <1>6 DEF CallbackReturns, vars
  <2> QED
    BY <2>1, OtherMessagesKeepChains DEF MessagesFor
<1>7. CASE RequestStop \/ RemoveAllMessages \/ Join
  <2>1. /\ UNCHANGED <<now, infos, taken>> /\ life' # "alive"
        /\ messages' = messages \/ messages' = <<>>
    BY <1>7 DEF RequestStop, RemoveAllMessages, Join
  <2>2. Single' = Single
    BY <2>1 DEF Single
  <2>3. \A id \in Single : /\ MessagesFor(id)' \subseteq MessagesFor(id)
                           /\ \A m \in MessagesFor(id)' : messages'[m] = messages[m]
    BY <2>1 DEF MessagesFor
  <2>4. AtMostOneMessage'
    BY <2>1, <2>2, <2>3 DEF Chains, AtMostOneMessage
  <2> QED
    BY <2>1, <2>2, <2>4 DEF Chains, OneChain, TakenIsDue, NoDrift
<1>8. CASE Tick
  <2>1. UNCHANGED <<infos, messages, taken, life>> /\ now' = now + 1 /\ now \in Nat
    BY <1>8 DEF Tick, TypeOK
  <2>2. Single' = Single /\ \A id \in Single : MessagesFor(id)' = MessagesFor(id)
    BY <2>1 DEF Single, MessagesFor
  <2>3. OneChain' /\ AtMostOneMessage'
    BY <2>1, <2>2 DEF Chains, OneChain, AtMostOneMessage
  <2>4. \A id \in Single : /\ infos[id].nextTime \in Nat
                           /\ infos[id].interval \in Nat
    BY SingleIds, TimerAssumption DEF Infos
  <2>5. TakenIsDue' /\ NoDrift'
    BY <2>1, <2>2, <2>4 DEF Chains, TakenIsDue, NoDrift
  <2> QED
    BY <2>3, <2>5 DEF Chains
<1> QED
  BY <1>1, <1>2, <1>3, <1>4, <1>5, <1>6, <1>7, <1>8 DEF Next, CallerNext, ThreadNext
-----------------------------------------------------------------------------
(* The theorems *)

LEMMA InitTimer == Init => TimerInv
<1> SUFFICES ASSUME Init
             PROVE  TimerInv
  OBVIOUS
<1>1. TypeOK
  BY TypeInit
<1>2. DOMAIN infos = {} /\ DOMAIN messages = {}
  BY DEF Init
<1>3. Single = {} /\ \A cb \in Callbacks : idOf[cb] = INVALID_ID
  BY <1>2 DEF Init, Single
<1> QED
  BY <1>1, <1>2, <1>3 DEF TimerInv, Chains, MapsAgree, OneChain,
                          AtMostOneMessage, TakenIsDue, NoDrift

LEMMA Inductive == Spec => []TimerInv
<1>1. TimerInv /\ [Next]_vars => TimerInv'
  BY TypeStep, MapsStep, ChainsStep DEF TimerInv
<1> QED
  BY InitTimer, <1>1, PTL DEF Spec

\* Type correctness of the timer's maps, messages and thread.
THEOREM TypeCorrect == Spec => []TypeOK
BY Inductive, PTL DEF TimerInv

\* The two maps of registerTimerCallback and unregisterTimerCallback stay each
\* other's inverse.
THEOREM MapsCorrect == Spec => []MapsAgree
BY Inductive, PTL DEF TimerInv

\* A callback that is registered once is on exactly one chain of messages,
\* however registrations come between the steps of handleMessage.
THEOREM ChainsCorrect == Spec => []OneChain
BY Inductive, PTL DEF TimerInv, Chains

\* handleMessage keeps to the multiples of the interval.
THEOREM TimesCorrect == Spec => []NoDrift
BY Inductive, PTL DEF TimerInv, Chains

\* handleMessage serves each interval at most once, and none before its time.
THEOREM ServedOnce == Spec => OncePerInterval
<1> DEFINE Served == \A id \in Single \intersect DOMAIN infos' :
                         infos'[id].nextTime # infos[id].nextTime =>
                             infos[id].nextTime <= now /\ now < infos'[id].nextTime
<1>1. TimerInv /\ [Next]_vars => [Served]_vars
  <2> SUFFICES ASSUME TimerInv, Next
               PROVE  Served
    OBVIOUS
  <2>1. ASSUME NEW cb \in Callbacks, NEW interval \in Intervals,
               RegisterTimerCallback(interval, cb)
        PROVE  Served
    BY <2>1, SingleIds DEF RegisterTimerCallback, Inserted, TimerInv
  <2>2. ASSUME NEW cb \in Callbacks, NEW interval \in Intervals,
               RegisterAgain(interval, cb)
        PROVE  Served
    BY <2>2, RegisteringAgainKeepsRegistrations DEF TimerInv, registrations
  <2>3. ASSUME NEW cb \in Callbacks, UnregisterTimerCallback(cb)
        PROVE  Served
    BY <2>3 DEF UnregisterTimerCallback, Restrict
  <2>4. CASE HandleMessage
    <3>1. \A id \in DOMAIN infos \ {taken} : infos'[id] = infos[id]
      BY <2>4, HandlingKeepsRegistrations DEF TimerInv
    <3>2. infos'[taken].nextTime = NextTime(infos[taken]) /\ infos[taken] \in Infos
      BY <2>4, HandlingKeepsRegistrations DEF TimerInv
    <3>3. now < infos'[taken].nextTime
      BY <3>2, NextTimeLater DEF TimerInv, TypeOK
    <3>4. taken \in Single => infos[taken].nextTime <= now
      BY DEF TimerInv, Chains, TakenIsDue
    <3> QED
      BY <3>1, <3>3, <3>4, SingleIds DEF TimerInv
  <2>5. CASE Quiet
    BY <2>5, QuietKeepsRegistrations DEF registrations
  <2> QED
    BY <2>1, <2>2, <2>3, <2>4, <2>5 DEF Next, CallerNext, ThreadNext, Quiet
<1> QED
  BY Inductive, <1>1, PTL DEF Spec, OncePerInterval
=============================================================================
