---------------------- MODULE VhalSubscriptionsProofs ----------------------
(***************************************************************************)
(* Proofs about VhalSubscriptions, for any clients, properties, options    *)
(* and deaths: the HAL only takes steps of SubscriptionManager, so what is *)
(* proved of that holds here, and, with hardware that refuses nothing, no  *)
(* client is subscribed whose death would go unnoticed.                    *)
(***************************************************************************)
EXTENDS VhalSubscriptions, SubscriptionManagerProofs

\* The running subscribe still has something to do.
CallInv == call # None => /\ call \in SubscribeCalls
                          /\ call.onChange # {} \/ call.continuous # <<>>

LEMMA SomeKey ==
    ASSUME NEW S, NEW T, NEW map \in Maps(S, T), map # <<>>
    PROVE  /\ DOMAIN map \in (SUBSET S) \ {{}}
           /\ map \in [DOMAIN map -> T]
<1>1. PICK D \in SUBSET S : map \in [D -> T]
  BY DEF Maps
<1>2. DOMAIN map = D
  BY <1>1
<1>3. ASSUME D = {} PROVE FALSE
  <2>1. map = [x \in {} |-> x]
    BY <1>1, <1>3
  <2>2. <<>> = [x \in {} |-> x]
    OBVIOUS
  <2> QED
    BY <2>1, <2>2
<1> QED
  BY <1>1, <1>2, <1>3

\* What a step of the HAL is to the manager.
LEMMA ManagerStep ==
    ASSUME CallInv, [HalNext]_halVars
    PROVE  [Next]_vars
<1>1. ASSUME NEW b \in Clients, BinderDies(b) \/ Obituary(b) \/ OnBinderUnlinked(b)
                                \/ HandleUnlinked(b)
      PROVE  UNCHANGED vars
  BY <1>1 DEF BinderDies, Obituary, OnBinderUnlinked, HandleUnlinked
<1>2. ASSUME NEW b \in Clients, HandleDied(b)
      PROVE  Next
  BY <1>2 DEF HandleDied, Next
<1>3. ASSUME NEW cb \in Callbacks, NEW c \in Calls, Subscribe(cb, c[1], c[2])
      PROVE  UNCHANGED vars
  BY <1>3 DEF Subscribe
<1>4. ASSUME NEW c \in Clients, Refused(c)
      PROVE  UNCHANGED vars
  BY <1>4 DEF Refused
<1>5. ASSUME OnChangeHalf
      PROVE  Next
  <2>1. /\ call.cb \in Callbacks
        /\ call.onChange \in (SUBSET (Props \ Continuous)) \ {{}}
    BY <1>5 DEF OnChangeHalf, CallInv, SubscribeCalls
  <2>2. SubscribeOnChange(call.cb, call.onChange)
    BY <1>5 DEF OnChangeHalf, SubscribeOnChange
  <2> QED
    BY <2>1, <2>2 DEF Next
<1>6. ASSUME ContinuousHalf
      PROVE  Next
  <2>1. /\ call.cb \in Callbacks
        /\ call.continuous \in Maps(Continuous, SubConfigs)
        /\ call.continuous # <<>>
    BY <1>6 DEF ContinuousHalf, CallInv, SubscribeCalls
  <2>2. /\ DOMAIN call.continuous \in (SUBSET Continuous) \ {{}}
        /\ call.continuous \in [DOMAIN call.continuous -> SubConfigs]
    BY <2>1, SomeKey
  <2>3. SubscribeContinuous(call.cb, call.continuous)
    BY <1>6 DEF ContinuousHalf
  <2> QED
    BY <2>1, <2>2, <2>3 DEF Next
<1>7. ASSUME NEW c \in Clients, NEW ps \in (SUBSET SupportedValueProps) \ {{}},
             RegisterSupportedValueChange(c, ps) \/ UnregisterSupportedValueChange(c, ps)
      PROVE  Next \/ UNCHANGED vars
  BY <1>7 DEF RegisterSupportedValueChange, UnregisterSupportedValueChange, Next
<1>8. ASSUME NEW c \in Clients, NEW ps \in (SUBSET Props) \ {{}}, Unsubscribe(c, ps)
      PROVE  Next
  BY <1>8 DEF Unsubscribe, Next
<1>9. ASSUME NEW p \in Reported, NEW event \in Events, Deliver(p, event)
      PROVE  Next
  BY <1>9 DEF Deliver, Next
<1>10. CASE UNCHANGED halVars
  BY <1>10 DEF halVars
<1>11. CASE CallNext
  BY <1>3, <1>4, <1>5, <1>6, <1>7, <1>8, <1>9, <1>11 DEF CallNext
<1>12. CASE BinderNext
  BY <1>1, <1>2, <1>12 DEF BinderNext
<1> QED
  BY <1>10, <1>11, <1>12 DEF HalNext

LEMMA CallInductive ==
    ASSUME CallInv, [HalNext]_halVars
    PROVE  CallInv'
<1>1. ASSUME call' = call \/ call' = None
      PROVE  CallInv'
  BY <1>1 DEF CallInv
<1>2. ASSUME NEW cb \in Callbacks, NEW c \in Calls, Subscribe(cb, c[1], c[2])
      PROVE  CallInv'
  <2>1. /\ c[1] \in SUBSET (Props \ Continuous)
        /\ c[2] \in Maps(Continuous, SubConfigs)
        /\ c[1] # {} \/ c[2] # <<>>
    BY <1>2 DEF Calls
  <2>2. call' = [cb |-> cb, onChange |-> c[1], continuous |-> c[2]]
    BY <1>2 DEF Subscribe
  <2>3. call' \in SubscribeCalls
    BY <2>1, <2>2 DEF SubscribeCalls
  <2> QED
    BY <2>1, <2>2, <2>3 DEF CallInv
<1>3. ASSUME OnChangeHalf
      PROVE  CallInv'
  <2>1. call \in SubscribeCalls
    BY <1>3 DEF OnChangeHalf, CallInv
  <2>2. \/ call' = None
        \/ call' = [call EXCEPT !.onChange = {}] /\ call.continuous # <<>>
    BY <1>3 DEF OnChangeHalf
  <2>3. CASE call' = [call EXCEPT !.onChange = {}] /\ call.continuous # <<>>
    <3>1. call' \in SubscribeCalls /\ call'.continuous = call.continuous
      BY <2>1, <2>3 DEF SubscribeCalls
    <3> QED
      BY <2>3, <3>1 DEF CallInv
  <2> QED
    BY <1>1, <2>2, <2>3
<1>4. CASE UNCHANGED halVars
  BY <1>1, <1>4 DEF halVars
<1>5. CASE CallNext
  BY <1>1, <1>2, <1>3, <1>5
     DEF CallNext, Refused, ContinuousHalf, RegisterSupportedValueChange,
         UnregisterSupportedValueChange, Unsubscribe, Deliver
<1>6. CASE BinderNext
  BY <1>1, <1>6 DEF BinderNext, BinderDies, Obituary, OnBinderUnlinked, HandleDied,
                    HandleUnlinked
<1> QED
  BY <1>4, <1>5, <1>6 DEF HalNext

\* Every step of subscribe, unsubscribe and the handling of deaths is a step of
\* SubscriptionManager, whose safety theorems so hold of the HAL.
THEOREM HalImplementsManager == HalSpec => ImplementsManager
<1>1. HalInit => Init /\ CallInv
  BY DEF HalInit, CallInv
<1>2. CallInv /\ [HalNext]_halVars => [Next]_vars /\ CallInv'
  BY ManagerStep, CallInductive
<1> QED
  BY <1>1, <1>2, PTL DEF HalSpec, ImplementsManager, Spec

\* So every subscriber of the HAL finds its properties in the set its death
\* walks over, and the maps of supported value subscriptions agree.
THEOREM HalSubscribersCanLeave ==
    HalSpec => [](EverySubscriberCanLeave /\ SupportedValuesServed)
<1>1. HalSpec => Spec
  BY HalImplementsManager DEF ImplementsManager
<1> QED
  BY <1>1, SubscribersCanLeave, SupportedValuesAgree, PTL

\* And the options the hardware accepted are what the continuous clients ask
\* together, its rate too where it refuses no call for the property, and it serves
\* nobody but clients, where the halves of a subscribe, unsubscribes and deaths
\* overlap.
THEOREM HalServesItsClients ==
    HalSpec => [](ContinuousServed /\ NoOrphanSubscription)
<1>1. HalSpec => Spec
  BY HalImplementsManager DEF ImplementsManager
<1> QED
  BY <1>1, ContinuousOptionsServed, NoOrphans, PTL

\* Nor does any call end the hardware's subscription of a property that another
\* client keeps, but for the two causes, also between the halves of a subscribe
\* (subscribe holds mLock, unsubscribe does not).
THEOREM HalEndsSubscriptionsForCause == HalSpec => SubscriptionsEndForCause
<1>1. HalSpec => Spec
  BY HalImplementsManager DEF ImplementsManager
<1> QED
  BY <1>1, SubscriptionsEndOnlyForCause
-----------------------------------------------------------------------------
(* Whom the HAL watches.  The events on their way are a queue of typed     *)
(* events; a client that is alive and has a context is linked.             *)

LifecycleInv ==
    /\ binder \in [Clients -> {"alive", "dying", "dead"}]
    /\ recipient \in [Clients -> {"none", "linked", "died"}]
    /\ binderEvents \in Seq(BinderDiedUnlinkedEvents)
    /\ \A c \in contexts : binder[c] = "alive" => recipient[c] = "linked"

EventOf(c) == \E n \in DOMAIN binderEvents : binderEvents[n] = Lifecycle!Died(c)

LEMMA EventsTyped ==
    ASSUME NEW b \in Clients
    PROVE  /\ Lifecycle!Died(b) \in BinderDiedUnlinkedEvents
           /\ Lifecycle!Unlinked(b) \in BinderDiedUnlinkedEvents
           /\ \A c \in Clients : /\ Lifecycle!Died(c) # Lifecycle!Unlinked(b)
                                 /\ Lifecycle!Died(c) = Lifecycle!Died(b) => c = b
BY DEF Lifecycle!Died, Lifecycle!Unlinked, BinderDiedUnlinkedEvents

\* An event that is pushed joins those on their way.
LEMMA PushKeepsEvents ==
    ASSUME LifecycleInv, NEW e \in BinderDiedUnlinkedEvents, Lifecycle!PushEvent(e)
    PROVE  /\ binderEvents' \in Seq(BinderDiedUnlinkedEvents)
           /\ \A c \in Clients : EventOf(c) => EventOf(c)'
           /\ \A c \in Clients : e = Lifecycle!Died(c) => EventOf(c)'
<1>1. binderEvents' = Append(binderEvents, e) /\ binderEvents \in Seq(BinderDiedUnlinkedEvents)
  BY DEF Lifecycle!PushEvent, LifecycleInv
<1>2. /\ binderEvents' \in Seq(BinderDiedUnlinkedEvents)
      /\ Len(binderEvents') = Len(binderEvents) + 1
      /\ \A n \in 1..Len(binderEvents) : binderEvents'[n] = binderEvents[n]
      /\ binderEvents'[Len(binderEvents) + 1] = e
  BY <1>1
<1>3. /\ Len(binderEvents) \in Nat
      /\ DOMAIN binderEvents = 1..Len(binderEvents)
      /\ DOMAIN binderEvents' = 1..Len(binderEvents')
  BY <1>1, <1>2
<1>4. ASSUME NEW c \in Clients, EventOf(c)
      PROVE  EventOf(c)'
  <2>1. PICK n \in DOMAIN binderEvents : binderEvents[n] = Lifecycle!Died(c)
    BY <1>4 DEF EventOf
  <2>2. n \in DOMAIN binderEvents' /\ binderEvents'[n] = Lifecycle!Died(c)
    BY <1>2, <1>3, <2>1
  <2> QED
    BY <2>2 DEF EventOf, Lifecycle!Died
<1>5. ASSUME NEW c \in Clients, e = Lifecycle!Died(c)
      PROVE  EventOf(c)'
  <2>1. Len(binderEvents) + 1 \in DOMAIN binderEvents'
    BY <1>2, <1>3
  <2> QED
    BY <1>2, <1>5, <2>1 DEF EventOf, Lifecycle!Died
<1> QED
  BY <1>2, <1>4, <1>5

\* Only the event that is handled is no longer on its way.
LEMMA NextKeepsEvents ==
    ASSUME LifecycleInv, NEW e \in BinderDiedUnlinkedEvents, Lifecycle!NextEventIs(e)
    PROVE  /\ binderEvents' \in Seq(BinderDiedUnlinkedEvents)
           /\ \A c \in Clients : EventOf(c) /\ e # Lifecycle!Died(c) => EventOf(c)'
<1>1. /\ binderEvents \in Seq(BinderDiedUnlinkedEvents) /\ binderEvents # <<>>
      /\ e = Head(binderEvents) /\ binderEvents' = Tail(binderEvents)
  BY DEF Lifecycle!NextEventIs, LifecycleInv
<1>2. /\ Len(binderEvents) \in Nat
      /\ binderEvents' \in Seq(BinderDiedUnlinkedEvents)
      /\ e = binderEvents[1]
      /\ Len(binderEvents') = Len(binderEvents) - 1
      /\ \A n \in 1..Len(binderEvents') : binderEvents'[n] = binderEvents[n + 1]
      /\ DOMAIN binderEvents = 1..Len(binderEvents)
      /\ DOMAIN binderEvents' = 1..Len(binderEvents')
  BY <1>1
<1>3. ASSUME NEW c \in Clients, EventOf(c), e # Lifecycle!Died(c)
      PROVE  EventOf(c)'
  <2>1. PICK n \in DOMAIN binderEvents : binderEvents[n] = Lifecycle!Died(c)
    BY <1>3 DEF EventOf
  <2>2. n - 1 \in DOMAIN binderEvents' /\ binderEvents'[n - 1] = Lifecycle!Died(c)
    BY <1>2, <1>3, <2>1
  <2> QED
    BY <2>2 DEF EventOf, Lifecycle!Died
<1> QED
  BY <1>2, <1>3

\* A successful monitorBinderLifeCycleLocked.
LEMMA MonitoredWatches ==
    ASSUME LifecycleInv, NEW b \in Clients, Lifecycle!Monitored(b)
    PROVE  /\ LifecycleInv'
           /\ Lifecycle!Watched(b)'
           /\ \A c \in Clients : Lifecycle!Watched(c) => Lifecycle!Watched(c)'
<1>1. CASE /\ b \in contexts /\ binder[b] = "alive"
           /\ UNCHANGED lifecycleVars
  BY <1>1 DEF lifecycleVars, LifecycleInv, Lifecycle!Watched, Lifecycle!Died
<1>2. CASE /\ contexts' = contexts \union {b}
           /\ recipient' = [recipient EXCEPT ![b] = "linked"]
           /\ UNCHANGED <<binder, binderEvents>>
  BY <1>2 DEF LifecycleInv, Lifecycle!Watched, Lifecycle!Died
<1> QED
  BY <1>1, <1>2 DEF Lifecycle!Monitored, Lifecycle!IsAlive, lifecycleVars

\* The steps of binder, and a refused monitoring, lose nobody.
LEMMA BinderKeepsWatch ==
    ASSUME LifecycleInv, NEW b \in Clients,
           \/ Lifecycle!NotMonitored(b) \/ Lifecycle!Dies(b) \/ Lifecycle!OnBinderDied(b)
           \/ Lifecycle!OnBinderUnlinked(b) \/ Lifecycle!HandleUnlinked(b)
    PROVE  /\ LifecycleInv'
           /\ \A c \in Clients : Lifecycle!Watched(c) => Lifecycle!Watched(c)'
<1>1. \A c \in Clients : /\ Lifecycle!Watched(c) <=> recipient[c] = "linked" \/ EventOf(c)
                         /\ Lifecycle!Watched(c)' <=> recipient'[c] = "linked" \/ EventOf(c)'
  BY DEF Lifecycle!Watched, EventOf, Lifecycle!Died
<1>2. \A c \in Clients : binderEvents' = binderEvents /\ EventOf(c) => EventOf(c)'
  BY DEF EventOf, Lifecycle!Died
<1>3. CASE Lifecycle!NotMonitored(b)
  <2>1. CASE b \in contexts /\ UNCHANGED lifecycleVars
    BY <1>1, <1>2, <2>1 DEF LifecycleInv, lifecycleVars
  <2>2. CASE /\ binder[b] = "dead" /\ contexts' = contexts \union {b}
             /\ Lifecycle!PushEvent(Lifecycle!Unlinked(b))
             /\ UNCHANGED <<binder, recipient>>
    BY <1>1, <2>2, PushKeepsEvents, EventsTyped DEF LifecycleInv
  <2> QED
    BY <1>3, <2>1, <2>2 DEF Lifecycle!NotMonitored, Lifecycle!LinkFails, lifecycleVars
<1>4. CASE Lifecycle!Dies(b)
  BY <1>1, <1>2, <1>4 DEF Lifecycle!Dies, LifecycleInv
<1>5. CASE Lifecycle!OnBinderDied(b)
  <2>1. binder' = [binder EXCEPT ![b] = "dead"] /\ contexts' = contexts
    BY <1>5 DEF Lifecycle!OnBinderDied
  <2>2. CASE /\ recipient' = [recipient EXCEPT ![b] = "died"]
             /\ Lifecycle!PushEvent(Lifecycle!Died(b))
    BY <1>1, <2>1, <2>2, PushKeepsEvents, EventsTyped DEF LifecycleInv
  <2>3. CASE UNCHANGED <<recipient, binderEvents>>
    BY <1>1, <1>2, <2>1, <2>3 DEF LifecycleInv
  <2> QED
    BY <1>5, <2>2, <2>3 DEF Lifecycle!OnBinderDied
<1>6. CASE Lifecycle!OnBinderUnlinked(b)
  BY <1>1, <1>6, PushKeepsEvents, EventsTyped DEF Lifecycle!OnBinderUnlinked, LifecycleInv
<1>7. CASE Lifecycle!HandleUnlinked(b)
  BY <1>1, <1>7, NextKeepsEvents, EventsTyped DEF Lifecycle!HandleUnlinked, LifecycleInv
<1> QED
  BY <1>3, <1>4, <1>5, <1>6, <1>7

LEMMA HandleDiedKeepsOthers ==
    ASSUME LifecycleInv, NEW b \in Clients, Lifecycle!HandleDied(b)
    PROVE  /\ LifecycleInv'
           /\ \A c \in Clients \ {b} : Lifecycle!Watched(c) => Lifecycle!Watched(c)'
<1>1. \A c \in Clients : /\ Lifecycle!Watched(c) <=> recipient[c] = "linked" \/ EventOf(c)
                         /\ Lifecycle!Watched(c)' <=> recipient'[c] = "linked" \/ EventOf(c)'
  BY DEF Lifecycle!Watched, EventOf, Lifecycle!Died
<1>2. \A c \in Clients \ {b} : EventOf(c) => EventOf(c)'
  BY NextKeepsEvents, EventsTyped DEF Lifecycle!HandleDied
<1>3. LifecycleInv'
  BY NextKeepsEvents, EventsTyped DEF Lifecycle!HandleDied, LifecycleInv
<1> QED
  BY <1>1, <1>2, <1>3 DEF Lifecycle!HandleDied
-----------------------------------------------------------------------------
(* Who becomes subscribed: by a call of the manager only its own client    *)

LEMMA SubscribeAddsOnly ==
    ASSUME NEW cb \in Callbacks, NEW ps \in SUBSET Props, NEW next, NEW failures,
           NEW walk \in Walks(ps, next, failures), Subscribed(cb, ps, walk),
           \A p \in ps : /\ DOMAIN next[p].clients = DOMAIN clients[p] \union {ClientOf[cb]}
                         /\ \A f \in failures[p] : f.clients = clients[p]
    PROVE  \A c \in Clients : IsSubscribed(c)' => IsSubscribed(c) \/ c = ClientOf[cb]
<1>1. ASSUME NEW p \in Props
      PROVE  DOMAIN clients'[p] \subseteq DOMAIN clients[p] \union {ClientOf[cb]}
  <2>1. clients'[p] = walk.state[p].clients
    BY DEF Subscribed, Store
  <2>2. \/ p \in walk.done /\ walk.state[p] = next[p]
        \/ p \in ps /\ p \notin walk.done /\ walk.state[p] \in failures[p]
        \/ p \notin walk.done /\ walk.state[p] = StateOf(p)
    BY WalkCases
  <2>3. walk.done \subseteq ps
    BY WalkCases
  <2>4. StateOf(p).clients = clients[p]
    BY DEF StateOf
  <2> QED
    BY <2>1, <2>2, <2>3, <2>4
<1>2. supportedClients' = supportedClients
  BY DEF Subscribed, supportedVars
<1> QED
  BY <1>1, <1>2 DEF IsSubscribed

LEMMA OnChangeAddsOnly ==
    ASSUME NEW cb \in Callbacks, NEW ps \in SUBSET Props,
           NEW walk \in OnChangeWalks(cb, ps), Subscribed(cb, ps, walk)
    PROVE  \A c \in Clients : IsSubscribed(c)' => IsSubscribed(c) \/ c = ClientOf[cb]
<1> DEFINE next == [p \in ps |-> JoinOnChange(cb, StateOf(p))]
           failures == [p \in ps |-> JoinOnChangeFails(p, StateOf(p))]
<1>1. walk \in Walks(ps, next, failures)
  BY DEF OnChangeWalks
<1>2. \A p \in ps : /\ DOMAIN next[p].clients = DOMAIN clients[p] \union {ClientOf[cb]}
                    /\ \A f \in failures[p] : f.clients = clients[p]
  BY JoinersJoin
<1> HIDE DEF next, failures
<1> QED
  BY <1>1, <1>2, SubscribeAddsOnly

LEMMA ContinuousAddsOnly ==
    ASSUME NEW cb \in Callbacks, NEW ps \in SUBSET Props, NEW opts \in [ps -> SubConfigs],
           SubscribeContinuous(cb, opts)
    PROVE  \A c \in Clients : IsSubscribed(c)' => IsSubscribed(c) \/ c = ClientOf[cb]
<1> DEFINE next == [p \in ps |-> JoinContinuous(cb, opts[p], StateOf(p))]
           failures == [p \in ps |-> UpdateFails(p, StateOf(p),
                                                 WithClient(cb, opts[p], StateOf(p)))]
<1>1. DOMAIN opts = ps
  OBVIOUS
<1>2. PICK walk \in Walks(ps, next, failures) : Subscribed(cb, ps, walk)
  BY <1>1 DEF SubscribeContinuous, ContinuousWalks
<1>3. \A p \in ps : /\ DOMAIN next[p].clients = DOMAIN clients[p] \union {ClientOf[cb]}
                    /\ \A f \in failures[p] : f.clients = clients[p]
  BY JoinersJoin, UpdateKeepsClients
<1> HIDE DEF next, failures
<1> QED
  BY <1>2, <1>3, SubscribeAddsOnly

\* Leaving adds nobody.
LEMMA LeavingAddsNobody ==
    ASSUME LeaveInv, SupportedInv, NEW c \in Clients,
           \/ \E ps \in SUBSET Props : UnsubscribeProps(c, ps)
           \/ \E ps \in SUBSET SupportedValueProps : UnsubscribeSupportedValueChange(c, ps)
           \/ UnsubscribeClient(c)
    PROVE  \A d \in Clients : IsSubscribed(d)' => IsSubscribed(d)
<1>1. ASSUME NEW ps \in SUBSET Props, NEW walk \in LeaveWalks(c, ps), Store(walk)
      PROVE  \A p \in Props : DOMAIN clients'[p] \subseteq DOMAIN clients[p]
  BY <1>1, LeaveWalksLeave
<1>2. ASSUME NEW ps, ForgetSupported(c, ps)
      PROVE  \A p \in SupportedValueProps : supportedClients'[p] \subseteq supportedClients[p]
  BY <1>2 DEF ForgetSupported
<1>3. props[c] \in SUBSET Props
  BY DEF LeaveInv, PropsInv
<1>4. ASSUME NEW ps \in SUBSET Props, UnsubscribeProps(c, ps)
      PROVE  /\ \A p \in Props : DOMAIN clients'[p] \subseteq DOMAIN clients[p]
             /\ supportedClients' = supportedClients
  BY <1>1, <1>3, <1>4 DEF UnsubscribeProps, supportedVars
<1>5. ASSUME NEW ps \in SUBSET SupportedValueProps, UnsubscribeSupportedValueChange(c, ps)
      PROVE  /\ clients' = clients
             /\ \A p \in SupportedValueProps : supportedClients'[p] \subseteq supportedClients[p]
  BY <1>2, <1>5 DEF UnsubscribeSupportedValueChange, subscriptionVars
<1>6. ASSUME UnsubscribeClient(c)
      PROVE  /\ \A p \in Props : DOMAIN clients'[p] \subseteq DOMAIN clients[p]
             /\ \A p \in SupportedValueProps : supportedClients'[p] \subseteq supportedClients[p]
  <2>1. PICK walk \in LeaveWalks(c, props[c]) : Store(walk)
    BY <1>6 DEF UnsubscribeClient
  <2>2. ForgetSupported(c, supportedProps[c]) \/ supportedClients' = supportedClients
    BY <1>6 DEF UnsubscribeClient, supportedVars
  <2> QED
    BY <1>1, <1>2, <1>3, <2>1, <2>2
<1> QED
  BY <1>4, <1>5, <1>6 DEF IsSubscribed

\* With hardware that refuses nothing, a dead client loses every subscription.
LEMMA DeathUnsubscribes ==
    ASSUME Failing = {}, LeaveInv, SupportedInv, NEW b \in Clients, UnsubscribeClient(b)
    PROVE  ~IsSubscribed(b)'
<1>1. props[b] \in SUBSET Props
  BY DEF LeaveInv, PropsInv
<1>2. PICK walk \in LeaveWalks(b, props[b]) :
          /\ Store(walk)
          /\ walk.done = props[b] =>
                 \/ ForgetSupported(b, supportedProps[b])
                 \/ OnlyFor(b, supportedProps[b]) \intersect Failing # {}
  BY DEF UnsubscribeClient
<1>3. walk.done = props[b]
  <2> DEFINE next == [p \in props[b] |-> Leave(b, StateOf(p))]
             failures == [p \in props[b] |-> LeaveFails(b, p, StateOf(p))]
  <2>1. walk \in Walks(props[b], next, failures)
    BY DEF LeaveWalks
  <2>2. \A p \in props[b] : failures[p] = {}
    BY DEF LeaveFails, UpdateFails
  <2> HIDE DEF next, failures
  <2> QED
    BY <2>1, <2>2 DEF Walks
<1>4. ASSUME NEW p \in Props
      PROVE  b \notin DOMAIN clients'[p]
  <2>1. b \in DOMAIN clients[p] => p \in props[b]
    BY DEF LeaveInv, EverySubscriberCanLeave
  <2> QED
    BY <1>1, <1>2, <1>3, <2>1, LeaveWalksLeave
<1>5. ASSUME NEW p \in SupportedValueProps
      PROVE  b \notin supportedClients'[p]
  <2>1. ForgetSupported(b, supportedProps[b])
    BY <1>2, <1>3
  <2>2. b \in supportedClients[p] => p \in supportedProps[b]
    BY DEF SupportedInv, SupportedValuesServed
  <2> QED
    BY <2>1, <2>2 DEF ForgetSupported
<1> QED
  BY <1>4, <1>5 DEF IsSubscribed
-----------------------------------------------------------------------------
(* The inductive invariant and its steps.  What a step keeps of it is said *)
(* once: the client it is for is watched, others neither lose their watch  *)
(* nor gain subscriptions.                                                 *)

WatchInv == CallInv /\ LeaveInv /\ SupportedInv /\ LifecycleInv /\ SubscribersAreWatched

LEMMA WatchKept ==
    ASSUME SubscribersAreWatched, call' = call \/ call' = None,
           \A c \in Clients : Lifecycle!Watched(c) => Lifecycle!Watched(c)',
           \A c \in Clients : IsSubscribed(c)' => IsSubscribed(c) \/ Lifecycle!Watched(c)',
           CallInv
    PROVE  SubscribersAreWatched'
<1>1. \A c \in Clients : IsSubscribed(c)' => Lifecycle!Watched(c)'
  BY DEF SubscribersAreWatched
<1>2. ASSUME call' # None
      PROVE  Lifecycle!Watched(ClientOf[call.cb])' /\ call' = call
  <2>1. ClientOf[call.cb] \in Clients
    BY <1>2, SubscriptionAssumption DEF CallInv, SubscribeCalls
  <2> QED
    BY <1>2, <2>1 DEF SubscribersAreWatched
<1> QED
  BY <1>1, <1>2 DEF SubscribersAreWatched, Lifecycle!Watched

LEMMA LifecycleUnchanged ==
    ASSUME LifecycleInv, UNCHANGED lifecycleVars
    PROVE  /\ LifecycleInv'
           /\ \A c \in Clients : Lifecycle!Watched(c) => Lifecycle!Watched(c)'
BY DEF LifecycleInv, lifecycleVars, Lifecycle!Watched, Lifecycle!Died

LEMMA ManagerUnchanged ==
    ASSUME UNCHANGED vars
    PROVE  \A c \in Clients : IsSubscribed(c)' => IsSubscribed(c)
BY DEF vars, subscriptionVars, supportedVars, IsSubscribed

LEMMA WatchInductive ==
    ASSUME Failing = {}, WatchInv, [HalNext]_halVars
    PROVE  LifecycleInv' /\ SubscribersAreWatched'
<1> USE DEF WatchInv
<1>1. ASSUME UNCHANGED lifecycleVars, call' = call \/ call' = None,
             \A c \in Clients : IsSubscribed(c)' => IsSubscribed(c)
      PROVE  LifecycleInv' /\ SubscribersAreWatched'
  BY <1>1, LifecycleUnchanged, WatchKept
<1>2. ASSUME NEW cb \in Callbacks, NEW c \in Calls, Subscribe(cb, c[1], c[2])
      PROVE  LifecycleInv' /\ SubscribersAreWatched'
  <2>1. /\ ClientOf[cb] \in Clients /\ Lifecycle!Monitored(ClientOf[cb])
        /\ UNCHANGED vars /\ call'.cb = cb
    BY <1>2, SubscriptionAssumption DEF Subscribe
  <2>2. /\ LifecycleInv' /\ Lifecycle!Watched(ClientOf[cb])'
        /\ \A d \in Clients : Lifecycle!Watched(d) => Lifecycle!Watched(d)'
    BY <2>1, MonitoredWatches
  <2>3. \A d \in Clients : IsSubscribed(d)' => Lifecycle!Watched(d)'
    BY <2>1, <2>2, ManagerUnchanged DEF SubscribersAreWatched
  <2> QED
    BY <2>1, <2>2, <2>3 DEF SubscribersAreWatched, Lifecycle!Watched
<1>3. ASSUME NEW c \in Clients, Refused(c)
      PROVE  LifecycleInv' /\ SubscribersAreWatched'
  BY <1>3, BinderKeepsWatch, ManagerUnchanged, WatchKept DEF Refused
<1>4. ASSUME OnChangeHalf
      PROVE  LifecycleInv' /\ SubscribersAreWatched'
  <2>1. /\ call # None /\ call.cb \in Callbacks /\ call.onChange \in SUBSET Props
        /\ UNCHANGED lifecycleVars
    BY <1>4, SubscriptionAssumption DEF OnChangeHalf, CallInv, SubscribeCalls
  <2>2. PICK walk \in OnChangeWalks(call.cb, call.onChange) :
            Subscribed(call.cb, call.onChange, walk)
    BY <1>4 DEF OnChangeHalf
  <2>3. \A c \in Clients : IsSubscribed(c)' => IsSubscribed(c) \/ c = ClientOf[call.cb]
    BY <2>1, <2>2, OnChangeAddsOnly
  <2>4. LifecycleInv' /\ \A c \in Clients : Lifecycle!Watched(c) => Lifecycle!Watched(c)'
    BY <2>1, LifecycleUnchanged
  <2>5. \A c \in Clients : IsSubscribed(c)' => Lifecycle!Watched(c)'
    BY <2>1, <2>3, <2>4 DEF SubscribersAreWatched
  <2>6. call' # None => call'.cb = call.cb
    BY <1>4, <2>1 DEF OnChangeHalf, CallInv, SubscribeCalls
  <2>7. ClientOf[call.cb] \in Clients
    BY <2>1, SubscriptionAssumption
  <2> QED
    BY <2>1, <2>4, <2>5, <2>6, <2>7 DEF SubscribersAreWatched, Lifecycle!Watched
<1>5. ASSUME ContinuousHalf
      PROVE  LifecycleInv' /\ SubscribersAreWatched'
  <2>1. /\ call # None /\ call.cb \in Callbacks /\ call' = None
        /\ call.continuous \in Maps(Continuous, SubConfigs) /\ call.continuous # <<>>
        /\ SubscribeContinuous(call.cb, call.continuous) /\ UNCHANGED lifecycleVars
    BY <1>5 DEF ContinuousHalf, CallInv, SubscribeCalls
  <2>2. /\ DOMAIN call.continuous \in SUBSET Props
        /\ call.continuous \in [DOMAIN call.continuous -> SubConfigs]
    BY <2>1, SomeKey, SubscriptionAssumption
  <2>3. \A c \in Clients : IsSubscribed(c)' => IsSubscribed(c) \/ c = ClientOf[call.cb]
    BY <2>1, <2>2, ContinuousAddsOnly
  <2>4. LifecycleInv' /\ \A c \in Clients : Lifecycle!Watched(c) => Lifecycle!Watched(c)'
    BY <2>1, LifecycleUnchanged
  <2>5. \A c \in Clients : IsSubscribed(c)' => Lifecycle!Watched(c)'
    BY <2>1, <2>3, <2>4 DEF SubscribersAreWatched
  <2> QED
    BY <2>1, <2>4, <2>5 DEF SubscribersAreWatched
<1>6. ASSUME NEW c \in Clients, NEW ps \in SUBSET SupportedValueProps,
             RegisterSupportedValueChange(c, ps)
      PROVE  LifecycleInv' /\ SubscribersAreWatched'
  <2>1. /\ LifecycleInv' /\ Lifecycle!Watched(c)'
        /\ \A d \in Clients : Lifecycle!Watched(d) => Lifecycle!Watched(d)'
    BY <1>6, MonitoredWatches DEF RegisterSupportedValueChange
  <2>2. \A d \in Clients : IsSubscribed(d)' => IsSubscribed(d) \/ d = c
    <3>1. CASE SubscribeSupportedValueChange(c, ps)
      BY <3>1 DEF SubscribeSupportedValueChange, subscriptionVars, IsSubscribed
    <3>2. CASE UNCHANGED vars
      BY <3>2, ManagerUnchanged
    <3> QED
      BY <1>6, <3>1, <3>2 DEF RegisterSupportedValueChange
  <2>3. call' = call
    BY <1>6 DEF RegisterSupportedValueChange
  <2> QED
    BY <2>1, <2>2, <2>3, WatchKept
<1>7. ASSUME NEW c \in Clients, NEW ps \in SUBSET SupportedValueProps,
             UnregisterSupportedValueChange(c, ps)
      PROVE  LifecycleInv' /\ SubscribersAreWatched'
  BY <1>1, <1>7, LeavingAddsNobody DEF UnregisterSupportedValueChange
<1>8. ASSUME NEW c \in Clients, NEW ps \in SUBSET Props, Unsubscribe(c, ps)
      PROVE  LifecycleInv' /\ SubscribersAreWatched'
  BY <1>1, <1>8, LeavingAddsNobody DEF Unsubscribe
<1>9. ASSUME NEW p \in Reported, NEW event \in Events, Deliver(p, event)
      PROVE  LifecycleInv' /\ SubscribersAreWatched'
  BY <1>1, <1>9 DEF Deliver, GetSubscribedClients, supportedVars, IsSubscribed
<1>10. ASSUME NEW b \in Clients, BinderDies(b) \/ Obituary(b) \/ OnBinderUnlinked(b)
                                 \/ HandleUnlinked(b)
       PROVE  LifecycleInv' /\ SubscribersAreWatched'
  BY <1>10, BinderKeepsWatch, ManagerUnchanged, WatchKept
     DEF BinderDies, Obituary, OnBinderUnlinked, HandleUnlinked
<1>11. ASSUME NEW b \in Clients, HandleDied(b)
       PROVE  LifecycleInv' /\ SubscribersAreWatched'
  <2>1. /\ call = None /\ call' = call /\ Lifecycle!HandleDied(b) /\ UnsubscribeClient(b)
    BY <1>11 DEF HandleDied, mLockIsFree
  <2>2. /\ LifecycleInv'
        /\ \A c \in Clients \ {b} : Lifecycle!Watched(c) => Lifecycle!Watched(c)'
    BY <2>1, HandleDiedKeepsOthers
  <2>3. \A c \in Clients : IsSubscribed(c)' => IsSubscribed(c)
    BY <2>1, LeavingAddsNobody
  <2>4. ~IsSubscribed(b)'
    BY <2>1, DeathUnsubscribes
  <2>5. \A c \in Clients : IsSubscribed(c)' => Lifecycle!Watched(c)'
    BY <2>2, <2>3, <2>4 DEF SubscribersAreWatched
  <2> QED
    BY <2>1, <2>2, <2>5 DEF SubscribersAreWatched
<1>12. CASE UNCHANGED halVars
  BY <1>1, <1>12, ManagerUnchanged DEF halVars
<1>13. CASE CallNext
  BY <1>2, <1>3, <1>4, <1>5, <1>6, <1>7, <1>8, <1>9, <1>13 DEF CallNext
<1>14. CASE BinderNext
  BY <1>10, <1>11, <1>14 DEF BinderNext
<1> QED
  BY <1>12, <1>13, <1>14 DEF HalNext

\* With hardware that refuses nothing, a client that is subscribed, or about
\* to be by a running subscribe, is one whose death the HAL will hear of, for
\* any clients and properties (subscribe, monitorBinderLifeCycleLocked,
\* onBinderDiedWithContext).
THEOREM WatchedWhileSubscribed ==
    ASSUME Failing = {}
    PROVE  HalSpec => []SubscribersAreWatched
<1>1. HalInit => WatchInv
  <2> SUFFICES ASSUME HalInit PROVE WatchInv
    OBVIOUS
  <2>1. CallInv /\ LeaveInv /\ SupportedInv
    BY DEF HalInit, Init, CallInv, LeaveInv, PropsInv, ClientsInv, EverySubscriberCanLeave,
           SupportedInv, SupportedValuesServed
  <2>2. LifecycleInv
    BY DEF HalInit, Lifecycle!Init, LifecycleInv
  <2>3. SubscribersAreWatched
    BY DEF HalInit, Init, SubscribersAreWatched, IsSubscribed
  <2> QED
    BY <2>1, <2>2, <2>3 DEF WatchInv
<1>2. WatchInv /\ [HalNext]_halVars => WatchInv'
  BY ManagerStep, CallInductive, LeaveInductive, SupportedInductive, WatchInductive
     DEF WatchInv
<1>3. WatchInv => SubscribersAreWatched
  BY DEF WatchInv
<1> QED
  BY <1>1, <1>2, <1>3, PTL DEF HalSpec
=============================================================================
