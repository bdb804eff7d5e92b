--------------------- MODULE SubscriptionManagerProofs ---------------------
(***************************************************************************)
(* Proofs about SubscriptionManager, for any clients, properties, options  *)
(* and events and any refusals of the hardware: the type invariant, a      *)
(* client that is subscribed can always leave, the supported value         *)
(* subscriptions agree, the hardware is told what the clients of a         *)
(* continuous property ask together, and no call ends the hardware's       *)
(* subscription of a property that others keep but for two causes.         *)
(***************************************************************************)
EXTENDS SubscriptionManager, FiniteSetTheorems, TLAPS

\* What a walk leaves of each property: the state a finished step left, one a
\* refused step left, or the state it had.
LEMMA WalkCases ==
    ASSUME NEW ps \in SUBSET Props, NEW next, NEW failures,
           NEW walk \in Walks(ps, next, failures)
    PROVE  /\ walk.done \subseteq ps
           /\ \A p \in Props :
                  \/ p \in walk.done /\ walk.state[p] = next[p]
                  \/ p \in ps /\ p \notin walk.done /\ walk.state[p] \in failures[p]
                  \/ p \notin walk.done /\ walk.state[p] = StateOf(p)
<1> DEFINE after(done, failed) ==
        [p \in Props |-> IF p \in done THEN next[p]
                         ELSE IF p \in DOMAIN failed THEN failed[p]
                         ELSE StateOf(p)]
<1>1. CASE walk = [done |-> ps, state |-> after(ps, <<>>)]
  BY <1>1
<1>2. CASE \E q \in ps : \E done \in SUBSET (ps \ {q}), f \in failures[q] :
               walk = [done |-> done, state |-> after(done, [r \in {q} |-> f])]
  <2> PICK q \in ps : \E done \in SUBSET (ps \ {q}), f \in failures[q] :
               walk = [done |-> done, state |-> after(done, [r \in {q} |-> f])]
    BY <1>2
  <2> PICK done \in SUBSET (ps \ {q}), f \in failures[q] :
               walk = [done |-> done, state |-> after(done, [r \in {q} |-> f])]
    OBVIOUS
  <2> QED
    OBVIOUS
<1> QED
  BY <1>1, <1>2 DEF Walks
-----------------------------------------------------------------------------
\* Who is subscribed after each operation on one property.
LEMMA PutKeys ==
    ASSUME NEW map, NEW key, NEW value
    PROVE  DOMAIN Put(map, key, value) = DOMAIN map \union {key}
BY DEF Put

LEMMA UpdateKeepsClients ==
    ASSUME NEW p \in Props, NEW new
    PROVE  /\ Update(StateOf(p), new).clients = clients[p]
           /\ \A f \in UpdateFails(p, StateOf(p), new) : f.clients = clients[p]
BY DEF Update, UpdateFails, StateOf

LEMMA JoinersJoin ==
    ASSUME NEW p \in Props, NEW cb \in Callbacks, NEW opt
    PROVE  /\ DOMAIN JoinContinuous(cb, opt, StateOf(p)).clients
                  = DOMAIN clients[p] \union {ClientOf[cb]}
           /\ DOMAIN JoinOnChange(cb, StateOf(p)).clients
                  = DOMAIN clients[p] \union {ClientOf[cb]}
           /\ \A f \in JoinOnChangeFails(p, StateOf(p)) : f.clients = clients[p]
<1>1. DOMAIN JoinContinuous(cb, opt, StateOf(p)).clients
          = DOMAIN clients[p] \union {ClientOf[cb]}
  <2> DEFINE u == Update(StateOf(p), WithClient(cb, opt, StateOf(p)))
  <2>1. u.clients = clients[p]
    BY UpdateKeepsClients
  <2>2. JoinContinuous(cb, opt, StateOf(p)).clients = Put(u.clients, ClientOf[cb], cb)
    BY DEF JoinContinuous, Update, StateOf
  <2>3. DOMAIN Put(clients[p], ClientOf[cb], cb) = DOMAIN clients[p] \union {ClientOf[cb]}
    BY PutKeys
  <2> HIDE DEF u
  <2> QED
    BY <2>1, <2>2, <2>3
<1>2. DOMAIN JoinOnChange(cb, StateOf(p)).clients = DOMAIN clients[p] \union {ClientOf[cb]}
  BY PutKeys DEF JoinOnChange, StateOf
<1>3. \A f \in JoinOnChangeFails(p, StateOf(p)) : f.clients = clients[p]
  BY DEF JoinOnChangeFails, StateOf
<1> QED
  BY <1>1, <1>2, <1>3

LEMMA LeaversLeave ==
    ASSUME NEW p \in Props, NEW c \in Clients
    PROVE  /\ DOMAIN Leave(c, StateOf(p)).clients = DOMAIN clients[p] \ {c}
           /\ \A f \in LeaveFails(c, p, StateOf(p)) : f.clients = clients[p]
<1> DEFINE s == StateOf(p)
           u == Update(s, WithoutClient(c, s))
<1>1. u.clients = clients[p]
  BY UpdateKeepsClients
<1>2. DOMAIN Forget(c, u).clients = DOMAIN clients[p] \ {c}
  BY <1>1 DEF Forget, Restrict, Update, StateOf
<1>3. DOMAIN Forget(c, s).clients = DOMAIN clients[p] \ {c}
  BY DEF Forget, Restrict, StateOf
<1>4. DOMAIN Forget(c, [s EXCEPT !.hw.options = None]).clients = DOMAIN clients[p] \ {c}
  BY DEF Forget, Restrict, StateOf
<1>5. \A f \in LeaveFails(c, p, s) : f.clients = clients[p]
  BY UpdateKeepsClients DEF LeaveFails, StateOf
<1> QED
  BY <1>2, <1>3, <1>4, <1>5 DEF Leave
-----------------------------------------------------------------------------
\* What calls do to the set of a client and to who is subscribed.
PropsInv == props \in [Clients -> SUBSET Props]

ClientsInv == \A p \in Props : DOMAIN clients[p] \subseteq Clients

LeaveInv == PropsInv /\ ClientsInv /\ EverySubscriberCanLeave

\* Nobody is added to a property by a walk that leaves properties.
LEMMA LeaveWalksLeave ==
    ASSUME NEW c \in Clients, NEW ps \in SUBSET Props,
           NEW walk \in LeaveWalks(c, ps), Store(walk), NEW p \in Props
    PROVE  /\ walk.done \subseteq ps
           /\ p \in walk.done => DOMAIN clients'[p] = DOMAIN clients[p] \ {c}
           /\ p \notin walk.done => DOMAIN clients'[p] = DOMAIN clients[p]
<1> DEFINE next == [r \in ps |-> Leave(c, StateOf(r))]
           failures == [r \in ps |-> LeaveFails(c, r, StateOf(r))]
<1>1. walk \in Walks(ps, next, failures)
  BY DEF LeaveWalks
<1> HIDE DEF next, failures
<1>2. /\ walk.done \subseteq ps
      /\ \/ p \in walk.done /\ walk.state[p] = next[p]
         \/ p \in ps /\ p \notin walk.done /\ walk.state[p] \in failures[p]
         \/ p \notin walk.done /\ walk.state[p] = StateOf(p)
  BY <1>1, WalkCases
<1>3. clients'[p] = walk.state[p].clients
  BY DEF Store
<1>4. CASE p \in walk.done /\ walk.state[p] = next[p]
  BY <1>2, <1>3, <1>4, LeaversLeave DEF next
<1>5. CASE p \in ps /\ p \notin walk.done /\ walk.state[p] \in failures[p]
  BY <1>2, <1>3, <1>5, LeaversLeave DEF failures
<1>6. CASE p \notin walk.done /\ walk.state[p] = StateOf(p)
  BY <1>2, <1>3, <1>6 DEF StateOf
<1> QED
  BY <1>2, <1>4, <1>5, <1>6

\* A subscribe call adds its client where it got through, and nobody else.
LEMMA SubscribeJoins ==
    ASSUME NEW cb \in Callbacks, NEW ps \in SUBSET Props, NEW next, NEW failures,
           NEW walk \in Walks(ps, next, failures), Subscribed(cb, ps, walk),
           \A p \in ps : /\ DOMAIN next[p].clients = DOMAIN clients[p] \union {ClientOf[cb]}
                         /\ \A f \in failures[p] : f.clients = clients[p],
           LeaveInv
    PROVE  LeaveInv'
<1>1. ClientOf[cb] \in Clients
  BY SubscriptionAssumption
<1>2. walk.done \subseteq ps
  BY WalkCases
<1>3. props' = [props EXCEPT ![ClientOf[cb]] = @ \union walk.done] /\ Store(walk)
  BY DEF Subscribed
<1>4. PropsInv'
  BY <1>1, <1>2, <1>3 DEF LeaveInv, PropsInv
<1>5. ASSUME NEW p \in Props, NEW c \in DOMAIN clients'[p]
      PROVE  c \in Clients /\ p \in props'[c]
  <2>1. clients'[p] = walk.state[p].clients
    BY <1>3 DEF Store
  <2>2. \/ p \in walk.done /\ walk.state[p] = next[p]
        \/ p \in ps /\ p \notin walk.done /\ walk.state[p] \in failures[p]
        \/ p \notin walk.done /\ walk.state[p] = StateOf(p)
    BY WalkCases
  <2>3. CASE p \in walk.done /\ walk.state[p] = next[p]
    <3>1. c \in DOMAIN clients[p] \union {ClientOf[cb]}
      BY <1>2, <1>5, <2>1, <2>3
    <3> QED
      BY <1>1, <1>3, <2>3, <3>1 DEF LeaveInv, PropsInv, ClientsInv, EverySubscriberCanLeave
  <2>4. CASE walk.state[p].clients = clients[p]
    <3>1. c \in Clients /\ p \in props[c]
      BY <1>5, <2>1, <2>4 DEF LeaveInv, ClientsInv, EverySubscriberCanLeave
    <3> QED
      BY <1>1, <1>3, <3>1 DEF LeaveInv, PropsInv
  <2> QED
    BY <2>2, <2>3, <2>4 DEF StateOf
<1> QED
  BY <1>4, <1>5 DEF LeaveInv, ClientsInv, EverySubscriberCanLeave
-----------------------------------------------------------------------------
LEMMA LeaveInductive ==
    ASSUME LeaveInv, [Next]_vars
    PROVE  LeaveInv'
<1> USE DEF LeaveInv
<1>1. ASSUME NEW cb \in Callbacks, NEW ps \in SUBSET Continuous,
             NEW opts \in [ps -> SubConfigs], SubscribeContinuous(cb, opts)
      PROVE  LeaveInv'
  <2> DEFINE next == [p \in ps |-> JoinContinuous(cb, opts[p], StateOf(p))]
             failures == [p \in ps |-> UpdateFails(p, StateOf(p),
                                                   WithClient(cb, opts[p], StateOf(p)))]
  <2>1. ps \in SUBSET Props /\ DOMAIN opts = ps
    BY <1>1, SubscriptionAssumption
  <2>2. PICK walk \in Walks(ps, next, failures) : Subscribed(cb, ps, walk)
    BY <1>1, <2>1 DEF SubscribeContinuous, ContinuousWalks
  <2>3. \A p \in ps : /\ DOMAIN next[p].clients = DOMAIN clients[p] \union {ClientOf[cb]}
                      /\ \A f \in failures[p] : f.clients = clients[p]
    BY <2>1, JoinersJoin, UpdateKeepsClients
  <2> HIDE DEF next, failures
  <2> QED
    BY <2>1, <2>2, <2>3, SubscribeJoins
<1>2. ASSUME NEW cb \in Callbacks, NEW ps \in SUBSET (Props \ Continuous),
             SubscribeOnChange(cb, ps)
      PROVE  LeaveInv'
  <2> DEFINE next == [p \in ps |-> JoinOnChange(cb, StateOf(p))]
             failures == [p \in ps |-> JoinOnChangeFails(p, StateOf(p))]
  <2>1. PICK walk \in Walks(ps, next, failures) : Subscribed(cb, ps, walk)
    BY <1>2 DEF SubscribeOnChange, OnChangeWalks
  <2>2. \A p \in ps : /\ DOMAIN next[p].clients = DOMAIN clients[p] \union {ClientOf[cb]}
                      /\ \A f \in failures[p] : f.clients = clients[p]
    BY JoinersJoin
  <2> HIDE DEF next, failures
  <2> QED
    BY <2>1, <2>2, SubscribeJoins
<1>3. ASSUME NEW c \in Clients, NEW ps \in SUBSET Props, UnsubscribeProps(c, ps)
      PROVE  LeaveInv'
  <2>1. PICK walk \in LeaveWalks(c, props[c] \intersect ps) :
            Store(walk) /\ props' = [props EXCEPT ![c] = @ \ walk.done]
    BY <1>3 DEF UnsubscribeProps
  <2>2. PropsInv'
    BY <2>1 DEF PropsInv
  <2>3. ASSUME NEW p \in Props, NEW d \in DOMAIN clients'[p]
        PROVE  d \in Clients /\ p \in props'[d]
    <3>1. d \in DOMAIN clients[p] /\ ~(d = c /\ p \in walk.done)
      BY <2>1, <2>3, LeaveWalksLeave
    <3>2. d \in Clients /\ p \in props[d]
      BY <3>1 DEF ClientsInv, EverySubscriberCanLeave
    <3> QED
      BY <2>1, <3>1, <3>2 DEF PropsInv
  <2> QED
    BY <2>2, <2>3 DEF ClientsInv, EverySubscriberCanLeave
<1>4. ASSUME NEW c \in Clients, UnsubscribeClient(c)
      PROVE  LeaveInv'
  <2>1. PICK walk \in LeaveWalks(c, props[c]) :
            /\ Store(walk)
            /\ IF walk.done = props[c] THEN props' = [props EXCEPT ![c] = {}]
                                      ELSE props' = props
    BY <1>4 DEF UnsubscribeClient
  <2>2. PropsInv'
    BY <2>1 DEF PropsInv
  <2>3. ASSUME NEW p \in Props, NEW d \in DOMAIN clients'[p]
        PROVE  d \in Clients /\ p \in props'[d]
    <3>1. props[c] \in SUBSET Props
      BY DEF PropsInv
    <3>2. d \in DOMAIN clients[p] /\ ~(d = c /\ p \in walk.done)
      BY <2>1, <2>3, <3>1, LeaveWalksLeave
    <3>3. d \in Clients /\ p \in props[d]
      BY <3>2 DEF ClientsInv, EverySubscriberCanLeave
    <3>4. CASE walk.done = props[c]
      BY <2>1, <3>2, <3>3, <3>4 DEF PropsInv
    <3>5. CASE walk.done # props[c]
      BY <2>1, <3>3, <3>5
    <3> QED
      BY <3>4, <3>5
  <2> QED
    BY <2>2, <2>3 DEF ClientsInv, EverySubscriberCanLeave
<1>5. ASSUME UNCHANGED <<clients, props>>
      PROVE  LeaveInv'
  BY <1>5 DEF PropsInv, ClientsInv, EverySubscriberCanLeave
<1> QED
  <2>1. CASE Next
    BY <2>1, <1>1, <1>2, <1>3, <1>4, <1>5
       DEF Next, SubscribeSupportedValueChange, UnsubscribeSupportedValueChange,
           GetSubscribedClients, subscriptionVars
  <2>2. CASE UNCHANGED vars
    BY <2>2, <1>5 DEF vars, subscriptionVars
  <2> QED
    BY <2>1, <2>2

\* Whatever the hardware refuses, a client that is sent events of a property
\* finds it in the set that unsubscribe and the client's death walk over
\* (mSubscribedPropsByClient, mClientsByPropIdAreaId).
THEOREM SubscribersCanLeave == Spec => []EverySubscriberCanLeave
<1>1. Init => LeaveInv
  BY DEF Init, LeaveInv, PropsInv, ClientsInv, EverySubscriberCanLeave
<1>2. LeaveInv /\ [Next]_vars => LeaveInv'
  BY LeaveInductive
<1>3. LeaveInv => EverySubscriberCanLeave
  BY DEF LeaveInv
<1> QED
  BY <1>1, <1>2, <1>3, PTL DEF Spec
-----------------------------------------------------------------------------
(* The supported value subscriptions *)

SupportedInv ==
    /\ supportedClients \in [SupportedValueProps -> SUBSET Clients]
    /\ supportedProps \in [Clients -> SUBSET SupportedValueProps]
    /\ SupportedValuesServed

LEMMA ForgetKeepsSupported ==
    ASSUME SupportedInv, NEW c \in Clients, NEW ps \in SUBSET SupportedValueProps,
           ForgetSupported(c, ps)
    PROVE  SupportedInv'
<1> USE DEF SupportedInv
<1>1. supportedClients' = [p \in SupportedValueProps |->
          IF p \in ps THEN supportedClients[p] \ {c} ELSE supportedClients[p]]
  BY DEF ForgetSupported
<1>2. supportedProps' = [supportedProps EXCEPT ![c] = @ \ ps]
  BY DEF ForgetSupported
<1>3. hwSupported' = {p \in SupportedValueProps : supportedClients'[p] # {}}
  <2>1. ASSUME NEW p \in SupportedValueProps
        PROVE  supportedClients'[p] = {} <=> (supportedClients[p] = {} \/ p \in OnlyFor(c, ps))
    <3>1. CASE p \in ps
      BY <1>1, <3>1 DEF OnlyFor
    <3>2. CASE p \notin ps
      BY <1>1, <3>2 DEF OnlyFor
    <3> QED
      BY <3>1, <3>2
  <2>2. hwSupported' = hwSupported \ OnlyFor(c, ps)
    BY DEF ForgetSupported
  <2>3. hwSupported = {p \in SupportedValueProps : supportedClients[p] # {}}
    BY DEF SupportedValuesServed
  <2> QED
    BY <2>1, <2>2, <2>3
<1>4. ASSUME NEW d \in Clients
      PROVE  supportedProps'[d] = {p \in SupportedValueProps : d \in supportedClients'[p]}
  <2>1. supportedProps[d] = {p \in SupportedValueProps : d \in supportedClients[p]}
    BY DEF SupportedValuesServed
  <2>2. CASE d = c
    BY <1>1, <1>2, <2>1, <2>2
  <2>3. CASE d # c
    BY <1>1, <1>2, <2>1, <2>3
  <2> QED
    BY <2>2, <2>3
<1> QED
  BY <1>1, <1>2, <1>3, <1>4 DEF SupportedValuesServed

LEMMA SubscribeKeepsSupported ==
    ASSUME SupportedInv, NEW c \in Clients, NEW ps \in SUBSET SupportedValueProps,
           SubscribeSupportedValueChange(c, ps)
    PROVE  SupportedInv'
<1> USE DEF SupportedInv
<1>1. supportedClients' = [p \in SupportedValueProps |->
          IF p \in ps THEN supportedClients[p] \union {c} ELSE supportedClients[p]]
  BY DEF SubscribeSupportedValueChange
<1>2. supportedProps' = [supportedProps EXCEPT ![c] = @ \union ps]
  BY DEF SubscribeSupportedValueChange
<1>3. hwSupported' = {p \in SupportedValueProps : supportedClients'[p] # {}}
  BY <1>1 DEF SubscribeSupportedValueChange, SupportedValuesServed
<1>4. ASSUME NEW d \in Clients
      PROVE  supportedProps'[d] = {p \in SupportedValueProps : d \in supportedClients'[p]}
  <2>1. supportedProps[d] = {p \in SupportedValueProps : d \in supportedClients[p]}
    BY DEF SupportedValuesServed
  <2>2. CASE d = c
    BY <1>1, <1>2, <2>1, <2>2
  <2>3. CASE d # c
    BY <1>1, <1>2, <2>1, <2>3
  <2> QED
    BY <2>2, <2>3
<1> QED
  BY <1>1, <1>2, <1>3, <1>4 DEF SupportedValuesServed

LEMMA SupportedInductive ==
    ASSUME SupportedInv, [Next]_vars
    PROVE  SupportedInv'
<1>1. ASSUME UNCHANGED supportedVars
      PROVE  SupportedInv'
  BY <1>1 DEF supportedVars, SupportedInv, SupportedValuesServed
<1>2. ASSUME NEW c \in Clients, UnsubscribeClient(c)
      PROVE  SupportedInv'
  <2>1. supportedProps[c] \in SUBSET SupportedValueProps
    BY DEF SupportedInv
  <2>2. ForgetSupported(c, supportedProps[c]) \/ UNCHANGED supportedVars
    BY <1>2 DEF UnsubscribeClient
  <2> QED
    BY <1>1, <2>1, <2>2, ForgetKeepsSupported
<1>3. ASSUME NEW c \in Clients, NEW ps \in SUBSET SupportedValueProps,
             UnsubscribeSupportedValueChange(c, ps)
      PROVE  SupportedInv'
  BY <1>3, ForgetKeepsSupported DEF UnsubscribeSupportedValueChange
<1>4. ASSUME NEW c \in Clients, NEW ps \in SUBSET SupportedValueProps,
             SubscribeSupportedValueChange(c, ps)
      PROVE  SupportedInv'
  BY <1>4, SubscribeKeepsSupported
<1>5. ASSUME NEW cb \in Callbacks, NEW ps, NEW walk, Subscribed(cb, ps, walk)
      PROVE  SupportedInv'
  BY <1>1, <1>5 DEF Subscribed
<1>6. CASE UNCHANGED vars
  BY <1>1, <1>6 DEF vars
<1>7. CASE Next
  <2>1. ASSUME NEW cb \in Callbacks, NEW opts, SubscribeContinuous(cb, opts)
        PROVE  SupportedInv'
    BY <1>5, <2>1 DEF SubscribeContinuous
  <2>2. ASSUME NEW cb \in Callbacks, NEW ps, SubscribeOnChange(cb, ps)
        PROVE  SupportedInv'
    BY <1>5, <2>2 DEF SubscribeOnChange
  <2>3. ASSUME NEW c \in Clients, NEW ps, UnsubscribeProps(c, ps)
        PROVE  SupportedInv'
    BY <1>1, <2>3 DEF UnsubscribeProps
  <2>4. ASSUME NEW p \in Reported, NEW event \in Events, GetSubscribedClients(p, event)
        PROVE  SupportedInv'
    BY <1>1, <2>4 DEF GetSubscribedClients
  <2> QED
    BY <1>2, <1>3, <1>4, <1>7, <2>1, <2>2, <2>3, <2>4 DEF Next
<1> QED
  BY <1>6, <1>7

\* The hardware reports the supported values exactly of the properties some
\* client asked for, and the manager's two maps of these agree, whatever calls
\* the hardware refuses (unsubscribeSupportedValueChangeLocked).
THEOREM SupportedValuesAgree == Spec => []SupportedValuesServed
<1>1. Init => SupportedInv
  BY DEF Init, SupportedInv, SupportedValuesServed
<1>2. SupportedInv /\ [Next]_vars => SupportedInv'
  BY SupportedInductive
<1>3. SupportedInv => SupportedValuesServed
  BY DEF SupportedInv
<1> QED
  BY <1>1, <1>2, <1>3, PTL DEF Spec
-----------------------------------------------------------------------------
(* What the hardware is told of a property *)

\* Of some clients one asks the fastest rate and one the finest resolution.
\* (That a finite set has extremes would need induction; that every subset of
\* the clients has them is kept by the steps, which add or remove one.)
Extremes(byClient) ==
    \A T \in SUBSET DOMAIN byClient : T # {} =>
        /\ \E c \in T : \A d \in T : byClient[c].rate >= byClient[d].rate
        /\ \E c \in T : \A d \in T : byClient[c].resolution <= byClient[d].resolution

LEMMA SubConfigTypes ==
    ASSUME NEW o \in SubConfigs
    PROVE  /\ o.rate \in Nat /\ o.rate > 0 /\ o.resolution \in Nat
           /\ o.resolution <= CoarsestResolution /\ o.vur \in BOOLEAN
BY SubscriptionAssumption

LEMMA PutExtremes ==
    ASSUME NEW D, NEW f \in [D -> SubConfigs], Extremes(f), NEW k, NEW v \in SubConfigs
    PROVE  /\ Put(f, k, v) \in [D \union {k} -> SubConfigs]
           /\ Extremes(Put(f, k, v))
<1> DEFINE g == Put(f, k, v)
<1>1. /\ g \in [D \union {k} -> SubConfigs]
      /\ g[k] = v
      /\ \A c \in D \ {k} : g[c] = f[c]
  BY DEF Put
<1> HIDE DEF g
<1>2. ASSUME NEW T \in SUBSET (D \union {k}), T # {}
      PROVE  \E c \in T : \A d \in T : g[c].rate >= g[d].rate
  <2>1. CASE T \ {k} = {}
    <3>1. T = {k}
      BY <1>2, <2>1
    <3> QED
      BY <1>1, <3>1, SubConfigTypes
  <2>2. CASE T \ {k} # {}
    <3>1. PICK c \in T \ {k} : \A d \in T \ {k} : f[c].rate >= f[d].rate
      BY <1>2, <2>2 DEF Extremes
    <3>2. \A d \in T \ {k} : g[d] = f[d] /\ g[d].rate \in Nat
      BY <1>1, <1>2, SubConfigTypes
    <3>3. v.rate \in Nat
      BY SubConfigTypes
    <3>4. CASE v.rate >= f[c].rate /\ k \in T
      BY <1>1, <3>1, <3>2, <3>3, <3>4
    <3>5. CASE ~(v.rate >= f[c].rate) \/ k \notin T
      BY <1>1, <3>1, <3>2, <3>3, <3>5
    <3> QED
      BY <3>4, <3>5
  <2> QED
    BY <2>1, <2>2
<1>3. ASSUME NEW T \in SUBSET (D \union {k}), T # {}
      PROVE  \E c \in T : \A d \in T : g[c].resolution <= g[d].resolution
  <2>1. CASE T \ {k} = {}
    <3>1. T = {k}
      BY <1>3, <2>1
    <3> QED
      BY <1>1, <3>1, SubConfigTypes
  <2>2. CASE T \ {k} # {}
    <3>1. PICK c \in T \ {k} : \A d \in T \ {k} : f[c].resolution <= f[d].resolution
      BY <1>3, <2>2 DEF Extremes
    <3>2. \A d \in T \ {k} : g[d] = f[d] /\ g[d].resolution \in Nat
      BY <1>1, <1>3, SubConfigTypes
    <3>3. v.resolution \in Nat
      BY SubConfigTypes
    <3>4. CASE v.resolution <= f[c].resolution /\ k \in T
      BY <1>1, <3>1, <3>2, <3>3, <3>4
    <3>5. CASE ~(v.resolution <= f[c].resolution) \/ k \notin T
      BY <1>1, <3>1, <3>2, <3>3, <3>5
    <3> QED
      BY <3>4, <3>5
  <2> QED
    BY <2>1, <2>2
<1>4. DOMAIN g = D \union {k}
  BY <1>1
<1> QED
  BY <1>1, <1>2, <1>3, <1>4 DEF Extremes, g

LEMMA RestrictExtremes ==
    ASSUME NEW D, NEW f \in [D -> SubConfigs], Extremes(f), NEW E \in SUBSET D
    PROVE  /\ Restrict(f, E) \in [E -> SubConfigs]
           /\ Extremes(Restrict(f, E))
BY DEF Extremes, Restrict

LEMMA MaxIs ==
    ASSUME NEW S \in SUBSET Nat, NEW m \in S, \A x \in S : m >= x
    PROVE  Max(S) = m
<1>1. Max(S) \in S /\ \A x \in S : Max(S) >= x
  BY DEF Max
<1>2. Max(S) >= m /\ m >= Max(S) /\ m \in Nat /\ Max(S) \in Nat
  BY <1>1
<1> QED
  BY <1>2

LEMMA MinIs ==
    ASSUME NEW S \in SUBSET Nat, NEW m \in S, \A x \in S : m <= x
    PROVE  Min(S) = m
<1>1. Min(S) \in S /\ \A x \in S : Min(S) <= x
  BY DEF Min
<1>2. Min(S) <= m /\ m <= Min(S) /\ m \in Nat /\ Min(S) \in Nat
  BY <1>1
<1> QED
  BY <1>2

\* What clients ask together serves them all; a rate of 0 means nobody asks.
LEMMA CombinedServes ==
    ASSUME NEW D, NEW f \in [D -> SubConfigs], Extremes(f), D # {}
    PROVE  /\ Serves(Combined(f), f)
           /\ Combined(f) \in CombinedConfigs
           /\ Combined(f).rate # 0
<1> DEFINE o == Combined(f)
<1>0. DOMAIN f = D
  OBVIOUS
<1>1. PICK a \in D : \A d \in D : f[a].rate >= f[d].rate
  BY DEF Extremes
<1>2. PICK b \in D : \A d \in D : f[b].resolution <= f[d].resolution
  BY DEF Extremes
<1>3. \A d \in D : /\ f[d].rate \in Nat /\ f[d].rate > 0 /\ f[d].resolution \in Nat
                   /\ f[d].resolution <= CoarsestResolution /\ f[d].vur \in BOOLEAN
  BY SubConfigTypes
<1>4. Max({0} \union {f[c].rate : c \in D}) = f[a].rate
  <2>1. /\ {0} \union {f[c].rate : c \in D} \in SUBSET Nat
        /\ f[a].rate \in {0} \union {f[c].rate : c \in D}
        /\ \A x \in {0} \union {f[c].rate : c \in D} : f[a].rate >= x
    BY <1>1, <1>3
  <2> QED
    BY <2>1, MaxIs
<1>5. Min({CoarsestResolution} \union {f[c].resolution : c \in D}) = f[b].resolution
  <2>1. /\ {CoarsestResolution} \union {f[c].resolution : c \in D} \in SUBSET Nat
        /\ f[b].resolution \in {CoarsestResolution} \union {f[c].resolution : c \in D}
        /\ \A x \in {CoarsestResolution} \union {f[c].resolution : c \in D} :
              f[b].resolution <= x
    BY <1>2, <1>3, SubscriptionAssumption
  <2> QED
    BY <2>1, MinIs
<1>6. /\ o.rate = f[a].rate /\ o.resolution = f[b].resolution
      /\ o.vur = (\A c \in D : f[c].vur)
      /\ o = [rate |-> o.rate, resolution |-> o.resolution, vur |-> o.vur]
  BY <1>0, <1>4, <1>5 DEF Combined
<1> HIDE DEF o
<1>7. Serves(o, f)
  <2>1. \A c \in D : /\ o.rate >= f[c].rate /\ o.resolution <= f[c].resolution
                     /\ o.vur => f[c].vur
    BY <1>1, <1>2, <1>6
  <2>2. /\ \E c \in D : o.rate = f[c].rate
        /\ \E c \in D : o.resolution = f[c].resolution
        /\ ~o.vur => \E c \in D : ~f[c].vur
    BY <1>6
  <2> QED
    BY <1>0, <2>1, <2>2 DEF Serves
<1>8. o \in CombinedConfigs /\ o.rate # 0
  <2>1. o.rate \in Nat /\ o.rate # 0 /\ o.resolution \in Nat
    BY <1>1, <1>2, <1>3, <1>6
  <2>2. o.vur \in BOOLEAN
    BY <1>6
  <2> QED
    BY <1>6, <2>1, <2>2 DEF CombinedConfigs
<1> QED
  BY <1>7, <1>8 DEF o

LEMMA NobodyAsks ==
    ASSUME NEW f \in [{} -> SubConfigs]
    PROVE  Combined(f).rate = 0
<1>1. {0} \union {f[c].rate : c \in DOMAIN f} = {0}
  OBVIOUS
<1>2. Max({0}) = 0
  BY MaxIs
<1> QED
  BY <1>1, <1>2 DEF Combined
-----------------------------------------------------------------------------
\* What an operation makes of the state of one property.
Shape(s) ==
    s = [clients |-> s.clients, config |-> s.config,
         hw |-> [rate |-> s.hw.rate, options |-> s.hw.options]]

LEMMA UpdateIs ==
    ASSUME NEW s, Shape(s), NEW new
    PROVE  /\ Shape(Update(s, new))
           /\ Update(s, new).clients = s.clients /\ Update(s, new).config = new
           /\ Update(s, new).hw.options =
                  IF new.combined = ConfigIn(s).combined THEN s.hw.options
                  ELSE IF new.combined.rate = 0 THEN None ELSE new.combined
<1>1. CASE new.combined = ConfigIn(s).combined
  <2>1. Update(s, new) = [s EXCEPT !.config = new]
    BY <1>1 DEF Update, Shape
  <2> QED
    BY <1>1, <2>1 DEF Shape
<1>2. CASE new.combined # ConfigIn(s).combined
  <2> DEFINE h == [rate    |-> RateAfter(s, new),
                   options |-> IF new.combined.rate = 0 THEN None ELSE new.combined]
  <2>1. Update(s, new) = [s EXCEPT !.config = new, !.hw = h]
    BY <1>2 DEF Update, Shape
  <2>2. h.options = (IF new.combined.rate = 0 THEN None ELSE new.combined)
        /\ h = [rate |-> h.rate, options |-> h.options]
    OBVIOUS
  <2> HIDE DEF h
  <2> QED
    BY <1>2, <2>1, <2>2 DEF Shape
<1> QED
  BY <1>1, <1>2

LEMMA UpdateFailsIs ==
    ASSUME NEW s, Shape(s), NEW new, NEW p, NEW f \in UpdateFails(p, s, new)
    PROVE  /\ Shape(f)
           /\ f.clients = s.clients /\ f.config = ConfigIn(s)
           /\ f.hw.options = s.hw.options
<1>1. PICK r \in {s.hw.rate, RateAfter(s, new)} :
          f = [s EXCEPT !.config = ConfigIn(s), !.hw.rate = r]
  BY DEF UpdateFails
<1> DEFINE h == [s.hw EXCEPT !.rate = r]
<1>2. h = [rate |-> r, options |-> s.hw.options]
  <2>1. s.hw = [rate |-> s.hw.rate, options |-> s.hw.options]
    BY DEF Shape
  <2> QED
    BY <2>1
<1>3. DOMAIN s = {"clients", "config", "hw"}
  BY DEF Shape
<1>4. f = [clients |-> s.clients, config |-> ConfigIn(s), hw |-> h]
  BY <1>1, <1>3
<1>5. h.options = s.hw.options /\ h = [rate |-> h.rate, options |-> h.options]
  BY <1>2
<1> HIDE DEF h
<1> QED
  BY <1>4, <1>5 DEF Shape

LEMMA ForgetIs ==
    ASSUME NEW s, Shape(s), NEW c
    PROVE  /\ Shape(Forget(c, s))
           /\ Forget(c, s).clients = Restrict(s.clients, DOMAIN s.clients \ {c})
           /\ Forget(c, s).config = IF Forget(c, s).clients = <<>> THEN None ELSE s.config
           /\ Forget(c, s).hw = s.hw
<1> DEFINE left == Restrict(s.clients, DOMAIN s.clients \ {c})
           config == IF left = <<>> THEN None ELSE s.config
<1>1. Forget(c, s) = [s EXCEPT !.clients = left, !.config = config]
  BY DEF Forget
<1>2. DOMAIN s = {"clients", "config", "hw"}
  BY DEF Shape
<1> HIDE DEF left, config
<1>3. Forget(c, s) = [clients |-> left, config |-> config, hw |-> s.hw]
  BY <1>1, <1>2
<1>4. s.hw = [rate |-> s.hw.rate, options |-> s.hw.options]
  BY DEF Shape
<1>5. Shape(Forget(c, s)) /\ Forget(c, s).clients = left /\ Forget(c, s).hw = s.hw
      /\ Forget(c, s).config = config
  BY <1>3, <1>4 DEF Shape
<1> QED
  BY <1>5 DEF left, config

LEMMA EmptyMap ==
    /\ \A f, S : f \in [{} -> S] => f = <<>>
    /\ \A S : <<>> \in [{} -> S]
    /\ DOMAIN <<>> = {}
OBVIOUS
-----------------------------------------------------------------------------
\* What holds of each property between calls.  A continuous property with
\* clients is configured for exactly these, and the hardware was told what
\* their options combine to; one without may have the entry a refused call made.
ContinuousHeld(byClient, config, options) ==
    /\ byClient \in Maps(Clients, Callbacks)
    /\ byClient = <<>> => options = None /\ config \in {None, DefaultConfig}
    /\ byClient # <<>> =>
           \E f \in [DOMAIN byClient -> SubConfigs] :
               Extremes(f) /\ config = Configured(f) /\ options = Combined(f)

\* An on-change property has no options of clients; an event makes an entry for
\* it all the same, and after that leaving takes the path of continuous ones.
OnChangeHeld(byClient, config, options) ==
    /\ byClient \in Maps(Clients, Callbacks) /\ IsFiniteSet(DOMAIN byClient)
    /\ byClient = <<>> => config = None /\ options = None
    /\ \/ config \in {None, DefaultConfig}
       \/ config = Configured(<<>>) /\ options = None

\* The last rate the hardware was told is the fastest anybody asks for.
RateHeld(s) == s.hw.rate = ConfigIn(s).combined.rate

Held(p, s) ==
    /\ Shape(s)
    /\ p \in Continuous => ContinuousHeld(s.clients, s.config, s.hw.options)
    /\ p \in Continuous \ Failing => RateHeld(s)
    /\ p \notin Continuous => OnChangeHeld(s.clients, s.config, s.hw.options)

HeldInv == DOMAIN configs = Props /\ \A p \in Props : Held(p, StateOf(p))

LEMMA MapFacts ==
    ASSUME NEW m \in Maps(Clients, Callbacks)
    PROVE  /\ DOMAIN m \subseteq Clients /\ m \in [DOMAIN m -> Callbacks]
           /\ m = <<>> <=> DOMAIN m = {}
           /\ \A c : Restrict(m, DOMAIN m \ {c}) \in Maps(Clients, Callbacks)
           /\ \A c : DOMAIN Restrict(m, DOMAIN m \ {c}) = DOMAIN m \ {c}
           /\ \A cb \in Callbacks : Put(m, ClientOf[cb], cb) \in Maps(Clients, Callbacks)
           /\ \A cb \in Callbacks : Put(m, ClientOf[cb], cb) # <<>>
<1>1. PICK D \in SUBSET Clients : m \in [D -> Callbacks]
  BY DEF Maps
<1>2. D = DOMAIN m
  BY <1>1
<1>3. m = <<>> <=> DOMAIN m = {}
  BY <1>1, EmptyMap
<1>4. ASSUME NEW c
      PROVE  /\ Restrict(m, DOMAIN m \ {c}) \in Maps(Clients, Callbacks)
             /\ DOMAIN Restrict(m, DOMAIN m \ {c}) = DOMAIN m \ {c}
  <2>1. Restrict(m, D \ {c}) \in [D \ {c} -> Callbacks]
    BY <1>1, <1>2 DEF Restrict
  <2> QED
    BY <1>2, <2>1 DEF Maps
<1>5. ASSUME NEW cb \in Callbacks
      PROVE  /\ Put(m, ClientOf[cb], cb) \in Maps(Clients, Callbacks)
             /\ Put(m, ClientOf[cb], cb) # <<>>
  <2>1. ClientOf[cb] \in Clients
    BY SubscriptionAssumption
  <2>2. Put(m, ClientOf[cb], cb) \in [D \union {ClientOf[cb]} -> Callbacks]
    BY <1>1, <1>2 DEF Put
  <2>3. DOMAIN Put(m, ClientOf[cb], cb) # {}
    BY <2>2
  <2>4. D \union {ClientOf[cb]} \in SUBSET Clients
    BY <2>1
  <2> QED
    BY <2>2, <2>3, <2>4, EmptyMap DEF Maps
<1> QED
  BY <1>1, <1>2, <1>3, <1>4, <1>5

\* Some client's options are a configuration, and no configuration is None.
LEMMA ConfiguredSome ==
    ASSUME NEW D \in SUBSET Clients, NEW f \in [D -> SubConfigs], Extremes(f)
    PROVE  /\ D # {} => /\ Configured(f) # None /\ Combined(f) # None
                        /\ Combined(f).rate # 0 /\ Serves(Combined(f), f)
           /\ D = {} => Combined(f).rate = 0
           /\ Configured(f).byClient = f /\ Configured(f).combined = Combined(f)
<1>1. CASE D # {}
  <2>1. Serves(Combined(f), f) /\ Combined(f) \in CombinedConfigs /\ Combined(f).rate # 0
    BY <1>1, CombinedServes
  <2>2. Configured(f) \in ContSubConfigs
    BY <2>1 DEF Configured, ContSubConfigs, Maps
  <2> QED
    BY <1>1, <2>1, <2>2, NoneAssumption DEF Configured
<1>2. CASE D = {}
  BY <1>2, NobodyAsks DEF Configured
<1> QED
  BY <1>1, <1>2

\* The entry that operator[] makes is a configuration.
LEMMA DefaultTyped == DefaultConfig \in ContSubConfigs
<1>1. DefaultConfig.combined \in CombinedConfigs
  BY SubscriptionAssumption DEF DefaultConfig, CombinedConfigs
<1>2. DefaultConfig.byClient \in Maps(Clients, SubConfigs)
  BY EmptyMap DEF DefaultConfig, Maps
<1> QED
  BY <1>1, <1>2 DEF DefaultConfig, ContSubConfigs

LEMMA NoneIsNoDefault == DefaultConfig # None /\ DefaultConfig.combined.rate = 0
                         /\ DefaultConfig.byClient = <<>>
BY DefaultTyped, NoneAssumption DEF DefaultConfig

LEMMA OptionsIn ==
    ASSUME NEW s, Shape(s), ContinuousHeld(s.clients, s.config, s.hw.options)
    PROVE  /\ DOMAIN s.clients \in SUBSET Clients
           /\ s.clients = <<>> <=> DOMAIN s.clients = {}
           /\ \E f \in [DOMAIN s.clients -> SubConfigs] :
                 /\ Extremes(f) /\ ConfigIn(s).byClient = f
                 /\ s.clients = <<>> => ConfigIn(s) = DefaultConfig /\ s.hw.options = None
                 /\ s.clients # <<>> => /\ s.config = Configured(f) /\ ConfigIn(s) = s.config
                                        /\ s.hw.options = Combined(f)
<1>1. DOMAIN s.clients \in SUBSET Clients /\ (s.clients = <<>> <=> DOMAIN s.clients = {})
  BY MapFacts DEF ContinuousHeld
<1>2. CASE s.clients = <<>>
  <2>1. ConfigIn(s) = DefaultConfig /\ s.hw.options = None
    BY <1>2 DEF ContinuousHeld, ConfigIn
  <2>2. <<>> \in [{} -> SubConfigs] /\ Extremes(<<>>)
    BY EmptyMap DEF Extremes
  <2> QED
    BY <1>1, <1>2, <2>1, <2>2, NoneIsNoDefault
<1>3. CASE s.clients # <<>>
  <2>1. PICK f \in [DOMAIN s.clients -> SubConfigs] :
            Extremes(f) /\ s.config = Configured(f) /\ s.hw.options = Combined(f)
    BY <1>3 DEF ContinuousHeld
  <2>2. s.config # None /\ Configured(f).byClient = f
    BY <1>1, <1>3, <2>1, ConfiguredSome
  <2> QED
    BY <1>1, <1>3, <2>1, <2>2 DEF ConfigIn
<1> QED
  BY <1>2, <1>3

\* A continuous property after its options became g, and after that was refused.
LEMMA ContinuousUpdated ==
    ASSUME NEW s, Shape(s), ContinuousHeld(s.clients, s.config, s.hw.options),
           NEW E \in SUBSET Clients, NEW g \in [E -> SubConfigs], Extremes(g)
    PROVE  /\ E # {} => Update(s, Configured(g)).hw.options = Combined(g)
           /\ E = {} => Update(s, Configured(g)).hw.options = None
<1>1. PICK f \in [DOMAIN s.clients -> SubConfigs] :
          /\ Extremes(f) /\ ConfigIn(s).byClient = f
          /\ s.clients = <<>> => ConfigIn(s) = DefaultConfig /\ s.hw.options = None
          /\ s.clients # <<>> => /\ s.config = Configured(f) /\ ConfigIn(s) = s.config
                                 /\ s.hw.options = Combined(f)
  BY OptionsIn
<1>2. DOMAIN s.clients \in SUBSET Clients /\ (s.clients = <<>> <=> DOMAIN s.clients = {})
  BY OptionsIn
<1>3. Update(s, Configured(g)).hw.options =
          IF Combined(g) = ConfigIn(s).combined THEN s.hw.options
          ELSE IF Combined(g).rate = 0 THEN None ELSE Combined(g)
  <2> DEFINE new == Configured(g)
  <2>1. new.combined = Combined(g)
    BY DEF Configured
  <2> HIDE DEF new
  <2>2. Update(s, new).hw.options =
            IF new.combined = ConfigIn(s).combined THEN s.hw.options
            ELSE IF new.combined.rate = 0 THEN None ELSE new.combined
    BY UpdateIs
  <2>3. Update(s, new).hw.options =
            IF Combined(g) = ConfigIn(s).combined THEN s.hw.options
            ELSE IF Combined(g).rate = 0 THEN None ELSE Combined(g)
    BY <2>1, <2>2
  <2> QED
    BY <2>3 DEF new
<1>4. CASE s.clients = <<>>
  BY <1>1, <1>3, <1>4, ConfiguredSome, NoneIsNoDefault
<1>5. CASE s.clients # <<>>
  <2>1. ConfigIn(s).combined = Combined(f) /\ Combined(f).rate # 0
    BY <1>1, <1>2, <1>5, ConfiguredSome
  <2> QED
    BY <1>1, <1>3, <1>5, <2>1, ConfiguredSome
<1> QED
  BY <1>4, <1>5

\* The rate follows the options, where updateSampleRate followed them before.
LEMMA UpdateRate ==
    ASSUME NEW s, Shape(s), RateHeld(s), NEW new
    PROVE  Update(s, new).hw.rate = new.combined.rate
<1>1. CASE new.combined = ConfigIn(s).combined
  <2>1. Update(s, new) = [s EXCEPT !.config = new]
    BY <1>1 DEF Update, Shape
  <2>2. Update(s, new).hw = s.hw
    BY <2>1 DEF Shape
  <2> QED
    BY <1>1, <2>2 DEF RateHeld
<1>2. CASE new.combined # ConfigIn(s).combined
  <2> DEFINE h == [rate    |-> RateAfter(s, new),
                   options |-> IF new.combined.rate = 0 THEN None ELSE new.combined]
  <2>1. Update(s, new) = [s EXCEPT !.config = new, !.hw = h]
    BY <1>2 DEF Update, Shape
  <2>2. h.rate = new.combined.rate
    BY DEF RateAfter, RateHeld
  <2> HIDE DEF h
  <2>3. Update(s, new).hw = h
    BY <2>1 DEF Shape
  <2> QED
    BY <2>2, <2>3
<1> QED
  BY <1>1, <1>2

LEMMA ContinuousRefused ==
    ASSUME NEW s, Shape(s), ContinuousHeld(s.clients, s.config, s.hw.options),
           NEW new, NEW p, NEW f \in UpdateFails(p, s, new)
    PROVE  /\ Shape(f) /\ ContinuousHeld(f.clients, f.config, f.hw.options)
           /\ p \in Failing
<1>0. p \in Failing
  BY DEF UpdateFails
<1>1. /\ Shape(f) /\ f.clients = s.clients /\ f.config = ConfigIn(s)
      /\ f.hw.options = s.hw.options
  BY UpdateFailsIs
<1>2. CASE s.clients = <<>>
  BY <1>0, <1>1, <1>2 DEF ContinuousHeld, ConfigIn
<1>3. CASE s.clients # <<>>
  <2>1. ConfigIn(s) = s.config
    BY <1>3, OptionsIn
  <2> QED
    BY <1>0, <1>1, <2>1
<1> QED
  BY <1>0, <1>1, <1>2, <1>3
-----------------------------------------------------------------------------
\* Each operation on one property keeps what holds of it.
LEMMA JoinContinuousHeld ==
    ASSUME NEW p \in Continuous, NEW s, Held(p, s),
           NEW cb \in Callbacks, NEW opt \in SubConfigs
    PROVE  /\ Held(p, JoinContinuous(cb, opt, s))
           /\ \A f \in UpdateFails(p, s, WithClient(cb, opt, s)) : Held(p, f)
<1>1. Shape(s) /\ ContinuousHeld(s.clients, s.config, s.hw.options)
  BY DEF Held
<1>2. \A f \in UpdateFails(p, s, WithClient(cb, opt, s)) : Held(p, f)
  BY <1>1, ContinuousRefused DEF Held
<1>3. PICK f \in [DOMAIN s.clients -> SubConfigs] :
          Extremes(f) /\ ConfigIn(s).byClient = f
  BY <1>1, OptionsIn
<1> DEFINE c == ClientOf[cb]
           E == DOMAIN s.clients \union {c}
           g == Put(f, c, opt)
           u == Update(s, Configured(g))
           t == [u EXCEPT !.clients = Put(u.clients, c, cb)]
<1>4. c \in Clients /\ DOMAIN s.clients \in SUBSET Clients
  BY <1>1, OptionsIn, SubscriptionAssumption
<1>5. g \in [E -> SubConfigs] /\ Extremes(g)
  BY <1>3, PutExtremes
<1>6. JoinContinuous(cb, opt, s) = t
  BY <1>3 DEF JoinContinuous, WithClient
<1>7. Shape(u) /\ u.clients = s.clients /\ u.config = Configured(g)
  BY <1>1, UpdateIs
<1>8. /\ u.hw.options = Combined(g)
      /\ Configured(g) # None /\ Configured(g).combined = Combined(g)
      /\ p \notin Failing => u.hw.rate = Combined(g).rate
  <2>1. E \in SUBSET Clients /\ E # {}
    BY <1>4
  <2>2. p \notin Failing => u.hw.rate = Configured(g).combined.rate
    BY <1>1, UpdateRate DEF Held
  <2> HIDE DEF E, g
  <2>3. Configured(g) # None /\ Configured(g).combined = Combined(g)
    BY <1>5, <2>1, ConfiguredSome
  <2>4. u.hw.options = Combined(g)
    BY <1>1, <1>5, <2>1, ContinuousUpdated
  <2> QED
    BY <2>2, <2>3, <2>4
<1> HIDE DEF g, u
<1>9. /\ Shape(t) /\ t.clients = Put(s.clients, c, cb)
      /\ t.config = Configured(g) /\ t.hw = u.hw
  BY <1>7 DEF Shape
<1>10. /\ t.clients \in Maps(Clients, Callbacks) /\ t.clients # <<>>
       /\ DOMAIN t.clients = E
  <2>1. s.clients \in Maps(Clients, Callbacks)
    BY <1>1 DEF ContinuousHeld
  <2>2. /\ Put(s.clients, c, cb) \in Maps(Clients, Callbacks)
        /\ Put(s.clients, c, cb) # <<>>
    BY <2>1, MapFacts
  <2>3. DOMAIN Put(s.clients, c, cb) = E
    BY PutKeys
  <2>4. t.clients = Put(s.clients, c, cb)
    BY <1>9
  <2> HIDE DEF t, E
  <2> QED
    BY <2>2, <2>3, <2>4
<1> HIDE DEF t
<1>11. ContinuousHeld(t.clients, t.config, t.hw.options)
  BY <1>5, <1>8, <1>9, <1>10 DEF ContinuousHeld
<1>12. p \notin Failing => RateHeld(t)
  BY <1>8, <1>9 DEF RateHeld, ConfigIn
<1> QED
  BY <1>2, <1>6, <1>9, <1>11, <1>12 DEF Held

LEMMA LeaveContinuousHeld ==
    ASSUME NEW p \in Continuous, NEW s, Held(p, s), NEW c \in Clients
    PROVE  /\ Held(p, Leave(c, s))
           /\ \A f \in LeaveFails(c, p, s) : Held(p, f)
<1>1. Shape(s) /\ ContinuousHeld(s.clients, s.config, s.hw.options)
  BY DEF Held
<1>2. CASE s.config = None
  <2>1. s.clients = <<>> /\ s.hw.options = None
    BY <1>1, <1>2, OptionsIn, ConfiguredSome DEF ContinuousHeld
  <2>2. ~LastClientIn(s)
    BY <2>1, EmptyMap, FS_EmptySet DEF LastClientIn
  <2>3. Leave(c, s) = Forget(c, s) /\ LeaveFails(c, p, s) = {}
    BY <1>2, <2>2 DEF Leave, LeaveFails
  <2>4. /\ Shape(Forget(c, s)) /\ Forget(c, s).hw = s.hw
        /\ Forget(c, s).clients = <<>> /\ Forget(c, s).config = None
    <3>1. <<>> \in Maps(Clients, Callbacks)
      BY <1>1, <2>1 DEF ContinuousHeld
    <3>2. Restrict(<<>>, DOMAIN <<>> \ {c}) = <<>>
      BY EmptyMap DEF Restrict
    <3> QED
      BY <1>1, <2>1, <3>2, ForgetIs
  <2>5. p \notin Failing => RateHeld(Forget(c, s))
    BY <1>2, <2>4 DEF Held, RateHeld, ConfigIn
  <2> QED
    BY <1>1, <2>1, <2>3, <2>4, <2>5 DEF Held, ContinuousHeld
<1>3. CASE s.config # None
  <2>1. PICK f \in [DOMAIN s.clients -> SubConfigs] :
            Extremes(f) /\ ConfigIn(s).byClient = f
    BY <1>1, OptionsIn
  <2> DEFINE E == DOMAIN s.clients \ {c}
             g == Restrict(f, E)
             u == Update(s, Configured(g))
             t == Forget(c, u)
  <2>2. E \in SUBSET Clients
    BY <1>1, OptionsIn
  <2>3. g \in [E -> SubConfigs] /\ Extremes(g)
    BY <2>1, RestrictExtremes
  <2>4. WithoutClient(c, s) = Configured(g)
    BY <2>1 DEF WithoutClient
  <2>5. Leave(c, s) = t /\ LeaveFails(c, p, s) = UpdateFails(p, s, Configured(g))
    BY <1>3, <2>4 DEF Leave, LeaveFails
  <2> HIDE DEF g
  <2>6. Shape(u) /\ u.clients = s.clients /\ u.config = Configured(g)
    BY <1>1, UpdateIs
  <2>7. /\ E # {} => u.hw.options = Combined(g)
        /\ E = {} => u.hw.options = None
    <3> HIDE DEF E
    <3> QED
      BY <1>1, <2>2, <2>3, ContinuousUpdated
  <2>12. p \notin Failing => u.hw.rate = Configured(g).combined.rate
    BY <1>1, UpdateRate DEF Held
  <2> HIDE DEF u
  <2>8. /\ Shape(t) /\ t.hw = u.hw
        /\ t.clients = Restrict(s.clients, E)
        /\ t.config = IF t.clients = <<>> THEN None ELSE Configured(g)
    BY <2>6, ForgetIs
  <2> HIDE DEF t
  <2>9. /\ t.clients \in Maps(Clients, Callbacks) /\ DOMAIN t.clients = E
        /\ t.clients = <<>> <=> E = {}
    <3>1. s.clients \in Maps(Clients, Callbacks)
      BY <1>1 DEF ContinuousHeld
    <3>2. t.clients \in Maps(Clients, Callbacks) /\ DOMAIN t.clients = E
      <4>1. /\ Restrict(s.clients, DOMAIN s.clients \ {c}) \in Maps(Clients, Callbacks)
            /\ DOMAIN Restrict(s.clients, DOMAIN s.clients \ {c}) = DOMAIN s.clients \ {c}
        BY <3>1, MapFacts
      <4> QED
        BY <2>8, <4>1
    <3> QED
      BY <3>2, MapFacts
  <2> HIDE DEF E
  <2>10. ContinuousHeld(t.clients, t.config, t.hw.options)
    BY <2>3, <2>7, <2>8, <2>9 DEF ContinuousHeld
  <2>11. \A h \in LeaveFails(c, p, s) : Held(p, h)
    BY <1>1, <2>5, ContinuousRefused DEF Held
  <2>13. p \notin Failing => RateHeld(t)
    <3>1. /\ Configured(g).combined = Combined(g)
          /\ E # {} => Configured(g) # None
          /\ E = {} => Combined(g).rate = 0
      BY <2>2, <2>3, ConfiguredSome
    <3> QED
      BY <2>8, <2>9, <2>12, <3>1, NoneIsNoDefault DEF RateHeld, ConfigIn
  <2> QED
    BY <2>5, <2>8, <2>10, <2>11, <2>13 DEF Held
<1> QED
  BY <1>2, <1>3

LEMMA JoinOnChangeHeld ==
    ASSUME NEW p \in Props \ Continuous, NEW s, Held(p, s), NEW cb \in Callbacks
    PROVE  /\ Held(p, JoinOnChange(cb, s))
           /\ \A f \in JoinOnChangeFails(p, s) : Held(p, f)
<1>1. Shape(s) /\ OnChangeHeld(s.clients, s.config, s.hw.options)
  BY DEF Held
<1>2. \A f \in JoinOnChangeFails(p, s) : Held(p, f)
  BY DEF JoinOnChangeFails
<1> DEFINE joined == Put(s.clients, ClientOf[cb], cb)
           told == IF s.clients = <<>> THEN OnChangeOptions ELSE s.hw.options
           t == [s EXCEPT !.clients = joined, !.hw.options = told]
<1>3. JoinOnChange(cb, s) = t
  BY DEF JoinOnChange
<1>4. s.clients \in Maps(Clients, Callbacks)
  BY <1>1 DEF OnChangeHeld
<1>5. joined \in Maps(Clients, Callbacks) /\ joined # <<>> /\ IsFiniteSet(DOMAIN joined)
  <2>1. joined \in Maps(Clients, Callbacks) /\ joined # <<>>
    BY <1>4, MapFacts
  <2>2. DOMAIN joined = DOMAIN s.clients \union {ClientOf[cb]}
    BY PutKeys
  <2>3. IsFiniteSet(DOMAIN s.clients \union {ClientOf[cb]})
    BY <1>1, FS_AddElement DEF OnChangeHeld
  <2> QED
    BY <2>1, <2>2, <2>3
<1>6. \/ s.config \in {None, DefaultConfig}
      \/ s.config = Configured(<<>>) /\ told = None
  BY <1>1 DEF OnChangeHeld
<1> HIDE DEF joined, told
<1>7. t = [clients |-> joined, config |-> s.config,
           hw |-> [rate |-> s.hw.rate, options |-> told]]
  <2> DEFINE h == [s.hw EXCEPT !.options = told]
  <2>1. s.hw = [rate |-> s.hw.rate, options |-> s.hw.options]
    BY <1>1 DEF Shape
  <2>2. h = [rate |-> s.hw.rate, options |-> told]
    BY <2>1
  <2>3. t = [s EXCEPT !.clients = joined, !.hw = h]
    OBVIOUS
  <2>4. DOMAIN s = {"clients", "config", "hw"}
    BY <1>1 DEF Shape
  <2> HIDE DEF h, t
  <2>5. t = [clients |-> joined, config |-> s.config, hw |-> h]
    BY <2>3, <2>4
  <2> QED
    BY <2>2, <2>5
<1> HIDE DEF t
<1>8. Shape(t) /\ t.clients = joined /\ t.config = s.config /\ t.hw.options = told
  BY <1>7 DEF Shape
<1>9. OnChangeHeld(t.clients, t.config, t.hw.options)
  BY <1>5, <1>6, <1>8 DEF OnChangeHeld
<1> QED
  BY <1>2, <1>3, <1>8, <1>9 DEF Held

\* An entry without options is not the combination of no options: the hardware
\* is told to stop when the first client leaves that path.
LEMMA OnChangeUpdated ==
    ASSUME NEW s, Shape(s), OnChangeHeld(s.clients, s.config, s.hw.options),
           s.config # None
    PROVE  Update(s, Configured(<<>>)).hw.options = None
<1> DEFINE new == Configured(<<>>)
<1>1. <<>> \in [{} -> SubConfigs]
  BY EmptyMap
<1>2. Combined(<<>>).rate = 0
  BY <1>1, NobodyAsks
<1>3. new.combined = Combined(<<>>)
  BY DEF Configured
<1>4. CASE s.config = DefaultConfig
  <2>1. ConfigIn(s).combined.vur = FALSE
    BY <1>4, NoneIsNoDefault DEF ConfigIn, DefaultConfig
  <2>2. Combined(<<>>).vur = TRUE
    BY EmptyMap DEF Combined
  <2>3. new.combined # ConfigIn(s).combined
    BY <1>3, <2>1, <2>2
  <2> HIDE DEF new
  <2>4. Update(s, new).hw.options = None
    BY <1>2, <1>3, <2>3, UpdateIs
  <2> QED
    BY <2>4 DEF new
<1>5. CASE s.config = new /\ s.hw.options = None
  <2> HIDE DEF new
  <2>1. Update(s, new).hw.options =
            IF new.combined = ConfigIn(s).combined THEN s.hw.options
            ELSE IF new.combined.rate = 0 THEN None ELSE new.combined
    BY UpdateIs
  <2>2. Update(s, new).hw.options = None
    BY <1>2, <1>3, <1>5, <2>1
  <2> QED
    BY <2>2 DEF new
<1> QED
  BY <1>4, <1>5 DEF OnChangeHeld

LEMMA LeaveOnChangeHeld ==
    ASSUME NEW p \in Props \ Continuous, NEW s, Held(p, s), NEW c \in Clients
    PROVE  /\ Held(p, Leave(c, s))
           /\ \A f \in LeaveFails(c, p, s) : Held(p, f)
<1>1. Shape(s) /\ OnChangeHeld(s.clients, s.config, s.hw.options)
  BY DEF Held
<1>2. s.clients \in Maps(Clients, Callbacks)
  BY <1>1 DEF OnChangeHeld
<1> DEFINE left == Restrict(s.clients, DOMAIN s.clients \ {c})
<1>3. /\ left \in Maps(Clients, Callbacks) /\ IsFiniteSet(DOMAIN left)
      /\ DOMAIN left = DOMAIN s.clients \ {c}
      /\ left = <<>> <=> DOMAIN left = {}
      /\ s.clients = <<>> <=> DOMAIN s.clients = {}
  <2>1. /\ left \in Maps(Clients, Callbacks)
        /\ DOMAIN left = DOMAIN s.clients \ {c}
        /\ s.clients = <<>> <=> DOMAIN s.clients = {}
    BY <1>2, MapFacts
  <2>2. IsFiniteSet(DOMAIN s.clients \ {c})
    BY <1>1, FS_RemoveElement DEF OnChangeHeld
  <2> HIDE DEF left
  <2> QED
    BY <2>1, <2>2, MapFacts
<1> HIDE DEF left
<1>4. ASSUME NEW t, Shape(t), t.clients = s.clients,
             \/ t.config \in {None, DefaultConfig}
             \/ t.config = Configured(<<>>) /\ t.hw.options = None,
             left = <<>> => t.hw.options = None
      PROVE  Held(p, Forget(c, t))
  <2> DEFINE u == Forget(c, t)
  <2>1. /\ Shape(u) /\ u.hw = t.hw /\ u.clients = left
        /\ u.config = IF left = <<>> THEN None ELSE t.config
    <3>1. /\ Shape(u) /\ u.hw = t.hw
          /\ u.clients = Restrict(t.clients, DOMAIN t.clients \ {c})
          /\ u.config = IF u.clients = <<>> THEN None ELSE t.config
      BY <1>4, ForgetIs
    <3>2. Restrict(t.clients, DOMAIN t.clients \ {c}) = left
      BY <1>4 DEF left
    <3> HIDE DEF u
    <3> QED
      BY <3>1, <3>2
  <2> HIDE DEF u
  <2>2. OnChangeHeld(u.clients, u.config, u.hw.options)
    BY <1>3, <1>4, <2>1 DEF OnChangeHeld
  <2> QED
    BY <2>1, <2>2 DEF Held, u
<1>5. CASE s.config = None
  <2>1. \A f \in LeaveFails(c, p, s) : f = s
    BY <1>5 DEF LeaveFails
  <2>2. CASE LastClientIn(s)
    <3> DEFINE h == [s.hw EXCEPT !.options = None]
               t == [s EXCEPT !.hw.options = None]
    <3>1. s.hw = [rate |-> s.hw.rate, options |-> s.hw.options]
      BY <1>1 DEF Shape
    <3>2. h = [rate |-> s.hw.rate, options |-> None]
      BY <3>1
    <3>3. DOMAIN s = {"clients", "config", "hw"}
      BY <1>1 DEF Shape
    <3>4. t = [s EXCEPT !.hw = h]
      OBVIOUS
    <3> HIDE DEF h
    <3>5. t = [clients |-> s.clients, config |-> s.config, hw |-> h]
      BY <3>3, <3>4
    <3>6. Leave(c, s) = Forget(c, t)
      BY <1>5, <2>2 DEF Leave
    <3> HIDE DEF t
    <3>7. Shape(t) /\ t.clients = s.clients /\ t.config = None /\ t.hw.options = None
      BY <1>5, <3>2, <3>5 DEF Shape
    <3>8. Held(p, Forget(c, t))
      BY <1>4, <3>7
    <3> QED
      BY <2>1, <3>6, <3>8
  <2>3. CASE ~LastClientIn(s)
    <3>1. DOMAIN s.clients # {c}
      BY <2>3, FS_Singleton DEF LastClientIn
    <3>2. left = <<>> => s.hw.options = None
      BY <1>1, <1>3, <3>1 DEF OnChangeHeld
    <3>3. Leave(c, s) = Forget(c, s)
      BY <1>5, <2>3 DEF Leave
    <3>4. Held(p, Forget(c, s))
      BY <1>1, <1>4, <1>5, <3>2
    <3> QED
      BY <2>1, <3>3, <3>4
  <2> QED
    BY <2>2, <2>3
<1>6. CASE s.config # None
  <2> DEFINE u == Update(s, Configured(<<>>))
  <2>1. ConfigIn(s).byClient = <<>> /\ ConfigIn(s) = s.config
    BY <1>1, <1>6, NoneIsNoDefault DEF OnChangeHeld, ConfigIn, Configured
  <2>2. WithoutClient(c, s) = Configured(<<>>)
    <3>1. Restrict(<<>>, DOMAIN <<>> \ {c}) = <<>>
      BY EmptyMap DEF Restrict
    <3> QED
      BY <2>1, <3>1 DEF WithoutClient
  <2>3. /\ Leave(c, s) = Forget(c, u)
        /\ LeaveFails(c, p, s) = UpdateFails(p, s, Configured(<<>>))
    BY <1>6, <2>2 DEF Leave, LeaveFails
  <2>4. /\ Shape(u) /\ u.clients = s.clients /\ u.config = Configured(<<>>)
        /\ u.hw.options = None
    BY <1>1, <1>6, UpdateIs, OnChangeUpdated
  <2> HIDE DEF u
  <2>5. Held(p, Forget(c, u))
    BY <1>4, <2>4
  <2>6. ASSUME NEW f \in UpdateFails(p, s, Configured(<<>>))
        PROVE  Held(p, f)
    <3>1. /\ Shape(f) /\ f.clients = s.clients /\ f.config = s.config
          /\ f.hw.options = s.hw.options
      BY <1>1, <2>1, UpdateFailsIs
    <3> QED
      BY <1>1, <3>1 DEF Held
  <2> QED
    BY <2>3, <2>5, <2>6
<1> QED
  BY <1>5, <1>6
-----------------------------------------------------------------------------
\* A walk whose every step keeps what holds of its property keeps all of it.
LEMMA WalkHeld ==
    ASSUME HeldInv, NEW ps \in SUBSET Props, NEW next, NEW failures,
           NEW walk \in Walks(ps, next, failures), Store(walk),
           \A p \in ps : Held(p, next[p]) /\ \A f \in failures[p] : Held(p, f)
    PROVE  HeldInv'
<1>1. ASSUME NEW p \in Props
      PROVE  Held(p, walk.state[p])
  <2>1. /\ walk.done \subseteq ps
        /\ \/ p \in walk.done /\ walk.state[p] = next[p]
           \/ p \in ps /\ p \notin walk.done /\ walk.state[p] \in failures[p]
           \/ p \notin walk.done /\ walk.state[p] = StateOf(p)
    BY WalkCases
  <2> QED
    BY <2>1 DEF HeldInv
<1>2. ASSUME NEW p \in Props
      PROVE  Held(p, StateOf(p))'
  <2>1. Shape(walk.state[p])
    BY <1>1 DEF Held
  <2>2. StateOf(p)' = [clients |-> walk.state[p].clients, config |-> walk.state[p].config,
                       hw |-> walk.state[p].hw]
    BY DEF Store, StateOf
  <2>3. StateOf(p)' = walk.state[p]
    BY <2>1, <2>2 DEF Shape
  <2> QED
    BY <1>1, <2>3 DEF Held, Shape
<1> QED
  BY <1>2 DEF HeldInv, Store

LEMMA LeavesHeld ==
    ASSUME HeldInv, NEW c \in Clients, NEW ps \in SUBSET Props,
           NEW walk \in LeaveWalks(c, ps), Store(walk)
    PROVE  HeldInv'
<1> DEFINE next == [r \in ps |-> Leave(c, StateOf(r))]
           failures == [r \in ps |-> LeaveFails(c, r, StateOf(r))]
<1>1. walk \in Walks(ps, next, failures)
  BY DEF LeaveWalks
<1>2. ASSUME NEW p \in ps
      PROVE  Held(p, next[p]) /\ \A f \in failures[p] : Held(p, f)
  <2>1. p \in Props /\ Held(p, StateOf(p))
    BY DEF HeldInv
  <2>2. /\ Held(p, Leave(c, StateOf(p)))
        /\ \A f \in LeaveFails(c, p, StateOf(p)) : Held(p, f)
    BY <2>1, LeaveContinuousHeld, LeaveOnChangeHeld
  <2> QED
    BY <2>2
<1> HIDE DEF next, failures
<1> QED
  BY <1>1, <1>2, WalkHeld

LEMMA HeldInductive ==
    ASSUME LeaveInv, HeldInv, [Next]_vars
    PROVE  HeldInv'
<1>1. ASSUME NEW cb \in Callbacks, NEW ps \in SUBSET Continuous,
             NEW opts \in [ps -> SubConfigs], SubscribeContinuous(cb, opts)
      PROVE  HeldInv'
  <2> DEFINE next == [p \in ps |-> JoinContinuous(cb, opts[p], StateOf(p))]
             failures == [p \in ps |->
                 UpdateFails(p, StateOf(p), WithClient(cb, opts[p], StateOf(p)))]
  <2>1. DOMAIN opts = ps
    OBVIOUS
  <2>2. ps \in SUBSET Props
    BY SubscriptionAssumption
  <2>3. PICK walk \in Walks(ps, next, failures) : Store(walk)
    BY <1>1, <2>1 DEF SubscribeContinuous, ContinuousWalks, Subscribed
  <2>4. ASSUME NEW p \in ps
        PROVE  Held(p, next[p]) /\ \A f \in failures[p] : Held(p, f)
    <3>1. p \in Continuous /\ Held(p, StateOf(p)) /\ opts[p] \in SubConfigs
      BY <2>2 DEF HeldInv
    <3>2. /\ Held(p, JoinContinuous(cb, opts[p], StateOf(p)))
          /\ \A f \in UpdateFails(p, StateOf(p), WithClient(cb, opts[p], StateOf(p))) :
                Held(p, f)
      BY <3>1, JoinContinuousHeld
    <3> QED
      BY <3>2
  <2> HIDE DEF next, failures
  <2> QED
    BY <2>2, <2>3, <2>4, WalkHeld
<1>2. ASSUME NEW cb \in Callbacks, NEW ps \in SUBSET (Props \ Continuous),
             SubscribeOnChange(cb, ps)
      PROVE  HeldInv'
  <2> DEFINE next == [p \in ps |-> JoinOnChange(cb, StateOf(p))]
             failures == [p \in ps |-> JoinOnChangeFails(p, StateOf(p))]
  <2>1. PICK walk \in Walks(ps, next, failures) : Store(walk)
    BY <1>2 DEF SubscribeOnChange, OnChangeWalks, Subscribed
  <2>2. ASSUME NEW p \in ps
        PROVE  Held(p, next[p]) /\ \A f \in failures[p] : Held(p, f)
    <3>1. p \in Props \ Continuous /\ Held(p, StateOf(p))
      BY DEF HeldInv
    <3>2. /\ Held(p, JoinOnChange(cb, StateOf(p)))
          /\ \A f \in JoinOnChangeFails(p, StateOf(p)) : Held(p, f)
      BY <3>1, JoinOnChangeHeld
    <3> QED
      BY <3>2
  <2> HIDE DEF next, failures
  <2> QED
    BY <2>1, <2>2, WalkHeld
<1>3. ASSUME NEW c \in Clients, NEW ps, UnsubscribeProps(c, ps)
      PROVE  HeldInv'
  <2>1. props[c] \intersect ps \in SUBSET Props
    BY DEF LeaveInv, PropsInv
  <2> QED
    BY <1>3, <2>1, LeavesHeld DEF UnsubscribeProps
<1>4. ASSUME NEW c \in Clients, UnsubscribeClient(c)
      PROVE  HeldInv'
  <2>1. props[c] \in SUBSET Props
    BY DEF LeaveInv, PropsInv
  <2> QED
    BY <1>4, <2>1, LeavesHeld DEF UnsubscribeClient
<1>5. CASE UNCHANGED subscriptionVars
  BY <1>5 DEF HeldInv, Held, RateHeld, ConfigIn, StateOf, subscriptionVars
<1>6. ASSUME NEW p \in Reported, NEW event, GetSubscribedClients(p, event)
      PROVE  HeldInv'
  <2>1. /\ clients' = clients /\ hw' = hw /\ clients[p] # <<>>
        /\ configs' = [configs EXCEPT ![p] = EntryOf(p)]
    BY <1>6 DEF GetSubscribedClients
  <2>2. ASSUME NEW q \in Props
        PROVE  Held(q, StateOf(q))'
    <3>1. Held(q, StateOf(q))
      BY DEF HeldInv
    <3>2. CASE q # p \/ configs[q] # None
      <4>1. configs'[q] = configs[q]
        BY <2>1, <3>2 DEF EntryOf
      <4> QED
        BY <2>1, <3>1, <4>1 DEF Held, RateHeld, ConfigIn, StateOf
    <3>3. CASE q = p /\ configs[q] = None
      <4>1. q \notin Continuous
        BY <2>1, <3>1, <3>3, ConfiguredSome, MapFacts DEF Held, ContinuousHeld, StateOf
      <4>2. Shape(StateOf(q)) /\ OnChangeHeld(clients[q], None, hw[q].options)
        BY <3>1, <3>3, <4>1 DEF Held, StateOf
      <4>3. configs'[q] = DefaultConfig
        BY <2>1, <3>3 DEF EntryOf, HeldInv
      <4>4. OnChangeHeld(clients'[q], configs'[q], hw'[q].options)
        BY <2>1, <3>3, <4>2, <4>3 DEF OnChangeHeld
      <4>5. Shape(StateOf(q))'
        BY <2>1, <4>2 DEF Shape, StateOf
      <4> QED
        BY <4>1, <4>4, <4>5 DEF Held, StateOf
    <3> QED
      BY <3>2, <3>3
  <2> QED
    BY <2>1, <2>2 DEF HeldInv
<1> QED
  BY <1>1, <1>2, <1>3, <1>4, <1>5, <1>6
     DEF Next, vars, SubscribeSupportedValueChange, UnsubscribeSupportedValueChange

LEMMA HeldInitially == Init => HeldInv
<1> SUFFICES ASSUME Init, NEW p \in Props
             PROVE  Held(p, StateOf(p))
  BY DEF HeldInv, Init
<1>1. StateOf(p) = [clients |-> <<>>, config |-> None,
                    hw |-> [rate |-> 0, options |-> None]]
  BY DEF Init, StateOf
<1>2. <<>> \in Maps(Clients, Callbacks) /\ IsFiniteSet(DOMAIN <<>>)
  BY EmptyMap, FS_EmptySet DEF Maps
<1>3. RateHeld(StateOf(p))
  BY <1>1, NoneIsNoDefault DEF RateHeld, ConfigIn
<1> QED
  BY <1>1, <1>2, <1>3 DEF Held, Shape, ContinuousHeld, OnChangeHeld

LEMMA HeldAlways == Spec => [](LeaveInv /\ HeldInv)
<1>1. Init => LeaveInv /\ HeldInv
  BY HeldInitially, EmptyMap
     DEF Init, LeaveInv, PropsInv, ClientsInv, EverySubscriberCanLeave
<1>2. LeaveInv /\ HeldInv /\ [Next]_vars => (LeaveInv /\ HeldInv)'
  BY LeaveInductive, HeldInductive
<1> QED
  BY <1>1, <1>2, PTL DEF Spec

\* The options the hardware accepted last for a continuous property are what its
\* clients ask together, and it was told to stop when the last one left, for any
\* clients, options and refusals on the way; the rate of the last updateSampleRate
\* is that of the options where no call for the property is refused
\* (updateContSubConfigsLocked).
THEOREM ContinuousOptionsServed == Spec => []ContinuousServed
<1>1. LeaveInv /\ HeldInv => ContinuousServed
  <2> SUFFICES ASSUME HeldInv, NEW p \in Continuous
               PROVE  /\ IF clients[p] = <<>> THEN hw[p].options = None
                         ELSE /\ configs[p] # None /\ hw[p].options # None
                              /\ DOMAIN configs[p].byClient = DOMAIN clients[p]
                              /\ Serves(hw[p].options, configs[p].byClient)
                      /\ \/ p \in Failing
                         \/ hw[p].rate = IF hw[p].options = None THEN 0
                                         ELSE hw[p].options.rate
    BY DEF ContinuousServed
  <2>1. ContinuousHeld(clients[p], configs[p], hw[p].options)
    BY SubscriptionAssumption DEF HeldInv, Held, StateOf
  <2>2. p \in Failing \/ hw[p].rate = EntryOf(p).combined.rate
    BY SubscriptionAssumption DEF HeldInv, Held, RateHeld, ConfigIn, EntryOf, StateOf
  <2>3. CASE clients[p] # <<>>
    <3>1. PICK f \in [DOMAIN clients[p] -> SubConfigs] :
              /\ Extremes(f) /\ configs[p] = Configured(f)
              /\ hw[p].options = Combined(f)
      BY <2>1, <2>3 DEF ContinuousHeld
    <3>2. DOMAIN clients[p] \in SUBSET Clients /\ DOMAIN clients[p] # {}
      BY <2>1, <2>3, MapFacts DEF ContinuousHeld
    <3>3. /\ Configured(f) # None /\ Combined(f) # None
          /\ Serves(Combined(f), f)
          /\ Configured(f).byClient = f /\ Configured(f).combined = Combined(f)
      BY <3>2, <3>1, ConfiguredSome
    <3> QED
      BY <2>2, <2>3, <3>1, <3>3 DEF EntryOf
  <2>4. CASE clients[p] = <<>>
    <3>1. EntryOf(p) = DefaultConfig /\ hw[p].options = None
      BY <2>1, <2>4 DEF ContinuousHeld, EntryOf
    <3> QED
      BY <2>2, <2>4, <3>1, NoneIsNoDefault
  <2> QED
    BY <2>3, <2>4
<1> QED
  BY <1>1, HeldAlways, PTL

\* The hardware is never left subscribed with no client to unsubscribe it,
\* whatever it refused, and also where an event made the entry of an on-change
\* property (unsubscribePropIdAreaIdLocked).
THEOREM NoOrphans == Spec => []NoOrphanSubscription
<1>1. LeaveInv /\ HeldInv => NoOrphanSubscription
  BY DEF HeldInv, Held, StateOf, ContinuousHeld, OnChangeHeld, NoOrphanSubscription
<1> QED
  BY <1>1, HeldAlways, PTL
-----------------------------------------------------------------------------
(* Types *)

\* Every client of a property is subscribed by a callback of its own, and the
\* rate and options the hardware was told are a rate and options.
Typed(s) ==
    /\ \A c \in DOMAIN s.clients : ClientOf[s.clients[c]] = c
    /\ s.hw.rate \in Nat
    /\ s.hw.options \in CombinedConfigs \union {None}

\* What clients ask together is typed, whoever asks.
LEMMA CombinedTyped ==
    ASSUME NEW D \in SUBSET Clients, NEW f \in [D -> SubConfigs], Extremes(f)
    PROVE  Configured(f) \in ContSubConfigs /\ Combined(f) \in CombinedConfigs
<1>1. Combined(f) \in CombinedConfigs
  <2>1. CASE D # {}
    BY <2>1, CombinedServes
  <2>2. CASE D = {}
    <3>1. {0} \union {f[c].rate : c \in DOMAIN f} = {0}
          /\ {CoarsestResolution} \union {f[c].resolution : c \in DOMAIN f}
                = {CoarsestResolution}
      BY <2>2
    <3>2. Max({0}) = 0 /\ Min({CoarsestResolution}) = CoarsestResolution
      BY MaxIs, MinIs, SubscriptionAssumption
    <3> DEFINE all == \A c \in DOMAIN f : f[c].vur
    <3>3. Combined(f) = [rate |-> 0, resolution |-> CoarsestResolution, vur |-> all]
      BY <3>1, <3>2 DEF Combined
    <3>4. all \in BOOLEAN
      OBVIOUS
    <3> HIDE DEF all
    <3> QED
      BY <3>3, <3>4, SubscriptionAssumption DEF CombinedConfigs
  <2> QED
    BY <2>1, <2>2
<1>2. f \in Maps(Clients, SubConfigs)
  BY DEF Maps
<1> QED
  BY <1>1, <1>2 DEF Configured, ContSubConfigs

\* What holds of a property gives the type of its configuration.
LEMMA ConfigTyped ==
    ASSUME NEW p \in Props, NEW s, Held(p, s)
    PROVE  s.config \in ContSubConfigs \union {None} /\ ConfigIn(s) \in ContSubConfigs
<1>1. s.config \in ContSubConfigs \union {None}
  <2>1. CASE p \in Continuous
    <3>1. ContinuousHeld(s.clients, s.config, s.hw.options)
      BY <2>1 DEF Held
    <3>2. CASE s.clients = <<>>
      BY <3>1, <3>2, DefaultTyped DEF ContinuousHeld
    <3>3. CASE s.clients # <<>>
      <4>1. PICK f \in [DOMAIN s.clients -> SubConfigs] :
                Extremes(f) /\ s.config = Configured(f)
        BY <3>1, <3>3 DEF ContinuousHeld
      <4>2. DOMAIN s.clients \in SUBSET Clients
        BY <3>1, MapFacts DEF ContinuousHeld
      <4> QED
        BY <4>1, <4>2, CombinedTyped
    <3> QED
      BY <3>2, <3>3
  <2>2. CASE p \notin Continuous
    <3>1. <<>> \in [{} -> SubConfigs] /\ Extremes(<<>>)
      BY EmptyMap DEF Extremes
    <3>2. Configured(<<>>) \in ContSubConfigs
      BY <3>1, CombinedTyped
    <3> QED
      BY <2>2, <3>2, DefaultTyped DEF Held, OnChangeHeld
  <2> QED
    BY <2>1, <2>2
<1> QED
  BY <1>1, DefaultTyped DEF ConfigIn

\* Telling the hardware combined options, or failing to, keeps the types.
LEMMA UpdateTyped ==
    ASSUME NEW s, Shape(s), Typed(s), NEW new, new.combined \in CombinedConfigs
    PROVE  /\ Typed(Update(s, new))
           /\ \A p : \A f \in UpdateFails(p, s, new) : Typed(f)
<1>1. RateAfter(s, new) \in Nat
  BY DEF RateAfter, Typed, CombinedConfigs
<1>2. Update(s, new).hw.rate \in {s.hw.rate, RateAfter(s, new)}
  <2>1. CASE new.combined = ConfigIn(s).combined
    <3>1. Update(s, new) = [s EXCEPT !.config = new]
      BY <2>1 DEF Update, Shape
    <3> QED
      BY <3>1 DEF Shape
  <2>2. CASE new.combined # ConfigIn(s).combined
    <3> DEFINE told == IF new.combined.rate = 0 THEN None ELSE new.combined
               h == [rate |-> RateAfter(s, new), options |-> told]
    <3>1. Update(s, new) = [s EXCEPT !.config = new, !.hw = h]
      BY <2>2 DEF Update, Shape
    <3>2. h.rate = RateAfter(s, new)
      OBVIOUS
    <3> HIDE DEF h
    <3> QED
      BY <3>1, <3>2 DEF Shape
  <2> QED
    BY <2>1, <2>2
<1>3. /\ Update(s, new).clients = s.clients
      /\ Update(s, new).hw.options \in {s.hw.options, None, new.combined}
  <2> DEFINE u == Update(s, new)
  <2>1. /\ u.clients = s.clients
        /\ u.hw.options = IF new.combined = ConfigIn(s).combined THEN s.hw.options
                          ELSE IF new.combined.rate = 0 THEN None ELSE new.combined
    BY UpdateIs
  <2> HIDE DEF u
  <2>2. u.hw.options \in {s.hw.options, None, new.combined}
    BY <2>1
  <2> QED
    BY <2>1, <2>2 DEF u
<1>4. Typed(Update(s, new))
  BY <1>1, <1>2, <1>3 DEF Typed
<1>5. ASSUME NEW p, NEW f \in UpdateFails(p, s, new)
      PROVE  Typed(f)
  <2>1. f.clients = s.clients /\ f.hw.options = s.hw.options
    BY UpdateFailsIs
  <2>2. f.hw.rate \in {s.hw.rate, RateAfter(s, new)}
    <3>1. PICK r \in {s.hw.rate, RateAfter(s, new)} :
              f = [s EXCEPT !.config = ConfigIn(s), !.hw.rate = r]
      BY DEF UpdateFails
    <3> DEFINE h == [s.hw EXCEPT !.rate = r]
    <3>2. h.rate = r
      BY DEF Shape
    <3>3. f = [s EXCEPT !.config = ConfigIn(s), !.hw = h]
      BY <3>1
    <3> HIDE DEF h
    <3>4. f.hw = h
      BY <3>3 DEF Shape
    <3> QED
      BY <3>2, <3>4
  <2> QED
    BY <1>1, <2>1, <2>2 DEF Typed
<1> QED
  BY <1>4, <1>5

\* A callback is entered under its own client.
LEMMA JoinedByOwn ==
    ASSUME NEW m, \A c \in DOMAIN m : ClientOf[m[c]] = c, NEW cb \in Callbacks
    PROVE  \A c \in DOMAIN Put(m, ClientOf[cb], cb) :
               ClientOf[Put(m, ClientOf[cb], cb)[c]] = c
BY DEF Put

\* Each operation on one property keeps its types.
LEMMA JoinContinuousTyped ==
    ASSUME NEW p \in Continuous, NEW s, Held(p, s), Typed(s),
           NEW cb \in Callbacks, NEW opt \in SubConfigs
    PROVE  /\ Typed(JoinContinuous(cb, opt, s))
           /\ \A f \in UpdateFails(p, s, WithClient(cb, opt, s)) : Typed(f)
<1>1. Shape(s) /\ ContinuousHeld(s.clients, s.config, s.hw.options)
  BY DEF Held
<1>2. PICK f \in [DOMAIN s.clients -> SubConfigs] :
          Extremes(f) /\ ConfigIn(s).byClient = f
  BY <1>1, OptionsIn
<1> DEFINE c == ClientOf[cb]
           E == DOMAIN s.clients \union {c}
           g == Put(f, c, opt)
           new == Configured(g)
           u == Update(s, new)
           t == [u EXCEPT !.clients = Put(u.clients, c, cb)]
<1>3. E \in SUBSET Clients
  BY <1>1, OptionsIn, SubscriptionAssumption
<1>4. g \in [E -> SubConfigs] /\ Extremes(g)
  BY <1>2, PutExtremes
<1>5. JoinContinuous(cb, opt, s) = t /\ WithClient(cb, opt, s) = new
  BY <1>2 DEF JoinContinuous, WithClient
<1> HIDE DEF E, g
<1>6. new.combined \in CombinedConfigs
  BY <1>3, <1>4, CombinedTyped DEF Configured
<1> HIDE DEF new
<1>7. Typed(u) /\ \A h \in UpdateFails(p, s, new) : Typed(h)
  BY <1>1, <1>6, UpdateTyped
<1>8. Shape(u) /\ u.clients = s.clients
  BY <1>1, UpdateIs
<1> HIDE DEF u
<1>9. t.clients = Put(s.clients, c, cb) /\ t.hw = u.hw
  BY <1>8 DEF Shape
<1> HIDE DEF t
<1>10. \A d \in DOMAIN Put(s.clients, c, cb) : ClientOf[Put(s.clients, c, cb)[d]] = d
  BY JoinedByOwn DEF Typed
<1>11. Typed(t)
  BY <1>7, <1>9, <1>10 DEF Typed
<1> QED
  BY <1>5, <1>7, <1>11

LEMMA JoinOnChangeTyped ==
    ASSUME NEW p \in Props \ Continuous, NEW s, Held(p, s), Typed(s), NEW cb \in Callbacks
    PROVE  /\ Typed(JoinOnChange(cb, s))
           /\ \A f \in JoinOnChangeFails(p, s) : Typed(f)
<1>1. Shape(s)
  BY DEF Held
<1> DEFINE joined == Put(s.clients, ClientOf[cb], cb)
           told == IF s.clients = <<>> THEN OnChangeOptions ELSE s.hw.options
           h == [s.hw EXCEPT !.options = told]
           t == [s EXCEPT !.clients = joined, !.hw = h]
<1>2. JoinOnChange(cb, s) = t
  BY DEF JoinOnChange
<1>3. told \in CombinedConfigs \union {None}
  BY DEF OnChangeOptions, CombinedConfigs, Typed
<1> HIDE DEF told
<1>4. h.options = told /\ h.rate = s.hw.rate
  BY <1>1 DEF Shape
<1>5. \A d \in DOMAIN joined : ClientOf[joined[d]] = d
  BY JoinedByOwn DEF Typed
<1> HIDE DEF joined, h
<1>6. t.clients = joined /\ t.hw = h
  BY <1>1 DEF Shape
<1>7. Typed(t)
  BY <1>3, <1>4, <1>5, <1>6 DEF Typed
<1> QED
  BY <1>2, <1>7 DEF JoinOnChangeFails

LEMMA ForgetTyped ==
    ASSUME NEW s, Shape(s), Typed(s), NEW c
    PROVE  Typed(Forget(c, s))
<1>1. /\ Forget(c, s).clients = Restrict(s.clients, DOMAIN s.clients \ {c})
      /\ Forget(c, s).hw = s.hw
  BY ForgetIs
<1>2. \A d \in DOMAIN Restrict(s.clients, DOMAIN s.clients \ {c}) :
          ClientOf[Restrict(s.clients, DOMAIN s.clients \ {c})[d]] = d
  BY DEF Restrict, Typed
<1> QED
  BY <1>1, <1>2 DEF Typed

LEMMA LeaveTyped ==
    ASSUME NEW p \in Props, NEW s, Held(p, s), Typed(s), NEW c \in Clients
    PROVE  /\ Typed(Leave(c, s))
           /\ \A f \in LeaveFails(c, p, s) : Typed(f)
<1>1. Shape(s)
  BY DEF Held
<1>2. CASE s.config # None
  <2> DEFINE new == WithoutClient(c, s)
             u == Update(s, new)
  <2>1. new.combined \in CombinedConfigs
    <3>1. PICK D \in SUBSET Clients : \E f \in [D -> SubConfigs] :
              Extremes(f) /\ ConfigIn(s).byClient = f
      <4>1. CASE p \in Continuous
        BY <4>1, OptionsIn DEF Held
      <4>2. CASE p \notin Continuous
        <5>1. ConfigIn(s).byClient = <<>>
          BY <1>2, <4>2, NoneIsNoDefault DEF Held, OnChangeHeld, ConfigIn, Configured
        <5>2. <<>> \in [{} -> SubConfigs] /\ Extremes(<<>>)
          BY EmptyMap DEF Extremes
        <5> QED
          BY <5>1, <5>2
      <4> QED
        BY <4>1, <4>2
    <3>2. PICK f \in [D -> SubConfigs] : Extremes(f) /\ ConfigIn(s).byClient = f
      BY <3>1
    <3> DEFINE g == Restrict(f, D \ {c})
    <3>3. g \in [D \ {c} -> SubConfigs] /\ Extremes(g)
      BY <3>2, RestrictExtremes
    <3>4. new = Configured(g)
      BY <3>2 DEF WithoutClient
    <3> HIDE DEF g, new
    <3>5. D \ {c} \in SUBSET Clients
      OBVIOUS
    <3>6. Combined(g) \in CombinedConfigs
      BY <3>3, <3>5, CombinedTyped
    <3> QED
      BY <3>4, <3>6 DEF Configured
  <2>2. Leave(c, s) = Forget(c, u) /\ LeaveFails(c, p, s) = UpdateFails(p, s, new)
    BY <1>2 DEF Leave, LeaveFails
  <2> HIDE DEF new
  <2>3. Typed(u) /\ \A f \in UpdateFails(p, s, new) : Typed(f)
    BY <1>1, <2>1, UpdateTyped
  <2>4. Shape(u)
    BY <1>1, UpdateIs
  <2> HIDE DEF u
  <2> QED
    BY <2>2, <2>3, <2>4, ForgetTyped
<1>3. CASE s.config = None
  <2> DEFINE h == [s.hw EXCEPT !.options = None]
             t == [s EXCEPT !.hw = h]
  <2>1. h = [rate |-> s.hw.rate, options |-> None]
    BY <1>1 DEF Shape
  <2>2. Leave(c, s) \in {Forget(c, t), Forget(c, s)}
    BY <1>3 DEF Leave
  <2> HIDE DEF h
  <2>3. t = [clients |-> s.clients, config |-> s.config, hw |-> h]
    <3>1. DOMAIN s = {"clients", "config", "hw"}
      BY <1>1 DEF Shape
    <3> QED
      BY <3>1
  <2> HIDE DEF t
  <2>4. Shape(t) /\ Typed(t)
    BY <2>1, <2>3 DEF Shape, Typed
  <2>5. Typed(Forget(c, t)) /\ Typed(Forget(c, s))
    BY <1>1, <2>4, ForgetTyped
  <2>6. \A f \in LeaveFails(c, p, s) : f = s
    BY <1>3 DEF LeaveFails
  <2> QED
    BY <2>2, <2>5, <2>6
<1> QED
  BY <1>2, <1>3
-----------------------------------------------------------------------------
ValuesInv ==
    \A cb \in Callbacks : \A p \in DOMAIN values[cb] :
        p \in Props /\ values[cb][p] \in [value : Nat, time : 1..MaxTime]

TypedInv ==
    /\ clients = [p \in Props |-> clients[p]]
    /\ configs = [p \in Props |-> configs[p]]
    /\ hw = [p \in Props |-> hw[p]]
    /\ \A p \in Props : Typed(StateOf(p))

\* A walk whose every step keeps the types of its property keeps all of them.
LEMMA WalkTyped ==
    ASSUME TypedInv, NEW ps \in SUBSET Props, NEW next, NEW failures,
           NEW walk \in Walks(ps, next, failures), Store(walk),
           \A p \in ps : Typed(next[p]) /\ \A f \in failures[p] : Typed(f)
    PROVE  TypedInv'
<1>1. ASSUME NEW p \in Props
      PROVE  Typed(walk.state[p])
  <2>1. /\ walk.done \subseteq ps
        /\ \/ p \in walk.done /\ walk.state[p] = next[p]
           \/ p \in ps /\ p \notin walk.done /\ walk.state[p] \in failures[p]
           \/ p \notin walk.done /\ walk.state[p] = StateOf(p)
    BY WalkCases
  <2> QED
    BY <2>1 DEF TypedInv
<1>2. ASSUME NEW p \in Props
      PROVE  Typed(StateOf(p))'
  <2>1. /\ clients'[p] = walk.state[p].clients
        /\ hw'[p] = walk.state[p].hw
    BY DEF Store
  <2> QED
    BY <1>1, <2>1 DEF StateOf, Typed
<1>3. /\ clients' = [p \in Props |-> clients'[p]]
      /\ configs' = [p \in Props |-> configs'[p]]
      /\ hw' = [p \in Props |-> hw'[p]]
  BY DEF Store
<1> QED
  BY <1>2, <1>3 DEF TypedInv

LEMMA LeavesTyped ==
    ASSUME HeldInv, TypedInv, NEW c \in Clients, NEW ps \in SUBSET Props,
           NEW walk \in LeaveWalks(c, ps), Store(walk)
    PROVE  TypedInv'
<1> DEFINE next == [r \in ps |-> Leave(c, StateOf(r))]
           failures == [r \in ps |-> LeaveFails(c, r, StateOf(r))]
<1>1. walk \in Walks(ps, next, failures)
  BY DEF LeaveWalks
<1>2. ASSUME NEW p \in ps
      PROVE  Typed(next[p]) /\ \A f \in failures[p] : Typed(f)
  <2>1. p \in Props /\ Held(p, StateOf(p)) /\ Typed(StateOf(p))
    BY DEF HeldInv, TypedInv
  <2>2. /\ Typed(Leave(c, StateOf(p)))
        /\ \A f \in LeaveFails(c, p, StateOf(p)) : Typed(f)
    BY <2>1, LeaveTyped
  <2> QED
    BY <2>2
<1> HIDE DEF next, failures
<1> QED
  BY <1>1, <1>2, WalkTyped

\* Every call keeps the types of all properties.
LEMMA TypedInductive ==
    ASSUME LeaveInv, HeldInv, TypedInv, [Next]_vars
    PROVE  TypedInv'
<1>1. ASSUME NEW cb \in Callbacks, NEW ps \in SUBSET Continuous,
             NEW opts \in [ps -> SubConfigs], SubscribeContinuous(cb, opts)
      PROVE  TypedInv'
  <2> DEFINE next == [p \in ps |-> JoinContinuous(cb, opts[p], StateOf(p))]
             failures == [p \in ps |->
                 UpdateFails(p, StateOf(p), WithClient(cb, opts[p], StateOf(p)))]
  <2>1. DOMAIN opts = ps
    OBVIOUS
  <2>2. ps \in SUBSET Props
    BY SubscriptionAssumption
  <2>3. PICK walk \in Walks(ps, next, failures) : Store(walk)
    BY <1>1, <2>1 DEF SubscribeContinuous, ContinuousWalks, Subscribed
  <2>4. ASSUME NEW p \in ps
        PROVE  Typed(next[p]) /\ \A f \in failures[p] : Typed(f)
    <3>1. /\ p \in Continuous /\ Held(p, StateOf(p)) /\ Typed(StateOf(p))
          /\ opts[p] \in SubConfigs
      BY <2>2 DEF HeldInv, TypedInv
    <3>2. /\ Typed(JoinContinuous(cb, opts[p], StateOf(p)))
          /\ \A f \in UpdateFails(p, StateOf(p), WithClient(cb, opts[p], StateOf(p))) :
                Typed(f)
      BY <3>1, JoinContinuousTyped
    <3> QED
      BY <3>2
  <2> HIDE DEF next, failures
  <2> QED
    BY <2>2, <2>3, <2>4, WalkTyped
<1>2. ASSUME NEW cb \in Callbacks, NEW ps \in SUBSET (Props \ Continuous),
             SubscribeOnChange(cb, ps)
      PROVE  TypedInv'
  <2> DEFINE next == [p \in ps |-> JoinOnChange(cb, StateOf(p))]
             failures == [p \in ps |-> JoinOnChangeFails(p, StateOf(p))]
  <2>1. PICK walk \in Walks(ps, next, failures) : Store(walk)
    BY <1>2 DEF SubscribeOnChange, OnChangeWalks, Subscribed
  <2>2. ASSUME NEW p \in ps
        PROVE  Typed(next[p]) /\ \A f \in failures[p] : Typed(f)
    <3>1. p \in Props \ Continuous /\ Held(p, StateOf(p)) /\ Typed(StateOf(p))
      BY DEF HeldInv, TypedInv
    <3>2. /\ Typed(JoinOnChange(cb, StateOf(p)))
          /\ \A f \in JoinOnChangeFails(p, StateOf(p)) : Typed(f)
      BY <3>1, JoinOnChangeTyped
    <3> QED
      BY <3>2
  <2> HIDE DEF next, failures
  <2> QED
    BY <2>1, <2>2, WalkTyped
<1>3. ASSUME NEW c \in Clients, NEW ps, UnsubscribeProps(c, ps)
      PROVE  TypedInv'
  <2>1. props[c] \intersect ps \in SUBSET Props
    BY DEF LeaveInv, PropsInv
  <2> QED
    BY <1>3, <2>1, LeavesTyped DEF UnsubscribeProps
<1>4. ASSUME NEW c \in Clients, UnsubscribeClient(c)
      PROVE  TypedInv'
  <2>1. props[c] \in SUBSET Props
    BY DEF LeaveInv, PropsInv
  <2> QED
    BY <1>4, <2>1, LeavesTyped DEF UnsubscribeClient
<1>5. CASE UNCHANGED subscriptionVars
  BY <1>5 DEF TypedInv, Typed, StateOf, subscriptionVars
<1>6. ASSUME NEW p \in Reported, NEW event, GetSubscribedClients(p, event)
      PROVE  TypedInv'
  BY <1>6 DEF GetSubscribedClients, TypedInv, Typed, StateOf
<1> QED
  BY <1>1, <1>2, <1>3, <1>4, <1>5, <1>6
     DEF Next, vars, SubscribeSupportedValueChange, UnsubscribeSupportedValueChange

\* Rounding to a multiple of the resolution leaves a natural number.
LEMMA SanitizedTyped ==
    ASSUME NEW v \in Nat, NEW resolution \in Nat
    PROVE  Sanitized(v, resolution) \in Nat
<1>1. CASE resolution # 0
  <2>1. \A a \in Nat, b \in Nat \ {0} : a \div b \in Nat
    OBVIOUS
  <2>2. \A a, b \in Nat : a * b \in Nat
    OBVIOUS
  <2>3. 2 * v + resolution \in Nat /\ 2 * resolution \in Nat \ {0}
    BY <1>1
  <2>4. (2 * v + resolution) \div (2 * resolution) \in Nat
    BY <2>1, <2>3
  <2> QED
    BY <1>1, <2>2, <2>4 DEF Sanitized
<1> QED
  BY <1>1 DEF Sanitized

\* So does what getSubscribedClients stores of an event.
LEMMA ValueForTyped ==
    ASSUME HeldInv, NEW p \in Props, NEW c, NEW event \in Events
    PROVE  ValueFor(c, p, event) \in [value : Nat, time : 1..MaxTime]
<1>1. EntryOf(p) \in ContSubConfigs
  <2>1. ConfigIn(StateOf(p)) \in ContSubConfigs
    BY ConfigTyped DEF HeldInv
  <2> QED
    BY <2>1 DEF EntryOf, ConfigIn, StateOf
<1>2. ResolutionFor(c, p) \in Nat
  <2> DEFINE m == EntryOf(p).byClient
  <2>1. m \in Maps(Clients, SubConfigs)
    BY <1>1 DEF ContSubConfigs
  <2>2. ASSUME c \in DOMAIN m
        PROVE  m[c] \in SubConfigs
    BY <2>1, <2>2 DEF Maps
  <2> HIDE DEF m
  <2>3. ResolutionFor(c, p) = IF c \in DOMAIN m THEN m[c].resolution ELSE 0
    BY DEF ResolutionFor, m
  <2> QED
    BY <2>2, <2>3, SubConfigTypes
<1>3. event.value \in Nat /\ event.time \in 1..MaxTime
      /\ event = [value |-> event.value, time |-> event.time]
  BY SubscriptionAssumption DEF Events
<1>4. Sanitized(event.value, ResolutionFor(c, p)) \in Nat
  BY <1>2, <1>3, SanitizedTyped
<1>5. ValueFor(c, p, event) =
          [value |-> Sanitized(event.value, ResolutionFor(c, p)), time |-> event.time]
  BY <1>3 DEF ValueFor
<1> QED
  BY <1>3, <1>4, <1>5

\* The stored values are typed events of properties.
LEMMA ValuesInductive ==
    ASSUME HeldInv, ValuesInv, [Next]_vars
    PROVE  ValuesInv'
<1>1. CASE UNCHANGED values
  BY <1>1 DEF ValuesInv
<1>2. ASSUME NEW p \in Reported, NEW event \in Events, GetSubscribedClients(p, event)
      PROVE  ValuesInv'
  <2>1. p \in Props
    BY SubscriptionAssumption
  <2>2. ASSUME NEW cb \in Callbacks, NEW q \in DOMAIN values'[cb]
        PROVE  q \in Props /\ values'[cb][q] \in [value : Nat, time : 1..MaxTime]
    <3> DEFINE v == ValueFor(ClientOf[cb], p, event)
    <3>1. v \in [value : Nat, time : 1..MaxTime]
      BY <2>1, ValueForTyped
    <3>2. values'[cb] \in {values[cb], Put(values[cb], p, v)}
      BY <1>2 DEF GetSubscribedClients, Insert
    <3> HIDE DEF v
    <3>3. CASE values'[cb] = values[cb]
      BY <2>2, <3>3 DEF ValuesInv
    <3>4. CASE values'[cb] = Put(values[cb], p, v)
      <4>1. CASE q = p
        BY <2>1, <2>2, <3>1, <3>4, <4>1 DEF Put
      <4>2. CASE q # p
        BY <2>2, <3>4, <4>2 DEF Put, ValuesInv
      <4> QED
        BY <4>1, <4>2
    <3> QED
      BY <3>2, <3>3, <3>4
  <2> QED
    BY <2>2 DEF ValuesInv
<1> QED
  BY <1>1, <1>2 DEF Next, vars, eventVars, SubscribeContinuous, SubscribeOnChange, Subscribed,
     UnsubscribeProps, UnsubscribeClient, SubscribeSupportedValueChange,
     UnsubscribeSupportedValueChange

LEMMA TypesInitially == Init => TypedInv /\ ValuesInv
<1> SUFFICES ASSUME Init
             PROVE  TypedInv /\ ValuesInv
  OBVIOUS
<1>1. ASSUME NEW p \in Props
      PROVE  Typed(StateOf(p))
  BY EmptyMap DEF Init, Typed, StateOf
<1>2. ValuesInv
  BY EmptyMap DEF Init, ValuesInv
<1> QED
  BY <1>1, <1>2 DEF Init, TypedInv

\* The type invariant.
THEOREM TypeCorrect == Spec => []TypeOK
<1>1. LeaveInv /\ HeldInv /\ TypedInv /\ ValuesInv /\ SupportedInv => TypeOK
  <2> SUFFICES ASSUME LeaveInv, HeldInv, TypedInv, ValuesInv, SupportedInv
               PROVE  TypeOK
    OBVIOUS
  <2>1. ASSUME NEW p \in Props
        PROVE  /\ clients[p] \in Maps(Clients, Callbacks)
               /\ \A c \in DOMAIN clients[p] : ClientOf[clients[p][c]] = c
               /\ configs[p] \in ContSubConfigs \union {None}
               /\ hw[p] \in [rate : Nat, options : CombinedConfigs \union {None}]
    <3>1. Held(p, StateOf(p)) /\ Typed(StateOf(p))
      BY DEF HeldInv, TypedInv
    <3>2. clients[p] \in Maps(Clients, Callbacks)
      BY <3>1 DEF Held, ContinuousHeld, OnChangeHeld, StateOf
    <3>3. configs[p] \in ContSubConfigs \union {None}
      BY <3>1, ConfigTyped DEF StateOf
    <3>4. /\ hw[p] = [rate |-> hw[p].rate, options |-> hw[p].options]
          /\ hw[p].rate \in Nat /\ hw[p].options \in CombinedConfigs \union {None}
          /\ \A c \in DOMAIN clients[p] : ClientOf[clients[p][c]] = c
      BY <3>1 DEF Held, Shape, Typed, StateOf
    <3> QED
      BY <3>2, <3>3, <3>4
  <2>2. /\ clients \in [Props -> Maps(Clients, Callbacks)]
        /\ configs \in [Props -> ContSubConfigs \union {None}]
    BY <2>1 DEF TypedInv
  <2>3. hw \in [Props -> [rate : Nat, options : CombinedConfigs \union {None}]]
    BY <2>1 DEF TypedInv
  <2>4. hwSupported \subseteq SupportedValueProps
    BY DEF SupportedInv, SupportedValuesServed
  <2> QED
    BY <2>1, <2>2, <2>3, <2>4 DEF TypeOK, LeaveInv, PropsInv, ValuesInv, SupportedInv
<1>2. Init => /\ LeaveInv /\ HeldInv /\ TypedInv /\ ValuesInv /\ SupportedInv
  BY HeldInitially, TypesInitially, EmptyMap
     DEF Init, LeaveInv, PropsInv, ClientsInv, EverySubscriberCanLeave,
         SupportedInv, SupportedValuesServed
<1>3. /\ LeaveInv /\ HeldInv /\ TypedInv /\ ValuesInv /\ SupportedInv /\ [Next]_vars
      => (LeaveInv /\ HeldInv /\ TypedInv /\ ValuesInv /\ SupportedInv)'
  BY LeaveInductive, HeldInductive, TypedInductive, ValuesInductive, SupportedInductive
<1> QED
  BY <1>1, <1>2, <1>3, PTL DEF Spec
-----------------------------------------------------------------------------
(* What ends the hardware's subscription of an on-change property           *)

\* Joining does not, nor a refusal.
LEMMA JoiningSubscribes ==
    ASSUME NEW p, NEW s, Shape(s), s.hw.options # None, NEW cb
    PROVE  /\ JoinOnChange(cb, s).hw.options # None
           /\ \A f \in JoinOnChangeFails(p, s) : f = s
<1> DEFINE told == IF s.clients = <<>> THEN OnChangeOptions ELSE s.hw.options
           joined == Put(s.clients, ClientOf[cb], cb)
<1>1. told # None
  <2>1. OnChangeOptions \in CombinedConfigs
    BY DEF OnChangeOptions, CombinedConfigs
  <2> QED
    BY <2>1, NoneAssumption
<1>2. JoinOnChange(cb, s) = [s EXCEPT !.clients = joined, !.hw.options = told]
  BY DEF JoinOnChange
<1> HIDE DEF told, joined
<1>3. JoinOnChange(cb, s).hw.options = told
  BY <1>2 DEF Shape
<1>4. \A f \in JoinOnChangeFails(p, s) : f = s
  BY DEF JoinOnChangeFails
<1> QED
  BY <1>1, <1>3, <1>4

\* A client that leaves does so only as the last one, unless an event made a
\* configuration entry or the client has left before.
LEMMA LastClientEnds ==
    ASSUME NEW p \in Props \ Continuous, NEW s, Held(p, s), s.config = None,
           s.hw.options # None, NEW c \in DOMAIN s.clients
    PROVE  /\ Leave(c, s).hw.options = None => Leave(c, s).clients = <<>>
           /\ \A f \in LeaveFails(c, p, s) : f = s
<1>1. Shape(s) /\ OnChangeHeld(s.clients, s.config, s.hw.options)
  BY DEF Held
<1>2. \A f \in LeaveFails(c, p, s) : f = s
  BY DEF LeaveFails
<1>3. CASE ~LastClientIn(s)
  <2>1. Leave(c, s) = Forget(c, s)
    BY <1>3 DEF Leave
  <2>2. Forget(c, s).hw = s.hw
    BY <1>1, ForgetIs
  <2> QED
    BY <1>2, <2>1, <2>2
<1>4. CASE LastClientIn(s)
  <2> DEFINE h == [s.hw EXCEPT !.options = None]
             t == [s EXCEPT !.hw = h]
             left == Restrict(s.clients, DOMAIN s.clients \ {c})
  <2>1. h = [rate |-> s.hw.rate, options |-> None]
    BY <1>1 DEF Shape
  <2>2. Leave(c, s) = Forget(c, t)
    BY <1>4 DEF Leave
  <2> HIDE DEF h
  <2>3. t = [clients |-> s.clients, config |-> s.config, hw |-> h]
    BY <1>1 DEF Shape
  <2> HIDE DEF t
  <2>4. Shape(t) /\ t.clients = s.clients
    <3>1. h.rate = s.hw.rate /\ h.options = None
      BY <2>1
    <3> QED
      BY <2>1, <2>3, <3>1 DEF Shape
  <2>5. Forget(c, t).clients = left
    <3>1. Forget(c, t).clients = Restrict(t.clients, DOMAIN t.clients \ {c})
      BY <2>4, ForgetIs
    <3> QED
      BY <2>4, <3>1
  <2>6. DOMAIN s.clients = {c}
    BY <1>1, <1>4, FS_Singleton DEF LastClientIn, OnChangeHeld
  <2>7. left = <<>>
    <3>1. left \in Maps(Clients, Callbacks) /\ DOMAIN left = DOMAIN s.clients \ {c}
      BY <1>1, MapFacts DEF OnChangeHeld
    <3> HIDE DEF left
    <3> QED
      BY <2>6, <3>1, MapFacts
  <2> QED
    BY <1>2, <2>2, <2>5, <2>7
<1> QED
  BY <1>3, <1>4

\* A walk over other properties leaves this one as it is.
LEMMA WalkElsewhere ==
    ASSUME NEW ps \in SUBSET Props, NEW next, NEW failures,
           NEW walk \in Walks(ps, next, failures), Store(walk), NEW p \in Props \ ps
    PROVE  hw'[p] = hw[p] /\ clients'[p] = clients[p]
<1>1. walk.state[p] = StateOf(p)
  BY WalkCases
<1> QED
  BY <1>1 DEF Store, StateOf

LEMMA JoinsEndNothing ==
    ASSUME HeldInv, NEW cb \in Callbacks, NEW ps \in SUBSET Props,
           NEW walk \in OnChangeWalks(cb, ps), Store(walk),
           NEW p \in Props, hw[p].options # None
    PROVE  hw'[p].options # None
<1> DEFINE next == [q \in ps |-> JoinOnChange(cb, StateOf(q))]
           failures == [q \in ps |-> JoinOnChangeFails(q, StateOf(q))]
<1>1. walk \in Walks(ps, next, failures)
  BY DEF OnChangeWalks
<1>2. Shape(StateOf(p)) /\ StateOf(p).hw = hw[p]
  BY DEF HeldInv, Held, StateOf
<1>3. p \in ps => /\ next[p].hw.options # None
                 /\ \A f \in failures[p] : f = StateOf(p)
  BY <1>2, JoiningSubscribes
<1> HIDE DEF next, failures
<1>4. /\ walk.done \subseteq ps
      /\ \/ p \in walk.done /\ walk.state[p] = next[p]
         \/ p \in ps /\ p \notin walk.done /\ walk.state[p] \in failures[p]
         \/ p \notin walk.done /\ walk.state[p] = StateOf(p)
  BY <1>1, WalkCases
<1>5. hw'[p] = walk.state[p].hw
  BY DEF Store
<1> QED
  BY <1>2, <1>3, <1>4, <1>5

LEMMA LeavesEndForCause ==
    ASSUME HeldInv, NEW c \in Clients, NEW ps \in SUBSET Props, ps \subseteq props[c],
           NEW walk \in LeaveWalks(c, ps), Store(walk), NEW p \in Props \ Continuous,
           hw[p].options # None, hw'[p].options = None, clients'[p] # <<>>,
           configs[p] = None
    PROVE  LeavesAgain(c, p)
<1> DEFINE next == [r \in ps |-> Leave(c, StateOf(r))]
           failures == [r \in ps |-> LeaveFails(c, r, StateOf(r))]
           s == StateOf(p)
<1>1. walk \in Walks(ps, next, failures)
  BY DEF LeaveWalks
<1>2. p \in ps
  <2> HIDE DEF next, failures
  <2> QED
    BY <1>1, WalkElsewhere
<1>3. /\ Held(p, s) /\ s.config = None /\ s.hw.options # None
      /\ s.clients = clients[p] /\ s.hw = hw[p]
  BY DEF HeldInv, StateOf
<1>4. /\ next[p] = Leave(c, s) /\ failures[p] = LeaveFails(c, p, s)
  BY <1>2
<1> HIDE DEF next, failures, s
<1>5. /\ hw'[p] = walk.state[p].hw /\ clients'[p] = walk.state[p].clients
      /\ \/ walk.state[p] = next[p]
         \/ walk.state[p] \in failures[p]
         \/ walk.state[p] = StateOf(p)
  BY <1>1, WalkCases DEF Store
<1>6. CASE c \in DOMAIN s.clients
  <2>1. /\ Leave(c, s).hw.options = None => Leave(c, s).clients = <<>>
        /\ \A f \in LeaveFails(c, p, s) : f = s
    BY <1>3, <1>6, LastClientEnds
  <2> QED
    BY <1>3, <1>4, <1>5, <2>1 DEF s
<1> QED
  BY <1>2, <1>3, <1>6 DEF LeavesAgain

\* No call ends the hardware's subscription of a property some client stays
\* subscribed to but for the two causes, for any clients, properties, events and
\* refusals (unsubscribePropIdAreaIdLocked, removeOnChangeSubscriberLocked).
THEOREM SubscriptionsEndOnlyForCause == Spec => SubscriptionsEndForCause
<1> DEFINE EndsForCause(p) ==
        hw[p].options # None /\ hw'[p].options = None /\ clients'[p] # <<>>
            => /\ p \notin Continuous
               /\ configs[p] # None \/ \E c \in Clients : LeavesAgain(c, p)
<1>1. ASSUME LeaveInv, HeldInv, HeldInv', [Next]_vars, NEW p \in Props
      PROVE  EndsForCause(p)
  <2> SUFFICES ASSUME hw[p].options # None, hw'[p].options = None, clients'[p] # <<>>
               PROVE  /\ p \notin Continuous
                      /\ configs[p] # None \/ \E c \in Clients : LeavesAgain(c, p)
    OBVIOUS
  <2>1. p \notin Continuous
    <3>1. ASSUME p \in Continuous
          PROVE  FALSE
      <4>1. ContinuousHeld(clients'[p], configs'[p], hw'[p].options)
        BY <1>1, <3>1 DEF HeldInv, Held, StateOf
      <4>2. DOMAIN clients'[p] \in SUBSET Clients /\ DOMAIN clients'[p] # {}
        BY <4>1, MapFacts DEF ContinuousHeld
      <4> QED
        BY <4>1, <4>2, ConfiguredSome DEF ContinuousHeld
    <3> QED
      BY <3>1
  <2> SUFFICES ASSUME configs[p] = None
               PROVE  \E c \in Clients : LeavesAgain(c, p)
    BY <2>1
  <2>2. ASSUME NEW cb \in Callbacks, NEW ps \in SUBSET Continuous,
               NEW opts \in [ps -> SubConfigs], SubscribeContinuous(cb, opts)
        PROVE  FALSE
    <3>1. ps \in SUBSET Props /\ DOMAIN opts = ps
      BY SubscriptionAssumption
    <3>2. PICK next, failures : \E walk \in Walks(ps, next, failures) : Store(walk)
      BY <2>2, <3>1 DEF SubscribeContinuous, ContinuousWalks, Subscribed
    <3> QED
      BY <2>1, <3>1, <3>2, WalkElsewhere
  <2>3. ASSUME NEW cb \in Callbacks, NEW ps \in SUBSET (Props \ Continuous),
               SubscribeOnChange(cb, ps)
        PROVE  FALSE
    <3>1. PICK walk \in OnChangeWalks(cb, ps) : Store(walk)
      BY <2>3 DEF SubscribeOnChange, Subscribed
    <3>2. ps \in SUBSET Props
      OBVIOUS
    <3> QED
      BY <1>1, <3>1, <3>2, JoinsEndNothing
  <2>4. ASSUME NEW c \in Clients, NEW ps, UnsubscribeProps(c, ps)
        PROVE  LeavesAgain(c, p)
    <3>1. props[c] \intersect ps \in SUBSET Props
      BY <1>1 DEF LeaveInv, PropsInv
    <3> QED
      BY <1>1, <2>1, <2>4, <3>1, LeavesEndForCause DEF UnsubscribeProps
  <2>5. ASSUME NEW c \in Clients, UnsubscribeClient(c)
        PROVE  LeavesAgain(c, p)
    <3>1. props[c] \in SUBSET Props
      BY <1>1 DEF LeaveInv, PropsInv
    <3> QED
      BY <1>1, <2>1, <2>5, <3>1, LeavesEndForCause DEF UnsubscribeClient
  <2>6. ASSUME hw' = hw
        PROVE  FALSE
    BY <2>6
  <2> QED
    BY <1>1, <2>2, <2>3, <2>4, <2>5, <2>6
       DEF Next, vars, subscriptionVars, SubscribeSupportedValueChange,
           UnsubscribeSupportedValueChange, GetSubscribedClients
<1>2. LeaveInv /\ HeldInv /\ (LeaveInv /\ HeldInv)' /\ [Next]_vars
      => [\A p \in Props : EndsForCause(p)]_vars
  BY <1>1
<1>3. SubscriptionsEndForCause <=> [][\A p \in Props : EndsForCause(p)]_vars
  BY DEF SubscriptionsEndForCause
<1> QED
  BY <1>2, <1>3, HeldAlways, PTL DEF Spec
=============================================================================
