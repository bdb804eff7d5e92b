------------------------ MODULE SubscriptionManager ------------------------
(***************************************************************************)
(* SubscriptionManager of the reference Vehicle HAL                        *)
(* (vhal/src/SubscriptionManager.cpp): which client is subscribed to which *)
(* property, and what the vehicle hardware is asked to report.             *)
(*                                                                         *)
(* A member of Props is a [propId, areaId]; it is Continuous or on-change. *)
(* A client is known by its binder; Callbacks are the IVehicleCallback     *)
(* proxies of it that subscribe was given.  Every call holds mLock from    *)
(* start to end, so it is one step, in which the hardware may refuse what  *)
(* it is asked: the call then returns in the middle of its list.           *)
(*                                                                         *)
(* Calls that are refused before anything changes (rates that are not      *)
(* positive, resolutions that are no power of 10, no area) and the queries *)
(* that only read the maps are not steps.                                  *)
(***************************************************************************)
EXTENDS Integers, FiniteSetsExt, Functions

CONSTANTS Props, Continuous, Clients, Callbacks,
          ClientOf,            \* the binder of each callback
          SubConfigs,          \* the options clients use: [rate, resolution, vur]
          CoarsestResolution,  \* std::numeric_limits<float>::max()
          Failing,             \* the properties the hardware may refuse calls for
          Reported,            \* the properties the hardware reports events of
          SupportedValueProps, \* those whose supported values change
          Values, MaxTime,     \* of the reported events
          None

ASSUME SubscriptionAssumption ==
    /\ Continuous \subseteq Props /\ Failing \subseteq Props
    /\ Reported \subseteq Props /\ SupportedValueProps \subseteq Props
    /\ ClientOf \in [Callbacks -> Clients]
    /\ CoarsestResolution \in Nat /\ MaxTime \in Nat /\ Values \subseteq Nat
    /\ SubConfigs \subseteq [rate : Nat \ {0}, resolution : 0..CoarsestResolution,
                             vur : BOOLEAN]

Maps(S, T) == UNION {[D -> T] : D \in SUBSET S}

CombinedConfigs == [rate : Nat, resolution : Nat, vur : BOOLEAN]
ContSubConfigs  == [byClient : Maps(Clients, SubConfigs), combined : CombinedConfigs]

ASSUME NoneAssumption == None \notin CombinedConfigs \union ContSubConfigs

VARIABLES clients,           \* mClientsByPropIdAreaId
          props,             \* mSubscribedPropsByClient
          configs,           \* mContSubConfigsByPropIdArea, None where it has no entry
          values,            \* mContSubValuesByCallback
          supportedClients,  \* mSupportedValueChangeClientsByPropIdAreaId
          supportedProps,    \* mSupportedValueChangePropIdAreaIdsByClient
          hw,                \* what the hardware was told of each property
          hwSupported        \* and whose supported values it reports

subscriptionVars == <<clients, props, configs, hw>>
eventVars        == <<values>>
supportedVars    == <<supportedClients, supportedProps, hwSupported>>
vars == <<subscriptionVars, eventVars, supportedVars>>

Events == [value : Values, time : 1..MaxTime]

\* A map with the entry of key replaced or added.
Put(map, key, value) ==
    [k \in DOMAIN map \union {key} |-> IF k = key THEN value ELSE map[k]]
-----------------------------------------------------------------------------
(* ContSubConfigs: the options of every client and what they combine to *)

\* Variant: "no rate" is -1 instead of 0.
Combined_Sentinel(byClient) ==
    [rate       |-> Max({-1} \union {byClient[c].rate : c \in DOMAIN byClient}),
     resolution |-> Min({CoarsestResolution}
                            \union {byClient[c].resolution : c \in DOMAIN byClient}),
     vur        |-> \A c \in DOMAIN byClient : byClient[c].vur]

Combined(byClient) ==
    [rate       |-> Max({0} \union {byClient[c].rate : c \in DOMAIN byClient}),
     resolution |-> Min({CoarsestResolution}
                            \union {byClient[c].resolution : c \in DOMAIN byClient}),
     vur        |-> \A c \in DOMAIN byClient : byClient[c].vur]

Configured(byClient) == [byClient |-> byClient, combined |-> Combined(byClient)]

\* An entry that operator[] creates: nobody's options, variable rate off.
DefaultConfig ==
    [byClient |-> <<>>,
     combined |-> [rate |-> 0, resolution |-> CoarsestResolution, vur |-> FALSE]]

OnChangeOptions == [rate |-> 0, resolution |-> 0, vur |-> FALSE]
-----------------------------------------------------------------------------
(* One property.  Its state is a record; every operator below gives the    *)
(* state a call leaves behind, "...Fails" the states of a refused call.    *)

StateOf(p) == [clients |-> clients[p], config |-> configs[p], hw |-> hw[p]]

ConfigIn(s) == IF s.config = None THEN DefaultConfig ELSE s.config

\* Variant: updateSampleRate is called for a faster rate only.
RateAfter_FasterOnly(s, new) ==
    IF new.combined.rate > ConfigIn(s).combined.rate THEN new.combined.rate ELSE s.hw.rate

\* The rate of the last updateSampleRate that was accepted.
RateAfter(s, new) ==
    IF new.combined.rate # ConfigIn(s).combined.rate THEN new.combined.rate ELSE s.hw.rate

Update(s, new) ==
    [s EXCEPT !.config = new,
              !.hw = IF new.combined = ConfigIn(s).combined THEN @
                     ELSE [rate    |-> RateAfter(s, new),
                           options |-> IF new.combined.rate = 0 THEN None
                                       ELSE new.combined]]

\* Variant: works on the entry of the map instead of on a copy of it.
UpdateFails_NoCopy(p, s, new) ==
    IF p \in Failing /\ new.combined # ConfigIn(s).combined
    THEN {[s EXCEPT !.config = new, !.hw.rate = r] : r \in {s.hw.rate, RateAfter(s, new)}}
    ELSE {}

\* updateSampleRate or the call after it is refused (a refused call changes
\* nothing in the hardware); operator[] may have made an entry already.
UpdateFails(p, s, new) ==
    IF p \in Failing /\ new.combined # ConfigIn(s).combined
    THEN {[s EXCEPT !.config = ConfigIn(s), !.hw.rate = r] : r \in {s.hw.rate, RateAfter(s, new)}}
    ELSE {}

WithClient(cb, opt, s) == Configured(Put(ConfigIn(s).byClient, ClientOf[cb], opt))

WithoutClient(c, s) ==
    LET byClient == ConfigIn(s).byClient IN
    Configured(Restrict(byClient, DOMAIN byClient \ {c}))

JoinContinuous(cb, opt, s) ==
    [Update(s, WithClient(cb, opt, s)) EXCEPT !.clients = Put(@, ClientOf[cb], cb)]

JoinOnChange(cb, s) ==
    [s EXCEPT !.clients = Put(@, ClientOf[cb], cb),
              !.hw.options = IF s.clients = <<>> THEN OnChangeOptions ELSE @]

JoinOnChangeFails(p, s) == IF p \in Failing /\ s.clients = <<>> THEN {s} ELSE {}

\* The client is gone; with the last one goes the entry of the config.
Forget(c, s) ==
    LET left == Restrict(s.clients, DOMAIN s.clients \ {c}) IN
    [s EXCEPT !.clients = left, !.config = IF left = <<>> THEN None ELSE @]

\* Variant: takes two clients for the last one.
LastClientIn_Two(s) == Cardinality(DOMAIN s.clients) \in {1, 2}

LastClientIn(s) == Cardinality(DOMAIN s.clients) = 1

\* Variant: counts the clients when this one is already erased.
Leave_ErasesFirst(c, s) ==
    LET left == Forget(c, s) IN
    IF s.config # None THEN Forget(c, Update(s, WithoutClient(c, s)))
    ELSE IF LastClientIn(left) THEN [left EXCEPT !.hw.options = None]
    ELSE left

Leave(c, s) ==
    Forget(c, IF s.config # None THEN Update(s, WithoutClient(c, s))
              ELSE IF LastClientIn(s) THEN [s EXCEPT !.hw.options = None]
              ELSE s)

\* Variant: the client is erased before the hardware agreed.
LeaveFails_ErasesFirst(c, p, s) ==
    IF s.config # None THEN UpdateFails(p, s, WithoutClient(c, s))
    ELSE IF p \in Failing /\ LastClientIn(s) THEN {Forget(c, s)}
    ELSE {}

LeaveFails(c, p, s) ==
    IF s.config # None THEN UpdateFails(p, s, WithoutClient(c, s))
    ELSE IF p \in Failing /\ LastClientIn(s) THEN {s}
    ELSE {}
-----------------------------------------------------------------------------
(* A call that walks over properties, in any order, until one is refused:  *)
(* "done" are those it finished.                                           *)

Walks(ps, next, failures) ==
    LET after(done, failed) ==
            [p \in Props |-> IF p \in done THEN next[p]
                             ELSE IF p \in DOMAIN failed THEN failed[p]
                             ELSE StateOf(p)]
    IN {[done |-> ps, state |-> after(ps, <<>>)]}
       \union UNION {{[done |-> done, state |-> after(done, [q \in {p} |-> f])] :
                          done \in SUBSET (ps \ {p}), f \in failures[p]} : p \in ps}

Store(walk) ==
    /\ clients' = [p \in Props |-> walk.state[p].clients]
    /\ configs' = [p \in Props |-> walk.state[p].config]
    /\ hw' = [p \in Props |-> walk.state[p].hw]
-----------------------------------------------------------------------------
Init == /\ clients = [p \in Props |-> <<>>]
        /\ props = [c \in Clients |-> {}]
        /\ configs = [p \in Props |-> None]
        /\ values = [cb \in Callbacks |-> <<>>]
        /\ supportedClients = [p \in SupportedValueProps |-> {}]
        /\ supportedProps = [c \in Clients |-> {}]
        /\ hw = [p \in Props |-> [rate |-> 0, options |-> None]]
        /\ hwSupported = {}

\* Variant: the client's own set is filled only when the whole list succeeded.
Subscribed_AllOrNothing(cb, ps, walk) ==
    /\ Store(walk)
    /\ props' = [props EXCEPT ![ClientOf[cb]] = IF walk.done = ps THEN @ \union ps ELSE @]
    /\ UNCHANGED <<eventVars, supportedVars>>

Subscribed(cb, ps, walk) ==
    /\ Store(walk)
    /\ props' = [props EXCEPT ![ClientOf[cb]] = @ \union walk.done]
    /\ UNCHANGED <<eventVars, supportedVars>>

ContinuousWalks(cb, opts) ==
    LET ps == DOMAIN opts IN
    Walks(ps, [p \in ps |-> JoinContinuous(cb, opts[p], StateOf(p))],
              [p \in ps |-> UpdateFails(p, StateOf(p), WithClient(cb, opts[p], StateOf(p)))])

SubscribeContinuous(cb, opts) ==
    \E walk \in ContinuousWalks(cb, opts) : Subscribed(cb, DOMAIN opts, walk)

OnChangeWalks(cb, ps) ==
    Walks(ps, [p \in ps |-> JoinOnChange(cb, StateOf(p))],
              [p \in ps |-> JoinOnChangeFails(p, StateOf(p))])

SubscribeOnChange(cb, ps) ==
    \E walk \in OnChangeWalks(cb, ps) : Subscribed(cb, ps, walk)

LeaveWalks(c, ps) ==
    Walks(ps, [p \in ps |-> Leave(c, StateOf(p))],
              [p \in ps |-> LeaveFails(c, p, StateOf(p))])

\* unsubscribe(client, propIds) erases from the client's set as it goes.
UnsubscribeProps(c, ps) ==
    /\ props[c] # {}
    /\ \E walk \in LeaveWalks(c, props[c] \intersect ps) :
           /\ Store(walk)
           /\ props' = [props EXCEPT ![c] = @ \ walk.done]
    /\ UNCHANGED <<eventVars, supportedVars>>

\* Variant: takes any property of the client's for one of its own.
OnlyFor_Any(c, ps) ==
    {p \in ps \intersect SupportedValueProps : c \in supportedClients[p]}

\* Whom the hardware need no longer report to when c leaves ps.
OnlyFor(c, ps) ==
    {p \in ps \intersect SupportedValueProps : supportedClients[p] = {c}}

ForgetSupported(c, ps) ==
    /\ hwSupported' = hwSupported \ OnlyFor(c, ps)
    /\ supportedClients' = [p \in SupportedValueProps |->
           IF p \in ps THEN supportedClients[p] \ {c} ELSE supportedClients[p]]
    /\ supportedProps' = [supportedProps EXCEPT ![c] = @ \ ps]

\* unsubscribe(client), which the client's death calls too, erases the
\* client's set at the end, then drops its supported value subscriptions.
UnsubscribeClient(c) ==
    /\ \E walk \in LeaveWalks(c, props[c]) :
           /\ Store(walk)
           /\ IF walk.done = props[c]
              THEN /\ props' = [props EXCEPT ![c] = {}]
                   /\ \/ ForgetSupported(c, supportedProps[c])
                      \/ /\ OnlyFor(c, supportedProps[c]) \intersect Failing # {}
                         /\ UNCHANGED supportedVars
              ELSE UNCHANGED <<props, supportedVars>>
    /\ UNCHANGED eventVars

\* The hardware may refuse these two as well: then nothing changes.
SubscribeSupportedValueChange(c, ps) ==
    /\ hwSupported' = hwSupported \union ps
    /\ supportedClients' = [p \in SupportedValueProps |->
           IF p \in ps THEN supportedClients[p] \union {c} ELSE supportedClients[p]]
    /\ supportedProps' = [supportedProps EXCEPT ![c] = @ \union ps]
    /\ UNCHANGED <<subscriptionVars, eventVars>>

UnsubscribeSupportedValueChange(c, ps) ==
    /\ ForgetSupported(c, ps)
    /\ UNCHANGED <<subscriptionVars, eventVars>>
-----------------------------------------------------------------------------
(* Events.  getSubscribedClients: who is sent an event of p *)

Sanitized(v, resolution) ==
    IF resolution = 0 THEN v
    ELSE resolution * ((2 * v + resolution) \div (2 * resolution))

EntryOf(p) == IF configs[p] = None THEN DefaultConfig ELSE configs[p]

ResolutionFor(c, p) ==
    LET byClient == EntryOf(p).byClient IN
    IF c \in DOMAIN byClient THEN byClient[c].resolution ELSE 0

ValueFor(c, p, event) == [event EXCEPT !.value = Sanitized(@, ResolutionFor(c, p))]

\* The clients whose variable update rate is done here, not by the hardware.
Filtered(p) ==
    LET entry == EntryOf(p) IN
    {c \in DOMAIN clients[p] \intersect DOMAIN entry.byClient :
         entry.byClient[c].vur /\ ~entry.combined.vur}

\* isValueUpdatedLocked stores with std::unordered_set::insert: an event
\* of the same [propId, areaId] stays.
Insert(stored, p, event) == IF p \in DOMAIN stored THEN stored ELSE Put(stored, p, event)

\* The callbacks whose client's variable update rate is done here.
Filtering(p) == {clients[p][c] : c \in Filtered(p)}

GetSubscribedClients(p, event) ==
    /\ clients[p] # <<>>
    /\ configs' = [configs EXCEPT ![p] = EntryOf(p)]
    /\ values' = [cb \in Callbacks |->
           IF cb \in Filtering(p) THEN Insert(values[cb], p, ValueFor(ClientOf[cb], p, event))
           ELSE values[cb]]
    /\ UNCHANGED <<clients, props, hw, supportedVars>>

Next ==
    \/ \E cb \in Callbacks, ps \in (SUBSET Continuous) \ {{}} :
           \E opts \in [ps -> SubConfigs] : SubscribeContinuous(cb, opts)
    \/ \E cb \in Callbacks, ps \in (SUBSET (Props \ Continuous)) \ {{}} :
           SubscribeOnChange(cb, ps)
    \/ \E c \in Clients, ps \in (SUBSET Props) \ {{}} : UnsubscribeProps(c, ps)
    \/ \E c \in Clients : UnsubscribeClient(c)
    \/ \E c \in Clients, ps \in (SUBSET SupportedValueProps) \ {{}} :
           SubscribeSupportedValueChange(c, ps) \/ UnsubscribeSupportedValueChange(c, ps)
    \/ \E p \in Reported, event \in Events : GetSubscribedClients(p, event)

Spec == Init /\ [][Next]_vars
-----------------------------------------------------------------------------
(* Properties *)

\* The type invariant.
TypeOK ==
    /\ clients \in [Props -> Maps(Clients, Callbacks)]
    /\ \A p \in Props, c \in Clients :
           c \in DOMAIN clients[p] => ClientOf[clients[p][c]] = c
    /\ props \in [Clients -> SUBSET Props]
    /\ configs \in [Props -> ContSubConfigs \union {None}]
    /\ \A cb \in Callbacks : \A p \in DOMAIN values[cb] :
           p \in Props /\ values[cb][p] \in [value : Nat, time : 1..MaxTime]
    /\ supportedClients \in [SupportedValueProps -> SUBSET Clients]
    /\ supportedProps \in [Clients -> SUBSET SupportedValueProps]
    /\ hw \in [Props -> [rate : Nat, options : CombinedConfigs \union {None}]]
    /\ hwSupported \subseteq SupportedValueProps

\* What the clients of a continuous property ask together: the fastest rate,
\* the finest resolution, variable update rate if nobody objects.
Serves(options, byClient) ==
    /\ \A c \in DOMAIN byClient : /\ options.rate >= byClient[c].rate
                                  /\ options.resolution <= byClient[c].resolution
                                  /\ options.vur => byClient[c].vur
    /\ \E c \in DOMAIN byClient : options.rate = byClient[c].rate
    /\ \E c \in DOMAIN byClient : options.resolution = byClient[c].resolution
    /\ ~options.vur => \E c \in DOMAIN byClient : ~byClient[c].vur

\* The options IVehicleHardware accepted last for a continuous property are what
\* its clients ask together, and it was told to stop when the last one left, also
\* when it refused calls on the way (updateContSubConfigsLocked).  Where it
\* refuses none, the rate of the last updateSampleRate is that of the options.
\* Where it refuses the call after an accepted updateSampleRate it is not: see
\* RatesServed.
ContinuousServed ==
    \A p \in Continuous :
        /\ IF clients[p] = <<>> THEN hw[p].options = None
           ELSE /\ configs[p] # None /\ hw[p].options # None
                /\ DOMAIN configs[p].byClient = DOMAIN clients[p]
                /\ Serves(hw[p].options, configs[p].byClient)
        /\ p \in Failing \/ hw[p].rate = IF hw[p].options = None THEN 0 ELSE hw[p].options.rate

\* "The server must generate at least this many OnPropertyChange events" is what
\* updateSampleRate says of its rate: it is never lower than what a subscribed
\* client asked for and was promised.
RatesServed ==
    \A p \in Continuous : \A c \in DOMAIN clients[p] :
        hw[p].rate >= EntryOf(p).byClient[c].rate

\* IVehicleHardware is subscribed to an on-change property exactly as long as
\* a client is (addOnChangeSubscriberLocked, removeOnChangeSubscriberLocked).
OnChangeServed ==
    \A p \in Props \ Continuous : (hw[p].options = None) = (clients[p] = <<>>)

\* The hardware is never left subscribed with no client to unsubscribe it,
\* whatever calls it refused: the client is forgotten after the hardware
\* agreed (unsubscribePropIdAreaIdLocked).
NoOrphanSubscription ==
    \A p \in Props : hw[p].options # None => clients[p] # <<>>

\* A client that is sent events of a property finds the property in its own
\* set, which is all that unsubscribe and the client's death walk over, even
\* when subscribe returned in the middle of its list.
EverySubscriberCanLeave ==
    \A p \in Props : \A c \in DOMAIN clients[p] : p \in props[c]

\* The two maps of supported value subscriptions are each other's inverse and
\* the hardware reports exactly what some client asked for.
SupportedValuesServed ==
    /\ hwSupported = {p \in SupportedValueProps : supportedClients[p] # {}}
    /\ \A c \in Clients : supportedProps[c] =
           {p \in SupportedValueProps : c \in supportedClients[p]}

\* A client that removes a property from its list again: an unsubscribe of its
\* that failed half-way has done so already (unsubscribe keeps the list then).
LeavesAgain(c, p) == p \in props[c] /\ c \notin DOMAIN clients[p]

\* No call ends the hardware's subscription of a property that a client stays
\* subscribed to, but for two causes: the property is an on-change one that an
\* event made a configuration entry for (getSubscribedClients), or that some
\* client would leave twice.  Refusals, lists given up half-way and events of
\* other properties never do.
SubscriptionsEndForCause ==
    [][\A p \in Props :
           hw[p].options # None /\ hw'[p].options = None /\ clients'[p] # <<>>
               => /\ p \notin Continuous
                  /\ configs[p] # None \/ \E c \in Clients : LeavesAgain(c, p)]_vars
=============================================================================
