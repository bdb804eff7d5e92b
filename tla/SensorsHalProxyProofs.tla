------------------------ MODULE SensorsHalProxyProofs ------------------------
(***************************************************************************)
(* Proofs about SensorsHalProxy, for any sub-HALs, batches, sizes and      *)
(* bounds: types, the wakelock is held exactly while something is counted, *)
(* the FMQ has one writer at a time, no thread sleeps while there is work, *)
(* the size of the queue is kept right, events stay in order and the       *)
(* wakelock's count is exact.                                              *)
(***************************************************************************)
EXTENDS SensorsHalProxy, FiniteSetTheorems, TLAPS

Entry == [events : Seq(Event), numWakeupEvents : Nat]

\* A thread that is about to sleep, or sleeps, has nothing to do.
Rested ==
    threadsRun => /\ writer \in {"checked", "waiting"} => pendingWrites = <<>>
                  /\ locker.pc \in {"checked", "waiting"} => refCount = 0

\* The queue is emptied only when its thread is gone.
Joined == owner \in {"joined", "cleared"} => writer = "exited"

\* sum[q] is the number of events in the first q entries of a queue of n events.
IsSum(sum, entries, n) ==
    /\ sum \in [0 .. Len(entries) -> Nat]
    /\ sum[0] = 0 /\ sum[Len(entries)] = n
    /\ \A q \in 1 .. Len(entries) : sum[q] = sum[q - 1] + Len(entries[q].events)
    /\ \A p, q \in 0 .. Len(entries) : p <= q => sum[p] <= sum[q]

Counts(entries, n) == \E sum \in [0 .. Len(entries) -> Nat] : IsSum(sum, entries, n)

\* What the framework answers is finite, so that it can be counted.
AcksFinite ==
    /\ IsFiniteSet(unhandled)
    /\ \A i \in DOMAIN acks : IsFiniteSet(acks[i])

\* Only who posts wake-up events holds a ScopedWakelock.
LocksForWakeups ==
    \A s \in SubHals : subhal[s] # Idle /\ subhal[s].locked => HasWakeup(subhal[s].shape)

Sized == sizePending <= MaxPendingWrites /\ Counts(pendingWrites, sizePending)

\* The inductive invariant.
ProxyInv == TypeOK /\ HeldIffCounted /\ SingleWriter /\ Rested /\ Joined /\ Sized /\ AcksFinite
            /\ LocksForWakeups
-----------------------------------------------------------------------------
(* Sequences of events *)

LEMMA LeastValue ==
    ASSUME NEW a \in Int, NEW b \in Int
    PROVE  /\ Least(a, b) \in Int
           /\ Least(a, b) <= a /\ Least(a, b) <= b
           /\ Least(a, b) = a \/ Least(a, b) = b
BY DEF Least

LEMMA PartOfSeq ==
    ASSUME NEW S, NEW s \in Seq(S), NEW m \in Nat \ {0}, NEW n \in Int, n <= Len(s)
    PROVE  /\ SubSeq(s, m, n) \in Seq(S)
           /\ Len(SubSeq(s, m, n)) = IF m <= n THEN n - m + 1 ELSE 0
OBVIOUS

LEMMA ConcatOfSeqs ==
    ASSUME NEW S, NEW a \in Seq(S), NEW b \in Seq(S)
    PROVE  a \o b \in Seq(S) /\ Len(a \o b) = Len(a) + Len(b)
OBVIOUS

LEMMA WakeupsAreEvents ==
    ASSUME NEW s \in Seq(Event)
    PROVE  Wakeups(s) \subseteq Event
BY DEF Wakeups, Elements

LEMMA WakeupsFinite ==
    ASSUME NEW s \in Seq(Event)
    PROVE  IsFiniteSet(Wakeups(s)) /\ Cardinality(Wakeups(s)) \in Nat
<1>1. s \in Surjection(1 .. Len(s), Elements(s))
  BY DEF Elements, Surjection
<1>2. IsFiniteSet(Elements(s))
  BY <1>1, FS_Interval, FS_Surjection
<1>3. Wakeups(s) \in SUBSET Elements(s)
  BY DEF Wakeups
<1> QED
  BY <1>2, <1>3, FS_Subset, FS_CardinalityType
-----------------------------------------------------------------------------
(* The size of the queue *)

LEMMA CountsAppend ==
    ASSUME NEW q \in Seq(Entry), NEW n \in Nat, NEW e \in Entry, Counts(q, n)
    PROVE  Counts(Append(q, e), n + Len(e.events))
<1>1. PICK sum \in [0 .. Len(q) -> Nat] : IsSum(sum, q, n)
  BY DEF Counts
<1> DEFINE r == Append(q, e)
           k == Len(e.events)
           new == [i \in 0 .. Len(r) |-> IF i <= Len(q) THEN sum[i] ELSE n + k]
<1>2. k \in Nat /\ Len(q) \in Nat
  BY DEF Entry
<1>3. /\ Len(r) = Len(q) + 1
      /\ r[Len(r)] = e
      /\ \A i \in 1 .. Len(q) : r[i] = q[i]
  OBVIOUS
<1>4. new \in [0 .. Len(r) -> Nat]
  BY <1>2, <1>3
<1>5. new[0] = 0 /\ new[Len(r)] = n + k
  BY <1>1, <1>2, <1>3 DEF IsSum
<1>6. ASSUME NEW i \in 1 .. Len(r)
      PROVE  new[i] = new[i - 1] + Len(r[i].events)
  <2>1. CASE i <= Len(q)
    BY <1>1, <1>2, <1>3, <2>1 DEF IsSum
  <2>2. CASE i = Len(r)
    BY <1>1, <1>2, <1>3, <2>2 DEF IsSum
  <2>3. i <= Len(q) \/ i = Len(r)
    BY <1>2, <1>3
  <2> HIDE DEF new, r, k
  <2> QED
    BY <2>1, <2>2, <2>3
<1>7. \A i, j \in 0 .. Len(r) : i <= j => new[i] <= new[j]
  <2>1. \A i \in 0 .. Len(q) : sum[i] \in Nat /\ sum[i] <= n
    BY <1>1, <1>2 DEF IsSum
  <2> QED
    BY <1>1, <1>2, <1>3, <2>1 DEF IsSum
<1>8. IsSum(new, r, n + k)
  BY <1>4, <1>5, <1>6, <1>7 DEF IsSum
<1> QED
  BY <1>4, <1>8 DEF Counts

LEMMA CountsTail ==
    ASSUME NEW q \in Seq(Entry), NEW n \in Nat, Counts(q, n), q # <<>>
    PROVE  /\ n - Len(Head(q).events) \in Nat
           /\ Counts(Tail(q), n - Len(Head(q).events))
<1>1. PICK sum \in [0 .. Len(q) -> Nat] : IsSum(sum, q, n)
  BY DEF Counts
<1> DEFINE r == Tail(q)
           k == Len(Head(q).events)
           new == [i \in 0 .. Len(r) |-> sum[i + 1] - k]
<1>2. /\ Len(q) \in Nat \ {0}
      /\ Head(q) = q[1]
      /\ r \in Seq(Entry) /\ Len(r) = Len(q) - 1
      /\ \A i \in 1 .. Len(r) : r[i] = q[i + 1]
  OBVIOUS
<1>3. k \in Nat /\ sum[1] = k
  <2>1. q[1] \in Entry
    BY <1>2
  <2>2. sum[1] = sum[1 - 1] + Len(q[1].events) /\ sum[0] = 0
    BY <1>1, <1>2 DEF IsSum
  <2> QED
    BY <1>2, <2>1, <2>2 DEF Entry
<1>4. \A i \in 1 .. Len(q) : sum[i] \in Nat /\ sum[i] >= k
  <2>1. \A i \in 1 .. Len(q) : sum[1] <= sum[i]
    BY <1>1, <1>2 DEF IsSum
  <2> QED
    BY <1>2, <1>3, <2>1
<1>5. new \in [0 .. Len(r) -> Nat]
  BY <1>2, <1>3, <1>4
<1>6. new[0] = 0 /\ new[Len(r)] = n - k /\ n - k \in Nat
  <2>1. sum[Len(q)] = n /\ n >= k
    BY <1>1, <1>2, <1>4 DEF IsSum
  <2>2. new[0] = sum[0 + 1] - k /\ new[Len(r)] = sum[Len(r) + 1] - k
    BY <1>2
  <2>3. 0 + 1 = 1 /\ Len(r) + 1 = Len(q)
    BY <1>2
  <2> HIDE DEF new, r, k
  <2> QED
    BY <1>3, <2>1, <2>2, <2>3
<1>7. ASSUME NEW i \in 1 .. Len(r)
      PROVE  new[i] = new[i - 1] + Len(r[i].events)
  <2>1. sum[i + 1] = sum[(i + 1) - 1] + Len(q[i + 1].events)
    BY <1>1, <1>2 DEF IsSum
  <2>2. Len(q[i + 1].events) \in Nat
    BY <1>2 DEF Entry
  <2>3. sum[i] \in Nat /\ (i + 1) - 1 = i /\ i - 1 \in 0 .. Len(r) /\ (i - 1) + 1 = i
    BY <1>2
  <2> QED
    BY <1>2, <1>3, <2>1, <2>2, <2>3
<1>8. ASSUME NEW i \in 0 .. Len(r), NEW j \in 0 .. Len(r), i <= j
      PROVE  new[i] <= new[j]
  <2>1. sum[i + 1] <= sum[j + 1]
    BY <1>1, <1>2, <1>8 DEF IsSum
  <2>2. sum[i + 1] \in Nat /\ sum[j + 1] \in Nat
    BY <1>2
  <2> QED
    BY <1>3, <2>1, <2>2
<1>9. IsSum(new, r, n - k)
  BY <1>5, <1>6, <1>7, <1>8 DEF IsSum
<1> QED
  BY <1>5, <1>6, <1>9 DEF Counts

LEMMA CountsPart ==
    ASSUME NEW q \in Seq(Entry), NEW n \in Nat, Counts(q, n), q # <<>>,
           NEW k \in Nat, k <= Len(Head(q).events), NEW rest \in Seq(Event),
           Len(rest) = Len(Head(q).events) - k
    PROVE  /\ n - k \in Nat
           /\ Counts([q EXCEPT ![1].events = rest], n - k)
<1>1. PICK sum \in [0 .. Len(q) -> Nat] : IsSum(sum, q, n)
  BY DEF Counts
<1> DEFINE r == [q EXCEPT ![1].events = rest]
           new == [i \in 0 .. Len(r) |-> IF i = 0 THEN 0 ELSE sum[i] - k]
<1>2. Len(q) \in Nat \ {0} /\ Head(q) = q[1] /\ q[1] \in Entry
  OBVIOUS
<1>3. /\ Len(r) = Len(q)
      /\ r[1].events = rest
      /\ \A i \in 2 .. Len(q) : r[i] = q[i]
  BY <1>2 DEF Entry
<1>4. sum[1] = Len(q[1].events) /\ Len(q[1].events) \in Nat
  <2>1. sum[1] = sum[1 - 1] + Len(q[1].events) /\ sum[0] = 0
    BY <1>1, <1>2 DEF IsSum
  <2> QED
    BY <1>2, <2>1 DEF Entry
<1>5. \A i \in 1 .. Len(q) : sum[i] \in Nat /\ sum[i] >= k
  <2>1. ASSUME NEW i \in 1 .. Len(q)
        PROVE  sum[1] <= sum[i] /\ sum[i] \in Nat
    <3>1. 1 \in 0 .. Len(q) /\ i \in 0 .. Len(q) /\ 1 <= i
      BY <1>2
    <3>2. \A a, b \in 0 .. Len(q) : a <= b => sum[a] <= sum[b]
      BY <1>1 DEF IsSum
    <3> QED
      BY <3>1, <3>2
  <2>2. k <= sum[1] /\ k \in Nat /\ sum[1] \in Nat
    BY <1>2, <1>4
  <2> QED
    BY <2>1, <2>2
<1>6. new \in [0 .. Len(r) -> Nat]
  BY <1>2, <1>3, <1>5
<1>7. new[0] = 0 /\ new[Len(r)] = n - k /\ n - k \in Nat
  <2>1. sum[Len(q)] = n /\ n >= k
    BY <1>1, <1>2, <1>5 DEF IsSum
  <2>2. new[0] = 0 /\ new[Len(r)] = sum[Len(q)] - k
    BY <1>2, <1>3
  <2> HIDE DEF new, r
  <2> QED
    BY <2>1, <2>2
<1>8. ASSUME NEW i \in 1 .. Len(r)
      PROVE  new[i] = new[i - 1] + Len(r[i].events)
  <2>1. CASE i = 1
    BY <1>2, <1>3, <1>4, <2>1
  <2>2. CASE i # 1
    <3>1. sum[i] = sum[i - 1] + Len(q[i].events)
      BY <1>1, <1>2, <1>3 DEF IsSum
    <3>2. i \in 2 .. Len(q) /\ i - 1 \in 1 .. Len(q)
      BY <1>2, <1>3, <2>2
    <3>3. Len(q[i].events) \in Nat
      BY <1>2, <3>2 DEF Entry
    <3> QED
      BY <1>3, <1>5, <3>1, <3>2, <3>3
  <2> QED
    BY <2>1, <2>2
<1>9. ASSUME NEW i \in 0 .. Len(r), NEW j \in 0 .. Len(r), i <= j
      PROVE  new[i] <= new[j]
  <2>1. CASE i = 0
    <3>1. new[i] = 0
      BY <1>7, <2>1
    <3>2. new[j] \in Nat
      BY <1>6
    <3> HIDE DEF new
    <3> QED
      BY <3>1, <3>2
  <2>2. CASE i # 0
    <3>1. i \in 1 .. Len(q) /\ j \in 1 .. Len(q)
      BY <1>2, <1>3, <1>9, <2>2
    <3>2. sum[i] <= sum[j]
      BY <1>1, <1>2, <1>9, <3>1 DEF IsSum
    <3> QED
      BY <1>3, <1>5, <3>1, <3>2
  <2> QED
    BY <2>1, <2>2
<1>10. IsSum(new, r, n - k)
  BY <1>6, <1>7, <1>8, <1>9 DEF IsSum
<1> QED
  BY <1>6, <1>7, <1>10 DEF Counts
-----------------------------------------------------------------------------
(* The counter *)

LEMMA LockerNotified ==
    ASSUME locker \in LockerStates
    PROVE  /\ [locker EXCEPT !.pc = Notified(@)] \in LockerStates
           /\ [locker EXCEPT !.pc = Notified(@)].pc = Notified(locker.pc)
<1>1. CASE locker \in [pc : ThreadStates]
  BY <1>1 DEF LockerStates, ThreadStates, Notified
<1>2. CASE locker \in [pc : {"reading"}, until : Nat, timed : BOOLEAN]
  BY <1>2 DEF LockerStates, ThreadStates, Notified
<1> QED
  BY <1>1, <1>2 DEF LockerStates

LEMMA IncrementFacts ==
    ASSUME TypeOK, HeldIffCounted, Rested, NEW delta \in Nat \ {0}, Increment(delta)
    PROVE  /\ refCount' \in Nat /\ held' \in BOOLEAN
           /\ startTime' \in Nat /\ resetTime' \in Nat /\ locker' \in LockerStates
           /\ held' <=> refCount' > 0
           /\ threadsRun => locker'.pc \notin {"checked", "waiting"}
           /\ ~threadsRun => UNCHANGED <<refCount, held, locker>>
<1>1. CASE ~threadsRun
  BY <1>1 DEF Increment, TypeOK, HeldIffCounted, lockVars
<1>2. CASE threadsRun /\ refCount = 0
  <2>1. /\ refCount' = delta /\ held' = TRUE /\ startTime' = now /\ resetTime' = resetTime
        /\ locker' = [locker EXCEPT !.pc = Notified(@)]
        /\ locker.pc # "checked"
    <3>1. refCount \in Nat /\ 0 + delta = delta
      BY DEF TypeOK
    <3>2. /\ WakelockMutexFree
          /\ refCount' = refCount + delta /\ held' = (held \/ refCount = 0)
          /\ startTime' = now /\ resetTime' = resetTime
          /\ locker' = IF refCount = 0 THEN [locker EXCEPT !.pc = Notified(@)] ELSE locker
      BY <1>2 DEF Increment
    <3>3. held' = TRUE
      BY <1>2, <3>2, Zenon
    <3> QED
      BY <1>2, <3>1, <3>2, <3>3 DEF WakelockMutexFree
  <2>2. locker' \in LockerStates /\ locker'.pc \notin {"checked", "waiting"}
    BY <2>1, LockerNotified DEF TypeOK, Notified
  <2> QED
    BY <1>2, <2>1, <2>2 DEF TypeOK
<1>3. CASE threadsRun /\ refCount # 0
  <2>1. /\ refCount' = refCount + delta /\ held' = held /\ held = TRUE
        /\ startTime' = now /\ resetTime' = resetTime /\ locker' = locker
    BY <1>3 DEF Increment, TypeOK, HeldIffCounted
  <2> QED
    BY <1>3, <2>1 DEF TypeOK, Rested
<1> QED
  BY <1>1, <1>2, <1>3

LEMMA DecrementFacts ==
    ASSUME TypeOK, HeldIffCounted, NEW delta \in Nat, NEW start \in Nat, Decrement(delta, start)
    PROVE  /\ refCount' \in Nat /\ held' \in BOOLEAN
           /\ refCount' <= refCount
           /\ held' <=> refCount' > 0
<1>1. CASE ~threadsRun
  BY <1>1 DEF Decrement, TypeOK, HeldIffCounted
<1>2. CASE threadsRun /\ (refCount = 0 \/ start < resetTime)
  BY <1>2 DEF Decrement, Lowered, TypeOK, HeldIffCounted
<1>3. CASE threadsRun /\ ~(refCount = 0 \/ start < resetTime)
  <2> DEFINE count == refCount - Least(refCount, delta)
  <2>1. count \in Nat /\ count <= refCount
    <3>1. refCount \in Nat
      BY DEF TypeOK
    <3> QED
      BY <3>1 DEF Least
  <2>2. refCount' = count /\ held' = (held /\ count # 0)
    BY <1>3 DEF Decrement, Lowered
  <2>3. held = TRUE
    BY <1>3 DEF TypeOK, HeldIffCounted
  <2> HIDE DEF count
  <2>4. CASE count = 0
    <3>1. held' = FALSE
      BY <2>2, <2>4, Zenon
    <3> QED
      BY <2>1, <2>2, <2>4, <3>1
  <2>5. CASE count # 0
    <3>1. held' = TRUE
      BY <2>2, <2>3, <2>5, Zenon
    <3> QED
      BY <2>1, <2>2, <2>5, <3>1
  <2> QED
    BY <2>4, <2>5
<1> QED
  BY <1>1, <1>2, <1>3
-----------------------------------------------------------------------------
(* The steps *)

LEMMA WriterChecksKeeps == ASSUME ProxyInv, WriterChecks PROVE ProxyInv'
BY DEF ProxyInv, WriterChecks, TypeOK, HeldIffCounted, SingleWriter, Rested, Joined, Sized,
       AcksFinite, LocksForWakeups, WriterStates, ThreadStates,
       lockVars, frameVars, ownerVars, historyVars

LEMMA WriterWaitsKeeps == ASSUME ProxyInv, WriterWaits PROVE ProxyInv'
BY DEF ProxyInv, WriterWaits, TypeOK, HeldIffCounted, SingleWriter, Rested, Joined, Sized,
       AcksFinite, LocksForWakeups, WriterStates, ThreadStates,
       lockVars, frameVars, ownerVars, historyVars

LEMMA HeadOfQueue ==
    ASSUME NEW q \in Seq(Entry), q # <<>>
    PROVE  /\ Head(q) \in Entry /\ Head(q) = q[1] /\ 1 \in DOMAIN q
           /\ Tail(q) \in Seq(Entry)
           /\ Head(q).events \in Seq(Event) /\ Head(q).numWakeupEvents \in Nat
           /\ Len(Head(q).events) \in Nat
<1>1. Head(q) \in Entry /\ Head(q) = q[1] /\ 1 \in DOMAIN q /\ Tail(q) \in Seq(Entry)
  OBVIOUS
<1>2. Head(q).events \in Seq(Event) /\ Head(q).numWakeupEvents \in Nat
  BY <1>1 DEF Entry
<1> QED
  BY <1>1, <1>2

LEMMA PartOfQueue ==
    ASSUME NEW q \in Seq(Entry), q # <<>>, NEW rest \in Seq(Event)
    PROVE  [q EXCEPT ![1].events = rest] \in Seq(Entry)
<1>1. [q[1] EXCEPT !.events = rest] \in Entry
  <2>1. q[1] \in Entry
    BY HeadOfQueue
  <2> QED
    BY <2>1 DEF Entry
<1> DEFINE e == [q[1] EXCEPT !.events = rest]
<1>2. [q EXCEPT ![1].events = rest] = [q EXCEPT ![1] = e]
  OBVIOUS
<1>3. e \in Entry
  BY <1>1
<1> HIDE DEF e
<1>4. [q EXCEPT ![1] = e] \in Seq(Entry)
  BY <1>3
<1> QED
  BY <1>2, <1>4

LEMMA QueueTyped == ASSUME TypeOK PROVE pendingWrites \in Seq(Entry)
BY DEF TypeOK, Entry

LEMMA ChunkFacts ==
    ASSUME TypeOK, pendingWrites # <<>>
    PROVE  /\ Head(pendingWrites) \in Entry
           /\ NumToWrite \in Nat
           /\ Chunk \in Seq(Event) /\ Len(Chunk) = NumToWrite
           /\ NumToWrite = IF IsPart THEN QueueSize ELSE Len(Head(pendingWrites).events)
<1>1. Head(pendingWrites) \in Entry
  BY QueueTyped, HeadOfQueue
<1> DEFINE events == Head(pendingWrites).events
<1>2. events \in Seq(Event) /\ Len(events) \in Nat
  BY QueueTyped, HeadOfQueue
<1>3. QueueSize \in Nat \ {0}
  BY SensorsAssumption
<1>4. /\ NumToWrite \in Nat /\ NumToWrite <= Len(events)
      /\ NumToWrite = IF IsPart THEN QueueSize ELSE Len(events)
  BY <1>2, <1>3 DEF NumToWrite, Least, IsPart
<1>5. Chunk \in Seq(Event) /\ Len(Chunk) = NumToWrite
  BY <1>2, <1>4, PartOfSeq DEF Chunk
<1> QED
  BY <1>1, <1>4, <1>5

LEMMA WriteBlockingKeeps == ASSUME ProxyInv, WriteBlocking PROVE ProxyInv'
<1>1. pendingWrites # <<>>
  BY DEF ProxyInv, SingleWriter, WriteBlocking
<1>2. fmq' \in Seq(Event) /\ Len(fmq') <= QueueSize
  <2>1. fmq \in Seq(Event) /\ Len(fmq) + NumToWrite <= QueueSize /\ fmq' = fmq \o Chunk
    BY DEF ProxyInv, TypeOK, WriteBlocking
  <2>2. Chunk \in Seq(Event) /\ Len(Chunk) = NumToWrite
    BY <1>1, ChunkFacts DEF ProxyInv
  <2> QED
    BY <2>1, <2>2, ConcatOfSeqs
<1>3. /\ writer = "writing" /\ writer' = "written"
      /\ UNCHANGED <<pendingWrites, sizePending, refCount, held, startTime, resetTime, locker,
                     unhandled, acks, threadsRun, owner, inits, era, dropped, exact,
                     subhal, now, posted>>
  BY DEF WriteBlocking, lockVars, frameVars, ownerVars, historyVars
<1> QED
  BY <1>2, <1>3 DEF ProxyInv, TypeOK, HeldIffCounted, SingleWriter, Rested, Joined, Sized,
       AcksFinite, LocksForWakeups, WriterStates, ThreadStates

LEMMA WriteTimesOutKeeps == ASSUME ProxyInv, WriteTimesOut PROVE ProxyInv'
<1> DEFINE whole == Head(pendingWrites).numWakeupEvents
           delta == IF IsPart THEN Cardinality(Wakeups(Chunk)) ELSE whole
<1>1. pendingWrites # <<>>
  BY DEF ProxyInv, SingleWriter, WriteTimesOut
<1>2. delta \in Nat /\ resetTime \in Nat
  <2>1. whole \in Nat
    BY <1>1, QueueTyped, HeadOfQueue DEF ProxyInv
  <2>2. Cardinality(Wakeups(Chunk)) \in Nat
    BY <1>1, ChunkFacts, WakeupsFinite DEF ProxyInv
  <2> QED
    BY <2>1, <2>2 DEF ProxyInv, TypeOK
<1>3. /\ refCount' \in Nat /\ held' \in BOOLEAN
      /\ refCount' <= refCount
      /\ held' <=> refCount' > 0
  <2>1. CASE whole > 0
    <3>1. Decrement(delta, resetTime)
      BY <2>1 DEF WriteTimesOut
    <3> HIDE DEF delta
    <3> QED
      BY <1>2, <3>1, DecrementFacts DEF ProxyInv
  <2>2. CASE ~(whole > 0)
    BY <2>2 DEF WriteTimesOut, ProxyInv, TypeOK, HeldIffCounted
  <2> QED
    BY <2>1, <2>2
<1>4. /\ writer = "writing" /\ writer' = "failed" /\ exact' \in BOOLEAN
      /\ UNCHANGED <<fmq, pendingWrites, sizePending, startTime, resetTime, locker,
                     unhandled, acks, threadsRun, owner, inits, era, dropped, subhal, now, posted>>
  BY DEF WriteTimesOut, frameVars, ownerVars
<1> QED
  BY <1>1, <1>3, <1>4 DEF ProxyInv, TypeOK, HeldIffCounted, SingleWriter, Rested, Joined, Sized,
       AcksFinite, LocksForWakeups, WriterStates, ThreadStates

LEMMA WriterPopsKeeps == ASSUME ProxyInv, WriterPops PROVE ProxyInv'
<1>1. pendingWrites # <<>> /\ pendingWrites \in Seq(Entry)
  BY DEF ProxyInv, SingleWriter, WriterPops, TypeOK, Entry
<1>2. /\ sizePending \in Nat /\ sizePending <= MaxPendingWrites
      /\ Counts(pendingWrites, sizePending)
  BY DEF ProxyInv, Sized, TypeOK
<1>3. /\ pendingWrites' \in Seq(Entry) /\ sizePending' \in Nat
      /\ sizePending' <= sizePending
      /\ Counts(pendingWrites', sizePending')
  <2>1. CASE IsPart
    <3> DEFINE events == Head(pendingWrites).events
               rest   == SubSeq(events, QueueSize + 1, Len(events))
    <3>1. events \in Seq(Event) /\ Len(events) > QueueSize /\ QueueSize \in Nat \ {0}
      BY <1>1, <2>1, SensorsAssumption, HeadOfQueue DEF IsPart
    <3>2. rest \in Seq(Event) /\ Len(rest) = Len(events) - QueueSize
      BY <3>1, PartOfSeq
    <3>3. /\ pendingWrites' = [pendingWrites EXCEPT ![1].events = rest]
          /\ sizePending' = sizePending - QueueSize
      <4>1. NumToWrite = QueueSize
        BY <1>1, <2>1, ChunkFacts DEF ProxyInv
      <4>2. Head(pendingWrites) = pendingWrites[1]
        BY <1>1
      <4> QED
        BY <2>1, <4>1, <4>2 DEF WriterPops
    <3>4. [pendingWrites EXCEPT ![1].events = rest] \in Seq(Entry)
      <4> HIDE DEF rest
      <4> QED
        BY <1>1, <3>2, PartOfQueue
    <3>5. /\ sizePending - QueueSize \in Nat
          /\ Counts([pendingWrites EXCEPT ![1].events = rest], sizePending - QueueSize)
      <4>1. QueueSize \in Nat /\ QueueSize <= Len(Head(pendingWrites).events)
        BY <3>1
      <4>2. rest \in Seq(Event) /\ Len(rest) = Len(Head(pendingWrites).events) - QueueSize
        BY <3>2
      <4> HIDE DEF rest, events
      <4> QED
        BY <1>1, <1>2, <4>1, <4>2, CountsPart
    <3> QED
      BY <1>2, <3>1, <3>3, <3>4, <3>5
  <2>2. CASE ~IsPart
    <3>1. /\ pendingWrites' = Tail(pendingWrites)
          /\ sizePending' = sizePending - Len(Head(pendingWrites).events)
      BY <1>1, <2>2, ChunkFacts DEF WriterPops, ProxyInv
    <3>2. Len(Head(pendingWrites).events) \in Nat /\ Tail(pendingWrites) \in Seq(Entry)
      BY <1>1, HeadOfQueue
    <3> QED
      BY <1>1, <1>2, <3>1, <3>2, CountsTail
  <2> QED
    BY <2>1, <2>2
<1>4. /\ writer' = "woken"
      /\ writer \in {"written", "failed"}
      /\ UNCHANGED <<fmq, refCount, held, startTime, resetTime, locker, unhandled, acks,
                     threadsRun, owner, inits, era, dropped, exact, subhal, now, posted>>
  BY DEF WriterPops, lockVars, frameVars, ownerVars, historyVars
<1>5. sizePending' <= MaxPendingWrites
  BY <1>2, <1>3, SensorsAssumption
<1> QED
  BY <1>3, <1>4, <1>5 DEF ProxyInv, TypeOK, HeldIffCounted, SingleWriter, Rested, Joined, Sized,
       AcksFinite, LocksForWakeups, WriterStates, ThreadStates, Entry

LEMMA LockerIdles ==
    ASSUME ProxyInv, LockerReads \/ LockerChecks \/ LockerWaits \/ LockerExits \/ ReadTimesOut
    PROVE  ProxyInv'
<1>1. /\ locker' \in LockerStates /\ resetTime' \in Nat
      /\ locker'.pc \in {"checked", "waiting"} => ~threadsRun \/ refCount = 0
  <2> USE DEF ProxyInv, TypeOK, LockerStates, ThreadStates
  <2>1. CASE LockerReads
    <3>1. startTime + Timeout \in Nat
      BY SensorsAssumption
    <3> QED
      BY <2>1, <3>1 DEF LockerReads
  <2>2. CASE LockerChecks
    BY <2>2 DEF LockerChecks
  <2>3. CASE LockerWaits
    BY <2>3 DEF LockerWaits, Rested
  <2>4. CASE LockerExits
    BY <2>4 DEF LockerExits
  <2>5. CASE ReadTimesOut
    BY <2>5 DEF ReadTimesOut
  <2> QED
    BY <2>1, <2>2, <2>3, <2>4, <2>5
<1>2. UNCHANGED <<fmq, pendingWrites, sizePending, writer, refCount, held, startTime,
                  unhandled, acks, threadsRun, owner, inits, era, dropped, exact,
                  subhal, now, posted>>
  BY DEF LockerReads, LockerChecks, LockerWaits, LockerExits, ReadTimesOut,
         queueVars, frameVars, ownerVars, historyVars
<1> QED
  BY <1>1, <1>2 DEF ProxyInv, TypeOK, HeldIffCounted, SingleWriter, Rested, Joined, Sized,
       AcksFinite, LocksForWakeups

LEMMA WakelockTimesOutKeeps == ASSUME ProxyInv, WakelockTimesOut PROVE ProxyInv'
<1>1. /\ refCount' \in Nat /\ held' \in BOOLEAN
      /\ refCount' <= refCount
      /\ held' <=> refCount' > 0
  BY DecrementFacts DEF WakelockTimesOut, ProxyInv, TypeOK
<1>2. /\ resetTime' \in Nat /\ era' \in Nat /\ dropped' \in Nat
      /\ UNCHANGED <<fmq, pendingWrites, sizePending, writer, startTime, locker, unhandled, acks,
                     threadsRun, owner, inits, exact, subhal, now, posted>>
  BY DEF WakelockTimesOut, ProxyInv, TypeOK, queueVars, frameVars, ownerVars
<1>3. refCount \in Nat
  BY DEF ProxyInv, TypeOK
<1> QED
  BY <1>1, <1>2, <1>3 DEF ProxyInv, TypeOK, HeldIffCounted, SingleWriter, Rested, Joined, Sized,
       AcksFinite, LocksForWakeups

LEMMA AckArrivesKeeps == ASSUME ProxyInv, AckArrives PROVE ProxyInv'
<1>1. /\ acks \in Seq(SUBSET Event) /\ acks # <<>>
      /\ \A i \in DOMAIN acks : IsFiniteSet(acks[i])
  BY DEF ProxyInv, TypeOK, AcksFinite, AckArrives
<1>2. /\ Tail(acks) \in Seq(SUBSET Event)
      /\ \A i \in DOMAIN Tail(acks) : IsFiniteSet(Tail(acks)[i])
      /\ IsFiniteSet(Head(acks))
  <2>1. /\ Head(acks) = acks[1] /\ 1 \in DOMAIN acks
        /\ Tail(acks) \in Seq(SUBSET Event)
        /\ \A i \in DOMAIN Tail(acks) : Tail(acks)[i] = acks[i + 1] /\ i + 1 \in DOMAIN acks
    BY <1>1
  <2> QED
    BY <1>1, <2>1
<1>3. Cardinality(Head(acks)) \in Nat /\ resetTime \in Nat
  BY <1>2, FS_CardinalityType DEF ProxyInv, TypeOK
<1>4. /\ refCount' \in Nat /\ held' \in BOOLEAN
      /\ refCount' <= refCount
      /\ held' <=> refCount' > 0
  <2>1. Decrement(Cardinality(Head(acks)), resetTime)
    BY DEF AckArrives
  <2> QED
    BY <1>3, <2>1, DecrementFacts DEF ProxyInv
<1>5. /\ acks' = Tail(acks) /\ exact' \in BOOLEAN /\ locker' = [pc |-> "woken"]
      /\ UNCHANGED <<fmq, pendingWrites, sizePending, writer, startTime, resetTime, unhandled,
                     threadsRun, owner, inits, era, dropped, subhal, now, posted>>
  BY DEF AckArrives, queueVars, ownerVars
<1>6. refCount \in Nat /\ [pc |-> "woken"] \in LockerStates
  BY DEF ProxyInv, TypeOK, LockerStates, ThreadStates
<1> QED
  BY <1>2, <1>4, <1>5, <1>6 DEF ProxyInv, TypeOK, HeldIffCounted, SingleWriter, Rested, Joined, Sized,
       AcksFinite, LocksForWakeups

LEMMA FrameworkKeeps ==
    ASSUME ProxyInv, HandleEvents \/ \E n \in 1 .. Len(fmq) : ReadEvents(n)
    PROVE  ProxyInv'
<1>1. CASE HandleEvents
  <2>1. /\ acks' = Append(acks, unhandled) /\ unhandled' = {}
        /\ UNCHANGED <<fmq, pendingWrites, sizePending, writer, refCount, held, startTime,
                       resetTime, locker, threadsRun, owner, inits, era, dropped, exact,
                       subhal, now, posted>>
    BY <1>1 DEF HandleEvents, queueVars, lockVars, ownerVars, historyVars
  <2>2. /\ acks' \in Seq(SUBSET Event)
        /\ \A i \in DOMAIN acks' : IsFiniteSet(acks'[i])
        /\ IsFiniteSet(unhandled')
    <3>1. /\ acks \in Seq(SUBSET Event) /\ unhandled \in SUBSET Event
          /\ IsFiniteSet(unhandled)
          /\ \A i \in DOMAIN acks : IsFiniteSet(acks[i])
      BY DEF ProxyInv, TypeOK, AcksFinite
    <3>2. /\ acks' \in Seq(SUBSET Event)
          /\ \A i \in DOMAIN acks' : acks'[i] = unhandled \/ (i \in DOMAIN acks /\ acks'[i] = acks[i])
      BY <2>1, <3>1
    <3> QED
      BY <2>1, <3>1, <3>2, FS_EmptySet
  <2> QED
    BY <2>1, <2>2 DEF ProxyInv, TypeOK, HeldIffCounted, SingleWriter, Rested, Joined, Sized,
       AcksFinite, LocksForWakeups
<1>2. ASSUME NEW n \in 1 .. Len(fmq), ReadEvents(n)
      PROVE  ProxyInv'
  <2>1. /\ fmq' = SubSeq(fmq, n + 1, Len(fmq))
        /\ unhandled' = unhandled \union Wakeups(SubSeq(fmq, 1, n))
        /\ UNCHANGED <<pendingWrites, sizePending, writer, refCount, held, startTime,
                       resetTime, locker, acks, threadsRun, owner, inits, era, dropped, exact,
                       subhal, now, posted>>
    BY <1>2 DEF ReadEvents, lockVars, ownerVars, historyVars
  <2>2. fmq \in Seq(Event) /\ Len(fmq) \in Nat /\ Len(fmq) <= QueueSize
    BY DEF ProxyInv, TypeOK
  <2>3. fmq' \in Seq(Event) /\ Len(fmq') <= QueueSize
    BY <2>1, <2>2, PartOfSeq, SensorsAssumption
  <2>4. SubSeq(fmq, 1, n) \in Seq(Event)
    BY <2>2, PartOfSeq
  <2>5. unhandled' \subseteq Event /\ IsFiniteSet(unhandled')
    BY <2>1, <2>4, WakeupsAreEvents, WakeupsFinite, FS_Union DEF ProxyInv, TypeOK, AcksFinite
  <2> QED
    BY <2>1, <2>3, <2>5 DEF ProxyInv, TypeOK, HeldIffCounted, SingleWriter, Rested, Joined, Sized,
       AcksFinite, LocksForWakeups
<1> QED
  BY <1>1, <1>2

LEMMA CreateKeeps ==
    ASSUME ProxyInv, NEW s \in SubHals, NEW shape \in BatchShapes, CreateScopedWakelock(s, shape)
    PROVE  ProxyInv'
<1> DEFINE locked == HasWakeup(shape) /\ threadsRun
           call == [pc |-> "created", shape |-> shape, locked |-> locked,
                    createdAt |-> now, era |-> era]
<1>1. /\ subhal' = [subhal EXCEPT ![s] = call]
      /\ IF HasWakeup(shape) THEN Increment(1) ELSE UNCHANGED lockVars
      /\ UNCHANGED <<fmq, pendingWrites, sizePending, writer, unhandled, acks, threadsRun, owner,
                     inits, era, dropped, exact, now, posted>>
  BY DEF CreateScopedWakelock, queueVars, frameVars, ownerVars, historyVars
<1>2. /\ refCount' \in Nat /\ held' \in BOOLEAN
      /\ startTime' \in Nat /\ resetTime' \in Nat /\ locker' \in LockerStates
      /\ held' <=> refCount' > 0
      /\ threadsRun => (locker'.pc \in {"checked", "waiting"} => refCount' = 0)
  <2>1. CASE HasWakeup(shape)
    BY <1>1, <2>1, IncrementFacts DEF ProxyInv
  <2>2. CASE ~HasWakeup(shape)
    BY <1>1, <2>2 DEF ProxyInv, TypeOK, HeldIffCounted, Rested, lockVars
  <2> QED
    BY <2>1, <2>2
<1>3. call \in SubHalStates /\ call # Idle /\ (call.locked => HasWakeup(call.shape))
  <2>1. shape \in Seq(BOOLEAN) /\ locked \in BOOLEAN
    BY SensorsAssumption
  <2>2. call \in SubHalStates
    <3>1. now \in Nat /\ era \in Nat
      BY DEF ProxyInv, TypeOK
    <3> HIDE DEF locked
    <3> QED
      BY <2>1, <3>1 DEF SubHalStates
  <2>3. call # Idle
    <3>1. call.pc # Idle.pc
      BY DEF Idle
    <3> QED
      BY <3>1
  <2> QED
    BY <2>2, <2>3
<1>4. /\ DOMAIN subhal' = SubHals
      /\ \A u \in SubHals : subhal'[u] \in SubHalStates
      /\ \A u \in SubHals : subhal'[u] # Idle /\ subhal'[u].locked => HasWakeup(subhal'[u].shape)
  <2> HIDE DEF call
  <2>1. /\ DOMAIN subhal = SubHals
        /\ \A u \in SubHals : subhal[u] \in SubHalStates
        /\ \A u \in SubHals : subhal[u] # Idle /\ subhal[u].locked => HasWakeup(subhal[u].shape)
    BY DEF ProxyInv, TypeOK, LocksForWakeups
  <2> QED
    BY <1>1, <1>3, <2>1
<1> QED
  BY <1>1, <1>2, <1>4 DEF ProxyInv, TypeOK, HeldIffCounted, SingleWriter, Rested, Joined, Sized,
       AcksFinite, LocksForWakeups

\* The next step of a call keeps what the call carries.
LEMMA CallGoesOn ==
    ASSUME TypeOK, LocksForWakeups, NEW s \in SubHals, subhal[s] # Idle,
           NEW pc \in {"created", "posting", "posted"}, subhal' = [subhal EXCEPT ![s].pc = pc]
    PROVE  /\ DOMAIN subhal' = SubHals
           /\ \A u \in SubHals : subhal'[u] \in SubHalStates
           /\ LocksForWakeups'
<1> DEFINE call == [subhal[s] EXCEPT !.pc = pc]
<1>1. subhal[s] \in SubHalStates \ {Idle}
  BY DEF TypeOK
<1>2. /\ call \in SubHalStates
      /\ call.locked = subhal[s].locked /\ call.shape = subhal[s].shape
  BY <1>1 DEF SubHalStates
<1>3. subhal' = [subhal EXCEPT ![s] = call]
  BY DEF TypeOK
<1> HIDE DEF call
<1>4. /\ DOMAIN subhal' = SubHals
      /\ \A u \in SubHals : subhal'[u] = IF u = s THEN call ELSE subhal[u]
  BY <1>3 DEF TypeOK
<1> QED
  BY <1>2, <1>4 DEF TypeOK, LocksForWakeups

LEMMA NotIdle ==
    ASSUME NEW s \in SubHals, subhal[s].pc # "idle"
    PROVE  subhal[s] # Idle
BY DEF Idle

LEMMA PostEventsKeeps ==
    ASSUME ProxyInv, NEW s \in SubHals, PostEvents(s)
    PROVE  ProxyInv'
<1> DEFINE pc == IF threadsRun THEN "posting" ELSE "posted"
<1>1. /\ subhal' = [subhal EXCEPT ![s].pc = pc] /\ subhal[s] # Idle
      /\ UNCHANGED <<fmq, pendingWrites, sizePending, writer, refCount, held, startTime, resetTime,
                     locker, unhandled, acks, threadsRun, owner, inits, era, dropped, exact,
                     now, posted>>
  BY NotIdle DEF PostEvents, queueVars, lockVars, frameVars, ownerVars, historyVars
<1>2. /\ DOMAIN subhal' = SubHals
      /\ \A u \in SubHals : subhal'[u] \in SubHalStates
      /\ LocksForWakeups'
  <2>1. pc \in {"created", "posting", "posted"}
    OBVIOUS
  <2> HIDE DEF pc
  <2> QED
    BY <1>1, <2>1, CallGoesOn DEF ProxyInv
<1> QED
  BY <1>1, <1>2 DEF ProxyInv, TypeOK, HeldIffCounted, SingleWriter, Rested, Joined, Sized,
       AcksFinite, LocksForWakeups

LEMMA DestroyKeeps ==
    ASSUME ProxyInv, NEW s \in SubHals, DestroyScopedWakelock(s)
    PROVE  ProxyInv'
<1>1. /\ subhal' = [subhal EXCEPT ![s] = Idle] /\ subhal[s] # Idle
      /\ UNCHANGED <<fmq, pendingWrites, sizePending, writer, startTime, resetTime,
                     locker, unhandled, acks, threadsRun, owner, inits, era, dropped,
                     now, posted>>
  BY NotIdle DEF DestroyScopedWakelock, queueVars, frameVars, ownerVars
<1>2. /\ refCount' \in Nat /\ held' \in BOOLEAN /\ refCount' <= refCount
      /\ held' <=> refCount' > 0
      /\ exact' \in BOOLEAN
  <2>1. CASE subhal[s].locked
    <3>1. subhal[s].createdAt \in Nat
      BY <1>1 DEF ProxyInv, TypeOK, SubHalStates
    <3>2. Decrement(1, subhal[s].createdAt) /\ exact' \in BOOLEAN
      BY <2>1 DEF DestroyScopedWakelock
    <3> QED
      BY <3>1, <3>2, DecrementFacts DEF ProxyInv
  <2>2. CASE ~subhal[s].locked
    BY <2>2 DEF DestroyScopedWakelock, ProxyInv, TypeOK, HeldIffCounted
  <2> QED
    BY <2>1, <2>2
<1>3. /\ DOMAIN subhal' = SubHals
      /\ \A u \in SubHals : subhal'[u] \in SubHalStates
      /\ \A u \in SubHals : subhal'[u] # Idle => subhal'[u] = subhal[u]
  BY <1>1 DEF ProxyInv, TypeOK, SubHalStates
<1>4. refCount \in Nat
  BY DEF ProxyInv, TypeOK
<1> QED
  BY <1>1, <1>2, <1>3, <1>4 DEF ProxyInv, TypeOK, HeldIffCounted, SingleWriter, Rested, Joined, Sized,
       AcksFinite, LocksForWakeups

LEMMA BatchFacts ==
    ASSUME TypeOK, NEW s \in SubHals, subhal[s] # Idle
    PROVE  /\ Batch(s) \in Seq(Event)
           /\ Len(Batch(s)) \in Nat
           /\ HasWakeup(subhal[s].shape) => Cardinality(Wakeups(Batch(s))) \in Nat \ {0}
<1> DEFINE shape == subhal[s].shape
<1>1. shape \in Seq(BOOLEAN)
  BY DEF TypeOK, SubHalStates
<1>2. \A i \in 1 .. Len(shape) :
          [n |-> posted + i, wake |-> shape[i], era |-> era] \in Event
  <2>1. \A i \in 1 .. Len(shape) : shape[i] \in BOOLEAN
    BY <1>1
  <2>2. posted \in Nat /\ era \in Nat
    BY DEF TypeOK
  <2> HIDE DEF shape
  <2> QED
    BY <2>1, <2>2 DEF Event
<1>3. /\ DOMAIN shape = 1 .. Len(shape) /\ Len(shape) \in Nat
      /\ Batch(s) = [i \in 1 .. Len(shape) |->
                       [n |-> posted + i, wake |-> shape[i], era |-> era]]
  BY <1>1 DEF Batch
<1>4. Batch(s) \in Seq(Event) /\ Len(Batch(s)) = Len(shape)
  <2> HIDE DEF shape
  <2> QED
    BY <1>2, <1>3
<1>5. ASSUME HasWakeup(shape)
      PROVE  Wakeups(Batch(s)) # {}
  <2>1. PICK i \in DOMAIN shape : shape[i] = TRUE
    BY <1>5 DEF HasWakeup, Elements
  <2>2. i \in DOMAIN Batch(s) /\ Batch(s)[i].wake = TRUE
    <3> HIDE DEF shape
    <3> QED
      BY <1>3, <1>4, <2>1
  <2> QED
    BY <2>2 DEF Wakeups, Elements
<1>6. HasWakeup(shape) => Cardinality(Wakeups(Batch(s))) # 0
  BY <1>4, <1>5, WakeupsFinite, FS_EmptySet
<1> QED
  BY <1>3, <1>4, <1>6, WakeupsFinite

LEMMA PostKeeps ==
    ASSUME ProxyInv, NEW s \in SubHals, PostEventsToMessageQueue(s)
    PROVE  ProxyInv'
<1> DEFINE events  == Batch(s)
           wakeups == Cardinality(Wakeups(events))
           direct  == Direct(events)
           left    == SubSeq(events, direct + 1, Len(events))
           entry   == [events |-> left, numWakeupEvents |-> wakeups]
<1>1. subhal[s] # Idle
  BY NotIdle DEF PostEventsToMessageQueue
<1>2. /\ events \in Seq(Event) /\ Len(events) \in Nat
      /\ wakeups \in Nat
      /\ subhal[s].locked => wakeups # 0
  BY <1>1, BatchFacts, WakeupsFinite DEF ProxyInv, LocksForWakeups
<1>3. /\ fmq \in Seq(Event) /\ Len(fmq) \in Nat /\ Len(fmq) <= QueueSize /\ QueueSize \in Nat
  BY SensorsAssumption DEF ProxyInv, TypeOK
<1>4. direct \in Nat /\ direct <= Len(events) /\ Len(fmq) + direct <= QueueSize
  <2> HIDE DEF events
  <2> QED
    BY <1>2, <1>3 DEF Direct, Least
<1>5. left \in Seq(Event) /\ entry \in Entry /\ Len(left) \in Nat
  <2>1. left \in Seq(Event)
    <3> HIDE DEF events, direct
    <3> QED
      BY <1>2, <1>4, PartOfSeq
  <2> HIDE DEF left, wakeups
  <2> QED
    BY <1>2, <2>1 DEF Entry
<1>6. /\ writer # "checked"
      /\ IF subhal[s].locked THEN Increment(wakeups) ELSE UNCHANGED lockVars
      /\ fmq' = fmq \o SubSeq(events, 1, direct)
      /\ IF left # <<>> /\ Fits(Len(left))
         THEN /\ pendingWrites' = Append(pendingWrites, entry)
              /\ sizePending' = sizePending + Len(left)
              /\ writer' = Notified(writer)
              /\ UNCHANGED dropped
         ELSE /\ dropped' = dropped + Cardinality(Wakeups(left))
              /\ UNCHANGED <<pendingWrites, sizePending, writer>>
      /\ posted' = posted + Len(events)
      /\ subhal' = [subhal EXCEPT ![s].pc = "posted"]
      /\ UNCHANGED <<unhandled, acks, threadsRun, owner, inits, era, exact, now>>
  BY DEF PostEventsToMessageQueue, EventMutexFree, frameVars, ownerVars
<1> HIDE DEF events, wakeups, direct, left
<1>7. fmq' \in Seq(Event) /\ Len(fmq') <= QueueSize
  <2>1. SubSeq(events, 1, direct) \in Seq(Event) /\ Len(SubSeq(events, 1, direct)) = direct
    BY <1>2, <1>4, PartOfSeq
  <2> QED
    BY <1>3, <1>4, <1>6, <2>1, ConcatOfSeqs
<1>8. /\ refCount' \in Nat /\ held' \in BOOLEAN
      /\ startTime' \in Nat /\ resetTime' \in Nat /\ locker' \in LockerStates
      /\ held' <=> refCount' > 0
      /\ threadsRun => (locker'.pc \in {"checked", "waiting"} => refCount' = 0)
  <2>1. CASE subhal[s].locked
    BY <1>2, <1>6, <2>1, IncrementFacts DEF ProxyInv
  <2>2. CASE ~subhal[s].locked
    BY <1>6, <2>2 DEF ProxyInv, TypeOK, HeldIffCounted, Rested, lockVars
  <2> QED
    BY <2>1, <2>2
<1>9. /\ pendingWrites' \in Seq(Entry) /\ sizePending' \in Nat /\ dropped' \in Nat
      /\ writer' \in WriterStates
      /\ Sized' /\ SingleWriter' /\ Joined'
      /\ threadsRun => (writer' \in {"checked", "waiting"} => pendingWrites' = <<>>)
  <2>0. /\ pendingWrites \in Seq(Entry) /\ sizePending \in Nat
        /\ Counts(pendingWrites, sizePending)
    BY QueueTyped DEF ProxyInv, TypeOK, Sized
  <2>1. CASE left # <<>> /\ Fits(Len(left))
    <3>1. /\ pendingWrites' = Append(pendingWrites, entry)
          /\ sizePending' = sizePending + Len(left)
          /\ writer' = Notified(writer) /\ dropped' = dropped
      BY <1>6, <2>1
    <3>2. pendingWrites' \in Seq(Entry) /\ pendingWrites' # <<>>
      <4> HIDE DEF entry
      <4> QED
        BY <1>5, <2>0, <3>1
    <3>3. Counts(pendingWrites', sizePending')
      <4>1. entry.events = left
        OBVIOUS
      <4> HIDE DEF entry
      <4> QED
        BY <1>5, <2>0, <3>1, <4>1, CountsAppend
    <3>4. sizePending' <= MaxPendingWrites /\ sizePending' \in Nat
      BY <1>5, <2>0, <2>1, <3>1 DEF Fits
    <3>5. /\ writer' \in WriterStates /\ writer' \notin {"checked", "waiting"}
          /\ writer = "exited" => writer' = "exited"
      BY <1>6, <3>1 DEF ProxyInv, TypeOK, WriterStates, ThreadStates, Notified
    <3> QED
      BY <1>6, <3>1, <3>2, <3>3, <3>4, <3>5 DEF ProxyInv, TypeOK, SingleWriter, Joined, Sized
  <2>2. CASE ~(left # <<>> /\ Fits(Len(left)))
    <3>1. /\ dropped' = dropped + Cardinality(Wakeups(left))
          /\ UNCHANGED <<pendingWrites, sizePending, writer>>
      BY <1>6, <2>2
    <3>2. Cardinality(Wakeups(left)) \in Nat
      BY <1>5, WakeupsFinite
    <3>3. dropped \in Nat /\ sizePending <= MaxPendingWrites
      BY DEF ProxyInv, TypeOK, Sized
    <3>4. dropped' \in Nat
      BY <3>1, <3>2, <3>3
    <3>5. Sized'
      BY <2>0, <3>1, <3>3 DEF Sized
    <3>6. /\ writer \in WriterStates /\ SingleWriter /\ Joined
          /\ threadsRun => (writer \in {"checked", "waiting"} => pendingWrites = <<>>)
      BY DEF ProxyInv, TypeOK, Rested
    <3>7. owner' = owner
      BY <1>6
    <3> HIDE DEF entry
    <3> QED
      BY <2>0, <3>1, <3>4, <3>5, <3>6, <3>7 DEF SingleWriter, Joined
  <2> QED
    BY <2>1, <2>2
<1>10. /\ DOMAIN subhal' = SubHals
       /\ \A u \in SubHals : subhal'[u] \in SubHalStates
       /\ LocksForWakeups'
  <2> DEFINE pc == "posted"
  <2>1. pc \in {"created", "posting", "posted"} /\ subhal' = [subhal EXCEPT ![s].pc = pc]
    BY <1>6
  <2> HIDE DEF pc
  <2> QED
    BY <1>1, <2>1, CallGoesOn DEF ProxyInv
<1>11. posted' \in Nat
  <2>1. posted \in Nat
    BY DEF ProxyInv, TypeOK
  <2>2. posted' = posted + Len(events)
    BY <1>6
  <2> QED
    BY <1>2, <2>1, <2>2
<1> QED
  BY <1>6, <1>7, <1>8, <1>9, <1>10, <1>11 DEF ProxyInv, TypeOK, HeldIffCounted, Rested,
       AcksFinite, Entry

LEMMA CountsEmpty == Counts(<<>>, 0)
<1> DEFINE sum == [q \in 0 .. Len(<<>>) |-> 0]
<1>1. Len(<<>>) = 0
  OBVIOUS
<1>2. sum \in [0 .. Len(<<>>) -> Nat] /\ IsSum(sum, <<>>, 0)
  BY <1>1 DEF IsSum
<1> QED
  BY <1>2 DEF Counts

LEMMA StopKeeps ==
    ASSUME ProxyInv, StopThreads \/ StopDrains \/ StopNotifies \/ JoinThreads
    PROVE  ProxyInv'
<1>1. CASE StopThreads
  BY <1>1 DEF StopThreads, queueVars, lockVars, frameVars, ProxyInv, TypeOK, HeldIffCounted,
       SingleWriter, Rested, Joined, Sized, AcksFinite, LocksForWakeups, OwnerStates
<1>2. CASE StopDrains
  <2>1. /\ fmq' = <<>> /\ acks' = Append(acks, {}) /\ owner' = "drained" /\ owner = "flagged"
        /\ UNCHANGED <<pendingWrites, sizePending, writer, refCount, held, startTime, resetTime,
                       locker, unhandled, threadsRun, inits, era, dropped, exact, subhal, now, posted>>
    BY <1>2 DEF StopDrains, lockVars, historyVars
  <2>2. fmq' \in Seq(Event) /\ Len(fmq') <= QueueSize
    BY <2>1, SensorsAssumption
  <2>3. acks \in Seq(SUBSET Event) /\ \A i \in DOMAIN acks : IsFiniteSet(acks[i])
    BY DEF ProxyInv, TypeOK, AcksFinite
  <2>4. /\ acks' \in Seq(SUBSET Event)
        /\ \A i \in DOMAIN acks' : acks'[i] = {} \/ (i \in DOMAIN acks /\ acks'[i] = acks[i])
    BY <2>1, <2>3
  <2>5. \A i \in DOMAIN acks' : IsFiniteSet(acks'[i])
    BY <2>3, <2>4, FS_EmptySet
  <2> QED
    BY <2>1, <2>2, <2>4, <2>5 DEF ProxyInv, TypeOK, HeldIffCounted, SingleWriter, Rested, Joined,
       Sized, AcksFinite, LocksForWakeups, OwnerStates
<1>3. CASE StopNotifies
  <2>1. /\ writer' = Notified(writer) /\ owner = "drained" /\ owner' = "notified"
        /\ locker' = [locker EXCEPT !.pc = Notified(@)]
        /\ UNCHANGED <<fmq, pendingWrites, sizePending, refCount, held, startTime, resetTime,
                       unhandled, acks, threadsRun, inits, era, dropped, exact, subhal, now, posted>>
    BY <1>3 DEF StopNotifies, frameVars, historyVars
  <2>2. /\ locker' \in LockerStates
        /\ locker'.pc = Notified(locker.pc)
    BY <2>1, LockerNotified DEF ProxyInv, TypeOK
  <2>3. /\ writer' \in WriterStates
        /\ writer' \in {"writing", "written", "failed"} => writer' = writer
        /\ writer' \in {"checked", "waiting"} => writer' = writer
    BY <2>1 DEF ProxyInv, TypeOK, WriterStates, ThreadStates, Notified
  <2>4. locker'.pc \in {"checked", "waiting"} => locker'.pc = locker.pc
    BY <2>2 DEF Notified
  <2> QED
    BY <2>1, <2>2, <2>3, <2>4 DEF ProxyInv, TypeOK, HeldIffCounted, SingleWriter, Rested, Joined,
       Sized, AcksFinite, LocksForWakeups, OwnerStates
<1>4. CASE JoinThreads
  BY <1>4 DEF JoinThreads, queueVars, lockVars, frameVars, historyVars, ProxyInv, TypeOK,
       HeldIffCounted, SingleWriter, Rested, Joined, Sized, AcksFinite, LocksForWakeups, OwnerStates
<1> QED
  BY <1>1, <1>2, <1>3, <1>4

LEMMA ClearQueuesKeeps == ASSUME ProxyInv, ClearQueues PROVE ProxyInv'
<1>1. /\ Decrement(refCount, resetTime) /\ resetTime' = now
      /\ pendingWrites' = <<>> /\ sizePending' = 0
      /\ fmq' = <<>> /\ acks' = <<>> /\ unhandled' = {}
      /\ owner = "joined" /\ owner' = "cleared"
      /\ UNCHANGED <<writer, startTime, locker, threadsRun, inits, era, dropped, exact,
                     subhal, now, posted>>
  BY DEF ClearQueues, historyVars
<1>2. refCount \in Nat /\ resetTime \in Nat
  BY DEF ProxyInv, TypeOK
<1>3. /\ refCount' \in Nat /\ held' \in BOOLEAN
      /\ refCount' <= refCount
      /\ held' <=> refCount' > 0
  BY <1>1, <1>2, DecrementFacts DEF ProxyInv
<1>4. writer = "exited"
  BY <1>1 DEF ProxyInv, Joined
<1>5. /\ fmq' \in Seq(Event) /\ Len(fmq') <= QueueSize
      /\ acks' \in Seq(SUBSET Event)
      /\ pendingWrites' \in Seq([events : Seq(Event), numWakeupEvents : Nat])
  BY <1>1, SensorsAssumption
<1>6. AcksFinite'
  BY <1>1, FS_EmptySet DEF AcksFinite
<1>7. Sized'
  BY <1>1, CountsEmpty, SensorsAssumption DEF Sized
<1> QED
  BY <1>1, <1>2, <1>3, <1>4, <1>5, <1>6, <1>7 DEF ProxyInv, TypeOK, HeldIffCounted, SingleWriter,
       Rested, Joined, LocksForWakeups, OwnerStates

LEMMA StartThreadsKeeps == ASSUME ProxyInv, StartThreads PROVE ProxyInv'
<1>1. /\ threadsRun' = TRUE /\ writer' = "woken" /\ locker' = [pc |-> "woken"]
      /\ owner' = "serving" /\ inits' = inits + 1
      /\ UNCHANGED <<fmq, pendingWrites, sizePending, refCount, held, startTime, resetTime,
                     unhandled, acks, era, dropped, exact, subhal, now, posted>>
  BY DEF StartThreads, frameVars, historyVars
<1>2. locker' \in LockerStates /\ locker'.pc = "woken"
  BY <1>1 DEF LockerStates, ThreadStates
<1> QED
  BY <1>1, <1>2 DEF ProxyInv, TypeOK, HeldIffCounted, SingleWriter, Rested, Joined, Sized,
       AcksFinite, LocksForWakeups, OwnerStates, WriterStates, ThreadStates

LEMMA TickKeeps == ASSUME ProxyInv, Tick \/ UNCHANGED vars PROVE ProxyInv'
<1>1. UNCHANGED <<fmq, pendingWrites, sizePending, writer, refCount, held, startTime, resetTime,
                  locker, unhandled, acks, threadsRun, owner, inits, era, dropped, exact,
                  subhal, posted>>
  BY DEF Tick, vars, queueVars, lockVars, frameVars, ownerVars, historyVars
<1>2. now' \in Nat
  <2>1. now \in Nat /\ (now' = now + 1 \/ now' = now)
    BY DEF Tick, vars, ProxyInv, TypeOK
  <2> QED
    BY <2>1
<1> QED
  BY <1>1, <1>2 DEF ProxyInv, TypeOK, HeldIffCounted, SingleWriter, Rested, Joined, Sized,
       AcksFinite, LocksForWakeups
-----------------------------------------------------------------------------
(* The theorems *)

LEMMA Initial == Init => ProxyInv
<1> SUFFICES ASSUME Init PROVE ProxyInv
  OBVIOUS
<1>1. DOMAIN subhal = SubHals /\ \A s \in SubHals : subhal[s] = Idle
  BY DEF Init
<1>2. \A s \in SubHals : subhal[s] \in SubHalStates
  BY <1>1 DEF SubHalStates
<1>3. /\ fmq \in Seq(Event) /\ Len(fmq) <= QueueSize
      /\ acks \in Seq(SUBSET Event) /\ \A i \in DOMAIN acks : IsFiniteSet(acks[i])
      /\ pendingWrites \in Seq([events : Seq(Event), numWakeupEvents : Nat])
  BY SensorsAssumption DEF Init
<1>4. Sized /\ IsFiniteSet(unhandled)
  BY CountsEmpty, SensorsAssumption, FS_EmptySet DEF Init, Sized
<1>5. locker \in LockerStates /\ locker.pc = "woken"
  BY DEF Init, LockerStates, ThreadStates
<1>6. TypeOK
  <2>1. /\ threadsRun \in BOOLEAN /\ held \in BOOLEAN /\ exact \in BOOLEAN
        /\ sizePending \in Nat /\ refCount \in Nat /\ startTime \in Nat /\ resetTime \in Nat
        /\ now \in Nat /\ inits \in Nat /\ posted \in Nat /\ era \in Nat /\ dropped \in Nat
        /\ unhandled \subseteq Event
    BY DEF Init
  <2>2. writer \in WriterStates /\ owner \in OwnerStates
    BY DEF Init, WriterStates, ThreadStates, OwnerStates
  <2> QED
    BY <1>1, <1>2, <1>3, <1>5, <2>1, <2>2 DEF TypeOK
<1>7. HeldIffCounted
  <2>1. held = FALSE /\ refCount = 0
    BY DEF Init
  <2> QED
    BY <2>1 DEF HeldIffCounted
<1>8. SingleWriter /\ Rested /\ Joined /\ AcksFinite /\ LocksForWakeups
  BY <1>1, <1>3, <1>4, <1>5 DEF Init, SingleWriter, Rested, Joined, AcksFinite, LocksForWakeups
<1> QED
  BY <1>4, <1>6, <1>7, <1>8 DEF ProxyInv

LEMMA Inductive == ProxyInv /\ [Next]_vars => ProxyInv'
<1> SUFFICES ASSUME ProxyInv, [Next]_vars PROVE ProxyInv'
  OBVIOUS
<1>1. CASE WriterNext
  BY <1>1, WriterChecksKeeps, WriterWaitsKeeps, WriteBlockingKeeps, WriteTimesOutKeeps,
     WriterPopsKeeps DEF WriterNext
<1>2. CASE LockerNext
  BY <1>2, WakelockTimesOutKeeps, AckArrivesKeeps, LockerIdles DEF LockerNext
<1>3. ASSUME NEW s \in SubHals, SubHalGoesOn(s)
      PROVE  ProxyInv'
  BY <1>3, PostEventsKeeps, PostKeeps, DestroyKeeps DEF SubHalGoesOn
<1>4. ASSUME NEW s \in SubHals, NEW shape \in BatchShapes, CreateScopedWakelock(s, shape)
      PROVE  ProxyInv'
  BY <1>4, CreateKeeps
<1>5. CASE HandleEvents \/ \E n \in 1 .. Len(fmq) : ReadEvents(n)
  BY <1>5, FrameworkKeeps
<1>6. CASE StopThreads \/ OwnerGoesOn
  BY <1>6, StopKeeps, ClearQueuesKeeps, StartThreadsKeeps DEF OwnerGoesOn
<1>7. CASE Tick \/ UNCHANGED vars
  BY <1>7, TickKeeps
<1> QED
  BY <1>1, <1>2, <1>3, <1>4, <1>5, <1>6, <1>7 DEF Next

\* The inductive invariant holds in every reachable state.
THEOREM ProxyInvHolds == Spec => []ProxyInv
BY Initial, Inductive, PTL DEF Spec

\* The proxy's state is well typed: no counter goes below zero and the FMQ never
\* holds more than it has room for.
THEOREM TypeCorrect == Spec => []TypeOK
<1>1. ProxyInv => TypeOK
  BY DEF ProxyInv
<1> QED
  BY <1>1, ProxyInvHolds, PTL

\* incrementRefCountAndMaybeAcquireWakelock and its counterpart hold the system's
\* wakelock exactly while something is counted.
THEOREM WakelockHeldIffCounted == Spec => []HeldIffCounted
<1>1. ProxyInv => HeldIffCounted
  BY DEF ProxyInv
<1> QED
  BY <1>1, ProxyInvHolds, PTL

\* Sub-HALs and the pending writes thread are never both about to write to the FMQ.
THEOREM OneWriter == Spec => []SingleWriter
<1>1. ProxyInv => SingleWriter
  BY DEF ProxyInv
<1> QED
  BY <1>1, ProxyInvHolds, PTL

\* Neither thread sleeps while the other side has left it work.
THEOREM NoSleepWithWork == Spec => []NoLostWakeup
<1>1. ProxyInv => NoLostWakeup
  BY DEF ProxyInv, Rested, NoLostWakeup
<1> QED
  BY <1>1, ProxyInvHolds, PTL

\* mSizePendingWriteEventsQueue is the number of the queued events, and limited.
THEOREM QueueSizeKept == Spec => []QueueWithinLimit
<1>1. ASSUME ProxyInv PROVE QueueWithinLimit
  <2>1. PICK sum \in [0 .. Len(pendingWrites) -> Nat] : IsSum(sum, pendingWrites, sizePending)
    BY <1>1 DEF ProxyInv, Sized, Counts
  <2>2. Len(pendingWrites) \in Nat /\ DOMAIN pendingWrites = 1 .. Len(pendingWrites)
    BY <1>1 DEF ProxyInv, TypeOK
  <2>3. \A q \in 0 .. Len(pendingWrites) : sum[q] \in 0 .. sizePending
    BY <2>1, <2>2 DEF IsSum
  <2>4. sum \in [0 .. Len(pendingWrites) -> 0 .. sizePending]
    BY <2>1, <2>3
  <2> QED
    BY <1>1, <2>1, <2>2, <2>4 DEF ProxyInv, Sized, QueueWithinLimit, IsSum
<1> QED
  BY <1>1, ProxyInvHolds, PTL
-----------------------------------------------------------------------------
(* Order.  The events under way are those the framework has seen, the FMQ  *)
(* and the queue, in this order.                                           *)

Ordered(u, f, r) ==
    /\ \A i, j \in DOMAIN f : i < j => f[i].n < f[j].n
    /\ \A e \in u, i \in DOMAIN f : e.n < f[i].n
    /\ \A q \in DOMAIN r : \A i \in DOMAIN r[q].events :
          /\ \A j \in DOMAIN r[q].events : i < j => r[q].events[i].n < r[q].events[j].n
          /\ \A j \in DOMAIN f : f[j].n < r[q].events[i].n
          /\ \A e \in u : e.n < r[q].events[i].n
          /\ \A p \in 1 .. q - 1 : \A j \in DOMAIN r[p].events :
                 r[p].events[j].n < r[q].events[i].n

\* Nothing under way is newer than what was posted.
UpTo(m, u, f, r) ==
    /\ \A e \in u : e.n <= m
    /\ \A i \in DOMAIN f : f[i].n <= m
    /\ \A q \in DOMAIN r : \A i \in DOMAIN r[q].events : r[q].events[i].n <= m

\* What the framework has read and was not seen to handle.
Seen == unhandled \union UNION Elements(acks)

OrderInv == /\ Ordered(Seen, fmq, Rest)
            /\ UpTo(posted, Seen, fmq, Rest)

\* The queue without the events that are written together.
Left(r) == IF Len(Head(r).events) > QueueSize
           THEN [r EXCEPT ![1].events = SubSeq(@, QueueSize + 1, Len(@))]
           ELSE Tail(r)

LEMMA OrderedMeansInOrder == OrderInv => InOrder
BY DEF OrderInv, Seen, Ordered, InOrder, Increasing, Before, Elements

LEMMA EntriesTyped ==
    ASSUME NEW r \in Seq(Entry), NEW q \in DOMAIN r
    PROVE  /\ r[q].events \in Seq(Event)
           /\ \A i \in DOMAIN r[q].events : i \in Nat \ {0} /\ r[q].events[i].n \in Nat
<1>1. r[q] \in Entry
  OBVIOUS
<1>2. r[q].events \in Seq(Event)
  BY <1>1 DEF Entry
<1> DEFINE s == r[q].events
<1> HIDE DEF s
<1>3. ASSUME s \in Seq(Event)
      PROVE  \A i \in DOMAIN s : i \in Nat \ {0} /\ s[i].n \in Nat
  <2>1. \A i \in DOMAIN s : i \in Nat \ {0} /\ s[i] \in Event
    BY <1>3
  <2>2. \A e \in Event : e.n \in Nat
    BY DEF Event
  <2> QED
    BY <2>1, <2>2
<1> QED
  BY <1>2, <1>3 DEF s

LEMMA LeftIs ==
    ASSUME NEW r \in Seq(Entry), r # <<>>
    PROVE  /\ Left(r) \in Seq(Entry)
           /\ \/ /\ Len(r[1].events) > QueueSize
                 /\ Len(Left(r)) = Len(r)
                 /\ \A q \in 2 .. Len(r) : Left(r)[q] = r[q]
                 /\ Left(r)[1].events = SubSeq(r[1].events, QueueSize + 1, Len(r[1].events))
              \/ /\ Len(r[1].events) <= QueueSize
                 /\ Len(Left(r)) = Len(r) - 1
                 /\ \A q \in 1 .. Len(r) - 1 : Left(r)[q] = r[q + 1]
<1>1. r[1] \in Entry /\ Head(r) = r[1] /\ Len(r) \in Nat \ {0}
  OBVIOUS
<1>2. r[1].events \in Seq(Event) /\ Len(r[1].events) \in Nat /\ QueueSize \in Nat \ {0}
  BY <1>1, SensorsAssumption DEF Entry
<1>3. CASE Len(r[1].events) > QueueSize
  <2> DEFINE rest == SubSeq(r[1].events, QueueSize + 1, Len(r[1].events))
             e == [r[1] EXCEPT !.events = rest]
  <2>1. rest \in Seq(Event)
    BY <1>2, PartOfSeq
  <2> HIDE DEF rest
  <2>2. e \in Entry /\ e.events = rest
    BY <1>1, <2>1 DEF Entry
  <2>3. Left(r) = [r EXCEPT ![1] = e]
    BY <1>1, <1>3 DEF Left, rest
  <2> HIDE DEF e
  <2>4. /\ Left(r) \in Seq(Entry) /\ Len(Left(r)) = Len(r)
        /\ \A q \in 2 .. Len(r) : Left(r)[q] = r[q]
        /\ Left(r)[1] = e
    BY <1>1, <2>2, <2>3
  <2> QED
    BY <1>3, <2>2, <2>4 DEF rest
<1>4. CASE ~(Len(r[1].events) > QueueSize)
  <2>1. Left(r) = Tail(r)
    BY <1>1, <1>4 DEF Left
  <2>2. Left(r) \in Seq(Entry) /\ Len(Left(r)) = Len(r) - 1
        /\ \A q \in 1 .. Len(r) - 1 : Left(r)[q] = r[q + 1]
    BY <1>1, <2>1
  <2>3. Len(r[1].events) <= QueueSize
    BY <1>2, <1>4
  <2> QED
    BY <2>2, <2>3
<1> QED
  BY <1>3, <1>4

\* Removing the front of the queue, or moving it to the FMQ, keeps the order.
LEMMA LeftOrdered ==
    ASSUME NEW u \in SUBSET Event, NEW f \in Seq(Event), NEW r \in Seq(Entry), r # <<>>,
           NEW m \in Nat, Ordered(u, f, r), UpTo(m, u, f, r),
           NEW moved \in {<<>>, SubSeq(Head(r).events, 1, Least(Len(Head(r).events), QueueSize))}
    PROVE  Ordered(u, f \o moved, Left(r)) /\ UpTo(m, u, f \o moved, Left(r))
<1> DEFINE h == r[1].events
           k == Least(Len(h), QueueSize)
           l == Left(r)
           g == f \o moved
<1>1. Len(r) \in Nat \ {0} /\ Head(r) = r[1] /\ r[1] \in Entry
  OBVIOUS
<1>2. h \in Seq(Event) /\ Len(h) \in Nat /\ QueueSize \in Nat \ {0} /\ 1 \in DOMAIN r
  BY <1>1, SensorsAssumption DEF Entry
<1>3. k \in Nat /\ k <= Len(h) /\ k = (IF Len(h) > QueueSize THEN QueueSize ELSE Len(h))
  BY <1>2 DEF Least
<1>4. /\ l \in Seq(Entry)
      /\ \/ /\ Len(h) > QueueSize
            /\ Len(l) = Len(r)
            /\ \A q \in 2 .. Len(r) : l[q] = r[q]
            /\ l[1].events = SubSeq(h, QueueSize + 1, Len(h))
         \/ /\ Len(h) <= QueueSize
            /\ Len(l) = Len(r) - 1
            /\ \A q \in 1 .. Len(r) - 1 : l[q] = r[q + 1]
  BY LeftIs
<1>5. moved = <<>> \/ moved = SubSeq(h, 1, k)
  BY <1>1
<1>6. /\ g \in Seq(Event)
      /\ \A i \in DOMAIN g : \/ i \in DOMAIN f /\ g[i] = f[i]
                             \/ /\ i - Len(f) \in 1 .. k /\ i - Len(f) \in DOMAIN h
                                /\ g[i] = h[i - Len(f)] /\ i > Len(f)
  <2>1. CASE moved = <<>>
    BY <2>1
  <2>2. CASE moved = SubSeq(h, 1, k)
    <3>1. moved \in Seq(Event) /\ Len(moved) = k /\ \A i \in 1 .. k : moved[i] = h[i]
      BY <1>2, <1>3, <2>2
    <3> HIDE DEF k, h
    <3> QED
      BY <1>2, <1>3, <3>1
  <2> QED
    BY <1>5, <2>1, <2>2
<1> HIDE DEF h, k, g, l
\* Entry q of the queue has the events that entry from[q] had, without the
\* first off[q].
<1>7. PICK from \in [DOMAIN l -> DOMAIN r], off \in [DOMAIN l -> Nat] :
          /\ \A q \in DOMAIN l : \A i \in DOMAIN l[q].events :
                /\ i + off[q] \in DOMAIN r[from[q]].events
                /\ l[q].events[i] = r[from[q]].events[i + off[q]]
          /\ \A q \in DOMAIN l : from[q] > 1 \/ off[q] = k
          /\ \A q \in DOMAIN l : \A p \in 1 .. q - 1 : p \in DOMAIN l /\ from[p] < from[q]
  <2>1. CASE /\ Len(h) > QueueSize
             /\ Len(l) = Len(r)
             /\ \A q \in 2 .. Len(r) : l[q] = r[q]
             /\ l[1].events = SubSeq(h, QueueSize + 1, Len(h))
    <3> DEFINE from == [q \in DOMAIN l |-> q]
               off == [q \in DOMAIN l |-> IF q = 1 THEN k ELSE 0]
    <3>1. DOMAIN l = DOMAIN r /\ DOMAIN l = 1 .. Len(r)
      BY <1>1, <1>4, <2>1
    <3>2. from \in [DOMAIN l -> DOMAIN r] /\ off \in [DOMAIN l -> Nat]
      BY <1>3, <3>1
    <3>3. \A i \in DOMAIN l[1].events : i + k \in DOMAIN h /\ l[1].events[i] = h[i + k]
      BY <1>2, <1>3, <2>1
    <3>4. ASSUME NEW q \in DOMAIN l, NEW i \in DOMAIN l[q].events
          PROVE  /\ i + off[q] \in DOMAIN r[from[q]].events
                 /\ l[q].events[i] = r[from[q]].events[i + off[q]]
      <4>1. CASE q = 1
        BY <3>1, <3>3, <4>1 DEF h
      <4>2. CASE q # 1
        <5>1. l[q] = r[q] /\ off[q] = 0 /\ from[q] = q
          BY <1>1, <2>1, <3>1, <4>2
        <5>3. i \in Nat
          BY <3>1, <5>1, EntriesTyped
        <5> QED
          BY <5>1, <5>3
      <4> QED
        BY <4>1, <4>2
    <3>5. \A q \in DOMAIN l : from[q] > 1 \/ off[q] = k
      BY <3>1
    <3>6. \A q \in DOMAIN l : \A p \in 1 .. q - 1 : p \in DOMAIN l /\ from[p] < from[q]
      BY <3>1
    <3> HIDE DEF from, off
    <3> QED
      BY <3>2, <3>4, <3>5, <3>6
  <2>2. CASE /\ Len(h) <= QueueSize
             /\ Len(l) = Len(r) - 1
             /\ \A q \in 1 .. Len(r) - 1 : l[q] = r[q + 1]
    <3> DEFINE from == [q \in DOMAIN l |-> q + 1]
               off == [q \in DOMAIN l |-> 0]
    <3>1. DOMAIN l = 1 .. Len(r) - 1 /\ DOMAIN r = 1 .. Len(r)
      BY <1>1, <1>4, <2>2
    <3>2. from \in [DOMAIN l -> DOMAIN r] /\ off \in [DOMAIN l -> Nat]
      BY <1>1, <3>1
    <3>4. ASSUME NEW q \in DOMAIN l, NEW i \in DOMAIN l[q].events
          PROVE  /\ i + off[q] \in DOMAIN r[from[q]].events
                 /\ l[q].events[i] = r[from[q]].events[i + off[q]]
      <4>1. l[q] = r[q + 1] /\ off[q] = 0 /\ from[q] = q + 1
        BY <2>2, <3>1
      <4>2. q + 1 \in DOMAIN r
        BY <3>1
      <4>3. i \in Nat
        BY <4>1, <4>2, EntriesTyped
      <4> QED
        BY <4>1, <4>3
    <3>5. \A q \in DOMAIN l : from[q] > 1 \/ off[q] = k
      BY <3>1
    <3>6. \A q \in DOMAIN l : \A p \in 1 .. q - 1 : p \in DOMAIN l /\ from[p] < from[q]
      BY <3>1
    <3> HIDE DEF from, off
    <3> QED
      BY <3>2, <3>4, <3>5, <3>6
  <2> QED
    BY <1>4, <2>1, <2>2
<1>8. /\ DOMAIN r = 1 .. Len(r) /\ DOMAIN l \subseteq Nat
      /\ \A q \in DOMAIN l : from[q] \in Nat /\ off[q] \in Nat
      /\ \A q \in DOMAIN l : \A i \in DOMAIN l[q].events : i \in Nat \ {0}
      /\ \A q \in DOMAIN r : \A i \in DOMAIN r[q].events : r[q].events[i].n \in Nat /\ i \in Nat
      /\ \A i \in DOMAIN f : f[i].n \in Nat
      /\ \A e \in u : e.n \in Nat
  <2>1. \A q \in DOMAIN r : \A i \in DOMAIN r[q].events :
            i \in Nat \ {0} /\ r[q].events[i].n \in Nat
    BY EntriesTyped
  <2>2. \A q \in DOMAIN l : \A i \in DOMAIN l[q].events : i \in Nat \ {0}
    BY <1>4, EntriesTyped
  <2>3. \A e \in Event : e.n \in Nat
    BY DEF Event
  <2> QED
    BY <1>1, <1>4, <1>7, <2>1, <2>2, <2>3
<1>9. \A i \in DOMAIN g : \/ i \in DOMAIN f /\ g[i] = f[i]
                          \/ /\ i - Len(f) \in 1 .. k /\ i - Len(f) \in DOMAIN r[1].events
                             /\ g[i] = r[1].events[i - Len(f)] /\ i > Len(f)
  BY <1>6 DEF h
<1>10. ASSUME NEW i \in DOMAIN g, NEW j \in DOMAIN g, i < j
       PROVE  g[i].n < g[j].n
  <2>1. i \in Nat /\ j \in Nat /\ Len(f) \in Nat /\ DOMAIN f = 1 .. Len(f)
    BY <1>6
  <2>2. CASE j \in DOMAIN f /\ g[j] = f[j]
    <3>1. i \in DOMAIN f /\ g[i] = f[i]
      BY <1>9, <1>10, <2>1, <2>2
    <3> QED
      BY <1>10, <2>2, <3>1 DEF Ordered
  <2>3. CASE /\ j - Len(f) \in DOMAIN r[1].events /\ j > Len(f)
             /\ g[j] = r[1].events[j - Len(f)]
    <3>1. CASE i \in DOMAIN f /\ g[i] = f[i]
      BY <1>2, <2>3, <3>1 DEF Ordered
    <3>2. CASE /\ i - Len(f) \in DOMAIN r[1].events
               /\ g[i] = r[1].events[i - Len(f)]
      <4>1. i - Len(f) < j - Len(f)
        BY <1>10, <2>1
      <4> QED
        BY <1>2, <2>3, <3>2, <4>1 DEF Ordered
    <3> QED
      BY <1>9, <3>1, <3>2
  <2> QED
    BY <1>9, <2>2, <2>3
<1>11. ASSUME NEW e \in u, NEW i \in DOMAIN g
       PROVE  e.n < g[i].n
  BY <1>2, <1>9 DEF Ordered
<1>12. ASSUME NEW q \in DOMAIN l, NEW i \in DOMAIN l[q].events
       PROVE  /\ \A j \in DOMAIN l[q].events : i < j => l[q].events[i].n < l[q].events[j].n
              /\ \A j \in DOMAIN g : g[j].n < l[q].events[i].n
              /\ \A e \in u : e.n < l[q].events[i].n
              /\ \A p \in 1 .. q - 1 : \A j \in DOMAIN l[p].events :
                     l[p].events[j].n < l[q].events[i].n
              /\ l[q].events[i].n <= m
  <2>1. /\ from[q] \in DOMAIN r /\ i + off[q] \in DOMAIN r[from[q]].events
        /\ l[q].events[i] = r[from[q]].events[i + off[q]]
    BY <1>7
  <2>2. ASSUME NEW j \in DOMAIN l[q].events, i < j
        PROVE  l[q].events[i].n < l[q].events[j].n
    <3>1. /\ j + off[q] \in DOMAIN r[from[q]].events /\ i + off[q] < j + off[q]
          /\ l[q].events[j] = r[from[q]].events[j + off[q]]
      BY <1>7, <1>8, <2>2
    <3> QED
      BY <2>1, <3>1 DEF Ordered
  <2>3. ASSUME NEW j \in DOMAIN g
        PROVE  g[j].n < l[q].events[i].n
    <3>1. CASE j \in DOMAIN f /\ g[j] = f[j]
      BY <2>1, <3>1 DEF Ordered
    <3>2. CASE /\ j - Len(f) \in 1 .. k /\ j - Len(f) \in DOMAIN r[1].events
               /\ g[j] = r[1].events[j - Len(f)]
      <4>1. CASE from[q] > 1
        <5>1. 1 \in 1 .. from[q] - 1
          BY <1>8, <4>1
        <5> QED
          BY <2>1, <3>2, <5>1 DEF Ordered
      <4>2. CASE ~(from[q] > 1)
        <5>1. from[q] = 1 /\ off[q] = k /\ i > 0
          <6>1. from[q] \in Nat \ {0}
            BY <1>8, <2>1
          <6> QED
            BY <1>7, <1>8, <4>2, <6>1
        <5>2. j - Len(f) < i + off[q]
          BY <1>3, <1>8, <3>2, <5>1
        <5> QED
          BY <2>1, <3>2, <5>1, <5>2 DEF Ordered
      <4> QED
        BY <4>1, <4>2
    <3> QED
      BY <1>9, <3>1, <3>2
  <2>4. \A e \in u : e.n < l[q].events[i].n
    BY <2>1 DEF Ordered
  <2>5. ASSUME NEW p \in 1 .. q - 1, NEW j \in DOMAIN l[p].events
        PROVE  l[p].events[j].n < l[q].events[i].n
    <3>1. /\ p \in DOMAIN l /\ from[p] \in 1 .. from[q] - 1
          /\ j + off[p] \in DOMAIN r[from[p]].events
          /\ l[p].events[j] = r[from[p]].events[j + off[p]]
      BY <1>7, <1>8
    <3> QED
      BY <2>1, <3>1 DEF Ordered
  <2>6. l[q].events[i].n <= m
    BY <2>1 DEF UpTo
  <2> QED
    BY <2>2, <2>3, <2>4, <2>5, <2>6
<1>13. (\A e \in u : e.n <= m) /\ \A i \in DOMAIN g : g[i].n <= m
  BY <1>2, <1>9 DEF UpTo
<1> QED
  BY <1>10, <1>11, <1>12, <1>13 DEF Ordered, UpTo, g, l

\* New events go behind all others.
LEMMA AppendOrdered ==
    ASSUME NEW u \in SUBSET Event, NEW f \in Seq(Event), NEW r \in Seq(Entry), NEW e \in Entry,
           NEW m \in Nat, NEW m2 \in Nat, m <= m2,
           Ordered(u, f, r), UpTo(m, u, f, r),
           \A i \in DOMAIN e.events :
               /\ e.events[i].n > m /\ e.events[i].n <= m2
               /\ \A j \in DOMAIN e.events : i < j => e.events[i].n < e.events[j].n
    PROVE  Ordered(u, f, Append(r, e)) /\ UpTo(m2, u, f, Append(r, e))
<1> DEFINE a == Append(r, e)
<1>1. /\ a \in Seq(Entry) /\ DOMAIN a = 1 .. Len(r) + 1 /\ DOMAIN r = 1 .. Len(r)
      /\ Len(r) \in Nat
      /\ \A q \in DOMAIN r : a[q] = r[q]
      /\ a[Len(r) + 1] = e
  OBVIOUS
<1> HIDE DEF a
<1>2. /\ \A q \in DOMAIN a : \A i \in DOMAIN a[q].events : a[q].events[i].n \in Nat
      /\ \A i \in DOMAIN f : f[i].n \in Nat
      /\ \A d \in u : d.n \in Nat
  <2>1. \A d \in Event : d.n \in Nat
    BY DEF Event
  <2> QED
    BY <1>1, <2>1, EntriesTyped
<1>3. ASSUME NEW q \in DOMAIN a, NEW i \in DOMAIN a[q].events
      PROVE  /\ \A j \in DOMAIN a[q].events : i < j => a[q].events[i].n < a[q].events[j].n
             /\ \A j \in DOMAIN f : f[j].n < a[q].events[i].n
             /\ \A d \in u : d.n < a[q].events[i].n
             /\ \A p \in 1 .. q - 1 : \A j \in DOMAIN a[p].events :
                    a[p].events[j].n < a[q].events[i].n
             /\ a[q].events[i].n <= m2
  <2>1. CASE q \in DOMAIN r
    <3>1. \A p \in 1 .. q - 1 : p \in DOMAIN r
      BY <1>1, <2>1
    <3>2. a[q] = r[q] /\ \A p \in 1 .. q - 1 : a[p] = r[p]
      BY <1>1, <2>1, <3>1
    <3>3. r[q].events[i].n <= m /\ r[q].events[i].n \in Nat
      BY <1>2, <2>1, <3>2 DEF UpTo
    <3>4. a[q].events[i].n <= m2
      BY <3>2, <3>3
    <3>5. /\ \A j \in DOMAIN r[q].events : i < j => r[q].events[i].n < r[q].events[j].n
          /\ \A j \in DOMAIN f : f[j].n < r[q].events[i].n
          /\ \A d \in u : d.n < r[q].events[i].n
          /\ \A p \in 1 .. q - 1 : \A j \in DOMAIN r[p].events :
                 r[p].events[j].n < r[q].events[i].n
      BY <1>3, <2>1, <3>2 DEF Ordered
    <3> QED
      BY <3>2, <3>4, <3>5
  <2>2. CASE q = Len(r) + 1
    <3>1. a[q] = e /\ \A p \in 1 .. q - 1 : p \in DOMAIN r /\ a[p] = r[p]
      BY <1>1, <2>2
    <3>2. a[q].events[i].n > m /\ a[q].events[i].n \in Nat
      BY <1>2, <3>1
    <3>3. \A d \in u : d.n < a[q].events[i].n
      BY <1>2, <3>2 DEF UpTo
    <3>4. \A j \in DOMAIN f : f[j].n < a[q].events[i].n
      BY <1>2, <3>2 DEF UpTo
    <3>5. ASSUME NEW p \in 1 .. q - 1, NEW j \in DOMAIN a[p].events
          PROVE  a[p].events[j].n < a[q].events[i].n
      <4>1. p \in DOMAIN a /\ p \in DOMAIN r /\ a[p] = r[p]
        BY <1>1, <3>1
      <4>2. a[p].events[j].n <= m /\ a[p].events[j].n \in Nat
        BY <1>2, <4>1 DEF UpTo
      <4> QED
        BY <3>2, <4>2
    <3> QED
      BY <3>1, <3>3, <3>4, <3>5
  <2> QED
    BY <1>1, <2>1, <2>2
<1>4. (\A d \in u : d.n <= m2) /\ \A i \in DOMAIN f : f[i].n <= m2
  BY <1>2 DEF UpTo
<1> QED
  BY <1>3, <1>4 DEF Ordered, UpTo, a

\* With an empty queue they may also go to the FMQ.
LEMMA DirectOrdered ==
    ASSUME NEW u \in SUBSET Event, NEW f \in Seq(Event), NEW s \in Seq(Event),
           NEW m \in Nat, NEW m2 \in Nat, m <= m2,
           Ordered(u, f, <<>>), UpTo(m, u, f, <<>>),
           \A i \in DOMAIN s : /\ s[i].n > m /\ s[i].n <= m2
                               /\ \A j \in DOMAIN s : i < j => s[i].n < s[j].n
    PROVE  Ordered(u, f \o s, <<>>) /\ UpTo(m2, u, f \o s, <<>>)
<1> DEFINE g == f \o s
<1>1. /\ g \in Seq(Event) /\ Len(f) \in Nat /\ DOMAIN f = 1 .. Len(f)
      /\ \A i \in DOMAIN g : \/ i \in DOMAIN f /\ g[i] = f[i]
                             \/ /\ i > Len(f) /\ i - Len(f) \in DOMAIN s
                                /\ g[i] = s[i - Len(f)]
      /\ \A i \in DOMAIN g : i \in Nat
  OBVIOUS
<1>2. /\ \A i \in DOMAIN s : s[i].n \in Nat
      /\ \A i \in DOMAIN f : f[i].n \in Nat
      /\ \A d \in u : d.n \in Nat
  <2>1. \A d \in Event : d.n \in Nat
    BY DEF Event
  <2> QED
    BY <2>1
<1> HIDE DEF g
<1>3. ASSUME NEW i \in DOMAIN g, NEW j \in DOMAIN g, i < j
      PROVE  g[i].n < g[j].n
  <2>1. CASE j \in DOMAIN f /\ g[j] = f[j]
    <3>1. i \in DOMAIN f /\ g[i] = f[i]
      BY <1>1, <1>3, <2>1
    <3> QED
      BY <1>3, <2>1, <3>1 DEF Ordered
  <2>2. CASE j > Len(f) /\ j - Len(f) \in DOMAIN s /\ g[j] = s[j - Len(f)]
    <3>1. CASE i \in DOMAIN f /\ g[i] = f[i]
      <4>1. f[i].n <= m
        BY <3>1 DEF UpTo
      <4> QED
        BY <1>2, <2>2, <3>1, <4>1
    <3>2. CASE i > Len(f) /\ i - Len(f) \in DOMAIN s /\ g[i] = s[i - Len(f)]
      <4>1. i - Len(f) < j - Len(f)
        BY <1>1, <1>3
      <4> QED
        BY <2>2, <3>2, <4>1
    <3> QED
      BY <1>1, <3>1, <3>2
  <2> QED
    BY <1>1, <2>1, <2>2
<1>4. ASSUME NEW d \in u, NEW i \in DOMAIN g
      PROVE  d.n < g[i].n
  <2>1. d.n <= m
    BY DEF UpTo
  <2> QED
    BY <1>1, <1>2, <2>1 DEF Ordered
<1>5. (\A d \in u : d.n <= m2) /\ \A i \in DOMAIN g : g[i].n <= m2
  <2>1. \A i \in DOMAIN f : f[i].n <= m2
    BY <1>2 DEF UpTo
  <2>2. \A d \in u : d.n <= m2
    BY <1>2 DEF UpTo
  <2> QED
    BY <1>1, <2>1, <2>2
<1>6. DOMAIN <<>> = {}
  OBVIOUS
<1> QED
  BY <1>3, <1>4, <1>5, <1>6 DEF Ordered, UpTo, g

\* What the framework reads is the oldest.
LEMMA ReadOrdered ==
    ASSUME NEW u \in SUBSET Event, NEW f \in Seq(Event), NEW r \in Seq(Entry), NEW m \in Nat,
           Ordered(u, f, r), UpTo(m, u, f, r), NEW n \in 1 .. Len(f)
    PROVE  LET v == u \union Wakeups(SubSeq(f, 1, n))
               g == SubSeq(f, n + 1, Len(f))
           IN  Ordered(v, g, r) /\ UpTo(m, v, g, r)
<1> DEFINE v == u \union Wakeups(SubSeq(f, 1, n))
           g == SubSeq(f, n + 1, Len(f))
<1>1. /\ \A e \in v : e \in u \/ \E i \in 1 .. n : i \in DOMAIN f /\ e = f[i]
      /\ \A i \in DOMAIN g : /\ i \in Nat \ {0} /\ i + n \in DOMAIN f /\ g[i] = f[i + n]
  <2>1. \A i \in DOMAIN SubSeq(f, 1, n) :
            i \in 1 .. n /\ i \in DOMAIN f /\ SubSeq(f, 1, n)[i] = f[i]
    OBVIOUS
  <2>2. \A e \in v : e \in u \/ \E i \in DOMAIN SubSeq(f, 1, n) : e = SubSeq(f, 1, n)[i]
    BY DEF Wakeups, Elements
  <2>3. \A i \in DOMAIN g : /\ i \in Nat \ {0} /\ i + n \in DOMAIN f /\ g[i] = f[i + n]
    OBVIOUS
  <2> HIDE DEF v, g
  <2> QED
    BY <2>1, <2>2, <2>3
<1> HIDE DEF v, g
<1>2. ASSUME NEW i \in DOMAIN g, NEW j \in DOMAIN g, i < j
      PROVE  g[i].n < g[j].n
  <2>1. i + n < j + n
    BY <1>1, <1>2
  <2> QED
    BY <1>1, <2>1 DEF Ordered
<1>3. ASSUME NEW e \in v, NEW i \in DOMAIN g
      PROVE  e.n < g[i].n
  <2>1. CASE e \in u
    BY <1>1, <2>1 DEF Ordered
  <2>2. CASE \E j \in 1 .. n : j \in DOMAIN f /\ e = f[j]
    <3>1. PICK j \in 1 .. n : j \in DOMAIN f /\ e = f[j]
      BY <2>2
    <3>2. j < i + n
      BY <1>1
    <3> QED
      BY <1>1, <3>1, <3>2 DEF Ordered
  <2> QED
    BY <1>1, <2>1, <2>2
<1>4. ASSUME NEW q \in DOMAIN r, NEW i \in DOMAIN r[q].events
      PROVE  /\ \A j \in DOMAIN r[q].events : i < j => r[q].events[i].n < r[q].events[j].n
             /\ \A j \in DOMAIN g : g[j].n < r[q].events[i].n
             /\ \A e \in v : e.n < r[q].events[i].n
             /\ \A p \in 1 .. q - 1 : \A j \in DOMAIN r[p].events :
                    r[p].events[j].n < r[q].events[i].n
  BY <1>1 DEF Ordered
<1>5. UpTo(m, v, g, r)
  BY <1>1 DEF UpTo
<1> QED
  BY <1>2, <1>3, <1>4, <1>5 DEF Ordered, v, g

\* Rest is the queue, without what is on its way out.
LEMMA RestIs ==
    ASSUME ProxyInv
    PROVE  /\ Rest = IF writer \in {"written", "failed"} THEN Left(pendingWrites) ELSE pendingWrites
           /\ Rest \in Seq(Entry)
           /\ Seen \in SUBSET Event /\ fmq \in Seq(Event) /\ posted \in Nat
<1>1. Rest = IF writer \in {"written", "failed"} THEN Left(pendingWrites) ELSE pendingWrites
  BY DEF Rest, IsPart, Left
<1>2. TypeOK /\ pendingWrites \in Seq(Entry)
  BY QueueTyped DEF ProxyInv
<1>3. Rest \in Seq(Entry)
  <2>1. CASE writer \in {"written", "failed"}
    <3>1. pendingWrites # <<>>
      BY <2>1 DEF ProxyInv, SingleWriter
    <3>2. Left(pendingWrites) \in Seq(Entry)
      BY <1>2, <3>1, LeftIs
    <3> QED
      BY <1>1, <2>1, <3>2
  <2>2. CASE writer \notin {"written", "failed"}
    BY <1>1, <1>2, <2>2
  <2> QED
    BY <2>1, <2>2
<1>4. Seen \in SUBSET Event /\ fmq \in Seq(Event) /\ posted \in Nat
  <2>1. \A i \in DOMAIN acks : acks[i] \in SUBSET Event
    BY <1>2 DEF TypeOK
  <2> QED
    BY <1>2, <2>1 DEF TypeOK, Seen, Elements
<1> QED
  BY <1>1, <1>3, <1>4

LEMMA RestAfter ==
    Rest' = IF writer' \in {"written", "failed"} THEN Left(pendingWrites') ELSE pendingWrites'
BY DEF Rest, IsPart, Left

\* A step that leaves all events where they are.
LEMMA Unmoved ==
    ASSUME OrderInv, UNCHANGED <<Seen, fmq, posted>>, Rest' = Rest
    PROVE  OrderInv'
BY DEF OrderInv, Ordered, UpTo

LEMMA WriterKeepsOrder ==
    ASSUME ProxyInv, OrderInv, WriterNext
    PROVE  OrderInv'
<1>1. CASE WriterChecks \/ WriterWaits \/ WriterPops
  <2>1. UNCHANGED <<Seen, fmq, posted>>
    BY <1>1 DEF WriterChecks, WriterWaits, WriterPops, frameVars, Seen
  <2>2. Rest' = Rest
    <3>1. CASE WriterChecks \/ WriterWaits
      <4>1. /\ writer \notin {"written", "failed"} /\ writer' \notin {"written", "failed"}
            /\ pendingWrites' = pendingWrites
        BY <3>1 DEF WriterChecks, WriterWaits
      <4> QED
        BY <4>1, RestIs, RestAfter
    <3>2. CASE WriterPops
      <4>1. /\ writer \in {"written", "failed"} /\ writer' = "woken"
            /\ pendingWrites' = Left(pendingWrites)
        BY <3>2 DEF WriterPops, Left, IsPart
      <4> QED
        BY <4>1, RestIs, RestAfter
    <3> QED
      BY <1>1, <3>1, <3>2
  <2> QED
    BY <2>1, <2>2, Unmoved
<1>2. CASE WriteBlocking \/ WriteTimesOut
  <2>1. /\ writer = "writing" /\ writer' \in {"written", "failed"}
        /\ UNCHANGED <<pendingWrites, Seen, posted>>
    BY <1>2 DEF WriteBlocking, WriteTimesOut, frameVars, Seen
  <2>2. pendingWrites # <<>> /\ pendingWrites \in Seq(Entry)
    BY <2>1, QueueTyped DEF ProxyInv, SingleWriter
  <2>3. Rest = pendingWrites /\ Rest' = Left(pendingWrites)
    BY <2>1, RestIs, RestAfter
  <2>4. PICK moved \in {<<>>, Chunk} : fmq' = fmq \o moved
    <3>1. CASE WriteBlocking
      BY <3>1 DEF WriteBlocking
    <3>2. CASE WriteTimesOut
      <4>1. fmq' = fmq /\ fmq \in Seq(Event)
        BY <3>2 DEF WriteTimesOut, ProxyInv, TypeOK
      <4>2. fmq' = fmq \o <<>>
        BY <4>1
      <4> QED
        BY <4>2
    <3> QED
      BY <1>2, <3>1, <3>2
  <2>5. moved \in {<<>>, SubSeq(Head(pendingWrites).events, 1,
                                Least(Len(Head(pendingWrites).events), QueueSize))}
    BY <2>4 DEF Chunk, NumToWrite
  <2>6. /\ Ordered(Seen, fmq \o moved, Left(pendingWrites))
        /\ UpTo(posted, Seen, fmq \o moved, Left(pendingWrites))
    BY <2>2, <2>3, <2>5, LeftOrdered, RestIs DEF OrderInv
  <2>7. /\ Seen' = Seen /\ posted' = posted /\ fmq' = fmq \o moved
        /\ Rest' = Left(pendingWrites)
    BY <2>1, <2>3, <2>4
  <2> QED
    BY <2>6, <2>7 DEF OrderInv
<1> QED
  BY <1>1, <1>2 DEF WriterNext

LEMMA LeftOfAppend ==
    ASSUME NEW r \in Seq(Entry), r # <<>>, NEW e \in Entry
    PROVE  Left(Append(r, e)) = Append(Left(r), e)
<1>1. /\ Head(Append(r, e)) = Head(r) /\ Head(r) = r[1] /\ r[1] \in Entry
      /\ Append(r, e)[1] = r[1] /\ Len(r) \in Nat \ {0}
  OBVIOUS
<1>2. CASE Len(Head(r).events) > QueueSize
  <2> DEFINE h == [r[1] EXCEPT !.events = SubSeq(@, QueueSize + 1, Len(@))]
  <2>1. Left(r) = [r EXCEPT ![1] = h] /\ Left(Append(r, e)) = [Append(r, e) EXCEPT ![1] = h]
    BY <1>1, <1>2 DEF Left
  <2>2. Left(r) \in Seq(Entry)
    BY LeftIs
  <2> HIDE DEF h
  <2>3. [Append(r, e) EXCEPT ![1] = h] = Append([r EXCEPT ![1] = h], e)
    <3>1. h \in Entry
      <4>1. Left(r)[1] = h /\ 1 \in DOMAIN Left(r)
        BY <1>1, <2>1
      <4> QED
        BY <2>2, <4>1
    <3> DEFINE a == [Append(r, e) EXCEPT ![1] = h]
               b == Append([r EXCEPT ![1] = h], e)
    <3>2. /\ a \in Seq(Entry) /\ Len(a) = Len(r) + 1
          /\ a[1] = h /\ a[Len(r) + 1] = e
          /\ \A q \in 2 .. Len(r) : a[q] = r[q]
      <4> DEFINE c == Append(r, e)
      <4>1. /\ c \in Seq(Entry) /\ Len(c) = Len(r) + 1 /\ c[Len(r) + 1] = e
            /\ \A q \in 2 .. Len(r) : c[q] = r[q]
        BY <1>1
      <4> HIDE DEF c
      <4>2. /\ [c EXCEPT ![1] = h] \in Seq(Entry)
            /\ Len([c EXCEPT ![1] = h]) = Len(c)
            /\ [c EXCEPT ![1] = h][1] = h
            /\ \A q \in 2 .. Len(c) : [c EXCEPT ![1] = h][q] = c[q]
        BY <1>1, <3>1, <4>1
      <4>3. Len(r) + 1 \in 2 .. Len(c)
        BY <1>1, <4>1
      <4> QED
        BY <4>1, <4>2, <4>3 DEF c
    <3>3. /\ b \in Seq(Entry) /\ Len(b) = Len(r) + 1
          /\ b[1] = h /\ b[Len(r) + 1] = e
          /\ \A q \in 2 .. Len(r) : b[q] = r[q]
      <4> DEFINE c == [r EXCEPT ![1] = h]
      <4>1. /\ c \in Seq(Entry) /\ Len(c) = Len(r) /\ c[1] = h
            /\ \A q \in 2 .. Len(r) : c[q] = r[q]
        BY <1>1, <3>1
      <4> HIDE DEF c
      <4> QED
        BY <1>1, <4>1
    <3> HIDE DEF a, b
    <3>4. \A q \in 1 .. Len(r) + 1 : a[q] = b[q]
      BY <1>1, <3>2, <3>3
    <3>5. a = b
      BY <1>1, <3>2, <3>3, <3>4
    <3> QED
      BY <3>5 DEF a, b
  <2> QED
    BY <2>1, <2>3
<1>3. CASE ~(Len(Head(r).events) > QueueSize)
  <2>1. Left(r) = Tail(r) /\ Left(Append(r, e)) = Tail(Append(r, e))
    BY <1>1, <1>3 DEF Left
  <2>2. Tail(Append(r, e)) = Append(Tail(r), e)
    OBVIOUS
  <2> QED
    BY <2>1, <2>2
<1> QED
  BY <1>2, <1>3

\* The events of a batch are numbered from the next number on.
LEMMA BatchNumbers ==
    ASSUME TypeOK, NEW s \in SubHals, subhal[s] # Idle
    PROVE  /\ Batch(s) \in Seq(Event) /\ Len(Batch(s)) \in Nat
           /\ \A i \in 1 .. Len(Batch(s)) : Batch(s)[i].n = posted + i
<1>1. Batch(s) \in Seq(Event) /\ Len(Batch(s)) \in Nat
  BY BatchFacts
<1>2. DOMAIN Batch(s) = 1 .. Len(Batch(s))
  BY <1>1
<1>3. \A i \in DOMAIN Batch(s) : Batch(s)[i].n = posted + i
  BY DEF Batch
<1> QED
  BY <1>1, <1>2, <1>3

LEMMA UpToGrows ==
    ASSUME NEW u \in SUBSET Event, NEW f \in Seq(Event), NEW r \in Seq(Entry),
           NEW m \in Nat, NEW m2 \in Nat, m <= m2, UpTo(m, u, f, r)
    PROVE  UpTo(m2, u, f, r)
<1>1. /\ \A e \in u : e.n \in Nat
      /\ \A i \in DOMAIN f : f[i].n \in Nat
      /\ \A q \in DOMAIN r : \A i \in DOMAIN r[q].events : r[q].events[i].n \in Nat
  <2>1. \A e \in Event : e.n \in Nat
    BY DEF Event
  <2> QED
    BY <2>1, EntriesTyped
<1> QED
  BY <1>1 DEF UpTo

LEMMA PostKeepsOrder ==
    ASSUME ProxyInv, OrderInv, NEW s \in SubHals, PostEventsToMessageQueue(s)
    PROVE  OrderInv'
<1> DEFINE events  == Batch(s)
           wakeups == Cardinality(Wakeups(events))
           direct  == Direct(events)
           first   == SubSeq(events, 1, direct)
           left    == SubSeq(events, direct + 1, Len(events))
           entry   == [events |-> left, numWakeupEvents |-> wakeups]
<1>1. subhal[s] # Idle /\ TypeOK /\ pendingWrites \in Seq(Entry)
  BY NotIdle, QueueTyped DEF PostEventsToMessageQueue, ProxyInv
<1>2. /\ events \in Seq(Event) /\ Len(events) \in Nat /\ wakeups \in Nat
      /\ \A i \in 1 .. Len(events) : events[i].n = posted + i
  BY <1>1, BatchNumbers, WakeupsFinite
<1>3. /\ fmq' = fmq \o first
      /\ IF left # <<>> /\ Fits(Len(left))
         THEN pendingWrites' = Append(pendingWrites, entry) /\ writer' = Notified(writer)
         ELSE UNCHANGED <<pendingWrites, writer>>
      /\ posted' = posted + Len(events)
      /\ Seen' = Seen
  BY DEF PostEventsToMessageQueue, frameVars, Seen
<1>4. fmq \in Seq(Event) /\ Len(fmq) \in Nat /\ Len(fmq) <= QueueSize /\ QueueSize \in Nat
  BY <1>1, SensorsAssumption DEF TypeOK
<1>5. /\ direct \in Nat /\ direct <= Len(events)
      /\ direct = 0 \/ pendingWrites = <<>>
  <2> HIDE DEF events
  <2> QED
    BY <1>2, <1>4 DEF Direct, Least
<1> HIDE DEF events, wakeups, direct
<1>6. /\ first \in Seq(Event) /\ Len(first) = direct
      /\ \A i \in 1 .. direct : first[i] = events[i]
      /\ left \in Seq(Event) /\ Len(left) = Len(events) - direct
      /\ \A i \in 1 .. Len(events) - direct : left[i] = events[i + direct]
      /\ direct = 0 => first = <<>>
  BY <1>2, <1>5
<1> HIDE DEF first, left
<1>7. /\ posted \in Nat /\ posted + direct \in Nat /\ posted + Len(events) \in Nat
      /\ posted <= posted + direct /\ posted + direct <= posted + Len(events)
      /\ Seen \in SUBSET Event /\ Rest \in Seq(Entry)
  BY <1>2, <1>5, RestIs
<1>8. /\ fmq' \in Seq(Event)
      /\ Ordered(Seen, fmq', Rest)
      /\ UpTo(posted + direct, Seen, fmq', Rest)
  <2>1. CASE direct = 0
    <3>1. fmq' = fmq /\ posted + direct = posted
      BY <1>3, <1>4, <1>6, <1>7, <2>1
    <3> QED
      BY <1>4, <3>1 DEF OrderInv
  <2>2. CASE direct # 0
    <3>1. Rest = <<>>
      BY <1>5, <2>2, RestIs DEF ProxyInv, SingleWriter
    <3>2. \A i \in DOMAIN first :
              /\ first[i].n > posted /\ first[i].n <= posted + direct
              /\ \A j \in DOMAIN first : i < j => first[i].n < first[j].n
      <4>1. \A i \in DOMAIN first : i \in 1 .. direct /\ first[i].n = posted + i
        BY <1>2, <1>5, <1>6
      <4> QED
        BY <1>5, <1>7, <4>1
    <3>3. Ordered(Seen, fmq, <<>>) /\ UpTo(posted, Seen, fmq, <<>>)
      BY <3>1 DEF OrderInv
    <3>4. /\ Ordered(Seen, fmq \o first, <<>>)
          /\ UpTo(posted + direct, Seen, fmq \o first, <<>>)
      BY <1>4, <1>6, <1>7, <3>2, <3>3, DirectOrdered
    <3> QED
      BY <1>3, <1>4, <1>6, <3>1, <3>4
  <2> QED
    BY <2>1, <2>2
<1>9. CASE left # <<>> /\ Fits(Len(left))
  <2>1. entry \in Entry /\ entry.events = left
    BY <1>2, <1>6 DEF Entry
  <2>2. pendingWrites' = Append(pendingWrites, entry) /\ writer' = Notified(writer)
    BY <1>3, <1>9
  <2> HIDE DEF entry
  <2>3. Rest' = Append(Rest, entry)
    <3>1. writer' \in {"written", "failed"} <=> writer \in {"written", "failed"}
      BY <2>2 DEF Notified
    <3>2. CASE writer \in {"written", "failed"}
      <4>1. pendingWrites # <<>>
        BY <3>2 DEF ProxyInv, SingleWriter
      <4>2. Left(Append(pendingWrites, entry)) = Append(Left(pendingWrites), entry)
        BY <1>1, <2>1, <4>1, LeftOfAppend
      <4> QED
        BY <2>2, <3>1, <3>2, <4>2, RestIs, RestAfter
    <3>3. CASE writer \notin {"written", "failed"}
      BY <2>2, <3>1, <3>3, RestIs, RestAfter
    <3> QED
      BY <3>2, <3>3
  <2>4. \A i \in DOMAIN entry.events :
            /\ entry.events[i].n > posted + direct
            /\ entry.events[i].n <= posted + Len(events)
            /\ \A j \in DOMAIN entry.events : i < j => entry.events[i].n < entry.events[j].n
    <3>1. ASSUME NEW i \in DOMAIN left
          PROVE  /\ i \in 1 .. Len(events) - direct
                 /\ left[i].n = posted + (i + direct)
      <4>1. i \in 1 .. Len(events) - direct
        BY <1>2, <1>5, <1>6
      <4>2. left[i] = events[i + direct] /\ i + direct \in 1 .. Len(events)
        BY <1>2, <1>5, <1>6, <4>1
      <4> QED
        BY <1>2, <4>1, <4>2
    <3> QED
      BY <1>2, <1>5, <1>7, <2>1, <3>1
  <2>5. /\ Ordered(Seen, fmq', Append(Rest, entry))
        /\ UpTo(posted + Len(events), Seen, fmq', Append(Rest, entry))
    BY <1>7, <1>8, <2>1, <2>4, AppendOrdered
  <2> QED
    BY <1>3, <2>3, <2>5 DEF OrderInv
<1>10. CASE ~(left # <<>> /\ Fits(Len(left)))
  <2>1. UNCHANGED <<pendingWrites, writer>>
    BY <1>3, <1>10
  <2>2. Rest' = Rest
    BY <2>1, RestIs, RestAfter
  <2>3. UpTo(posted + Len(events), Seen, fmq', Rest)
    BY <1>7, <1>8, UpToGrows
  <2> QED
    BY <1>3, <1>8, <2>2, <2>3 DEF OrderInv
<1> QED
  BY <1>9, <1>10

\* Sets of events in the wake lock FMQ.
LEMMA AppendToAcks ==
    ASSUME TypeOK, NEW S
    PROVE  Elements(Append(acks, S)) = Elements(acks) \union {S}
<1>1. acks \in Seq(SUBSET Event) /\ Len(acks) \in Nat /\ DOMAIN acks = 1 .. Len(acks)
  BY DEF TypeOK
<1>2. /\ DOMAIN Append(acks, S) = 1 .. Len(acks) + 1
      /\ \A i \in 1 .. Len(acks) : Append(acks, S)[i] = acks[i]
      /\ Append(acks, S)[Len(acks) + 1] = S
  BY <1>1
<1> QED
  BY <1>1, <1>2 DEF Elements

LEMMA TailOfAcks ==
    ASSUME TypeOK, acks # <<>>
    PROVE  /\ Head(acks) = acks[1] /\ 1 \in DOMAIN acks
           /\ \A i \in DOMAIN Tail(acks) : i + 1 \in DOMAIN acks /\ Tail(acks)[i] = acks[i + 1]
           /\ \A i \in DOMAIN acks \ {1} : i - 1 \in DOMAIN Tail(acks) /\ acks[i] = Tail(acks)[i - 1]
           /\ Elements(Tail(acks)) \subseteq Elements(acks)
           /\ Elements(acks) = Elements(Tail(acks)) \union {Head(acks)}
<1>1. acks \in Seq(SUBSET Event) /\ Len(acks) \in Nat \ {0} /\ DOMAIN acks = 1 .. Len(acks)
  BY DEF TypeOK
<1>2. /\ DOMAIN Tail(acks) = 1 .. Len(acks) - 1 /\ Head(acks) = acks[1]
      /\ \A i \in 1 .. Len(acks) - 1 : Tail(acks)[i] = acks[i + 1]
  BY <1>1
<1>3. /\ \A i \in DOMAIN Tail(acks) : i + 1 \in DOMAIN acks /\ Tail(acks)[i] = acks[i + 1]
      /\ \A i \in DOMAIN acks \ {1} : i - 1 \in DOMAIN Tail(acks) /\ acks[i] = Tail(acks)[i - 1]
  <2>1. ASSUME NEW i \in DOMAIN acks \ {1}
        PROVE  i - 1 \in DOMAIN Tail(acks) /\ acks[i] = Tail(acks)[i - 1]
    <3>1. i - 1 \in 1 .. Len(acks) - 1 /\ (i - 1) + 1 = i
      BY <1>1
    <3> QED
      BY <1>2, <3>1
  <2> QED
    BY <1>1, <1>2, <2>1
<1> DEFINE t == Tail(acks)
<1>4. /\ Elements(t) = {t[i] : i \in DOMAIN t} /\ Elements(acks) = {acks[i] : i \in DOMAIN acks}
      /\ Head(acks) = acks[1] /\ 1 \in DOMAIN acks
      /\ \A i \in DOMAIN t : i + 1 \in DOMAIN acks /\ t[i] = acks[i + 1]
      /\ \A i \in DOMAIN acks \ {1} : i - 1 \in DOMAIN t /\ acks[i] = t[i - 1]
  BY <1>1, <1>2, <1>3 DEF Elements
<1> HIDE DEF t
<1>5. Elements(t) \subseteq Elements(acks)
  BY <1>4
<1>6. Elements(acks) = Elements(t) \union {Head(acks)}
  <2>1. ASSUME NEW e \in Elements(acks) PROVE e \in Elements(t) \union {Head(acks)}
    BY <1>4
  <2> QED
    BY <1>4, <1>5, <2>1
<1> QED
  BY <1>3, <1>4, <1>5, <1>6 DEF t

LEMMA HandledSeen ==
    ASSUME TypeOK, HandleEvents
    PROVE  Seen' = Seen
<1>1. acks' = Append(acks, unhandled) /\ unhandled' = {}
  BY DEF HandleEvents
<1>2. Elements(acks') = Elements(acks) \union {unhandled}
  BY <1>1, AppendToAcks
<1>3. Seen' = {} \union UNION Elements(acks')
  BY <1>1 DEF Seen
<1> QED
  BY <1>2, <1>3 DEF Seen

LEMMA ReadSeen ==
    ASSUME NEW n \in 1 .. Len(fmq), ReadEvents(n)
    PROVE  /\ fmq' = SubSeq(fmq, n + 1, Len(fmq))
           /\ Seen' = Seen \union Wakeups(SubSeq(fmq, 1, n))
<1>1. /\ fmq' = SubSeq(fmq, n + 1, Len(fmq)) /\ acks' = acks
      /\ unhandled' = unhandled \union Wakeups(SubSeq(fmq, 1, n))
  BY DEF ReadEvents
<1>2. Seen' = (unhandled \union Wakeups(SubSeq(fmq, 1, n))) \union UNION Elements(acks)
  BY <1>1 DEF Seen
<1> QED
  BY <1>1, <1>2 DEF Seen

LEMMA FrameworkKeepsOrder ==
    ASSUME ProxyInv, OrderInv, HandleEvents \/ \E n \in 1 .. Len(fmq) : ReadEvents(n)
    PROVE  OrderInv'
<1>1. /\ UNCHANGED <<pendingWrites, writer, posted>>
  BY DEF HandleEvents, ReadEvents, queueVars
<1>2. Rest' = Rest
  BY <1>1, RestIs, RestAfter
<1>3. CASE HandleEvents
  <2>1. fmq' = fmq
    BY <1>3 DEF HandleEvents, queueVars
  <2>2. Seen' = Seen
    BY <1>3, HandledSeen DEF ProxyInv
  <2> QED
    BY <1>1, <1>2, <2>1, <2>2, Unmoved
<1>4. ASSUME NEW n \in 1 .. Len(fmq), ReadEvents(n)
      PROVE  OrderInv'
  <2>1. /\ fmq' = SubSeq(fmq, n + 1, Len(fmq))
        /\ Seen' = Seen \union Wakeups(SubSeq(fmq, 1, n))
    BY <1>4, ReadSeen
  <2>2. /\ Ordered(Seen \union Wakeups(SubSeq(fmq, 1, n)), SubSeq(fmq, n + 1, Len(fmq)), Rest)
        /\ UpTo(posted, Seen \union Wakeups(SubSeq(fmq, 1, n)),
                SubSeq(fmq, n + 1, Len(fmq)), Rest)
    BY RestIs, ReadOrdered DEF OrderInv
  <2> QED
    BY <1>1, <1>2, <2>1, <2>2 DEF OrderInv
<1> QED
  BY <1>3, <1>4

\* Answers only take events away.
LEMMA AckKeepsOrder == ASSUME ProxyInv, OrderInv, AckArrives PROVE OrderInv'
<1>1. /\ acks' = Tail(acks) /\ acks # <<>>
      /\ UNCHANGED <<unhandled, fmq, posted, pendingWrites, writer>>
  BY DEF AckArrives, queueVars
<1>2. Seen' \subseteq Seen
  <2>1. Elements(Tail(acks)) \subseteq Elements(acks)
    BY <1>1, TailOfAcks DEF ProxyInv
  <2>2. Seen' = unhandled \union UNION Elements(Tail(acks))
    BY <1>1 DEF Seen, Elements
  <2> QED
    BY <2>1, <2>2 DEF Seen
<1>3. Rest' = Rest
  BY <1>1, RestIs, RestAfter
<1> QED
  BY <1>1, <1>2, <1>3 DEF OrderInv, Ordered, UpTo

LEMMA OwnerKeepsOrder ==
    ASSUME ProxyInv, OrderInv, StopThreads \/ OwnerGoesOn
    PROVE  OrderInv'
<1>1. CASE ClearQueues
  <2>1. /\ pendingWrites' = <<>> /\ fmq' = <<>> /\ unhandled' = {} /\ acks' = <<>>
        /\ owner = "joined" /\ writer' = writer
    BY <1>1 DEF ClearQueues
  <2>2. writer' = "exited"
    BY <2>1 DEF ProxyInv, Joined
  <2>3. Rest' = <<>>
    BY <2>1, <2>2, RestAfter
  <2>4. Seen' = {}
    BY <2>1 DEF Seen, Elements
  <2> QED
    BY <2>1, <2>3, <2>4 DEF OrderInv, Ordered, UpTo
<1>2. CASE StopDrains
  <2>1. /\ fmq' = <<>> /\ acks' = Append(acks, {})
        /\ UNCHANGED <<unhandled, pendingWrites, writer, posted>>
    BY <1>2 DEF StopDrains
  <2>2. Rest' = Rest
    BY <2>1, RestIs, RestAfter
  <2>3. Seen' = Seen
    <3>1. Elements(acks') = Elements(acks) \union {{}}
      BY <2>1, AppendToAcks DEF ProxyInv
    <3>2. Seen' = unhandled \union UNION Elements(acks')
      BY <2>1 DEF Seen
    <3> QED
      BY <3>1, <3>2 DEF Seen
  <2> QED
    BY <2>1, <2>2, <2>3 DEF OrderInv, Ordered, UpTo
<1>3. CASE StopThreads \/ StopNotifies \/ JoinThreads \/ StartThreads
  <2>1. UNCHANGED <<Seen, fmq, posted, pendingWrites>>
    BY <1>3 DEF StopThreads, StopNotifies, JoinThreads, StartThreads, queueVars, frameVars, Seen
  <2>2. writer' \in {"written", "failed"} <=> writer \in {"written", "failed"}
    BY <1>3 DEF StopThreads, StopNotifies, JoinThreads, StartThreads, queueVars, Notified,
       ProxyInv, Joined
  <2>3. Rest' = Rest
    BY <2>1, <2>2, RestIs, RestAfter
  <2> QED
    BY <2>1, <2>3, Unmoved
<1> QED
  BY <1>1, <1>2, <1>3 DEF OwnerGoesOn

LEMMA OthersKeepOrder ==
    ASSUME ProxyInv, OrderInv, UNCHANGED <<unhandled, acks, fmq, posted, pendingWrites, writer>>
    PROVE  OrderInv'
<1>1. Rest' = Rest /\ Seen' = Seen
  BY RestIs, RestAfter DEF Seen
<1> QED
  BY <1>1, Unmoved

LEMMA OrderInductive == ProxyInv /\ OrderInv /\ [Next]_vars => OrderInv'
<1> SUFFICES ASSUME ProxyInv, OrderInv, [Next]_vars PROVE OrderInv'
  OBVIOUS
<1>1. CASE WriterNext
  BY <1>1, WriterKeepsOrder
<1>2. CASE LockerNext
  <2>1. CASE AckArrives
    BY <2>1, AckKeepsOrder
  <2>2. CASE ~AckArrives
    <3>1. UNCHANGED <<unhandled, acks, fmq, posted, pendingWrites, writer>>
      BY <1>2, <2>2 DEF LockerNext, WakelockTimesOut, LockerReads, LockerChecks, LockerWaits,
         LockerExits, ReadTimesOut, queueVars, frameVars
    <3> QED
      BY <3>1, OthersKeepOrder
  <2> QED
    BY <2>1, <2>2
<1>3. ASSUME NEW s \in SubHals, SubHalGoesOn(s)
      PROVE  OrderInv'
  <2>1. CASE PostEventsToMessageQueue(s)
    BY <2>1, PostKeepsOrder
  <2>2. CASE PostEvents(s) \/ DestroyScopedWakelock(s)
    <3>1. UNCHANGED <<unhandled, acks, fmq, posted, pendingWrites, writer>>
      BY <2>2 DEF PostEvents, DestroyScopedWakelock, queueVars, frameVars
    <3> QED
      BY <3>1, OthersKeepOrder
  <2> QED
    BY <1>3, <2>1, <2>2 DEF SubHalGoesOn
<1>4. ASSUME NEW s \in SubHals, NEW shape \in BatchShapes, CreateScopedWakelock(s, shape)
      PROVE  OrderInv'
  <2>1. UNCHANGED <<unhandled, acks, fmq, posted, pendingWrites, writer>>
    BY <1>4 DEF CreateScopedWakelock, queueVars, frameVars
  <2> QED
    BY <2>1, OthersKeepOrder
<1>5. CASE HandleEvents \/ \E n \in 1 .. Len(fmq) : ReadEvents(n)
  BY <1>5, FrameworkKeepsOrder
<1>6. CASE StopThreads \/ OwnerGoesOn
  BY <1>6, OwnerKeepsOrder
<1>7. CASE Tick \/ UNCHANGED vars
  <2>1. UNCHANGED <<unhandled, acks, fmq, posted, pendingWrites, writer>>
    BY <1>7 DEF Tick, vars, queueVars, frameVars
  <2> QED
    BY <2>1, OthersKeepOrder
<1> QED
  BY <1>1, <1>2, <1>3, <1>4, <1>5, <1>6, <1>7 DEF Next

LEMMA InitiallyOrdered == Init => OrderInv
<1> SUFFICES ASSUME Init PROVE OrderInv
  OBVIOUS
<1>1. Seen = {} /\ fmq = <<>> /\ Rest = <<>>
  BY DEF Init, Rest, Seen, Elements
<1> QED
  BY <1>1 DEF OrderInv, Ordered, UpTo

\* Events reach the framework in the order in which they were posted, whichever
\* way they take and whatever is given up or dropped on it.
THEOREM EventsInOrder == Spec => []InOrder
<1>1. Init => OrderInv
  BY InitiallyOrdered
<1>2. ProxyInv /\ OrderInv /\ [Next]_vars => OrderInv'
  BY OrderInductive
<1>3. OrderInv => InOrder
  BY OrderedMeansInOrder
<1> QED
  BY <1>1, <1>2, <1>3, ProxyInvHolds, PTL DEF Spec
-----------------------------------------------------------------------------
(* The count.  The events under way are those of the queue, the FMQ and    *)
(* those the framework has seen; none is in two places.                    *)

Queued(r) == UNION {Wakeups(r[q].events) : q \in DOMAIN r}

UnderWay == Queued(Rest) \union Wakeups(fmq) \union Seen

\* Each answer stands for events of its own.
Apart ==
    \A i \in DOMAIN acks :
        /\ acks[i] \intersect unhandled = {}
        /\ \A j \in DOMAIN acks : i # j => acks[i] \intersect acks[j] = {}

LEMMA WakeupIn ==
    ASSUME NEW s, NEW e
    PROVE  e \in Wakeups(s) <=> e.wake /\ \E i \in DOMAIN s : e = s[i]
BY DEF Wakeups, Elements

LEMMA QueuedIn ==
    ASSUME NEW r, NEW e
    PROVE  e \in Queued(r) <=> \E q \in DOMAIN r : e \in Wakeups(r[q].events)
BY DEF Queued

LEMMA WakeupsOfConcat ==
    ASSUME NEW a \in Seq(Event), NEW b \in Seq(Event)
    PROVE  Wakeups(a \o b) = Wakeups(a) \union Wakeups(b)
<1> DEFINE c == a \o b
<1>1. /\ Len(a) \in Nat /\ Len(b) \in Nat
      /\ DOMAIN a = 1 .. Len(a) /\ DOMAIN b = 1 .. Len(b) /\ DOMAIN c = 1 .. Len(a) + Len(b)
      /\ \A i \in 1 .. Len(a) : c[i] = a[i]
      /\ \A i \in 1 .. Len(b) : c[Len(a) + i] = b[i]
      /\ \A i \in DOMAIN c : i \in DOMAIN a \/ (i - Len(a) \in DOMAIN b /\ c[i] = b[i - Len(a)])
  OBVIOUS
<1> HIDE DEF c
<1>2. ASSUME NEW e
      PROVE  (\E i \in DOMAIN c : e = c[i]) <=> (\E i \in DOMAIN a : e = a[i]) \/ (\E i \in DOMAIN b : e = b[i])
  <2>1. \A i \in DOMAIN a : i \in DOMAIN c /\ c[i] = a[i]
    BY <1>1
  <2>2. \A i \in DOMAIN b : Len(a) + i \in DOMAIN c /\ c[Len(a) + i] = b[i]
    BY <1>1
  <2> QED
    BY <1>1, <2>1, <2>2
<1>3. ASSUME NEW e
      PROVE  e \in Wakeups(c) <=> e \in Wakeups(a) \/ e \in Wakeups(b)
  <2>1. /\ e \in Wakeups(c) <=> e.wake /\ \E i \in DOMAIN c : e = c[i]
        /\ e \in Wakeups(a) <=> e.wake /\ \E i \in DOMAIN a : e = a[i]
        /\ e \in Wakeups(b) <=> e.wake /\ \E i \in DOMAIN b : e = b[i]
    BY WakeupIn, Zenon
  <2> QED
    BY <1>2, <2>1, Zenon
<1>4. Wakeups(c) = Wakeups(a) \union Wakeups(b)
  BY <1>3
<1> QED
  BY <1>4 DEF c

LEMMA WakeupsSplit ==
    ASSUME NEW s \in Seq(Event), NEW n \in Nat, n <= Len(s)
    PROVE  /\ SubSeq(s, 1, n) \in Seq(Event) /\ SubSeq(s, n + 1, Len(s)) \in Seq(Event)
           /\ Wakeups(s) = Wakeups(SubSeq(s, 1, n)) \union Wakeups(SubSeq(s, n + 1, Len(s)))
<1> DEFINE a == SubSeq(s, 1, n)
           b == SubSeq(s, n + 1, Len(s))
<1>1. a \in Seq(Event) /\ b \in Seq(Event)
  BY PartOfSeq
<1>2. /\ DOMAIN s = 1 .. Len(s) /\ Len(s) \in Nat
      /\ DOMAIN a = 1 .. n /\ \A i \in 1 .. n : a[i] = s[i]
      /\ DOMAIN b = 1 .. Len(s) - n /\ \A i \in 1 .. Len(s) - n : b[i] = s[i + n]
  OBVIOUS
<1> HIDE DEF a, b
<1>3. /\ \A i \in DOMAIN a : i \in DOMAIN s /\ a[i] = s[i]
      /\ \A i \in DOMAIN b : i + n \in DOMAIN s /\ b[i] = s[i + n]
      /\ \A i \in DOMAIN s : \/ i \in DOMAIN a /\ s[i] = a[i]
                             \/ i - n \in DOMAIN b /\ s[i] = b[i - n]
  <2>1. ASSUME NEW i \in DOMAIN s
        PROVE  \/ i \in DOMAIN a /\ s[i] = a[i]
               \/ i - n \in DOMAIN b /\ s[i] = b[i - n]
    <3>1. CASE i <= n
      BY <1>2, <3>1
    <3>2. CASE ~(i <= n)
      <4>1. i - n \in 1 .. Len(s) - n /\ (i - n) + n = i
        BY <1>2, <3>2
      <4> QED
        BY <1>2, <4>1
    <3> QED
      BY <3>1, <3>2
  <2>2. \A i \in DOMAIN a : i \in DOMAIN s /\ a[i] = s[i]
    BY <1>2
  <2>3. \A i \in DOMAIN b : i + n \in DOMAIN s /\ b[i] = s[i + n]
    BY <1>2
  <2> QED
    BY <2>1, <2>2, <2>3
<1>4. ASSUME NEW e
      PROVE  e \in Wakeups(s) <=> e \in Wakeups(a) \/ e \in Wakeups(b)
  <2>1. /\ e \in Wakeups(s) <=> e.wake /\ \E i \in DOMAIN s : e = s[i]
        /\ e \in Wakeups(a) <=> e.wake /\ \E i \in DOMAIN a : e = a[i]
        /\ e \in Wakeups(b) <=> e.wake /\ \E i \in DOMAIN b : e = b[i]
    BY WakeupIn, Zenon
  <2> QED
    BY <1>3, <2>1, Zenon
<1>5. Wakeups(s) = Wakeups(a) \union Wakeups(b)
  BY <1>4
<1> QED
  BY <1>1, <1>5 DEF a, b

LEMMA QueuedOfAppend ==
    ASSUME NEW r \in Seq(Entry), NEW e \in Entry
    PROVE  Queued(Append(r, e)) = Queued(r) \union Wakeups(e.events)
<1> DEFINE a == Append(r, e)
<1>1. /\ DOMAIN a = DOMAIN r \union {Len(r) + 1} /\ a[Len(r) + 1] = e
      /\ \A q \in DOMAIN r : a[q] = r[q]
  OBVIOUS
<1> HIDE DEF a
<1>2. \A x : x \in Queued(a) <=> x \in Queued(r) \union Wakeups(e.events)
  BY <1>1, QueuedIn
<1> QED
  BY <1>2 DEF a

LEMMA QueuedOfFront ==
    ASSUME NEW r \in Seq(Entry), r # <<>>
    PROVE  LET c == SubSeq(Head(r).events, 1, Least(Len(Head(r).events), QueueSize))
           IN  /\ c \in Seq(Event)
               /\ Queued(r) = Wakeups(c) \union Queued(Left(r))
<1> DEFINE h == r[1].events
           k == Least(Len(h), QueueSize)
           c == SubSeq(h, 1, k)
           d == SubSeq(h, k + 1, Len(h))
           l == Left(r)
<1>1. Head(r) = r[1] /\ Len(r) \in Nat \ {0} /\ r[1] \in Entry /\ DOMAIN r = 1 .. Len(r)
  OBVIOUS
<1>2. h \in Seq(Event) /\ Len(h) \in Nat /\ QueueSize \in Nat \ {0}
  BY <1>1, SensorsAssumption DEF Entry
<1>3. k \in Nat /\ k <= Len(h) /\ k = (IF Len(h) > QueueSize THEN QueueSize ELSE Len(h))
  BY <1>2 DEF Least
<1> HIDE DEF k
<1>4. c \in Seq(Event) /\ Wakeups(h) = Wakeups(c) \union Wakeups(d)
  BY <1>2, <1>3, WakeupsSplit
<1>5. /\ l \in Seq(Entry)
      /\ \/ /\ Len(h) > QueueSize
            /\ Len(l) = Len(r)
            /\ \A q \in 2 .. Len(r) : l[q] = r[q]
            /\ l[1].events = SubSeq(h, QueueSize + 1, Len(h))
         \/ /\ Len(h) <= QueueSize
            /\ Len(l) = Len(r) - 1
            /\ \A q \in 1 .. Len(r) - 1 : l[q] = r[q + 1]
  BY LeftIs
<1>6. DOMAIN l = 1 .. Len(l)
  BY <1>5
<1>7. d = SubSeq(h, k + 1, Len(h))
  OBVIOUS
<1> HIDE DEF l, c, d
<1>8. Queued(r) = Wakeups(c) \union Queued(l)
  <2>1. CASE /\ Len(h) > QueueSize
             /\ Len(l) = Len(r)
             /\ \A q \in 2 .. Len(r) : l[q] = r[q]
             /\ l[1].events = SubSeq(h, QueueSize + 1, Len(h))
    <3>1. l[1].events = d
      BY <1>3, <1>7, <2>1
    <3>2. DOMAIN l = DOMAIN r /\ 1 \in DOMAIN r /\ \A q \in DOMAIN r \ {1} : l[q] = r[q]
      BY <1>1, <1>6, <2>1
    <3> HIDE DEF h
    <3>3. Wakeups(r[1].events) = Wakeups(c) \union Wakeups(l[1].events)
      BY <1>4, <3>1 DEF h
    <3>4. \A x : x \in Queued(r) <=> x \in Wakeups(c) \union Queued(l)
      BY <3>2, <3>3, QueuedIn
    <3> QED
      BY <3>4
  <2>2. CASE /\ Len(h) <= QueueSize
             /\ Len(l) = Len(r) - 1
             /\ \A q \in 1 .. Len(r) - 1 : l[q] = r[q + 1]
    <3>1. Wakeups(d) = {}
      <4>1. k = Len(h)
        BY <1>2, <1>3, <2>2
      <4>2. SubSeq(h, Len(h) + 1, Len(h)) = <<>>
        <5> HIDE DEF h
        <5> QED
          BY <1>2
      <4>3. d = <<>>
        BY <1>7, <4>1, <4>2
      <4> QED
        BY <4>3 DEF Wakeups, Elements
    <3>2. Wakeups(r[1].events) = Wakeups(c)
      BY <1>4, <3>1
    <3>3. /\ 1 \in DOMAIN r
          /\ \A q \in DOMAIN l : q + 1 \in DOMAIN r /\ l[q] = r[q + 1]
          /\ \A q \in DOMAIN r \ {1} : q - 1 \in DOMAIN l /\ r[q] = l[q - 1]
      <4>1. ASSUME NEW q \in DOMAIN r \ {1}
            PROVE  q - 1 \in DOMAIN l /\ r[q] = l[q - 1]
        <5>1. q - 1 \in 1 .. Len(r) - 1 /\ (q - 1) + 1 = q
          BY <1>1
        <5> QED
          BY <1>6, <2>2, <5>1
      <4> QED
        BY <1>1, <1>6, <2>2, <4>1
    <3> HIDE DEF h
    <3>4. \A x : x \in Queued(r) <=> x \in Wakeups(c) \union Queued(l)
      BY <3>2, <3>3, QueuedIn
    <3> QED
      BY <3>4
  <2> QED
    BY <1>5, <2>1, <2>2
<1>9. c = SubSeq(Head(r).events, 1, Least(Len(Head(r).events), QueueSize))
  BY <1>1 DEF c, k
<1>10. Queued(r) = Wakeups(c) \union Queued(Left(r))
  BY <1>8 DEF l
<1> QED
  BY <1>4, <1>9, <1>10

\* Events that keep an order are apart.
LEMMA NumbersApart ==
    ASSUME NEW S \in SUBSET Event, NEW T \in SUBSET Event, \A e \in S, f \in T : e.n < f.n
    PROVE  S \intersect T = {}
<1>1. \A e \in Event : ~(e.n < e.n)
  BY DEF Event
<1> QED
  BY <1>1

LEMMA OrderedApart ==
    ASSUME NEW u \in SUBSET Event, NEW f \in Seq(Event), NEW c \in Seq(Event),
           NEW l \in Seq(Entry), Ordered(u, f \o c, l)
    PROVE  /\ Wakeups(c) \intersect u = {}
           /\ Wakeups(c) \intersect Wakeups(f) = {}
           /\ Wakeups(c) \intersect Queued(l) = {}
<1> DEFINE g == f \o c
<1>1. /\ Len(f) \in Nat /\ DOMAIN f = 1 .. Len(f) /\ DOMAIN c = 1 .. Len(c) /\ Len(c) \in Nat
      /\ \A i \in DOMAIN f : i \in DOMAIN g /\ g[i] = f[i]
      /\ \A i \in DOMAIN c : Len(f) + i \in DOMAIN g /\ g[Len(f) + i] = c[i]
  OBVIOUS
<1>2. Ordered(u, g, l)
  OBVIOUS
<1> HIDE DEF g
<1>3. /\ Wakeups(c) \in SUBSET Event /\ Wakeups(f) \in SUBSET Event
      /\ \A q \in DOMAIN l : Wakeups(l[q].events) \in SUBSET Event
  BY WakeupsAreEvents, EntriesTyped
<1>4. \A e \in u, x \in Wakeups(c) : e.n < x.n
  BY <1>1, <1>2, WakeupIn DEF Ordered
<1>5. \A e \in Wakeups(f), x \in Wakeups(c) : e.n < x.n
  <2>1. \A i \in DOMAIN f, j \in DOMAIN c : g[i].n < g[Len(f) + j].n
    <3>1. \A i \in DOMAIN f, j \in DOMAIN c : i < Len(f) + j
      BY <1>1
    <3> QED
      BY <1>1, <1>2, <3>1 DEF Ordered
  <2>2. ASSUME NEW e \in Wakeups(f), NEW x \in Wakeups(c)
        PROVE  e.n < x.n
    <3>1. PICK i \in DOMAIN f : e = f[i]
      BY WakeupIn
    <3>2. PICK j \in DOMAIN c : x = c[j]
      BY WakeupIn
    <3>3. g[i].n < g[Len(f) + j].n /\ g[i] = e /\ g[Len(f) + j] = x
      BY <1>1, <2>1, <3>1, <3>2
    <3> QED
      BY <3>3
  <2> QED
    BY <2>2
<1>6. Queued(l) \in SUBSET Event
  BY <1>3 DEF Queued
<1>7. \A e \in Wakeups(c), x \in Queued(l) : e.n < x.n
  <2>1. ASSUME NEW e \in Wakeups(c), NEW q \in DOMAIN l, NEW x \in Wakeups(l[q].events)
        PROVE  e.n < x.n
    <3>1. PICK i \in DOMAIN l[q].events : x = l[q].events[i]
      BY WakeupIn
    <3>2. PICK j \in DOMAIN c : e = c[j]
      BY WakeupIn
    <3> QED
      BY <1>1, <1>2, <3>1, <3>2 DEF Ordered
  <2> QED
    BY <2>1, QueuedIn
<1> QED
  BY <1>3, <1>4, <1>5, <1>6, <1>7, NumbersApart

\* What is new is not under way.
LEMMA NewApart ==
    ASSUME NEW u \in SUBSET Event, NEW f \in Seq(Event), NEW r \in Seq(Entry), NEW m \in Nat,
           UpTo(m, u, f, r), NEW N \in SUBSET Event, \A x \in N : x.n > m
    PROVE  N \intersect (Queued(r) \union Wakeups(f) \union u) = {}
<1>1. \A e \in Queued(r) \union Wakeups(f) \union u : e.n <= m
  <2>1. ASSUME NEW q \in DOMAIN r, NEW x \in Wakeups(r[q].events)
        PROVE  x.n <= m
    BY WakeupIn DEF UpTo
  <2>2. \A x \in Wakeups(f) \union u : x.n <= m
    BY WakeupIn DEF UpTo
  <2> QED
    BY <2>1, <2>2, QueuedIn
<1>2. \A x \in Event : ~(x.n <= m /\ x.n > m)
  BY DEF Event
<1> QED
  BY <1>1, <1>2

LEMMA EmptyQueued == Queued(<<>>) = {} /\ Wakeups(<<>>) = {}
BY DEF Queued, Wakeups, Elements

LEMMA ApartKept ==
    ASSUME ProxyInv, OrderInv, Apart, [Next]_vars
    PROVE  Apart'
<1>1. /\ acks \in Seq(SUBSET Event) /\ Len(acks) \in Nat /\ DOMAIN acks = 1 .. Len(acks)
      /\ TypeOK
  BY DEF ProxyInv, TypeOK
<1>2. CASE UNCHANGED <<acks, unhandled>>
  BY <1>2 DEF Apart
<1>3. CASE HandleEvents
  <2>1. acks' = Append(acks, unhandled) /\ unhandled' = {}
    BY <1>3 DEF HandleEvents
  <2>2. /\ DOMAIN acks' = 1 .. Len(acks) + 1
        /\ \A i \in 1 .. Len(acks) : acks'[i] = acks[i]
        /\ acks'[Len(acks) + 1] = unhandled
    BY <1>1, <2>1
  <2>3. \A i \in DOMAIN acks' : i \in DOMAIN acks \/ i = Len(acks) + 1
    BY <1>1, <2>2
  <2> QED
    BY <1>1, <2>1, <2>2, <2>3 DEF Apart
<1>4. ASSUME NEW n \in 1 .. Len(fmq), ReadEvents(n)
      PROVE  Apart'
  <2> DEFINE c == SubSeq(fmq, 1, n)
             d == SubSeq(fmq, n + 1, Len(fmq))
  <2>1. acks' = acks /\ unhandled' = unhandled \union Wakeups(c)
    BY <1>4 DEF ReadEvents
  <2>2. fmq \in Seq(Event) /\ Seen \in SUBSET Event /\ Ordered(Seen, fmq, Rest)
    BY RestIs DEF OrderInv
  <2>3. \A i \in DOMAIN c : i \in DOMAIN fmq /\ c[i] = fmq[i]
    BY <2>2
  <2>4. c \in Seq(Event)
    BY <2>2, PartOfSeq
  <2> HIDE DEF c
  <2>5. \A e \in Seen, x \in Wakeups(c) : e.n < x.n
    <3>1. \A e \in Seen, i \in DOMAIN fmq : e.n < fmq[i].n
      BY <2>2 DEF Ordered
    <3> QED
      BY <2>3, <3>1, WakeupIn
  <2>6. Seen \intersect Wakeups(c) = {}
    BY <2>2, <2>4, <2>5, NumbersApart, WakeupsAreEvents
  <2>7. \A i \in DOMAIN acks : acks[i] \subseteq Seen
    BY DEF Seen, Elements
  <2> QED
    BY <2>1, <2>6, <2>7 DEF Apart
<1>5. CASE AckArrives
  <2>1. acks' = Tail(acks) /\ acks # <<>> /\ unhandled' = unhandled
    BY <1>5 DEF AckArrives
  <2>2. \A i \in DOMAIN acks' : i \in Nat /\ i + 1 \in DOMAIN acks /\ acks'[i] = acks[i + 1]
    BY <1>1, <2>1
  <2> QED
    BY <2>1, <2>2 DEF Apart
<1>6. CASE StopDrains
  <2>1. acks' = Append(acks, {}) /\ unhandled' = unhandled
    BY <1>6 DEF StopDrains
  <2>2. /\ DOMAIN acks' = 1 .. Len(acks) + 1
        /\ \A i \in 1 .. Len(acks) : acks'[i] = acks[i]
        /\ acks'[Len(acks) + 1] = {}
    BY <1>1, <2>1
  <2>3. \A i \in DOMAIN acks' : i \in DOMAIN acks \/ i = Len(acks) + 1
    BY <1>1, <2>2
  <2> QED
    BY <1>1, <2>1, <2>2, <2>3 DEF Apart
<1>7. CASE ClearQueues
  BY <1>7 DEF ClearQueues, Apart
<1>8. \/ UNCHANGED <<acks, unhandled>> \/ HandleEvents \/ \E n \in 1 .. Len(fmq) : ReadEvents(n)
      \/ AckArrives \/ StopDrains \/ ClearQueues
  <2>1. CASE WriterNext
    BY <2>1 DEF WriterNext, WriterChecks, WriterWaits, WriteBlocking, WriteTimesOut, WriterPops,
       frameVars
  <2>2. CASE LockerNext
    BY <2>2 DEF LockerNext, WakelockTimesOut, LockerReads, LockerChecks, LockerWaits,
       LockerExits, ReadTimesOut, frameVars
  <2>3. CASE \E s \in SubHals : SubHalGoesOn(s)
                \/ \E shape \in BatchShapes : CreateScopedWakelock(s, shape)
    BY <2>3 DEF SubHalGoesOn, PostEvents, PostEventsToMessageQueue, DestroyScopedWakelock,
       CreateScopedWakelock, frameVars
  <2>4. CASE StopThreads \/ OwnerGoesOn
    BY <2>4 DEF StopThreads, OwnerGoesOn, StopNotifies, JoinThreads, StartThreads, frameVars
  <2>5. CASE Tick \/ UNCHANGED vars
    BY <2>5 DEF Tick, vars, frameVars
  <2> QED
    BY <2>1, <2>2, <2>3, <2>4, <2>5 DEF Next
<1> QED
  BY <1>2, <1>3, <1>4, <1>5, <1>6, <1>7, <1>8

\* What is taken from the front of the queue is apart from the rest.
LEMMA ChunkUnderWay ==
    ASSUME ProxyInv, OrderInv, writer = "writing"
    PROVE  /\ pendingWrites # <<>> /\ Rest = pendingWrites
           /\ Chunk \in Seq(Event)
           /\ Queued(Rest) = Wakeups(Chunk) \union Queued(Left(pendingWrites))
           /\ Wakeups(Chunk) \intersect Seen = {}
           /\ Wakeups(Chunk) \intersect Wakeups(fmq) = {}
           /\ Wakeups(Chunk) \intersect Queued(Left(pendingWrites)) = {}
<1>1. pendingWrites # <<>> /\ pendingWrites \in Seq(Entry)
  BY QueueTyped DEF ProxyInv, SingleWriter
<1>2. Rest = pendingWrites /\ fmq \in Seq(Event) /\ Seen \in SUBSET Event /\ posted \in Nat
  BY RestIs
<1>3. /\ Chunk = SubSeq(Head(pendingWrites).events, 1,
                        Least(Len(Head(pendingWrites).events), QueueSize))
      /\ Chunk \in Seq(Event)
  BY <1>1, ChunkFacts DEF Chunk, NumToWrite, ProxyInv
<1>4. Queued(pendingWrites) = Wakeups(Chunk) \union Queued(Left(pendingWrites))
  BY <1>1, <1>3, QueuedOfFront
<1>5. Ordered(Seen, fmq \o Chunk, Left(pendingWrites))
  <2>1. Ordered(Seen, fmq, pendingWrites) /\ UpTo(posted, Seen, fmq, pendingWrites)
    BY <1>2 DEF OrderInv
  <2> QED
    BY <1>1, <1>2, <1>3, <2>1, LeftOrdered
<1>6. Left(pendingWrites) \in Seq(Entry)
  BY <1>1, LeftIs
<1>7. /\ Wakeups(Chunk) \intersect Seen = {}
      /\ Wakeups(Chunk) \intersect Wakeups(fmq) = {}
      /\ Wakeups(Chunk) \intersect Queued(Left(pendingWrites)) = {}
  <2> DEFINE c == Chunk
             l == Left(pendingWrites)
  <2>1. c \in Seq(Event) /\ l \in Seq(Entry) /\ Ordered(Seen, fmq \o c, l)
    BY <1>3, <1>5, <1>6
  <2> HIDE DEF c, l
  <2>2. /\ Wakeups(c) \intersect Seen = {}
        /\ Wakeups(c) \intersect Wakeups(fmq) = {}
        /\ Wakeups(c) \intersect Queued(l) = {}
    BY <1>2, <2>1, OrderedApart
  <2> QED
    BY <2>2 DEF c, l
<1> QED
  BY <1>1, <1>2, <1>3, <1>4, <1>7

\* Steps that only move events on.
LEMMA StaysUnderWay ==
    ASSUME ProxyInv, OrderInv,
           \/ WriterChecks \/ WriterWaits \/ WriterPops \/ WriteBlocking \/ HandleEvents
           \/ \E n \in 1 .. Len(fmq) : ReadEvents(n)
    PROVE  UnderWay' = UnderWay
<1>1. CASE WriterChecks \/ WriterWaits \/ WriterPops
  <2>1. UNCHANGED <<Seen, fmq>>
    BY <1>1 DEF WriterChecks, WriterWaits, WriterPops, frameVars, Seen
  <2>2. Rest' = Rest
    <3>1. CASE WriterChecks \/ WriterWaits
      <4>1. /\ writer \notin {"written", "failed"} /\ writer' \notin {"written", "failed"}
            /\ pendingWrites' = pendingWrites
        BY <3>1 DEF WriterChecks, WriterWaits
      <4> QED
        BY <4>1, RestIs, RestAfter
    <3>2. CASE WriterPops
      <4>1. /\ writer \in {"written", "failed"} /\ writer' = "woken"
            /\ pendingWrites' = Left(pendingWrites)
        BY <3>2 DEF WriterPops, Left, IsPart
      <4> QED
        BY <4>1, RestIs, RestAfter
    <3> QED
      BY <1>1, <3>1, <3>2
  <2>3. Queued(Rest)' = Queued(Rest) /\ Wakeups(fmq)' = Wakeups(fmq)
    BY <2>1, <2>2 DEF Queued, Wakeups, Elements
  <2> QED
    BY <2>1, <2>3 DEF UnderWay
<1>2. CASE WriteBlocking
  <2>1. /\ writer = "writing" /\ writer' = "written" /\ fmq' = fmq \o Chunk
        /\ UNCHANGED <<pendingWrites, Seen>>
    BY <1>2 DEF WriteBlocking, frameVars, Seen
  <2>2. Rest' = Left(pendingWrites)
    BY <2>1, RestAfter
  <2>3. fmq \in Seq(Event) /\ Wakeups(fmq \o Chunk) = Wakeups(fmq) \union Wakeups(Chunk)
    BY <2>1, RestIs, ChunkUnderWay, WakeupsOfConcat
  <2>4. UnderWay' = Queued(Left(pendingWrites)) \union Wakeups(fmq \o Chunk) \union Seen
    BY <2>1, <2>2 DEF UnderWay
  <2>5. Queued(Rest) = Wakeups(Chunk) \union Queued(Left(pendingWrites))
    BY <2>1, ChunkUnderWay
  <2> QED
    BY <2>3, <2>4, <2>5 DEF UnderWay
<1>3. CASE HandleEvents
  <2>1. UNCHANGED <<pendingWrites, writer, fmq>>
    BY <1>3 DEF HandleEvents, queueVars
  <2>2. Rest' = Rest /\ Seen' = Seen
    BY <1>3, <2>1, RestIs, RestAfter, HandledSeen DEF ProxyInv
  <2> QED
    BY <2>1, <2>2 DEF UnderWay
<1>4. ASSUME NEW n \in 1 .. Len(fmq), ReadEvents(n)
      PROVE  UnderWay' = UnderWay
  <2>1. /\ fmq' = SubSeq(fmq, n + 1, Len(fmq))
        /\ Seen' = Seen \union Wakeups(SubSeq(fmq, 1, n))
        /\ UNCHANGED <<pendingWrites, writer>>
    BY <1>4, ReadSeen DEF ReadEvents
  <2>2. Rest' = Rest
    BY <2>1, RestIs, RestAfter
  <2>3. n \in Nat /\ n <= Len(fmq) /\ fmq \in Seq(Event)
    BY RestIs
  <2>4. Wakeups(fmq) = Wakeups(SubSeq(fmq, 1, n)) \union Wakeups(SubSeq(fmq, n + 1, Len(fmq)))
    BY <2>3, WakeupsSplit
  <2>5. UnderWay' = Queued(Rest) \union Wakeups(SubSeq(fmq, n + 1, Len(fmq)))
                    \union (Seen \union Wakeups(SubSeq(fmq, 1, n)))
    BY <2>1, <2>2 DEF UnderWay
  <2> QED
    BY <2>4, <2>5 DEF UnderWay
<1> QED
  BY <1>1, <1>2, <1>3, <1>4

\* Steps that end the way of events.
LEMMA GivenUp ==
    ASSUME ProxyInv, OrderInv, WriteTimesOut
    PROVE  /\ UnderWay = UnderWay' \union Wakeups(Chunk)
           /\ UnderWay' \intersect Wakeups(Chunk) = {}
<1>1. /\ writer = "writing" /\ writer' = "failed"
      /\ UNCHANGED <<pendingWrites, fmq, Seen>>
  BY DEF WriteTimesOut, frameVars, Seen
<1>2. Rest' = Left(pendingWrites)
  BY <1>1, RestAfter
<1>3. UnderWay' = Queued(Left(pendingWrites)) \union Wakeups(fmq) \union Seen
  BY <1>1, <1>2 DEF UnderWay
<1> QED
  BY <1>1, <1>3, ChunkUnderWay DEF UnderWay

LEMMA Answered ==
    ASSUME ProxyInv, OrderInv, Apart, AckArrives
    PROVE  /\ UnderWay = UnderWay' \union Head(acks)
           /\ UnderWay' \intersect Head(acks) = {}
<1>1. /\ acks' = Tail(acks) /\ acks # <<>>
      /\ UNCHANGED <<unhandled, fmq, pendingWrites, writer>>
  BY DEF AckArrives, queueVars
<1>2. Rest' = Rest
  BY <1>1, RestIs, RestAfter
<1>3. TypeOK /\ Head(acks) = acks[1] /\ 1 \in DOMAIN acks
      /\ Elements(acks) = Elements(Tail(acks)) \union {Head(acks)}
  BY <1>1, TailOfAcks DEF ProxyInv
<1> DEFINE seen == unhandled \union UNION Elements(Tail(acks))
<1>4. Seen' = seen /\ Seen = seen \union Head(acks)
  BY <1>1, <1>3 DEF Seen
<1>5. seen \intersect Head(acks) = {}
  <2>1. ASSUME NEW S \in Elements(Tail(acks))
        PROVE  S \intersect Head(acks) = {}
    <3>1. PICK i \in DOMAIN Tail(acks) : S = Tail(acks)[i]
      BY DEF Elements
    <3>2. i + 1 \in DOMAIN acks /\ S = acks[i + 1] /\ i + 1 # 1
      <4>1. i \in Nat \ {0}
        BY <1>3 DEF TypeOK
      <4> QED
        BY <1>1, <1>3, <3>1, <4>1, TailOfAcks
    <3> QED
      BY <1>3, <3>2 DEF Apart
  <2>2. unhandled \intersect Head(acks) = {}
    BY <1>3 DEF Apart
  <2> QED
    BY <2>1, <2>2
<1> HIDE DEF seen
<1>6. Head(acks) \subseteq Seen /\ Seen \in SUBSET Event /\ fmq \in Seq(Event) /\ Rest \in Seq(Entry)
  BY <1>4, RestIs
<1>7. /\ Head(acks) \intersect Wakeups(fmq) = {}
      /\ Head(acks) \intersect Queued(Rest) = {}
  <2>1. Wakeups(fmq) \in SUBSET Event /\ \A q \in DOMAIN Rest : Wakeups(Rest[q].events) \in SUBSET Event
    BY <1>6, WakeupsAreEvents, EntriesTyped
  <2>2. \A e \in Seen, x \in Wakeups(fmq) : e.n < x.n
    BY WakeupIn DEF OrderInv, Ordered
  <2>3. ASSUME NEW e \in Seen, NEW x \in Queued(Rest)
        PROVE  e.n < x.n
    <3>1. PICK q \in DOMAIN Rest : x \in Wakeups(Rest[q].events)
      BY QueuedIn
    <3>2. PICK i \in DOMAIN Rest[q].events : x = Rest[q].events[i]
      BY <3>1, WakeupIn
    <3> QED
      BY <3>2 DEF OrderInv, Ordered
  <2>4. Queued(Rest) \in SUBSET Event
    BY <2>1 DEF Queued
  <2> QED
    BY <1>6, <2>1, <2>2, <2>3, <2>4, NumbersApart
<1>8. UnderWay' = Queued(Rest) \union Wakeups(fmq) \union seen
  BY <1>1, <1>2, <1>4 DEF UnderWay
<1> QED
  BY <1>4, <1>5, <1>7, <1>8 DEF UnderWay

\* A posted batch: N goes on its way, M is dropped.
LEMMA BatchUnderWay ==
    ASSUME ProxyInv, OrderInv, NEW s \in SubHals, PostEventsToMessageQueue(s)
    PROVE  \E N, M \in SUBSET Event :
              /\ N \union M = Wakeups(Batch(s)) /\ N \intersect M = {}
              /\ UnderWay' = UnderWay \union N /\ UnderWay \intersect N = {}
              /\ dropped' = dropped + Cardinality(M)
              /\ \A e \in N : e.era = era
<1> DEFINE events  == Batch(s)
           wakeups == Cardinality(Wakeups(events))
           direct  == Direct(events)
           first   == SubSeq(events, 1, direct)
           left    == SubSeq(events, direct + 1, Len(events))
           entry   == [events |-> left, numWakeupEvents |-> wakeups]
<1>1. subhal[s] # Idle /\ TypeOK /\ pendingWrites \in Seq(Entry)
  BY NotIdle, QueueTyped DEF PostEventsToMessageQueue, ProxyInv
<1>2. /\ events \in Seq(Event) /\ Len(events) \in Nat /\ wakeups \in Nat
      /\ \A i \in 1 .. Len(events) : events[i].n = posted + i
  BY <1>1, BatchNumbers, WakeupsFinite
<1>3. /\ fmq' = fmq \o first
      /\ IF left # <<>> /\ Fits(Len(left))
         THEN pendingWrites' = Append(pendingWrites, entry) /\ writer' = Notified(writer)
              /\ dropped' = dropped
         ELSE UNCHANGED <<pendingWrites, writer>> /\ dropped' = dropped + Cardinality(Wakeups(left))
      /\ Seen' = Seen
  BY DEF PostEventsToMessageQueue, frameVars, Seen
<1>4. fmq \in Seq(Event) /\ Len(fmq) \in Nat /\ Len(fmq) <= QueueSize /\ QueueSize \in Nat
  BY <1>1, SensorsAssumption DEF TypeOK
<1>5. direct \in Nat /\ direct <= Len(events)
  <2> HIDE DEF events
  <2> QED
    BY <1>2, <1>4 DEF Direct, Least
<1>6. \A e \in Wakeups(events) : e.era = era /\ e.n > posted
  <2>1. ASSUME NEW e \in Wakeups(events)
        PROVE  e.era = era /\ e.n > posted
    <3>1. PICK i \in DOMAIN events : e = events[i]
      BY WakeupIn
    <3>2. e.era = era
      BY <3>1 DEF Batch
    <3>3. i \in 1 .. Len(events) /\ posted \in Nat
      BY <1>1, <1>2, <3>1 DEF TypeOK
    <3> QED
      BY <1>2, <3>1, <3>2, <3>3
  <2> QED
    BY <2>1
<1> HIDE DEF events, wakeups, direct
<1>7. /\ first \in Seq(Event) /\ left \in Seq(Event)
      /\ Wakeups(events) = Wakeups(first) \union Wakeups(left)
      /\ Wakeups(first) \in SUBSET Event /\ Wakeups(left) \in SUBSET Event
  <2>1. /\ first \in Seq(Event) /\ left \in Seq(Event)
        /\ Wakeups(events) = Wakeups(first) \union Wakeups(left)
    BY <1>2, <1>5, WakeupsSplit
  <2> QED
    BY <2>1, WakeupsAreEvents
<1>8. Wakeups(first) \intersect Wakeups(left) = {}
  <2>1. /\ \A i \in DOMAIN first : i \in 1 .. direct /\ first[i] = events[i]
        /\ \A i \in DOMAIN left : i \in 1 .. Len(events) - direct /\ left[i] = events[i + direct]
    BY <1>2, <1>5
  <2>2. \A i \in DOMAIN first : first[i].n = posted + i /\ i <= direct /\ i \in Nat
    BY <1>2, <1>5, <2>1
  <2>3. \A i \in DOMAIN left : left[i].n = posted + (i + direct) /\ i > 0 /\ i \in Nat
    <3>1. \A i \in DOMAIN left : i + direct \in 1 .. Len(events) /\ i > 0 /\ i \in Nat
      BY <1>2, <1>5, <2>1
    <3> QED
      BY <1>2, <2>1, <3>1
  <2>4. posted \in Nat
    BY <1>1 DEF TypeOK
  <2> HIDE DEF first, left
  <2>5. \A e \in Wakeups(first), f \in Wakeups(left) : e.n < f.n
    <3>1. ASSUME NEW e \in Wakeups(first), NEW f \in Wakeups(left)
          PROVE  e.n < f.n
      <4>1. PICK i \in DOMAIN first : e = first[i]
        BY WakeupIn
      <4>2. PICK j \in DOMAIN left : f = left[j]
        BY WakeupIn
      <4> QED
        BY <1>5, <2>2, <2>3, <2>4, <4>1, <4>2
    <3> QED
      BY <3>1
  <2> QED
    BY <1>7, <2>5, NumbersApart
<1> HIDE DEF first, left
<1>9. Seen \in SUBSET Event /\ Rest \in Seq(Entry) /\ posted \in Nat
  BY RestIs
<1>10. UnderWay \intersect Wakeups(events) = {}
  <2>1. UpTo(posted, Seen, fmq, Rest)
    BY DEF OrderInv
  <2>2. \A x \in Wakeups(events) : x.n > posted
    BY <1>6
  <2>3. Wakeups(events) \in SUBSET Event
    BY <1>7
  <2> QED
    BY <1>4, <1>9, <2>1, <2>2, <2>3, NewApart DEF UnderWay
<1>11. Wakeups(fmq') = Wakeups(fmq) \union Wakeups(first)
  BY <1>3, <1>4, <1>7, WakeupsOfConcat
<1>12. dropped \in Nat
  BY <1>1 DEF TypeOK
<1>13. UnderWay' = Queued(Rest') \union Wakeups(fmq') \union Seen'
  BY DEF UnderWay
<1>14. CASE left # <<>> /\ Fits(Len(left))
  <2>1. entry \in Entry /\ entry.events = left
    BY <1>2, <1>7 DEF Entry
  <2>2. pendingWrites' = Append(pendingWrites, entry) /\ writer' = Notified(writer) /\ dropped' = dropped
    BY <1>3, <1>14
  <2> HIDE DEF entry
  <2>3. Rest' = Append(Rest, entry)
    <3>1. writer' \in {"written", "failed"} <=> writer \in {"written", "failed"}
      BY <2>2 DEF Notified
    <3>2. CASE writer \in {"written", "failed"}
      <4>1. pendingWrites # <<>>
        BY <3>2 DEF ProxyInv, SingleWriter
      <4>2. Left(Append(pendingWrites, entry)) = Append(Left(pendingWrites), entry)
        BY <1>1, <2>1, <4>1, LeftOfAppend
      <4> QED
        BY <2>2, <3>1, <3>2, <4>2, RestIs, RestAfter
    <3>3. CASE writer \notin {"written", "failed"}
      BY <2>2, <3>1, <3>3, RestIs, RestAfter
    <3> QED
      BY <3>2, <3>3
  <2>4. Queued(Append(Rest, entry)) = Queued(Rest) \union Wakeups(left)
    BY <1>9, <2>1, QueuedOfAppend
  <2>5. UnderWay' = UnderWay \union Wakeups(events)
    BY <1>3, <1>7, <1>11, <1>13, <2>3, <2>4 DEF UnderWay
  <2>6. dropped' = dropped + Cardinality({})
    BY <1>12, <2>2, FS_EmptySet
  <2>7. Wakeups(events) \in SUBSET Event /\ {} \in SUBSET Event
    BY <1>7
  <2> USE <2>7
  <2> WITNESS Wakeups(events) \in SUBSET Event, {} \in SUBSET Event
  <2> QED
    BY <1>6, <1>10, <2>5, <2>6 DEF events
<1>15. CASE ~(left # <<>> /\ Fits(Len(left)))
  <2>1. UNCHANGED <<pendingWrites, writer>> /\ dropped' = dropped + Cardinality(Wakeups(left))
    BY <1>3, <1>15
  <2>2. Rest' = Rest
    BY <2>1, RestIs, RestAfter
  <2>3. UnderWay' = UnderWay \union Wakeups(first)
    BY <1>3, <1>11, <1>13, <2>2 DEF UnderWay
  <2>4. UnderWay \intersect Wakeups(first) = {} /\ \A e \in Wakeups(first) : e.era = era
    BY <1>6, <1>7, <1>10
  <2>5. Wakeups(first) \in SUBSET Event /\ Wakeups(left) \in SUBSET Event
    BY <1>7
  <2> USE <2>5
  <2> WITNESS Wakeups(first) \in SUBSET Event, Wakeups(left) \in SUBSET Event
  <2> QED
    BY <1>7, <1>8, <2>1, <2>3, <2>4 DEF events
<1> QED
  BY <1>14, <1>15

\* What is written for a batch on the queue without wake-up events is 0.
EntriesCounted ==
    \A q \in DOMAIN pendingWrites :
        pendingWrites[q].numWakeupEvents = 0 => Wakeups(pendingWrites[q].events) = {}

LEMMA EntriesCountedKept ==
    ASSUME ProxyInv, EntriesCounted, [Next]_vars
    PROVE  EntriesCounted'
<1>1. pendingWrites \in Seq(Entry) /\ TypeOK
  BY QueueTyped DEF ProxyInv
<1>2. CASE UNCHANGED pendingWrites
  BY <1>2 DEF EntriesCounted
<1>3. CASE pendingWrites' = <<>>
  BY <1>3 DEF EntriesCounted
<1>4. CASE WriterPops
  <2>1. pendingWrites # <<>> /\ pendingWrites' = Left(pendingWrites)
    BY <1>4 DEF WriterPops, Left, IsPart, ProxyInv, SingleWriter
  <2>2. Len(pendingWrites) \in Nat \ {0} /\ DOMAIN pendingWrites = 1 .. Len(pendingWrites)
        /\ pendingWrites[1] \in Entry /\ Head(pendingWrites) = pendingWrites[1]
    BY <1>1, <2>1
  <2>3. CASE Len(Head(pendingWrites).events) > QueueSize
    <3> DEFINE h == pendingWrites[1]
               d == SubSeq(h.events, QueueSize + 1, Len(h.events))
               e == [h EXCEPT !.events = d]
    <3>1. pendingWrites' = [pendingWrites EXCEPT ![1] = e]
      BY <2>1, <2>2, <2>3 DEF Left
    <3>2. e.numWakeupEvents = h.numWakeupEvents /\ e.events = d
      BY <2>2 DEF Entry
    <3>3. Wakeups(d) \subseteq Wakeups(h.events)
      <4>1. /\ h.events \in Seq(Event) /\ QueueSize \in Nat /\ QueueSize <= Len(h.events)
        BY <2>2, <2>3, SensorsAssumption DEF Entry
      <4> QED
        BY <4>1, WakeupsSplit
    <3>4. h.numWakeupEvents = 0 => Wakeups(h.events) = {}
      BY <2>2 DEF EntriesCounted
    <3> HIDE DEF e, d, h
    <3>5. /\ pendingWrites'[1] = e
          /\ \A q \in 2 .. Len(pendingWrites) : pendingWrites'[q] = pendingWrites[q]
          /\ DOMAIN pendingWrites' = DOMAIN pendingWrites
      BY <2>2, <3>1
    <3>6. ASSUME NEW q \in DOMAIN pendingWrites', pendingWrites'[q].numWakeupEvents = 0
          PROVE  Wakeups(pendingWrites'[q].events) = {}
      <4>1. CASE q = 1
        BY <3>2, <3>3, <3>4, <3>5, <3>6, <4>1
      <4>2. CASE q # 1
        <5>1. q \in 2 .. Len(pendingWrites)
          BY <2>2, <3>5, <4>2
        <5>2. pendingWrites'[q] = pendingWrites[q] /\ q \in DOMAIN pendingWrites
          BY <3>5, <5>1
        <5> QED
          BY <3>6, <5>2 DEF EntriesCounted
      <4> QED
        BY <4>1, <4>2
    <3> QED
      BY <3>6 DEF EntriesCounted
  <2>4. CASE ~(Len(Head(pendingWrites).events) > QueueSize)
    <3>1. pendingWrites' = Tail(pendingWrites)
      BY <2>1, <2>4 DEF Left
    <3>2. \A q \in DOMAIN pendingWrites' :
              q + 1 \in DOMAIN pendingWrites /\ pendingWrites'[q] = pendingWrites[q + 1]
      BY <1>1, <2>1, <2>2, <3>1
    <3> QED
      BY <3>2 DEF EntriesCounted
  <2> QED
    BY <2>3, <2>4
<1>5. ASSUME NEW s \in SubHals, PostEventsToMessageQueue(s)
      PROVE  EntriesCounted'
  <2> DEFINE events == Batch(s)
             left == SubSeq(events, Direct(events) + 1, Len(events))
             entry == [events |-> left, numWakeupEvents |-> Cardinality(Wakeups(events))]
  <2>1. pendingWrites' = Append(pendingWrites, entry) \/ pendingWrites' = pendingWrites
    BY <1>5 DEF PostEventsToMessageQueue
  <2>2. events \in Seq(Event) /\ Len(events) \in Nat
    BY <1>1, <1>5, BatchFacts, NotIdle DEF PostEventsToMessageQueue
  <2>3. Direct(events) \in Nat /\ Direct(events) <= Len(events)
    <3>1. Len(fmq) \in Nat /\ Len(fmq) <= QueueSize /\ QueueSize \in Nat
      BY <1>1, SensorsAssumption DEF TypeOK
    <3> HIDE DEF events
    <3> QED
      BY <2>2, <3>1 DEF Direct, Least
  <2> HIDE DEF events
  <2>4. Wakeups(left) \subseteq Wakeups(events)
    BY <2>2, <2>3, WakeupsSplit
  <2>5. Cardinality(Wakeups(events)) = 0 => Wakeups(events) = {}
    BY <2>2, WakeupsFinite, FS_EmptySet
  <2>6. entry.numWakeupEvents = 0 => Wakeups(entry.events) = {}
    BY <2>4, <2>5
  <2> HIDE DEF entry
  <2>7. CASE pendingWrites' = Append(pendingWrites, entry)
    <3>1. /\ DOMAIN pendingWrites' = DOMAIN pendingWrites \union {Len(pendingWrites) + 1}
          /\ pendingWrites'[Len(pendingWrites) + 1] = entry
          /\ \A q \in DOMAIN pendingWrites : pendingWrites'[q] = pendingWrites[q]
      BY <1>1, <2>7
    <3> QED
      BY <2>6, <3>1 DEF EntriesCounted
  <2>8. CASE pendingWrites' = pendingWrites
    BY <1>2, <2>8
  <2> QED
    BY <2>1, <2>7, <2>8
<1>6. \/ UNCHANGED pendingWrites \/ pendingWrites' = <<>> \/ WriterPops
      \/ \E s \in SubHals : PostEventsToMessageQueue(s)
  <2>1. CASE WriterNext
    BY <2>1 DEF WriterNext, WriterChecks, WriterWaits, WriteBlocking, WriteTimesOut
  <2>2. CASE LockerNext
    BY <2>2 DEF LockerNext, WakelockTimesOut, LockerReads, LockerChecks, LockerWaits,
       LockerExits, ReadTimesOut, AckArrives, queueVars
  <2>3. CASE \E s \in SubHals : SubHalGoesOn(s)
                \/ \E shape \in BatchShapes : CreateScopedWakelock(s, shape)
    BY <2>3 DEF SubHalGoesOn, PostEvents, DestroyScopedWakelock, CreateScopedWakelock, queueVars
  <2>4. CASE StopThreads \/ OwnerGoesOn
    BY <2>4 DEF StopThreads, OwnerGoesOn, StopDrains, StopNotifies, JoinThreads, ClearQueues,
       StartThreads, queueVars
  <2>5. CASE HandleEvents \/ (\E n \in 1 .. Len(fmq) : ReadEvents(n)) \/ Tick \/ UNCHANGED vars
    BY <2>5 DEF HandleEvents, ReadEvents, Tick, vars, queueVars
  <2> QED
    BY <2>1, <2>2, <2>3, <2>4, <2>5 DEF Next
<1> QED
  BY <1>2, <1>3, <1>4, <1>5, <1>6

\* A ScopedWakelock of this era was made after the last reset, one is locked if
\* there are wake-up events to post, and nothing is of a later era.
CallsOfEra ==
    /\ resetTime <= now
    /\ \A s \in SubHals : subhal[s].pc # "idle" =>
          /\ subhal[s].era <= era
          /\ subhal[s].era = era => subhal[s].createdAt >= resetTime
          /\ HasWakeup(subhal[s].shape) => subhal[s].locked

EventsOfEra == \A e \in UnderWay : e.era <= era

Counted ==
    /\ IsFiniteSet(Scoped) /\ IsFiniteSet(OnTheWay)
    /\ refCount = Cardinality(Scoped) + Cardinality(OnTheWay) + dropped

\* Strengthens CountExact: while the counter is exact, the threads run.
CountInv ==
    exact => /\ threadsRun /\ owner = "serving"
             /\ CallsOfEra /\ EventsOfEra /\ Counted

LEMMA DisjointSum ==
    ASSUME NEW S, NEW T, IsFiniteSet(S), IsFiniteSet(T), S \intersect T = {}
    PROVE  /\ IsFiniteSet(S \union T)
           /\ Cardinality(S \union T) = Cardinality(S) + Cardinality(T)
           /\ Cardinality(S) \in Nat /\ Cardinality(T) \in Nat
BY FS_Union, FS_EmptySet, FS_CardinalityType

LEMMA OnTheWayIs ==
    /\ OnTheWay = {e \in UnderWay : e.era = era}
    /\ OnTheWay' = {e \in UnderWay' : e.era = era'}
BY DEF OnTheWay, UnderWay, Seen, Queued

LEMMA LowersBy ==
    ASSUME TypeOK, threadsRun, NEW delta \in Nat, delta <= refCount, NEW start \in Nat,
           start >= resetTime, Decrement(delta, start)
    PROVE  refCount' = refCount - delta
<1>1. refCount \in Nat /\ resetTime \in Nat
  BY DEF TypeOK
<1>2. CASE refCount = 0
  BY <1>1, <1>2 DEF Decrement, Lowered
<1>3. CASE refCount # 0
  <2>1. Least(refCount, delta) = delta
    BY <1>1 DEF Least
  <2>2. refCount' = refCount - Least(refCount, delta)
    BY <1>1, <1>3 DEF Decrement, Lowered
  <2> QED
    BY <2>1, <2>2
<1> QED
  BY <1>2, <1>3

\* Steps that change neither the count nor what is counted.
LEMMA CountStays ==
    ASSUME TypeOK, TypeOK', CountInv, exact', exact, UnderWay' = UnderWay,
           UNCHANGED <<refCount, era, dropped, threadsRun, owner, resetTime>>, now' >= now,
           \A s \in SubHals :
               /\ subhal'[s].pc # "idle" <=> subhal[s].pc # "idle"
               /\ subhal[s].pc # "idle" => /\ subhal'[s].era = subhal[s].era
                                           /\ subhal'[s].locked = subhal[s].locked
                                           /\ subhal'[s].shape = subhal[s].shape
                                           /\ subhal'[s].createdAt = subhal[s].createdAt
    PROVE  CountInv'
<1>1. OnTheWay' = OnTheWay
  BY OnTheWayIs
<1>2. Scoped' = Scoped
  BY DEF Scoped
<1>3. CallsOfEra'
  <2>1. now \in Nat /\ now' \in Nat /\ resetTime \in Nat
    BY DEF TypeOK
  <2>2. CallsOfEra
    BY DEF CountInv
  <2>3. resetTime' <= now'
    BY <2>1, <2>2 DEF CallsOfEra
  <2> QED
    BY <2>2, <2>3 DEF CallsOfEra
<1> QED
  BY <1>1, <1>2, <1>3 DEF CountInv, EventsOfEra, Counted

LEMMA UnderWayStays ==
    ASSUME ProxyInv, UNCHANGED <<pendingWrites, writer, fmq, unhandled, acks>>
    PROVE  UnderWay' = UnderWay
<1>1. Rest' = Rest
  BY RestIs, RestAfter
<1> QED
  BY <1>1 DEF UnderWay, Seen

LEMMA UnderWayTyped == ASSUME ProxyInv PROVE UnderWay \subseteq Event
<1>1. Seen \in SUBSET Event /\ fmq \in Seq(Event) /\ Rest \in Seq(Entry)
  BY RestIs
<1>2. \A q \in DOMAIN Rest : Wakeups(Rest[q].events) \subseteq Event
  BY <1>1, EntriesTyped, WakeupsAreEvents
<1> QED
  BY <1>1, <1>2, WakeupsAreEvents DEF UnderWay, Queued

LEMMA IdleStepsKeepCount ==
    ASSUME ProxyInv, ProxyInv', OrderInv, CountInv, exact',
           \/ WriterChecks \/ WriterWaits \/ WriterPops \/ WriteBlocking \/ HandleEvents
           \/ \E n \in 1 .. Len(fmq) : ReadEvents(n)
           \/ LockerReads \/ LockerChecks \/ LockerWaits \/ ReadTimesOut
           \/ Tick \/ UNCHANGED vars
    PROVE  CountInv'
<1>1. UNCHANGED <<refCount, era, dropped, exact, threadsRun, owner, resetTime, subhal>>
  BY DEF WriterChecks, WriterWaits, WriterPops, WriteBlocking, HandleEvents, ReadEvents,
     LockerReads, LockerChecks, LockerWaits, ReadTimesOut, Tick, vars,
     lockVars, ownerVars, historyVars
<1>2. now' >= now
  <2>1. now \in Nat
    BY DEF ProxyInv, TypeOK
  <2>2. now' = now \/ now' = now + 1
    BY DEF WriterChecks, WriterWaits, WriterPops, WriteBlocking, HandleEvents, ReadEvents,
       LockerReads, LockerChecks, LockerWaits, ReadTimesOut, Tick, vars
  <2> QED
    BY <2>1, <2>2
<1>3. UnderWay' = UnderWay
  <2>1. CASE \/ WriterChecks \/ WriterWaits \/ WriterPops \/ WriteBlocking \/ HandleEvents
             \/ \E n \in 1 .. Len(fmq) : ReadEvents(n)
    BY <2>1, StaysUnderWay
  <2>2. CASE LockerReads \/ LockerChecks \/ LockerWaits \/ ReadTimesOut \/ Tick \/ UNCHANGED vars
    <3>1. UNCHANGED <<pendingWrites, writer, fmq, unhandled, acks>>
      BY <2>2 DEF LockerReads, LockerChecks, LockerWaits, ReadTimesOut, Tick, vars,
         queueVars, frameVars
    <3> QED
      BY <3>1, UnderWayStays
  <2> QED
    BY <2>1, <2>2
<1>4. TypeOK /\ TypeOK' /\ exact
  BY <1>1 DEF ProxyInv
<1>5. \A s \in SubHals :
          /\ subhal'[s].pc # "idle" <=> subhal[s].pc # "idle"
          /\ subhal[s].pc # "idle" => /\ subhal'[s].era = subhal[s].era
                                      /\ subhal'[s].locked = subhal[s].locked
                                      /\ subhal'[s].shape = subhal[s].shape
                                      /\ subhal'[s].createdAt = subhal[s].createdAt
  BY <1>1
<1> QED
  BY <1>1, <1>2, <1>3, <1>4, <1>5, CountStays

\* The next step of a call changes nothing that is counted.
LEMMA CallStays ==
    ASSUME TypeOK, NEW s \in SubHals, subhal[s].pc # "idle",
           NEW pc \in {"created", "posting", "posted"}, subhal' = [subhal EXCEPT ![s].pc = pc]
    PROVE  \A u \in SubHals :
               /\ subhal'[u].pc # "idle" <=> subhal[u].pc # "idle"
               /\ subhal[u].pc # "idle" => /\ subhal'[u].era = subhal[u].era
                                           /\ subhal'[u].locked = subhal[u].locked
                                           /\ subhal'[u].shape = subhal[u].shape
                                           /\ subhal'[u].createdAt = subhal[u].createdAt
<1>1. subhal[s] \in [pc : {"created", "posting", "posted"}, shape : Seq(BOOLEAN),
                     locked : BOOLEAN, createdAt : Nat, era : Nat]
  BY NotIdle DEF TypeOK, SubHalStates
<1> DEFINE call == [subhal[s] EXCEPT !.pc = pc]
<1>2. /\ call.era = subhal[s].era /\ call.locked = subhal[s].locked
      /\ call.shape = subhal[s].shape /\ call.createdAt = subhal[s].createdAt
      /\ call.pc = pc /\ pc # "idle"
  BY <1>1
<1>3. subhal' = [subhal EXCEPT ![s] = call]
  BY DEF TypeOK
<1> HIDE DEF call
<1>4. \A u \in SubHals : subhal'[u] = IF u = s THEN call ELSE subhal[u]
  BY <1>3 DEF TypeOK
<1> QED
  BY <1>2, <1>4

LEMMA PostEventsKeepsCount ==
    ASSUME ProxyInv, ProxyInv', CountInv, exact', NEW s \in SubHals, PostEvents(s)
    PROVE  CountInv'
<1> DEFINE pc == IF threadsRun THEN "posting" ELSE "posted"
<1>1. /\ subhal' = [subhal EXCEPT ![s].pc = pc] /\ subhal[s].pc # "idle"
      /\ UNCHANGED <<pendingWrites, writer, fmq, unhandled, acks, refCount, era, dropped, exact,
                     threadsRun, owner, resetTime, now>>
  BY DEF PostEvents, queueVars, lockVars, frameVars, ownerVars, historyVars
<1>2. pc \in {"created", "posting", "posted"}
  OBVIOUS
<1> HIDE DEF pc
<1>3. UnderWay' = UnderWay
  BY <1>1, UnderWayStays
<1>4. TypeOK /\ TypeOK' /\ exact /\ now' >= now
  <2>1. TypeOK /\ TypeOK'
    BY DEF ProxyInv
  <2>2. now \in Nat
    BY <2>1 DEF TypeOK
  <2> QED
    BY <1>1, <2>1, <2>2
<1>5. \A u \in SubHals :
          /\ subhal'[u].pc # "idle" <=> subhal[u].pc # "idle"
          /\ subhal[u].pc # "idle" => /\ subhal'[u].era = subhal[u].era
                                      /\ subhal'[u].locked = subhal[u].locked
                                      /\ subhal'[u].shape = subhal[u].shape
                                      /\ subhal'[u].createdAt = subhal[u].createdAt
  BY <1>1, <1>2, <1>4, CallStays
<1> QED
  BY <1>1, <1>3, <1>4, <1>5, CountStays

LEMMA TimeoutKeepsCount ==
    ASSUME ProxyInv, ProxyInv', CountInv, exact', WakelockTimesOut
    PROVE  CountInv'
<1>1. /\ Decrement(refCount, resetTime) /\ resetTime' = now /\ era' = era + 1 /\ dropped' = 0
      /\ UNCHANGED <<pendingWrites, writer, fmq, unhandled, acks, exact, threadsRun, owner,
                     subhal, now>>
  BY DEF WakelockTimesOut, queueVars, frameVars, ownerVars
<1>2. TypeOK /\ threadsRun /\ owner = "serving" /\ CallsOfEra /\ EventsOfEra
  BY <1>1 DEF ProxyInv, CountInv
<1>3. refCount \in Nat /\ resetTime \in Nat /\ era \in Nat /\ now \in Nat
  BY <1>2 DEF TypeOK
<1>4. refCount' = 0
  <2>1. refCount' = refCount - refCount
    BY <1>1, <1>2, <1>3, LowersBy
  <2> QED
    BY <1>3, <2>1
<1>5. \A s \in SubHals : subhal[s].pc # "idle" =>
          subhal[s].era \in Nat /\ subhal[s].era <= era /\ (HasWakeup(subhal[s].shape) => subhal[s].locked)
  BY <1>2, NotIdle DEF CallsOfEra, TypeOK, SubHalStates
<1>6. \A s \in SubHals : subhal[s].pc # "idle" => subhal[s].era < era'
  BY <1>1, <1>3, <1>5
<1>7. Scoped' = {}
  <2>1. \A s \in SubHals : subhal[s].pc # "idle" => subhal[s].era # era'
    BY <1>1, <1>3, <1>5, <1>6
  <2> QED
    BY <1>1, <2>1 DEF Scoped
<1>8. UnderWay' = UnderWay
  BY <1>1, UnderWayStays
<1>9. \A e \in UnderWay : e.era \in Nat /\ e.era <= era
  <2>1. UnderWay \subseteq Event
    BY UnderWayTyped
  <2> QED
    BY <1>2, <2>1 DEF EventsOfEra, Event
<1>10. OnTheWay' = {}
  <2>1. \A e \in UnderWay : e.era # era'
    BY <1>1, <1>3, <1>9
  <2> QED
    BY <1>8, <2>1, OnTheWayIs
<1>11. EventsOfEra'
  <2>1. \A e \in UnderWay : e.era <= era'
    BY <1>1, <1>3, <1>9
  <2> QED
    BY <1>8, <2>1 DEF EventsOfEra
<1>12. CallsOfEra'
  <2>1. ASSUME NEW s \in SubHals, subhal[s].pc # "idle"
        PROVE  /\ subhal[s].era <= era' /\ subhal[s].era # era'
               /\ HasWakeup(subhal[s].shape) => subhal[s].locked
    BY <1>1, <1>3, <1>5, <1>6, <2>1
  <2> QED
    BY <1>1, <1>3, <2>1 DEF CallsOfEra
<1>13. Counted'
  <2>1. IsFiniteSet({}) /\ Cardinality({}) = 0
    BY FS_EmptySet
  <2> QED
    BY <1>1, <1>4, <1>7, <1>10, <2>1 DEF Counted
<1> QED
  BY <1>1, <1>2, <1>11, <1>12, <1>13 DEF CountInv

\* Events of this era leave, and the count goes down by as many.
LEMMA EventsLeave ==
    ASSUME ProxyInv, ProxyInv', CountInv, exact, NEW D,
           UnderWay = UnderWay' \union D, UnderWay' \intersect D = {}, IsFiniteSet(D),
           UNCHANGED <<era, dropped, threadsRun, owner, resetTime, subhal, now>>,
           refCount' = refCount - Cardinality({e \in D : e.era = era})
    PROVE  CountInv'
<1> DEFINE d == {e \in D : e.era = era}
<1>1. d \subseteq D /\ OnTheWay = OnTheWay' \union d /\ OnTheWay' \intersect d = {}
  BY OnTheWayIs
<1>2. Counted /\ CallsOfEra /\ EventsOfEra
  BY DEF CountInv
<1> HIDE DEF d
<1>3. IsFiniteSet(d) /\ IsFiniteSet(OnTheWay')
  BY <1>1, <1>2, FS_Subset DEF Counted
<1>4. /\ Cardinality(OnTheWay) = Cardinality(OnTheWay') + Cardinality(d)
      /\ Cardinality(OnTheWay') \in Nat /\ Cardinality(d) \in Nat
  BY <1>1, <1>3, DisjointSum
<1>5. Scoped' = Scoped
  BY DEF Scoped
<1>6. Cardinality(Scoped) \in Nat /\ dropped \in Nat /\ refCount \in Nat
  BY <1>2, FS_CardinalityType DEF Counted, ProxyInv, TypeOK
<1>7. refCount' = Cardinality(Scoped) + Cardinality(OnTheWay') + dropped
  <2>1. refCount = Cardinality(Scoped) + Cardinality(OnTheWay) + dropped
    BY <1>2 DEF Counted
  <2>2. refCount' = refCount - Cardinality(d)
    BY DEF d
  <2> QED
    BY <1>4, <1>6, <2>1, <2>2
<1>8. Counted'
  BY <1>2, <1>3, <1>5, <1>7 DEF Counted
<1>9. CallsOfEra' /\ EventsOfEra'
  BY <1>2 DEF CallsOfEra, EventsOfEra
<1> QED
  BY <1>8, <1>9 DEF CountInv

\* Events of this era that are under way are counted.
LEMMA CountedAtLeast ==
    ASSUME ProxyInv, CountInv, exact, NEW D \in SUBSET UnderWay, IsFiniteSet(D)
    PROVE  /\ Cardinality({e \in D : e.era = era}) \in Nat
           /\ Cardinality({e \in D : e.era = era}) <= refCount
<1> DEFINE d == {e \in D : e.era = era}
<1>1. d \subseteq OnTheWay /\ d \subseteq D
  BY OnTheWayIs
<1> HIDE DEF d
<1>2. IsFiniteSet(d) /\ Cardinality(d) \in Nat /\ Cardinality(d) <= Cardinality(OnTheWay)
  BY <1>1, FS_Subset, FS_CardinalityType DEF CountInv, Counted
<1>3. /\ Cardinality(Scoped) \in Nat /\ Cardinality(OnTheWay) \in Nat /\ dropped \in Nat
      /\ refCount = Cardinality(Scoped) + Cardinality(OnTheWay) + dropped
  BY FS_CardinalityType DEF CountInv, Counted, ProxyInv, TypeOK
<1>4. Cardinality(d) <= refCount
  BY <1>2, <1>3
<1> QED
  BY <1>2, <1>4 DEF d

LEMMA WriteTimesOutKeepsCount ==
    ASSUME ProxyInv, ProxyInv', OrderInv, EntriesCounted, CountInv, exact', WriteTimesOut
    PROVE  CountInv'
<1> DEFINE whole == Head(pendingWrites).numWakeupEvents
           delta == IF IsPart THEN Cardinality(Wakeups(Chunk)) ELSE whole
           D == Wakeups(Chunk)
           current == {e \in D : e.era = era}
<1>1. /\ IF whole > 0 THEN Decrement(delta, resetTime) ELSE UNCHANGED <<refCount, held>>
      /\ exact' = (exact /\ delta = Cardinality(current))
      /\ writer = "writing"
      /\ UNCHANGED <<era, dropped, threadsRun, owner, resetTime, subhal, now>>
  BY DEF WriteTimesOut, ownerVars
<1>2. exact /\ delta = Cardinality(current)
  BY <1>1
<1>3. TypeOK /\ threadsRun
  BY <1>2 DEF ProxyInv, CountInv
<1>4. UnderWay = UnderWay' \union D /\ UnderWay' \intersect D = {}
  BY GivenUp
<1>5. /\ pendingWrites # <<>> /\ Chunk \in Seq(Event) /\ IsFiniteSet(D)
  BY <1>1, ChunkUnderWay, WakeupsFinite
<1>6. D \in SUBSET UnderWay
  BY <1>4
<1>7. Cardinality(current) \in Nat /\ Cardinality(current) <= refCount
  <2> HIDE DEF D
  <2> QED
    BY <1>2, <1>5, <1>6, CountedAtLeast
<1>8. refCount' = refCount - Cardinality(current)
  <2>1. refCount \in Nat /\ resetTime \in Nat
    BY <1>3 DEF TypeOK
  <2>2. CASE whole > 0
    <3> HIDE DEF delta, current
    <3>1. Decrement(delta, resetTime) /\ delta \in Nat /\ delta <= refCount /\ resetTime >= resetTime
      BY <1>1, <1>2, <1>7, <2>1, <2>2
    <3>2. refCount' = refCount - delta
      BY <1>3, <2>1, <3>1, LowersBy
    <3> QED
      BY <1>2, <3>2
  <2>3. CASE ~(whole > 0)
    <3>1. whole = 0
      BY <1>3, <1>5, <2>3, QueueTyped, HeadOfQueue
    <3>2. D = {}
      <4>1. /\ pendingWrites \in Seq(Entry) /\ Head(pendingWrites) = pendingWrites[1]
            /\ 1 \in DOMAIN pendingWrites
        BY <1>3, <1>5, QueueTyped, HeadOfQueue
      <4>2. Wakeups(Head(pendingWrites).events) = {}
        BY <3>1, <4>1 DEF EntriesCounted
      <4>3. D \subseteq Wakeups(Head(pendingWrites).events)
        <5>1. /\ Head(pendingWrites).events \in Seq(Event)
              /\ Len(Head(pendingWrites).events) \in Nat
          BY <1>5, <4>1, HeadOfQueue
        <5>2. NumToWrite \in Nat /\ NumToWrite <= Len(Head(pendingWrites).events)
          BY <5>1, SensorsAssumption DEF NumToWrite, Least
        <5> QED
          BY <5>1, <5>2, WakeupsSplit DEF Chunk
      <4> QED
        BY <4>2, <4>3
    <3>3. Cardinality(current) = 0
      BY <3>2, FS_EmptySet
    <3> HIDE DEF current
    <3> QED
      BY <1>1, <2>1, <2>3, <3>3
  <2> QED
    BY <2>2, <2>3
<1> HIDE DEF D
<1>9. refCount' = refCount - Cardinality({e \in D : e.era = era})
  BY <1>8
<1> QED
  BY <1>1, <1>2, <1>4, <1>5, <1>9, EventsLeave

LEMMA AckKeepsCount ==
    ASSUME ProxyInv, ProxyInv', OrderInv, Apart, CountInv, exact', AckArrives
    PROVE  CountInv'
<1> DEFINE D == Head(acks)
           current == {e \in D : e.era = era}
<1>1. /\ Decrement(Cardinality(D), resetTime)
      /\ exact' = (exact /\ \A e \in D : e.era = era)
      /\ acks # <<>>
      /\ UNCHANGED <<era, dropped, threadsRun, owner, resetTime, subhal, now>>
  BY DEF AckArrives, ownerVars
<1>2. exact /\ current = D
  BY <1>1
<1>3. TypeOK /\ threadsRun
  BY <1>2 DEF ProxyInv, CountInv
<1>4. UnderWay = UnderWay' \union D /\ UnderWay' \intersect D = {}
  BY Answered
<1>5. IsFiniteSet(D)
  BY <1>1, <1>3, TailOfAcks DEF ProxyInv, AcksFinite
<1>6. D \in SUBSET UnderWay
  BY <1>4
<1> HIDE DEF D
<1>7. Cardinality(D) \in Nat /\ Cardinality(D) <= refCount
  BY <1>2, <1>5, <1>6, CountedAtLeast
<1>8. refCount' = refCount - Cardinality({e \in D : e.era = era})
  <2>1. resetTime \in Nat /\ resetTime >= resetTime
    BY <1>3 DEF TypeOK
  <2>2. refCount' = refCount - Cardinality(D)
    BY <1>1, <1>3, <1>7, <2>1, LowersBy
  <2> QED
    BY <1>2, <2>2
<1> QED
  BY <1>1, <1>2, <1>4, <1>5, <1>8, EventsLeave

LEMMA CreateKeepsCount ==
    ASSUME ProxyInv, ProxyInv', CountInv, exact', NEW s \in SubHals, NEW shape \in BatchShapes,
           CreateScopedWakelock(s, shape)
    PROVE  CountInv'
<1> DEFINE locked == HasWakeup(shape) /\ threadsRun
           call == [pc |-> "created", shape |-> shape, locked |-> locked,
                    createdAt |-> now, era |-> era]
<1>1. /\ subhal' = [subhal EXCEPT ![s] = call] /\ subhal[s].pc = "idle"
      /\ IF HasWakeup(shape) THEN Increment(1) ELSE UNCHANGED lockVars
      /\ UNCHANGED <<pendingWrites, writer, fmq, unhandled, acks, threadsRun, owner,
                     era, dropped, exact, now>>
  BY DEF CreateScopedWakelock, queueVars, frameVars, ownerVars, historyVars
<1>2. /\ TypeOK /\ exact /\ threadsRun /\ owner = "serving"
      /\ CallsOfEra /\ EventsOfEra /\ Counted
  BY <1>1 DEF ProxyInv, CountInv
<1>3. /\ call.pc # "idle" /\ (call.locked <=> HasWakeup(shape)) /\ call.era = era
      /\ call.createdAt = now /\ call.shape = shape
  BY <1>2
<1> HIDE DEF call
<1>4. \A u \in SubHals : subhal'[u] = IF u = s THEN call ELSE subhal[u]
  BY <1>1, <1>2 DEF TypeOK
<1>5. UnderWay' = UnderWay
  BY <1>1, UnderWayStays
<1>6. OnTheWay' = OnTheWay /\ EventsOfEra'
  BY <1>1, <1>2, <1>5, OnTheWayIs DEF EventsOfEra
<1>7. resetTime' = resetTime /\ refCount \in Nat
  BY <1>1, <1>2 DEF Increment, lockVars, TypeOK
<1>8. CallsOfEra'
  <2>1. era \in Nat /\ now \in Nat
    BY <1>2 DEF TypeOK
  <2> QED
    BY <1>1, <1>2, <1>3, <1>4, <1>7, <2>1 DEF CallsOfEra
<1>9. s \notin Scoped
  BY <1>1 DEF Scoped
<1>10. CASE HasWakeup(shape)
  <2>1. refCount' = refCount + 1
    BY <1>1, <1>2, <1>10 DEF Increment
  <2>2. Scoped' = Scoped \union {s}
    BY <1>1, <1>3, <1>4, <1>10 DEF Scoped
  <2>3. IsFiniteSet(Scoped') /\ Cardinality(Scoped') = Cardinality(Scoped) + 1
        /\ Cardinality(Scoped) \in Nat
    BY <1>2, <1>9, <2>2, FS_AddElement, FS_CardinalityType DEF Counted
  <2>4. Cardinality(OnTheWay) \in Nat /\ dropped \in Nat
    BY <1>2, FS_CardinalityType DEF Counted, TypeOK
  <2>5. Counted'
    <3>1. refCount = Cardinality(Scoped) + Cardinality(OnTheWay) + dropped
      BY <1>2 DEF Counted
    <3>2. refCount' = Cardinality(Scoped') + Cardinality(OnTheWay) + dropped
      BY <1>7, <2>1, <2>3, <2>4, <3>1
    <3> QED
      BY <1>1, <1>2, <1>6, <2>3, <3>2 DEF Counted
  <2> QED
    BY <1>1, <1>2, <1>6, <1>8, <2>5 DEF CountInv
<1>11. CASE ~HasWakeup(shape)
  <2>1. refCount' = refCount
    BY <1>1, <1>11 DEF lockVars
  <2>2. Scoped' = Scoped
    BY <1>1, <1>3, <1>4, <1>11 DEF Scoped
  <2>3. Counted'
    BY <1>1, <1>2, <1>6, <2>1, <2>2 DEF Counted
  <2> QED
    BY <1>1, <1>2, <1>6, <1>8, <2>3 DEF CountInv
<1> QED
  BY <1>10, <1>11

LEMMA DestroyKeepsCount ==
    ASSUME ProxyInv, ProxyInv', CountInv, exact', NEW s \in SubHals, DestroyScopedWakelock(s)
    PROVE  CountInv'
<1>1. /\ subhal[s].pc = "posted" /\ subhal' = [subhal EXCEPT ![s] = Idle]
      /\ IF subhal[s].locked
         THEN /\ Decrement(1, subhal[s].createdAt)
              /\ exact' = (exact /\ (subhal[s].era = era \/ subhal[s].createdAt < resetTime))
         ELSE UNCHANGED <<refCount, held, exact>>
      /\ UNCHANGED <<pendingWrites, writer, fmq, unhandled, acks, threadsRun, owner,
                     era, dropped, resetTime, now>>
  BY DEF DestroyScopedWakelock, queueVars, frameVars, ownerVars
<1>2. /\ TypeOK /\ exact /\ threadsRun /\ owner = "serving"
      /\ CallsOfEra /\ EventsOfEra /\ Counted
  <2>1. exact
    BY <1>1
  <2> QED
    BY <2>1 DEF ProxyInv, CountInv
<1>3. UnderWay' = UnderWay
  BY <1>1, UnderWayStays
<1>4. OnTheWay' = OnTheWay /\ EventsOfEra'
  BY <1>1, <1>2, <1>3, OnTheWayIs DEF EventsOfEra
<1>5. Idle.pc = "idle" /\ \A u \in SubHals : subhal'[u] = IF u = s THEN Idle ELSE subhal[u]
  BY <1>1, <1>2 DEF TypeOK, Idle
<1>6. CallsOfEra'
  BY <1>1, <1>2, <1>5 DEF CallsOfEra
<1>7. Scoped' = Scoped \ {s}
  BY <1>1, <1>5 DEF Scoped
<1>8. /\ Cardinality(Scoped) \in Nat /\ Cardinality(OnTheWay) \in Nat /\ dropped \in Nat
      /\ refCount \in Nat /\ resetTime \in Nat
      /\ refCount = Cardinality(Scoped) + Cardinality(OnTheWay) + dropped
      /\ IsFiniteSet(Scoped) /\ IsFiniteSet(OnTheWay)
  BY <1>2, FS_CardinalityType DEF Counted, TypeOK
<1>9. subhal[s].createdAt \in Nat
  BY <1>1, <1>2, NotIdle DEF TypeOK, SubHalStates
<1>10. CASE subhal[s].locked /\ subhal[s].era = era
  <2>1. s \in Scoped
    BY <1>1, <1>10 DEF Scoped
  <2>2. /\ IsFiniteSet(Scoped') /\ Cardinality(Scoped') = Cardinality(Scoped) - 1
        /\ Cardinality(Scoped) # 0
    <3>1. Scoped # {}
      BY <2>1
    <3> QED
      BY <1>7, <1>8, <2>1, <3>1, FS_RemoveElement, FS_EmptySet
  <2>3. refCount' = refCount - 1
    <3>1. subhal[s].createdAt >= resetTime
      BY <1>1, <1>2, <1>10 DEF CallsOfEra
    <3>2. Decrement(1, subhal[s].createdAt)
      BY <1>1, <1>10
    <3>3. 1 \in Nat /\ 1 <= refCount
      BY <1>8, <2>2
    <3> QED
      BY <1>2, <1>9, <3>1, <3>2, <3>3, LowersBy
  <2>4. refCount' = Cardinality(Scoped') + Cardinality(OnTheWay) + dropped
    BY <1>8, <2>2, <2>3
  <2>5. Counted'
    BY <1>1, <1>4, <1>8, <2>2, <2>4 DEF Counted
  <2> QED
    BY <1>1, <1>2, <1>4, <1>6, <2>5 DEF CountInv
<1>11. CASE ~(subhal[s].locked /\ subhal[s].era = era)
  <2>1. Scoped' = Scoped
    <3>1. s \notin Scoped
      BY <1>11 DEF Scoped
    <3> QED
      BY <1>7, <3>1
  <2>2. refCount' = refCount
    <3>1. CASE subhal[s].locked
      <4>1. Decrement(1, subhal[s].createdAt) /\ subhal[s].createdAt < resetTime
        BY <1>1, <1>11, <3>1
      <4> QED
        BY <1>2, <4>1 DEF Decrement, Lowered
    <3>2. CASE ~subhal[s].locked
      BY <1>1, <3>2
    <3> QED
      BY <3>1, <3>2
  <2>3. Counted'
    BY <1>1, <1>4, <1>8, <2>1, <2>2 DEF Counted
  <2> QED
    BY <1>1, <1>2, <1>4, <1>6, <2>3 DEF CountInv
<1> QED
  BY <1>10, <1>11

LEMMA PostKeepsCount ==
    ASSUME ProxyInv, ProxyInv', OrderInv, CountInv, exact', NEW s \in SubHals,
           PostEventsToMessageQueue(s)
    PROVE  CountInv'
<1> DEFINE wakeups == Cardinality(Wakeups(Batch(s)))
           pc == "posted"
<1>1. /\ subhal[s].pc # "idle" /\ subhal' = [subhal EXCEPT ![s].pc = pc]
      /\ IF subhal[s].locked THEN Increment(wakeups) ELSE UNCHANGED lockVars
      /\ UNCHANGED <<threadsRun, owner, era, exact, now>>
  BY DEF PostEventsToMessageQueue, ownerVars
<1>2. /\ TypeOK /\ exact /\ threadsRun /\ owner = "serving"
      /\ CallsOfEra /\ EventsOfEra /\ Counted
  BY <1>1 DEF ProxyInv, CountInv
<1>3. PICK N, M \in SUBSET Event :
          /\ N \union M = Wakeups(Batch(s)) /\ N \intersect M = {}
          /\ UnderWay' = UnderWay \union N /\ UnderWay \intersect N = {}
          /\ dropped' = dropped + Cardinality(M)
          /\ \A e \in N : e.era = era
  BY BatchUnderWay
<1>4. Batch(s) \in Seq(Event) /\ IsFiniteSet(Wakeups(Batch(s)))
  BY <1>1, <1>2, NotIdle, BatchFacts, WakeupsFinite
<1>5. /\ IsFiniteSet(N) /\ IsFiniteSet(M)
      /\ wakeups = Cardinality(N) + Cardinality(M)
      /\ Cardinality(N) \in Nat /\ Cardinality(M) \in Nat
  <2>1. IsFiniteSet(N) /\ IsFiniteSet(M)
    <3>1. N \subseteq Wakeups(Batch(s)) /\ M \subseteq Wakeups(Batch(s))
      BY <1>3
    <3> QED
      BY <1>4, <3>1, FS_Subset
  <2>2. Cardinality(N \union M) = Cardinality(N) + Cardinality(M)
    BY <1>3, <2>1, DisjointSum
  <2> QED
    BY <1>3, <2>1, <2>2, FS_CardinalityType
<1>6. refCount' = refCount + wakeups /\ resetTime' = resetTime /\ refCount \in Nat
  <2>1. CASE subhal[s].locked
    BY <1>1, <1>2, <2>1 DEF Increment, TypeOK
  <2>2. CASE ~subhal[s].locked
    <3>1. ~HasWakeup(subhal[s].shape)
      BY <1>1, <1>2, <2>2 DEF CallsOfEra
    <3>2. Wakeups(Batch(s)) = {}
      <4>1. subhal[s].shape \in Seq(BOOLEAN)
        BY <1>1, <1>2, NotIdle DEF TypeOK, SubHalStates
      <4>2. ASSUME NEW e \in Wakeups(Batch(s))
            PROVE  FALSE
        <5>1. e.wake /\ \E i \in DOMAIN Batch(s) : e = Batch(s)[i]
          BY WakeupIn
        <5>2. PICK i \in DOMAIN Batch(s) : e = Batch(s)[i]
          BY <5>1
        <5>3. /\ i \in DOMAIN subhal[s].shape
              /\ e = [n |-> posted + i, wake |-> subhal[s].shape[i], era |-> era]
          BY <5>2 DEF Batch
        <5>4. subhal[s].shape[i] \in BOOLEAN
          BY <4>1, <5>3
        <5>5. subhal[s].shape[i] # TRUE
          BY <3>1, <5>3 DEF HasWakeup, Elements
        <5>6. subhal[s].shape[i] = FALSE
          BY <5>4, <5>5, Zenon
        <5>7. e = [n |-> posted + i, wake |-> FALSE, era |-> era]
          BY <5>3, <5>6, Zenon
        <5> QED
          BY <5>1, <5>7
      <4> QED
        BY <4>2
    <3>3. wakeups = 0
      BY <3>2, FS_EmptySet
    <3>4. refCount' = refCount /\ resetTime' = resetTime /\ refCount \in Nat
      BY <1>1, <1>2, <2>2 DEF lockVars, TypeOK
    <3> HIDE DEF wakeups
    <3> QED
      BY <3>3, <3>4
  <2> QED
    BY <2>1, <2>2
<1> HIDE DEF wakeups, pc
<1>7. \A u \in SubHals :
          /\ subhal'[u].pc # "idle" <=> subhal[u].pc # "idle"
          /\ subhal[u].pc # "idle" => /\ subhal'[u].era = subhal[u].era
                                      /\ subhal'[u].locked = subhal[u].locked
                                      /\ subhal'[u].shape = subhal[u].shape
                                      /\ subhal'[u].createdAt = subhal[u].createdAt
  <2>1. pc \in {"created", "posting", "posted"}
    BY DEF pc
  <2> QED
    BY <1>1, <1>2, <2>1, CallStays
<1>8. Scoped' = Scoped
  BY <1>1, <1>7 DEF Scoped
<1>9. CallsOfEra'
  BY <1>1, <1>2, <1>6, <1>7 DEF CallsOfEra
<1>10. EventsOfEra'
  <2>1. era \in Nat
    BY <1>2 DEF TypeOK
  <2> QED
    BY <1>1, <1>2, <1>3, <2>1 DEF EventsOfEra
<1>11. OnTheWay' = OnTheWay \union N /\ OnTheWay \intersect N = {}
  BY <1>1, <1>3, OnTheWayIs
<1>12. /\ IsFiniteSet(OnTheWay')
       /\ Cardinality(OnTheWay') = Cardinality(OnTheWay) + Cardinality(N)
       /\ Cardinality(OnTheWay) \in Nat
  BY <1>2, <1>5, <1>11, DisjointSum DEF Counted
<1>13. refCount' = Cardinality(Scoped) + Cardinality(OnTheWay') + dropped'
  <2>1. /\ refCount = Cardinality(Scoped) + Cardinality(OnTheWay) + dropped
        /\ Cardinality(Scoped) \in Nat /\ dropped \in Nat
    BY <1>2, FS_CardinalityType DEF Counted, TypeOK
  <2> QED
    BY <1>3, <1>5, <1>6, <1>12, <2>1
<1>14. Counted'
  BY <1>2, <1>8, <1>12, <1>13 DEF Counted
<1> QED
  BY <1>1, <1>2, <1>9, <1>10, <1>14 DEF CountInv

LEMMA OwnerKeepsCount ==
    ASSUME ProxyInv, CountInv, StopThreads \/ OwnerGoesOn \/ LockerExits
    PROVE  ~exact'
<1>1. CASE StopThreads
  BY <1>1 DEF StopThreads
<1>2. CASE OwnerGoesOn
  <2>1. owner # "serving" /\ exact' = exact
    BY <1>2 DEF OwnerGoesOn, StopDrains, StopNotifies, JoinThreads, ClearQueues, StartThreads,
       historyVars
  <2> QED
    BY <2>1 DEF CountInv
<1>3. CASE LockerExits
  BY <1>3 DEF LockerExits, historyVars, CountInv
<1> QED
  BY <1>1, <1>2, <1>3

LEMMA CountInductive ==
    ProxyInv /\ ProxyInv' /\ OrderInv /\ Apart /\ EntriesCounted /\ CountInv /\ [Next]_vars
        => CountInv'
<1> SUFFICES ASSUME ProxyInv, ProxyInv', OrderInv, Apart, EntriesCounted, CountInv, [Next]_vars,
                    exact'
             PROVE  CountInv'
  BY DEF CountInv
<1>1. CASE WriterNext
  BY <1>1, IdleStepsKeepCount, WriteTimesOutKeepsCount DEF WriterNext
<1>2. CASE LockerNext
  BY <1>2, IdleStepsKeepCount, TimeoutKeepsCount, AckKeepsCount, OwnerKeepsCount DEF LockerNext
<1>3. ASSUME NEW s \in SubHals, SubHalGoesOn(s)
      PROVE  CountInv'
  BY <1>3, PostEventsKeepsCount, PostKeepsCount, DestroyKeepsCount DEF SubHalGoesOn
<1>4. ASSUME NEW s \in SubHals, NEW shape \in BatchShapes, CreateScopedWakelock(s, shape)
      PROVE  CountInv'
  BY <1>4, CreateKeepsCount
<1>5. CASE HandleEvents \/ (\E n \in 1 .. Len(fmq) : ReadEvents(n)) \/ Tick \/ UNCHANGED vars
  BY <1>5, IdleStepsKeepCount
<1>6. CASE StopThreads \/ OwnerGoesOn
  BY <1>6, OwnerKeepsCount
<1> QED
  BY <1>1, <1>2, <1>3, <1>4, <1>5, <1>6 DEF Next

LEMMA InitiallyCounted == Init => Apart /\ EntriesCounted /\ CountInv
<1> SUFFICES ASSUME Init PROVE Apart /\ EntriesCounted /\ CountInv
  OBVIOUS
<1>1. Apart /\ EntriesCounted
  BY DEF Init, Apart, EntriesCounted
<1>2. UnderWay = {}
  BY EmptyQueued DEF Init, UnderWay, Seen, Rest, Elements
<1>3. OnTheWay = {}
  BY <1>2, OnTheWayIs
<1>4. \A s \in SubHals : subhal[s].pc = "idle"
  BY DEF Init, Idle
<1>5. Scoped = {}
  BY <1>4 DEF Scoped
<1>6. Counted
  <2>1. IsFiniteSet({}) /\ Cardinality({}) = 0 /\ 0 = 0 + 0 + 0
    BY FS_EmptySet
  <2>2. refCount = 0 /\ dropped = 0
    BY DEF Init
  <2> QED
    BY <1>3, <1>5, <2>1, <2>2 DEF Counted
<1>7. CallsOfEra /\ EventsOfEra
  BY <1>2, <1>4 DEF CallsOfEra, EventsOfEra, Init
<1> QED
  BY <1>1, <1>6, <1>7 DEF CountInv, Init

\* The wakelock's count is the number of active ScopedWakelocks and of wake-up
\* events that the framework was not seen to handle, also after timeouts, until
\* an event from before a timeout is answered, writing fails for the rest of a
\* batch or initialize is called again.
THEOREM CountIsExact == Spec => []CountExact
<1>1. Init => OrderInv /\ Apart /\ EntriesCounted /\ CountInv
  BY InitiallyOrdered, InitiallyCounted
<1>2. /\ ProxyInv /\ ProxyInv' /\ OrderInv /\ Apart /\ EntriesCounted /\ CountInv /\ [Next]_vars
         => OrderInv' /\ Apart' /\ EntriesCounted' /\ CountInv'
  BY OrderInductive, ApartKept, EntriesCountedKept, CountInductive
<1>3. CountInv => CountExact
  BY DEF CountInv, Counted, CountExact
<1> QED
  BY <1>1, <1>2, <1>3, ProxyInvHolds, PTL DEF Spec
=============================================================================
