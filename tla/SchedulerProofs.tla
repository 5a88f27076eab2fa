---------------------------- MODULE SchedulerProofs ----------------------------
(***************************************************************************)
(* Proofs about Scheduler, for any number of workers and clients and both  *)
(* strategies.  Two inductive invariants:                                  *)
(*                                                                         *)
(* SchedInv, for the pool of shared memory.  The worker that is creating a *)
(* handler keeps the scheduler's mutex until it has its segments, so one   *)
(* worker at most waits in segmentCond (Locking); a size that is asked for *)
(* is a whole number of internal segments and no more than the pool        *)
(* (LegalSize); so what it waits for is held by another worker, and one    *)
(* notify_one wakes the right one.                                         *)
(*                                                                         *)
(* SchedulerInv, for the clients and their requests: what is registered    *)
(* (Accounts), the orders of the maps (Orders), the lists of the credit    *)
(* strategy (Lists, Standing), what leaving clients leave behind           *)
(* (NothingLeft), whose turn it is in round robin (Turns), which workers   *)
(* are awake (Enough), and why nothing throws (Survives).                  *)
(***************************************************************************)
EXTENDS Scheduler, ShmManagerProofs, CollectionLemmas

\* The part of the type invariant the argument needs.
SchedType ==
  /\ need \in [Workers -> Nat]
  /\ asleep \in SUBSET Workers
  /\ \A c \in DOMAIN requestMap : requestMap[c] \in Seq(Nat)
  /\ requestCount \in Nat
  /\ pc \in [Workers -> {"schedule", "allocate", "process", "answered"}]
  /\ DOMAIN request = Workers
  /\ \A w \in Workers : request[w].size \in Nat

\* Who creates a handler has the mutex; who waits for segments creates one, has
\* no segments yet, and asked for no more than there are.
Locking ==
  \A w \in Workers :
    /\ pc[w] = "allocate" => requestMapMutex = w
    /\ need[w] # 0 => pc[w] = "allocate" /\ held[w] = {} /\ need[w] <= PoolSize
    /\ w \in asleep => need[w] # 0 /\ availableSize < need[w]

\* What is invariant about the pool of shared memory.
SchedInv == PoolInv /\ SchedType /\ Locking

-----------------------------------------------------------------------------
(* The size selection *)

\* There is at least one worker.
LEMMA NumWorkersType == NumWorkers \in Nat \ {0}
  <1>1. Cardinality(Workers) \in Nat
    BY WorkersAssumption, FS_CardinalityType
  <1>2. Cardinality(Workers) # 0
    BY WorkersAssumption, FS_EmptySet
  <1> QED
    BY <1>1, <1>2 DEF NumWorkers

\* std::max and std::min of two sizes.
LEMMA MaxOfTwo == \A a, b \in Nat : Max({a, b}) = IF a >= b THEN a ELSE b
  <1> SUFFICES ASSUME NEW a \in Nat, NEW b \in Nat
               PROVE  Max({a, b}) = IF a >= b THEN a ELSE b
    OBVIOUS
  <1>1. \E x \in {a, b} : \A y \in {a, b} : x >= y
    OBVIOUS
  <1>2. /\ Max({a, b}) \in {a, b}
        /\ \A y \in {a, b} : Max({a, b}) >= y
    BY <1>1 DEF Max
  <1> QED
    BY <1>2

LEMMA MinOfTwo == \A a, b \in Nat : Min({a, b}) = IF a <= b THEN a ELSE b
  <1> SUFFICES ASSUME NEW a \in Nat, NEW b \in Nat
               PROVE  Min({a, b}) = IF a <= b THEN a ELSE b
    OBVIOUS
  <1>1. \E x \in {a, b} : \A y \in {a, b} : x <= y
    OBVIOUS
  <1>2. /\ Min({a, b}) \in {a, b}
        /\ \A y \in {a, b} : Min({a, b}) <= y
    BY <1>1 DEF Min
  <1> QED
    BY <1>2

\* Rounding up makes whole internal segments, and never more of them than there
\* are if the size fits the pool.
LEMMA Rounded ==
  ASSUME NEW n \in Nat
  PROVE  /\ RoundUp(n) \in Nat
         /\ RoundUp(n) % InternalRepSize = 0
         /\ n <= PoolSize => RoundUp(n) <= PoolSize
  <1> DEFINE q == (n + InternalRepSize - 1) \div InternalRepSize
  <1>1. /\ q \in Nat
        /\ q * InternalRepSize <= n + InternalRepSize - 1
    BY GeometryAssumption
  <1>2. RoundUp(n) = q * InternalRepSize
    BY DEF RoundUp
  <1> HIDE DEF q
  <1>3. /\ q * InternalRepSize \in Nat
        /\ (q * InternalRepSize) % InternalRepSize = 0
    BY <1>1, GeometryAssumption
  <1>4. ASSUME n <= PoolSize PROVE q * InternalRepSize <= PoolSize
    <2>1. PICK k \in Nat : PoolSize = InternalRepSize * k
      BY Geometry
    <2>2. q <= k
      <3>1. q * InternalRepSize < (k + 1) * InternalRepSize
        BY <1>1, <1>4, <2>1, Geometry, GeometryAssumption
      <3> QED
        BY <1>1, <3>1, GeometryAssumption
    <2> QED
      BY <1>1, <2>1, <2>2, GeometryAssumption
  <1> QED
    BY <1>2, <1>3, <1>4

\* selectRoundRobinShmSize and selectCreditShmSize answer with a size that
\* getShmSegment accepts and that the pool has.
LEMMA LegalSize ==
  ASSUME NEW fileSize \in Nat, requestCount \in Nat
  PROVE  /\ SelectShmSize(fileSize) \in Nat
         /\ SelectShmSize(fileSize) % InternalRepSize = 0
         /\ SelectShmSize(fileSize) <= PoolSize
  <1> DEFINE share == PoolSize \div (requestCount + NumWorkers)
             a == RoundUp(share)
             b == RoundUp(fileSize)
  <1>1. share \in Nat /\ share <= PoolSize
    <2> requestCount + NumWorkers \in Nat \ {0}
      BY NumWorkersType
    <2> QED
      BY Geometry
  <1>2. /\ a \in Nat /\ a % InternalRepSize = 0 /\ a <= PoolSize
        /\ b \in Nat /\ b % InternalRepSize = 0
    BY <1>1, Rounded
  <1>3. /\ InternalRepSize \in Nat /\ InternalRepSize % InternalRepSize = 0
        /\ InternalRepSize <= PoolSize
    <2>1. InternalRepSize <= ShmSegmentSize /\ ShmSegmentSize <= PoolSize
      BY GeometryAssumption DEF PoolSize
    <2> QED
      BY <2>1, GeometryAssumption, Geometry
  <1>4. SelectShmSize(fileSize) = Max({InternalRepSize, Min({a, b})})
    BY DEF SelectShmSize
  <1> HIDE DEF share, a, b
  <1>5. Min({a, b}) \in {a, b} /\ Min({a, b}) <= a
    BY <1>2, MinOfTwo
  <1>6. Max({InternalRepSize, Min({a, b})}) \in {InternalRepSize, Min({a, b})}
    BY <1>2, <1>3, <1>5, MaxOfTwo
  <1> QED
    BY <1>2, <1>3, <1>4, <1>5, <1>6, Geometry

-----------------------------------------------------------------------------
(* The steps *)

\* The steps of the registration thread, and those in which a worker fails or
\* only sleeps or wakes, leave the pool, its waiters and the mutex alone.
LEMMA QuietStep ==
  ASSUME SchedInv,
         UNCHANGED <<shmVars, pc, request, requestMapMutex>>,
         requestCount' \in Nat,
         \A c \in DOMAIN requestMap' : requestMap'[c] \in Seq(Nat)
  PROVE  SchedInv'
  BY DEF SchedInv, SchedType, Locking, shmVars, PoolInv, PoolType, PoolConsistent

\* enqueue adds a request with the size of a file.
LEMMA EnqueueStep ==
  ASSUME SchedInv, NEW c \in Clients, NEW fileSize \in FileSizes, Enqueue(c, fileSize)
  PROVE  SchedInv'
  <1>1. /\ UNCHANGED <<shmVars, pc, request, requestMapMutex>>
        /\ requestCount' \in Nat
    BY DEF Enqueue, SchedInv, SchedType
  <1>2. ASSUME NEW d \in DOMAIN requestMap' PROVE requestMap'[d] \in Seq(Nat)
    <2>1. fileSize \in Nat
      BY CreditAssumption
    <2>2. Backlog(c) \in Seq(Nat)
      BY DEF Backlog, SchedInv, SchedType
    <2>3. Append(Backlog(c), fileSize) \in Seq(Nat)
      BY <2>1, <2>2
    <2> QED
      BY <1>2, <2>3 DEF Enqueue, SchedInv, SchedType
  <1> QED
    BY <1>1, <1>2, QuietStep

\* deregisterClient forgets a client's requests and no other's.
LEMMA DeregisterStep ==
  ASSUME SchedInv, NEW c \in Clients, DeregisterClient(c)
  PROVE  SchedInv'
  <1>1. /\ UNCHANGED <<shmVars, pc, request, requestMapMutex>>
        /\ requestCount' \in Nat
    BY DEF DeregisterClient, SchedInv, SchedType, workerVars
  <1>2. ASSUME NEW d \in DOMAIN requestMap' PROVE requestMap'[d] \in Seq(Nat)
    BY <1>2 DEF DeregisterClient, SchedInv, SchedType
  <1> QED
    BY <1>1, <1>2, QuietStep

\* A worker that takes a request goes on with the size of its file and with the
\* mutex, which nobody had.
LEMMA TakeStep ==
  ASSUME SchedInv, NEW w \in Workers, NEW c,
         Locked, requestCount > 0, Backlog(c) # << >>, Take(w, c), UNCHANGED shmVars
  PROVE  SchedInv'
  <1>1. c \in DOMAIN requestMap /\ requestMap[c] \in Seq(Nat) /\ requestMap[c] # << >>
    BY DEF Backlog, SchedInv, SchedType
  <1>2. Head(requestMap[c]) \in Nat /\ Tail(requestMap[c]) \in Seq(Nat)
    BY <1>1
  <1>3. \A d \in DOMAIN requestMap' : requestMap'[d] \in Seq(Nat)
    BY <1>1, <1>2 DEF Take, SchedInv, SchedType
  <1>4. /\ DOMAIN request' = Workers
        /\ \A v \in Workers : request'[v].size \in Nat
    BY <1>2 DEF Take, SchedInv, SchedType
  <1>5. requestCount' \in Nat /\ pc' = [pc EXCEPT ![w] = "allocate"] /\ requestMapMutex' = w
    BY DEF Take, SchedInv, SchedType
  <1>6. SchedType'
    BY <1>3, <1>4, <1>5 DEF SchedInv, SchedType, shmVars
  <1>7. Locking'
    <2>1. \A v \in Workers : pc[v] # "allocate" /\ need[v] = 0 /\ v \notin asleep
      BY WorkersAssumption DEF Locked, SchedInv, Locking
    <2> QED
      BY <1>5, <2>1 DEF Locking, SchedInv, SchedType, shmVars
  <1> QED
    BY <1>6, <1>7 DEF SchedInv, PoolInv, PoolType, PoolConsistent, shmVars

\* schedule, in both strategies, takes a request or kills the service.
LEMMA ScheduleStep ==
  ASSUME SchedInv, NEW w \in Workers, Schedule(w)
  PROVE  SchedInv'
  <1>1. Locked /\ requestCount > 0 /\ UNCHANGED shmVars
    BY DEF Schedule
  <1>2. ASSUME NEW kind, Fail(kind) PROVE SchedInv'
    BY <1>1, <1>2, QuietStep DEF Fail, mapVars, SchedInv, SchedType
  <1>3. ASSUME NEW c, Backlog(c) # << >>, Take(w, c) PROVE SchedInv'
    BY <1>1, <1>3, TakeStep
  <1>4. CASE ScheduleRoundRobin(w)
    BY <1>2, <1>3, <1>4 DEF ScheduleRoundRobin, FirstBacklogged
  <1>5. CASE ScheduleCredit(w)
    BY <1>2, <1>3, <1>5 DEF ScheduleCredit
  <1> QED
    BY <1>4, <1>5 DEF Schedule

\* createRoundRobinHandler and createCreditHandler: the worker has its segments
\* and lets go of the mutex, or it waits for fewer than the pool has.
LEMMA CreateHandlerStep ==
  ASSUME SchedInv, NEW w \in Workers, CreateHandler(w)
  PROVE  SchedInv'
  <1> DEFINE size == SelectShmSize(request[w].size)
  <1>1. size \in Nat /\ size % InternalRepSize = 0 /\ size <= PoolSize
    BY LegalSize DEF SchedInv, SchedType
  <1>2. /\ pc[w] = "allocate" /\ need[w] = 0
        /\ GetShmSegment(w, size)
        /\ ReturnHandler(w, availableSize >= size)
        /\ UNCHANGED <<mapVars, request>>
    BY <1>1 DEF CreateHandler
  <1> HIDE DEF size
  <1>3. PoolInv'
    BY <1>2, StepKeepsPool DEF SchedInv, SchedType, Locking, WaitersHoldNothing
  <1>4. availableSize \in Int
    BY DEF SchedInv, PoolInv, PoolType
  <1>5. \A v \in Workers \ {w} : pc[v] # "allocate" /\ need[v] = 0 /\ v \notin asleep
    BY <1>2 DEF SchedInv, Locking
  <1>6. CASE availableSize >= size
    <2>1. /\ held' = [held EXCEPT ![w] = held'[w]] /\ UNCHANGED <<need, asleep>>
          /\ pc' = [pc EXCEPT ![w] = "process"]
      BY <1>2, <1>6 DEF GetShmSegment, Grant, ReturnHandler, SchedInv, PoolInv, PoolType
    <2>2. SchedType'
      BY <1>2, <2>1 DEF SchedInv, SchedType, mapVars
    <2>3. Locking'
      BY <1>2, <1>5, <2>1 DEF SchedInv, SchedType, Locking
    <2> QED
      BY <1>3, <2>2, <2>3 DEF SchedInv
  <1>7. CASE ~(availableSize >= size)
    <2>1. /\ need' = [need EXCEPT ![w] = size] /\ asleep' = asleep \cup {w}
          /\ held[w] = {}
          /\ UNCHANGED <<availableSize, held, pc, requestMapMutex>>
      BY <1>2, <1>7 DEF GetShmSegment, ReturnHandler
    <2>2. SchedType'
      BY <1>1, <1>2, <2>1 DEF SchedInv, SchedType, mapVars
    <2>3. size # 0
      <3>1. availableSize >= 0
        <4>1. IsFiniteSet(availableSegments)
          BY SegmentIdsFinite, FS_Subset DEF SchedInv, PoolInv, PoolType
        <4>2. Cardinality(availableSegments) \in Nat
          BY <4>1, FS_CardinalityType
        <4> QED
          BY <4>2, GeometryAssumption DEF SchedInv, PoolInv, PoolConsistent
      <3> QED
        BY <1>1, <1>4, <1>7, <3>1
    <2>4. Locking'
      BY <1>1, <1>2, <1>4, <1>5, <1>7, <2>1, <2>3 DEF SchedInv, SchedType, Locking
    <2> QED
      BY <1>3, <2>2, <2>4 DEF SchedInv
  <1> QED
    BY <1>6, <1>7

\* The woken worker is the one that has the mutex; it has its segments now, or
\* goes back to sleep.
LEMMA RecheckStep ==
  ASSUME SchedInv, NEW w \in Workers, RecheckSegments(w)
  PROVE  SchedInv'
  <1>1. /\ need[w] > 0
        /\ Recheck(w)
        /\ ReturnHandler(w, availableSize >= need[w])
        /\ UNCHANGED <<mapVars, request>>
    BY DEF RecheckSegments, Recheck
  <1>2. PoolInv'
    BY <1>1, StepKeepsPool DEF SchedInv, SchedType, Locking, WaitersHoldNothing
  <1>3. availableSize \in Int /\ need[w] \in Nat /\ pc[w] = "allocate" /\ requestMapMutex = w
    BY <1>1 DEF SchedInv, SchedType, Locking, PoolInv, PoolType
  <1>4. \A v \in Workers \ {w} : pc[v] # "allocate" /\ need[v] = 0 /\ v \notin asleep
    BY <1>3 DEF SchedInv, Locking
  <1>5. CASE availableSize >= need[w]
    <2>1. /\ need' = [need EXCEPT ![w] = 0] /\ UNCHANGED asleep /\ w \notin asleep
          /\ pc' = [pc EXCEPT ![w] = "process"]
      BY <1>1, <1>5 DEF Recheck, ReturnHandler
    <2>2. SchedType'
      BY <1>1, <2>1 DEF SchedInv, SchedType, mapVars
    <2>3. Locking'
      BY <1>4, <2>1 DEF SchedInv, SchedType, Locking
    <2> QED
      BY <1>2, <2>2, <2>3 DEF SchedInv
  <1>6. CASE ~(availableSize >= need[w])
    <2>1. /\ asleep' = asleep \cup {w}
          /\ UNCHANGED <<availableSize, held, need, pc, requestMapMutex>>
      BY <1>1, <1>6 DEF Recheck, ReturnHandler
    <2>2. SchedType'
      BY <1>1, <2>1 DEF SchedInv, SchedType, mapVars
    <2>3. Locking'
      BY <1>1, <1>3, <1>4, <1>6, <2>1 DEF SchedInv, SchedType, Locking
    <2> QED
      BY <1>2, <2>2, <2>3 DEF SchedInv
  <1> QED
    BY <1>5, <1>6

\* The destructor of the handler wakes the one worker that waits, if any: no
\* other one can be asleep.
LEMMA ReleaseStep ==
  ASSUME SchedInv, NEW w \in Workers, ReleaseHandler(w)
  PROVE  SchedInv'
  <1>1. /\ pc[w] = "answered"
        /\ ReleaseShmSegment(w)
        /\ pc' = [pc EXCEPT ![w] = "schedule"]
        /\ request' = [request EXCEPT ![w] = NoRequest]
        /\ UNCHANGED <<mapVars, requestMapMutex>>
    BY DEF ReleaseHandler
  <1>2. PoolInv'
    BY <1>1, StepKeepsPool DEF SchedInv, SchedType, Locking, WaitersHoldNothing
  <1>3. /\ UNCHANGED need /\ asleep' \subseteq asleep
        /\ held' = [held EXCEPT ![w] = {}]
        /\ asleep # {} => \E v \in asleep : asleep' = asleep \ {v}
    BY <1>1 DEF ReleaseShmSegment, NotifyOne
  <1>4. asleep' = {}
    <2>1. \A u, v \in asleep : u = v
      BY DEF SchedInv, SchedType, Locking
    <2> QED
      BY <1>3, <2>1
  <1>5. SchedType'
    BY <1>1, <1>3 DEF SchedInv, SchedType, mapVars, NoRequest
  <1>6. Locking'
    BY <1>1, <1>3, <1>4 DEF SchedInv, SchedType, Locking, PoolInv, PoolType
  <1> QED
    BY <1>2, <1>5, <1>6 DEF SchedInv

\* Spurious wakeups and the answer to a client change nothing of this.
LEMMA WakeStep ==
  ASSUME SchedInv, NEW w \in Workers, WakeSpuriously(w)
  PROVE  SchedInv'
  <1>1. CASE UNCHANGED shmVars
    BY <1>1, QuietStep DEF WakeSpuriously, mapVars, SchedInv, SchedType
  <1>2. CASE SpuriousWakeup(w)
    <2>1. PoolInv'
      BY <1>2, StepKeepsPool DEF SchedInv, SchedType, Locking, WaitersHoldNothing
    <2> QED
      BY <1>2, <2>1 DEF WakeSpuriously, SpuriousWakeup, SchedInv, SchedType, Locking, mapVars
  <1> QED
    BY <1>1, <1>2 DEF WakeSpuriously

\* The service starts with the whole pool.
LEMMA SchedInit == Init => SchedInv
  <1> SUFFICES ASSUME Init PROVE SchedInv
    OBVIOUS
  <1>1. PoolInv
    BY PoolInit DEF Init
  <1>2. SchedType /\ Locking
    BY DEF Init, ShmInit, SchedType, Locking, NoRequest
  <1> QED
    BY <1>1, <1>2 DEF SchedInv

\* Every step keeps SchedInv.
LEMMA SchedStep == SchedInv /\ [Next]_vars => SchedInv'
  <1> SUFFICES ASSUME SchedInv, [Next]_vars PROVE SchedInv'
    OBVIOUS
  <1>1. CASE UNCHANGED vars
    BY <1>1, QuietStep DEF vars, mapVars, workerVars, SchedInv, SchedType
  <1>2. CASE RegistrationStep
    <2>1. ASSUME NEW c \in Clients, NEW priority \in Priorities, RegisterClient(c, priority)
          PROVE  SchedInv'
      BY <2>1, QuietStep DEF RegisterClient, mapVars, workerVars, SchedInv, SchedType
    <2> QED
      BY <1>2, <2>1, DeregisterStep, EnqueueStep DEF RegistrationStep
  <1>3. ASSUME NEW w \in Workers, WorkerStep(w) PROVE SchedInv'
    <2>1. CASE WaitForRequest(w)
      BY <2>1, QuietStep DEF WaitForRequest, mapVars, SchedInv, SchedType
    <2>2. CASE Process(w)
      BY <2>2 DEF Process, mapVars, shmVars, SchedInv, SchedType, Locking, PoolInv, PoolType,
                  PoolConsistent
    <2> QED
      BY <1>3, <2>1, <2>2, ScheduleStep, CreateHandlerStep, RecheckStep, ReleaseStep
         DEF WorkerStep
  <1>4. ASSUME NEW w \in Workers, WakeSpuriously(w) PROVE SchedInv'
    BY <1>4, WakeStep
  <1> QED
    BY <1>1, <1>2, <1>3, <1>4 DEF Next

\* SchedInv is invariant.
LEMMA SchedInvariance == Spec => []SchedInv
  BY SchedInit, SchedStep, PTL DEF Spec

-----------------------------------------------------------------------------
(* Queues *)

\* kept is the function that Only computes its prefixes with.
KeptOf(kept, queue, S, last) ==
  kept = [n \in 0..last |->
            IF n = 0 THEN << >>
            ELSE IF queue[n] \in S THEN Append(kept[n - 1], queue[n]) ELSE kept[n - 1]]

\* There is such a function, for a queue of any length.
LEMMA KeptExists ==
  ASSUME NEW queue, NEW S, NEW last \in Nat
  PROVE  \E kept : KeptOf(kept, queue, S, last)
  <1> DEFINE N == {n \in Nat : \E kept : KeptOf(kept, queue, S, n)}
  <1>1. 0 \in N
    <2> DEFINE kept == [n \in 0..0 |-> << >>]
    <2>1. KeptOf(kept, queue, S, 0)
      BY DEF KeptOf
    <2> QED
      BY <2>1
  <1>2. ASSUME NEW n \in N PROVE n + 1 \in N
    <2>1. PICK kept : KeptOf(kept, queue, S, n)
      BY <1>2
    <2> DEFINE more == [i \in 0..(n + 1) |->
                          IF i = 0 THEN << >>
                          ELSE IF queue[i] \in S THEN Append(kept[i - 1], queue[i])
                          ELSE kept[i - 1]]
    <2>2. n \in Nat
      OBVIOUS
    <2>3. \A i \in 0..n : kept[i] = IF i = 0 THEN << >>
                                    ELSE IF queue[i] \in S THEN Append(kept[i - 1], queue[i])
                                    ELSE kept[i - 1]
      BY <2>1 DEF KeptOf
    <2>4. \A i \in 0..n : i \in 0..(n + 1)
      BY <2>2
    <2>5. \A i \in 0..n : more[i] = kept[i]
      BY <2>3, <2>4
    <2>6. \A i \in 0..(n + 1) : i # 0 => i - 1 \in 0..n
      BY <2>2
    <2>7. \A i \in 0..(n + 1) : i # 0 => i - 1 \in 0..n /\ more[i - 1] = kept[i - 1]
      BY <2>5, <2>6
    <2>8. KeptOf(more, queue, S, n + 1)
      BY <2>7 DEF KeptOf
    <2> QED
      BY <2>8
  <1>3. N = Nat
    <2> N \in SUBSET Nat
      OBVIOUS
    <2> HIDE DEF N
    <2> QED
      BY <1>1, <1>2, NumbersByInduction
  <1> QED
    BY <1>3

\* place says where the elements of one queue stand in another one.
Places(place, queue, other) ==
  /\ place \in [1..Len(queue) -> 1..Len(other)]
  /\ \A i \in 1..Len(queue) : queue[i] = other[place[i]]
  /\ \A i, j \in 1..Len(queue) : i < j => place[i] < place[j]

\* Filtering a queue keeps what is asked for, in the order it had.
LEMMA OnlyFilters ==
  ASSUME NEW A, NEW queue \in Seq(A), NEW S
  PROVE  /\ Only(queue, S) \in Seq(A)
         /\ ToSet(Only(queue, S)) = ToSet(queue) \cap S
         /\ \E place : Places(place, Only(queue, S), queue)
         /\ Once(queue) => Once(Only(queue, S))
  <1> DEFINE kept == CHOOSE k : KeptOf(k, queue, S, Len(queue))
             Good(n) == /\ kept[n] \in Seq(A)
                        /\ \E place : /\ Places(place, kept[n], queue)
                                      /\ \A i \in 1..Len(kept[n]) : place[i] <= n
                        /\ \A c : c \in ToSet(kept[n])
                                    <=> \E i \in 1..n : queue[i] = c /\ c \in S
             N == {n \in Nat : n <= Len(queue) => Good(n)}
  <1>1. /\ Len(queue) \in Nat /\ DOMAIN queue = 1..Len(queue)
        /\ \A i \in 1..Len(queue) : queue[i] \in A
    BY LenProperties
  <1>2. KeptOf(kept, queue, S, Len(queue))
    BY <1>1, KeptExists
  <1>3. Only(queue, S) = kept[Len(queue)]
    BY DEF Only, KeptOf
  <1> HIDE DEF kept
  <1>4. 0 \in N
    <2>1. kept[0] = << >>
      BY <1>1, <1>2 DEF KeptOf
    <2>2. Places(<< >>, kept[0], queue)
      BY <2>1 DEF Places
    <2>3. ToSet(kept[0]) = {}
      BY <2>1 DEF ToSet
    <2>4. \E place : Places(place, kept[0], queue) /\ \A i \in 1..Len(kept[0]) : place[i] <= 0
      BY <2>1, <2>2
    <2>5. \A c : c \in ToSet(kept[0]) <=> \E i \in 1..0 : queue[i] = c /\ c \in S
      BY <2>3
    <2>6. kept[0] \in Seq(A)
      BY <2>1
    <2>7. Good(0)
      BY <2>4, <2>5, <2>6
    <2> HIDE DEF Good
    <2> QED
      BY <2>7
  <1>5. ASSUME NEW n \in N PROVE n + 1 \in N
    <2> SUFFICES ASSUME n + 1 <= Len(queue) PROVE Good(n + 1)
      BY <1>5
    <2> DEFINE e == queue[n + 1]
    <2>1. /\ n \in Nat /\ n + 1 \in 0..Len(queue) /\ n + 1 \in 1..Len(queue)
          /\ (n + 1) - 1 = n /\ n + 1 # 0
      BY <1>1
    <2>2. kept[n + 1] = IF e \in S THEN Append(kept[n], e) ELSE kept[n]
      BY <1>2, <2>1 DEF KeptOf
    <2>3. Good(n)
      BY <1>1, <1>5, <2>1
    <2>4. PICK place : Places(place, kept[n], queue) /\ \A i \in 1..Len(kept[n]) : place[i] <= n
      BY <2>3
    <2>5. \A c : c \in ToSet(kept[n]) <=> \E i \in 1..n : queue[i] = c /\ c \in S
      BY <2>3
    <2>6. e \in A /\ kept[n] \in Seq(A)
      BY <1>1, <2>1, <2>3
    <2>7. \A c : (\E i \in 1..(n + 1) : queue[i] = c /\ c \in S)
                   <=> (c = e /\ e \in S) \/ \E i \in 1..n : queue[i] = c /\ c \in S
      BY <2>1
    <2> HIDE DEF e
    <2>8. CASE e \notin S
      <3>1. kept[n + 1] = kept[n]
        BY <2>2, <2>8
      <3>2. \A i \in 1..Len(kept[n]) : place[i] <= n + 1
        BY <2>1, <2>4, <2>6, LenProperties DEF Places
      <3>3. \E p : Places(p, kept[n + 1], queue) /\ \A i \in 1..Len(kept[n + 1]) : p[i] <= n + 1
        BY <2>4, <3>1, <3>2
      <3>4. \A c : c \in ToSet(kept[n + 1]) <=> \E i \in 1..(n + 1) : queue[i] = c /\ c \in S
        BY <2>5, <2>7, <2>8, <3>1
      <3> QED
        BY <2>6, <3>1, <3>3, <3>4
    <2>9. CASE e \in S
      <3> DEFINE seq == kept[n]
                 p == [i \in 1..(Len(seq) + 1) |-> IF i = Len(seq) + 1 THEN n + 1 ELSE place[i]]
      <3>1. kept[n + 1] = Append(seq, e)
        BY <2>2, <2>9
      <3>2. /\ Append(seq, e) \in Seq(A) /\ Len(Append(seq, e)) = Len(seq) + 1 /\ Len(seq) \in Nat
            /\ ToSet(Append(seq, e)) = ToSet(seq) \cup {e}
        BY <2>6, Pushed
      <3>3. /\ \A i \in 1..Len(seq) : Append(seq, e)[i] = seq[i]
            /\ Append(seq, e)[Len(seq) + 1] = e
        BY <2>6, AppendProperties
      <3>4. /\ place \in [1..Len(seq) -> 1..Len(queue)]
            /\ \A i \in 1..Len(seq) : seq[i] = queue[place[i]] /\ place[i] <= n
            /\ \A i, j \in 1..Len(seq) : i < j => place[i] < place[j]
        BY <2>4 DEF Places
      <3> HIDE DEF seq
      <3>5. Places(p, Append(seq, e), queue)
        <4>1. p \in [1..(Len(seq) + 1) -> 1..Len(queue)]
          <5>1. ASSUME NEW i \in 1..(Len(seq) + 1), i # Len(seq) + 1 PROVE i \in 1..Len(seq)
            BY <3>2, <5>1
          <5>2. \A i \in 1..Len(seq) : place[i] \in 1..Len(queue)
            BY <3>4
          <5>3. ASSUME NEW i \in 1..(Len(seq) + 1) PROVE p[i] \in 1..Len(queue)
            BY <2>1, <5>1, <5>2
          <5> QED
            BY <5>3
        <4>2. ASSUME NEW i \in 1..(Len(seq) + 1) PROVE Append(seq, e)[i] = queue[p[i]]
          <5>1. CASE i = Len(seq) + 1
            BY <3>3, <5>1 DEF e
          <5>2. CASE i # Len(seq) + 1
            <6>1. i \in 1..Len(seq) /\ p[i] = place[i]
              BY <3>2, <5>2
            <6> QED
              BY <3>3, <3>4, <6>1
          <5> QED
            BY <5>1, <5>2
        <4>3. ASSUME NEW i \in 1..(Len(seq) + 1), NEW j \in 1..(Len(seq) + 1), i < j
              PROVE  p[i] < p[j]
          <5>1. i \in 1..Len(seq) /\ p[i] = place[i] /\ place[i] <= n /\ place[i] \in 1..Len(queue)
            <6>1. i \in 1..Len(seq) /\ p[i] = place[i]
              BY <3>2, <4>3
            <6> QED
              BY <3>4, <6>1
          <5>2. CASE j = Len(seq) + 1
            BY <1>1, <2>1, <5>1, <5>2
          <5>3. CASE j # Len(seq) + 1
            <6>1. j \in 1..Len(seq) /\ p[j] = place[j]
              BY <3>2, <5>3
            <6> QED
              BY <3>4, <4>3, <5>1, <6>1
          <5> QED
            BY <5>2, <5>3
        <4> HIDE DEF p
        <4> QED
          BY <3>2, <4>1, <4>2, <4>3 DEF Places
      <3>6. \A i \in 1..(Len(seq) + 1) : p[i] <= n + 1
        <4>1. ASSUME NEW i \in 1..Len(seq) PROVE place[i] <= n + 1
          BY <1>1, <2>1, <3>4
        <4> QED
          BY <2>1, <3>2, <4>1
      <3> HIDE DEF p
      <3>7. \E q : Places(q, kept[n + 1], queue) /\ \A i \in 1..Len(kept[n + 1]) : q[i] <= n + 1
        BY <3>1, <3>2, <3>5, <3>6
      <3>8. \A c : c \in ToSet(kept[n + 1]) <=> \E i \in 1..(n + 1) : queue[i] = c /\ c \in S
        BY <2>5, <2>7, <2>9, <3>1, <3>2 DEF seq
      <3> QED
        BY <3>1, <3>2, <3>7, <3>8
    <2> QED
      BY <2>8, <2>9
  <1>6. N = Nat
    <2> N \in SUBSET Nat
      OBVIOUS
    <2> HIDE DEF N
    <2> QED
      BY <1>4, <1>5, NumbersByInduction
  <1>7. Good(Len(queue))
    <2> HIDE DEF Good
    <2>1. Len(queue) \in N /\ Len(queue) <= Len(queue)
      BY <1>1, <1>6
    <2> QED
      BY <2>1
  <1>8. ToSet(Only(queue, S)) = ToSet(queue) \cap S
    <2>1. \A c : c \in ToSet(Only(queue, S)) <=> \E i \in 1..Len(queue) : queue[i] = c /\ c \in S
      BY <1>3, <1>7
    <2>2. \A c : c \in ToSet(queue) <=> \E i \in 1..Len(queue) : queue[i] = c
      BY <1>1 DEF ToSet
    <2> QED
      BY <2>1, <2>2
  <1>9. PICK place : Places(place, Only(queue, S), queue)
    BY <1>3, <1>7
  <1>10. Only(queue, S) \in Seq(A)
    BY <1>3, <1>7
  <1>11. ASSUME Once(queue) PROVE Once(Only(queue, S))
    <2> SUFFICES ASSUME NEW i \in 1..Len(Only(queue, S)), NEW j \in 1..Len(Only(queue, S)),
                        Only(queue, S)[i] = Only(queue, S)[j]
                 PROVE  i = j
      BY DEF Once
    <2>1. place[i] = place[j]
      BY <1>9, <1>11 DEF Places, Once
    <2> QED
      BY <1>1, <1>9, <1>10, <2>1, LenProperties DEF Places
  <1> QED
    BY <1>8, <1>9, <1>10, <1>11

-----------------------------------------------------------------------------
(* The kinds of steps *)

\* A round robin worker takes a request of the client at place i of its scan.
TakeInTurn(w, i) ==
  /\ Strategy = "ROUND_ROBIN"
  /\ requestMapIterator \in DOMAIN requestMap \cup {End}
  /\ i \in DOMAIN ScanOrder
  /\ FirstBacklogged(i)
  /\ Take(w, ScanOrder[i])
  /\ requestMapIterator' = After(ScanOrder[i])
  /\ UNCHANGED <<creditVars, mapOrder, clientVars>>

\* A worker of the credit strategy takes a request of c, who is first in line.
FirstInLine(c) == LET queue == IF underQueue # << >> THEN underQueue ELSE overQueue
                  IN  queue # << >> /\ c = Head(queue)

TakeByCredit(w, c) ==
  /\ Strategy = "CREDIT"
  /\ FirstInLine(c)
  /\ c \in Registered
  /\ Backlog(c) # << >>
  /\ CreditSchedule(c, Head(requestMap[c]))
  /\ Take(w, c)
  /\ UNCHANGED <<creditOrder, totalCredits, mapOrder, requestMapIterator, clientVars>>

\* A step that leaves the clients and their requests alone.
Unmoved == UNCHANGED <<creditVars, mapVars, clientVars, bypass>>

\* schedule takes a request by one of the strategies, or the service dies.
LEMMA ScheduleKinds ==
  ASSUME NEW w \in Workers, Schedule(w)
  PROVE  \/ Unmoved
         \/ \E i : TakeInTurn(w, i)
         \/ \E c : TakeByCredit(w, c)
  <1>1. ASSUME NEW kind, Fail(kind) PROVE Unmoved
    BY <1>1 DEF Schedule, Fail, Unmoved
  <1>2. CASE Strategy = "ROUND_ROBIN"
    <2>1. ScheduleRoundRobin(w) /\ UNCHANGED clientVars
      BY <1>2 DEF Schedule
    <2> QED
      BY <1>1, <1>2, <2>1 DEF ScheduleRoundRobin, TakeInTurn
  <1>3. CASE Strategy = "CREDIT"
    <2>1. ScheduleCredit(w) /\ UNCHANGED clientVars
      BY <1>3 DEF Schedule
    <2> QED
      BY <1>1, <1>3, <2>1 DEF ScheduleCredit, TakeByCredit, FirstInLine
  <1> QED
    BY <1>2, <1>3, StrategyAssumption

\* All other steps of the workers leave the clients and their requests alone.
LEMMA StepKinds ==
  ASSUME [Next]_vars
  PROVE  \/ Unmoved
         \/ \E c \in Clients, priority \in Priorities : RegisterClient(c, priority)
         \/ \E c \in Clients : DeregisterClient(c)
         \/ \E c \in Clients, fileSize \in FileSizes : Enqueue(c, fileSize)
         \/ \E w \in Workers : \E i : TakeInTurn(w, i)
         \/ \E w \in Workers : \E c : TakeByCredit(w, c)
  <1>1. CASE UNCHANGED vars
    BY <1>1 DEF vars, Unmoved
  <1>2. CASE RegistrationStep
    BY <1>2 DEF RegistrationStep
  <1>3. ASSUME NEW w \in Workers, Schedule(w)
        PROVE  \/ Unmoved
               \/ \E i : TakeInTurn(w, i)
               \/ \E c : TakeByCredit(w, c)
    BY <1>3, ScheduleKinds
  <1>4. ASSUME NEW w \in Workers, CreateHandler(w) PROVE Unmoved
    BY <1>4 DEF CreateHandler, Fail, Unmoved
  <1>5. ASSUME NEW w \in Workers,
               WaitForRequest(w) \/ RecheckSegments(w) \/ Process(w) \/ ReleaseHandler(w)
        PROVE  Unmoved
    BY <1>5 DEF WaitForRequest, RecheckSegments, Process, ReleaseHandler, Unmoved
  <1>6. ASSUME NEW w \in Workers, WakeSpuriously(w) PROVE Unmoved
    BY <1>6 DEF WakeSpuriously, Unmoved
  <1> QED
    BY <1>1, <1>2, <1>3, <1>4, <1>5, <1>6 DEF Next, WorkerStep

-----------------------------------------------------------------------------
(* The clients and their requests *)

\* What clientCredits holds of a client.
CreditRecord == [priority : Priorities, credit : Int, type : {"IDLE", "UNDER", "OVER"}]

\* Requests are kept for registered clients only; totalCredits is what the
\* priorities add up to.
Accounts ==
  /\ Registered \subseteq Clients /\ departed \subseteq Clients
  /\ IsFiniteSet(Registered)
  /\ \A c \in Registered : clientCredits[c] \in CreditRecord
  /\ DOMAIN requestMap \subseteq Registered
  /\ \A c \in DOMAIN requestMap : requestMap[c] \in Seq(FileSizes)
  /\ totalCredits = SumFunction([c \in Registered |-> clientCredits[c].priority])

\* A sequence that has the elements of S, each of them once.
OrderOf(order, S) == order \in Seq(Clients) /\ Once(order) /\ ToSet(order) = S

\* The orders the maps are iterated in.
Orders == OrderOf(creditOrder, Registered) /\ OrderOf(mapOrder, DOMAIN requestMap)

\* The queue of the credit strategy holds exactly the registered clients of one
\* type, once each, and nobody who is still to register.
ListOf(queue, type) ==
  /\ queue \in Seq(Clients) /\ Once(queue)
  /\ ToSet(queue) \subseteq Registered \cup departed
  /\ \A c \in Registered : clientCredits[c].type = type <=> c \in ToSet(queue)

\* The two lists of the credit strategy.
Lists == ListOf(underQueue, "UNDER") /\ ListOf(overQueue, "OVER")

\* Under the credit strategy a client's type says whether it has requests, and
\* whether it has credit left.
Standing ==
  Strategy = "CREDIT" =>
    \A c \in Registered :
      /\ clientCredits[c].type = "IDLE" <=> Backlog(c) = << >>
      /\ clientCredits[c].type = "UNDER" => clientCredits[c].credit > 0
      /\ clientCredits[c].type = "OVER" => clientCredits[c].credit <= 0

\* Who leaves without requests leaves nothing behind.
NothingLeft ==
  Departures # "any" =>
    /\ requestCount = SumFunction([c \in DOMAIN requestMap |-> Len(requestMap[c])])
    /\ Strategy = "CREDIT" => ToSet(underQueue) \cup ToSet(overQueue) \subseteq Registered

\* What is left of the type invariant.
Others ==
  /\ requestMapIterator \in Clients \cup {End, Singular}
  /\ requestMapMutex \in Workers \cup {None}
  /\ waiting \in SUBSET Workers
  /\ request \in [Workers -> [client : Clients \cup {None}, size : FileSizes \cup {0}]]
  /\ sent \in [Clients -> 0..MaxRequests]
  /\ fault \in Faults
  /\ bypass \in [Clients -> [Clients -> Nat]]

\* The order in which the scan comes to the places i and j of mapOrder when it
\* starts at place start.
Ahead(i, j, start) == \/ start <= i /\ i < j
                      \/ i < j /\ j < start
                      \/ j < start /\ start <= i

\* Where the next scan starts.
StartsAt(start) == /\ start \in 1..Len(mapOrder)
                   /\ IF requestMapIterator = End THEN start = 1
                      ELSE mapOrder[start] = requestMapIterator

\* Nobody was passed over twice by the same client; and when d has passed c over,
\* the scan comes to c before it comes to d again.
Turns ==
  Strategy = "ROUND_ROBIN" =>
    \A c, d \in Clients :
      /\ bypass[c][d] <= 1
      /\ bypass[c][d] = 1 /\ Backlog(c) # << >> =>
           \A i, j, start \in 1..Len(mapOrder) :
             mapOrder[i] = c /\ mapOrder[j] = d /\ StartsAt(start) => Ahead(i, j, start)

\* The service survives while nobody leaves requests behind, nor an iterator
\* that points at it, nor a rehash one that must not be used.
Survives ==
  /\ Strategy = "CREDIT" /\ Departures # "any" => fault = "none"
  /\ Strategy = "ROUND_ROBIN" /\ Departures = "never" /\ NodeIterators =>
       fault = "none" /\ requestMapIterator \in DOMAIN requestMap \cup {End}

\* While workers sleep in requestMapCond, the others are enough for the requests.
Awake == {w \in Workers : pc[w] = "schedule" /\ w \notin waiting}
Enough == /\ waiting \subseteq {w \in Workers : pc[w] = "schedule"}
          /\ waiting # {} => requestCount <= Cardinality(Awake)

\* The client whose request is taken has one.
LEMMA TakenRequest ==
  ASSUME Accounts, NEW w, NEW c, Take(w, c), Backlog(c) # << >>
  PROVE  /\ c \in DOMAIN requestMap /\ c \in Registered /\ c \in Clients
         /\ requestMap[c] \in Seq(FileSizes) /\ requestMap[c] # << >>
         /\ Head(requestMap[c]) \in FileSizes
         /\ Tail(requestMap[c]) \in Seq(FileSizes)
         /\ Len(requestMap[c]) \in Nat \ {0}
         /\ Len(Tail(requestMap[c])) = Len(requestMap[c]) - 1
         /\ requestMap' = [requestMap EXCEPT ![c] = Tail(requestMap[c])]
         /\ DOMAIN requestMap' = DOMAIN requestMap
         /\ requestCount' = requestCount - 1
  <1>1. c \in DOMAIN requestMap /\ requestMap[c] # << >>
    BY DEF Backlog
  <1>2. requestMap[c] \in Seq(FileSizes) /\ c \in Registered /\ c \in Clients
    BY <1>1 DEF Accounts
  <1>3. /\ requestMap' = [requestMap EXCEPT ![c] = Tail(requestMap[c])]
        /\ requestCount' = requestCount - 1
    BY DEF Take
  <1>4. DOMAIN requestMap' = DOMAIN requestMap
    BY <1>3
  <1> QED
    BY <1>1, <1>2, <1>3, <1>4, Popped

\* The scan goes over the entries of requestMap.
LEMMA TakenInTurn ==
  ASSUME Accounts, NEW w, NEW i, TakeInTurn(w, i)
  PROVE  Backlog(ScanOrder[i]) # << >> /\ Take(w, ScanOrder[i])
  BY DEF TakeInTurn, FirstBacklogged

\* What a round robin worker or one of the credit strategy does to the requests
\* is the same.
LEMMA TakeKeepsRequests ==
  ASSUME Accounts, NEW w, NEW c, Take(w, c), Backlog(c) # << >>
  PROVE  /\ DOMAIN requestMap' = DOMAIN requestMap
         /\ \A d \in DOMAIN requestMap' : requestMap'[d] \in Seq(FileSizes)
  BY TakenRequest DEF Accounts

\* The priorities add up to the same as long as nobody comes or goes.
LEMMA SameTotal ==
  ASSUME Accounts, Registered' = Registered, totalCredits' = totalCredits,
         \A d \in Registered : clientCredits'[d].priority = clientCredits[d].priority
  PROVE  (totalCredits = SumFunction([d \in Registered |-> clientCredits[d].priority]))'
  <1> DEFINE f == [d \in Registered |-> clientCredits[d].priority]
             g == [d \in Registered' |-> clientCredits'[d].priority]
  <1>1. DOMAIN f = Registered /\ DOMAIN g = Registered /\ \A d \in Registered : f[d] = g[d]
    OBVIOUS
  <1>2. IsFiniteSet(Registered) /\ totalCredits = SumFunction(f)
    BY DEF Accounts
  <1> HIDE DEF f, g
  <1>3. SumFunctionOnSet(f, Registered) = SumFunctionOnSet(g, Registered)
    BY <1>1, <1>2, SumSame
  <1>4. totalCredits' = SumFunction(g)
    BY <1>1, <1>2, <1>3 DEF SumFunction
  <1> QED
    BY <1>4 DEF g

\* registerClient adds a client and its priority.
LEMMA RegisterKeepsAccounts ==
  ASSUME Accounts, NEW c \in Clients, NEW priority \in Priorities, RegisterClient(c, priority)
  PROVE  Accounts'
  <1> DEFINE record == [priority |-> priority, credit |-> priority * CreditUnit, type |-> "IDLE"]
             f == [d \in Registered |-> clientCredits[d].priority]
             g == [d \in Registered' |-> clientCredits'[d].priority]
  <1>1. /\ clientCredits' = [d \in Registered \cup {c} |->
                               IF d = c THEN record ELSE clientCredits[d]]
        /\ c \notin Registered
        /\ totalCredits' = totalCredits + priority
        /\ UNCHANGED <<departed, requestMap>>
    BY DEF RegisterClient, mapVars, clientVars
  <1>2. Registered' = Registered \cup {c}
    BY <1>1 DEF Registered
  <1>3. priority \in Nat /\ CreditUnit \in Nat
    BY CreditAssumption, NumWorkersType DEF CreditUnit
  <1>4. record \in CreditRecord
    BY <1>3 DEF CreditRecord
  <1> HIDE DEF record
  <1>5. \A d \in Registered' : clientCredits'[d] \in CreditRecord
    BY <1>1, <1>2, <1>4 DEF Accounts
  <1>6. totalCredits' = SumFunction(g)
    <2>1. /\ DOMAIN f = Registered /\ DOMAIN g = Registered \cup {c}
          /\ \A d \in Registered \ {c} : g[d] = f[d]
          /\ g[c] = priority
      BY <1>1, <1>2 DEF record
    <2>2. IsFiniteSet(Registered) /\ totalCredits = SumFunction(f)
      BY DEF Accounts
    <2>3. \A d \in Registered : f[d] \in Nat
      BY CreditAssumption DEF Accounts, CreditRecord
    <2> HIDE DEF f, g
    <2>4. /\ SumFunctionOnSet(f, Registered) \in Nat
          /\ SumFunctionOnSet(g, Registered \cup {c}) = SumFunctionOnSet(f, Registered) + g[c]
      <3>1. DifferAt(f, g, Registered, c)
        BY <2>1, <2>2, <2>3 DEF DifferAt
      <3>2. g[c] \in Nat
        BY <1>3, <2>1
      <3> QED
        BY <1>1, <3>1, <3>2, SumMore
    <2>5. SumFunction(g) = SumFunction(f) + priority
      BY <1>1, <1>3, <2>1, <2>4 DEF SumFunction
    <2> QED
      BY <1>1, <2>2, <2>5
  <1>7. IsFiniteSet(Registered')
    BY <1>2, FS_AddElement DEF Accounts
  <1> QED
    BY <1>1, <1>2, <1>5, <1>6, <1>7 DEF Accounts

\* deregisterClient takes a client and its priority away.
LEMMA DeregisterKeepsAccounts ==
  ASSUME Accounts, NEW c \in Clients, DeregisterClient(c)
  PROVE  Accounts'
  <1> DEFINE f == [d \in Registered |-> clientCredits[d].priority]
             g == [d \in Registered' |-> clientCredits'[d].priority]
  <1>1. /\ c \in Registered
        /\ clientCredits' = [d \in Registered \ {c} |-> clientCredits[d]]
        /\ totalCredits' = totalCredits - clientCredits[c].priority
        /\ requestMap' = [d \in DOMAIN requestMap \ {c} |-> requestMap[d]]
        /\ departed' = departed \cup {c}
    BY DEF DeregisterClient
  <1>2. Registered' = Registered \ {c} /\ DOMAIN requestMap' = DOMAIN requestMap \ {c}
    BY <1>1 DEF Registered
  <1>3. totalCredits' = SumFunction(g)
    <2>1. /\ DOMAIN f = Registered /\ DOMAIN g = Registered \ {c}
          /\ \A d \in Registered \ {c} : g[d] = f[d]
          /\ f[c] = clientCredits[c].priority
      BY <1>1, <1>2
    <2>2. IsFiniteSet(Registered) /\ totalCredits = SumFunction(f)
      BY DEF Accounts
    <2>3. \A d \in Registered : f[d] \in Nat
      BY CreditAssumption DEF Accounts, CreditRecord
    <2> HIDE DEF f, g
    <2>4. SumFunctionOnSet(g, Registered \ {c}) =
            SumFunctionOnSet(f, Registered) - (IF c \in Registered THEN f[c] ELSE 0)
      <3>1. DifferAt(f, g, Registered, c)
        BY <2>1, <2>2, <2>3 DEF DifferAt
      <3> QED
        BY <3>1, SumRemoved
    <2> QED
      BY <1>1, <2>1, <2>2, <2>4 DEF SumFunction
  <1>4. \A d \in Registered' : clientCredits'[d] \in CreditRecord
    BY <1>1, <1>2 DEF Accounts
  <1>5. \A d \in DOMAIN requestMap' : requestMap'[d] \in Seq(FileSizes)
    BY <1>1, <1>2 DEF Accounts
  <1>6. IsFiniteSet(Registered')
    BY <1>2, FS_RemoveElement DEF Accounts
  <1> QED
    BY <1>1, <1>2, <1>3, <1>4, <1>5, <1>6 DEF Accounts

\* Credit::enqueue changes the type of an idle client and nothing else of it.
LEMMA EnqueueRecords ==
  ASSUME Accounts, NEW c \in Registered, CreditEnqueue(c)
  PROVE  /\ Registered' = Registered
         /\ \A d \in Registered : /\ clientCredits'[d] \in CreditRecord
                                  /\ clientCredits'[d].priority = clientCredits[d].priority
                                  /\ clientCredits'[d].credit = clientCredits[d].credit
                                  /\ d # c => clientCredits'[d] = clientCredits[d]
         /\ clientCredits'[c].type = IF clientCredits[c].type = "IDLE"
                                     THEN CreditType(clientCredits[c].credit)
                                     ELSE clientCredits[c].type
  <1>1. \A d \in Registered : clientCredits[d] \in CreditRecord
    BY DEF Accounts
  <1>2. CASE clientCredits[c].type = "IDLE"
    <2>1. clientCredits' = [clientCredits EXCEPT ![c].type = CreditType(clientCredits[c].credit)]
      BY <1>2 DEF CreditEnqueue
    <2>2. CreditType(clientCredits[c].credit) \in {"IDLE", "UNDER", "OVER"}
      BY DEF CreditType
    <2>3. /\ Registered' = Registered
          /\ \A d \in Registered : d # c => clientCredits'[d] = clientCredits[d]
      BY <2>1 DEF Registered
    <2>4. clientCredits'[c] = [clientCredits[c] EXCEPT !.type = CreditType(clientCredits[c].credit)]
      BY <2>1 DEF Registered
    <2>5. /\ clientCredits'[c] \in CreditRecord
          /\ clientCredits'[c].priority = clientCredits[c].priority
          /\ clientCredits'[c].credit = clientCredits[c].credit
          /\ clientCredits'[c].type = CreditType(clientCredits[c].credit)
      BY <1>1, <2>2, <2>4 DEF CreditRecord
    <2> QED
      BY <1>1, <1>2, <2>3, <2>5
  <1>3. CASE clientCredits[c].type # "IDLE"
    BY <1>1, <1>3 DEF CreditEnqueue, Registered
  <1> QED
    BY <1>2, <1>3

\* enqueue adds a request of a registered client.
LEMMA EnqueueKeepsAccounts ==
  ASSUME Accounts, NEW c \in Clients, NEW fileSize \in FileSizes, Enqueue(c, fileSize)
  PROVE  Accounts'
  <1>1. /\ c \in Registered
        /\ CreditEnqueue(c)
        /\ requestMap' = [d \in DOMAIN requestMap \cup {c} |->
                            IF d = c THEN Append(Backlog(c), fileSize) ELSE requestMap[d]]
        /\ UNCHANGED <<departed, totalCredits>>
    BY DEF Enqueue
  <1>2. DOMAIN requestMap' = DOMAIN requestMap \cup {c}
    BY <1>1
  <1>3. \A d \in DOMAIN requestMap' : requestMap'[d] \in Seq(FileSizes)
    <2>1. Backlog(c) \in Seq(FileSizes)
      BY DEF Backlog, Accounts
    <2>2. Append(Backlog(c), fileSize) \in Seq(FileSizes)
      BY <2>1, Pushed
    <2> QED
      BY <1>1, <1>2, <2>2 DEF Accounts
  <1>4. /\ Registered' = Registered
        /\ \A d \in Registered : /\ clientCredits'[d] \in CreditRecord
                                 /\ clientCredits'[d].priority = clientCredits[d].priority
    BY <1>1, EnqueueRecords
  <1>5. (totalCredits = SumFunction([d \in Registered |-> clientCredits[d].priority]))'
    BY <1>1, <1>4, SameTotal
  <1> QED
    BY <1>1, <1>2, <1>3, <1>4, <1>5 DEF Accounts

\* Credit::schedule: what becomes of the clients' credits and types.
TypeAfter(c, d, size) ==
  IF (IF d = c THEN Len(requestMap[c]) = 1 ELSE clientCredits[d].type = "IDLE")
  THEN "IDLE"
  ELSE CreditType(CreditAfter(c, d, size))

LEMMA CreditAfterType ==
  ASSUME Accounts, NEW c, NEW d \in Registered, NEW size \in FileSizes
  PROVE  CreditAfter(c, d, size) \in Int
  <1>1. /\ clientCredits[d].credit \in Int /\ clientCredits[d].priority \in Nat
        /\ size \in Nat /\ DefaultPriority \in Nat
    BY CreditAssumption DEF Accounts, CreditRecord
  <1>2. size * DefaultPriority \in Int /\ size * clientCredits[d].priority \in Int
    BY <1>1
  <1> QED
    BY <1>1, <1>2 DEF CreditAfter

\* Credit::schedule gives every client its new credit and type.
LEMMA ScheduleRecords ==
  ASSUME Accounts, NEW c, NEW size \in FileSizes, CreditSchedule(c, size)
  PROVE  /\ Registered' = Registered
         /\ \A d \in Registered : /\ clientCredits'[d] \in CreditRecord
                                  /\ clientCredits'[d].priority = clientCredits[d].priority
                                  /\ clientCredits'[d].credit = CreditAfter(c, d, size)
                                  /\ clientCredits'[d].type = TypeAfter(c, d, size)
  <1>1. clientCredits' = [d \in Registered |->
          [clientCredits[d] EXCEPT !.credit = CreditAfter(c, d, size),
                                   !.type = TypeAfter(c, d, size)]]
    BY DEF CreditSchedule, TypeAfter
  <1>2. ASSUME NEW d \in Registered
        PROVE  /\ clientCredits'[d] \in CreditRecord
               /\ clientCredits'[d].priority = clientCredits[d].priority
               /\ clientCredits'[d].credit = CreditAfter(c, d, size)
               /\ clientCredits'[d].type = TypeAfter(c, d, size)
    <2>1. TypeAfter(c, d, size) \in {"IDLE", "UNDER", "OVER"}
      BY DEF TypeAfter, CreditType
    <2>2. clientCredits[d] \in CreditRecord /\ CreditAfter(c, d, size) \in Int
      BY CreditAfterType DEF Accounts
    <2>3. clientCredits'[d] = [clientCredits[d] EXCEPT !.credit = CreditAfter(c, d, size),
                                                       !.type = TypeAfter(c, d, size)]
      BY <1>1
    <2> QED
      BY <2>1, <2>2, <2>3 DEF CreditRecord
  <1> QED
    BY <1>1, <1>2 DEF Registered

\* Every step keeps Accounts.
LEMMA AccountsKept == Accounts /\ [Next]_vars => Accounts'
  <1> SUFFICES ASSUME Accounts, [Next]_vars PROVE Accounts'
    OBVIOUS
  <1>1. CASE Unmoved
    BY <1>1 DEF Unmoved, creditVars, mapVars, clientVars, Accounts, Registered
  <1>2. ASSUME NEW w \in Workers, NEW i, TakeInTurn(w, i) PROVE Accounts'
    <2>1. DOMAIN requestMap' = DOMAIN requestMap
          /\ \A d \in DOMAIN requestMap' : requestMap'[d] \in Seq(FileSizes)
      BY <1>2, TakenInTurn, TakeKeepsRequests
    <2>2. UNCHANGED <<clientCredits, totalCredits, departed>>
      BY <1>2 DEF TakeInTurn, creditVars, clientVars
    <2> QED
      BY <2>1, <2>2 DEF Accounts, Registered
  <1>3. ASSUME NEW w \in Workers, NEW c, TakeByCredit(w, c) PROVE Accounts'
    <2>1. /\ DOMAIN requestMap' = DOMAIN requestMap
          /\ \A d \in DOMAIN requestMap' : requestMap'[d] \in Seq(FileSizes)
          /\ Head(requestMap[c]) \in FileSizes
      BY <1>3, TakenRequest, TakeKeepsRequests DEF TakeByCredit
    <2>2. UNCHANGED <<totalCredits, departed>> /\ CreditSchedule(c, Head(requestMap[c]))
      BY <1>3 DEF TakeByCredit, clientVars
    <2>3. /\ Registered' = Registered
          /\ \A d \in Registered : /\ clientCredits'[d] \in CreditRecord
                                   /\ clientCredits'[d].priority = clientCredits[d].priority
      BY <2>1, <2>2, ScheduleRecords
    <2>4. (totalCredits = SumFunction([d \in Registered |-> clientCredits[d].priority]))'
      BY <2>2, <2>3, SameTotal
    <2> QED
      BY <2>1, <2>2, <2>3, <2>4 DEF Accounts
  <1> QED
    BY <1>1, <1>2, <1>3, StepKinds, RegisterKeepsAccounts, DeregisterKeepsAccounts,
       EnqueueKeepsAccounts

-----------------------------------------------------------------------------
(* The orders of the two maps *)

\* The sequences of the elements of a finite set.
LEMMA AnyOrder ==
  ASSUME NEW S, IsFiniteSet(S), S \subseteq Clients, NEW order \in SetToSeqs(S)
  PROVE  OrderOf(order, S)
  <1> DEFINE n == Cardinality(S)
  <1>1. n \in Nat
    BY FS_CardinalityType
  <1>2. order \in [1..n -> S] /\ \A i, j \in 1..n : i # j => order[i] # order[j]
    BY DEF SetToSeqs
  <1>3. Len(order) = n /\ order \in Seq(Clients) /\ DOMAIN order = 1..n
    BY <1>1, <1>2, LenProperties
  <1>4. order \in Injection(1..n, S)
    BY <1>2 DEF Injection, IsInjective
  <1>5. IsFiniteSet(1..n) /\ Cardinality(1..n) = n
    BY <1>1, FS_Interval
  <1>6. order \in Surjection(1..n, S)
    BY <1>4, <1>5, FS_Injection
  <1>7. ToSet(order) = S
    BY <1>2, <1>3, <1>6 DEF Surjection, ToSet
  <1> QED
    BY <1>2, <1>3, <1>7 DEF OrderOf, Once

\* A new key may come anywhere, an old one changes nothing.
LEMMA OrderExtended ==
  ASSUME NEW S, IsFiniteSet(S), NEW order, OrderOf(order, S), S \subseteq Clients,
         NEW c \in Clients, NEW iterated, NEW new \in OrdersWith(order, c, iterated)
  PROVE  OrderOf(new, S \cup {c}) /\ (c \in S => new = order)
  <1>1. order \in Seq(Clients) /\ Once(order) /\ ToSet(order) = S
    BY DEF OrderOf
  <1>2. CASE c \in S
    <2>1. new = order /\ S \cup {c} = S
      BY <1>1, <1>2 DEF OrdersWith
    <2> QED
      BY <2>1
  <1>3. CASE c \notin S /\ iterated
    <2>1. new \in SetToSeqs(S \cup {c})
      BY <1>1, <1>3 DEF OrdersWith
    <2>2. IsFiniteSet(S \cup {c})
      BY FS_AddElement
    <2> QED
      BY <1>3, <2>1, <2>2, AnyOrder
  <1>4. CASE c \notin S /\ ~iterated
    <2>1. new = Append(order, c)
      BY <1>1, <1>4 DEF OrdersWith
    <2> QED
      BY <1>1, <1>4, <2>1, Pushed DEF OrderOf
  <1> QED
    BY <1>2, <1>3, <1>4

\* Erasing a key.
LEMMA OrderWithout ==
  ASSUME NEW S, NEW order, OrderOf(order, S), S \subseteq Clients, NEW c
  PROVE  OrderOf(Without(order, c), S \ {c})
  <1>1. order \in Seq(Clients) /\ Once(order) /\ ToSet(order) = S
    BY DEF OrderOf
  <1>2. /\ Without(order, c) \in Seq(Clients) /\ Once(Without(order, c))
        /\ ToSet(Without(order, c)) = S \cap (Clients \ {c})
    BY <1>1, OnlyFilters DEF Without
  <1> QED
    BY <1>2 DEF OrderOf

\* Every step keeps Orders.
LEMMA OrdersKept == Accounts /\ Orders /\ [Next]_vars => Orders'
  <1> SUFFICES ASSUME Accounts, Orders, [Next]_vars PROVE Orders'
    OBVIOUS
  <1>1. /\ OrderOf(creditOrder, Registered) /\ OrderOf(mapOrder, DOMAIN requestMap)
        /\ Registered \subseteq Clients /\ IsFiniteSet(Registered)
        /\ DOMAIN requestMap \subseteq Clients /\ IsFiniteSet(DOMAIN requestMap)
    BY FS_Subset DEF Accounts, Orders
  <1>2. CASE Unmoved
    BY <1>1, <1>2 DEF Unmoved, creditVars, mapVars, Orders, OrderOf, Registered
  <1>3. ASSUME NEW c \in Clients, NEW priority \in Priorities, RegisterClient(c, priority)
        PROVE  Orders'
    <2>1. /\ Registered' = Registered \cup {c}
          /\ creditOrder' \in OrdersWith(creditOrder, c, Strategy = "CREDIT")
          /\ UNCHANGED <<requestMap, mapOrder>>
      BY <1>3 DEF RegisterClient, Registered, mapVars
    <2>2. OrderOf(creditOrder', Registered \cup {c})
      BY <1>1, <2>1, OrderExtended
    <2> QED
      BY <1>1, <2>1, <2>2 DEF Orders, OrderOf
  <1>4. ASSUME NEW c \in Clients, DeregisterClient(c) PROVE Orders'
    <2>1. /\ Registered' = Registered \ {c} /\ DOMAIN requestMap' = DOMAIN requestMap \ {c}
          /\ creditOrder' = Without(creditOrder, c) /\ mapOrder' = Without(mapOrder, c)
      BY <1>4 DEF DeregisterClient, Registered
    <2> QED
      BY <1>1, <2>1, OrderWithout DEF Orders, OrderOf
  <1>5. ASSUME NEW c \in Clients, NEW fileSize \in FileSizes, Enqueue(c, fileSize) PROVE Orders'
    <2>1. /\ c \in Registered /\ CreditEnqueue(c)
          /\ DOMAIN requestMap' = DOMAIN requestMap \cup {c}
          /\ mapOrder' \in OrdersWith(mapOrder, c, Strategy = "ROUND_ROBIN")
          /\ UNCHANGED creditOrder
      BY <1>5 DEF Enqueue
    <2>2. Registered' = Registered
      BY <2>1, EnqueueRecords
    <2>3. OrderOf(mapOrder', DOMAIN requestMap \cup {c})
      BY <1>1, <2>1, OrderExtended
    <2> QED
      BY <1>1, <2>1, <2>2, <2>3 DEF Orders, OrderOf
  <1>6. ASSUME NEW w \in Workers, NEW i, TakeInTurn(w, i) PROVE Orders'
    <2>1. DOMAIN requestMap' = DOMAIN requestMap
      BY <1>6, TakenInTurn, TakeKeepsRequests
    <2>2. UNCHANGED <<clientCredits, creditOrder, mapOrder>>
      BY <1>6 DEF TakeInTurn, creditVars
    <2> QED
      BY <1>1, <2>1, <2>2 DEF Orders, OrderOf, Registered
  <1>7. ASSUME NEW w \in Workers, NEW c, TakeByCredit(w, c) PROVE Orders'
    <2>1. DOMAIN requestMap' = DOMAIN requestMap /\ Head(requestMap[c]) \in FileSizes
      BY <1>7, TakenRequest DEF TakeByCredit
    <2>2. UNCHANGED <<creditOrder, mapOrder>> /\ CreditSchedule(c, Head(requestMap[c]))
      BY <1>7 DEF TakeByCredit
    <2>3. Registered' = Registered
      BY <2>1, <2>2, ScheduleRecords
    <2> QED
      BY <1>1, <2>1, <2>2, <2>3 DEF Orders, OrderOf
  <1> QED
    BY <1>2, <1>3, <1>4, <1>5, <1>6, <1>7, StepKinds

-----------------------------------------------------------------------------
(* The queues of the credit strategy *)

\* The clients that Credit::schedule puts in the list of a type, and the list.
OfType(c, size, type) == {d \in Registered : TypeAfter(c, d, size) = type}
Requeue(queue, c, S) ==
  Only(queue, Clients \ Registered) \o Only(Append(Without(creditOrder, c), c), S)

\* What Credit::schedule makes of a list: who is gone stays, the clients of S
\* follow, and nobody else.
LEMMA Requeued ==
  ASSUME NEW c \in Registered, Registered \subseteq Clients, OrderOf(creditOrder, Registered),
         NEW queue \in Seq(Clients), Once(queue), NEW S \in SUBSET Registered
  PROVE  /\ Requeue(queue, c, S) \in Seq(Clients) /\ Once(Requeue(queue, c, S))
         /\ ToSet(Requeue(queue, c, S)) = (ToSet(queue) \cap (Clients \ Registered)) \cup S
  <1> DEFINE gone == Only(queue, Clients \ Registered)
             others == Without(creditOrder, c)
             queued == Append(others, c)
             back == Only(queued, S)
  <1>1. /\ gone \in Seq(Clients) /\ Once(gone)
        /\ ToSet(gone) = ToSet(queue) \cap (Clients \ Registered)
    BY OnlyFilters
  <1>2. others \in Seq(Clients) /\ Once(others) /\ ToSet(others) = Registered \ {c}
    BY OrderWithout DEF OrderOf
  <1> HIDE DEF others
  <1>3. queued \in Seq(Clients) /\ Once(queued) /\ ToSet(queued) = Registered
    <2>1. c \in Clients /\ c \notin ToSet(others) /\ (Registered \ {c}) \cup {c} = Registered
      BY <1>2
    <2>2. /\ queued \in Seq(Clients) /\ Once(queued)
          /\ ToSet(queued) = ToSet(others) \cup {c}
      BY <1>2, <2>1, Pushed
    <2> QED
      BY <1>2, <2>1, <2>2
  <1> HIDE DEF queued
  <1>4. back \in Seq(Clients) /\ Once(back) /\ ToSet(back) = S
    <2>1. back \in Seq(Clients) /\ Once(back) /\ ToSet(back) = Registered \cap S
      BY <1>3, OnlyFilters
    <2> QED
      BY <2>1
  <1>5. Requeue(queue, c, S) = gone \o back
    BY DEF queued, others, Requeue
  <1> HIDE DEF gone, back
  <1>6. ToSet(gone) \cap ToSet(back) = {}
    BY <1>1, <1>4
  <1>7. /\ gone \o back \in Seq(Clients) /\ Once(gone \o back)
        /\ ToSet(gone \o back) = ToSet(gone) \cup ToSet(back)
    BY <1>1, <1>4, <1>6, Joined
  <1> QED
    BY <1>1, <1>4, <1>5, <1>7

\* Credit::schedule leaves each list with the clients of its type.
LEMMA ScheduleKeepsList ==
  ASSUME Accounts, Orders, NEW c \in Registered, NEW size \in FileSizes, CreditSchedule(c, size),
         NEW queue, NEW type, ListOf(queue, type),
         NEW new, new = Requeue(queue, c, OfType(c, size, type))
  PROVE  /\ new \in Seq(Clients) /\ Once(new)
         /\ ToSet(new) \subseteq Registered \cup departed
         /\ \A d \in Registered : clientCredits'[d].type = type <=> d \in ToSet(new)
         /\ ToSet(queue) \subseteq Registered => ToSet(new) \subseteq Registered
  <1> DEFINE S == OfType(c, size, type)
  <1>1. /\ queue \in Seq(Clients) /\ Once(queue) /\ ToSet(queue) \subseteq Registered \cup departed
        /\ Registered \subseteq Clients /\ OrderOf(creditOrder, Registered)
        /\ S \in SUBSET Registered
    BY DEF ListOf, Accounts, Orders, OfType
  <1>2. /\ new \in Seq(Clients) /\ Once(new)
        /\ ToSet(new) = (ToSet(queue) \cap (Clients \ Registered)) \cup S
    BY <1>1, Requeued
  <1>3. \A d \in Registered : clientCredits'[d].type = TypeAfter(c, d, size)
    BY ScheduleRecords
  <1> QED
    BY <1>1, <1>2, <1>3 DEF OfType

\* Requeue is what CreditSchedule does to its lists.
LEMMA ScheduleRequeues ==
  ASSUME NEW c, NEW size, CreditSchedule(c, size)
  PROVE  /\ underQueue' = Requeue(underQueue, c, OfType(c, size, "UNDER"))
         /\ overQueue' = Requeue(overQueue, c, OfType(c, size, "OVER"))
  <1> DEFINE type == [d \in Registered |-> TypeAfter(c, d, size)]
  <1>1. /\ underQueue' = Requeue(underQueue, c, {d \in Registered : type[d] = "UNDER"})
        /\ overQueue' = Requeue(overQueue, c, {d \in Registered : type[d] = "OVER"})
    BY DEF CreditSchedule, Requeue, TypeAfter
  <1>2. /\ {d \in Registered : type[d] = "UNDER"} = OfType(c, size, "UNDER")
        /\ {d \in Registered : type[d] = "OVER"} = OfType(c, size, "OVER")
    BY DEF OfType
  <1> QED
    BY <1>1, <1>2

\* Every step keeps Lists.
LEMMA ListsKept == Accounts /\ Orders /\ Lists /\ [Next]_vars => Lists'
  <1> SUFFICES ASSUME Accounts, Orders, Lists, [Next]_vars PROVE Lists'
    OBVIOUS
  <1>1. /\ underQueue \in Seq(Clients) /\ Once(underQueue)
        /\ overQueue \in Seq(Clients) /\ Once(overQueue)
        /\ ToSet(underQueue) \subseteq Registered \cup departed
        /\ ToSet(overQueue) \subseteq Registered \cup departed
        /\ \A d \in Registered : /\ clientCredits[d].type = "UNDER" <=> d \in ToSet(underQueue)
                                 /\ clientCredits[d].type = "OVER" <=> d \in ToSet(overQueue)
    BY DEF Lists, ListOf
  <1>2. CASE UNCHANGED <<creditVars, departed>>
    BY <1>1, <1>2 DEF creditVars, Lists, ListOf, Registered
  <1>3. ASSUME NEW c \in Clients, NEW priority \in Priorities, RegisterClient(c, priority)
        PROVE  Lists'
    <2>1. /\ c \notin Registered \cup departed
          /\ Registered' = Registered \cup {c}
          /\ \A d \in Registered : clientCredits'[d] = clientCredits[d]
          /\ clientCredits'[c].type = "IDLE"
          /\ UNCHANGED <<underQueue, overQueue, departed>>
      BY <1>3 DEF RegisterClient, Registered, clientVars
    <2> QED
      BY <1>1, <2>1 DEF Lists, ListOf
  <1>4. ASSUME NEW c \in Clients, DeregisterClient(c) PROVE Lists'
    <2>1. /\ Registered' = Registered \ {c}
          /\ \A d \in Registered \ {c} : clientCredits'[d] = clientCredits[d]
          /\ departed' = departed \cup {c}
          /\ UNCHANGED <<underQueue, overQueue>>
      BY <1>4 DEF DeregisterClient, Registered
    <2> QED
      BY <1>1, <2>1 DEF Lists, ListOf
  <1>5. ASSUME NEW c \in Clients, NEW fileSize \in FileSizes, Enqueue(c, fileSize) PROVE Lists'
    <2> DEFINE type == CreditType(clientCredits[c].credit)
    <2>1. c \in Registered /\ CreditEnqueue(c) /\ UNCHANGED departed
      BY <1>5 DEF Enqueue
    <2>2. /\ Registered' = Registered
          /\ \A d \in Registered : d # c => clientCredits'[d] = clientCredits[d]
          /\ clientCredits'[c].type = IF clientCredits[c].type = "IDLE" THEN type
                                                                      ELSE clientCredits[c].type
      BY <2>1, EnqueueRecords
    <2>3. CASE clientCredits[c].type # "IDLE"
      <3>1. UNCHANGED <<underQueue, overQueue, clientCredits>>
        BY <2>1, <2>3 DEF CreditEnqueue
      <3> QED
        BY <1>1, <2>1, <2>2, <3>1 DEF Lists, ListOf
    <2>4. CASE clientCredits[c].type = "IDLE" /\ type = "UNDER"
      <3>1. underQueue' = Append(underQueue, c) /\ UNCHANGED overQueue
        BY <2>1, <2>4 DEF CreditEnqueue
      <3>2. c \notin ToSet(underQueue) /\ c \notin ToSet(overQueue)
        BY <1>1, <2>1, <2>4
      <3>3. /\ underQueue' \in Seq(Clients) /\ Once(underQueue')
            /\ ToSet(underQueue') = ToSet(underQueue) \cup {c}
        BY <1>1, <3>1, <3>2, Pushed
      <3>4. clientCredits'[c].type = "UNDER"
        BY <2>2, <2>4
      <3> HIDE DEF type
      <3> QED
        BY <1>1, <2>1, <2>2, <3>1, <3>2, <3>3, <3>4 DEF Lists, ListOf
    <2>5. CASE clientCredits[c].type = "IDLE" /\ type = "OVER"
      <3>1. overQueue' = Append(overQueue, c) /\ UNCHANGED underQueue
        BY <2>1, <2>5 DEF CreditEnqueue
      <3>2. c \notin ToSet(underQueue) /\ c \notin ToSet(overQueue)
        BY <1>1, <2>1, <2>5
      <3>3. /\ overQueue' \in Seq(Clients) /\ Once(overQueue')
            /\ ToSet(overQueue') = ToSet(overQueue) \cup {c}
        BY <1>1, <3>1, <3>2, Pushed
      <3>4. clientCredits'[c].type = "OVER"
        BY <2>2, <2>5
      <3> HIDE DEF type
      <3> QED
        BY <1>1, <2>1, <2>2, <3>1, <3>2, <3>3, <3>4 DEF Lists, ListOf
    <2> QED
      BY <2>3, <2>4, <2>5 DEF CreditType
  <1>6. ASSUME NEW w \in Workers, NEW i, TakeInTurn(w, i) PROVE Lists'
    BY <1>2, <1>6 DEF TakeInTurn, clientVars
  <1>7. ASSUME NEW w \in Workers, NEW c, TakeByCredit(w, c) PROVE Lists'
    <2> DEFINE size == Head(requestMap[c])
    <2>1. c \in Registered /\ CreditSchedule(c, size) /\ UNCHANGED departed
      BY <1>7 DEF TakeByCredit, clientVars
    <2>2. size \in FileSizes
      BY <1>7, TakenRequest DEF TakeByCredit
    <2> HIDE DEF size
    <2>3. Registered' = Registered
      BY <2>1, <2>2, ScheduleRecords
    <2>4. /\ underQueue' = Requeue(underQueue, c, OfType(c, size, "UNDER"))
          /\ overQueue' = Requeue(overQueue, c, OfType(c, size, "OVER"))
      BY <2>1, ScheduleRequeues
    <2>5. ListOf(underQueue, "UNDER") /\ ListOf(overQueue, "OVER")
      BY DEF Lists
    <2>6. ListOf(underQueue, "UNDER")'
      <3>1. /\ underQueue' \in Seq(Clients) /\ Once(underQueue')
            /\ ToSet(underQueue') \subseteq Registered \cup departed
            /\ \A d \in Registered :
                 clientCredits'[d].type = "UNDER" <=> d \in ToSet(underQueue')
        BY <2>1, <2>2, <2>4, <2>5, ScheduleKeepsList
      <3> QED
        BY <2>1, <2>3, <3>1 DEF ListOf
    <2>7. ListOf(overQueue, "OVER")'
      <3>1. /\ overQueue' \in Seq(Clients) /\ Once(overQueue')
            /\ ToSet(overQueue') \subseteq Registered \cup departed
            /\ \A d \in Registered :
                 clientCredits'[d].type = "OVER" <=> d \in ToSet(overQueue')
        BY <2>1, <2>2, <2>4, <2>5, ScheduleKeepsList
      <3> QED
        BY <2>1, <2>3, <3>1 DEF ListOf
    <2> QED
      BY <2>6, <2>7 DEF Lists
  <1>8. CASE Unmoved
    BY <1>2, <1>8 DEF Unmoved, clientVars
  <1> QED
    BY <1>3, <1>4, <1>5, <1>6, <1>7, <1>8, StepKinds

-----------------------------------------------------------------------------
(* Who has requests, and how many there are *)

\* What enqueue does to the backlogs.
LEMMA EnqueueBacklogs ==
  ASSUME Accounts, NEW c \in Clients, NEW fileSize \in FileSizes, Enqueue(c, fileSize)
  PROVE  /\ Backlog(c)' = Append(Backlog(c), fileSize)
         /\ Backlog(c) \in Seq(FileSizes)
         /\ Backlog(c)' \in Seq(FileSizes) /\ Backlog(c)' # << >>
         /\ Len(Backlog(c)') = Len(Backlog(c)) + 1 /\ Len(Backlog(c)) \in Nat
         /\ \A d : d # c => Backlog(d)' = Backlog(d)
  <1>1. /\ requestMap' = [d \in DOMAIN requestMap \cup {c} |->
                            IF d = c THEN Append(Backlog(c), fileSize) ELSE requestMap[d]]
        /\ DOMAIN requestMap' = DOMAIN requestMap \cup {c}
    BY DEF Enqueue
  <1>2. Backlog(c) \in Seq(FileSizes)
    BY DEF Backlog, Accounts
  <1>3. Backlog(c)' = Append(Backlog(c), fileSize)
    BY <1>1 DEF Backlog
  <1>4. \A d : d # c => Backlog(d)' = Backlog(d)
    BY <1>1 DEF Backlog
  <1>5. /\ Append(Backlog(c), fileSize) \in Seq(FileSizes)
        /\ Len(Append(Backlog(c), fileSize)) = Len(Backlog(c)) + 1 /\ Len(Backlog(c)) \in Nat
    BY <1>2, Pushed
  <1>6. Append(Backlog(c), fileSize) # << >>
    BY <1>2, AppendProperties
  <1> QED
    BY <1>2, <1>3, <1>4, <1>5, <1>6

\* What taking a request of c does to them.
LEMMA TakeBacklogs ==
  ASSUME Accounts, NEW w, NEW c, Take(w, c), Backlog(c) # << >>
  PROVE  /\ Backlog(c)' = Tail(Backlog(c)) /\ Backlog(c) = requestMap[c]
         /\ Backlog(c)' = << >> <=> Len(requestMap[c]) = 1
         /\ \A d : d # c => Backlog(d)' = Backlog(d)
  <1>1. /\ c \in DOMAIN requestMap
        /\ Tail(requestMap[c]) \in Seq(FileSizes)
        /\ Len(requestMap[c]) \in Nat \ {0}
        /\ Len(Tail(requestMap[c])) = Len(requestMap[c]) - 1
        /\ requestMap' = [requestMap EXCEPT ![c] = Tail(requestMap[c])]
        /\ DOMAIN requestMap' = DOMAIN requestMap
    BY TakenRequest
  <1>2. Backlog(c)' = Tail(requestMap[c]) /\ Backlog(c) = requestMap[c]
    BY <1>1 DEF Backlog
  <1>3. \A d : d # c => Backlog(d)' = Backlog(d)
    BY <1>1 DEF Backlog
  <1>4. Tail(requestMap[c]) = << >> <=> Len(Tail(requestMap[c])) = 0
    BY <1>1, EmptySeq
  <1> QED
    BY <1>1, <1>2, <1>3, <1>4

\* A list's name says whether there is credit left.
LEMMA CreditTypes ==
  ASSUME NEW credit \in Int
  PROVE  /\ CreditType(credit) \in {"UNDER", "OVER"}
         /\ CreditType(credit) = "UNDER" => credit > 0
         /\ CreditType(credit) = "OVER" => credit <= 0
  BY DEF CreditType

\* Every step keeps Standing.
LEMMA StandingKept == Accounts /\ Standing /\ [Next]_vars => Standing'
  <1> SUFFICES ASSUME Accounts, Standing, [Next]_vars, Strategy = "CREDIT"
               PROVE  \A d \in Registered' :
                        /\ clientCredits'[d].type = "IDLE" <=> Backlog(d)' = << >>
                        /\ clientCredits'[d].type = "UNDER" => clientCredits'[d].credit > 0
                        /\ clientCredits'[d].type = "OVER" => clientCredits'[d].credit <= 0
    BY DEF Standing
  <1>1. \A d \in Registered :
          /\ clientCredits[d].type = "IDLE" <=> Backlog(d) = << >>
          /\ clientCredits[d].type = "UNDER" => clientCredits[d].credit > 0
          /\ clientCredits[d].type = "OVER" => clientCredits[d].credit <= 0
          /\ clientCredits[d].credit \in Int
    BY DEF Standing, Accounts, CreditRecord
  <1>2. CASE Unmoved
    BY <1>1, <1>2 DEF Unmoved, creditVars, mapVars, Backlog, Registered
  <1>3. ASSUME NEW c \in Clients, NEW priority \in Priorities, RegisterClient(c, priority),
               NEW d \in Registered'
        PROVE  /\ clientCredits'[d].type = "IDLE" <=> Backlog(d)' = << >>
               /\ clientCredits'[d].type = "UNDER" => clientCredits'[d].credit > 0
               /\ clientCredits'[d].type = "OVER" => clientCredits'[d].credit <= 0
    <2>1. /\ Registered' = Registered \cup {c}
          /\ \A e \in Registered : e # c => clientCredits'[e] = clientCredits[e]
          /\ c \notin Registered
          /\ clientCredits'[c].type = "IDLE"
          /\ UNCHANGED requestMap
      BY <1>3 DEF RegisterClient, Registered, mapVars
    <2>2. c \notin DOMAIN requestMap'
      BY <2>1 DEF Accounts
    <2> QED
      BY <1>1, <1>3, <2>1, <2>2 DEF Backlog
  <1>4. ASSUME NEW c \in Clients, DeregisterClient(c), NEW d \in Registered'
        PROVE  /\ clientCredits'[d].type = "IDLE" <=> Backlog(d)' = << >>
               /\ clientCredits'[d].type = "UNDER" => clientCredits'[d].credit > 0
               /\ clientCredits'[d].type = "OVER" => clientCredits'[d].credit <= 0
    <2>1. /\ Registered' = Registered \ {c}
          /\ \A e \in Registered \ {c} : clientCredits'[e] = clientCredits[e]
          /\ requestMap' = [e \in DOMAIN requestMap \ {c} |-> requestMap[e]]
      BY <1>4 DEF DeregisterClient, Registered
    <2>2. d \in Registered /\ d # c /\ Backlog(d)' = Backlog(d)
      BY <1>4, <2>1 DEF Backlog
    <2> QED
      BY <1>1, <2>1, <2>2
  <1>5. ASSUME NEW c \in Clients, NEW fileSize \in FileSizes, Enqueue(c, fileSize),
               NEW d \in Registered'
        PROVE  /\ clientCredits'[d].type = "IDLE" <=> Backlog(d)' = << >>
               /\ clientCredits'[d].type = "UNDER" => clientCredits'[d].credit > 0
               /\ clientCredits'[d].type = "OVER" => clientCredits'[d].credit <= 0
    <2>1. c \in Registered /\ CreditEnqueue(c)
      BY <1>5 DEF Enqueue
    <2>2. /\ Registered' = Registered
          /\ d # c => clientCredits'[d] = clientCredits[d]
          /\ clientCredits'[c].credit = clientCredits[c].credit
          /\ clientCredits'[c].type = IF clientCredits[c].type = "IDLE"
                                      THEN CreditType(clientCredits[c].credit)
                                      ELSE clientCredits[c].type
      BY <1>5, <2>1, EnqueueRecords
    <2>3. Backlog(c)' # << >> /\ (d # c => Backlog(d)' = Backlog(d))
      BY <1>5, EnqueueBacklogs
    <2>4. CASE d # c
      BY <1>1, <1>5, <2>2, <2>3, <2>4
    <2>5. CASE d = c /\ clientCredits[c].type = "IDLE"
      BY <1>1, <2>1, <2>2, <2>3, <2>5, CreditTypes
    <2>6. CASE d = c /\ clientCredits[c].type # "IDLE"
      BY <1>1, <2>1, <2>2, <2>3, <2>6
    <2> QED
      BY <2>4, <2>5, <2>6
  <1>6. ASSUME NEW w \in Workers, NEW c, TakeByCredit(w, c), NEW d \in Registered'
        PROVE  /\ clientCredits'[d].type = "IDLE" <=> Backlog(d)' = << >>
               /\ clientCredits'[d].type = "UNDER" => clientCredits'[d].credit > 0
               /\ clientCredits'[d].type = "OVER" => clientCredits'[d].credit <= 0
    <2> DEFINE size == Head(requestMap[c])
    <2>1. /\ Take(w, c) /\ Backlog(c) # << >> /\ c \in Registered
          /\ CreditSchedule(c, size)
      BY <1>6 DEF TakeByCredit
    <2>2. size \in FileSizes
      BY <2>1, TakenRequest
    <2> HIDE DEF size
    <2>3. /\ d \in Registered
          /\ clientCredits'[d].credit = CreditAfter(c, d, size)
          /\ clientCredits'[d].type = TypeAfter(c, d, size)
      BY <1>6, <2>1, <2>2, ScheduleRecords
    <2>4. CreditAfter(c, d, size) \in Int
      BY <2>2, <2>3, CreditAfterType
    <2>5. (Backlog(c)' = << >> <=> Len(requestMap[c]) = 1) /\ (d # c => Backlog(d)' = Backlog(d))
      BY <2>1, TakeBacklogs
    <2>6. TypeAfter(c, d, size) = IF Backlog(d)' = << >> THEN "IDLE"
                                  ELSE CreditType(CreditAfter(c, d, size))
      BY <1>1, <2>3, <2>5 DEF TypeAfter
    <2> QED
      BY <2>3, <2>4, <2>6, CreditTypes
  <1> QED
    BY <1>2, <1>3, <1>4, <1>5, <1>6, StepKinds DEF TakeInTurn

\* The requests that wait are counted as they come, as they are taken and, when
\* a client leaves, as long as it has none.
Waiting == SumFunction([c \in DOMAIN requestMap |-> Len(requestMap[c])])

\* The number of requests changes with the number of those of one client.
LEMMA WaitingChanged ==
  ASSUME Accounts, NEW c, DOMAIN requestMap' = DOMAIN requestMap \cup {c},
         \A d \in DOMAIN requestMap : d # c => requestMap'[d] = requestMap[d],
         Len(requestMap'[c]) \in Nat
  PROVE  /\ Waiting \in Nat
         /\ Waiting' = Waiting - (IF c \in DOMAIN requestMap THEN Len(requestMap[c]) ELSE 0)
                               + Len(requestMap'[c])
  <1> DEFINE S == DOMAIN requestMap
             f == [d \in S |-> Len(requestMap[d])]
             g == [d \in S \cup {c} |-> Len(requestMap'[d])]
  <1>1. IsFiniteSet(S) /\ \A d \in S : requestMap[d] \in Seq(FileSizes)
    BY FS_Subset DEF Accounts
  <1>2. \A d \in S : f[d] = Len(requestMap[d]) /\ f[d] \in Nat
    BY <1>1, LenProperties
  <1>3. /\ DOMAIN f = S /\ DOMAIN g = S \cup {c} /\ g[c] = Len(requestMap'[c])
        /\ \A d \in S \ {c} : g[d] = f[d]
    OBVIOUS
  <1>4. Waiting = SumFunction(f) /\ Waiting' = SumFunction(g)
    BY DEF Waiting
  <1> HIDE DEF S, f, g
  <1>5. /\ SumFunctionOnSet(f, S) \in Nat
        /\ SumFunctionOnSet(g, S \cup {c}) =
             SumFunctionOnSet(f, S) - (IF c \in S THEN f[c] ELSE 0) + g[c]
    <2>1. DifferAt(f, g, S, c) /\ g[c] \in Nat
      BY <1>1, <1>2, <1>3 DEF DifferAt
    <2> QED
      BY <2>1, SumChanged
  <1>6. Waiting = SumFunctionOnSet(f, S) /\ Waiting' = SumFunctionOnSet(g, S \cup {c})
    BY <1>3, <1>4 DEF SumFunction
  <1>7. c \in S => f[c] = Len(requestMap[c])
    BY <1>2
  <1>8. c \in DOMAIN requestMap <=> c \in S
    BY DEF S
  <1>9. CASE c \in S
    BY <1>3, <1>5, <1>6, <1>7, <1>8, <1>9
  <1>10. CASE c \notin S
    BY <1>3, <1>5, <1>6, <1>8, <1>10
  <1> QED
    BY <1>9, <1>10

\* Who leaves without requests takes none away.
LEMMA WaitingWithout ==
  ASSUME Accounts, NEW c, DeregisterClient(c), Backlog(c) = << >>
  PROVE  Waiting' = Waiting
  <1> DEFINE S == DOMAIN requestMap
             f == [d \in S |-> Len(requestMap[d])]
             g == [d \in S \ {c} |-> Len(requestMap'[d])]
  <1>1. IsFiniteSet(S) /\ \A d \in S : requestMap[d] \in Seq(FileSizes)
    BY FS_Subset DEF Accounts
  <1>2. \A d \in S : f[d] = Len(requestMap[d]) /\ f[d] \in Nat
    BY <1>1, LenProperties
  <1>3. requestMap' = [d \in S \ {c} |-> requestMap[d]] /\ DOMAIN requestMap' = S \ {c}
    BY DEF DeregisterClient
  <1>4. DOMAIN f = S /\ DOMAIN g = S \ {c} /\ \A d \in S \ {c} : g[d] = f[d]
    BY <1>3
  <1>5. Waiting = SumFunction(f) /\ Waiting' = SumFunction(g)
    BY <1>3 DEF Waiting
  <1>6. c \in S => f[c] = 0
    BY <1>2, EmptySeq DEF Backlog
  <1> HIDE DEF S, f, g
  <1>7. SumFunctionOnSet(g, S \ {c}) = SumFunctionOnSet(f, S) - (IF c \in S THEN f[c] ELSE 0)
    <2>1. DifferAt(f, g, S, c)
      BY <1>1, <1>2, <1>4 DEF DifferAt
    <2> QED
      BY <2>1, SumRemoved
  <1>8. SumFunctionOnSet(f, S) \in Nat
    BY <1>1, <1>2, SumSplit
  <1>9. (IF c \in S THEN f[c] ELSE 0) = 0
    BY <1>6
  <1>10. SumFunctionOnSet(g, S \ {c}) = SumFunctionOnSet(f, S)
    BY <1>7, <1>8, <1>9
  <1> QED
    BY <1>4, <1>5, <1>10 DEF SumFunction

\* A worker that takes a request lowers requestCount by what it takes.
LEMMA WaitingTaken ==
  ASSUME Accounts, NEW w, NEW c, Take(w, c), Backlog(c) # << >>
  PROVE  Waiting \in Nat /\ Waiting' = Waiting - 1
  <1>1. /\ c \in DOMAIN requestMap
        /\ Len(requestMap[c]) \in Nat \ {0}
        /\ Len(Tail(requestMap[c])) = Len(requestMap[c]) - 1
        /\ requestMap' = [requestMap EXCEPT ![c] = Tail(requestMap[c])]
        /\ DOMAIN requestMap' = DOMAIN requestMap
    BY TakenRequest
  <1>2. /\ DOMAIN requestMap' = DOMAIN requestMap \cup {c}
        /\ \A d \in DOMAIN requestMap : d # c => requestMap'[d] = requestMap[d]
        /\ requestMap'[c] = Tail(requestMap[c])
    BY <1>1
  <1>3. Len(requestMap'[c]) = Len(requestMap[c]) - 1 /\ Len(requestMap'[c]) \in Nat
    BY <1>1, <1>2
  <1>4. /\ Waiting \in Nat
        /\ Waiting' = Waiting - Len(requestMap[c]) + Len(requestMap'[c])
    BY <1>1, <1>2, <1>3, WaitingChanged
  <1> QED
    BY <1>1, <1>3, <1>4

\* enqueue raises requestCount by what it adds.
LEMMA WaitingAdded ==
  ASSUME Accounts, NEW c \in Clients, NEW fileSize \in FileSizes, Enqueue(c, fileSize)
  PROVE  Waiting \in Nat /\ Waiting' = Waiting + 1
  <1>1. /\ DOMAIN requestMap' = DOMAIN requestMap \cup {c}
        /\ \A d \in DOMAIN requestMap : d # c => requestMap'[d] = requestMap[d]
        /\ requestMap'[c] = Append(Backlog(c), fileSize)
    BY DEF Enqueue
  <1>2. Len(requestMap'[c]) = Len(Backlog(c)) + 1 /\ Len(Backlog(c)) \in Nat
    BY <1>1, EnqueueBacklogs DEF Backlog
  <1>3. Len(Backlog(c)) = IF c \in DOMAIN requestMap THEN Len(requestMap[c]) ELSE 0
    BY DEF Backlog
  <1>4. /\ Waiting \in Nat
        /\ Waiting' = Waiting - Len(Backlog(c)) + Len(requestMap'[c])
    BY <1>1, <1>2, <1>3, WaitingChanged
  <1> QED
    BY <1>2, <1>4

\* Every step keeps NothingLeft.
LEMMA NothingLeftKept ==
  SchedInv /\ Accounts /\ Orders /\ Lists /\ Standing /\ NothingLeft /\ [Next]_vars => NothingLeft'
  <1> SUFFICES ASSUME SchedInv, Accounts, Orders, Lists, Standing, NothingLeft, [Next]_vars,
                      Departures # "any"
               PROVE  /\ requestCount' = Waiting'
                      /\ Strategy = "CREDIT" =>
                           ToSet(underQueue') \cup ToSet(overQueue') \subseteq Registered'
    BY DEF NothingLeft, Waiting
  <1>1. /\ requestCount = Waiting
        /\ Strategy = "CREDIT" => ToSet(underQueue) \cup ToSet(overQueue) \subseteq Registered
        /\ requestCount \in Nat
    BY DEF NothingLeft, Waiting, SchedInv, SchedType
  <1>2. CASE Unmoved
    BY <1>1, <1>2 DEF Unmoved, creditVars, mapVars, Waiting, Registered
  <1>3. ASSUME NEW c \in Clients, NEW priority \in Priorities, RegisterClient(c, priority)
        PROVE  /\ requestCount' = Waiting'
               /\ Strategy = "CREDIT" =>
                    ToSet(underQueue') \cup ToSet(overQueue') \subseteq Registered'
    <2>1. UNCHANGED <<underQueue, overQueue, requestMap, requestCount>>
          /\ Registered' = Registered \cup {c}
      BY <1>3 DEF RegisterClient, Registered, mapVars
    <2> QED
      BY <1>1, <2>1 DEF Waiting
  <1>4. ASSUME NEW c \in Clients, DeregisterClient(c)
        PROVE  /\ requestCount' = Waiting'
               /\ Strategy = "CREDIT" =>
                    ToSet(underQueue') \cup ToSet(overQueue') \subseteq Registered'
    <2>1. /\ UNCHANGED <<underQueue, overQueue, requestCount>>
          /\ Registered' = Registered \ {c} /\ c \in Registered
          /\ Backlog(c) = << >>
      BY <1>4 DEF DeregisterClient, MayDepart, Registered
    <2>2. Strategy = "CREDIT" => c \notin ToSet(underQueue) /\ c \notin ToSet(overQueue)
      BY <2>1 DEF Standing, Lists, ListOf
    <2>3. Waiting' = Waiting
      BY <1>4, <2>1, WaitingWithout
    <2> QED
      BY <1>1, <2>1, <2>2, <2>3
  <1>5. ASSUME NEW c \in Clients, NEW fileSize \in FileSizes, Enqueue(c, fileSize)
        PROVE  /\ requestCount' = Waiting'
               /\ Strategy = "CREDIT" =>
                    ToSet(underQueue') \cup ToSet(overQueue') \subseteq Registered'
    <2>1. c \in Registered /\ CreditEnqueue(c) /\ requestCount' = requestCount + 1
      BY <1>5 DEF Enqueue
    <2>2. Registered' = Registered
      BY <2>1, EnqueueRecords
    <2>3. ToSet(underQueue') \subseteq ToSet(underQueue) \cup {c}
          /\ ToSet(overQueue') \subseteq ToSet(overQueue) \cup {c}
      <3>1. underQueue \in Seq(Clients) /\ overQueue \in Seq(Clients)
        BY DEF Lists, ListOf
      <3>2. /\ ToSet(Append(underQueue, c)) = ToSet(underQueue) \cup {c}
            /\ ToSet(Append(overQueue, c)) = ToSet(overQueue) \cup {c}
        BY <3>1, Pushed
      <3> QED
        BY <2>1, <3>2 DEF CreditEnqueue
    <2>4. Waiting' = Waiting + 1
      BY <1>5, WaitingAdded
    <2> QED
      BY <1>1, <2>1, <2>2, <2>3, <2>4
  <1>6. ASSUME NEW w, NEW c, Take(w, c), Backlog(c) # << >> PROVE requestCount' = Waiting'
    <2>1. requestCount' = requestCount - 1
      BY <1>6, TakenRequest
    <2>2. Waiting' = Waiting - 1
      BY <1>6, WaitingTaken
    <2> QED
      BY <1>1, <2>1, <2>2
  <1>7. ASSUME NEW w \in Workers, NEW i, TakeInTurn(w, i)
        PROVE  requestCount' = Waiting' /\ Strategy # "CREDIT"
    BY <1>6, <1>7, TakenInTurn DEF TakeInTurn
  <1>8. ASSUME NEW w \in Workers, NEW c, TakeByCredit(w, c)
        PROVE  /\ requestCount' = Waiting'
               /\ ToSet(underQueue') \cup ToSet(overQueue') \subseteq Registered'
    <2> DEFINE size == Head(requestMap[c])
    <2>1. /\ Take(w, c) /\ Backlog(c) # << >> /\ c \in Registered /\ Strategy = "CREDIT"
          /\ CreditSchedule(c, size)
      BY <1>8 DEF TakeByCredit
    <2>2. size \in FileSizes
      BY <2>1, TakenRequest
    <2> HIDE DEF size
    <2>3. Registered' = Registered
      BY <2>1, <2>2, ScheduleRecords
    <2>4. /\ underQueue' = Requeue(underQueue, c, OfType(c, size, "UNDER"))
          /\ overQueue' = Requeue(overQueue, c, OfType(c, size, "OVER"))
          /\ ListOf(underQueue, "UNDER") /\ ListOf(overQueue, "OVER")
      BY <2>1, ScheduleRequeues DEF Lists
    <2>5. ToSet(underQueue') \subseteq Registered
      BY <1>1, <2>1, <2>2, <2>4, ScheduleKeepsList
    <2>6. ToSet(overQueue') \subseteq Registered
      BY <1>1, <2>1, <2>2, <2>4, ScheduleKeepsList
    <2> QED
      BY <1>6, <2>1, <2>3, <2>5, <2>6
  <1> QED
    BY <1>2, <1>3, <1>4, <1>5, <1>7, <1>8, StepKinds

-----------------------------------------------------------------------------
(* Nothing fails *)

\* While requestCount is positive, some client has a request.
LEMMA SomebodyWaits ==
  ASSUME Accounts, NothingLeft, Departures # "any", requestCount > 0
  PROVE  \E c \in DOMAIN requestMap : requestMap[c] # << >>
  <1> DEFINE S == DOMAIN requestMap
             f == [c \in S |-> Len(requestMap[c])]
  <1>1. IsFiniteSet(S) /\ \A c \in S : requestMap[c] \in Seq(FileSizes)
    BY FS_Subset DEF Accounts
  <1>2. \A c \in S : f[c] = Len(requestMap[c]) /\ f[c] \in Nat
    BY <1>1, LenProperties
  <1>3. SumFunctionOnSet(f, S) # 0 /\ \A c \in S : f[c] \in Nat
    BY <1>2 DEF NothingLeft, SumFunction
  <1> HIDE DEF f
  <1>4. PICK c \in S : f[c] # 0
    BY <1>1, <1>3, SumPositive
  <1>5. requestMap[c] # << >>
    BY <1>2, <1>4, EmptySeq
  <1> QED
    BY <1>5

\* Credit::schedule finds a client with a request while requestCount says there
\* is one, and it is registered.
LEMMA CreditFindsRequest ==
  ASSUME SchedInv, Accounts, Orders, Lists, Standing, NothingLeft,
         Strategy = "CREDIT", Departures # "any", requestCount > 0
  PROVE  \E c : FirstInLine(c) /\ c \in Registered /\ Backlog(c) # << >>
  <1> DEFINE queue == IF underQueue # << >> THEN underQueue ELSE overQueue
  <1>1. PICK c \in Registered : Backlog(c) # << >>
    BY SomebodyWaits DEF Accounts, Backlog
  <1>2. clientCredits[c].type \in {"UNDER", "OVER"}
    BY <1>1 DEF Standing, Accounts, CreditRecord
  <1>3. c \in ToSet(underQueue) \cup ToSet(overQueue)
    BY <1>2 DEF Lists, ListOf
  <1>4. queue \in Seq(Clients) /\ queue # << >>
    BY <1>3 DEF Lists, ListOf, ToSet
  <1>5. Head(queue) \in ToSet(queue)
    BY <1>4, Popped
  <1>6. Head(queue) \in Registered /\ clientCredits[Head(queue)].type \in {"UNDER", "OVER"}
    BY <1>5 DEF NothingLeft, Lists, ListOf
  <1>7. Backlog(Head(queue)) # << >>
    BY <1>6 DEF Standing
  <1> QED
    BY <1>4, <1>6, <1>7 DEF FirstInLine

\* The scan of requestMap: where it starts, and which places it comes to.
LEMMA PlaceOf ==
  ASSUME NEW order \in Seq(Clients), NEW c \in ToSet(order)
  PROVE  /\ SelectInSeq(order, LAMBDA d : d = c) \in 1..Len(order)
         /\ order[SelectInSeq(order, LAMBDA d : d = c)] = c
  <1> DEFINE I == {i \in 1..Len(order) : order[i] = c}
  <1>1. Len(order) \in Nat /\ DOMAIN order = 1..Len(order)
    BY LenProperties
  <1>2. I # {}
    BY <1>1 DEF ToSet
  <1>3. SelectInSeq(order, LAMBDA d : d = c) = Min(I)
    BY <1>2 DEF SelectInSeq
  <1>4. Min(I) \in I
    <2>1. I \in SUBSET Nat
      BY <1>1
    <2> HIDE DEF I
    <2>2. PICK m \in I : \A n \in I : m <= n
      BY <1>2, <2>1, LeastNumber
    <2> QED
      BY <2>2 DEF Min
  <1> QED
    BY <1>3, <1>4

\* The next scan starts after the client that was served.
LEMMA AfterIs ==
  ASSUME NEW c \in ToSet(mapOrder), mapOrder \in Seq(Clients)
  PROVE  \E i \in 1..Len(mapOrder) :
           /\ mapOrder[i] = c
           /\ After(c) = IF i = Len(mapOrder) THEN End ELSE mapOrder[i + 1]
  BY PlaceOf DEF After

\* scheduleRoundRobin comes to every entry of requestMap, in this order.
LEMMA ScanOrderIs ==
  ASSUME Accounts, Orders, requestMapIterator \in DOMAIN requestMap \cup {End}
  PROVE  /\ ScanOrder \in Seq(Clients) /\ ToSet(ScanOrder) = DOMAIN requestMap
         /\ requestMapIterator = End => ScanOrder = mapOrder
         /\ requestMapIterator # End =>
              \E start \in 1..Len(mapOrder) :
                /\ mapOrder[start] = requestMapIterator
                /\ ScanOrder = SubSeq(mapOrder, start, Len(mapOrder)) \o mapOrder
  <1>1. mapOrder \in Seq(Clients) /\ ToSet(mapOrder) = DOMAIN requestMap
    BY DEF Orders, OrderOf
  <1>2. CASE requestMapIterator = End
    BY <1>1, <1>2 DEF ScanOrder
  <1>3. CASE requestMapIterator # End
    <2> DEFINE start == SelectInSeq(mapOrder, LAMBDA c : c = requestMapIterator)
               first == SubSeq(mapOrder, start, Len(mapOrder))
    <2>1. start \in 1..Len(mapOrder) /\ mapOrder[start] = requestMapIterator
      BY <1>1, <1>3, PlaceOf
    <2>2. ScanOrder = first \o mapOrder
      BY <1>3 DEF ScanOrder
    <2> HIDE DEF start
    <2>3. Len(mapOrder) \in Nat /\ DOMAIN mapOrder = 1..Len(mapOrder)
      BY <1>1, LenProperties
    <2>4. /\ first \in Seq(Clients) /\ Len(first) = Len(mapOrder) - start + 1
          /\ \A i \in 1..(Len(mapOrder) - start + 1) : first[i] = mapOrder[start + i - 1]
      BY <1>1, <2>1, <2>3, SubSeqProperties
    <2>5. ToSet(first) \subseteq ToSet(mapOrder)
      <3>1. ASSUME NEW i \in 1..Len(first) PROVE first[i] \in ToSet(mapOrder)
        <4>1. start + i - 1 \in 1..Len(mapOrder)
          BY <2>1, <2>3, <2>4
        <4> QED
          BY <2>3, <2>4, <4>1 DEF ToSet
      <3>2. DOMAIN first = 1..Len(first)
        BY <2>4, LenProperties
      <3> QED
        BY <3>1, <3>2 DEF ToSet
    <2> HIDE DEF first
    <2>6. ToSet(first \o mapOrder) = ToSet(first) \cup ToSet(mapOrder)
          /\ first \o mapOrder \in Seq(Clients)
      BY <1>1, <2>4, Joined
    <2> QED
      BY <1>1, <1>3, <2>1, <2>2, <2>5, <2>6 DEF first
  <1> QED
    BY <1>2, <1>3

\* scheduleRoundRobin finds a request while requestCount says there is one.
LEMMA RoundRobinFindsRequest ==
  ASSUME Accounts, NothingLeft, Departures # "any", requestCount > 0
  PROVE  ~(\A c \in DOMAIN requestMap : requestMap[c] = << >>)
  BY SomebodyWaits

\* A handler is only asked for a legal size.
LEMMA CreateDoesNotFail ==
  ASSUME SchedInv, NEW w \in Workers, CreateHandler(w)
  PROVE  UNCHANGED <<fault, mapVars>>
  <1> DEFINE size == SelectShmSize(request[w].size)
  <1>1. size % InternalRepSize = 0
    BY LegalSize DEF SchedInv, SchedType
  <1> HIDE DEF size
  <1>2. ~(size % InternalRepSize # 0)
    BY <1>1
  <1> QED
    BY <1>2 DEF CreateHandler, size

\* The iterator is where the entry after the one that was served is.
LEMMA IteratorStays ==
  ASSUME Accounts, Orders, NEW w, NEW i, TakeInTurn(w, i)
  PROVE  requestMapIterator' \in DOMAIN requestMap' \cup {End}
  <1>1. /\ requestMapIterator \in DOMAIN requestMap \cup {End}
        /\ i \in DOMAIN ScanOrder
        /\ requestMapIterator' = After(ScanOrder[i])
    BY DEF TakeInTurn
  <1>2. mapOrder \in Seq(Clients) /\ ToSet(mapOrder) = DOMAIN requestMap
    BY DEF Orders, OrderOf
  <1>3. ScanOrder[i] \in ToSet(mapOrder)
    BY <1>1, <1>2, ScanOrderIs DEF ToSet
  <1>4. After(ScanOrder[i]) \in ToSet(mapOrder) \cup {End}
    <2>1. PICK p \in 1..Len(mapOrder) :
                 After(ScanOrder[i]) = IF p = Len(mapOrder) THEN End ELSE mapOrder[p + 1]
      BY <1>2, <1>3, AfterIs
    <2>2. Len(mapOrder) \in Nat /\ DOMAIN mapOrder = 1..Len(mapOrder)
      BY <1>2, LenProperties
    <2>3. Len(mapOrder) \in Nat
      BY <2>2
    <2>4. p # Len(mapOrder) => p + 1 \in 1..Len(mapOrder)
      BY <2>3
    <2> QED
      BY <2>1, <2>2, <2>4 DEF ToSet
  <1>5. DOMAIN requestMap' = DOMAIN requestMap
    BY TakenInTurn, TakeKeepsRequests
  <1> QED
    BY <1>1, <1>2, <1>4, <1>5

\* Every step keeps Survives.
LEMMA SurvivesKept ==
  SchedInv /\ Accounts /\ Orders /\ Lists /\ Standing /\ NothingLeft /\ Survives /\ [Next]_vars
    => Survives'
  <1> SUFFICES ASSUME SchedInv, Accounts, Orders, Lists, Standing, NothingLeft, Survives,
                      [Next]_vars
               PROVE  Survives'
    OBVIOUS
  <1>1. CASE UNCHANGED <<fault, requestMapIterator, requestMap>>
    BY <1>1 DEF Survives
  <1>2. ASSUME NEW c \in Clients, NEW priority \in Priorities, RegisterClient(c, priority)
        PROVE  Survives'
    BY <1>1, <1>2 DEF RegisterClient, mapVars
  <1>3. ASSUME NEW c \in Clients, DeregisterClient(c) PROVE Survives'
    BY <1>3 DEF DeregisterClient, MayDepart, Survives
  <1>4. ASSUME NEW c \in Clients, NEW fileSize \in FileSizes, Enqueue(c, fileSize)
        PROVE  Survives'
    BY <1>4 DEF Enqueue, IteratorAfterInsert, Survives
  <1>5. ASSUME NEW w \in Workers, Schedule(w) PROVE Survives'
    <2>1. requestCount > 0
      BY <1>5 DEF Schedule
    <2>2. CASE Strategy = "CREDIT"
      <3>1. ScheduleCredit(w)
        BY <1>5, <2>2 DEF Schedule
      <3> SUFFICES ASSUME Departures # "any" PROVE fault' = "none"
        BY <2>2 DEF Survives
      <3>2. PICK c : FirstInLine(c) /\ c \in Registered /\ Backlog(c) # << >>
        BY <2>1, <2>2, CreditFindsRequest
      <3>3. UNCHANGED fault
        BY <3>1, <3>2 DEF ScheduleCredit, FirstInLine
      <3> QED
        BY <2>2, <3>3 DEF Survives
    <2>3. CASE Strategy = "ROUND_ROBIN"
      <3>1. ScheduleRoundRobin(w) /\ UNCHANGED clientVars
        BY <1>5, <2>3 DEF Schedule
      <3> SUFFICES ASSUME Departures = "never", NodeIterators
                   PROVE  fault' = "none" /\ requestMapIterator' \in DOMAIN requestMap' \cup {End}
        BY <2>3 DEF Survives
      <3>2. requestMapIterator \in DOMAIN requestMap \cup {End} /\ fault = "none"
        BY <2>3 DEF Survives
      <3>3. ~(\A c \in DOMAIN requestMap : requestMap[c] = << >>)
        BY <2>1, RoundRobinFindsRequest
      <3>4. PICK i : TakeInTurn(w, i) /\ UNCHANGED fault
        BY <2>3, <3>1, <3>2, <3>3 DEF ScheduleRoundRobin, TakeInTurn
      <3> QED
        BY <3>2, <3>4, IteratorStays
    <2> QED
      BY <2>2, <2>3, StrategyAssumption
  <1>6. ASSUME NEW w \in Workers, CreateHandler(w) PROVE Survives'
    BY <1>1, <1>6, CreateDoesNotFail DEF mapVars
  <1>7. ASSUME NEW w \in Workers,
               WaitForRequest(w) \/ RecheckSegments(w) \/ Process(w) \/ ReleaseHandler(w)
        PROVE  Survives'
    BY <1>1, <1>7 DEF WaitForRequest, RecheckSegments, Process, ReleaseHandler, mapVars
  <1>8. ASSUME NEW w \in Workers, WakeSpuriously(w) PROVE Survives'
    BY <1>1, <1>8 DEF WakeSpuriously, mapVars
  <1>9. CASE UNCHANGED vars
    BY <1>1, <1>9 DEF vars, mapVars
  <1> QED
    BY <1>2, <1>3, <1>4, <1>5, <1>6, <1>7, <1>8, <1>9 DEF Next, RegistrationStep, WorkerStep

-----------------------------------------------------------------------------
(* No wakeup is lost *)

\* Awake as a finite set, and what adding or removing a worker does to it.
LEMMA AwakeFinite == /\ IsFiniteSet(Awake)
                     /\ Cardinality(Awake) \in Nat
                     /\ \A w \in Workers : w \notin Awake =>
                          Cardinality(Awake \cup {w}) = Cardinality(Awake) + 1
                     /\ \A w \in Awake : Cardinality(Awake \ {w}) = Cardinality(Awake) - 1
  <1>1. IsFiniteSet(Awake)
    BY WorkersAssumption, FS_Subset DEF Awake
  <1> QED
    BY <1>1, FS_CardinalityType, FS_AddElement, FS_RemoveElement

\* enqueue wakes a worker for the request it adds.
LEMMA EnqueueEnough ==
  ASSUME SchedInv, Enough, NEW c \in Clients, NEW fileSize \in FileSizes, Enqueue(c, fileSize)
  PROVE  Enough'
  <1>1. requestCount' = requestCount + 1 /\ NotifyWorker /\ UNCHANGED pc /\ requestCount \in Nat
    BY DEF Enqueue, SchedInv, SchedType
  <1>2. CASE waiting = {}
    BY <1>1, <1>2 DEF NotifyWorker, Enough
  <1>3. CASE waiting # {}
    <2>1. PICK w \in waiting : waiting' = waiting \ {w}
      BY <1>1, <1>3 DEF NotifyWorker
    <2>2. w \in Workers /\ pc[w] = "schedule" /\ w \notin Awake
      BY <2>1 DEF Enough, Awake
    <2>3. Awake' = Awake \cup {w}
      BY <1>1, <2>1, <2>2 DEF Awake
    <2>4. Cardinality(Awake') = Cardinality(Awake) + 1 /\ Cardinality(Awake) \in Nat
      BY <2>2, <2>3, AwakeFinite
    <2>5. requestCount <= Cardinality(Awake)
      BY <1>3 DEF Enough
    <2> QED
      BY <1>1, <2>1, <2>4, <2>5 DEF Enough
  <1> QED
    BY <1>2, <1>3

\* A worker that takes a request takes itself and the request.
LEMMA TakeEnough ==
  ASSUME SchedInv, Enough, NEW w \in Workers, NEW c, Schedule(w), Take(w, c)
  PROVE  Enough'
  <1>1. /\ requestCount' = requestCount - 1 /\ requestCount \in Nat
        /\ pc' = [pc EXCEPT ![w] = "allocate"]
        /\ pc[w] = "schedule" /\ w \notin waiting /\ UNCHANGED waiting
        /\ DOMAIN pc = Workers
    BY DEF Take, Schedule, SchedInv, SchedType
  <1>2. Awake' = Awake \ {w} /\ w \in Awake
    BY <1>1 DEF Awake
  <1>3. Cardinality(Awake') = Cardinality(Awake) - 1 /\ Cardinality(Awake) \in Nat
    BY <1>2, AwakeFinite
  <1>4. waiting' \subseteq {v \in Workers : pc'[v] = "schedule"}
    BY <1>1 DEF Enough
  <1>5. waiting' # {} => requestCount <= Cardinality(Awake)
    BY <1>1 DEF Enough
  <1> QED
    BY <1>1, <1>3, <1>4, <1>5 DEF Enough

\* More workers that are awake, and no more requests, do no harm.
LEMMA MoreAwake ==
  ASSUME SchedInv, Enough, requestCount' = requestCount, waiting' \subseteq waiting,
         \A v \in Workers : pc[v] = "schedule" => pc'[v] = "schedule",
         Awake \subseteq Awake'
  PROVE  Enough'
  <1>1. IsFiniteSet(Awake')
    BY WorkersAssumption, FS_Subset DEF Awake
  <1>2. Cardinality(Awake) <= Cardinality(Awake')
    BY <1>1, FS_Subset
  <1>3. /\ Cardinality(Awake) \in Nat /\ Cardinality(Awake') \in Nat
        /\ requestCount \in Nat
    BY <1>1, AwakeFinite, FS_CardinalityType DEF SchedInv, SchedType
  <1>4. waiting' # {} => requestCount <= Cardinality(Awake)
    BY DEF Enough
  <1>5. waiting' \subseteq {v \in Workers : pc'[v] = "schedule"}
    BY DEF Enough
  <1> QED
    BY <1>2, <1>3, <1>4, <1>5 DEF Enough

\* Every step keeps Enough.
LEMMA EnoughKept == SchedInv /\ Enough /\ [Next]_vars => Enough'
  <1> SUFFICES ASSUME SchedInv, Enough, [Next]_vars PROVE Enough'
    OBVIOUS
  <1>1. CASE UNCHANGED <<requestCount, waiting, pc>>
    BY <1>1, MoreAwake DEF Awake
  <1>2. ASSUME NEW c \in Clients, NEW priority \in Priorities, RegisterClient(c, priority)
        PROVE  Enough'
    BY <1>1, <1>2 DEF RegisterClient, mapVars, workerVars
  <1>3. ASSUME NEW c \in Clients, DeregisterClient(c) PROVE Enough'
    BY <1>1, <1>3 DEF DeregisterClient, workerVars
  <1>4. ASSUME NEW w \in Workers, WaitForRequest(w) PROVE Enough'
    <2>1. requestCount' = 0 /\ waiting' = waiting \cup {w} /\ pc[w] = "schedule" /\ UNCHANGED pc
      BY <1>4 DEF WaitForRequest, mapVars
    <2>2. IsFiniteSet(Awake')
      BY WorkersAssumption, FS_Subset DEF Awake
    <2>3. Cardinality(Awake') \in Nat
      BY <2>2, FS_CardinalityType
    <2>4. waiting' \subseteq {v \in Workers : pc'[v] = "schedule"}
      BY <2>1 DEF Enough
    <2> QED
      BY <2>1, <2>3, <2>4 DEF Enough
  <1>5. ASSUME NEW w \in Workers, Schedule(w) PROVE Enough'
    <2>1. ASSUME NEW kind, Fail(kind) PROVE Enough'
      BY <1>1, <1>5, <2>1 DEF Fail, Schedule, mapVars
    <2>2. (\E c : Take(w, c)) \/ (\E kind : Fail(kind))
      BY <1>5 DEF Schedule, ScheduleRoundRobin, ScheduleCredit
    <2> QED
      BY <1>5, <2>1, <2>2, TakeEnough
  <1>6. ASSUME NEW w \in Workers, NEW granted, ReturnHandler(w, granted), pc[w] = "allocate",
               UNCHANGED <<requestCount, waiting>>
        PROVE  Enough'
    <2>1. \A v \in Workers : pc[v] = "schedule" => pc'[v] = "schedule"
      BY <1>6 DEF ReturnHandler, SchedInv, SchedType
    <2>2. Awake \subseteq Awake'
      BY <1>6, <2>1 DEF Awake
    <2> QED
      BY <1>6, <2>1, <2>2, MoreAwake
  <1>7. ASSUME NEW w \in Workers, CreateHandler(w) PROVE Enough'
    <2>1. CASE \E kind : Fail(kind)
      BY <1>1, <1>7, <2>1 DEF CreateHandler, Fail, mapVars
    <2>2. CASE ~(\E kind : Fail(kind))
      BY <1>6, <1>7, <2>2 DEF CreateHandler, mapVars
    <2> QED
      BY <2>1, <2>2
  <1>8. ASSUME NEW w \in Workers, RecheckSegments(w) PROVE Enough'
    <2>1. pc[w] = "allocate"
      BY <1>8 DEF RecheckSegments, Recheck, SchedInv, SchedType, Locking
    <2> QED
      BY <1>6, <1>8, <2>1 DEF RecheckSegments, mapVars
  <1>9. ASSUME NEW w \in Workers, Process(w) \/ ReleaseHandler(w) PROVE Enough'
    <2>1. /\ pc[w] # "schedule" /\ UNCHANGED <<requestCount, waiting>>
          /\ \A v \in Workers \ {w} : pc'[v] = pc[v]
      BY <1>9 DEF Process, ReleaseHandler, mapVars, SchedInv, SchedType
    <2>2. \A v \in Workers : pc[v] = "schedule" => pc'[v] = "schedule"
      BY <2>1
    <2>3. Awake \subseteq Awake'
      BY <2>1, <2>2 DEF Awake
    <2> QED
      BY <2>1, <2>2, <2>3, MoreAwake
  <1>10. ASSUME NEW w \in Workers, WakeSpuriously(w) PROVE Enough'
    <2>1. UNCHANGED <<requestCount, pc>> /\ waiting' \subseteq waiting
      BY <1>10 DEF WakeSpuriously, mapVars
    <2>2. Awake \subseteq Awake'
      BY <2>1 DEF Awake
    <2> QED
      BY <2>1, <2>2, MoreAwake
  <1>11. CASE UNCHANGED vars
    BY <1>1, <1>11 DEF vars, mapVars, workerVars
  <1> QED
    BY <1>2, <1>3, <1>4, <1>5, <1>7, <1>8, <1>9, <1>10, <1>11, EnqueueEnough
       DEF Next, RegistrationStep, WorkerStep

-----------------------------------------------------------------------------
(* The types of what is left *)

\* A request that is taken, and the count of those who are passed over.
LEMMA TakeTypes ==
  ASSUME Accounts, Others, NEW w \in Workers, NEW c, Take(w, c), Backlog(c) # << >>
  PROVE  /\ requestMapMutex' \in Workers \cup {None}
         /\ request' \in [Workers -> [client : Clients \cup {None}, size : FileSizes \cup {0}]]
         /\ bypass' \in [Clients -> [Clients -> Nat]]
  <1>1. c \in Clients /\ Head(requestMap[c]) \in FileSizes
    BY TakenRequest
  <1>2. requestMapMutex' \in Workers \cup {None}
    BY DEF Take
  <1>3. request' \in [Workers -> [client : Clients \cup {None}, size : FileSizes \cup {0}]]
    <2>1. request' = [request EXCEPT ![w] = [client |-> c, size |-> Head(requestMap[c])]]
      BY DEF Take
    <2> QED
      BY <1>1, <2>1 DEF Others
  <1>4. bypass' \in [Clients -> [Clients -> Nat]]
    <2>1. ASSUME NEW d \in Clients, NEW e \in Clients
          PROVE  Min({bypass[d][e] + 1, MaxBypass}) \in Nat /\ bypass[d][e] \in Nat
      <3>1. bypass[d][e] \in Nat /\ bypass[d][e] + 1 \in Nat /\ MaxBypass \in Nat
        BY BoundsAssumption DEF Others
      <3> QED
        BY <3>1, MinOfTwo
    <2> QED
      BY <2>1 DEF Take
  <1> QED
    BY <1>2, <1>3, <1>4

\* Every step keeps Others.
LEMMA OthersKept == Accounts /\ Orders /\ Others /\ [Next]_vars => Others'
  <1> SUFFICES ASSUME Accounts, Orders, Others, [Next]_vars PROVE Others'
    OBVIOUS
  <1>1. CASE UNCHANGED <<requestMapIterator, requestMapMutex, waiting, request, sent, fault,
                         bypass>>
    BY <1>1 DEF Others
  <1>2. ASSUME NEW c \in Clients, NEW priority \in Priorities, RegisterClient(c, priority)
        PROVE  Others'
    BY <1>1, <1>2 DEF RegisterClient, mapVars, workerVars, clientVars
  <1>3. ASSUME NEW c \in Clients, DeregisterClient(c) PROVE Others'
    BY <1>1, <1>3 DEF DeregisterClient, workerVars
  <1>4. ASSUME NEW c \in Clients, NEW fileSize \in FileSizes, Enqueue(c, fileSize) PROVE Others'
    <2>1. /\ requestMapIterator' \in {requestMapIterator, Singular}
          /\ UNCHANGED <<requestMapMutex, request, fault>>
          /\ sent' = [sent EXCEPT ![c] = @ + 1] /\ sent[c] < MaxRequests
          /\ NotifyWorker /\ bypass' = BypassAfterEnqueue(c)
      BY <1>4 DEF Enqueue, IteratorAfterInsert
    <2>2. sent' \in [Clients -> 0..MaxRequests]
      BY <2>1, BoundsAssumption DEF Others
    <2>3. waiting' \in SUBSET Workers
      BY <2>1 DEF NotifyWorker, Others
    <2>4. bypass' \in [Clients -> [Clients -> Nat]]
      BY <2>1 DEF BypassAfterEnqueue, Others
    <2> QED
      BY <2>1, <2>2, <2>3, <2>4 DEF Others
  <1>5. ASSUME NEW w \in Workers, Schedule(w) PROVE Others'
    <2>1. UNCHANGED <<waiting, sent>>
      BY <1>5 DEF Schedule, clientVars
    <2>2. /\ "undefined" \in Faults /\ "no requests to process" \in Faults
          /\ "not registered" \in Faults /\ "empty runqueue" \in Faults
      BY DEF Faults
    <2>3. ASSUME NEW kind \in Faults, Fail(kind) PROVE Others'
      BY <2>1, <2>3 DEF Fail, Others, mapVars
    <2>4. CASE Strategy = "ROUND_ROBIN"
      <3>1. ScheduleRoundRobin(w) /\ UNCHANGED clientVars
        BY <1>5, <2>4 DEF Schedule
      <3>2. ASSUME NEW i, TakeInTurn(w, i), UNCHANGED fault PROVE Others'
        <4>1. requestMapIterator' \in Clients \cup {End}
          BY <3>2, IteratorStays, TakenInTurn, TakeKeepsRequests DEF Accounts
        <4>2. /\ requestMapMutex' \in Workers \cup {None}
              /\ request' \in [Workers -> [client : Clients \cup {None}, size : FileSizes \cup {0}]]
              /\ bypass' \in [Clients -> [Clients -> Nat]]
          BY <3>2, TakenInTurn, TakeTypes
        <4> QED
          BY <2>1, <3>2, <4>1, <4>2 DEF Others
      <3>3. \/ Fail("undefined") \/ Fail("no requests to process")
            \/ \E i : TakeInTurn(w, i) /\ UNCHANGED fault
        BY <2>4, <3>1 DEF ScheduleRoundRobin, TakeInTurn
      <3> QED
        BY <2>3, <2>2, <3>2, <3>3
    <2>5. CASE Strategy = "CREDIT"
      <3>1. ScheduleCredit(w)
        BY <1>5, <2>5 DEF Schedule
      <3>2. ASSUME NEW c, Take(w, c), Backlog(c) # << >>, UNCHANGED <<requestMapIterator, fault>>
            PROVE  Others'
        BY <2>1, <3>2, TakeTypes DEF Others
      <3>3. \/ Fail("undefined") \/ Fail("not registered") \/ Fail("empty runqueue")
            \/ \E c : Take(w, c) /\ Backlog(c) # << >> /\ UNCHANGED <<requestMapIterator, fault>>
        BY <3>1 DEF ScheduleCredit
      <3> QED
        BY <2>3, <2>2, <3>2, <3>3
    <2> QED
      BY <2>4, <2>5, StrategyAssumption
  <1>6. ASSUME NEW w \in Workers, NEW granted, ReturnHandler(w, granted),
               UNCHANGED <<requestMapIterator, waiting, request, sent, fault, bypass>>
        PROVE  Others'
    BY <1>6 DEF ReturnHandler, Others
  <1>7. ASSUME NEW w \in Workers, CreateHandler(w) PROVE Others'
    <2>1. CASE Fail("size not multiple of internal segment size")
      <3>1. fault' \in Faults
        BY <2>1 DEF Fail, Faults
      <3> QED
        BY <1>7, <2>1, <3>1 DEF CreateHandler, Fail, Others, mapVars, clientVars
    <2>2. CASE ~Fail("size not multiple of internal segment size")
      BY <1>6, <1>7, <2>2 DEF CreateHandler, mapVars, clientVars
    <2> QED
      BY <2>1, <2>2
  <1>8. ASSUME NEW w \in Workers, RecheckSegments(w) PROVE Others'
    BY <1>6, <1>8 DEF RecheckSegments, mapVars, clientVars
  <1>9. ASSUME NEW w \in Workers, WaitForRequest(w) PROVE Others'
    BY <1>9 DEF WaitForRequest, Others, mapVars, clientVars
  <1>10. ASSUME NEW w \in Workers, Process(w) PROVE Others'
    BY <1>1, <1>10 DEF Process, mapVars, clientVars
  <1>11. ASSUME NEW w \in Workers, ReleaseHandler(w) PROVE Others'
    <2>1. /\ UNCHANGED <<requestMapIterator, requestMapMutex, waiting, sent, fault, bypass>>
          /\ request' = [request EXCEPT ![w] = NoRequest]
      BY <1>11 DEF ReleaseHandler, mapVars, clientVars
    <2>2. request' \in [Workers -> [client : Clients \cup {None}, size : FileSizes \cup {0}]]
      BY <2>1 DEF Others, NoRequest
    <2> QED
      BY <2>1, <2>2 DEF Others
  <1>12. ASSUME NEW w \in Workers, WakeSpuriously(w) PROVE Others'
    BY <1>12 DEF WakeSpuriously, Others, mapVars, clientVars
  <1>13. CASE UNCHANGED vars
    BY <1>1, <1>13 DEF vars, mapVars, workerVars, clientVars
  <1> QED
    BY <1>2, <1>3, <1>4, <1>5, <1>7, <1>8, <1>9, <1>10, <1>11, <1>12, <1>13
       DEF Next, RegistrationStep, WorkerStep

-----------------------------------------------------------------------------
(* Round robin *)

\* The scan comes to the client it serves before any other that has requests.
LEMMA ServedFirst ==
  ASSUME Accounts, Orders, NEW w, NEW k, TakeInTurn(w, k),
         NEW p \in 1..Len(mapOrder), mapOrder[p] = ScanOrder[k],
         NEW q \in 1..Len(mapOrder), q # p, Backlog(mapOrder[q]) # << >>,
         NEW start \in 1..Len(mapOrder), StartsAt(start)
  PROVE  Ahead(p, q, start)
  <1> DEFINE n == Len(mapOrder)
  <1>1. /\ mapOrder \in Seq(Clients) /\ Once(mapOrder)
        /\ n \in Nat /\ DOMAIN mapOrder = 1..n
    BY LenProperties DEF Orders, OrderOf
  <1>2. /\ requestMapIterator \in DOMAIN requestMap \cup {End}
        /\ k \in DOMAIN ScanOrder
        /\ \A l \in 1..(k - 1) : Backlog(ScanOrder[l]) = << >>
    BY DEF TakeInTurn, FirstBacklogged
  <1>3. \A i \in 1..n : mapOrder[i] = mapOrder[p] => i = p
    BY <1>1 DEF Once
  <1>4. CASE requestMapIterator = End
    <2>1. ScanOrder = mapOrder /\ start = 1
      BY <1>2, <1>4, ScanOrderIs DEF StartsAt
    <2>2. k \in 1..n /\ k = p
      BY <1>1, <1>2, <1>3, <2>1
    <2>3. q \notin 1..(k - 1)
      BY <1>2, <2>1
    <2> QED
      BY <1>1, <2>1, <2>2, <2>3 DEF Ahead
  <1>5. CASE requestMapIterator # End
    <2> DEFINE first == SubSeq(mapOrder, start, n)
               m == n - start + 1
    <2>1. PICK s \in 1..n : mapOrder[s] = requestMapIterator
                            /\ ScanOrder = SubSeq(mapOrder, s, n) \o mapOrder
      BY <1>2, <1>5, ScanOrderIs
    <2>2. ScanOrder = first \o mapOrder
      <3>1. s = start
        BY <1>1, <1>5, <2>1 DEF Once, StartsAt
      <3> QED
        BY <2>1, <3>1
    <2>3. /\ first \in Seq(Clients) /\ Len(first) = m /\ m \in Nat
          /\ \A i \in 1..m : first[i] = mapOrder[start + i - 1]
          /\ m = n - start + 1
      BY <1>1, SubSeqProperties
    <2> HIDE DEF first, m
    <2>4. /\ DOMAIN ScanOrder = 1..(m + n)
          /\ \A i \in 1..m : i \in 1..(m + n) /\ ScanOrder[i] = first[i]
          /\ \A i \in 1..n : m + i \in 1..(m + n) /\ ScanOrder[m + i] = mapOrder[i]
      <3>1. first \in Seq(Clients) /\ mapOrder \in Seq(Clients)
        BY <1>1, <2>3
      <3>2. Follow(first \o mapOrder, first, mapOrder)
        BY <3>1, JoinedPlaces
      <3> QED
        BY <2>2, <2>3, <3>2 DEF Follow
    <2>5. \A i \in 1..m : i \in 1..(m + n) /\ ScanOrder[i] = mapOrder[start + i - 1]
      BY <2>3, <2>4
    <2>6. \A i \in 1..n : m + i \in 1..(m + n) /\ ScanOrder[m + i] = mapOrder[i]
      BY <2>4
    <2>7. k \in 1..(m + n)
      BY <1>2, <2>4
    <2>8. k <= m => p = start + k - 1
      <3> SUFFICES ASSUME k <= m PROVE p = start + k - 1
        OBVIOUS
      <3>1. start + k - 1 \in 1..n /\ k \in 1..m
        BY <1>1, <2>3, <2>7
      <3> QED
        BY <1>3, <2>5, <3>1
    <2>9. k > m => p = k - m
      <3> SUFFICES ASSUME k > m PROVE p = k - m
        OBVIOUS
      <3>1. k - m \in 1..n /\ m + (k - m) = k
        BY <1>1, <2>3, <2>7
      <3>2. ScanOrder[k] = mapOrder[k - m]
        BY <2>6, <3>1
      <3> QED
        BY <1>3, <3>1, <3>2
    <2>10. \A l \in 1..(m + n) : Backlog(ScanOrder[l]) # << >> => l >= k
      <3> SUFFICES ASSUME NEW l \in 1..(m + n), ~(l >= k) PROVE Backlog(ScanOrder[l]) = << >>
        OBVIOUS
      <3>1. l \in 1..(k - 1)
        BY <1>1, <2>3, <2>7
      <3> QED
        BY <1>2, <3>1
    <2>11. CASE start <= q
      <3>1. q - start + 1 \in 1..m /\ start + (q - start + 1) - 1 = q
        BY <1>1, <2>3, <2>11
      <3>2. ScanOrder[q - start + 1] = mapOrder[q] /\ q - start + 1 \in 1..(m + n)
        BY <2>5, <3>1
      <3>3. q - start + 1 >= k
        BY <2>10, <3>2
      <3>4. k <= m
        BY <1>1, <2>3, <2>7, <3>1, <3>3
      <3> QED
        BY <1>1, <2>7, <2>8, <3>3, <3>4 DEF Ahead
    <2>12. CASE q < start
      <3>1. m + q >= k
        BY <2>6, <2>10
      <3> QED
        BY <1>1, <2>3, <2>7, <2>8, <2>9, <2>12, <3>1 DEF Ahead
    <2> QED
      BY <1>1, <2>11, <2>12
  <1> QED
    BY <1>4, <1>5

\* Once around: who has just been served comes last.
NextPlace(p, n) == IF p = n THEN 1 ELSE p + 1

\* If the scan comes to p before i, then after it has served p it comes to i before p,
\* and to i before everything it came to after i.
LEMMA NextRound ==
  ASSUME NEW n \in Nat, NEW p \in 1..n, NEW i \in 1..n, NEW start \in 1..n,
         Ahead(p, i, start)
  PROVE  /\ ~Ahead(i, p, start) /\ i # p
         /\ Ahead(i, p, NextPlace(p, n))
         /\ \A j \in 1..n : Ahead(i, j, start) => Ahead(i, j, NextPlace(p, n))
  BY DEF Ahead, NextPlace

\* A round robin worker takes a request: nobody is passed over out of turn.
LEMMA TakeTurns ==
  ASSUME Accounts, Orders, Others, Turns, NEW w, NEW k, TakeInTurn(w, k)
  PROVE  Turns'
  <1> DEFINE e == ScanOrder[k]
             n == Len(mapOrder)
  <1>1. /\ mapOrder \in Seq(Clients) /\ Once(mapOrder) /\ ToSet(mapOrder) = DOMAIN requestMap
        /\ n \in Nat /\ DOMAIN mapOrder = 1..n
    BY LenProperties DEF Orders, OrderOf
  <1>2. /\ requestMapIterator \in DOMAIN requestMap \cup {End} /\ k \in DOMAIN ScanOrder
        /\ Take(w, e) /\ Backlog(e) # << >>
        /\ requestMapIterator' = After(e)
        /\ UNCHANGED mapOrder
        /\ Strategy = "ROUND_ROBIN"
    BY DEF TakeInTurn, FirstBacklogged
  <1> HIDE DEF e
  <1>3. e \in ToSet(mapOrder) /\ e \in Clients
    BY <1>1, <1>2, TakenRequest
  <1>4. PICK p \in 1..n : /\ mapOrder[p] = e
                          /\ After(e) = IF p = n THEN End ELSE mapOrder[p + 1]
    BY <1>1, <1>3, AfterIs
  <1>5. \E start \in 1..n : StartsAt(start)
    <2>1. CASE requestMapIterator = End
      <3>1. n \in Nat
        BY <1>1
      <3>2. 1 \in 1..n
        BY <3>1
      <3> QED
        BY <2>1, <3>2 DEF StartsAt
    <2>2. CASE requestMapIterator # End
      BY <1>1, <1>2, <2>2 DEF StartsAt, ToSet
    <2> QED
      BY <2>1, <2>2
  <1>6. PICK start \in 1..n : StartsAt(start)
    BY <1>5
  <1> DEFINE next == NextPlace(p, n)
  <1>7. ASSUME NEW s \in 1..n, StartsAt(s)' PROVE s = next
    <2>1. CASE p = n
      BY <1>2, <1>4, <1>7, <2>1 DEF StartsAt, NextPlace
    <2>2. CASE p # n
      <3>1. n \in Nat
        BY <1>1
      <3>2. p + 1 \in 1..n
        BY <2>2, <3>1
      <3>3. mapOrder[p + 1] \in Clients
        BY <1>1, <3>2
      <3>4. mapOrder[s] = mapOrder[p + 1]
        BY <1>2, <1>4, <1>7, <2>2, <3>3, EndAssumption DEF StartsAt
      <3>5. s = p + 1
        BY <1>1, <3>2, <3>4 DEF Once
      <3> QED
        BY <2>2, <3>5 DEF NextPlace
    <2> QED
      BY <2>1, <2>2
  <1>8. ASSUME NEW i \in 1..n, i # p, Backlog(mapOrder[i]) # << >> PROVE Ahead(p, i, start)
    BY <1>4, <1>6, <1>8, ServedFirst DEF e
  <1>9. \A c \in Clients : Backlog(c) # << >> => \E i \in 1..n : mapOrder[i] = c
    BY <1>1 DEF Backlog, ToSet
  <1>10. \A c, d \in Clients :
           /\ bypass[c][d] \in Nat /\ bypass[c][d] <= 1
           /\ bypass[c][d] = 1 /\ Backlog(c) # << >> =>
                \A i, j \in 1..n : mapOrder[i] = c /\ mapOrder[j] = d => Ahead(i, j, start)
    BY <1>2, <1>6 DEF Turns, Others
  <1>11. ASSUME NEW c \in Clients, NEW d \in Clients
         PROVE  bypass'[c][d] = IF c = e THEN 0
                                ELSE IF d = e /\ Backlog(c) # << >>
                                     THEN Min({bypass[c][d] + 1, MaxBypass})
                                     ELSE bypass[c][d]
    BY <1>2 DEF Take
  <1>12. \A c : c # e => Backlog(c)' = Backlog(c)
    BY <1>2, TakeBacklogs
  <1>13. ASSUME NEW c \in Clients, c # e, Backlog(c) # << >> PROVE bypass[c][e] = 0
    <2>1. PICK i \in 1..n : mapOrder[i] = c
      BY <1>9, <1>13
    <2>2. i # p /\ Ahead(p, i, start)
      BY <1>4, <1>8, <1>13, <2>1
    <2>3. ~Ahead(i, p, start)
      BY <1>1, <2>2, NextRound
    <2>4. bypass[c][e] # 1
      BY <1>3, <1>4, <1>10, <1>13, <2>1, <2>3
    <2> QED
      BY <1>3, <1>10, <2>4
  <1>14. ASSUME NEW c \in Clients, NEW d \in Clients PROVE bypass'[c][d] <= 1
    <2>1. CASE c # e /\ d = e /\ Backlog(c) # << >>
      <3>1. bypass'[c][d] = Min({1, MaxBypass})
        BY <1>11, <1>13, <2>1
      <3> QED
        BY <3>1, BoundsAssumption, MinOfTwo
    <2>2. CASE ~(c # e /\ d = e /\ Backlog(c) # << >>)
      <3>1. bypass'[c][d] = IF c = e THEN 0 ELSE bypass[c][d]
        BY <1>11, <2>2
      <3>2. bypass[c][d] <= 1
        BY <1>10
      <3> QED
        BY <3>1, <3>2
    <2> QED
      BY <2>1, <2>2
  <1>15. ASSUME NEW c \in Clients, NEW d \in Clients, bypass'[c][d] = 1, Backlog(c)' # << >>,
                NEW i \in 1..n, NEW j \in 1..n, mapOrder[i] = c, mapOrder[j] = d
         PROVE  Ahead(i, j, next)
    <2>1. c # e /\ Backlog(c) # << >>
      <3>1. c # e
        <4>1. c = e => bypass'[c][d] = 0
          BY <1>11
        <4> QED
          BY <1>15, <4>1
      <3> QED
        BY <1>12, <1>15, <3>1
    <2>2. i # p /\ Ahead(p, i, start)
      BY <1>4, <1>8, <1>15, <2>1
    <2>3. CASE d = e
      <3>1. j = p
        BY <1>1, <1>4, <1>15, <2>3 DEF Once
      <3> QED
        BY <1>1, <2>2, <3>1, NextRound
    <2>4. CASE d # e
      <3>1. bypass[c][d] = 1
        BY <1>11, <1>15, <2>1, <2>4
      <3>2. Ahead(i, j, start)
        BY <1>10, <1>15, <2>1, <3>1
      <3> QED
        BY <1>1, <2>2, <3>2, NextRound
    <2> QED
      BY <2>3, <2>4
  <1> QED
    BY <1>2, <1>7, <1>14, <1>15 DEF Turns

\* Erasing an entry of the map leaves the others in their order.
LEMMA DeregisterTurns ==
  ASSUME Accounts, Orders, Others, Turns, NEW c \in Clients, DeregisterClient(c),
         Strategy = "ROUND_ROBIN"
  PROVE  Turns'
  <1>1. /\ mapOrder' = Without(mapOrder, c)
        /\ requestMap' = [d \in DOMAIN requestMap \ {c} |-> requestMap[d]]
        /\ UNCHANGED <<requestMapIterator, bypass>>
        /\ mapOrder \in Seq(Clients)
    BY DEF DeregisterClient, Orders, OrderOf
  <1>2. mapOrder' \in Seq(Clients) /\ \E place : Places(place, mapOrder', mapOrder)
    BY <1>1, OnlyFilters DEF Without
  <1>3. PICK place : Places(place, mapOrder', mapOrder)
    BY <1>2
  <1>4. Len(mapOrder') \in Nat /\ Len(mapOrder) \in Nat
    BY <1>1, <1>2, LenProperties
  <1>5. /\ \A i \in 1..Len(mapOrder') : /\ place[i] \in 1..Len(mapOrder)
                                        /\ mapOrder'[i] = mapOrder[place[i]]
        /\ \A i, j \in 1..Len(mapOrder') : i < j => place[i] < place[j]
    BY <1>3 DEF Places
  <1>6. ASSUME NEW i \in 1..Len(mapOrder'), NEW j \in 1..Len(mapOrder'), place[i] < place[j]
        PROVE  i < j
    <2>1. ~(j < i) /\ i # j
      BY <1>4, <1>5, <1>6
    <2> QED
      BY <1>4, <2>1
  <1>7. ASSUME NEW d \in Clients, Backlog(d)' # << >> PROVE Backlog(d) # << >>
    BY <1>1, <1>7 DEF Backlog
  <1>8. ASSUME NEW d \in Clients, NEW e \in Clients, bypass[d][e] = 1, Backlog(d) # << >>,
               NEW i \in 1..Len(mapOrder'), NEW j \in 1..Len(mapOrder'),
               NEW start \in 1..Len(mapOrder'),
               mapOrder'[i] = d, mapOrder'[j] = e, StartsAt(start)'
        PROVE  Ahead(i, j, start)
    <2>1. /\ place[i] \in 1..Len(mapOrder) /\ mapOrder[place[i]] = d
          /\ place[j] \in 1..Len(mapOrder) /\ mapOrder[place[j]] = e
          /\ place[start] \in 1..Len(mapOrder) /\ mapOrder[place[start]] = mapOrder'[start]
      BY <1>5, <1>8
    <2>2. CASE requestMapIterator = End
      <3>1. start = 1 /\ 1 \in 1..Len(mapOrder) /\ StartsAt(1)
        BY <1>1, <1>4, <1>8, <2>1, <2>2 DEF StartsAt
      <3>2. Ahead(place[i], place[j], 1)
        BY <1>8, <2>1, <3>1 DEF Turns
      <3>3. place[i] < place[j]
        BY <1>4, <2>1, <3>2 DEF Ahead
      <3> QED
        BY <1>4, <1>6, <3>1, <3>3 DEF Ahead
    <2>3. CASE requestMapIterator # End
      <3>1. StartsAt(place[start])
        BY <1>1, <1>8, <2>1, <2>3 DEF StartsAt
      <3>2. Ahead(place[i], place[j], place[start])
        BY <1>8, <2>1, <3>1 DEF Turns
      <3>3. /\ place[i] < place[j] => i < j
            /\ place[j] < place[start] => j < start
            /\ place[start] <= place[i] => start <= i
        <4>1. i < start => place[i] < place[start]
          BY <1>5
        <4> QED
          BY <1>4, <1>6, <2>1, <4>1
      <3> QED
        BY <3>2, <3>3 DEF Ahead
    <2> QED
      BY <2>2, <2>3
  <1> QED
    BY <1>1, <1>7, <1>8 DEF Turns

\* A new entry starts the count again; a client with requests that adds one
\* changes neither the order nor the count.
LEMMA EnqueueTurns ==
  ASSUME Accounts, Orders, Others, Turns, NEW c \in Clients, NEW fileSize \in FileSizes,
         Enqueue(c, fileSize), Strategy = "ROUND_ROBIN"
  PROVE  Turns'
  <1>1. /\ bypass' = BypassAfterEnqueue(c)
        /\ mapOrder' \in OrdersWith(mapOrder, c, Strategy = "ROUND_ROBIN")
        /\ IteratorAfterInsert(c)
    BY DEF Enqueue
  <1>2. CASE c \notin DOMAIN requestMap
    <2>1. bypass' = [d \in Clients |-> [e \in Clients |-> 0]]
      BY <1>1, <1>2 DEF BypassAfterEnqueue
    <2>2. \A d, e \in Clients : bypass'[d][e] = 0
      BY <2>1
    <2> QED
      BY <2>2 DEF Turns
  <1>3. CASE c \in DOMAIN requestMap
    <2>1. mapOrder' = mapOrder /\ requestMapIterator' = requestMapIterator
      BY <1>1, <1>3 DEF OrdersWith, Orders, OrderOf, IteratorAfterInsert
    <2>2. \A d : d # c => Backlog(d)' = Backlog(d)
      BY EnqueueBacklogs
    <2>3. \A d, e \in Clients :
            /\ bypass'[d][e] \in {0, bypass[d][e]}
            /\ bypass'[d][e] = 1 /\ Backlog(d)' # << >> =>
                 bypass[d][e] = 1 /\ Backlog(d) # << >>
      <3> SUFFICES ASSUME NEW d \in Clients, NEW e \in Clients
                   PROVE  /\ bypass'[d][e] \in {0, bypass[d][e]}
                          /\ bypass'[d][e] = 1 /\ Backlog(d)' # << >> =>
                               bypass[d][e] = 1 /\ Backlog(d) # << >>
        OBVIOUS
      <3>1. CASE Backlog(c) = << >>
        <4>1. bypass' = [bypass EXCEPT ![c] = [f \in Clients |-> 0]]
          BY <1>1, <1>3, <3>1 DEF BypassAfterEnqueue
        <4>2. bypass'[d][e] = IF d = c THEN 0 ELSE bypass[d][e]
          BY <4>1 DEF Others
        <4> QED
          BY <2>2, <4>2
      <3>2. CASE Backlog(c) # << >>
        <4>1. bypass' = bypass
          BY <1>1, <1>3, <3>2 DEF BypassAfterEnqueue
        <4> QED
          BY <2>2, <3>2, <4>1
      <3> QED
        BY <3>1, <3>2
    <2>4. \A d, e \in Clients : bypass'[d][e] <= 1
      <3>1. \A d, e \in Clients : bypass[d][e] <= 1
        BY DEF Turns
      <3> QED
        BY <2>3, <3>1
    <2> QED
      BY <1>1, <2>1, <2>3, <2>4 DEF Turns, StartsAt
  <1> QED
    BY <1>2, <1>3

\* Every step keeps Turns.
LEMMA TurnsKept == Accounts /\ Orders /\ Others /\ Turns /\ [Next]_vars => Turns'
  <1> SUFFICES ASSUME Accounts, Orders, Others, Turns, [Next]_vars, Strategy = "ROUND_ROBIN"
               PROVE  Turns'
    BY DEF Turns
  <1>1. CASE UNCHANGED <<bypass, mapVars>>
    BY <1>1 DEF mapVars, Turns, StartsAt, Backlog
  <1>2. ASSUME NEW c \in Clients, NEW priority \in Priorities, RegisterClient(c, priority)
        PROVE  Turns'
    BY <1>1, <1>2 DEF RegisterClient
  <1>3. CASE Unmoved
    BY <1>1, <1>3 DEF Unmoved
  <1> QED
    BY <1>2, <1>3, StepKinds, DeregisterTurns, EnqueueTurns, TakeTurns DEF TakeByCredit

-----------------------------------------------------------------------------
(* The inductive invariant *)

\* Everything the theorems about the clients rest on.
SchedulerInv ==
  /\ SchedInv /\ Accounts /\ Orders /\ Lists /\ Standing /\ NothingLeft /\ Others
  /\ Turns /\ Survives /\ Enough

\* SchedulerInv holds initially, and every step keeps it.
LEMMA SchedulerInit == Init => SchedulerInv
  <1> SUFFICES ASSUME Init PROVE SchedulerInv
    OBVIOUS
  <1>1. /\ clientCredits = << >> /\ creditOrder = << >> /\ totalCredits = 0
        /\ underQueue = << >> /\ overQueue = << >>
        /\ requestMap = << >> /\ mapOrder = << >>
        /\ requestMapIterator = IF NodeIterators THEN End ELSE Singular
        /\ requestCount = 0 /\ requestMapMutex = None /\ waiting = {}
        /\ pc = [w \in Workers |-> "schedule"]
        /\ request = [w \in Workers |-> NoRequest]
        /\ departed = {} /\ sent = [c \in Clients |-> 0] /\ fault = "none"
        /\ bypass = [c \in Clients |-> [d \in Clients |-> 0]]
    BY DEF Init
  <1>2. Registered = {} /\ DOMAIN requestMap = {} /\ IsFiniteSet({})
    BY <1>1, FS_EmptySet DEF Registered
  <1>3. << >> \in Seq(Clients) /\ Once(<< >>) /\ ToSet(<< >>) = {}
    BY DEF Once, ToSet
  <1>4. ASSUME NEW f, DOMAIN f = {} PROVE SumFunction(f) = 0
    BY <1>4, SumEmpty DEF SumFunction
  <1>5. SchedInv
    BY SchedInit
  <1>6. Accounts
    <2>1. totalCredits = SumFunction([c \in Registered |-> clientCredits[c].priority])
      BY <1>1, <1>2, <1>4
    <2> QED
      BY <1>1, <1>2, <2>1 DEF Accounts
  <1>7. Orders
    BY <1>1, <1>2, <1>3 DEF Orders, OrderOf
  <1>8. Lists
    BY <1>1, <1>2, <1>3 DEF Lists, ListOf
  <1>9. Standing
    BY <1>2 DEF Standing
  <1>10. NothingLeft
    <2>1. requestCount = SumFunction([c \in DOMAIN requestMap |-> Len(requestMap[c])])
      BY <1>1, <1>2, <1>4
    <2> QED
      BY <1>1, <1>3, <2>1 DEF NothingLeft
  <1>11. Others
    <2>1. sent \in [Clients -> 0..MaxRequests]
      BY <1>1, BoundsAssumption
    <2> QED
      BY <1>1, <2>1 DEF Others, NoRequest, Faults
  <1>12. Turns
    BY <1>1 DEF Turns
  <1>13. Survives
    BY <1>1 DEF Survives
  <1>14. Enough
    BY <1>1 DEF Enough
  <1> QED
    BY <1>5, <1>6, <1>7, <1>8, <1>9, <1>10, <1>11, <1>12, <1>13, <1>14 DEF SchedulerInv

LEMMA SchedulerInvariance == Spec => []SchedulerInv
  <1>1. SchedulerInv /\ [Next]_vars => SchedulerInv'
    BY SchedStep, AccountsKept, OrdersKept, ListsKept, StandingKept, NothingLeftKept, OthersKept,
       TurnsKept, SurvivesKept, EnoughKept
       DEF SchedulerInv
  <1> QED
    BY <1>1, SchedulerInit, PTL DEF Spec

-----------------------------------------------------------------------------
(* The theorems *)

\* The scheduler's workers keep the pool consistent: no segment is lost, given
\* to two handlers or counted wrongly, for any number of workers.
THEOREM SchedulerKeepsPool == Spec => []PoolConsistent
  <1>1. SchedInv => PoolConsistent
    BY DEF SchedInv, PoolInv
  <1> QED
    BY <1>1, SchedInvariance, PTL

\* A size that is asked for is one to all of the internal segments.
LEMMA AskedSize ==
  ASSUME NEW fileSize \in Nat, requestCount \in Nat
  PROVE  SelectShmSize(fileSize) \in Sizes
  <1> DEFINE size == SelectShmSize(fileSize)
             share == RoundUp(PoolSize \div (requestCount + NumWorkers))
             least == Min({share, RoundUp(fileSize)})
  <1>1. size \in Nat /\ size % InternalRepSize = 0 /\ size <= PoolSize
    BY LegalSize
  <1>2. share \in Nat /\ RoundUp(fileSize) \in Nat
    <2>1. PoolSize \div (requestCount + NumWorkers) \in Nat
      BY NumWorkersType, Geometry
    <2> QED
      BY <2>1, Rounded
  <1>3. least \in Nat
    BY <1>2, MinOfTwo
  <1>4. size = Max({InternalRepSize, least})
    BY DEF SelectShmSize
  <1> HIDE DEF size, least, share
  <1>5. size >= InternalRepSize
    BY <1>3, <1>4, MaxOfTwo, GeometryAssumption
  <1>6. PICK n \in Nat : size = n * InternalRepSize
    <2>1. size \div InternalRepSize \in Nat /\ size = (size \div InternalRepSize) * InternalRepSize
      BY <1>1, GeometryAssumption
    <2> QED
      BY <2>1
  <1>7. n # 0
    BY <1>5, <1>6, GeometryAssumption
  <1>8. n <= NumInternalSegments
    <2>1. n * InternalRepSize <= NumInternalSegments * InternalRepSize
      BY <1>1, <1>6, Geometry, GeometryAssumption
    <2> QED
      BY <2>1, Geometry, GeometryAssumption
  <1>9. n \in 1..NumInternalSegments
    BY <1>7, <1>8, Geometry
  <1> QED
    BY <1>6, <1>9 DEF Sizes, size

\* The scheduler's use of the pool is one that ShmManager allows: sizes that it can
\* serve, by threads that have no segments and do not wait for any already; its
\* other steps leave the pool alone.
THEOREM SchedulerUsesPool == Spec => ShmSpec
  <1>1. Init => ShmInit
    BY DEF Init
  <1>2. ASSUME SchedInv, [Next]_vars PROVE [ShmNext]_shmVars
    <2>1. ASSUME NEW w \in Workers, CreateHandler(w) PROVE ShmNext
      <3>1. request[w].size \in Nat /\ requestCount \in Nat
        <4>1. SchedType
          BY <1>2 DEF SchedInv
        <4> QED
          BY <4>1 DEF SchedType
      <3> DEFINE size == SelectShmSize(request[w].size)
      <3>2. size \in Sizes /\ size % InternalRepSize = 0
        <4> DEFINE f == request[w].size
        <4>1. f \in Nat
          BY <3>1
        <4> HIDE DEF f
        <4>2. SelectShmSize(f) \in Sizes /\ SelectShmSize(f) % InternalRepSize = 0
          BY <3>1, <4>1, AskedSize, LegalSize
        <4> QED
          BY <4>2 DEF f
      <3>3. GetShmSegment(w, size)
        BY <2>1, <3>2 DEF CreateHandler
      <3> HIDE DEF size
      <3> QED
        BY <3>2, <3>3 DEF ShmNext
    <2>2. ASSUME NEW w \in Workers, RecheckSegments(w) PROVE ShmNext
      BY <2>2 DEF RecheckSegments, ShmNext
    <2>3. ASSUME NEW w \in Workers, ReleaseHandler(w) PROVE ShmNext
      BY <2>3 DEF ReleaseHandler, ShmNext
    <2>4. ASSUME NEW w \in Workers, WakeSpuriously(w) PROVE [ShmNext]_shmVars
      BY <2>4 DEF WakeSpuriously, ShmNext
    <2>5. ASSUME NEW w \in Workers, WaitForRequest(w) \/ Schedule(w) \/ Process(w)
          PROVE  UNCHANGED shmVars
      BY <2>5 DEF WaitForRequest, Schedule, Process
    <2>6. CASE RegistrationStep
      BY <2>6 DEF RegistrationStep, RegisterClient, DeregisterClient, Enqueue, workerVars
    <2>7. CASE UNCHANGED vars
      BY <2>7 DEF vars
    <2> QED
      BY <1>2, <2>1, <2>2, <2>3, <2>4, <2>5, <2>6, <2>7 DEF Next, WorkerStep
  <1> QED
    BY <1>1, <1>2, SchedInvariance, PTL DEF Spec, ShmSpec

\* notify_one in releaseShmSegment is enough: nobody sleeps in segmentCond while
\* there is what it waits for, for any number of workers.
THEOREM SegmentsWakeTheirWaiter == Spec => []ShmSleepersJustified
  <1>1. SchedInv => ShmSleepersJustified
    BY DEF SchedInv, SchedType, Locking, ShmSleepersJustified
  <1> QED
    BY <1>1, SchedInvariance, PTL

\* Keeping the mutex while waiting for shared memory cannot lock the service up:
\* one worker at most waits, for no more than the pool has, and when that is not
\* free yet, some other worker holds segments it will release.
THEOREM WaitIsBounded == Spec => []OneWaitsForSegments
  <1>1. SchedInv => OneWaitsForSegments
    <2> SUFFICES ASSUME SchedInv, NEW w \in Workers, need[w] > 0
                 PROVE  /\ requestMapMutex = w
                        /\ need[w] <= PoolSize
                        /\ \A v \in Workers \ {w} : need[v] = 0
                        /\ (availableSize < need[w] => \E v \in Workers \ {w} : held[v] # {})
      BY DEF OneWaitsForSegments
    <2>1. pc[w] = "allocate" /\ requestMapMutex = w /\ held[w] = {} /\ need[w] <= PoolSize
      BY DEF SchedInv, SchedType, Locking
    <2>2. \A v \in Workers \ {w} : need[v] = 0
      BY <2>1 DEF SchedInv, Locking
    <2>3. ASSUME availableSize < need[w], \A v \in Workers \ {w} : held[v] = {}
          PROVE  FALSE
      <3>1. UNION {held[v] : v \in Workers} = {}
        BY <2>1, <2>3
      <3>2. availableSegments = SegmentIds
        BY <3>1 DEF SchedInv, PoolInv, PoolConsistent
      <3>3. availableSize = PoolSize
        BY <3>2, SegmentIdsFinite, Geometry DEF SchedInv, PoolInv, PoolConsistent
      <3> QED
        BY <2>1, <2>3, <3>3, Geometry DEF SchedInv, SchedType
    <2> QED
      BY <2>1, <2>2, <2>3
  <1> QED
    BY <1>1, SchedInvariance, PTL

\* Every variable keeps its type, whoever leaves and whatever the strategy: the
\* orders the maps are iterated in are orders of their keys, requestCount never
\* passes below zero (even when clients leave requests behind), and totalCredits,
\* from which leaving clients take their priority, neither.
THEOREM TypeCorrect == Spec => []TypeOK
  <1>1. SchedulerInv => TypeOK
    <2> SUFFICES ASSUME SchedulerInv PROVE TypeOK
      OBVIOUS
    <2>1. ShmTypeOK
      BY DEF SchedulerInv, SchedInv, PoolInv, PoolType, SchedType, ShmTypeOK
    <2>2. /\ Registered \subseteq Clients /\ IsFiniteSet(Registered)
          /\ \A c \in Registered : clientCredits[c] \in CreditRecord
          /\ DOMAIN requestMap \subseteq Clients
          /\ \A c \in DOMAIN requestMap : requestMap[c] \in Seq(FileSizes)
          /\ departed \in SUBSET Clients
      BY DEF SchedulerInv, Accounts
    <2>3. ASSUME NEW order, NEW S, OrderOf(order, S) PROVE IsOrderOf(order, S)
      BY <2>3, LengthOnce DEF OrderOf, IsOrderOf
    <2>4. IsOrderOf(creditOrder, Registered) /\ IsOrderOf(mapOrder, DOMAIN requestMap)
      BY <2>3 DEF SchedulerInv, Orders
    <2>5. underQueue \in Seq(Clients) /\ overQueue \in Seq(Clients)
      BY DEF SchedulerInv, Lists, ListOf
    <2>6. totalCredits \in Nat
      <3> DEFINE f == [c \in Registered |-> clientCredits[c].priority]
      <3>1. DOMAIN f = Registered /\ \A c \in Registered : f[c] \in Nat
        BY <2>2, CreditAssumption DEF CreditRecord
      <3>2. totalCredits = SumFunction(f)
        BY DEF SchedulerInv, Accounts
      <3> HIDE DEF f
      <3> QED
        BY <2>2, <3>1, <3>2, SumSplit DEF SumFunction
    <2>7. /\ requestCount \in Nat
          /\ pc \in [Workers -> {"schedule", "allocate", "process", "answered"}]
      BY DEF SchedulerInv, SchedInv, SchedType
    <2>8. Others
      BY DEF SchedulerInv
    <2> QED
      BY <2>1, <2>2, <2>4, <2>5, <2>6, <2>7, <2>8 DEF TypeOK, Others, CreditRecord
  <1> QED
    BY <1>1, SchedulerInvariance, PTL

\* No notify_one in enqueue is lost: while workers sleep in requestMapCond, as
\* many others as there are requests are on their way to look for one.
THEOREM WorkersStayAwake == Spec => []WorkersAwake
  <1>1. SchedulerInv => WorkersAwake
    BY DEF SchedulerInv, Enough, Awake, WorkersAwake
  <1> QED
    BY <1>1, SchedulerInvariance, PTL

\* requestCount counts the requests of the map and totalCredits the priorities
\* of who is registered, as long as nobody leaves requests behind.
THEOREM CountersStayRight ==
  ASSUME Departures # "any"
  PROVE  Spec => []CountersMatch
  <1>1. SchedulerInv => CountersMatch
    BY DEF SchedulerInv, Accounts, NothingLeft, CountersMatch
  <1> QED
    BY <1>1, SchedulerInvariance, PTL

\* The credit strategy's lists agree with its clients and their requests, as
\* long as nobody leaves requests behind.
THEOREM ListsStayRight ==
  ASSUME Strategy = "CREDIT", Departures # "any"
  PROVE  Spec => []ListsMatch
  <1>1. SchedulerInv => ListsMatch
    <2> SUFFICES ASSUME SchedulerInv PROVE ListsMatch
      OBVIOUS
    <2> DEFINE Times(queue, c) == Cardinality({i \in DOMAIN queue : queue[i] = c})
    <2>1. ASSUME NEW queue \in Seq(Clients), Once(queue), NEW c
          PROVE  Times(queue, c) = IF c \in ToSet(queue) THEN 1 ELSE 0
      <3>1. CASE c \in ToSet(queue)
        <4>1. PICK i \in DOMAIN queue : queue[i] = c
          BY <3>1 DEF ToSet
        <4>2. {j \in DOMAIN queue : queue[j] = c} = {i}
          BY <2>1, <4>1 DEF Once
        <4> QED
          BY <3>1, <4>2, FS_Singleton
      <3>2. CASE c \notin ToSet(queue)
        <4>1. {j \in DOMAIN queue : queue[j] = c} = {}
          BY <3>2 DEF ToSet
        <4> QED
          BY <3>2, <4>1, FS_EmptySet
      <3> QED
        BY <3>1, <3>2
    <2>2. /\ underQueue \in Seq(Clients) /\ Once(underQueue)
          /\ overQueue \in Seq(Clients) /\ Once(overQueue)
          /\ \A c \in Registered : /\ clientCredits[c].type = "UNDER" <=> c \in ToSet(underQueue)
                                   /\ clientCredits[c].type = "OVER" <=> c \in ToSet(overQueue)
      BY DEF SchedulerInv, Lists, ListOf
    <2>3. ToSet(underQueue) \cup ToSet(overQueue) \subseteq Registered
      BY DEF SchedulerInv, NothingLeft
    <2>4. \A c \in Registered : clientCredits[c].type = "IDLE" <=> Backlog(c) = << >>
      BY DEF SchedulerInv, Standing
    <2>5. ASSUME NEW c \in Registered
          PROVE  /\ Times(underQueue, c) = IF clientCredits[c].type = "UNDER" THEN 1 ELSE 0
                 /\ Times(overQueue, c) = IF clientCredits[c].type = "OVER" THEN 1 ELSE 0
      BY <2>1, <2>2
    <2> QED
      BY <2>3, <2>4, <2>5 DEF ListsMatch
  <1> QED
    BY <1>1, SchedulerInvariance, PTL

\* The service does not die in the scheduler: under the credit strategy as long
\* as nobody leaves requests behind; under round robin as long as nobody leaves
\* (MCDanglingIterator shows what happens otherwise) and iterators are pointers to
\* entries, for the language leaves undefined what the code does with its iterator
\* before the first scan and after a rehash.
THEOREM SchedulerSurvives ==
  ASSUME \/ Strategy = "CREDIT" /\ Departures # "any"
         \/ Strategy = "ROUND_ROBIN" /\ Departures = "never" /\ NodeIterators
  PROVE  Spec => []NoFault
  <1>1. SchedulerInv => NoFault
    BY DEF SchedulerInv, Survives, NoFault
  <1> QED
    BY <1>1, SchedulerInvariance, PTL

\* Round robin passes nobody over twice in favour of the same other client,
\* whoever comes, goes or leaves requests behind, as long as no client is new to
\* the map.
THEOREM RoundRobinIsFair ==
  ASSUME Strategy = "ROUND_ROBIN"
  PROVE  Spec => []RoundRobinFair
  <1>1. SchedulerInv => RoundRobinFair
    BY DEF SchedulerInv, Turns, RoundRobinFair
  <1> QED
    BY <1>1, SchedulerInvariance, PTL

\* The credit strategy serves a client without credit only when no client that
\* has requests has any left, whoever comes and goes.
THEOREM CreditIsSpentFirst ==
  ASSUME Strategy = "CREDIT"
  PROVE  Spec => UnderServedFirst
  <1>1. ASSUME SchedulerInv, [Next]_vars,
               NEW c \in Registered, Len(Backlog(c)') < Len(Backlog(c)),
               clientCredits[c].credit <= 0, c \notin departed',
               NEW d \in Registered, Backlog(d) # << >>
        PROVE  clientCredits[d].credit <= 0
    <2>1. Accounts /\ Lists /\ Standing
      BY <1>1 DEF SchedulerInv
    <2>2. \A b : Backlog(b) \in Seq(FileSizes) /\ Len(Backlog(b)) \in Nat
      BY <2>1 DEF Accounts, Backlog
    <2>3. CASE Unmoved
      BY <1>1, <2>2, <2>3 DEF Unmoved, mapVars, Backlog
    <2>4. ASSUME NEW b \in Clients, NEW priority \in Priorities, RegisterClient(b, priority)
          PROVE  FALSE
      BY <1>1, <2>2, <2>4 DEF RegisterClient, mapVars, Backlog
    <2>5. ASSUME NEW b \in Clients, DeregisterClient(b) PROVE FALSE
      <3>1. /\ requestMap' = [a \in DOMAIN requestMap \ {b} |-> requestMap[a]]
            /\ departed' = departed \cup {b}
        BY <2>5 DEF DeregisterClient
      <3>2. Backlog(c)' = Backlog(c)
        BY <1>1, <3>1 DEF Backlog
      <3> QED
        BY <1>1, <2>2, <3>2
    <2>6. ASSUME NEW b \in Clients, NEW fileSize \in FileSizes, Enqueue(b, fileSize) PROVE FALSE
      <3>1. Len(Backlog(c)') = Len(Backlog(c)) \/ Len(Backlog(c)') = Len(Backlog(c)) + 1
        BY <2>1, <2>6, EnqueueBacklogs
      <3> QED
        BY <1>1, <2>2, <3>1
    <2>7. ASSUME NEW w \in Workers, NEW b, TakeByCredit(w, b)
          PROVE  clientCredits[d].credit <= 0
      <3>1. Take(w, b) /\ Backlog(b) # << >> /\ FirstInLine(b) /\ b \in Registered
        BY <2>7 DEF TakeByCredit
      <3>2. b = c
        <4>1. b # c => Backlog(c)' = Backlog(c)
          BY <2>1, <3>1, TakeBacklogs
        <4> QED
          BY <1>1, <2>2, <4>1
      <3>3. /\ underQueue \in Seq(Clients)
            /\ \A a \in Registered : clientCredits[a].type = "UNDER" <=> a \in ToSet(underQueue)
        BY <2>1 DEF Lists, ListOf
      <3>4. /\ \A a \in Registered :
                 /\ clientCredits[a].type = "IDLE" <=> Backlog(a) = << >>
                 /\ clientCredits[a].type = "UNDER" => clientCredits[a].credit > 0
                 /\ clientCredits[a].type = "OVER" => clientCredits[a].credit <= 0
            /\ \A a \in Registered : clientCredits[a] \in CreditRecord
        BY <2>1 DEF Standing, Accounts
      <3>5. underQueue = << >>
        <4>1. ASSUME underQueue # << >> PROVE FALSE
          <5>1. c = Head(underQueue)
            BY <3>1, <3>2, <4>1 DEF FirstInLine
          <5>2. Head(underQueue) \in ToSet(underQueue)
            BY <3>3, <4>1, Popped
          <5>3. clientCredits[c].credit > 0 /\ clientCredits[c].credit \in Int
            BY <3>3, <3>4, <5>1, <5>2 DEF CreditRecord
          <5> QED
            BY <1>1, <5>3
        <4> QED
          BY <4>1
      <3>6. clientCredits[d].type # "UNDER"
        BY <3>3, <3>5 DEF ToSet
      <3> QED
        BY <1>1, <3>4, <3>6 DEF CreditRecord
    <2> QED
      BY <1>1, <2>3, <2>4, <2>5, <2>6, <2>7, StepKinds DEF TakeInTurn
  <1>2. SchedulerInv /\ [Next]_vars =>
          [\A c \in Registered :
             Len(Backlog(c)') < Len(Backlog(c)) /\ clientCredits[c].credit <= 0
               /\ c \notin departed' =>
               \A d \in Registered : Backlog(d) # << >> => clientCredits[d].credit <= 0]_vars
    BY <1>1
  <1> QED
    BY <1>2, SchedulerInvariance, PTL DEF Spec, UnderServedFirst
===============================================================================
