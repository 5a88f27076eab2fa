--------------------------- MODULE ShmManagerProofs ---------------------------
(***************************************************************************)
(* Proofs about ShmManager, for any number of threads and any geometry of  *)
(* the pool.  The bitmap and the counter are kept apart by the code; that  *)
(* they agree after every grant and release is a fact about the            *)
(* cardinalities of the sets that change hands.                            *)
(***************************************************************************)
EXTENDS ShmManager, FiniteSetTheorems, TLAPS

\* The part of the type invariant the pool's consistency rests on.
PoolType == /\ availableSegments \in SUBSET SegmentIds
            /\ availableSize \in Int
            /\ held \in [Workers -> SUBSET SegmentIds]

PoolInv == PoolType /\ PoolConsistent

-----------------------------------------------------------------------------
(* The geometry *)

\* The pool is a whole number of internal segments, and at least one.
LEMMA Geometry == /\ PoolSize \in Nat
                  /\ NumInternalSegments \in Nat
                  /\ PoolSize = InternalRepSize * NumInternalSegments
  <1>1. PICK k \in Nat : ShmSegmentSize = InternalRepSize * k
    <2>1. /\ ShmSegmentSize \div InternalRepSize \in Nat
          /\ ShmSegmentSize = InternalRepSize * (ShmSegmentSize \div InternalRepSize)
      BY GeometryAssumption
    <2> QED
      BY <2>1
  <1>2. PICK n \in Nat : PoolSize = InternalRepSize * n
    <2>1. /\ NumShmSegments * k \in Nat
          /\ PoolSize = InternalRepSize * (NumShmSegments * k)
      BY <1>1, GeometryAssumption DEF PoolSize
    <2> QED
      BY <2>1
  <1>3. NumInternalSegments = n
    <2>1. \A m \in Nat : (InternalRepSize * m) \div InternalRepSize = m
      BY GeometryAssumption
    <2> QED
      BY <1>2, <2>1 DEF NumInternalSegments
  <1>4. InternalRepSize * n \in Nat
    BY GeometryAssumption
  <1> QED
    BY <1>2, <1>3, <1>4

\* The ids of the internal segments are finitely many, as many as they should.
LEMMA SegmentIdsFinite == /\ IsFiniteSet(SegmentIds)
                          /\ Cardinality(SegmentIds) = NumInternalSegments
  <1>1. /\ NumInternalSegments - 1 \in Int
        /\ NumInternalSegments - 1 < 0 => NumInternalSegments = 0
        /\ NumInternalSegments - 1 - 0 + 1 = NumInternalSegments
    BY Geometry
  <1>2. /\ IsFiniteSet(0..(NumInternalSegments - 1))
        /\ Cardinality(0..(NumInternalSegments - 1)) =
             IF 0 > NumInternalSegments - 1 THEN 0 ELSE NumInternalSegments - 1 - 0 + 1
    BY <1>1, FS_Interval
  <1> QED
    BY <1>1, <1>2, Geometry DEF SegmentIds

\* What is cut out of a finite set of segments lowers its cardinality by as many.
LEMMA CutOut ==
  ASSUME NEW S, IsFiniteSet(S), NEW T \in SUBSET S
  PROVE  /\ IsFiniteSet(T) /\ IsFiniteSet(S \ T)
         /\ Cardinality(S) \in Nat /\ Cardinality(T) \in Nat
         /\ Cardinality(S \ T) = Cardinality(S) - Cardinality(T)
  <1>1. S \cap T = T
    OBVIOUS
  <1>2. IsFiniteSet(T)
    BY FS_Subset
  <1>3. /\ IsFiniteSet(S \ T)
        /\ Cardinality(S \ T) = Cardinality(S) - Cardinality(T)
    BY <1>1, FS_Difference
  <1>4. Cardinality(S) \in Nat /\ Cardinality(T) \in Nat
    BY <1>2, FS_CardinalityType
  <1> QED
    BY <1>2, <1>3, <1>4

-----------------------------------------------------------------------------
(* The pool *)

\* The constructor makes every segment free, and counts all of them.
LEMMA PoolInit == ShmInit => PoolInv
  <1> SUFFICES ASSUME ShmInit PROVE PoolInv
    OBVIOUS
  <1>1. availableSize = InternalRepSize * Cardinality(availableSegments)
    BY Geometry, SegmentIdsFinite DEF ShmInit
  <1>2. PoolType
    BY Geometry DEF ShmInit, PoolType
  <1> QED
    BY <1>1, <1>2 DEF ShmInit, PoolInv, PoolConsistent

\* A grant takes segments from the free ones, and their size from the counter.
LEMMA GrantKeepsPool ==
  ASSUME PoolInv, NEW w \in Workers, NEW size, held[w] = {}, Grant(w, size)
  PROVE  PoolInv'
  <1>1. PICK S \in SUBSET availableSegments :
          /\ Cardinality(S) * InternalRepSize = size
          /\ held' = [held EXCEPT ![w] = S]
          /\ availableSegments' = availableSegments \ S
          /\ availableSize' = availableSize - size
    BY DEF Grant
  <1>2. /\ Cardinality(availableSegments) \in Nat /\ Cardinality(S) \in Nat
        /\ Cardinality(availableSegments') = Cardinality(availableSegments) - Cardinality(S)
    <2>1. IsFiniteSet(availableSegments)
      BY SegmentIdsFinite, FS_Subset DEF PoolInv, PoolType
    <2> QED
      BY <1>1, <2>1, CutOut
  <1>3. /\ availableSize' \in Int
        /\ availableSize' = InternalRepSize * Cardinality(availableSegments')
    BY <1>1, <1>2, GeometryAssumption DEF PoolInv, PoolType, PoolConsistent
  <1>4. PoolType'
    BY <1>1, <1>3 DEF PoolInv, PoolType
  <1>5. SegmentIds = availableSegments' \cup UNION {held'[v] : v \in Workers}
    <2>1. \A v \in Workers : held'[v] = IF v = w THEN S ELSE held[v]
      BY <1>1 DEF PoolInv, PoolType
    <2>2. UNION {held'[v] : v \in Workers} = S \cup UNION {held[v] : v \in Workers}
      BY <2>1
    <2> QED
      BY <1>1, <2>2 DEF PoolInv, PoolConsistent
  <1>6. /\ \A v \in Workers : held'[v] \cap availableSegments' = {}
        /\ \A u, v \in Workers : u # v => held'[u] \cap held'[v] = {}
    BY <1>1 DEF PoolInv, PoolType, PoolConsistent
  <1> QED
    BY <1>3, <1>4, <1>5, <1>6 DEF PoolInv, PoolConsistent

\* A release gives back exactly what was held: no segment is counted twice.
LEMMA ReleaseKeepsPool ==
  ASSUME PoolInv, NEW w \in Workers, ReleaseShmSegment(w)
  PROVE  PoolInv'
  <1>1. /\ availableSegments' = availableSegments \cup held[w]
        /\ availableSize' = availableSize + InternalRepSize * Cardinality(held[w])
        /\ held' = [held EXCEPT ![w] = {}]
    BY DEF ReleaseShmSegment
  <1>2. /\ Cardinality(availableSegments) \in Nat /\ Cardinality(held[w]) \in Nat
        /\ Cardinality(availableSegments') = Cardinality(availableSegments) + Cardinality(held[w])
    <2>1. /\ availableSegments \subseteq SegmentIds /\ held[w] \subseteq SegmentIds
          /\ availableSegments \cap held[w] = {}
      BY DEF PoolInv, PoolType, PoolConsistent
    <2>2. IsFiniteSet(availableSegments) /\ IsFiniteSet(held[w])
      BY <2>1, SegmentIdsFinite, FS_Subset
    <2>3. Cardinality(availableSegments \cap held[w]) = 0
      BY <2>1, FS_EmptySet
    <2>4. Cardinality(availableSegments) \in Nat /\ Cardinality(held[w]) \in Nat
      BY <2>2, FS_CardinalityType
    <2>5. Cardinality(availableSegments \cup held[w]) =
            Cardinality(availableSegments) + Cardinality(held[w]) -
            Cardinality(availableSegments \cap held[w])
      BY <2>2, FS_Union
    <2> QED
      BY <1>1, <2>3, <2>4, <2>5
  <1>3. /\ availableSize' \in Int
        /\ availableSize' = InternalRepSize * Cardinality(availableSegments')
    BY <1>1, <1>2, GeometryAssumption DEF PoolInv, PoolType, PoolConsistent
  <1>4. PoolType'
    BY <1>1, <1>3 DEF PoolInv, PoolType
  <1>5. SegmentIds = availableSegments' \cup UNION {held'[v] : v \in Workers}
    <2>1. \A v \in Workers : held'[v] = IF v = w THEN {} ELSE held[v]
      BY <1>1 DEF PoolInv, PoolType
    <2>2. held[w] \cup UNION {held'[v] : v \in Workers} = UNION {held[v] : v \in Workers}
      BY <2>1
    <2> QED
      BY <1>1, <2>2 DEF PoolInv, PoolConsistent
  <1>6. /\ \A v \in Workers : held'[v] \cap availableSegments' = {}
        /\ \A u, v \in Workers : u # v => held'[u] \cap held'[v] = {}
    BY <1>1 DEF PoolInv, PoolType, PoolConsistent
  <1> QED
    BY <1>3, <1>4, <1>5, <1>6 DEF PoolInv, PoolConsistent

\* A thread that waits has nothing: it waits in getShmSegment, before it has a
\* handler.
WaitersHoldNothing == \A w \in Workers : need[w] # 0 => held[w] = {}

ShmInv == PoolInv /\ ShmTypeOK /\ WaitersHoldNothing

\* One lemma for both callers of getShmSegment's critical section: whatever the
\* size is that is asked for, the pool stays consistent.
LEMMA StepKeepsPool ==
  ASSUME PoolInv, WaitersHoldNothing, NEW w \in Workers, NEW size,
         need \in [Workers -> Nat],
         GetShmSegment(w, size) \/ Recheck(w) \/ ReleaseShmSegment(w) \/ SpuriousWakeup(w)
  PROVE  PoolInv'
  <1>1. CASE UNCHANGED <<availableSegments, availableSize, held>>
    BY <1>1 DEF PoolInv, PoolType, PoolConsistent
  <1>2. CASE GetShmSegment(w, size)
    BY <1>1, <1>2, GrantKeepsPool DEF GetShmSegment
  <1>3. CASE Recheck(w)
    <2>1. held[w] = {}
      BY <1>3 DEF Recheck, WaitersHoldNothing
    <2> QED
      BY <1>1, <1>3, <2>1, GrantKeepsPool DEF Recheck
  <1>4. CASE ReleaseShmSegment(w)
    BY <1>4, ReleaseKeepsPool
  <1>5. CASE SpuriousWakeup(w)
    BY <1>1, <1>5 DEF SpuriousWakeup
  <1> QED
    BY <1>2, <1>3, <1>4, <1>5

\* ShmInv is an inductive invariant of the pool.
LEMMA ShmInvariance == ShmSpec => []ShmInv
  <1>1. ShmInit => ShmInv
    BY PoolInit DEF ShmInit, ShmInv, PoolInv, PoolType, ShmTypeOK, WaitersHoldNothing
  <1>2. ShmInv /\ [ShmNext]_shmVars => ShmInv'
    <2> SUFFICES ASSUME ShmInv, [ShmNext]_shmVars PROVE ShmInv'
      OBVIOUS
    <2>1. CASE UNCHANGED shmVars
      BY <2>1 DEF shmVars, ShmInv, PoolInv, PoolType, PoolConsistent, ShmTypeOK,
                  WaitersHoldNothing
    <2>2. ASSUME NEW w \in Workers, NEW size \in Sizes, GetShmSegment(w, size) PROVE ShmInv'
      <3>1. PoolInv'
        BY <2>2, StepKeepsPool DEF ShmInv, ShmTypeOK
      <3>2. size \in Nat
        BY Geometry, GeometryAssumption DEF Sizes
      <3>3. need' \in [Workers -> Nat] /\ asleep' \in SUBSET Workers /\ WaitersHoldNothing'
        BY <2>2, <3>2 DEF GetShmSegment, Grant, ShmInv, ShmTypeOK, WaitersHoldNothing
      <3> QED
        BY <3>1, <3>3 DEF ShmInv, PoolInv, PoolType, ShmTypeOK
    <2>3. ASSUME NEW w \in Workers, Recheck(w) \/ ReleaseShmSegment(w) \/ SpuriousWakeup(w)
          PROVE  ShmInv'
      <3>1. PoolInv'
        BY <2>3, StepKeepsPool DEF ShmInv, ShmTypeOK
      <3>2. need' \in [Workers -> Nat] /\ asleep' \in SUBSET Workers /\ WaitersHoldNothing'
        BY <2>3 DEF Recheck, ReleaseShmSegment, SpuriousWakeup, NotifyOne, Grant, ShmInv,
                    ShmTypeOK, WaitersHoldNothing
      <3> QED
        BY <3>1, <3>2 DEF ShmInv, PoolInv, PoolType, ShmTypeOK
    <2> QED
      BY <2>1, <2>2, <2>3 DEF ShmNext
  <1> QED
    BY <1>1, <1>2, PTL DEF ShmSpec

-----------------------------------------------------------------------------
\* Every variable of the pool has its type.
THEOREM ShmTypeCorrect == ShmSpec => []ShmTypeOK
  <1>1. ShmInv => ShmTypeOK
    BY DEF ShmInv
  <1> QED
    BY <1>1, ShmInvariance, PTL

\* No segment is lost, given to two handlers, or counted wrongly, for any number
\* of threads that take and release segments (getShmSegment, releaseShmSegment).
THEOREM PoolCorrect == ShmSpec => []PoolConsistent
  <1>1. ShmInv => PoolConsistent
    BY DEF ShmInv, PoolInv
  <1> QED
    BY <1>1, ShmInvariance, PTL
===============================================================================
