------------------------------ MODULE ShmManager ------------------------------
(***************************************************************************)
(* The service's ShmManager: the pool of shared memory segments.  The      *)
(* physical segments are cut into internal segments of InternalRepSize     *)
(* bytes; a request is given as many of them as its size needs, the lowest *)
(* free ones first, and waits on segmentCond while there are too few.      *)
(*                                                                         *)
(* A step is one critical section of segmentMutex.  A thread that waits in *)
(* segmentCond is asleep; notify_one wakes one, and a woken thread checks  *)
(* its condition again before it goes on, as does one that wakes up by     *)
(* itself.                                                                 *)
(***************************************************************************)
EXTENDS Integers, FiniteSets

CONSTANTS Workers,          \* the threads that take segments
          NumShmSegments,   \* physical segments (--n_sms)
          ShmSegmentSize,   \* their size in bytes (--sms_size)
          InternalRepSize   \* bytes of an internal segment

\* The constructor cuts each physical segment into whole internal ones; it is
\* only consistent when they divide it.
ASSUME GeometryAssumption ==
  /\ NumShmSegments \in Nat \ {0}
  /\ ShmSegmentSize \in Nat \ {0}
  /\ InternalRepSize \in Nat \ {0}
  /\ ShmSegmentSize % InternalRepSize = 0

VARIABLES availableSegments,  \* ids of the internal segments that are free
          availableSize,      \* their size, kept as a counter
          held,               \* the segments each thread's handler has
          need,               \* what a thread waits for, 0 when it does not
          asleep              \* the threads asleep in segmentCond

shmVars == <<availableSegments, availableSize, held, need, asleep>>

PoolSize == NumShmSegments * ShmSegmentSize
NumInternalSegments == PoolSize \div InternalRepSize
SegmentIds == 0..(NumInternalSegments - 1)
Sizes == {n * InternalRepSize : n \in 1..NumInternalSegments}

ShmInit == /\ availableSegments = SegmentIds
           /\ availableSize = PoolSize
           /\ held = [w \in Workers |-> {}]
           /\ need = [w \in Workers |-> 0]
           /\ asleep = {}

\* (Seeded fault: the counter is not lowered.)
GrantUncounted(w, size) ==
  \E S \in SUBSET availableSegments :
    /\ Cardinality(S) * InternalRepSize = size
    /\ \A i \in S, j \in availableSegments \ S : i < j
    /\ held' = [held EXCEPT ![w] = S]
    /\ availableSegments' = availableSegments \ S
    /\ availableSize' = availableSize

\* The lowest free segments, as many as make up the size.
Grant(w, size) ==
  \E S \in SUBSET availableSegments :
    /\ Cardinality(S) * InternalRepSize = size
    /\ \A i \in S, j \in availableSegments \ S : i < j
    /\ held' = [held EXCEPT ![w] = S]
    /\ availableSegments' = availableSegments \ S
    /\ availableSize' = availableSize - size

\* getShmSegment(size), for a thread that has no segments yet; a size that is
\* no multiple of the internal one throws instead (see Scheduler).
GetShmSegment(w, size) ==
  /\ need[w] = 0 /\ held[w] = {}
  /\ IF availableSize >= size
     THEN Grant(w, size) /\ UNCHANGED <<need, asleep>>
     ELSE /\ need' = [need EXCEPT ![w] = size]
          /\ asleep' = asleep \cup {w}
          /\ UNCHANGED <<availableSegments, availableSize, held>>

\* A woken thread checks the condition of segmentCond.wait again.
Recheck(w) ==
  /\ need[w] > 0 /\ w \notin asleep
  /\ IF availableSize >= need[w]
     THEN /\ Grant(w, need[w])
          /\ need' = [need EXCEPT ![w] = 0]
          /\ UNCHANGED asleep
     ELSE /\ asleep' = asleep \cup {w}
          /\ UNCHANGED <<availableSegments, availableSize, held, need>>

\* notify_one wakes some sleeping thread, if there is one.
NotifyOne == IF asleep = {} THEN UNCHANGED asleep
                            ELSE \E w \in asleep : asleep' = asleep \ {w}

\* (Seeded fault: nobody is told that segments are free again.)
ReleaseSilently(w) ==
  /\ held[w] # {}
  /\ availableSegments' = availableSegments \cup held[w]
  /\ availableSize' = availableSize + InternalRepSize * Cardinality(held[w])
  /\ held' = [held EXCEPT ![w] = {}]
  /\ UNCHANGED <<need, asleep>>

\* ~FragmentedShmSegment and releaseShmSegment(ids).
ReleaseShmSegment(w) ==
  /\ held[w] # {}
  /\ availableSegments' = availableSegments \cup held[w]
  /\ availableSize' = availableSize + InternalRepSize * Cardinality(held[w])
  /\ held' = [held EXCEPT ![w] = {}]
  /\ NotifyOne
  /\ UNCHANGED need

SpuriousWakeup(w) == /\ w \in asleep
                     /\ asleep' = asleep \ {w}
                     /\ UNCHANGED <<availableSegments, availableSize, held, need>>

ShmNext == \E w \in Workers : \/ \E size \in Sizes : GetShmSegment(w, size)
                              \/ Recheck(w)
                              \/ ReleaseShmSegment(w)
                              \/ SpuriousWakeup(w)

ShmSpec == ShmInit /\ [][ShmNext]_shmVars
-----------------------------------------------------------------------------
ShmTypeOK == /\ availableSegments \in SUBSET SegmentIds
             /\ availableSize \in Int
             /\ held \in [Workers -> SUBSET SegmentIds]
             /\ need \in [Workers -> Nat]
             /\ asleep \in SUBSET Workers

\* The pool neither loses nor duplicates a segment: each one is free or held by
\* exactly one thread, and the counter the waits rely on is the size of the
\* free ones (getShmSegment and releaseShmSegment keep bitmap and counter
\* separately).
PoolConsistent ==
  /\ availableSize = InternalRepSize * Cardinality(availableSegments)
  /\ SegmentIds = availableSegments \cup UNION {held[w] : w \in Workers}
  /\ \A w \in Workers : held[w] \cap availableSegments = {}
  /\ \A v, w \in Workers : v # w => held[v] \cap held[w] = {}

\* No wakeup is lost: a thread that sleeps in segmentCond really has too
\* little.  notify_one is enough for that only because the callers of
\* getShmSegment hold the scheduler's mutex, so that one thread at most waits.
ShmSleepersJustified == \A w \in asleep : availableSize < need[w]
===============================================================================
