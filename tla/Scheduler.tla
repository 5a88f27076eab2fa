------------------------------- MODULE Scheduler -------------------------------
(***************************************************************************)
(* The service's Scheduler and the threads around it: the registration     *)
(* thread, which registers and deregisters clients and enqueues their      *)
(* requests, and the file compressor workers, which take the next request, *)
(* give it segments of shared memory and process it.  Both strategies are  *)
(* modelled.                                                               *)
(*                                                                         *)
(* A step is one critical section of requestMapMutex.  A worker keeps that *)
(* mutex while it waits for shared memory, so then the mutex has an owner  *)
(* between steps.  Processing a request is one step here; Transfer is what *)
(* happens inside.                                                         *)
(***************************************************************************)
EXTENDS ShmManager, Sequences, SequencesExt, FiniteSetsExt

CONSTANTS Clients,               \* ids of the clients; each is used once
          Strategy,              \* "ROUND_ROBIN" or "CREDIT" (--scheduler)
          Priorities,            \* priorities clients may register with
          FileSizes,             \* sizes of the files they send
          DefaultPriority,       \* DEFAULT_PRIORITY
          FileCreditMultiplier,  \* FILE_CREDIT_MULTIPLIER
          MaxRequests,           \* bound: requests a client sends
          MaxBypass,             \* bound: bypass is counted up to it
          Departures,            \* "never", "idle": after the last answer, or
                                 \* "any": also with requests left behind
          NodeIterators          \* TRUE: an iterator of an unordered_map is a
                                 \* pointer to an entry, or null, as libstdc++ has
                                 \* it; FALSE: it is what the standard says of it

ASSUME StrategyAssumption == Strategy \in {"ROUND_ROBIN", "CREDIT"}
ASSUME DeparturesAssumption == Departures \in {"never", "idle", "any"}
ASSUME IteratorsAssumption == NodeIterators \in BOOLEAN
ASSUME CreditAssumption == /\ Priorities \subseteq Nat \ {0}
                           /\ FileSizes \subseteq Nat
                           /\ DefaultPriority \in Nat \ {0}
                           /\ FileCreditMultiplier \in Nat \ {0}
ASSUME BoundsAssumption == MaxRequests \in Nat /\ MaxBypass \in Nat

End == "end"
Singular == "singular"
None == "none"

ASSUME WorkersAssumption == IsFiniteSet(Workers) /\ Workers # {} /\ None \notin Workers
ASSUME EndAssumption == End \notin Clients /\ Singular \notin Clients

VARIABLES
  clientCredits,       \* registered client -> its priority, credit and type
  creditOrder,         \* the order clientCredits is iterated in
  totalCredits,
  underQueue,          \* clients with credit left that have requests
  overQueue,           \* clients without
  requestMap,          \* client -> the sizes of its waiting files, in order
  mapOrder,            \* the order requestMap is iterated in
  requestMapIterator,  \* the client it points at, End, or Singular: an iterator
                       \* that must not be looked at before it is assigned
  requestCount,
  requestMapMutex,     \* the worker that keeps the mutex while it waits, or None
  waiting,             \* workers asleep in requestMapCond
  pc,                  \* where each worker is
  request,             \* the request each worker has
  departed,            \* clients that have deregistered
  sent,                \* how many requests each client has sent
  fault,               \* an uncaught exception or undefined behaviour
  bypass               \* history: see RoundRobinFair

creditVars == <<clientCredits, creditOrder, totalCredits, underQueue, overQueue>>
mapVars == <<requestMap, mapOrder, requestMapIterator, requestCount>>
workerVars == <<waiting, pc, request>>
clientVars == <<departed, sent>>
vars == <<shmVars, creditVars, mapVars, requestMapMutex, workerVars, clientVars, fault, bypass>>

\* What the service may die of.
Faults == {"none", "undefined", "no requests to process", "not registered", "empty runqueue",
           "size not multiple of internal segment size"}

NoRequest == [client |-> None, size |-> 0]
Registered == DOMAIN clientCredits

NumWorkers == Cardinality(Workers)

\* Credits are exact here, in units of 1 / (DEFAULT_PRIORITY *
\* FILE_CREDIT_MULTIPLIER * numWorkers); the code rounds them to doubles.
CreditUnit == DefaultPriority * FileCreditMultiplier * NumWorkers

\* The orders an unordered_map may have after c has been put in: libstdc++
\* decides by hash and bucket, and a rehash reorders the rest.  The order of a
\* map the strategy never iterates over does not matter.
OrdersWith(order, c, iterated) ==
  IF c \in ToSet(order) THEN {order}
  ELSE IF iterated THEN SetToSeqs(ToSet(order) \cup {c})
  ELSE {Append(order, c)}

\* The clients of S that are in a queue, in its order.
Only(queue, S) ==
  LET kept[n \in 0..Len(queue)] ==
        IF n = 0 THEN << >>
        ELSE IF queue[n] \in S THEN Append(kept[n - 1], queue[n]) ELSE kept[n - 1]
  IN  kept[Len(queue)]

Without(queue, c) == Only(queue, Clients \ {c})

\* The list a client with this much credit belongs in.
CreditType(credit) == IF credit > 0 THEN "UNDER" ELSE "OVER"

Backlog(c) == IF c \in DOMAIN requestMap THEN requestMap[c] ELSE << >>

RoundUp(n) == ((n + InternalRepSize - 1) \div InternalRepSize) * InternalRepSize

\* (Seeded fault: the size is not rounded up to internal segments.)
SelectShmSizeUnrounded(fileSize) ==
  Max({InternalRepSize, Min({PoolSize \div (requestCount + NumWorkers), RoundUp(fileSize)})})

\* selectRoundRobinShmSize and selectCreditShmSize, which are the same: an
\* equal share of the pool, but no more than the file needs.
SelectShmSize(fileSize) ==
  Max({InternalRepSize,
       Min({RoundUp(PoolSize \div (requestCount + NumWorkers)), RoundUp(fileSize)})})

Init == /\ ShmInit
        /\ clientCredits = << >> /\ creditOrder = << >> /\ totalCredits = 0
        /\ underQueue = << >> /\ overQueue = << >>
        /\ requestMap = << >> /\ mapOrder = << >>
        /\ requestMapIterator = IF NodeIterators THEN End ELSE Singular
        /\ requestCount = 0
        /\ requestMapMutex = None
        /\ waiting = {}
        /\ pc = [w \in Workers |-> "schedule"]
        /\ request = [w \in Workers |-> NoRequest]
        /\ departed = {}
        /\ sent = [c \in Clients |-> 0]
        /\ fault = "none"
        /\ bypass = [c \in Clients |-> [d \in Clients |-> 0]]

\* The process is alive and nobody keeps the mutex.
Locked == fault = "none" /\ requestMapMutex = None
-----------------------------------------------------------------------------
(* The registration thread *)

RegisterClient(c, priority) ==
  /\ Locked
  /\ c \notin Registered \cup departed
  /\ clientCredits' = [d \in Registered \cup {c} |->
       IF d = c THEN [priority |-> priority, credit |-> priority * CreditUnit, type |-> "IDLE"]
                ELSE clientCredits[d]]
  /\ creditOrder' \in OrdersWith(creditOrder, c, Strategy = "CREDIT")
  /\ totalCredits' = totalCredits + priority
  /\ UNCHANGED <<shmVars, underQueue, overQueue, mapVars, requestMapMutex, workerVars, clientVars,
                 fault, bypass>>

\* When a client may leave: never before it has all its answers, unless it
\* destroys its Servicer with requests outstanding.
MayDepart(c) ==
  \/ Departures = "any"
  \/ /\ Departures = "idle"
     /\ Backlog(c) = << >>
     /\ \A w \in Workers : pc[w] \in {"allocate", "process"} => request[w].client # c

\* (Seeded fault: the credit is subtracted instead of the priority.)
DeregisterClientByCredit(c) ==
  /\ Locked
  /\ c \in Registered
  /\ MayDepart(c)
  /\ totalCredits' = totalCredits - clientCredits[c].credit
  /\ clientCredits' = [d \in Registered \ {c} |-> clientCredits[d]]
  /\ creditOrder' = Without(creditOrder, c)
  /\ requestMap' = [d \in DOMAIN requestMap \ {c} |-> requestMap[d]]
  /\ mapOrder' = Without(mapOrder, c)
  /\ departed' = departed \cup {c}
  /\ UNCHANGED <<shmVars, underQueue, overQueue, requestMapIterator, requestCount,
                 requestMapMutex, workerVars, sent, fault, bypass>>

\* Only the client's credit and its entry of requestMap are erased: its place
\* in the credit queues, its requests in requestCount and an iterator that
\* points at the erased entry all stay.
DeregisterClient(c) ==
  /\ Locked
  /\ c \in Registered
  /\ MayDepart(c)
  /\ totalCredits' = totalCredits - clientCredits[c].priority
  /\ clientCredits' = [d \in Registered \ {c} |-> clientCredits[d]]
  /\ creditOrder' = Without(creditOrder, c)
  /\ requestMap' = [d \in DOMAIN requestMap \ {c} |-> requestMap[d]]
  /\ mapOrder' = Without(mapOrder, c)
  /\ departed' = departed \cup {c}
  /\ UNCHANGED <<shmVars, underQueue, overQueue, requestMapIterator, requestCount,
                 requestMapMutex, workerVars, sent, fault, bypass>>

\* Credit::enqueue: an idle client goes to the back of the list it belongs in.
CreditEnqueue(c) ==
  LET type == CreditType(clientCredits[c].credit) IN
  IF clientCredits[c].type = "IDLE"
  THEN /\ clientCredits' = [clientCredits EXCEPT ![c].type = type]
       /\ underQueue' = IF type = "UNDER" THEN Append(underQueue, c) ELSE underQueue
       /\ overQueue' = IF type = "OVER" THEN Append(overQueue, c) ELSE overQueue
  ELSE UNCHANGED <<clientCredits, underQueue, overQueue>>

\* (Seeded fault: a worker is woken for the first request only.)
NotifyWorkerOnce == IF waiting = {} \/ requestCount > 0
                    THEN UNCHANGED waiting
                    ELSE \E w \in waiting : waiting' = waiting \ {w}

\* requestMapCond.notify_one().
NotifyWorker == IF waiting = {} THEN UNCHANGED waiting
                                ELSE \E w \in waiting : waiting' = waiting \ {w}

\* History: a client that becomes backlogged has not been passed over yet, and
\* a new entry of requestMap starts the count again for everybody.
BypassAfterEnqueue(c) ==
  IF c \notin DOMAIN requestMap THEN [d \in Clients |-> [e \in Clients |-> 0]]
  ELSE IF Backlog(c) = << >> THEN [bypass EXCEPT ![c] = [e \in Clients |-> 0]]
  ELSE bypass

\* A rehash invalidates every iterator, by the standard.  There is one only if an
\* entry is put in, and if the others have changed their order there was one.
IteratorAfterInsert(c) ==
  \/ /\ UNCHANGED requestMapIterator
     /\ ~NodeIterators /\ c \notin DOMAIN requestMap => Without(mapOrder', c) = mapOrder
  \/ ~NodeIterators /\ c \notin DOMAIN requestMap /\ requestMapIterator' = Singular

\* enqueue, for a request that dispatch has received from c's queue.
Enqueue(c, fileSize) ==
  /\ Locked
  /\ c \in Registered
  /\ sent[c] < MaxRequests
  /\ sent' = [sent EXCEPT ![c] = @ + 1]
  /\ requestMap' = [d \in DOMAIN requestMap \cup {c} |->
                      IF d = c THEN Append(Backlog(c), fileSize) ELSE requestMap[d]]
  /\ mapOrder' \in OrdersWith(mapOrder, c, Strategy = "ROUND_ROBIN")
  /\ IteratorAfterInsert(c)
  /\ requestCount' = requestCount + 1
  /\ CreditEnqueue(c)
  /\ NotifyWorker
  /\ bypass' = BypassAfterEnqueue(c)
  /\ UNCHANGED <<shmVars, creditOrder, totalCredits, requestMapMutex, pc, request, departed,
                 fault>>
-----------------------------------------------------------------------------
(* Picking a request *)

\* (Seeded fault: requestCount is not lowered.)
TakeUncounted(w, c) ==
  /\ request' = [request EXCEPT ![w] = [client |-> c, size |-> Head(requestMap[c])]]
  /\ requestMap' = [requestMap EXCEPT ![c] = Tail(@)]
  /\ pc' = [pc EXCEPT ![w] = "allocate"]
  /\ requestMapMutex' = w
  /\ UNCHANGED <<requestCount, bypass>>

\* Worker w takes the first request of c; everybody else who has requests is
\* passed over.
Take(w, c) ==
  /\ request' = [request EXCEPT ![w] = [client |-> c, size |-> Head(requestMap[c])]]
  /\ requestMap' = [requestMap EXCEPT ![c] = Tail(@)]
  /\ requestCount' = requestCount - 1
  /\ pc' = [pc EXCEPT ![w] = "allocate"]
  /\ requestMapMutex' = w
  /\ bypass' = [d \in Clients |-> [e \in Clients |->
                  IF d = c THEN 0
                  ELSE IF e = c /\ Backlog(d) # << >> THEN Min({bypass[d][e] + 1, MaxBypass})
                  ELSE bypass[d][e]]]

\* THROW_RUNTIME_ERROR in a worker, or a step the language leaves undefined.
Fail(kind) == /\ fault' = kind
              /\ UNCHANGED <<creditVars, mapVars, requestMapMutex, pc, request, bypass>>

\* (Seeded fault: every scan starts at the beginning.)
ScanFromBegin == mapOrder

\* The entries of requestMap in the order scheduleRoundRobin looks at them:
\* from the iterator to the end, then all of them from the beginning.
ScanOrder ==
  IF requestMapIterator = End THEN mapOrder
  ELSE LET i == SelectInSeq(mapOrder, LAMBDA c : c = requestMapIterator)
       IN  SubSeq(mapOrder, i, Len(mapOrder)) \o mapOrder

\* The entry after c, or End.
After(c) == LET i == SelectInSeq(mapOrder, LAMBDA d : d = c)
            IN  IF i = Len(mapOrder) THEN End ELSE mapOrder[i + 1]

\* The client at place i of the scan is the first one with a request.
FirstBacklogged(i) == /\ Backlog(ScanOrder[i]) # << >>
                      /\ \A j \in 1..(i - 1) : Backlog(ScanOrder[j]) = << >>

\* scheduleRoundRobin, from the scan on.  A singular iterator, or one to an erased
\* entry, is undefined behaviour as soon as it is compared or dereferenced.
ScheduleRoundRobin(w) ==
  IF requestMapIterator \notin DOMAIN requestMap \cup {End} THEN Fail("undefined")
  ELSE IF \A c \in DOMAIN requestMap : requestMap[c] = << >> THEN Fail("no requests to process")
  ELSE \E i \in DOMAIN ScanOrder :
         /\ FirstBacklogged(i)
         /\ Take(w, ScanOrder[i])
         /\ requestMapIterator' = After(ScanOrder[i])
         /\ UNCHANGED <<creditVars, mapOrder, fault>>

\* The other clients' credit grows by their priority, c pays for its file.
CreditAfter(c, d, size) ==
  clientCredits[d].credit + (IF d = c THEN - size * DefaultPriority
                                      ELSE size * clientCredits[d].priority)

\* (Seeded fault: the other clients stay in the lists they are in.)
CreditScheduleOnlySelf(c, size) ==
  LET type == IF Len(requestMap[c]) > 1 THEN CreditType(CreditAfter(c, c, size)) ELSE "IDLE"
      Requeue(queue, t) == Without(queue, c) \o (IF type = t THEN <<c>> ELSE << >>)
  IN  /\ clientCredits' = [d \in Registered |->
           [clientCredits[d] EXCEPT !.credit = CreditAfter(c, d, size),
                                    !.type = IF d = c THEN type ELSE @]]
      /\ underQueue' = Requeue(underQueue, "UNDER")
      /\ overQueue' = Requeue(overQueue, "OVER")

\* (Seeded fault: a client whose last request is taken stays in the lists.)
CreditScheduleNeverIdle(c, size) ==
  LET type == [d \in Registered |->
                IF clientCredits[d].type = "IDLE" THEN "IDLE"
                ELSE CreditType(CreditAfter(c, d, size))]
      queued == Append(Without(creditOrder, c), c)
      Requeue(queue, t) == Only(queue, Clients \ Registered) \o
                           Only(queued, {d \in Registered : type[d] = t})
  IN  /\ clientCredits' = [d \in Registered |->
           [clientCredits[d] EXCEPT !.credit = CreditAfter(c, d, size), !.type = type[d]]]
      /\ underQueue' = Requeue(underQueue, "UNDER")
      /\ overQueue' = Requeue(overQueue, "OVER")

\* Credit::schedule: every other client with requests is taken out of its list
\* and put at the back of the one it now belongs in, in the order of
\* clientCredits, and c last, if it has more requests.  What does not belong
\* to a registered client keeps its place.
CreditSchedule(c, size) ==
  LET type == [d \in Registered |->
                IF (IF d = c THEN Len(requestMap[c]) = 1 ELSE clientCredits[d].type = "IDLE")
                THEN "IDLE"
                ELSE CreditType(CreditAfter(c, d, size))]
      queued == Append(Without(creditOrder, c), c)
      Requeue(queue, t) == Only(queue, Clients \ Registered) \o
                           Only(queued, {d \in Registered : type[d] = t})
  IN  /\ clientCredits' = [d \in Registered |->
           [clientCredits[d] EXCEPT !.credit = CreditAfter(c, d, size), !.type = type[d]]]
      /\ underQueue' = Requeue(underQueue, "UNDER")
      /\ overQueue' = Requeue(overQueue, "OVER")

\* scheduleCredit.  front() of an empty list is undefined behaviour.
ScheduleCredit(w) ==
  LET queue == IF underQueue # << >> THEN underQueue ELSE overQueue
      c == Head(queue)
  IN  IF queue = << >> THEN Fail("undefined")
      ELSE IF c \notin Registered THEN Fail("not registered")
      ELSE IF Backlog(c) = << >> THEN Fail("empty runqueue")
      ELSE /\ CreditSchedule(c, Head(requestMap[c]))
           /\ Take(w, c)
           /\ UNCHANGED <<creditOrder, totalCredits, mapOrder, requestMapIterator, fault>>
-----------------------------------------------------------------------------
(* A file compression worker: run() *)

\* requestMapCond.wait finds no request.
WaitForRequest(w) ==
  /\ Locked
  /\ pc[w] = "schedule" /\ w \notin waiting
  /\ requestCount = 0
  /\ waiting' = waiting \cup {w}
  /\ UNCHANGED <<shmVars, creditVars, mapVars, requestMapMutex, pc, request, clientVars, fault,
                 bypass>>

Schedule(w) ==
  /\ Locked
  /\ pc[w] = "schedule" /\ w \notin waiting
  /\ requestCount > 0
  /\ IF Strategy = "ROUND_ROBIN" THEN ScheduleRoundRobin(w) ELSE ScheduleCredit(w)
  /\ UNCHANGED <<shmVars, waiting, clientVars>>

\* (Seeded fault: the mutex is free while the worker waits for segments.)
ReturnHandlerUnlocked(w, granted) ==
  /\ requestMapMutex' = None
  /\ IF granted THEN pc' = [pc EXCEPT ![w] = "process"] ELSE UNCHANGED pc

\* schedule() returns and lets go of the mutex when the segments are there.
ReturnHandler(w, granted) ==
  IF granted THEN pc' = [pc EXCEPT ![w] = "process"] /\ requestMapMutex' = None
             ELSE UNCHANGED <<pc, requestMapMutex>>

\* createRoundRobinHandler and createCreditHandler, under requestMapMutex.
CreateHandler(w) ==
  LET size == SelectShmSize(request[w].size) IN
  /\ fault = "none"
  /\ pc[w] = "allocate" /\ need[w] = 0
  /\ IF size % InternalRepSize # 0
     THEN Fail("size not multiple of internal segment size") /\ UNCHANGED shmVars
     ELSE /\ GetShmSegment(w, size)
          /\ ReturnHandler(w, availableSize >= size)
          /\ UNCHANGED <<creditVars, mapVars, request, fault, bypass>>
  /\ UNCHANGED <<waiting, clientVars>>

\* The worker was woken in segmentCond.
RecheckSegments(w) ==
  /\ fault = "none"
  /\ Recheck(w)
  /\ ReturnHandler(w, availableSize >= need[w])
  /\ UNCHANGED <<creditVars, mapVars, waiting, request, clientVars, fault, bypass>>

\* The client has its answer, process() is about to return.
Process(w) == /\ fault = "none"
              /\ pc[w] = "process"
              /\ pc' = [pc EXCEPT ![w] = "answered"]
              /\ UNCHANGED <<shmVars, creditVars, mapVars, requestMapMutex, waiting, request,
                             clientVars, fault, bypass>>

\* The handler goes out of scope and with it its segments.
ReleaseHandler(w) ==
  /\ fault = "none"
  /\ pc[w] = "answered"
  /\ ReleaseShmSegment(w)
  /\ pc' = [pc EXCEPT ![w] = "schedule"]
  /\ request' = [request EXCEPT ![w] = NoRequest]
  /\ UNCHANGED <<creditVars, mapVars, requestMapMutex, waiting, clientVars, fault, bypass>>

\* Both condition variables may wake a worker for no reason.
WakeSpuriously(w) ==
  /\ fault = "none"
  /\ \/ /\ w \in waiting /\ waiting' = waiting \ {w}
        /\ UNCHANGED shmVars
     \/ SpuriousWakeup(w) /\ UNCHANGED waiting
  /\ UNCHANGED <<creditVars, mapVars, requestMapMutex, pc, request, clientVars, fault, bypass>>
-----------------------------------------------------------------------------
RegistrationStep == \E c \in Clients : \/ \E priority \in Priorities : RegisterClient(c, priority)
                                       \/ DeregisterClient(c)
                                       \/ \E fileSize \in FileSizes : Enqueue(c, fileSize)

WorkerStep(w) == \/ WaitForRequest(w) \/ Schedule(w) \/ CreateHandler(w) \/ RecheckSegments(w)
                 \/ Process(w) \/ ReleaseHandler(w)

Next == RegistrationStep \/ \E w \in Workers : WorkerStep(w) \/ WakeSpuriously(w)

\* The operating system schedules every worker; processing a request ends (see
\* Transfer).  Clients need not send anything.
Spec == Init /\ [][Next]_vars /\ \A w \in Workers : WF_vars(WorkerStep(w))
-----------------------------------------------------------------------------
IsOrderOf(order, S) == ToSet(order) = S /\ Len(order) = Cardinality(S)

\* Every variable has its type; the orders the maps are iterated in are orders
\* of their keys.
TypeOK ==
  /\ ShmTypeOK
  /\ Registered \subseteq Clients
  /\ \A c \in Registered :
       clientCredits[c] \in [priority : Priorities, credit : Int, type : {"IDLE", "UNDER", "OVER"}]
  /\ IsOrderOf(creditOrder, Registered)
  /\ totalCredits \in Nat
  /\ underQueue \in Seq(Clients) /\ overQueue \in Seq(Clients)
  /\ DOMAIN requestMap \subseteq Clients
  /\ \A c \in DOMAIN requestMap : requestMap[c] \in Seq(FileSizes)
  /\ IsOrderOf(mapOrder, DOMAIN requestMap)
  /\ requestMapIterator \in Clients \cup {End, Singular}
  /\ requestCount \in Nat
  /\ requestMapMutex \in Workers \cup {None}
  /\ waiting \in SUBSET Workers
  /\ pc \in [Workers -> {"schedule", "allocate", "process", "answered"}]
  /\ request \in [Workers -> [client : Clients \cup {None}, size : FileSizes \cup {0}]]
  /\ departed \in SUBSET Clients
  /\ sent \in [Clients -> 0..MaxRequests]
  /\ fault \in Faults
  /\ bypass \in [Clients -> [Clients -> Nat]]

\* The service does not die: no exception and no undefined behaviour in the
\* scheduler, and the size it asks of ShmManager is always a legal one.  Round
\* robin needs NodeIterators for it: its iterator is compared before it is
\* assigned, and used after insertions that may rehash.
NoFault == fault = "none"

\* The counter the workers wait for is the number of requests in the map, and
\* totalCredits the sum of the priorities of those who are registered.
CountersMatch ==
  /\ requestCount = SumFunction([c \in DOMAIN requestMap |-> Len(requestMap[c])])
  /\ totalCredits = SumFunction([c \in Registered |-> clientCredits[c].priority])

\* No wakeup is lost: while workers sleep in requestMapCond, each waiting
\* request has a worker of its own that is awake and about to look for it
\* (enqueue wakes one worker, and workers come back from process()).
WorkersAwake ==
  waiting # {} =>
    requestCount <= Cardinality({w \in Workers : pc[w] = "schedule" /\ w \notin waiting})

\* A worker that waits for shared memory is the only one, keeps the scheduler's
\* mutex, and waits for segments that other workers hold and will release: what
\* it needs is never more than the pool has.
OneWaitsForSegments ==
  \A w \in Workers : need[w] > 0 =>
    /\ requestMapMutex = w
    /\ need[w] <= PoolSize
    /\ \A v \in Workers \ {w} : need[v] = 0
    /\ (availableSize < need[w] => \E v \in Workers \ {w} : held[v] # {})

\* "Round-robin access" (project_instructions.md): while a client has requests
\* waiting, no other client is served twice before it, as long as no client is
\* new to the map.
RoundRobinFair == \A c, d \in Clients : bypass[c][d] <= 1

\* Every waiting request is taken at some time.
AllServed == \A c \in Clients : Backlog(c) # << >> ~> Backlog(c) = << >>

\* The credit lists agree with the requests: a client is idle exactly when it
\* has none, and otherwise stands once in the list its type names and in no
\* other; clients that are gone stand in neither (the iterator each Credit
\* keeps into the lists relies on it).
ListsMatch ==
  /\ ToSet(underQueue) \cup ToSet(overQueue) \subseteq Registered
  /\ \A c \in Registered :
       LET Times(queue) == Cardinality({i \in DOMAIN queue : queue[i] = c}) IN
       /\ Times(underQueue) = IF clientCredits[c].type = "UNDER" THEN 1 ELSE 0
       /\ Times(overQueue) = IF clientCredits[c].type = "OVER" THEN 1 ELSE 0
       /\ clientCredits[c].type = "IDLE" <=> Backlog(c) = << >>

\* A client that has used up its credit is served only when every client with
\* requests has: being served is decided by the credits as they are, not as
\* they were when the clients were put in the lists.
UnderServedFirst ==
  [][\A c \in Registered :
       Len(Backlog(c)') < Len(Backlog(c)) /\ clientCredits[c].credit <= 0 /\ c \notin departed' =>
         \A d \in Registered : Backlog(d) # << >> => clientCredits[d].credit <= 0]_vars
===============================================================================
