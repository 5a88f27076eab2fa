---------------------------- MODULE ServicerProofs ----------------------------
(***************************************************************************)
(* Proofs about Servicer, for every number of application threads, workers *)
(* and requests and every length of the message queues.  The argument: a   *)
(* request without an answer is at exactly one stage of its way (Apart,    *)
(* Unanswered), no queue holds one twice (Single), and so requestsInFlight *)
(* counts both the requests (Counted) and the places they take (Places).   *)
(* Every request in the map belongs to one caller (Owners), who is awake   *)
(* if the answer is there; ~Servicer runs only when nobody owns one.       *)
(***************************************************************************)
EXTENDS Servicer, CollectionLemmas

Processing == {w \in Workers : workerPc[w] = "process"}

\* The stages of a request on its way, and the requests at each of them.
Stage == {"queued", "sending", "sent", "received", "assigned", "allocating", "response",
          "process"}
Journey == [s \in Stage |->
              CASE s = "queued" -> ToSet(requestQueue)
                [] s = "sending" -> Held(sending)
                [] s = "sent" -> ToSet(clientToServer)
                [] s = "received" -> received
                [] s = "assigned" -> IdsOf(serverToClient)
                [] s = "allocating" -> {a.id : a \in Held(allocating)}
                [] s = "response" -> IdsOf(requestResponseQueue)
                [] s = "process" -> {handler[w].id : w \in Processing}]

Everywhere(journey) == UNION {journey[s] : s \in Stage}
Underway(journey) == UNION {journey[s] : s \in Stage \ {"queued"}}

\* No request is at two stages.
Apart(journey) == \A s, t \in Stage : s # t => journey[s] \cap journey[t] = {}

\* No queue holds a request twice, and no two workers have the same one.
OnceById(seq) == \A i, j \in 1..Len(seq) : seq[i].id = seq[j].id => i = j
Single == /\ Once(requestQueue) /\ Once(clientToServer)
          /\ OnceById(serverToClient) /\ OnceById(requestResponseQueue)
          /\ \A v, w \in Processing : handler[v].id = handler[w].id => v = w

\* Who holds a request: the control state of a thread says whether it does.
Holders ==
  /\ dispatcherPc = "sending" <=> sending # None
  /\ dispatcherPc = "allocate" <=> allocating # None
  /\ \A w \in Workers : workerPc[w] \in {"process", "completed", "release"} <=> handler[w] # None

\* The requests without an answer are those on their way.
Unanswered ==
  /\ \A id \in DOMAIN requestMap : id < nextRequestId
  /\ {id \in DOMAIN requestMap : ~requestMap[id]} = Everywhere(Journey)

\* requestsInFlight counts the requests underway, and the places they take.
Counted == /\ IsFiniteSet(InFlight) /\ IsFiniteSet(received)
           /\ requestsInFlight = Cardinality(InFlight)
Sent == Cardinality(Held(sending)) + Len(clientToServer) + Cardinality(received)
Waiting == Len(requestResponseQueue) + Cardinality(Held(allocating)) + Len(serverToClient)
Places == requestsInFlight = Sent + Waiting + Cardinality(Processing)

\* The requests a caller has not had the answer of.
Owned(c) == outstanding[c] \cup (IF callerPc[c] = "idle" THEN {} ELSE {waitsFor[c]})

\* Every request in the map has one owner, and no caller waits for another one.
Owners ==
  /\ DOMAIN requestMap = UNION {Owned(c) : c \in Callers}
  /\ \A c, d \in Callers : c # d => Owned(c) \cap Owned(d) = {}
  /\ \A c \in Callers : callerPc[c] # "idle" => waitsFor[c] \notin outstanding[c]

\* ~Servicer runs when there is no request left.
NoneLeft == ~Open => DOMAIN requestMap = {}

Tracked == /\ Holders /\ Apart(Journey) /\ Single /\ Unanswered /\ Counted /\ Places
           /\ Owners /\ NoneLeft

SInv == /\ TypeOK /\ OnlyAllocationThrows /\ AssignmentHasWorker /\ CallersAwake
        /\ Alive => Tracked
-----------------------------------------------------------------------------
(* Queues *)

\* The same for queues of assignments, by the requests they are for.
LEMMA PushedId ==
  ASSUME NEW seq \in Seq(Assignment), NEW a \in Assignment
  PROVE  /\ IdsOf(Append(seq, a)) = IdsOf(seq) \cup {a.id}
         /\ OnceById(seq) /\ a.id \notin IdsOf(seq) => OnceById(Append(seq, a))
  <1>1. ToSet(Append(seq, a)) = ToSet(seq) \cup {a}
    BY Pushed
  <1>2. /\ Len(Append(seq, a)) = Len(seq) + 1 /\ Len(seq) \in Nat
        /\ \A i \in 1..Len(seq) : Append(seq, a)[i] = seq[i]
        /\ Append(seq, a)[Len(seq) + 1] = a
        /\ DOMAIN seq = 1..Len(seq)
    BY AppendProperties, LenProperties
  <1>3. IdsOf(Append(seq, a)) = IdsOf(seq) \cup {a.id}
    BY <1>1 DEF IdsOf
  <1>4. ASSUME OnceById(seq), a.id \notin IdsOf(seq) PROVE OnceById(Append(seq, a))
    <2>1. \A i \in 1..Len(seq) : seq[i].id # a.id
      BY <1>2, <1>4 DEF IdsOf, ToSet
    <2> QED
      BY <1>2, <1>4, <2>1 DEF OnceById
  <1> QED
    BY <1>3, <1>4

LEMMA PoppedId ==
  ASSUME NEW seq \in Seq(Assignment), seq # << >>
  PROVE  /\ Head(seq).id \in IdsOf(seq)
         /\ OnceById(seq) => /\ IdsOf(Tail(seq)) = IdsOf(seq) \ {Head(seq).id}
                             /\ OnceById(Tail(seq))
  <1>1. /\ Tail(seq) \in Seq(Assignment) /\ Len(Tail(seq)) = Len(seq) - 1
        /\ \A i \in 1..Len(Tail(seq)) : Tail(seq)[i] = seq[i + 1]
    BY HeadTailProperties
  <1>2. Len(seq) \in Nat \ {0} /\ DOMAIN seq = 1..Len(seq) /\ Head(seq) = seq[1]
    BY LenProperties
  <1>3. DOMAIN Tail(seq) = 1..(Len(seq) - 1)
    BY <1>1, LenProperties
  <1>4. Head(seq).id \in IdsOf(seq)
    BY Popped DEF IdsOf
  <1>5. ASSUME OnceById(seq) PROVE OnceById(Tail(seq))
    <2> SUFFICES ASSUME NEW i \in 1..(Len(seq) - 1), NEW j \in 1..(Len(seq) - 1),
                        Tail(seq)[i].id = Tail(seq)[j].id
                 PROVE  i = j
      BY <1>1, <1>2 DEF OnceById
    <2>1. seq[i + 1].id = seq[j + 1].id /\ i + 1 \in 1..Len(seq) /\ j + 1 \in 1..Len(seq)
      BY <1>1, <1>2
    <2> QED
      BY <1>5, <2>1 DEF OnceById
  <1>6. ASSUME OnceById(seq) PROVE IdsOf(Tail(seq)) = IdsOf(seq) \ {Head(seq).id}
    <2>1. ASSUME NEW i \in 1..(Len(seq) - 1)
          PROVE  Tail(seq)[i].id \in IdsOf(seq) /\ Tail(seq)[i].id # Head(seq).id
      <3>1. Tail(seq)[i] = seq[i + 1] /\ i + 1 \in 1..Len(seq) /\ 1 \in 1..Len(seq) /\ i + 1 # 1
        BY <1>1, <1>2
      <3>2. seq[i + 1].id # seq[1].id
        BY <1>6, <3>1 DEF OnceById
      <3> QED
        BY <1>2, <3>1, <3>2 DEF IdsOf, ToSet
    <2>2. ASSUME NEW i \in 1..Len(seq), seq[i].id # Head(seq).id
          PROVE  seq[i].id \in IdsOf(Tail(seq))
      <3>1. i - 1 \in 1..(Len(seq) - 1) /\ seq[i] = Tail(seq)[i - 1]
        BY <1>1, <1>2, <2>2
      <3> QED
        BY <1>3, <3>1 DEF IdsOf, ToSet
    <2>3. IdsOf(Tail(seq)) = {Tail(seq)[i].id : i \in 1..(Len(seq) - 1)}
      BY <1>3 DEF IdsOf, ToSet
    <2>4. IdsOf(seq) = {seq[i].id : i \in 1..Len(seq)}
      BY <1>2 DEF IdsOf, ToSet
    <2> QED
      BY <2>1, <2>2, <2>3, <2>4
  <1> QED
    BY <1>4, <1>5, <1>6

\* An empty queue, and the sets that stand for an object or none.
LEMMA EmptyQueues ==
  /\ ToSet(<< >>) = {} /\ IdsOf(<< >>) = {} /\ Once(<< >>) /\ OnceById(<< >>) /\ Len(<< >>) = 0
  <1>1. ToSet(<< >>) = {}
    BY DEF ToSet
  <1> QED
    BY <1>1 DEF IdsOf, Once, OnceById

LEMMA HeldCount ==
  ASSUME NEW place
  PROVE  Cardinality(Held(place)) = IF place = None THEN 0 ELSE 1
  BY FS_EmptySet, FS_Singleton DEF Held
-----------------------------------------------------------------------------
(* Journeys *)

\* The stages of a journey, one by one.
LEMMA StageOf ==
  /\ Journey["queued"] = ToSet(requestQueue)
  /\ Journey["sending"] = Held(sending)
  /\ Journey["sent"] = ToSet(clientToServer)
  /\ Journey["received"] = received
  /\ Journey["assigned"] = IdsOf(serverToClient)
  /\ Journey["allocating"] = {a.id : a \in Held(allocating)}
  /\ Journey["response"] = IdsOf(requestResponseQueue)
  /\ Journey["process"] = {handler[w].id : w \in Processing}
  BY DEF Journey, Stage

LEMMA StageOfNext ==
  /\ Journey'["queued"] = ToSet(requestQueue')
  /\ Journey'["sending"] = Held(sending')
  /\ Journey'["sent"] = ToSet(clientToServer')
  /\ Journey'["received"] = received'
  /\ Journey'["assigned"] = IdsOf(serverToClient')
  /\ Journey'["allocating"] = {a.id : a \in Held(allocating')}
  /\ Journey'["response"] = IdsOf(requestResponseQueue')
  /\ Journey'["process"] = {handler'[w].id : w \in Processing'}
  BY DEF Journey, Stage, Held, IdsOf, Processing

\* A stage changes only with the variables that make it.
LEMMA StageKept ==
  /\ requestQueue' = requestQueue => Journey'["queued"] = Journey["queued"]
  /\ sending' = sending => Journey'["sending"] = Journey["sending"]
  /\ clientToServer' = clientToServer => Journey'["sent"] = Journey["sent"]
  /\ received' = received => Journey'["received"] = Journey["received"]
  /\ serverToClient' = serverToClient => Journey'["assigned"] = Journey["assigned"]
  /\ allocating' = allocating => Journey'["allocating"] = Journey["allocating"]
  /\ requestResponseQueue' = requestResponseQueue => Journey'["response"] = Journey["response"]
  /\ Processing' = Processing /\ (\A w \in Processing : handler'[w] = handler[w]) =>
       Journey'["process"] = Journey["process"]
  <1>1. ASSUME Processing' = Processing, \A w \in Processing : handler'[w] = handler[w]
        PROVE  {handler'[w].id : w \in Processing'} = {handler[w].id : w \in Processing}
    BY <1>1
  <1> QED
    BY <1>1, StageOf, StageOfNext

\* The requests underway are those in flight.
LEMMA UnderwayInFlight == InFlight = Underway(Journey)
  <1>1. Stage \ {"queued"} = {"sending", "sent", "received", "assigned", "allocating", "response",
                              "process"}
    BY DEF Stage
  <1> QED
    BY <1>1, StageOf DEF InFlight, Underway, Processing

LEMMA UnderwayInFlightNext == InFlight' = Underway(Journey')
  <1>1. Stage \ {"queued"} = {"sending", "sent", "received", "assigned", "allocating", "response",
                              "process"}
    BY DEF Stage
  <1> QED
    BY <1>1, StageOfNext DEF InFlight, Underway, Processing, Held, IdsOf

\* A request goes on from stage a to stage b, and no other does.
Goes(x, a, b, from, to) ==
  /\ a \in Stage /\ b \in Stage /\ a # b
  /\ x \in from[a]
  /\ to[a] = from[a] \ {x}
  /\ to[b] = from[b] \cup {x}
  /\ \A s \in Stage \ {a, b} : to[s] = from[s]

\* It leaves the others apart and is still somewhere.
LEMMA GoesOn ==
  ASSUME NEW from, NEW to, NEW x, NEW a, NEW b, Apart(from), Goes(x, a, b, from, to)
  PROVE  /\ Apart(to)
         /\ Everywhere(to) = Everywhere(from)
         /\ a # "queued" /\ b # "queued" => Underway(to) = Underway(from)
         /\ a = "queued" => Underway(to) = Underway(from) \cup {x} /\ x \notin Underway(from)
  <1>1. Apart(to)
    BY DEF Goes, Apart
  <1>2. Everywhere(to) = Everywhere(from)
    BY DEF Goes, Everywhere
  <1>3. a # "queued" /\ b # "queued" => Underway(to) = Underway(from)
    BY DEF Goes, Underway
  <1>4. ASSUME a = "queued"
        PROVE  Underway(to) = Underway(from) \cup {x} /\ x \notin Underway(from)
    BY <1>4 DEF Goes, Underway, Apart
  <1> QED
    BY <1>1, <1>2, <1>3, <1>4
-----------------------------------------------------------------------------
(* Types *)

\* Every variable has its type at the start.
LEMMA TypeInit == Init => TypeOK
  <1> SUFFICES ASSUME Init PROVE TypeOK
    OBVIOUS
  <1>1. requestMap \in [DOMAIN requestMap -> BOOLEAN] /\ DOMAIN requestMap = {}
    BY DEF Init
  <1> QED
    BY <1>1, ServicerAssumption DEF Init, TypeOK, Workers, Dispatcher

\* A new request gets the next number.
LEMMA TypeNewRequest ==
  ASSUME TypeOK, NewRequest
  PROVE  /\ nextRequestId \in Ids /\ nextRequestId' \in 0..MaxRequests
         /\ DOMAIN requestMap' \subseteq Ids /\ requestMap' \in [DOMAIN requestMap' -> BOOLEAN]
         /\ requestQueue' \in Seq(Ids)
  <1>1. nextRequestId \in Ids /\ nextRequestId' \in 0..MaxRequests
    BY ServicerAssumption DEF TypeOK, NewRequest, Ids
  <1>2. DOMAIN requestMap' = DOMAIN requestMap \cup {nextRequestId}
    BY DEF NewRequest
  <1>3. ASSUME NEW id \in DOMAIN requestMap' PROVE requestMap'[id] \in BOOLEAN
    BY <1>2, Zenon DEF NewRequest, TypeOK
  <1>4. requestMap' \in [DOMAIN requestMap' -> BOOLEAN]
    BY <1>3 DEF NewRequest
  <1>5. requestQueue' \in Seq(Ids)
    BY <1>1, Pushed DEF TypeOK, NewRequest
  <1> QED
    BY <1>1, <1>2, <1>4, <1>5 DEF TypeOK

LEMMA TypeCaller ==
  ASSUME TypeOK, Owners, NEW c \in Callers, CallerStep(c)
  PROVE  TypeOK'
  <1>1. ASSUME CallServiceSync(c) \/ CallServiceAsync(c) PROVE TypeOK'
    <2>1. NewRequest
      BY <1>1 DEF CallServiceSync, CallServiceAsync
    <2>2. callerPc' \in [Callers -> {"idle", "asleep", "woken"}]
      BY <1>1, <2>1 DEF CallServiceSync, CallServiceAsync, TypeOK
    <2>3. nextRequestId \in Ids
      BY <2>1, TypeNewRequest
    <2>4. waitsFor' \in [Callers -> Ids \cup {None}]
      BY <1>1, <2>3 DEF CallServiceSync, CallServiceAsync, TypeOK
    <2>5. outstanding' \in [Callers -> SUBSET Ids]
      BY <1>1, <2>3 DEF CallServiceSync, CallServiceAsync, TypeOK
    <2>6. UNCHANGED <<requestsInFlight, requestResponseQueue, dispatcherVars, workerVars, shmVars,
                      mqVars, serviceVars, destructor, fault>>
      BY <2>1 DEF NewRequest
    <2> QED
      BY <2>1, <2>2, <2>4, <2>6, <2>5, TypeNewRequest DEF TypeOK, dispatcherVars, workerVars,
         shmVars, mqVars, serviceVars
  <1>2. ASSUME NEW id \in Ids, AwaitAnswer(c, id), outstanding' \in [Callers -> SUBSET Ids]
        PROVE  TypeOK'
    <2>1. \/ requestMap' = requestMap
          \/ requestMap' = [i \in DOMAIN requestMap \ {id} |-> requestMap[i]]
      BY <1>2 DEF AwaitAnswer
    <2>2. DOMAIN requestMap' \subseteq Ids /\ requestMap' \in [DOMAIN requestMap' -> BOOLEAN]
      BY <2>1 DEF TypeOK
    <2>3. callerPc' \in [Callers -> {"idle", "asleep", "woken"}]
      BY <1>2 DEF AwaitAnswer, TypeOK
    <2>4. waitsFor' \in [Callers -> Ids \cup {None}]
      BY <1>2 DEF AwaitAnswer, TypeOK
    <2>5. UNCHANGED <<nextRequestId, requestQueue, requestsInFlight, requestResponseQueue,
                      dispatcherVars, workerVars, shmVars, mqVars, serviceVars, destructor>>
      BY <1>2 DEF AwaitAnswer
    <2> QED
      BY <1>2, <2>2, <2>3, <2>4, <2>5 DEF TypeOK, dispatcherVars, workerVars, shmVars, mqVars,
         serviceVars
  <1>3. ASSUME CallerWakes(c) PROVE TypeOK'
    <2>1. waitsFor[c] \in Ids
      BY <1>3 DEF CallerWakes, Owners, Owned, TypeOK
    <2> QED
      BY <1>2, <1>3, <2>1 DEF CallerWakes, TypeOK
  <1>4. ASSUME WakeSpuriously(c) PROVE TypeOK'
    <2>1. callerPc' \in [Callers -> {"idle", "asleep", "woken"}]
      BY <1>4 DEF WakeSpuriously, TypeOK
    <2> QED
      BY <1>4, <2>1 DEF WakeSpuriously, TypeOK, requestVars, dispatcherVars, workerVars, shmVars,
         mqVars, serviceVars
  <1>5. ASSUME NEW id \in outstanding[c], WaitServiceSync(c, id) PROVE TypeOK'
    <2>1. id \in Ids /\ outstanding' \in [Callers -> SUBSET Ids]
      BY <1>5 DEF WaitServiceSync, TypeOK
    <2> QED
      BY <1>2, <1>5, <2>1 DEF WaitServiceSync
  <1> QED
    BY <1>1, <1>3, <1>4, <1>5 DEF CallerStep

LEMMA TypeDestructor ==
  ASSUME TypeOK, CloseQueues \/ JoinThread
  PROVE  TypeOK'
  <1>1. destructor' \in 0..(NumWorkers + 2)
    <2>1. NumWorkers \in Nat
      BY ServicerAssumption
    <2>2. destructor' = 1 \/ (destructor \in 1..(NumWorkers + 1) /\ destructor' = destructor + 1)
      BY <2>1 DEF CloseQueues, JoinThread, Workers, DispatcherStops
    <2> QED
      BY <2>1, <2>2
  <1> QED
    BY <1>1 DEF TypeOK, CloseQueues, JoinThread, requestVars, callerVars, dispatcherVars,
       workerVars, shmVars, mqVars, serviceVars

LEMMA TypeDispatcher ==
  ASSUME TypeOK, Holders, DispatcherStep
  PROVE  TypeOK'
  <1>1. CASE TakeRequest
    <2>1. requestQueue' \in Seq(Ids) /\ Head(requestQueue) \in Ids
      BY <1>1, Popped DEF TypeOK, TakeRequest
    <2>2. requestsInFlight' \in 0..NumWorkers
      <3>1. requestsInFlight \in 0..NumWorkers /\ NumWorkers \in Nat
        BY ServicerAssumption DEF TypeOK
      <3>2. /\ requestsInFlight < NumWorkers
            /\ requestsInFlight' = requestsInFlight \/ requestsInFlight' = requestsInFlight + 1
        BY <1>1 DEF TakeRequest, HasWorker
      <3> QED
        BY <3>1, <3>2
    <2>3. sending' \in Ids \cup {None}
          /\ dispatcherPc' \in {"send", "sending", "receive", "allocate", "stopped"}
      BY <1>1, <2>1 DEF TypeOK, TakeRequest
    <2> QED
      BY <1>1, <2>1, <2>2, <2>3 DEF TypeOK, TakeRequest, callerVars, workerVars, shmVars, mqVars,
         serviceVars
  <1>2. CASE SendRequest
    <2>1. clientToServer' \in Seq(Ids)
      <3>1. dispatcherPc = "sending" => sending \in Ids
        BY DEF Holders, TypeOK
      <3>2. clientToServer \in Seq(Ids)
        BY DEF TypeOK
      <3>3. clientToServer' = clientToServer \/ sending \in Ids
        BY <1>2, <3>1 DEF SendRequest
      <3>4. clientToServer' = clientToServer \/ clientToServer' = Append(clientToServer, sending)
        BY <1>2 DEF SendRequest
      <3> QED
        BY <3>2, <3>3, <3>4, Pushed
    <2>2. sending' \in Ids \cup {None}
          /\ dispatcherPc' \in {"send", "sending", "receive", "allocate", "stopped"}
      BY <1>2 DEF TypeOK, SendRequest
    <2> QED
      BY <1>2, <2>1, <2>2 DEF TypeOK, SendRequest, requestVars, callerVars, workerVars, shmVars,
         serviceVars
  <1>3. CASE EndSendRequests
    BY <1>3 DEF TypeOK, EndSendRequests, requestVars, callerVars, workerVars, shmVars, mqVars,
       serviceVars
  <1>4. CASE ReceiveResponse
    <2>1. serverToClient' \in Seq(Assignment) /\ Head(serverToClient) \in Assignment
      BY <1>4, Popped DEF TypeOK, ReceiveResponse
    <2>2. /\ allocating' \in Assignment \cup {None}
          /\ dispatcherPc' \in {"send", "sending", "receive", "allocate", "stopped"}
      BY <1>4, <2>1 DEF TypeOK, ReceiveResponse
    <2>3. loaded' \in [Workers \cup {Dispatcher} -> SUBSET Segments]
      BY <1>4 DEF TypeOK, ReceiveResponse
    <2> QED
      BY <1>4, <2>1, <2>2, <2>3 DEF TypeOK, ReceiveResponse, requestVars, callerVars, workerVars,
         serviceVars
  <1>5. CASE FinishAllocation
    <2>1. allocating \in Assignment
      BY <1>5 DEF FinishAllocation, Holders, TypeOK
    <2>2. requestResponseQueue' \in Seq(Assignment)
      BY <1>5, <2>1, Pushed DEF TypeOK, FinishAllocation
    <2>3. /\ loaded' \in [Workers \cup {Dispatcher} -> SUBSET Segments]
          /\ available' \in SUBSET Segments
      BY <1>5 DEF TypeOK, FinishAllocation
    <2> QED
      BY <1>5, <2>2, <2>3 DEF TypeOK, FinishAllocation, requestVars, callerVars, workerVars,
         mqVars, serviceVars
  <1>6. CASE EndReceiveResponses
    BY <1>6 DEF TypeOK, EndReceiveResponses, requestVars, callerVars, workerVars, shmVars, mqVars,
       serviceVars
  <1> QED
    BY <1>1, <1>2, <1>3, <1>4, <1>5, <1>6 DEF DispatcherStep

\* A worker that processes a request holds one in flight.
LEMMA ProcessedInFlight ==
  ASSUME TypeOK, Holders, NEW w \in Workers, workerPc[w] = "process"
  PROVE  /\ handler[w] \in Assignment /\ handler[w].id \in Ids
         /\ handler[w].id \in Journey["process"] /\ handler[w].id \in InFlight
  <1>1. handler[w] \in Assignment /\ handler[w].id \in Ids
    BY DEF Holders, TypeOK, Assignment
  <1>2. handler[w].id \in Journey["process"]
    BY StageOf DEF Processing
  <1>3. handler[w].id \in InFlight
    BY DEF InFlight
  <1> QED
    BY <1>1, <1>2, <1>3

LEMMA TypeWorker ==
  ASSUME TypeOK, Holders, Counted, NEW w \in Workers, WorkerStep(w)
  PROVE  TypeOK'
  <1>1. CASE ScheduleRequest(w)
    <2>1. requestResponseQueue' \in Seq(Assignment) /\ Head(requestResponseQueue) \in Assignment
      BY <1>1, Popped DEF TypeOK, ScheduleRequest
    <2>2. /\ workerPc' \in [Workers -> {"schedule", "process", "completed", "release", "stopped"}]
          /\ handler' \in [Workers -> Assignment \cup {None}]
      BY <1>1, <2>1 DEF TypeOK, ScheduleRequest, CreateHandler
    <2> QED
      BY <1>1, <2>1, <2>2 DEF TypeOK, ScheduleRequest, requestVars, callerVars, dispatcherVars,
         shmVars, mqVars, serviceVars
  <1>2. CASE ScheduleTimeout(w)
    <2>1. workerPc' \in [Workers -> {"schedule", "process", "completed", "release", "stopped"}]
      BY <1>2 DEF TypeOK, ScheduleTimeout
    <2> QED
      BY <1>2, <2>1 DEF TypeOK, ScheduleTimeout, requestVars, callerVars, dispatcherVars, shmVars,
         mqVars, serviceVars
  <1>3. CASE CompleteRequest(w)
    <2>1. handler[w].id \in InFlight
      BY <1>3, ProcessedInFlight DEF CompleteRequest
    <2>2. requestsInFlight # 0
      BY <2>1, FS_EmptySet DEF Counted
    <2>3. requestsInFlight' \in 0..NumWorkers
      <3>1. requestsInFlight \in 0..NumWorkers /\ NumWorkers \in Nat
        BY ServicerAssumption DEF TypeOK
      <3>2. requestsInFlight' = requestsInFlight - 1
        BY <1>3 DEF CompleteRequest
      <3> QED
        BY <2>2, <3>1, <3>2
    <2>4. DOMAIN requestMap' \subseteq Ids /\ requestMap' \in [DOMAIN requestMap' -> BOOLEAN]
      <3>1. requestMap' = requestMap \/ requestMap' = [requestMap EXCEPT ![handler[w].id] = TRUE]
        BY <1>3 DEF CompleteRequest
      <3> QED
        BY <3>1 DEF TypeOK
    <2>5. /\ workerPc' \in [Workers -> {"schedule", "process", "completed", "release", "stopped"}]
          /\ callerPc' \in [Callers -> {"idle", "asleep", "woken"}]
      BY <1>3 DEF TypeOK, CompleteRequest, NotifyCaller
    <2> QED
      BY <1>3, <2>3, <2>4, <2>5 DEF TypeOK, CompleteRequest, dispatcherVars, shmVars, mqVars,
         serviceVars
  <1>4. CASE ReleaseSegment(w)
    <2>1. /\ workerPc' \in [Workers -> {"schedule", "process", "completed", "release", "stopped"}]
          /\ loaded' \in [Workers \cup {Dispatcher} -> SUBSET Segments]
      BY <1>4 DEF TypeOK, ReleaseSegment
    <2> QED
      BY <1>4, <2>1 DEF TypeOK, ReleaseSegment, requestVars, callerVars, dispatcherVars, mqVars,
         serviceVars
  <1>5. CASE FinishRelease(w)
    <2>1. handler[w] \in Assignment /\ handler[w].segment \in Segments
      BY <1>5 DEF FinishRelease, Holders, TypeOK, Assignment
    <2>2. available' \in SUBSET Segments
      BY <1>5, <2>1 DEF TypeOK, FinishRelease
    <2>3. /\ workerPc' \in [Workers -> {"schedule", "process", "completed", "release", "stopped"}]
          /\ loaded' \in [Workers \cup {Dispatcher} -> SUBSET Segments]
          /\ handler' \in [Workers -> Assignment \cup {None}]
      BY <1>5 DEF TypeOK, FinishRelease
    <2> QED
      BY <1>5, <2>2, <2>3 DEF TypeOK, FinishRelease, requestVars, callerVars, dispatcherVars,
         mqVars, serviceVars
  <1> QED
    BY <1>1, <1>2, <1>3, <1>4, <1>5 DEF WorkerStep

LEMMA TypeService ==
  ASSUME TypeOK, ServiceStep
  PROVE  TypeOK'
  <1>1. CASE ServiceReceives
    <2>1. clientToServer' \in Seq(Ids) /\ received' \subseteq Ids
      BY <1>1, Popped DEF TypeOK, ServiceReceives
    <2> QED
      BY <1>1, <2>1 DEF TypeOK, ServiceReceives, requestVars, callerVars, dispatcherVars,
         workerVars, shmVars
  <1>2. ASSUME NEW id \in received, NEW segment \in serviceFree, ServiceAssigns(id, segment)
        PROVE  TypeOK'
    <2>1. [id |-> id, segment |-> segment] \in Assignment
      BY DEF TypeOK, Assignment
    <2>2. serverToClient' \in Seq(Assignment)
      BY <1>2, <2>1, Pushed DEF TypeOK, ServiceAssigns
    <2>3. /\ received' \subseteq Ids /\ serving' \subseteq Assignment
          /\ serviceFree' \subseteq Segments
      BY <1>2, <2>1 DEF TypeOK, ServiceAssigns
    <2> QED
      BY <1>2, <2>2, <2>3 DEF TypeOK, ServiceAssigns, requestVars, callerVars, dispatcherVars,
         workerVars, shmVars
  <1>3. ASSUME NEW assignment \in serving,
               ServiceAnswers(assignment) \/ ServiceReleases(assignment)
        PROVE  TypeOK'
    <2>1. assignment.id \in Ids /\ assignment.segment \in Segments
      BY DEF TypeOK, Assignment
    <2>2. /\ answered' \subseteq Ids /\ serving' \subseteq Assignment
          /\ serviceFree' \subseteq Segments
      BY <1>3, <2>1 DEF TypeOK, ServiceAnswers, ServiceReleases
    <2> QED
      BY <1>3, <2>2 DEF TypeOK, ServiceAnswers, ServiceReleases, requestVars, callerVars,
         dispatcherVars, workerVars, shmVars, mqVars
  <1> QED
    BY <1>1, <1>2, <1>3 DEF ServiceStep
-----------------------------------------------------------------------------
(* Requests on their way *)

\* Where the requests without an answer are, and how many of them.
Travel == Apart(Journey) /\ Single /\ Counted /\ Places

\* There are as many processing workers as there are, at most all of them.
LEMMA ProcessingFinite ==
  /\ IsFiniteSet(Workers) /\ Cardinality(Workers) = NumWorkers
  /\ IsFiniteSet(Processing) /\ Cardinality(Processing) \in Nat
  <1>1. IsFiniteSet(Workers) /\ Cardinality(Workers) = NumWorkers
    BY FS_Interval, ServicerAssumption DEF Workers
  <1>2. Processing \in SUBSET Workers
    BY DEF Processing
  <1> QED
    BY <1>1, <1>2, FS_Subset, FS_CardinalityType

\* The sizes of the places are numbers.
LEMMA Sizes ==
  ASSUME TypeOK, Counted
  PROVE  /\ Cardinality(Held(sending)) \in Nat /\ Len(clientToServer) \in Nat
         /\ Cardinality(received) \in Nat /\ Len(serverToClient) \in Nat
         /\ Cardinality(Held(allocating)) \in Nat /\ Len(requestResponseQueue) \in Nat
         /\ Cardinality(Processing) \in Nat /\ requestsInFlight \in Nat
         /\ Sent \in Nat /\ Waiting \in Nat
  <1>1. /\ Len(clientToServer) \in Nat /\ Len(serverToClient) \in Nat
        /\ Len(requestResponseQueue) \in Nat /\ Cardinality(received) \in Nat
    BY LenProperties, FS_CardinalityType DEF TypeOK, Counted
  <1>2. Cardinality(Held(sending)) \in Nat /\ Cardinality(Held(allocating)) \in Nat
    BY HeldCount
  <1>3. requestsInFlight \in Nat
    BY DEF TypeOK
  <1>4. Sent \in Nat /\ Waiting \in Nat
    BY <1>1, <1>2 DEF Sent, Waiting
  <1> QED
    BY <1>1, <1>2, <1>3, <1>4, ProcessingFinite

\* A request on its way is in the map, without an answer.
LEMMA OnItsWay ==
  ASSUME TypeOK, Unanswered, NEW s \in Stage, NEW x \in Journey[s]
  PROVE  x \in DOMAIN requestMap /\ ~requestMap[x] /\ x < nextRequestId /\ x \in Ids /\ x # None
  <1>1. x \in Everywhere(Journey)
    BY DEF Everywhere
  <1> QED
    BY <1>1, NoneAssumption DEF Unanswered, TypeOK

\* A step that moves no request keeps all that is said of where they are.
LEMMA TravelKept ==
  ASSUME Travel,
         UNCHANGED <<requestQueue, requestsInFlight, sending, clientToServer, received,
                     serverToClient, allocating, requestResponseQueue>>,
         Processing' = Processing, \A w \in Processing : handler'[w] = handler[w]
  PROVE  Travel' /\ Journey' = Journey
  <1>1. {handler'[w].id : w \in Processing'} = {handler[w].id : w \in Processing}
    OBVIOUS
  <1>2. Journey' = Journey
    BY <1>1 DEF Journey, Held, IdsOf
  <1>3. InFlight' = InFlight
    BY <1>2, UnderwayInFlight, UnderwayInFlightNext DEF Underway
  <1>4. Apart(Journey)'
    BY <1>2 DEF Travel, Apart
  <1>5. Single'
    BY DEF Travel, Single, Once, OnceById
  <1>6. Counted' /\ Places'
    BY <1>3 DEF Travel, Counted, Places, Sent, Waiting, Held
  <1> QED
    BY <1>2, <1>4, <1>5, <1>6 DEF Travel

\* A request that goes on is still without an answer, and counted once.
LEMMA TravelOn ==
  ASSUME Unanswered, Apart(Journey), Counted, NEW x, NEW a, NEW b,
         Goes(x, a, b, Journey, Journey'), a # "queued", b # "queued",
         UNCHANGED <<requestMap, nextRequestId, requestsInFlight>>,
         IsFiniteSet(received')
  PROVE  Apart(Journey)' /\ Unanswered' /\ Counted'
  <1>1. Apart(Journey') /\ Everywhere(Journey') = Everywhere(Journey)
        /\ Underway(Journey') = Underway(Journey)
    BY GoesOn
  <1>2. Apart(Journey)'
    BY <1>1 DEF Apart
  <1>3. Unanswered'
    BY <1>1 DEF Unanswered, Everywhere
  <1>4. Counted'
    BY <1>1, UnderwayInFlight, UnderwayInFlightNext DEF Counted
  <1> QED
    BY <1>2, <1>3, <1>4

LEMMA TravelTake ==
  ASSUME TypeOK, Holders, Unanswered, Travel, Alive, TakeRequest
  PROVE  Alive' /\ Unanswered' /\ Travel'
  <1> DEFINE x == Head(requestQueue)
  <1>1. /\ requestQueue # << >> /\ requestQueue \in Seq(Ids) /\ Once(requestQueue)
        /\ dispatcherPc = "send" /\ sending = None
    BY DEF TakeRequest, TypeOK, Travel, Single, Holders
  <1>2. /\ x \in ToSet(requestQueue) /\ ToSet(Tail(requestQueue)) = ToSet(requestQueue) \ {x}
        /\ Once(Tail(requestQueue))
    BY <1>1, Popped
  <1>3. x \in Journey["queued"] /\ "queued" \in Stage
    BY <1>2, StageOf DEF Stage
  <1>4. x \in DOMAIN requestMap /\ x # None
    BY <1>3, OnItsWay
  <1>5. /\ requestQueue' = Tail(requestQueue) /\ sending' = x
        /\ requestsInFlight' = requestsInFlight + 1 /\ fault' = fault
        /\ UNCHANGED <<nextRequestId, requestMap, requestResponseQueue, allocating, workerPc,
                       handler, clientToServer, serverToClient, received>>
    BY <1>4 DEF TakeRequest, workerVars, mqVars, serviceVars
  <1>6. Processing' = Processing
    BY <1>5 DEF Processing
  <1>7. Goes(x, "queued", "sending", Journey, Journey')
    <2>1. Journey'["queued"] = Journey["queued"] \ {x}
      BY <1>2, <1>5, StageOf, StageOfNext
    <2>2. Journey'["sending"] = Journey["sending"] \cup {x}
      BY <1>1, <1>4, <1>5, StageOf, StageOfNext DEF Held
    <2>3. \A s \in Stage \ {"queued", "sending"} : Journey'[s] = Journey[s]
      BY <1>5, <1>6, StageKept DEF Stage
    <2> QED
      BY <1>3, <2>1, <2>2, <2>3 DEF Goes, Stage
  <1>8. /\ Apart(Journey') /\ Everywhere(Journey') = Everywhere(Journey)
        /\ Underway(Journey') = Underway(Journey) \cup {x} /\ x \notin Underway(Journey)
    BY <1>7, GoesOn DEF Travel
  <1>9. Apart(Journey)' /\ Unanswered'
    BY <1>5, <1>8 DEF Apart, Unanswered, Everywhere
  <1>10. Counted'
    <2>1. InFlight' = InFlight \cup {x} /\ x \notin InFlight /\ IsFiniteSet(InFlight)
      BY <1>8, UnderwayInFlight, UnderwayInFlightNext DEF Travel, Counted
    <2>2. IsFiniteSet(InFlight') /\ Cardinality(InFlight') = Cardinality(InFlight) + 1
      BY <2>1, FS_AddElement
    <2> QED
      BY <1>5, <2>2 DEF Travel, Counted
  <1>11. Single'
    BY <1>2, <1>5, <1>6 DEF Travel, Single, Once, OnceById
  <1>12. Places'
    <2>1. Cardinality(Held(sending)) = 0 /\ Cardinality(Held(sending')) = 1
      BY <1>1, <1>4, <1>5, HeldCount
    <2>2. Sent' = Sent + 1
      BY <1>5, <2>1, Sizes DEF Sent, Travel
    <2>3. Waiting' = Waiting
      BY <1>5 DEF Waiting, Held
    <2>4. Places /\ Counted
      BY DEF Travel
    <2>5. requestsInFlight' = (Sent + 1) + Waiting + Cardinality(Processing)
      BY <1>5, <2>4, Sizes DEF Places
    <2> QED
      BY <1>6, <2>2, <2>3, <2>5 DEF Places
  <1> QED
    BY <1>5, <1>9, <1>10, <1>11, <1>12 DEF Travel, Alive

LEMMA TravelSend ==
  ASSUME TypeOK, Holders, Unanswered, NoneLeft, Travel, Alive, SendRequest
  PROVE  Alive' /\ Unanswered' /\ Travel'
  <1>1. sending # None /\ dispatcherPc = "sending"
    BY DEF SendRequest, Holders
  <1>2. sending \in Journey["sending"] /\ "sending" \in Stage
    BY <1>1, StageOf DEF Held, Stage
  <1>3. sending \in DOMAIN requestMap /\ sending \in Ids /\ Open
    BY <1>2, OnItsWay DEF NoneLeft
  <1>4. /\ clientToServer' = Append(clientToServer, sending) /\ sending' = None /\ fault' = fault
        /\ UNCHANGED <<nextRequestId, requestMap, requestQueue, requestsInFlight,
                       requestResponseQueue, allocating, workerPc, handler, serverToClient,
                       received>>
    BY <1>3 DEF SendRequest, requestVars, workerVars, serviceVars
  <1>5. Processing' = Processing
    BY <1>4 DEF Processing
  <1>6. sending \notin Journey["sent"] /\ clientToServer \in Seq(Ids)
    BY <1>2 DEF Travel, Apart, Stage, TypeOK
  <1>7. /\ ToSet(clientToServer') = ToSet(clientToServer) \cup {sending}
        /\ Once(clientToServer') /\ Len(clientToServer') = Len(clientToServer) + 1
    BY <1>3, <1>4, <1>6, Pushed, StageOf DEF Travel, Single
  <1>8. Goes(sending, "sending", "sent", Journey, Journey')
    <2>1. Journey'["sending"] = Journey["sending"] \ {sending}
      BY <1>1, <1>4, StageOf, StageOfNext DEF Held
    <2>2. Journey'["sent"] = Journey["sent"] \cup {sending}
      BY <1>7, StageOf, StageOfNext
    <2>3. \A s \in Stage \ {"sending", "sent"} : Journey'[s] = Journey[s]
      BY <1>4, <1>5, StageKept DEF Stage
    <2> QED
      BY <1>2, <2>1, <2>2, <2>3 DEF Goes, Stage
  <1>9. Apart(Journey)' /\ Unanswered' /\ Counted'
    BY <1>4, <1>8, TravelOn DEF Travel, Counted
  <1>10. Single'
    BY <1>4, <1>5, <1>7 DEF Travel, Single, Once, OnceById
  <1>11. Places'
    <2>1. Cardinality(Held(sending)) = 1 /\ Cardinality(Held(sending')) = 0
      BY <1>1, <1>4, HeldCount
    <2>2. Sent' = Sent
      BY <1>4, <1>7, <2>1, Sizes DEF Sent, Travel
    <2>3. Waiting' = Waiting
      BY <1>4 DEF Waiting, Held
    <2>4. Places
      BY DEF Travel
    <2> QED
      BY <1>4, <1>5, <2>2, <2>3, <2>4 DEF Places
  <1> QED
    BY <1>4, <1>9, <1>10, <1>11 DEF Travel, Alive

LEMMA TravelReceived ==
  ASSUME TypeOK, Unanswered, Travel, Alive, ServiceReceives
  PROVE  Alive' /\ Unanswered' /\ Travel'
  <1> DEFINE x == Head(clientToServer)
  <1>1. clientToServer # << >> /\ clientToServer \in Seq(Ids) /\ Once(clientToServer)
    BY DEF ServiceReceives, TypeOK, Travel, Single
  <1>2. /\ x \in ToSet(clientToServer)
        /\ ToSet(Tail(clientToServer)) = ToSet(clientToServer) \ {x}
        /\ Once(Tail(clientToServer)) /\ Len(Tail(clientToServer)) = Len(clientToServer) - 1
    BY <1>1, Popped
  <1>3. x \in Journey["sent"] /\ x \notin Journey["received"]
    BY <1>2, StageOf DEF Travel, Apart, Stage
  <1>4. /\ clientToServer' = Tail(clientToServer) /\ received' = received \cup {x}
        /\ fault' = fault
        /\ UNCHANGED <<nextRequestId, requestMap, requestQueue, requestsInFlight,
                       requestResponseQueue, sending, allocating, workerPc, handler,
                       serverToClient>>
    BY DEF ServiceReceives, requestVars, dispatcherVars, workerVars
  <1>5. Processing' = Processing
    BY <1>4 DEF Processing
  <1>6. IsFiniteSet(received') /\ Cardinality(received') = Cardinality(received) + 1
    BY <1>3, <1>4, FS_AddElement, StageOf DEF Travel, Counted
  <1>7. Goes(x, "sent", "received", Journey, Journey')
    <2>1. Journey'["sent"] = Journey["sent"] \ {x}
      BY <1>2, <1>4, StageOf, StageOfNext
    <2>2. Journey'["received"] = Journey["received"] \cup {x}
      BY <1>4, StageOf, StageOfNext
    <2>3. \A s \in Stage \ {"sent", "received"} : Journey'[s] = Journey[s]
      BY <1>4, <1>5, StageKept DEF Stage
    <2> QED
      BY <1>3, <2>1, <2>2, <2>3 DEF Goes, Stage
  <1>8. Apart(Journey)' /\ Unanswered' /\ Counted'
    BY <1>4, <1>6, <1>7, TravelOn DEF Travel
  <1>9. Single'
    BY <1>2, <1>4, <1>5 DEF Travel, Single, Once, OnceById
  <1>10. Places'
    <2>1. Sent' = Sent
      <3>1. Held(sending') = Held(sending)
        BY <1>4 DEF Held
      <3>2. Len(clientToServer') = Len(clientToServer) - 1 /\ Counted
        BY <1>2, <1>4 DEF Travel
      <3> QED
        BY <1>6, <3>1, <3>2, Sizes DEF Sent
    <2>2. Waiting' = Waiting
      BY <1>4 DEF Waiting, Held
    <2>3. Places
      BY DEF Travel
    <2> QED
      BY <1>4, <1>5, <2>1, <2>2, <2>3 DEF Places
  <1> QED
    BY <1>4, <1>8, <1>9, <1>10 DEF Travel, Alive

LEMMA TravelAssigned ==
  ASSUME TypeOK, Unanswered, Travel, Alive,
         NEW id \in received, NEW segment \in serviceFree, ServiceAssigns(id, segment)
  PROVE  Alive' /\ Unanswered' /\ Travel'
  <1> DEFINE a == [id |-> id, segment |-> segment]
  <1>1. a \in Assignment /\ a.id = id
    BY DEF TypeOK, Assignment
  <1>2. id \in Journey["received"] /\ id \notin Journey["assigned"]
    BY StageOf DEF Travel, Apart, Stage
  <1>3. /\ serverToClient' = Append(serverToClient, a) /\ received' = received \ {id}
        /\ fault' = fault
        /\ UNCHANGED <<nextRequestId, requestMap, requestQueue, requestsInFlight,
                       requestResponseQueue, sending, allocating, workerPc, handler,
                       clientToServer>>
    BY DEF ServiceAssigns, requestVars, dispatcherVars, workerVars
  <1>4. Processing' = Processing
    BY <1>3 DEF Processing
  <1>5. IsFiniteSet(received') /\ Cardinality(received') = Cardinality(received) - 1
    BY <1>3, FS_RemoveElement DEF Travel, Counted
  <1> HIDE DEF a
  <1>6. /\ IdsOf(serverToClient') = IdsOf(serverToClient) \cup {id} /\ OnceById(serverToClient')
        /\ Len(serverToClient') = Len(serverToClient) + 1
    BY <1>1, <1>2, <1>3, Pushed, PushedId, StageOf DEF Travel, Single, TypeOK
  <1>7. Goes(id, "received", "assigned", Journey, Journey')
    <2>1. Journey'["received"] = Journey["received"] \ {id}
      BY <1>3, StageOf, StageOfNext
    <2>2. Journey'["assigned"] = Journey["assigned"] \cup {id}
      BY <1>6, StageOf, StageOfNext
    <2>3. \A s \in Stage \ {"received", "assigned"} : Journey'[s] = Journey[s]
      BY <1>3, <1>4, StageKept DEF Stage
    <2> QED
      BY <1>2, <2>1, <2>2, <2>3 DEF Goes, Stage
  <1>8. Apart(Journey)' /\ Unanswered' /\ Counted'
    BY <1>3, <1>5, <1>7, TravelOn DEF Travel
  <1>9. Single'
    BY <1>3, <1>4, <1>6 DEF Travel, Single, Once, OnceById
  <1>10. Places'
    <2>1. Sent' = Sent - 1
      <3>1. Held(sending') = Held(sending)
        BY <1>3 DEF Held
      <3> QED
        BY <1>3, <1>5, <3>1, Sizes DEF Sent, Travel
    <2>2. Waiting' = Waiting + 1
      <3>1. Held(allocating') = Held(allocating)
        BY <1>3 DEF Held
      <3> QED
        BY <1>3, <1>6, <3>1, Sizes DEF Waiting, Travel
    <2>3. Places /\ Counted
      BY DEF Travel
    <2>4. requestsInFlight = (Sent - 1) + (Waiting + 1) + Cardinality(Processing)
      BY <2>3, Sizes DEF Places
    <2> QED
      BY <1>3, <1>4, <2>1, <2>2, <2>4 DEF Places
  <1> QED
    BY <1>3, <1>8, <1>9, <1>10 DEF Travel, Alive

LEMMA TravelReceive ==
  ASSUME TypeOK, Holders, Unanswered, Travel, Alive, ReceiveResponse, Alive'
  PROVE  Unanswered' /\ Travel'
  <1> DEFINE a == Head(serverToClient)
  <1>1. /\ serverToClient # << >> /\ serverToClient \in Seq(Assignment)
        /\ OnceById(serverToClient) /\ dispatcherPc = "receive" /\ allocating = None
    BY DEF ReceiveResponse, TypeOK, Travel, Single, Holders
  <1>2. /\ a \in Assignment /\ a # None /\ a.id \in IdsOf(serverToClient)
        /\ IdsOf(Tail(serverToClient)) = IdsOf(serverToClient) \ {a.id}
        /\ OnceById(Tail(serverToClient)) /\ Len(Tail(serverToClient)) = Len(serverToClient) - 1
    BY <1>1, Popped, PoppedId, NoneAssumption
  <1>3. /\ serverToClient' = Tail(serverToClient) /\ allocating' = a
        /\ UNCHANGED <<nextRequestId, requestMap, requestQueue, requestsInFlight,
                       requestResponseQueue, sending, workerPc, handler, clientToServer,
                       received>>
    BY DEF ReceiveResponse, Alive, requestVars, workerVars, serviceVars
  <1>4. Processing' = Processing
    BY <1>3 DEF Processing
  <1> HIDE DEF a
  <1>5. Goes(a.id, "assigned", "allocating", Journey, Journey')
    <2>1. Journey'["assigned"] = Journey["assigned"] \ {a.id}
      BY <1>2, <1>3, StageOf, StageOfNext
    <2>2. Journey'["allocating"] = Journey["allocating"] \cup {a.id}
      BY <1>1, <1>2, <1>3, StageOf, StageOfNext DEF Held
    <2>3. \A s \in Stage \ {"assigned", "allocating"} : Journey'[s] = Journey[s]
      BY <1>3, <1>4, StageKept DEF Stage
    <2> QED
      BY <1>2, <2>1, <2>2, <2>3, StageOf DEF Goes, Stage
  <1>6. Apart(Journey)' /\ Unanswered' /\ Counted'
    BY <1>3, <1>5, TravelOn DEF Travel, Counted
  <1>7. Single'
    BY <1>2, <1>3, <1>4 DEF Travel, Single, Once, OnceById
  <1>8. Places'
    <2>1. Cardinality(Held(allocating)) = 0 /\ Cardinality(Held(allocating')) = 1
      BY <1>1, <1>2, <1>3, HeldCount
    <2>2. Sent' = Sent
      BY <1>3 DEF Sent, Held
    <2>3. Waiting' = Waiting
      <3>1. /\ Len(serverToClient') = Len(serverToClient) - 1 /\ Counted
            /\ requestResponseQueue' = requestResponseQueue
        BY <1>2, <1>3 DEF Travel
      <3> QED
        BY <2>1, <3>1, Sizes DEF Waiting
    <2>4. Places
      BY DEF Travel
    <2> QED
      BY <1>3, <1>4, <2>2, <2>3, <2>4 DEF Places
  <1> QED
    BY <1>6, <1>7, <1>8 DEF Travel

LEMMA TravelAllocated ==
  ASSUME TypeOK, Holders, Unanswered, Travel, Alive, FinishAllocation
  PROVE  Alive' /\ Unanswered' /\ Travel'
  <1> DEFINE a == allocating
  <1>1. a \in Assignment /\ a # None /\ requestResponseQueue \in Seq(Assignment)
    BY DEF FinishAllocation, Holders, TypeOK
  <1>2. /\ requestResponseQueue' = Append(requestResponseQueue, a) /\ allocating' = None
        /\ fault' = fault
        /\ UNCHANGED <<nextRequestId, requestMap, requestQueue, requestsInFlight, sending,
                       workerPc, handler, clientToServer, serverToClient, received>>
    BY DEF FinishAllocation, requestVars, workerVars, mqVars, serviceVars
  <1>3. Processing' = Processing
    BY <1>2 DEF Processing
  <1>4. Journey["allocating"] = {a.id} /\ Journey'["allocating"] = {}
    BY <1>1, <1>2, StageOf, StageOfNext DEF Held
  <1>5. a.id \notin Journey["response"]
    BY <1>4 DEF Travel, Apart, Stage
  <1>6. /\ IdsOf(requestResponseQueue') = IdsOf(requestResponseQueue) \cup {a.id}
        /\ OnceById(requestResponseQueue')
        /\ Len(requestResponseQueue') = Len(requestResponseQueue) + 1
    BY <1>1, <1>2, <1>5, Pushed, PushedId, StageOf DEF Travel, Single
  <1>7. Goes(a.id, "allocating", "response", Journey, Journey')
    <2>1. Journey'["response"] = Journey["response"] \cup {a.id}
      BY <1>6, StageOf, StageOfNext
    <2>2. \A s \in Stage \ {"allocating", "response"} : Journey'[s] = Journey[s]
      BY <1>2, <1>3, StageKept DEF Stage
    <2> QED
      BY <1>4, <2>1, <2>2 DEF Goes, Stage
  <1>8. Apart(Journey)' /\ Unanswered' /\ Counted'
    BY <1>2, <1>7, TravelOn DEF Travel, Counted
  <1>9. Single'
    BY <1>2, <1>3, <1>6 DEF Travel, Single, Once, OnceById
  <1>10. Places'
    <2>1. Cardinality(Held(allocating)) = 1 /\ Cardinality(Held(allocating')) = 0
      BY <1>1, <1>2, HeldCount
    <2>2. Sent' = Sent
      BY <1>2 DEF Sent, Held
    <2>3. Waiting' = Waiting
      BY <1>2, <1>6, <2>1, Sizes DEF Waiting, Travel
    <2>4. Places
      BY DEF Travel
    <2> QED
      BY <1>2, <1>3, <2>2, <2>3, <2>4 DEF Places
  <1> QED
    BY <1>2, <1>8, <1>9, <1>10 DEF Travel, Alive

\* A journey ends with a worker, and begins in the queue.
LEMMA GoesAway ==
  ASSUME NEW from, NEW to, NEW x, Apart(from), x \in from["process"],
         to["process"] = from["process"] \ {x},
         \A s \in Stage \ {"process"} : to[s] = from[s]
  PROVE  /\ Apart(to)
         /\ Everywhere(to) = Everywhere(from) \ {x}
         /\ Underway(to) = Underway(from) \ {x}
  <1>1. "process" \in Stage /\ "process" # "queued"
    BY DEF Stage
  <1>2. Apart(to)
    BY <1>1 DEF Apart
  <1>3. \A s \in Stage : to[s] = from[s] \ {x}
    BY <1>1 DEF Apart
  <1> QED
    BY <1>2, <1>3 DEF Everywhere, Underway

LEMMA GoesIn ==
  ASSUME NEW from, NEW to, NEW x, Apart(from), x \notin Everywhere(from),
         to["queued"] = from["queued"] \cup {x},
         \A s \in Stage \ {"queued"} : to[s] = from[s]
  PROVE  /\ Apart(to)
         /\ Everywhere(to) = Everywhere(from) \cup {x}
         /\ Underway(to) = Underway(from)
  <1>1. "queued" \in Stage
    BY DEF Stage
  <1>2. Apart(to)
    BY <1>1 DEF Apart, Everywhere
  <1> QED
    BY <1>1, <1>2 DEF Everywhere, Underway

LEMMA TravelSchedule ==
  ASSUME TypeOK, Unanswered, Travel, Alive, NEW w \in Workers, ScheduleRequest(w)
  PROVE  Alive' /\ Unanswered' /\ Travel'
  <1> DEFINE a == Head(requestResponseQueue)
  <1>1. /\ requestResponseQueue # << >> /\ requestResponseQueue \in Seq(Assignment)
        /\ OnceById(requestResponseQueue) /\ w \notin Processing
    BY DEF ScheduleRequest, TypeOK, Travel, Single, Processing
  <1>2. /\ a \in Assignment /\ a.id \in IdsOf(requestResponseQueue)
        /\ IdsOf(Tail(requestResponseQueue)) = IdsOf(requestResponseQueue) \ {a.id}
        /\ OnceById(Tail(requestResponseQueue))
        /\ Len(Tail(requestResponseQueue)) = Len(requestResponseQueue) - 1
    BY <1>1, Popped, PoppedId
  <1>3. /\ a.id \in Journey["response"] /\ "response" \in Stage
        /\ a.id \notin Journey["process"]
    BY <1>2, StageOf DEF Travel, Apart, Stage
  <1>4. a.id \in DOMAIN requestMap
    BY <1>3, OnItsWay
  <1>5. /\ requestResponseQueue' = Tail(requestResponseQueue) /\ fault' = fault
        /\ handler' = [handler EXCEPT ![w] = a]
        /\ workerPc' = [workerPc EXCEPT ![w] = "process"]
        /\ UNCHANGED <<nextRequestId, requestMap, requestQueue, requestsInFlight, sending,
                       allocating, clientToServer, serverToClient, received>>
    BY <1>4 DEF ScheduleRequest, CreateHandler, requestVars, dispatcherVars, mqVars, serviceVars
  <1> HIDE DEF a
  <1>6. /\ Processing' = Processing \cup {w}
        /\ handler'[w] = a /\ \A v \in Processing : handler'[v] = handler[v]
    BY <1>1, <1>5 DEF Processing, TypeOK
  <1>7. Cardinality(Processing') = Cardinality(Processing) + 1
    BY <1>1, <1>6, ProcessingFinite, FS_AddElement
  <1>8. Goes(a.id, "response", "process", Journey, Journey')
    <2>1. Journey'["response"] = Journey["response"] \ {a.id}
      BY <1>2, <1>5, StageOf, StageOfNext
    <2>2. {handler'[v].id : v \in Processing'} = {handler[v].id : v \in Processing} \cup {a.id}
      BY <1>6
    <2>3. Journey'["process"] = Journey["process"] \cup {a.id}
      BY <2>2, StageOf, StageOfNext
    <2>4. \A s \in Stage \ {"response", "process"} : Journey'[s] = Journey[s]
      BY <1>5, StageKept DEF Stage
    <2> QED
      BY <1>3, <2>1, <2>3, <2>4 DEF Goes, Stage
  <1>9. Apart(Journey)' /\ Unanswered' /\ Counted'
    BY <1>5, <1>8, TravelOn DEF Travel, Counted
  <1>10. Single'
    <2>1. \A v \in Processing : handler[v].id # a.id
      BY <1>3, StageOf
    <2>2. \A u, v \in Processing' : handler'[u].id = handler'[v].id => u = v
      BY <1>6, <2>1 DEF Travel, Single
    <2> QED
      BY <1>2, <1>5, <2>2 DEF Travel, Single, Once, OnceById
  <1>11. Places'
    <2>1. Sent' = Sent
      BY <1>5 DEF Sent, Held
    <2>2. Waiting' = Waiting - 1
      <3>1. Held(allocating') = Held(allocating)
        BY <1>5 DEF Held
      <3>2. /\ Len(requestResponseQueue') = Len(requestResponseQueue) - 1 /\ Counted
            /\ serverToClient' = serverToClient
        BY <1>2, <1>5 DEF Travel
      <3>3. /\ Len(requestResponseQueue) \in Nat /\ Cardinality(Held(allocating)) \in Nat
            /\ Len(serverToClient) \in Nat
        BY <3>2, Sizes
      <3> QED
        BY <3>1, <3>2, <3>3 DEF Waiting
    <2>3. Places /\ Counted
      BY DEF Travel
    <2>4. requestsInFlight = Sent + (Waiting - 1) + (Cardinality(Processing) + 1)
      BY <2>3, Sizes DEF Places
    <2> QED
      BY <1>5, <1>7, <2>1, <2>2, <2>4 DEF Places
  <1> QED
    BY <1>5, <1>9, <1>10, <1>11 DEF Travel, Alive

LEMMA TravelComplete ==
  ASSUME TypeOK, Holders, Unanswered, Travel, Alive, NEW w \in Workers, CompleteRequest(w)
  PROVE  Alive' /\ Unanswered' /\ Travel'
  <1> DEFINE x == handler[w].id
  <1>1. workerPc[w] = "process" /\ w \in Processing
    BY DEF CompleteRequest, Processing
  <1>2. x \in Journey["process"] /\ "process" \in Stage /\ x \in InFlight
    BY <1>1, ProcessedInFlight DEF Stage
  <1>3. x \in DOMAIN requestMap /\ ~requestMap[x]
    BY <1>2, OnItsWay
  <1>4. /\ requestMap' = [requestMap EXCEPT ![x] = TRUE] /\ fault' = fault
        /\ requestsInFlight' = requestsInFlight - 1
        /\ workerPc' = [workerPc EXCEPT ![w] = "completed"]
        /\ UNCHANGED <<nextRequestId, requestQueue, requestResponseQueue, sending, allocating,
                       handler, clientToServer, serverToClient, received>>
    BY <1>3 DEF CompleteRequest, dispatcherVars, mqVars, serviceVars
  <1>5. Processing' = Processing \ {w}
    BY <1>4 DEF Processing, TypeOK
  <1>6. Cardinality(Processing') = Cardinality(Processing) - 1
    BY <1>1, <1>5, ProcessingFinite, FS_RemoveElement
  <1>7. \A v \in Processing \ {w} : handler[v].id # x
    BY <1>1 DEF Travel, Single
  <1>8. Journey'["process"] = Journey["process"] \ {x}
    <2>1. {handler'[v].id : v \in Processing'} = {handler[v].id : v \in Processing} \ {x}
      BY <1>1, <1>4, <1>5, <1>7
    <2> QED
      BY <2>1, StageOf, StageOfNext
  <1>9. \A s \in Stage \ {"process"} : Journey'[s] = Journey[s]
    BY <1>4, StageKept DEF Stage
  <1>10. /\ Apart(Journey') /\ Everywhere(Journey') = Everywhere(Journey) \ {x}
         /\ Underway(Journey') = Underway(Journey) \ {x}
    BY <1>2, <1>8, <1>9, GoesAway DEF Travel
  <1> HIDE DEF x
  <1>11. Apart(Journey)'
    BY <1>10 DEF Apart
  <1>12. Unanswered'
    <2>1. DOMAIN requestMap' = DOMAIN requestMap
      BY <1>4
    <2>2. \A id \in DOMAIN requestMap : requestMap'[id] = IF id = x THEN TRUE ELSE requestMap[id]
      BY <1>4
    <2>3. {id \in DOMAIN requestMap : ~requestMap[id]} = Everywhere(Journey)
      BY DEF Unanswered
    <2>4. {id \in DOMAIN requestMap' : ~requestMap'[id]} = Everywhere(Journey')
      BY <1>10, <2>1, <2>2, <2>3
    <2> QED
      BY <1>4, <2>1, <2>4 DEF Unanswered, Everywhere
  <1>13. Counted'
    <2>1. InFlight' = InFlight \ {x} /\ IsFiniteSet(InFlight)
      BY <1>10, UnderwayInFlight, UnderwayInFlightNext DEF Travel, Counted
    <2>2. IsFiniteSet(InFlight') /\ Cardinality(InFlight') = Cardinality(InFlight) - 1
      BY <1>2, <2>1, FS_RemoveElement
    <2> QED
      BY <1>4, <2>2 DEF Travel, Counted
  <1>14. Single'
    BY <1>4, <1>5 DEF Travel, Single, Once, OnceById
  <1>15. Places'
    <2>1. Sent' = Sent /\ Waiting' = Waiting
      BY <1>4 DEF Sent, Waiting, Held
    <2>2. requestsInFlight = Sent + Waiting + Cardinality(Processing)
      BY DEF Travel, Places
    <2>3. Sent \in Nat /\ Waiting \in Nat /\ Cardinality(Processing) \in Nat
      BY Sizes DEF Travel
    <2>4. requestsInFlight - 1 = Sent + Waiting + (Cardinality(Processing) - 1)
      BY <2>2, <2>3
    <2> QED
      BY <1>4, <1>6, <2>1, <2>4 DEF Places
  <1> QED
    BY <1>4, <1>11, <1>12, <1>13, <1>14, <1>15 DEF Travel, Alive

LEMMA TravelNew ==
  ASSUME TypeOK, Unanswered, Travel, Alive, NewRequest
  PROVE  Alive' /\ Unanswered' /\ Travel'
  <1> DEFINE x == nextRequestId
  <1>1. x \in Ids /\ requestQueue \in Seq(Ids) /\ x \in Nat
    BY TypeNewRequest DEF TypeOK
  <1>2. x \notin DOMAIN requestMap
    BY <1>1 DEF Unanswered
  <1>3. x \notin Everywhere(Journey) /\ x \notin Journey["queued"]
    BY <1>2 DEF Unanswered, Everywhere, Stage
  <1>4. /\ requestQueue' = Append(requestQueue, x) /\ nextRequestId' = x + 1 /\ fault' = fault
        /\ requestMap' = [id \in DOMAIN requestMap \cup {x} |-> id # x /\ requestMap[id]]
        /\ UNCHANGED <<requestsInFlight, requestResponseQueue, sending, allocating, workerPc,
                       handler, clientToServer, serverToClient, received>>
    BY DEF NewRequest, dispatcherVars, workerVars, mqVars, serviceVars
  <1>5. Processing' = Processing
    BY <1>4 DEF Processing
  <1>6. ToSet(requestQueue') = ToSet(requestQueue) \cup {x} /\ Once(requestQueue')
    BY <1>1, <1>3, <1>4, Pushed, StageOf DEF Travel, Single
  <1>7. Journey'["queued"] = Journey["queued"] \cup {x}
    BY <1>6, StageOf, StageOfNext
  <1>8. \A s \in Stage \ {"queued"} : Journey'[s] = Journey[s]
    BY <1>4, <1>5, StageKept DEF Stage
  <1>9. /\ Apart(Journey') /\ Everywhere(Journey') = Everywhere(Journey) \cup {x}
        /\ Underway(Journey') = Underway(Journey)
    BY <1>3, <1>7, <1>8, GoesIn DEF Travel
  <1>10. Apart(Journey)'
    BY <1>9 DEF Apart
  <1>11. Unanswered'
    <2>1. DOMAIN requestMap' = DOMAIN requestMap \cup {x}
      BY <1>4
    <2>2. \A id \in DOMAIN requestMap' : id < nextRequestId'
      <3>1. \A id \in DOMAIN requestMap : id \in Nat /\ id < x
        BY DEF Unanswered, TypeOK, Ids
      <3> QED
        BY <1>1, <1>4, <2>1, <3>1
    <2>3. \A id \in DOMAIN requestMap' : ~requestMap'[id] <=> id = x \/ ~requestMap[id]
      BY <1>4, Zenon
    <2>4. {id \in DOMAIN requestMap' : ~requestMap'[id]} = Everywhere(Journey')
      BY <1>2, <1>9, <2>1, <2>3 DEF Unanswered
    <2> QED
      BY <2>2, <2>4 DEF Unanswered, Everywhere
  <1>12. Counted'
    BY <1>4, <1>9, UnderwayInFlight, UnderwayInFlightNext DEF Travel, Counted
  <1>13. Single'
    BY <1>4, <1>5, <1>6 DEF Travel, Single, Once, OnceById
  <1>14. Places'
    BY <1>4, <1>5 DEF Travel, Places, Sent, Waiting, Held
  <1> QED
    BY <1>4, <1>10, <1>11, <1>12, <1>13, <1>14 DEF Travel, Alive
-----------------------------------------------------------------------------
(* Callers *)

\* A step that leaves the callers and the map alone.
LEMMA OwnersKept ==
  ASSUME Owners, CallersAwake, UNCHANGED <<callerVars, requestMap>>
  PROVE  Owners' /\ CallersAwake'
  <1>1. \A c \in Callers : Owned(c)' = Owned(c)
    BY DEF Owned, callerVars
  <1>2. UNCHANGED <<callerPc, waitsFor, outstanding, requestMap>>
    BY DEF callerVars
  <1>3. UNION {Owned(c)' : c \in Callers} = UNION {Owned(c) : c \in Callers}
    BY <1>1
  <1> QED
    BY <1>1, <1>2, <1>3 DEF Owners, CallersAwake

\* Caller c alone changes what it owns, by request id.
LEMMA OwnersCall ==
  ASSUME TypeOK, Owners, CallersAwake, Unanswered, NEW c \in Callers,
         CallServiceSync(c) \/ CallServiceAsync(c)
  PROVE  Owners' /\ CallersAwake'
  <1> DEFINE x == nextRequestId
  <1>1. NewRequest /\ callerPc[c] = "idle"
    BY DEF CallServiceSync, CallServiceAsync
  <1>2. x \in Nat /\ x \notin DOMAIN requestMap
    BY DEF TypeOK, Unanswered
  <1>3. /\ DOMAIN requestMap' = DOMAIN requestMap \cup {x} /\ ~requestMap'[x]
        /\ \A id \in DOMAIN requestMap : requestMap'[id] <=> requestMap[id]
    <2>1. requestMap' = [id \in DOMAIN requestMap \cup {x} |-> id # x /\ requestMap[id]]
      BY <1>1 DEF NewRequest
    <2>2. DOMAIN requestMap' = DOMAIN requestMap \cup {x}
      BY <2>1
    <2>3. \A id \in DOMAIN requestMap \cup {x} : requestMap'[id] <=> id # x /\ requestMap[id]
      BY <2>1, Zenon
    <2> QED
      BY <1>2, <2>2, <2>3
  <1>4. \A d \in Callers \ {c} : /\ outstanding'[d] = outstanding[d] /\ callerPc'[d] = callerPc[d]
                                 /\ waitsFor'[d] = waitsFor[d]
    BY DEF CallServiceSync, CallServiceAsync, TypeOK
  <1>5. \/ /\ outstanding'[c] = outstanding[c] /\ callerPc'[c] = "asleep" /\ waitsFor'[c] = x
        \/ /\ outstanding'[c] = outstanding[c] \cup {x} /\ callerPc'[c] = "idle"
    BY <1>1 DEF CallServiceSync, CallServiceAsync, TypeOK
  <1>6. \A d \in Callers \ {c} : Owned(d)' = Owned(d)
    BY <1>4 DEF Owned
  <1>7. Owned(c)' = Owned(c) \cup {x}
    BY <1>1, <1>5 DEF Owned
  <1>8. \A d \in Callers : x \notin Owned(d)
    BY <1>2 DEF Owners
  <1>9. \A d \in Callers \ {c} : callerPc[d] # "idle" => waitsFor[d] \in DOMAIN requestMap
    BY DEF Owners, Owned
  <1> HIDE DEF x
  <1>10. DOMAIN requestMap' = UNION {Owned(d)' : d \in Callers}
    BY <1>3, <1>6, <1>7 DEF Owners
  <1>11. \A d, e \in Callers : d # e => Owned(d)' \cap Owned(e)' = {}
    BY <1>6, <1>7, <1>8 DEF Owners
  <1>12. \A d \in Callers : callerPc'[d] # "idle" => waitsFor'[d] \notin outstanding'[d]
    BY <1>4, <1>5, <1>8 DEF Owners, Owned
  <1>13. CallersAwake'
    <2> SUFFICES ASSUME NEW d \in Callers, callerPc'[d] = "asleep"
                 PROVE  ~requestMap'[waitsFor'[d]]
      BY DEF CallersAwake
    <2>1. CASE d = c
      BY <1>3, <1>5, <2>1
    <2>2. CASE d # c
      BY <1>3, <1>4, <1>9, <2>2 DEF CallersAwake
    <2> QED
      BY <2>1, <2>2
  <1> QED
    BY <1>10, <1>11, <1>12, <1>13 DEF Owners

\* A caller that looks for its request finds it.
LEMMA OwnersAwait ==
  ASSUME TypeOK, Owners, CallersAwake, NEW c \in Callers, NEW id, AwaitAnswer(c, id),
         \/ callerPc[c] = "idle" /\ id \in outstanding[c]
            /\ outstanding' = [outstanding EXCEPT ![c] = @ \ {id}]
         \/ callerPc[c] # "idle" /\ id = waitsFor[c] /\ outstanding' = outstanding
  PROVE  Owners' /\ CallersAwake' /\ fault' = fault
  <1>1. id \in Owned(c) /\ id \in DOMAIN requestMap
    BY DEF Owners, Owned
  <1>2. /\ outstanding'[c] = outstanding[c] \ {id}
        /\ \A d \in Callers \ {c} : outstanding'[d] = outstanding[d]
    BY DEF Owners, TypeOK
  <1>3. Owned(c) = outstanding'[c] \cup {id} /\ id \notin outstanding'[c]
    BY <1>2 DEF Owned
  <1>4. \/ /\ AnswerReady(id) /\ callerPc'[c] = "idle"
           /\ requestMap' = [i \in DOMAIN requestMap \ {id} |-> requestMap[i]]
        \/ /\ ~AnswerReady(id) /\ callerPc'[c] = "asleep" /\ waitsFor'[c] = id
           /\ requestMap' = requestMap
    BY <1>1 DEF AwaitAnswer, TypeOK
  <1>5. \A d \in Callers \ {c} : callerPc'[d] = callerPc[d] /\ waitsFor'[d] = waitsFor[d]
    BY <1>1 DEF AwaitAnswer, TypeOK
  <1>6. fault' = fault
    BY <1>1 DEF AwaitAnswer
  <1>7. \A d \in Callers \ {c} : Owned(d)' = Owned(d) /\ id \notin Owned(d)
    BY <1>1, <1>2, <1>5 DEF Owned, Owners
  <1>8. \A d \in Callers \ {c} : callerPc[d] # "idle" =>
          waitsFor[d] \in DOMAIN requestMap /\ waitsFor[d] # id
    BY <1>7 DEF Owners, Owned
  <1>9. CASE AnswerReady(id)
    <2>1. Owned(c)' = Owned(c) \ {id} /\ callerPc'[c] = "idle"
      BY <1>3, <1>4, <1>9 DEF Owned
    <2>2. DOMAIN requestMap' = DOMAIN requestMap \ {id}
          /\ \A i \in DOMAIN requestMap \ {id} : requestMap'[i] = requestMap[i]
      BY <1>4, <1>9
    <2>3. DOMAIN requestMap' = UNION {Owned(d)' : d \in Callers}
      BY <1>7, <2>1, <2>2 DEF Owners
    <2>4. \A d, e \in Callers : d # e => Owned(d)' \cap Owned(e)' = {}
      BY <1>7, <2>1 DEF Owners
    <2>5. \A d \in Callers : callerPc'[d] # "idle" => waitsFor'[d] \notin outstanding'[d]
      BY <1>2, <1>5, <2>1 DEF Owners
    <2>6. CallersAwake'
      BY <1>5, <1>8, <2>1, <2>2 DEF CallersAwake
    <2> QED
      BY <1>6, <2>3, <2>4, <2>5, <2>6 DEF Owners
  <1>10. CASE ~AnswerReady(id)
    <2>1. callerPc'[c] = "asleep" /\ waitsFor'[c] = id /\ requestMap' = requestMap
      BY <1>4, <1>10
    <2>2. Owned(c)' = Owned(c)
      BY <1>3, <2>1 DEF Owned
    <2>3. \A d \in Callers : Owned(d)' = Owned(d)
      BY <1>7, <2>2
    <2>4. UNION {Owned(d)' : d \in Callers} = UNION {Owned(d) : d \in Callers}
      BY <2>3
    <2>5. \A d \in Callers : callerPc'[d] # "idle" => waitsFor'[d] \notin outstanding'[d]
      BY <1>2, <1>3, <1>5, <2>1 DEF Owners
    <2>6. CallersAwake'
      BY <1>5, <1>10, <2>1 DEF CallersAwake, AnswerReady
    <2> QED
      BY <1>6, <2>1, <2>3, <2>4, <2>5, <2>6 DEF Owners
  <1> QED
    BY <1>9, <1>10

LEMMA OwnersSpurious ==
  ASSUME TypeOK, Owners, CallersAwake, NEW c \in Callers, WakeSpuriously(c)
  PROVE  Owners' /\ CallersAwake'
  <1>1. /\ callerPc[c] = "asleep" /\ callerPc'[c] = "woken"
        /\ \A d \in Callers \ {c} : callerPc'[d] = callerPc[d]
        /\ UNCHANGED <<waitsFor, outstanding, requestMap>>
    BY DEF WakeSpuriously, TypeOK, requestVars
  <1>2. \A d \in Callers : Owned(d)' = Owned(d)
    BY <1>1 DEF Owned
  <1>3. UNION {Owned(d)' : d \in Callers} = UNION {Owned(d) : d \in Callers}
    BY <1>2
  <1>4. CallersAwake'
    BY <1>1 DEF CallersAwake
  <1>5. \A d \in Callers : callerPc'[d] # "idle" => waitsFor'[d] \notin outstanding'[d]
    BY <1>1 DEF Owners
  <1> QED
    BY <1>1, <1>2, <1>3, <1>4, <1>5 DEF Owners

\* completeRequest wakes the one who sleeps on its request.
LEMMA OwnersComplete ==
  ASSUME TypeOK, Owners, CallersAwake, NEW w \in Workers, CompleteRequest(w),
         handler[w].id \in DOMAIN requestMap
  PROVE  Owners' /\ CallersAwake'
  <1> DEFINE x == handler[w].id
  <1>1. /\ requestMap' = [requestMap EXCEPT ![x] = TRUE]
        /\ \A d \in Callers : callerPc'[d] = IF callerPc[d] = "asleep" /\ waitsFor[d] = x
                                             THEN "woken" ELSE callerPc[d]
        /\ UNCHANGED <<waitsFor, outstanding>>
    BY DEF CompleteRequest, NotifyCaller
  <1>2. /\ DOMAIN requestMap' = DOMAIN requestMap
        /\ \A id \in DOMAIN requestMap \ {x} : requestMap'[id] = requestMap[id]
    BY <1>1
  <1> HIDE DEF x
  <1>3. \A d \in Callers : Owned(d)' = Owned(d)
    BY <1>1 DEF Owned
  <1>4. UNION {Owned(d)' : d \in Callers} = UNION {Owned(d) : d \in Callers}
    BY <1>3
  <1>5. \A d \in Callers : callerPc[d] # "idle" => waitsFor[d] \in DOMAIN requestMap
    BY DEF Owners, Owned
  <1>6. CallersAwake'
    <2> SUFFICES ASSUME NEW d \in Callers, callerPc'[d] = "asleep"
                 PROVE  ~requestMap'[waitsFor'[d]]
      BY DEF CallersAwake
    <2>1. callerPc[d] = "asleep" /\ waitsFor[d] # x
      BY <1>1
    <2>2. waitsFor[d] \in DOMAIN requestMap /\ ~requestMap[waitsFor[d]]
      BY <1>5, <2>1 DEF CallersAwake
    <2> QED
      BY <1>1, <1>2, <2>1, <2>2
  <1>7. \A d \in Callers : callerPc'[d] # "idle" => waitsFor'[d] \notin outstanding'[d]
    BY <1>1 DEF Owners
  <1> QED
    BY <1>2, <1>3, <1>4, <1>6, <1>7 DEF Owners
-----------------------------------------------------------------------------
(* Workers enough *)

\* As many workers as are not processing a request: enough for those that wait.
LEMMA PlacesSuffice == TypeOK /\ Counted /\ Places => AssignmentHasWorker
  <1> SUFFICES ASSUME TypeOK, Counted, Places PROVE AssignmentHasWorker
    OBVIOUS
  <1> DEFINE Others == {w \in Workers : workerPc[w] # "process"}
  <1>1. Others = Workers \ Processing /\ Processing \subseteq Workers
    BY DEF Processing
  <1>2. Cardinality(Others) = NumWorkers - Cardinality(Processing)
    <2>1. Workers \cap Processing = Processing
      BY <1>1
    <2>2. Cardinality(Others) = Cardinality(Workers) - Cardinality(Workers \cap Processing)
      BY <1>1, ProcessingFinite, FS_Difference
    <2> QED
      BY <2>1, <2>2, ProcessingFinite
  <1>3. requestsInFlight <= NumWorkers /\ NumWorkers \in Nat
    BY ServicerAssumption DEF TypeOK
  <1>4. requestsInFlight = Sent + Waiting + Cardinality(Processing)
    BY DEF Places
  <1>5. Waiting <= NumWorkers - Cardinality(Processing)
    BY <1>3, <1>4, Sizes
  <1> QED
    BY <1>2, <1>5 DEF AssignmentHasWorker, Waiting

LEMMA PlacesSufficeNext == TypeOK' /\ Counted' /\ Places' => AssignmentHasWorker'
  BY PlacesSuffice, PTL
-----------------------------------------------------------------------------
(* The steps of each actor *)

\* A step that leaves the requests and their journeys alone.
LEMMA TrackedKept ==
  ASSUME Unanswered, Travel,
         UNCHANGED <<requestVars, sending, clientToServer, received, serverToClient, allocating,
                     requestResponseQueue>>,
         Processing' = Processing, \A w \in Processing : handler'[w] = handler[w]
  PROVE  Unanswered' /\ Travel'
  <1>1. Travel' /\ Journey' = Journey
    BY TravelKept DEF requestVars
  <1>2. Unanswered'
    BY <1>1 DEF Unanswered, Everywhere, requestVars
  <1> QED
    BY <1>1, <1>2

\* A caller's step.
LEMMA CallerTracked ==
  ASSUME TypeOK, Alive, Tracked, CallersAwake, NEW c \in Callers, CallerStep(c)
  PROVE  Alive' /\ Tracked' /\ CallersAwake'
  <1>1. Travel /\ Unanswered /\ Holders /\ Owners /\ NoneLeft
    BY DEF Tracked, Travel
  <1>2. ASSUME CallServiceSync(c) \/ CallServiceAsync(c)
        PROVE  Alive' /\ Tracked' /\ CallersAwake'
    <2>1. NewRequest
      BY <1>2 DEF CallServiceSync, CallServiceAsync
    <2>2. Alive' /\ Unanswered' /\ Travel'
      BY <1>1, <2>1, TravelNew
    <2>3. Owners' /\ CallersAwake'
      BY <1>1, <1>2, OwnersCall
    <2>4. Holders'
      BY <1>1, <2>1 DEF Holders, NewRequest, dispatcherVars, workerVars
    <2>5. NoneLeft'
      BY <2>1 DEF NoneLeft, NewRequest, Open
    <2> QED
      BY <2>2, <2>3, <2>4, <2>5 DEF Tracked, Travel
  <1>3. ASSUME NEW id, AwaitAnswer(c, id),
               \/ callerPc[c] = "idle" /\ id \in outstanding[c]
                  /\ outstanding' = [outstanding EXCEPT ![c] = @ \ {id}]
               \/ callerPc[c] # "idle" /\ id = waitsFor[c] /\ outstanding' = outstanding
        PROVE  Alive' /\ Tracked' /\ CallersAwake'
    <2>1. Owners' /\ CallersAwake' /\ fault' = fault
      BY <1>1, <1>3, OwnersAwait
    <2>2. /\ UNCHANGED <<nextRequestId, requestQueue, requestsInFlight, requestResponseQueue,
                         sending, allocating, dispatcherPc, workerPc, handler, clientToServer,
                         serverToClient, received, destructor>>
          /\ \/ requestMap' = requestMap
             \/ requestMap' = [i \in DOMAIN requestMap \ {id} |-> requestMap[i]] /\ requestMap[id]
      BY <1>3, <2>1 DEF AwaitAnswer, AnswerReady, dispatcherVars, workerVars, mqVars, serviceVars
    <2>3. Travel' /\ Journey' = Journey
      <3>1. Processing' = Processing
        BY <2>2 DEF Processing
      <3> QED
        BY <1>1, <2>2, <3>1, TravelKept
    <2>4. Unanswered'
      <3>1. /\ DOMAIN requestMap' \subseteq DOMAIN requestMap
            /\ \A i \in DOMAIN requestMap' : requestMap'[i] = requestMap[i]
            /\ \A i \in DOMAIN requestMap \ DOMAIN requestMap' : requestMap[i]
        BY <2>2
      <3>2. {i \in DOMAIN requestMap' : ~requestMap'[i]} =
              {i \in DOMAIN requestMap : ~requestMap[i]}
        BY <3>1
      <3> QED
        BY <1>1, <2>2, <2>3, <3>1, <3>2 DEF Unanswered, Everywhere
    <2>5. Holders'
      BY <1>1, <2>2 DEF Holders
    <2>6. NoneLeft'
      BY <1>1, <2>2 DEF NoneLeft, Open
    <2> QED
      BY <2>1, <2>3, <2>4, <2>5, <2>6 DEF Tracked, Travel, Alive
  <1>4. ASSUME WakeSpuriously(c) PROVE Alive' /\ Tracked' /\ CallersAwake'
    <2>1. Owners' /\ CallersAwake'
      BY <1>1, <1>4, OwnersSpurious
    <2>2. UNCHANGED <<requestVars, requestResponseQueue, dispatcherVars, workerVars, mqVars,
                      serviceVars, destructor, fault>>
      BY <1>4 DEF WakeSpuriously
    <2>3. Unanswered' /\ Travel'
      <3>1. Processing' = Processing /\ handler' = handler
        BY <2>2 DEF Processing, workerVars
      <3> QED
        BY <1>1, <2>2, <3>1, TrackedKept DEF dispatcherVars, mqVars, serviceVars
    <2>4. Holders' /\ NoneLeft'
      BY <1>1, <2>2 DEF Holders, NoneLeft, Open, requestVars, dispatcherVars, workerVars
    <2> QED
      BY <2>1, <2>2, <2>3, <2>4 DEF Tracked, Travel, Alive
  <1>5. ASSUME CallerWakes(c) PROVE Alive' /\ Tracked' /\ CallersAwake'
    BY <1>3, <1>5 DEF CallerWakes
  <1>6. ASSUME NEW id \in outstanding[c], WaitServiceSync(c, id)
        PROVE  Alive' /\ Tracked' /\ CallersAwake'
    BY <1>3, <1>6 DEF WaitServiceSync
  <1> QED
    BY <1>2, <1>4, <1>5, <1>6 DEF CallerStep

\* A step of ~Servicer: it begins when the callers have all their answers.
LEMMA DestructorTracked ==
  ASSUME TypeOK, Alive, Tracked, CallersAwake, CloseQueues \/ JoinThread
  PROVE  Alive' /\ Tracked' /\ CallersAwake'
  <1>1. Travel /\ Unanswered /\ Holders /\ Owners /\ NoneLeft
    BY DEF Tracked, Travel
  <1>2. UNCHANGED <<requestVars, requestResponseQueue, callerVars, dispatcherVars, workerVars,
                    shmVars, mqVars, serviceVars, fault>>
    BY DEF CloseQueues, JoinThread
  <1>3. Unanswered' /\ Travel'
    <2>1. Processing' = Processing /\ handler' = handler
      BY <1>2 DEF Processing, workerVars
    <2> QED
      BY <1>1, <1>2, <2>1, TrackedKept DEF dispatcherVars, mqVars, serviceVars
  <1>4. Owners' /\ CallersAwake'
    BY <1>1, <1>2, OwnersKept DEF requestVars
  <1>5. Holders'
    BY <1>1, <1>2 DEF Holders, dispatcherVars, workerVars
  <1>6. DOMAIN requestMap = {}
    <2>1. CASE CloseQueues
      <3>1. \A c \in Callers : Owned(c) = {}
        BY <2>1 DEF CloseQueues, Owned
      <3> QED
        BY <1>1, <3>1 DEF Owners
    <2>2. CASE JoinThread
      <3>1. ~Open
        BY <2>2, ServicerAssumption DEF JoinThread, Open, Workers, DispatcherStops
      <3> QED
        BY <1>1, <3>1 DEF NoneLeft
    <2> QED
      BY <2>1, <2>2
  <1>7. NoneLeft'
    BY <1>2, <1>6 DEF NoneLeft, requestVars
  <1> QED
    BY <1>2, <1>3, <1>4, <1>5, <1>7 DEF Tracked, Travel, Alive

\* A step of the dispatcher: only ReceiveResponse may throw, and what it has
\* received is then lost, so no worker is needed for it.
LEMMA DispatcherTracked ==
  ASSUME TypeOK, Alive, Tracked, CallersAwake, AssignmentHasWorker, DispatcherStep
  PROVE  /\ Alive' => Tracked'
         /\ ~Alive' => fault' = "already allocated" /\ AssignmentHasWorker'
         /\ CallersAwake'
  <1>1. Travel /\ Unanswered /\ Holders /\ Owners /\ NoneLeft
    BY DEF Tracked, Travel
  <1>2. UNCHANGED <<nextRequestId, requestMap, callerVars, workerVars, destructor>>
    BY DEF DispatcherStep, TakeRequest, SendRequest, EndSendRequests, ReceiveResponse,
       FinishAllocation, EndReceiveResponses, requestVars
  <1>3. Owners' /\ CallersAwake'
    BY <1>1, <1>2, OwnersKept
  <1>4. NoneLeft'
    BY <1>1, <1>2 DEF NoneLeft, Open
  <1>5. \A w \in Workers :
          workerPc'[w] \in {"process", "completed", "release"} <=> handler'[w] # None
    BY <1>1, <1>2 DEF Holders, workerVars
  <1>6. ASSUME Alive', Unanswered', Travel',
               dispatcherPc' = "sending" <=> sending' # None,
               dispatcherPc' = "allocate" <=> allocating' # None
        PROVE  Alive' /\ Tracked'
    BY <1>3, <1>4, <1>5, <1>6 DEF Tracked, Travel, Holders
  <1>7. CASE TakeRequest
    <2>1. Alive' /\ Unanswered' /\ Travel'
      BY <1>1, <1>7, TravelTake
    <2>2. requestQueue \in Seq(Ids) /\ requestQueue # << >>
      BY <1>7 DEF TakeRequest, TypeOK
    <2>3. Head(requestQueue) # None
      BY <2>2, Popped, NoneAssumption
    <2>4. /\ dispatcherPc' = "sending" /\ sending' # None /\ dispatcherPc = "send"
          /\ allocating' = allocating
      BY <1>7, <2>1, <2>3 DEF TakeRequest, Alive
    <2>5. allocating' = None
      BY <1>1, <2>4 DEF Holders
    <2> QED
      BY <1>3, <1>6, <2>1, <2>4, <2>5
  <1>8. CASE SendRequest
    <2>1. Alive' /\ Unanswered' /\ Travel'
      BY <1>1, <1>8, TravelSend
    <2>2. /\ dispatcherPc' = "send" /\ sending' = None /\ dispatcherPc = "sending"
          /\ allocating' = allocating
      BY <1>8, <2>1 DEF SendRequest, Alive
    <2>3. allocating' = None
      BY <1>1, <2>2 DEF Holders
    <2> QED
      BY <1>3, <1>6, <2>1, <2>2, <2>3
  <1>9. CASE EndSendRequests \/ EndReceiveResponses
    <2>1. /\ UNCHANGED <<requestVars, requestResponseQueue, sending, allocating, workerVars,
                         mqVars, serviceVars, fault>>
          /\ dispatcherPc \in {"send", "receive"}
          /\ dispatcherPc' \in {"send", "receive", "stopped"}
      BY <1>9 DEF EndSendRequests, EndReceiveResponses
    <2>2. Processing' = Processing /\ handler' = handler
      BY <2>1 DEF Processing, workerVars
    <2>3. Unanswered' /\ Travel'
      BY <1>1, <2>1, <2>2, TrackedKept DEF mqVars, serviceVars
    <2>4. sending' = None /\ allocating' = None
      BY <1>1, <2>1 DEF Holders
    <2>5. Alive'
      BY <2>1 DEF Alive
    <2> QED
      BY <1>3, <1>6, <2>1, <2>3, <2>4, <2>5
  <1>10. CASE ReceiveResponse
    <2>1. CASE Alive'
      <3>1. Unanswered' /\ Travel'
        BY <1>1, <1>10, <2>1, TravelReceive
      <3>2. serverToClient \in Seq(Assignment) /\ serverToClient # << >>
        BY <1>10 DEF ReceiveResponse, TypeOK
      <3>3. Head(serverToClient) # None
        BY <3>2, Popped, NoneAssumption
      <3>4. /\ dispatcherPc' = "allocate" /\ allocating' # None /\ dispatcherPc = "receive"
            /\ sending' = sending
        BY <1>10, <2>1, <3>3 DEF ReceiveResponse, Alive
      <3>5. sending' = None
        BY <1>1, <3>4 DEF Holders
      <3> QED
        BY <1>3, <1>6, <2>1, <3>1, <3>4, <3>5
    <2>2. CASE ~Alive'
      <3>1. /\ fault' = "already allocated" /\ allocating' = allocating
            /\ serverToClient' = Tail(serverToClient) /\ serverToClient # << >>
            /\ requestResponseQueue' = requestResponseQueue /\ workerPc' = workerPc
        BY <1>10, <2>2 DEF ReceiveResponse, Alive, workerVars
      <3>2. Len(serverToClient') = Len(serverToClient) - 1
        BY <3>1, Popped DEF TypeOK
      <3>3. /\ Held(allocating') = Held(allocating)
            /\ {w \in Workers : workerPc'[w] # "process"} =
                 {w \in Workers : workerPc[w] # "process"}
        BY <3>1 DEF Held
      <3>4. /\ Len(requestResponseQueue) \in Nat /\ Cardinality(Held(allocating)) \in Nat
             /\ Len(serverToClient) \in Nat
        BY <1>1, Sizes DEF Travel
      <3>5. Waiting' = Waiting - 1 /\ Waiting \in Nat
        <4>1. Waiting' = Len(requestResponseQueue) + Cardinality(Held(allocating))
                           + (Len(serverToClient) - 1)
          BY <3>1, <3>2, <3>3 DEF Waiting
        <4> QED
          BY <3>4, <4>1 DEF Waiting
      <3>6. Waiting <= Cardinality({w \in Workers : workerPc[w] # "process"})
        BY DEF AssignmentHasWorker, Waiting
      <3>7. {w \in Workers : workerPc[w] # "process"} \in SUBSET Workers
        OBVIOUS
      <3>8. Cardinality({w \in Workers : workerPc[w] # "process"}) \in Nat
        BY <3>7, ProcessingFinite, FS_Subset, FS_CardinalityType
      <3>9. Waiting' <= Cardinality({w \in Workers : workerPc'[w] # "process"})
        BY <3>3, <3>5, <3>6, <3>8
      <3>10. AssignmentHasWorker'
        BY <3>9 DEF AssignmentHasWorker, Waiting, Held
      <3> QED
        BY <1>3, <2>2, <3>1, <3>10
    <2> QED
      BY <2>1, <2>2
  <1>11. CASE FinishAllocation
    <2>1. Alive' /\ Unanswered' /\ Travel'
      BY <1>1, <1>11, TravelAllocated
    <2>2. /\ dispatcherPc' = "receive" /\ allocating' = None /\ dispatcherPc = "allocate"
          /\ sending' = sending
      BY <1>11 DEF FinishAllocation
    <2>3. sending' = None
      BY <1>1, <2>2 DEF Holders
    <2> QED
      BY <1>3, <1>6, <2>1, <2>2, <2>3
  <1> QED
    BY <1>7, <1>8, <1>9, <1>10, <1>11 DEF DispatcherStep

\* A step of worker w.
LEMMA WorkerTracked ==
  ASSUME TypeOK, Alive, Tracked, CallersAwake, NEW w \in Workers, WorkerStep(w)
  PROVE  Alive' /\ Tracked' /\ CallersAwake'
  <1>1. Travel /\ Unanswered /\ Holders /\ Owners /\ NoneLeft
    BY DEF Tracked, Travel
  <1>2. UNCHANGED <<nextRequestId, waitsFor, outstanding, dispatcherVars, destructor>>
    BY DEF WorkerStep, ScheduleRequest, ScheduleTimeout, CompleteRequest, ReleaseSegment,
       FinishRelease, requestVars, callerVars
  <1>3. \A v \in Workers \ {w} : workerPc'[v] = workerPc[v] /\ handler'[v] = handler[v]
    BY DEF WorkerStep, ScheduleRequest, CreateHandler, ScheduleTimeout, CompleteRequest,
       ReleaseSegment, FinishRelease, TypeOK
  <1>4. ASSUME workerPc'[w] \in {"process", "completed", "release"} <=> handler'[w] # None
        PROVE  Holders'
    BY <1>1, <1>2, <1>3, <1>4 DEF Holders, dispatcherVars
  <1>5. CASE ScheduleRequest(w)
    <2>1. Alive' /\ Unanswered' /\ Travel'
      BY <1>1, <1>5, TravelSchedule
    <2>2. UNCHANGED <<requestMap, callerVars>>
      BY <1>5 DEF ScheduleRequest, requestVars
    <2>3. Owners' /\ CallersAwake'
      BY <1>1, <2>2, OwnersKept
    <2>4. requestResponseQueue \in Seq(Assignment) /\ requestResponseQueue # << >>
      BY <1>5 DEF ScheduleRequest, TypeOK
    <2>5. Head(requestResponseQueue) # None
      BY <2>4, Popped, NoneAssumption
    <2>6. workerPc'[w] = "process" /\ handler'[w] # None
      BY <1>5, <2>1, <2>5 DEF ScheduleRequest, CreateHandler, Alive, TypeOK
    <2>7. NoneLeft'
      BY <1>1, <1>2, <2>2 DEF NoneLeft, Open
    <2> QED
      BY <1>4, <2>1, <2>3, <2>6, <2>7 DEF Tracked, Travel
  <1>6. CASE CompleteRequest(w)
    <2>1. Alive' /\ Unanswered' /\ Travel'
      BY <1>1, <1>6, TravelComplete
    <2>2. handler[w].id \in DOMAIN requestMap
      BY <1>6, <2>1 DEF CompleteRequest, Alive
    <2>3. Owners' /\ CallersAwake'
      BY <1>1, <1>6, <2>2, OwnersComplete
    <2>4. workerPc[w] = "process" /\ workerPc'[w] = "completed" /\ handler'[w] = handler[w]
      BY <1>6, <2>2, <2>1 DEF CompleteRequest, TypeOK, Alive
    <2>5. workerPc'[w] \in {"process", "completed", "release"} <=> handler'[w] # None
      BY <1>1, <2>4 DEF Holders
    <2>6. DOMAIN requestMap' = DOMAIN requestMap
      BY <1>6, <2>2 DEF CompleteRequest
    <2>7. NoneLeft'
      BY <1>1, <1>2, <2>6 DEF NoneLeft, Open
    <2> QED
      BY <1>4, <2>1, <2>3, <2>5, <2>7 DEF Tracked, Travel
  <1>7. CASE ScheduleTimeout(w) \/ ReleaseSegment(w) \/ FinishRelease(w)
    <2>1. /\ UNCHANGED <<requestVars, requestResponseQueue, callerVars, mqVars, serviceVars, fault>>
          /\ workerPc[w] # "process" /\ workerPc'[w] # "process"
      BY <1>7 DEF ScheduleTimeout, ReleaseSegment, FinishRelease, TypeOK
    <2>2. Processing' = Processing /\ \A v \in Processing : handler'[v] = handler[v]
      BY <1>3, <2>1 DEF Processing
    <2>3. Unanswered' /\ Travel'
      BY <1>1, <1>2, <2>1, <2>2, TrackedKept DEF dispatcherVars, mqVars, serviceVars
    <2>4. Owners' /\ CallersAwake'
      BY <1>1, <2>1, OwnersKept DEF requestVars
    <2>5. workerPc'[w] \in {"process", "completed", "release"} <=> handler'[w] # None
      <3>1. CASE ScheduleTimeout(w)
        BY <1>1, <3>1 DEF ScheduleTimeout, Holders, TypeOK
      <3>2. CASE ReleaseSegment(w)
        BY <1>1, <3>2 DEF ReleaseSegment, Holders, TypeOK
      <3>3. CASE FinishRelease(w)
        BY <1>1, <3>3 DEF FinishRelease, Holders, TypeOK
      <3> QED
        BY <1>7, <3>1, <3>2, <3>3
    <2>6. NoneLeft' /\ Alive'
      BY <1>1, <1>2, <2>1 DEF NoneLeft, Open, Alive, requestVars
    <2> QED
      BY <1>4, <2>3, <2>4, <2>5, <2>6 DEF Tracked, Travel
  <1> QED
    BY <1>5, <1>6, <1>7 DEF WorkerStep

\* A step of the service.
LEMMA ServiceTracked ==
  ASSUME TypeOK, Alive, Tracked, CallersAwake, ServiceStep
  PROVE  Alive' /\ Tracked' /\ CallersAwake'
  <1>1. Travel /\ Unanswered /\ Holders /\ Owners /\ NoneLeft
    BY DEF Tracked, Travel
  <1>2. UNCHANGED <<requestVars, requestResponseQueue, callerVars, dispatcherVars, workerVars,
                    destructor, fault>>
    BY DEF ServiceStep, ServiceReceives, ServiceAssigns, ServiceAnswers, ServiceReleases
  <1>3. Unanswered' /\ Travel'
    <2>1. CASE ServiceReceives
      BY <1>1, <2>1, TravelReceived
    <2>2. ASSUME NEW id \in received, NEW segment \in serviceFree, ServiceAssigns(id, segment)
          PROVE  Unanswered' /\ Travel'
      BY <1>1, <2>2, TravelAssigned
    <2>3. ASSUME NEW assignment, ServiceAnswers(assignment) \/ ServiceReleases(assignment)
          PROVE  Unanswered' /\ Travel'
      <3>1. UNCHANGED <<mqVars, received>>
        BY <2>3 DEF ServiceAnswers, ServiceReleases
      <3>2. Processing' = Processing /\ handler' = handler
        BY <1>2 DEF Processing, workerVars
      <3> QED
        BY <1>1, <1>2, <3>1, <3>2, TrackedKept DEF dispatcherVars, mqVars
    <2> QED
      BY <2>1, <2>2, <2>3 DEF ServiceStep
  <1>4. Owners' /\ CallersAwake'
    BY <1>1, <1>2, OwnersKept DEF requestVars
  <1>5. Holders'
    BY <1>1, <1>2 DEF Holders, dispatcherVars, workerVars
  <1>6. NoneLeft' /\ Alive'
    BY <1>1, <1>2 DEF NoneLeft, Open, Alive, requestVars
  <1> QED
    BY <1>3, <1>4, <1>5, <1>6 DEF Tracked, Travel
-----------------------------------------------------------------------------
(* The invariant *)

LEMMA InitTracked == Init => SInv
  <1> SUFFICES ASSUME Init PROVE SInv
    OBVIOUS
  <1>1. TypeOK
    BY TypeInit
  <1>2. Processing = {} /\ DOMAIN requestMap = {} /\ Held(None) = {}
    BY DEF Init, Processing, Held
  <1>3. \A s \in Stage : Journey[s] = {}
    BY <1>2, StageOf, EmptyQueues DEF Init, Stage
  <1>4. Apart(Journey) /\ Everywhere(Journey) = {} /\ Underway(Journey) = {}
    BY <1>3 DEF Apart, Everywhere, Underway
  <1>5. Counted /\ Places
    <2>1. InFlight = {} /\ received = {} /\ requestsInFlight = 0
      BY <1>4, UnderwayInFlight DEF Init
    <2>2. Sent = 0 /\ Waiting = 0 /\ Cardinality(Processing) = 0
      BY <1>2, FS_EmptySet, EmptyQueues DEF Init, Sent, Waiting
    <2> QED
      BY <2>1, <2>2, FS_EmptySet DEF Counted, Places
  <1>6. Holders /\ Single /\ Unanswered /\ NoneLeft
    BY <1>2, <1>4, EmptyQueues DEF Init, Holders, Single, Unanswered, NoneLeft, Open
  <1>7. Owners
    <2>1. \A c \in Callers : callerPc[c] = "idle" /\ Owned(c) = {}
      BY DEF Init, Owned
    <2> QED
      BY <1>2, <2>1 DEF Owners
  <1>8. AssignmentHasWorker
    BY <1>1, <1>5, PlacesSuffice
  <1>9. CallersAwake /\ OnlyAllocationThrows
    BY DEF Init, CallersAwake, OnlyAllocationThrows
  <1> QED
    BY <1>1, <1>4, <1>5, <1>6, <1>7, <1>8, <1>9 DEF SInv, Tracked

\* Nothing moves after an exception.
LEMMA NextAlive == Next => Alive
  BY DEF Next, CallerStep, CallServiceSync, CallServiceAsync, NewRequest, CallerWakes,
     WakeSpuriously, WaitServiceSync, CloseQueues, JoinThread, DispatcherStep, TakeRequest,
     SendRequest, EndSendRequests, ReceiveResponse, FinishAllocation, EndReceiveResponses,
     WorkerStep, ScheduleRequest, ScheduleTimeout, CompleteRequest, ReleaseSegment, FinishRelease,
     ServiceStep, ServiceReceives, ServiceAssigns, ServiceAnswers, ServiceReleases

\* Every step of every actor keeps the types.
LEMMA TypeNext == TypeOK /\ Tracked /\ Next => TypeOK'
  <1> SUFFICES ASSUME TypeOK, Tracked, Next PROVE TypeOK'
    OBVIOUS
  <1>1. Holders /\ Owners /\ Counted
    BY DEF Tracked
  <1>2. ASSUME NEW c \in Callers, CallerStep(c) PROVE TypeOK'
    BY <1>1, <1>2, TypeCaller
  <1>3. CASE CloseQueues \/ JoinThread
    BY <1>3, TypeDestructor
  <1>4. CASE DispatcherStep
    BY <1>1, <1>4, TypeDispatcher
  <1>5. ASSUME NEW w \in Workers, WorkerStep(w) PROVE TypeOK'
    BY <1>1, <1>5, TypeWorker
  <1>6. CASE ServiceStep
    BY <1>6, TypeService
  <1> QED
    BY <1>2, <1>3, <1>4, <1>5, <1>6 DEF Next

LEMMA NextTracked == SInv /\ [Next]_vars => SInv'
  <1> SUFFICES ASSUME SInv, [Next]_vars PROVE SInv'
    OBVIOUS
  <1> USE DEF SInv
  <1>1. CASE UNCHANGED vars
    <2>1. /\ UNCHANGED <<requestVars, requestResponseQueue, callerVars, dispatcherVars, workerVars,
                         shmVars, mqVars, serviceVars, destructor, fault>>
          /\ Processing' = Processing
      BY <1>1 DEF vars, Processing, workerVars
    <2>2. TypeOK'
      BY <2>1 DEF TypeOK, requestVars, callerVars, dispatcherVars, workerVars, shmVars, mqVars,
         serviceVars
    <2>3. OnlyAllocationThrows' /\ AssignmentHasWorker' /\ CallersAwake'
      BY <2>1 DEF OnlyAllocationThrows, AssignmentHasWorker, CallersAwake, Held, requestVars,
         callerVars, dispatcherVars, workerVars, mqVars
    <2>4. ASSUME Alive PROVE Tracked'
      <3>1. Unanswered' /\ Travel'
        BY <2>1, <2>4, TrackedKept DEF Tracked, Travel, dispatcherVars, workerVars, mqVars,
           serviceVars
      <3>2. Owners'
        BY <2>1, <2>4, OwnersKept DEF Tracked, requestVars
      <3>3. Holders' /\ NoneLeft'
        BY <2>1, <2>4 DEF Tracked, Holders, NoneLeft, Open, requestVars, dispatcherVars, workerVars
      <3> QED
        BY <3>1, <3>2, <3>3 DEF Tracked, Travel
    <2> QED
      BY <2>1, <2>2, <2>3, <2>4 DEF Alive
  <1>2. CASE Next
    <2>1. Alive /\ Tracked
      BY <1>2, NextAlive
    <2>2. TypeOK'
      BY <1>2, <2>1, TypeNext
    <2>3. /\ Alive' => Tracked'
          /\ ~Alive' => fault' = "already allocated" /\ AssignmentHasWorker'
          /\ CallersAwake'
      <3>1. ASSUME NEW c \in Callers, CallerStep(c) PROVE Alive' /\ Tracked' /\ CallersAwake'
        BY <2>1, <3>1, CallerTracked
      <3>2. ASSUME CloseQueues \/ JoinThread PROVE Alive' /\ Tracked' /\ CallersAwake'
        BY <2>1, <3>2, DestructorTracked
      <3>3. ASSUME DispatcherStep
            PROVE  /\ Alive' => Tracked'
                   /\ ~Alive' => fault' = "already allocated" /\ AssignmentHasWorker'
                   /\ CallersAwake'
        BY <2>1, <3>3, DispatcherTracked
      <3>4. ASSUME NEW w \in Workers, WorkerStep(w) PROVE Alive' /\ Tracked' /\ CallersAwake'
        BY <2>1, <3>4, WorkerTracked
      <3>5. ASSUME ServiceStep PROVE Alive' /\ Tracked' /\ CallersAwake'
        BY <2>1, <3>5, ServiceTracked
      <3> HIDE DEF SInv
      <3> QED
        BY <1>2, <3>1, <3>2, <3>3, <3>4, <3>5 DEF Next
    <2>4. AssignmentHasWorker'
      BY <2>2, <2>3, PlacesSufficeNext DEF Tracked
    <2>5. OnlyAllocationThrows'
      BY <2>3 DEF OnlyAllocationThrows, Alive
    <2> QED
      BY <2>2, <2>3, <2>4, <2>5
  <1> QED
    BY <1>1, <1>2

LEMMA Invariance == Spec => []SInv
  BY InitTracked, NextTracked, PTL DEF Spec
-----------------------------------------------------------------------------
(* What the client's library promises *)

\* Every variable of the Servicer and its threads keeps its type; above all,
\* requestsInFlight never leaves 0..numWorkers, so the unsigned counter of the
\* code does not wrap.
THEOREM TypeCorrect == Spec => []TypeOK
  BY Invariance, PTL DEF SInv

\* No request is lost or handled twice on its way through the five queues:
\* those without an answer are the queued ones and the ones in flight, never
\* both, and requestsInFlight counts the latter.
THEOREM Tracking == Spec => []RequestsTracked
  <1>1. SInv => RequestsTracked
    <2> SUFFICES ASSUME SInv, Alive PROVE RequestsTracked
      BY DEF RequestsTracked
    <2>1. Apart(Journey) /\ Unanswered /\ Counted
      BY DEF SInv, Tracked
    <2>2. "queued" \in Stage
      BY DEF Stage
    <2>3. Everywhere(Journey) = Journey["queued"] \cup Underway(Journey)
      BY <2>2 DEF Everywhere, Underway
    <2>4. Journey["queued"] \cap Underway(Journey) = {}
      BY <2>1, <2>2 DEF Apart, Underway
    <2>5. Journey["queued"] = ToSet(requestQueue) /\ Underway(Journey) = InFlight
      BY StageOf, UnderwayInFlight
    <2> QED
      BY <2>1, <2>3, <2>4, <2>5 DEF RequestsTracked, Unanswered, Counted
  <1> QED
    BY <1>1, Invariance, PTL

\* Whatever the order in which the service takes requests and assigns segments,
\* a segment assigned never waits for a worker that is busy with another
\* transfer: sendRequests sends no more than the workers can take at once.
THEOREM WorkersSuffice == Spec => []AssignmentHasWorker
  BY Invariance, PTL DEF SInv

\* No thread of the client looks up a request that is not in requestMap, the
\* reference that sendRequests keeps without a lock never dangles, and nothing
\* is sent to a queue that ~Servicer has closed.
THEOREM Exceptions == Spec => []OnlyAllocationThrows
  BY Invariance, PTL DEF SInv

\* No wake-up is lost: nobody sleeps in the cond of a request whose answer is
\* there, whether completeRequest or the caller comes first.
THEOREM Awake == Spec => []CallersAwake
  BY Invariance, PTL DEF SInv
===============================================================================
