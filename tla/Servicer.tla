------------------------------- MODULE Servicer -------------------------------
(***************************************************************************)
(* The client's library.  Application threads call the Servicer; its       *)
(* dispatcher thread sends their requests to the service, no more than     *)
(* there are workers, and receives the segments the service assigns; its   *)
(* workers exchange the files and complete the requests.                   *)
(*                                                                         *)
(* A step is one critical section of the Servicer's mutexes or one access  *)
(* to a message queue.  The exception is the bitmap of the client's        *)
(* ShmManager: getShmSegment(ids) changes it without segmentMutex, so an   *)
(* update is a load and a store here.  The service is what a client sees   *)
(* of Scheduler and Transfer: it takes requests in any order and gives     *)
(* each a segment.                                                         *)
(***************************************************************************)
EXTENDS Integers, Sequences, FiniteSets, SequencesExt

CONSTANTS Callers,       \* application threads
          None,          \* no request, no assignment
          NumWorkers,    \* numWorkers
          MaxMsg,        \* CLIENT_MAX_MSG
          Segments,      \* internal segments of shared memory
          MaxRequests,   \* bound: calls in the Servicer's life
          SegmentReuse,  \* the service may assign a segment that the client has
                         \* not released yet, as the code does
          TornBitmap     \* the dispatcher updates the bitmap without a lock, as
                         \* the code does

ASSUME ServicerAssumption == /\ NumWorkers \in Nat \ {0} /\ MaxMsg \in Nat \ {0}
                             /\ MaxRequests \in Nat
                             /\ SegmentReuse \in BOOLEAN /\ TornBitmap \in BOOLEAN

Ids == 0..(MaxRequests - 1)
Workers == 1..NumWorkers
Dispatcher == 0
Assignment == [id : Ids, segment : Segments]

\* None is no request and no assignment: it stands for an absent object.
ASSUME NoneAssumption == None \notin Ids /\ None \notin Assignment

VARIABLES
  nextRequestId,
  requestMap,            \* id -> whether compressedData is there
  requestQueue,
  requestsInFlight,
  requestResponseQueue,
  callerPc,              \* "idle", "asleep" in the request's cond, or "woken"
  waitsFor,              \* the request each caller waits for, or None
  outstanding,           \* calls of callServiceAsync not waited for yet
  dispatcherPc,
  sending,               \* the request sendRequests holds a reference to, or None
  allocating,            \* the message receiveResponses handles, or None
  workerPc,
  handler,               \* the assignment each worker's handler has, or None
  available,             \* availableSegments of the client's ShmManager
  loaded,                \* the word of it that a thread is changing
  clientToServer, serverToClient,
  received,              \* requests the service has not scheduled
  serving,               \* assignments of the service's handlers
  answered,              \* requests whose last chunk the service has posted
  serviceFree,           \* segments free in the service's ShmManager
  destructor,            \* 0, or how far ~Servicer is: see Running
  fault                  \* an uncaught exception or undefined behaviour

requestVars == <<nextRequestId, requestMap, requestQueue, requestsInFlight>>
callerVars == <<callerPc, waitsFor, outstanding>>
dispatcherVars == <<dispatcherPc, sending, allocating>>
workerVars == <<workerPc, handler>>
shmVars == <<available, loaded>>
serviceVars == <<received, serving, answered, serviceFree>>
mqVars == <<clientToServer, serverToClient>>
vars == <<requestVars, requestResponseQueue, callerVars, dispatcherVars, workerVars, shmVars,
          mqVars, serviceVars, destructor, fault>>

Alive == fault = "none"
Open == destructor = 0

\* ~Servicer closes the queues; then its members are destroyed, which stops and
\* joins the workers one by one and the dispatcher after them.  destructor is
\* the number of threads that have been told to stop.
Running(stopAt) == destructor < stopAt
WorkerStops(w) == w
DispatcherStops == NumWorkers + 1
Destroyed == destructor = NumWorkers + 2

Init == /\ nextRequestId = 0 /\ requestMap = << >> /\ requestQueue = << >>
        /\ requestsInFlight = 0 /\ requestResponseQueue = << >>
        /\ callerPc = [c \in Callers |-> "idle"]
        /\ waitsFor = [c \in Callers |-> None]
        /\ outstanding = [c \in Callers |-> {}]
        /\ dispatcherPc = "send" /\ sending = None /\ allocating = None
        /\ workerPc = [w \in Workers |-> "schedule"]
        /\ handler = [w \in Workers |-> None]
        /\ available = Segments
        /\ loaded = [t \in Workers \cup {Dispatcher} |-> {}]
        /\ clientToServer = << >> /\ serverToClient = << >>
        /\ received = {} /\ serving = {} /\ answered = {} /\ serviceFree = Segments
        /\ destructor = 0
        /\ fault = "none"
-----------------------------------------------------------------------------
(* The application's threads *)

\* What callServiceSync and callServiceAsync do under both mutexes.
NewRequest ==
  /\ Alive /\ Open
  /\ nextRequestId < MaxRequests
  /\ requestMap' = [id \in DOMAIN requestMap \cup {nextRequestId} |->
                      id # nextRequestId /\ requestMap[id]]
  /\ requestQueue' = Append(requestQueue, nextRequestId)
  /\ nextRequestId' = nextRequestId + 1
  /\ UNCHANGED <<requestsInFlight, requestResponseQueue, dispatcherVars, workerVars, shmVars,
                 mqVars, serviceVars, destructor, fault>>

\* requestMapMutex is kept from the insertion until the wait lets go of it.
CallServiceSync(c) ==
  /\ callerPc[c] = "idle"
  /\ NewRequest
  /\ callerPc' = [callerPc EXCEPT ![c] = "asleep"]
  /\ waitsFor' = [waitsFor EXCEPT ![c] = nextRequestId]
  /\ UNCHANGED outstanding

CallServiceAsync(c) ==
  /\ callerPc[c] = "idle"
  /\ NewRequest
  /\ outstanding' = [outstanding EXCEPT ![c] = @ \cup {nextRequestId}]
  /\ UNCHANGED <<callerPc, waitsFor>>

\* (Seeded fault: the wait has no predicate.)
AnswerReadyAlways(id) == TRUE

\* compressedData is there.
AnswerReady(id) == requestMap[id]

\* Caller c looks for request id in the map and returns its answer, or goes to
\* sleep if there is none yet.
AwaitAnswer(c, id) ==
  /\ \/ /\ id \notin DOMAIN requestMap
        /\ fault' = "request not found"
        /\ UNCHANGED <<requestMap, callerPc, waitsFor>>
     \/ /\ id \in DOMAIN requestMap /\ AnswerReady(id)
        /\ requestMap' = [i \in DOMAIN requestMap \ {id} |-> requestMap[i]]
        /\ callerPc' = [callerPc EXCEPT ![c] = "idle"]
        /\ waitsFor' = [waitsFor EXCEPT ![c] = None]
        /\ UNCHANGED fault
     \/ /\ id \in DOMAIN requestMap /\ ~AnswerReady(id)
        /\ callerPc' = [callerPc EXCEPT ![c] = "asleep"]
        /\ waitsFor' = [waitsFor EXCEPT ![c] = id]
        /\ UNCHANGED <<requestMap, fault>>
  /\ UNCHANGED <<nextRequestId, requestQueue, requestsInFlight, requestResponseQueue,
                 dispatcherVars, workerVars, shmVars, mqVars, serviceVars, destructor>>

\* A caller waits for its own calls, and for each of them once.
WaitServiceSync(c, id) ==
  /\ Alive
  /\ callerPc[c] = "idle" /\ id \in outstanding[c]
  /\ outstanding' = [outstanding EXCEPT ![c] = @ \ {id}]
  /\ AwaitAnswer(c, id)

CallerWakes(c) ==
  /\ Alive
  /\ callerPc[c] = "woken"
  /\ AwaitAnswer(c, waitsFor[c])
  /\ UNCHANGED outstanding

WakeSpuriously(c) ==
  /\ Alive
  /\ callerPc[c] = "asleep"
  /\ callerPc' = [callerPc EXCEPT ![c] = "woken"]
  /\ UNCHANGED <<requestVars, requestResponseQueue, waitsFor, outstanding, dispatcherVars,
                 workerVars, shmVars, mqVars, serviceVars, destructor, fault>>

\* ~Servicer, up to the first stop().  The application has every answer by
\* then, as App.cpp does.
CloseQueues ==
  /\ Alive /\ Open
  /\ \A c \in Callers : callerPc[c] = "idle" /\ outstanding[c] = {}
  /\ destructor' = 1
  /\ UNCHANGED <<requestVars, requestResponseQueue, callerVars, dispatcherVars, workerVars,
                 shmVars, mqVars, serviceVars, fault>>

\* AbstractWorker::stop has joined a thread; the next one is told to stop.
JoinThread ==
  /\ Alive
  /\ \/ destructor \in Workers /\ workerPc[destructor] = "stopped"
     \/ destructor = DispatcherStops /\ dispatcherPc = "stopped"
  /\ destructor' = destructor + 1
  /\ UNCHANGED <<requestVars, requestResponseQueue, callerVars, dispatcherVars, workerVars,
                 shmVars, mqVars, serviceVars, fault>>
-----------------------------------------------------------------------------
(* The dispatcher *)

\* (Seeded fault: one request more than there are workers.)
HasWorkerOneMore == requestsInFlight <= NumWorkers

\* The next request sent will have a worker.
HasWorker == requestsInFlight < NumWorkers

\* The loop of sendRequests: the next request, if a worker can be had for it.
TakeRequest ==
  /\ Alive
  /\ dispatcherPc = "send"
  /\ HasWorker /\ requestQueue # << >>
  /\ requestQueue' = Tail(requestQueue)
  /\ \/ /\ Head(requestQueue) \in DOMAIN requestMap
        /\ requestsInFlight' = requestsInFlight + 1
        /\ sending' = Head(requestQueue)
        /\ dispatcherPc' = "sending"
        /\ UNCHANGED fault
     \/ /\ Head(requestQueue) \notin DOMAIN requestMap
        /\ fault' = "request not found"
        /\ UNCHANGED <<requestsInFlight, sending, dispatcherPc>>
  /\ UNCHANGED <<nextRequestId, requestMap, requestResponseQueue, callerVars, allocating,
                 workerVars, shmVars, mqVars, serviceVars, destructor>>

\* mq_send of a message made from the reference, with both mutexes free.
SendRequest ==
  /\ Alive
  /\ dispatcherPc = "sending"
  /\ \/ /\ sending \notin DOMAIN requestMap
        /\ fault' = "dangling reference"
        /\ UNCHANGED <<dispatcherPc, sending, clientToServer>>
     \/ /\ sending \in DOMAIN requestMap /\ ~Open
        /\ fault' = "failed to send request message"
        /\ UNCHANGED <<dispatcherPc, sending, clientToServer>>
     \/ /\ sending \in DOMAIN requestMap /\ Open
        /\ Len(clientToServer) < MaxMsg
        /\ clientToServer' = Append(clientToServer, sending)
        /\ dispatcherPc' = "send" /\ sending' = None
        /\ UNCHANGED fault
  /\ UNCHANGED <<requestVars, requestResponseQueue, callerVars, allocating, workerVars, shmVars,
                 serverToClient, serviceVars, destructor>>

\* (Seeded fault: sendRequests does not return before it has sent everything.)
EndSendRequestsWhenEmpty ==
  /\ Alive
  /\ dispatcherPc = "send" /\ requestQueue = << >>
  /\ dispatcherPc' = "receive"
  /\ UNCHANGED <<requestVars, requestResponseQueue, callerVars, sending, allocating, workerVars,
                 shmVars, mqVars, serviceVars, destructor, fault>>

\* sendRequests returns: everything is sent, or no worker would be free.
EndSendRequests ==
  /\ Alive
  /\ dispatcherPc = "send"
  /\ ~HasWorker \/ requestQueue = << >>
  /\ dispatcherPc' = "receive"
  /\ UNCHANGED <<requestVars, requestResponseQueue, callerVars, sending, allocating, workerVars,
                 shmVars, mqVars, serviceVars, destructor, fault>>

\* Threads that are between the load and the store of the bitmap's word.
Releasing == {w \in Workers : workerPc[w] = "release"}

\* receiveResponses has a message: getShmSegment(ids) finds the segment taken,
\* or loads the word to clear its bit.  requestResponseQueueMutex is held from
\* here to FinishAllocation.
ReceiveResponse ==
  /\ Alive
  /\ dispatcherPc = "receive"
  /\ Open /\ serverToClient # << >>
  /\ TornBitmap \/ Releasing = {}
  /\ serverToClient' = Tail(serverToClient)
  /\ \/ /\ Head(serverToClient).segment \in available
        /\ dispatcherPc' = "allocate"
        /\ allocating' = Head(serverToClient)
        /\ loaded' = [loaded EXCEPT ![Dispatcher] = available]
        /\ UNCHANGED fault
     \/ /\ Head(serverToClient).segment \notin available
        /\ fault' = "already allocated"
        /\ UNCHANGED <<dispatcherPc, allocating, loaded>>
  /\ UNCHANGED <<requestVars, requestResponseQueue, callerVars, sending, workerVars, available,
                 clientToServer, serviceVars, destructor>>

\* The word is stored and the response is pushed.  notify_one needs no step:
\* the workers' wait has a timeout.
FinishAllocation ==
  /\ Alive
  /\ dispatcherPc = "allocate"
  /\ available' = loaded[Dispatcher] \ {allocating.segment}
  /\ loaded' = [loaded EXCEPT ![Dispatcher] = {}]
  /\ requestResponseQueue' = Append(requestResponseQueue, allocating)
  /\ dispatcherPc' = "receive" /\ allocating' = None
  /\ UNCHANGED <<requestVars, callerVars, sending, workerVars, mqVars, serviceVars, destructor,
                 fault>>

\* mq_receive fails: nothing there, or the queue is closed.  threadLoop goes on.
EndReceiveResponses ==
  /\ Alive
  /\ dispatcherPc = "receive"
  /\ ~Open \/ serverToClient = << >>
  /\ dispatcherPc' = IF Running(DispatcherStops) THEN "send" ELSE "stopped"
  /\ UNCHANGED <<requestVars, requestResponseQueue, callerVars, sending, allocating, workerVars,
                 shmVars, mqVars, serviceVars, destructor, fault>>

-----------------------------------------------------------------------------
(* A worker *)

\* createHandler: the request's file is looked up.
CreateHandler(w, response) ==
  \/ /\ response.id \in DOMAIN requestMap
     /\ handler' = [handler EXCEPT ![w] = response]
     /\ workerPc' = [workerPc EXCEPT ![w] = "process"]
     /\ UNCHANGED fault
  \/ /\ response.id \notin DOMAIN requestMap
     /\ fault' = "request not found"
     /\ UNCHANGED <<handler, workerPc>>

ScheduleRequest(w) ==
  /\ Alive
  /\ workerPc[w] = "schedule"
  /\ dispatcherPc # "allocate"
  /\ requestResponseQueue # << >>
  /\ CreateHandler(w, Head(requestResponseQueue))
  /\ requestResponseQueue' = Tail(requestResponseQueue)
  /\ UNCHANGED <<requestVars, callerVars, dispatcherVars, shmVars, mqVars, serviceVars,
                 destructor>>

\* (Seeded fault: wait in place of wait_for.)
ScheduleTimeoutNever(w) == FALSE

\* wait_for gives up after a second, and threadLoop sees that it is to stop.  If
\* it is not, run() begins again and nothing has changed.
ScheduleTimeout(w) ==
  /\ Alive
  /\ workerPc[w] = "schedule"
  /\ dispatcherPc # "allocate"
  /\ requestResponseQueue = << >>
  /\ ~Running(WorkerStops(w))
  /\ workerPc' = [workerPc EXCEPT ![w] = "stopped"]
  /\ UNCHANGED <<requestVars, requestResponseQueue, callerVars, dispatcherVars, handler, shmVars,
                 mqVars, serviceVars, destructor, fault>>

\* (Seeded fault: the caller is not woken.)
NotifyCallerNone(id) == callerPc

\* request.cond.notify_one().
NotifyCaller(id) == [c \in Callers |-> IF callerPc[c] = "asleep" /\ waitsFor[c] = id THEN "woken"
                                       ELSE callerPc[c]]

\* completeRequest, at the end of process().
CompleteRequest(w) ==
  LET id == handler[w].id IN
  /\ Alive
  /\ workerPc[w] = "process"
  /\ id \in answered
  /\ requestsInFlight' = requestsInFlight - 1
  /\ \/ /\ id \in DOMAIN requestMap
        /\ requestMap' = [requestMap EXCEPT ![id] = TRUE]
        /\ callerPc' = NotifyCaller(id)
        /\ workerPc' = [workerPc EXCEPT ![w] = "completed"]
        /\ UNCHANGED fault
     \/ /\ id \notin DOMAIN requestMap
        /\ fault' = "request not found"
        /\ UNCHANGED <<requestMap, callerPc, workerPc>>
  /\ UNCHANGED <<nextRequestId, requestQueue, requestResponseQueue, waitsFor, outstanding,
                 dispatcherVars, handler, shmVars, mqVars, serviceVars, destructor>>

\* ~FragmentedShmSegment, under segmentMutex: the word is loaded to set a bit.
ReleaseSegment(w) ==
  /\ Alive
  /\ workerPc[w] = "completed"
  /\ Releasing = {}
  /\ TornBitmap \/ dispatcherPc # "allocate"
  /\ loaded' = [loaded EXCEPT ![w] = available]
  /\ workerPc' = [workerPc EXCEPT ![w] = "release"]
  /\ UNCHANGED <<requestVars, requestResponseQueue, callerVars, dispatcherVars, handler,
                 available, mqVars, serviceVars, destructor, fault>>

\* The word is stored, the handler is gone, and threadLoop goes on.
FinishRelease(w) ==
  /\ Alive
  /\ workerPc[w] = "release"
  /\ available' = loaded[w] \cup {handler[w].segment}
  /\ loaded' = [loaded EXCEPT ![w] = {}]
  /\ handler' = [handler EXCEPT ![w] = None]
  /\ workerPc' = [workerPc EXCEPT ![w] = IF Running(WorkerStops(w)) THEN "schedule" ELSE "stopped"]
  /\ UNCHANGED <<requestVars, requestResponseQueue, callerVars, dispatcherVars, mqVars,
                 serviceVars, destructor, fault>>
-----------------------------------------------------------------------------
(* The service, as this client sees it *)

\* RegistrationVisitor::dispatch.
ServiceReceives ==
  /\ Alive
  /\ clientToServer # << >>
  /\ received' = received \cup {Head(clientToServer)}
  /\ clientToServer' = Tail(clientToServer)
  /\ UNCHANGED <<requestVars, requestResponseQueue, callerVars, dispatcherVars, workerVars,
                 shmVars, serverToClient, serving, answered, serviceFree, destructor, fault>>

\* Scheduler picks a request and a segment, the handler writes to the client.
ServiceAssigns(id, segment) ==
  /\ Alive
  /\ id \in received /\ segment \in serviceFree
  /\ Len(serverToClient) < MaxMsg
  /\ received' = received \ {id}
  /\ serviceFree' = serviceFree \ {segment}
  /\ serving' = serving \cup {[id |-> id, segment |-> segment]}
  /\ serverToClient' = Append(serverToClient, [id |-> id, segment |-> segment])
  /\ UNCHANGED <<requestVars, requestResponseQueue, callerVars, dispatcherVars, workerVars,
                 shmVars, clientToServer, answered, destructor, fault>>

\* The service's handler posts the last chunk of the answer; both handlers can
\* finish from here on.
ServiceAnswers(assignment) ==
  /\ Alive
  /\ assignment.id \notin answered
  /\ \E w \in Workers : workerPc[w] = "process" /\ handler[w] = assignment
  /\ answered' = answered \cup {assignment.id}
  /\ UNCHANGED <<requestVars, requestResponseQueue, callerVars, dispatcherVars, workerVars,
                 shmVars, mqVars, received, serving, serviceFree, destructor, fault>>

\* The service's handler is destroyed.
ServiceReleases(assignment) ==
  /\ Alive
  /\ assignment \in serving /\ assignment.id \in answered
  /\ SegmentReuse \/ \A w \in Workers : handler[w] # assignment
  /\ serving' = serving \ {assignment}
  /\ serviceFree' = serviceFree \cup {assignment.segment}
  /\ UNCHANGED <<requestVars, requestResponseQueue, callerVars, dispatcherVars, workerVars,
                 shmVars, mqVars, received, answered, destructor, fault>>
-----------------------------------------------------------------------------
CallerStep(c) == \/ CallServiceSync(c) \/ CallServiceAsync(c) \/ CallerWakes(c) \/ WakeSpuriously(c)
                 \/ \E id \in outstanding[c] : WaitServiceSync(c, id)

DispatcherStep == \/ TakeRequest \/ SendRequest \/ EndSendRequests
                  \/ ReceiveResponse \/ FinishAllocation \/ EndReceiveResponses

WorkerStep(w) == \/ ScheduleRequest(w) \/ ScheduleTimeout(w) \/ CompleteRequest(w)
                 \/ ReleaseSegment(w) \/ FinishRelease(w)

ServiceStep == \/ ServiceReceives
               \/ \E id \in received, segment \in serviceFree : ServiceAssigns(id, segment)
               \/ \E assignment \in serving : ServiceAnswers(assignment) \/ ServiceReleases(assignment)

Next == \/ \E c \in Callers : CallerStep(c)
        \/ CloseQueues \/ JoinThread
        \/ DispatcherStep
        \/ \E w \in Workers : WorkerStep(w)
        \/ ServiceStep

\* Every thread goes on when it can, and the service answers (AllServed of
\* Scheduler, ServerFinishes of Transfer).  Nothing makes the application call,
\* or destroy its Servicer.
Fairness == /\ \A c \in Callers : WF_vars(CallerWakes(c))
            /\ WF_vars(JoinThread) /\ WF_vars(DispatcherStep)
            /\ \A w \in Workers : WF_vars(WorkerStep(w))
            /\ WF_vars(ServiceReceives)
            /\ \A id \in Ids : WF_vars(\E segment \in serviceFree : ServiceAssigns(id, segment))
            /\ \A assignment \in Assignment :
                 WF_vars(ServiceAnswers(assignment)) /\ WF_vars(ServiceReleases(assignment))

Spec == Init /\ [][Next]_vars /\ Fairness
-----------------------------------------------------------------------------
TypeOK ==
  /\ nextRequestId \in 0..MaxRequests
  /\ DOMAIN requestMap \subseteq Ids /\ requestMap \in [DOMAIN requestMap -> BOOLEAN]
  /\ requestQueue \in Seq(Ids)
  /\ requestsInFlight \in 0..NumWorkers
  /\ requestResponseQueue \in Seq(Assignment)
  /\ callerPc \in [Callers -> {"idle", "asleep", "woken"}]
  /\ waitsFor \in [Callers -> Ids \cup {None}]
  /\ outstanding \in [Callers -> SUBSET Ids]
  /\ dispatcherPc \in {"send", "sending", "receive", "allocate", "stopped"}
  /\ sending \in Ids \cup {None} /\ allocating \in Assignment \cup {None}
  /\ workerPc \in [Workers -> {"schedule", "process", "completed", "release", "stopped"}]
  /\ handler \in [Workers -> Assignment \cup {None}]
  /\ available \in SUBSET Segments
  /\ loaded \in [Workers \cup {Dispatcher} -> SUBSET Segments]
  /\ clientToServer \in Seq(Ids) /\ serverToClient \in Seq(Assignment)
  /\ received \subseteq Ids /\ serving \subseteq Assignment
  /\ answered \subseteq Ids /\ serviceFree \subseteq Segments
  /\ destructor \in 0..(NumWorkers + 2)

\* The only exception the client's threads can throw is "already allocated":
\* no request is looked up that is not in the map, no reference that
\* sendRequests keeps without a lock dangles, and nothing is sent to a queue
\* ~Servicer has closed.
OnlyAllocationThrows == fault \in {"none", "already allocated"}

\* When no thread is about to store the bitmap's word, the segments taken are
\* exactly those of responses in the queue and of live handlers.
BitmapMatches ==
  Alive /\ Releasing = {} /\ allocating = None =>
    Segments \ available = {response.segment : response \in ToSet(requestResponseQueue)}
                             \cup {handler[w].segment : w \in {v \in Workers : handler[v] # None}}

IdsOf(responses) == {response.id : response \in ToSet(responses)}
Held(place) == IF place = None THEN {} ELSE {place}

\* Requests that have left requestQueue and have no answer yet.
InFlight == Held(sending) \cup ToSet(clientToServer) \cup received \cup IdsOf(serverToClient)
              \cup {a.id : a \in Held(allocating)} \cup IdsOf(requestResponseQueue)
              \cup {handler[w].id : w \in {v \in Workers : workerPc[v] = "process"}}

\* No request is lost or handled twice on its way through five queues: those
\* without an answer are exactly the ones that are queued or in flight, and
\* requestsInFlight counts the latter.
RequestsTracked ==
  Alive => /\ {id \in DOMAIN requestMap : ~requestMap[id]} = ToSet(requestQueue) \cup InFlight
           /\ ToSet(requestQueue) \cap InFlight = {}
           /\ requestsInFlight = Cardinality(InFlight)

\* A segment the service has assigned never waits for a worker that is busy
\* with another transfer: sendRequests holds back what the workers could not
\* take at once.
AssignmentHasWorker ==
  Len(requestResponseQueue) + Cardinality(Held(allocating)) + Len(serverToClient)
    <= Cardinality({w \in Workers : workerPc[w] # "process"})

\* completeRequest wakes the caller that waits for the request, whichever of
\* the two comes first: nobody sleeps on an answer that is there.
CallersAwake == \A c \in Callers : callerPc[c] = "asleep" => ~requestMap[waitsFor[c]]

\* A call that waits returns in the end, unless the client dies of "already
\* allocated".
CallsReturn == \A c \in Callers : callerPc[c] # "idle" ~> callerPc[c] = "idle" \/ ~Alive

\* ~Servicer joins all its threads, which it waits for one after the other.
DestructorReturns == ~Open ~> Destroyed \/ ~Alive
=============================================================================
