----------------------------- MODULE Registration -----------------------------
(***************************************************************************)
(* How client processes come and go.  A Servicer asks the service for a    *)
(* number over two POSIX queues that all clients share, creates two queues *)
(* named after its number, and announces them; the service's registration  *)
(* thread opens them, reads the requests that arrive and hands them to the *)
(* workers, which write their answers to the client's queue.               *)
(*                                                                         *)
(* Everything that makes this hard is here: a client may leave at any time *)
(* (~Servicer) or die without a word; the service may die, of an exception *)
(* or otherwise, and be started again while clients of its last run are    *)
(* still there; queues outlive their names; and the maps that the          *)
(* registration thread changes are read by the workers without a lock.     *)
(*                                                                         *)
(* Names are looked up, unlinked and created one at a time, as the calls   *)
(* do, so that a client may have opened the queue of one run of the        *)
(* service and, after a restart, the other queue of the next run.          *)
(*                                                                         *)
(* A queue is the process, or the run of the service, that created it:     *)
(* c2s[p] and s2c[p] are p's queues whatever their names refer to.  The    *)
(* order in which requests are scheduled is Scheduler's, the exchange of   *)
(* the files Transfer's, the client's threads Servicer's.                  *)
(***************************************************************************)
EXTENDS Integers, Sequences, FiniteSets, SequencesExt

CONSTANTS Procs,               \* client processes
          Workers,             \* ServiceFileCompressorWorkers
          None,
          RegistrationMaxMsg,  \* REGISTRATION_MAX_MSG
          ClientMaxMsg,        \* CLIENT_MAX_MSG
          ClientWorkers,       \* numWorkers of a Servicer
          MaxRequests,         \* bound: requests of each process
          MaxRuns,             \* bound: times the service is started
          Mortal               \* bound: processes that may end without ~Servicer

Ids == Nat \cup {None}
Message == [type : {"REGISTRATION"}, id : {None}]
             \cup [type : {"QUEUE_CREATION", "QUEUE_DELETION"}, id : Nat]

ASSUME RegistrationAssumption ==
  /\ RegistrationMaxMsg \in Nat \ {0} /\ ClientMaxMsg \in Nat \ {0}
  /\ ClientWorkers \in Nat \ {0} /\ MaxRequests \in [Procs -> Nat] /\ MaxRuns \in Nat \ {0}
  /\ None \notin Nat /\ None \notin Procs /\ None \notin Message

VARIABLES
  \* each client process
  pc,            \* how far its Servicer is
  out,           \* the run whose registration queue it writes to, or None
  in,            \* the run whose registration queue it takes its number from, or None
  clientId,
  asked,         \* requests it has made: 0, ..., asked - 1
  got,           \* those it has the answer of
  \* the queues
  toService,     \* the registration queue of each run, client to server
  toClients,     \* the registration queue of each run, server to client
  c2sName,       \* the run whose queue has the name of the first, or None
  s2cName,       \* the run whose queue has the name of the second, or None
  c2sOwner,      \* number -> the process whose request queue has its name
  s2cOwner,      \* number -> the process whose response queue has its name
  c2s, s2c,      \* the request and the response queue of each process
  \* the service
  current,       \* the service's run
  startup,       \* how far RegistrationVisitor's constructor is
  nextClientId,
  s2cQueues,     \* registeredClients and blockingServerToClientQueues
  c2sQueues,     \* nonBlockingClientToServerQueues
  dispatching,   \* is the registration thread in dispatch()
  message,       \* the message it visits, or None
  runqueue,      \* requests the scheduler has
  workerPc, job, \* each worker, and the request it serves
  fault,         \* what the service died of, or "none"
  \* history
  disputed       \* numbers taken while somebody else had them, or too late

clientVars == <<pc, out, in, clientId, asked, got, disputed>>
registrationQueues == <<toService, toClients>>
registrationNames == <<c2sName, s2cName>>
requestQueues == <<c2sOwner, s2cOwner, c2s, s2c>>
workerVars == <<workerPc, job>>
maps == <<c2sQueues, s2cQueues>>
serviceVars == <<registrationNames, current, startup, nextClientId, maps, dispatching, message,
                 runqueue, workerVars, fault>>
vars == <<clientVars, registrationQueues, requestQueues, serviceVars>>

Runs == 1..MaxRuns
Alive == fault = "none"
Up == Alive /\ startup = "up"

Init == /\ pc = [p \in Procs |-> "new"]
        /\ out = [p \in Procs |-> None] /\ in = [p \in Procs |-> None]
        /\ clientId = [p \in Procs |-> None]
        /\ asked = [p \in Procs |-> 0]
        /\ got = [p \in Procs |-> {}]
        /\ toService = [n \in Runs |-> << >>] /\ toClients = [n \in Runs |-> << >>]
        /\ c2sName = None /\ s2cName = None
        /\ c2sOwner = << >> /\ s2cOwner = << >>
        /\ c2s = [p \in Procs |-> << >>] /\ s2c = [p \in Procs |-> << >>]
        /\ current = 1 /\ startup = "unlink c2s"
        /\ nextClientId = 0
        /\ c2sQueues = << >> /\ s2cQueues = << >>
        /\ dispatching = FALSE /\ message = None
        /\ runqueue = {}
        /\ workerPc = [w \in Workers |-> "idle"]
        /\ job = [w \in Workers |-> None]
        /\ fault = "none"
        /\ disputed = {}

\* A map with one key more, and with one key less.
Bind(map, i, x) == [j \in DOMAIN map \cup {i} |-> IF j = i THEN x ELSE map[j]]
Unbind(map, i) == [j \in DOMAIN map \ {i} |-> map[j]]
-----------------------------------------------------------------------------
(* A client process *)

Ended == {"gone", "dead"}

Goto(p, from, to) == pc[p] = from /\ pc' = [pc EXCEPT ![p] = to]

\* mq_send to the registration queue, which blocks while the queue is full.
Register(p, msg) ==
  /\ Len(toService[out[p]]) < RegistrationMaxMsg
  /\ toService' = [toService EXCEPT ![out[p]] = Append(@, msg)]
  /\ UNCHANGED toClients

\* Servicer's constructor opens the two registration queues by name, one after
\* the other, and throws when there is no such name.  The names stay when the
\* service dies.
OpenC2S(p) ==
  /\ pc[p] = "new"
  /\ \/ c2sName # None /\ pc' = [pc EXCEPT ![p] = "open s2c"]
     \/ c2sName = None /\ pc' = [pc EXCEPT ![p] = "dead"]
  /\ out' = [out EXCEPT ![p] = c2sName]
  /\ UNCHANGED <<in, clientId, asked, got, disputed, registrationQueues, requestQueues,
                 serviceVars>>

OpenS2C(p) ==
  /\ pc[p] = "open s2c"
  /\ \/ s2cName # None /\ pc' = [pc EXCEPT ![p] = "register"]
     \/ s2cName = None /\ pc' = [pc EXCEPT ![p] = "dead"]
  /\ in' = [in EXCEPT ![p] = s2cName]
  /\ UNCHANGED <<out, clientId, asked, got, disputed, registrationQueues, requestQueues,
                 serviceVars>>

SendRegistration(p) ==
  /\ Goto(p, "register", "await")
  /\ Register(p, [type |-> "REGISTRATION", id |-> None])
  /\ UNCHANGED <<out, in, clientId, asked, got, disputed, requestQueues, serviceVars>>

\* A number comes into dispute when somebody who has it is still there, or when
\* the run that gave it, or the one that p registers with, is over.
Disputes(p, i) == \/ ~(out[p] = current /\ in[p] = current)
                  \/ \E q \in Procs \ {p} : clientId[q] = i /\ pc[q] \notin Ended

\* (Seeded fault: the number stays in the queue.)
ReceiveIdPeek(p) ==
  /\ Goto(p, "await", "unlink c2s")
  /\ toClients[in[p]] # << >>
  /\ clientId' = [clientId EXCEPT ![p] = Head(toClients[in[p]])]
  /\ disputed' = disputed \cup {i \in {Head(toClients[in[p]])} : Disputes(p, i)}
  /\ UNCHANGED <<out, in, asked, got, registrationQueues, requestQueues, serviceVars>>

\* Any client that waits may take the number; none is meant for it.
ReceiveId(p) ==
  /\ Goto(p, "await", "unlink c2s")
  /\ toClients[in[p]] # << >>
  /\ clientId' = [clientId EXCEPT ![p] = Head(toClients[in[p]])]
  /\ toClients' = [toClients EXCEPT ![in[p]] = Tail(@)]
  /\ disputed' = disputed \cup {i \in {Head(toClients[in[p]])} : Disputes(p, i)}
  /\ UNCHANGED <<out, in, asked, got, toService, requestQueues, serviceVars>>

\* The request queue is made in two calls: mq_unlink takes the name from
\* whichever process has it, mq_open with O_CREAT | O_EXCL fails when another
\* process has created it since.
UnlinkC2S(p) ==
  /\ Goto(p, "unlink c2s", "create c2s")
  /\ c2sOwner' = Unbind(c2sOwner, clientId[p])
  /\ UNCHANGED <<out, in, clientId, asked, got, disputed, registrationQueues, s2cOwner, c2s, s2c,
                 serviceVars>>

CreateC2S(p) ==
  /\ \/ /\ clientId[p] \notin DOMAIN c2sOwner
        /\ Goto(p, "create c2s", "unlink s2c")
        /\ c2sOwner' = Bind(c2sOwner, clientId[p], p)
     \/ /\ clientId[p] \in DOMAIN c2sOwner
        /\ Goto(p, "create c2s", "dead")
        /\ UNCHANGED c2sOwner
  /\ UNCHANGED <<out, in, clientId, asked, got, disputed, registrationQueues, s2cOwner, c2s, s2c,
                 serviceVars>>

\* So is the response queue.
UnlinkS2C(p) ==
  /\ Goto(p, "unlink s2c", "create s2c")
  /\ s2cOwner' = Unbind(s2cOwner, clientId[p])
  /\ UNCHANGED <<out, in, clientId, asked, got, disputed, registrationQueues, c2sOwner, c2s, s2c,
                 serviceVars>>

CreateS2C(p) ==
  /\ \/ /\ clientId[p] \notin DOMAIN s2cOwner
        /\ Goto(p, "create s2c", "announce")
        /\ s2cOwner' = Bind(s2cOwner, clientId[p], p)
     \/ /\ clientId[p] \in DOMAIN s2cOwner
        /\ Goto(p, "create s2c", "dead")
        /\ UNCHANGED s2cOwner
  /\ UNCHANGED <<out, in, clientId, asked, got, disputed, registrationQueues, c2sOwner, c2s, s2c,
                 serviceVars>>

SendQueueCreation(p) ==
  /\ Goto(p, "announce", "up")
  /\ Register(p, [type |-> "QUEUE_CREATION", id |-> clientId[p]])
  /\ UNCHANGED <<out, in, clientId, asked, got, disputed, requestQueues, serviceVars>>

\* sendRequests: a request is made when a worker can be had for it, and sent
\* when the queue has room.
BeginRequest(p) ==
  /\ Goto(p, "up", "sending")
  /\ asked[p] < MaxRequests[p]
  /\ asked[p] - Cardinality(got[p]) < ClientWorkers
  /\ asked' = [asked EXCEPT ![p] = @ + 1]
  /\ UNCHANGED <<out, in, clientId, got, disputed, registrationQueues, requestQueues, serviceVars>>

SendRequest(p) ==
  /\ Goto(p, "sending", "up")
  /\ Len(c2s[p]) < ClientMaxMsg
  /\ c2s' = [c2s EXCEPT ![p] = Append(@, asked[p] - 1)]
  /\ UNCHANGED <<out, in, clientId, asked, got, disputed, registrationQueues, c2sOwner, s2cOwner,
                 s2c, serviceVars>>

\* The client receives a response and its handler and the service's exchange
\* the files over semaphores with the names of the number and the request.
Exchange(p, w) ==
  /\ pc[p] = "up" /\ s2c[p] # << >>
  /\ Head(s2c[p]) < asked[p]
  /\ Alive /\ workerPc[w] = "exchange" /\ job[w] = <<clientId[p], Head(s2c[p])>>
  /\ got' = [got EXCEPT ![p] = @ \cup {Head(s2c[p])}]
  /\ s2c' = [s2c EXCEPT ![p] = Tail(@)]
  /\ workerPc' = [workerPc EXCEPT ![w] = "idle"]
  /\ job' = [job EXCEPT ![w] = None]
  /\ UNCHANGED <<pc, out, in, clientId, asked, disputed, registrationQueues, c2sOwner, s2cOwner,
                 c2s, registrationNames, current, startup, nextClientId, maps, dispatching, message,
                 runqueue, fault>>

\* createHandler throws for a response to a request that p has not made, or has
\* the answer of.
RefuseResponse(p) ==
  /\ Goto(p, "up", "dead") /\ s2c[p] # << >>
  /\ Head(s2c[p]) \notin (0..(asked[p] - 1)) \ got[p]
  /\ s2c' = [s2c EXCEPT ![p] = Tail(@)]
  /\ UNCHANGED <<out, in, clientId, asked, got, disputed, registrationQueues, c2sOwner, s2cOwner,
                 c2s, serviceVars>>

\* ~Servicer, whether or not every request has its answer.
SendQueueDeletion(p) ==
  /\ Goto(p, "up", "closing c2s")
  /\ Register(p, [type |-> "QUEUE_DELETION", id |-> clientId[p]])
  /\ UNCHANGED <<out, in, clientId, asked, got, disputed, requestQueues, serviceVars>>

\* The names go, one after the other, from whichever process has them.
CloseC2S(p) ==
  /\ Goto(p, "closing c2s", "closing s2c")
  /\ c2sOwner' = Unbind(c2sOwner, clientId[p])
  /\ UNCHANGED <<out, in, clientId, asked, got, disputed, registrationQueues, s2cOwner, c2s, s2c,
                 serviceVars>>

CloseS2C(p) ==
  /\ Goto(p, "closing s2c", "gone")
  /\ s2cOwner' = Unbind(s2cOwner, clientId[p])
  /\ UNCHANGED <<out, in, clientId, asked, got, disputed, registrationQueues, c2sOwner, c2s, s2c,
                 serviceVars>>

\* The process ends without ~Servicer, as App does when a file cannot be read.
Die(p) ==
  /\ p \in Mortal /\ pc[p] \notin {"new"} \cup Ended
  /\ pc' = [pc EXCEPT ![p] = "dead"]
  /\ UNCHANGED <<out, in, clientId, asked, got, disputed, registrationQueues, requestQueues,
                 serviceVars>>
-----------------------------------------------------------------------------
(* The registration thread: reg() and dispatch() in turn *)

\* What the thread leaves alone.
othersVars == <<clientVars, c2sOwner, s2cOwner, s2c, registrationNames, current, startup,
                workerVars>>

Visiting(type) == message # None /\ message.type = type

Throw(what) == fault' = what /\ UNCHANGED <<message, maps, runqueue>>

\* mq_receive and accept().
ReceiveRegistration ==
  /\ Up
  /\ ~dispatching /\ message = None /\ toService[current] # << >>
  /\ message' = Head(toService[current])
  /\ toService' = [toService EXCEPT ![current] = Tail(@)]
  /\ UNCHANGED <<othersVars, dispatching, toClients, c2s, nextClientId, maps, runqueue, fault>>

\* (Seeded fault: the number is not used up.)
VisitRegistrationSameId ==
  /\ Up
  /\ Visiting("REGISTRATION")
  /\ Len(toClients[current]) < RegistrationMaxMsg
  /\ toClients' = [toClients EXCEPT ![current] = Append(@, nextClientId)]
  /\ message' = None
  /\ UNCHANGED <<othersVars, dispatching, toService, c2s, nextClientId, maps, runqueue, fault>>

\* (Seeded fault: the queue does not block, a number that does not fit is lost.)
VisitRegistrationLossy ==
  /\ Up
  /\ Visiting("REGISTRATION")
  /\ toClients' = [toClients EXCEPT ![current] =
                     IF Len(@) < RegistrationMaxMsg THEN Append(@, nextClientId) ELSE @]
  /\ nextClientId' = nextClientId + 1
  /\ message' = None
  /\ UNCHANGED <<othersVars, dispatching, toService, c2s, maps, runqueue, fault>>

\* mq_send of the number, which blocks while the queue is full.
VisitRegistration ==
  /\ Up
  /\ Visiting("REGISTRATION")
  /\ Len(toClients[current]) < RegistrationMaxMsg
  /\ toClients' = [toClients EXCEPT ![current] = Append(@, nextClientId)]
  /\ nextClientId' = nextClientId + 1
  /\ message' = None
  /\ UNCHANGED <<othersVars, dispatching, toService, c2s, maps, runqueue, fault>>

\* The client is registered and its response queue opened by name; between the
\* two openings only the first map has it.
Registered(i) == i \in DOMAIN c2sQueues
HalfRegistered(i) == i \in DOMAIN s2cQueues \ DOMAIN c2sQueues

VisitQueueCreation ==
  /\ Up
  /\ Visiting("QUEUE_CREATION") /\ ~HalfRegistered(message.id)
  /\ \/ Registered(message.id) /\ Throw("already registered")
     \/ /\ ~Registered(message.id) /\ message.id \notin DOMAIN s2cOwner
        /\ Throw("failed to open message queue")
     \/ /\ ~Registered(message.id) /\ message.id \in DOMAIN s2cOwner
        /\ s2cQueues' = Bind(s2cQueues, message.id, s2cOwner[message.id])
        /\ UNCHANGED <<c2sQueues, message, runqueue, fault>>
  /\ UNCHANGED <<othersVars, dispatching, registrationQueues, c2s, nextClientId>>

\* Then its request queue.
OpenRequestQueue ==
  /\ Up
  /\ Visiting("QUEUE_CREATION") /\ HalfRegistered(message.id)
  /\ \/ message.id \notin DOMAIN c2sOwner /\ Throw("failed to open message queue")
     \/ /\ message.id \in DOMAIN c2sOwner
        /\ c2sQueues' = Bind(c2sQueues, message.id, c2sOwner[message.id])
        /\ message' = None
        /\ UNCHANGED <<s2cQueues, runqueue, fault>>
  /\ UNCHANGED <<othersVars, dispatching, registrationQueues, c2s, nextClientId>>

\* (Seeded fault: the client's request queue is forgotten.)
VisitQueueDeletionHalf ==
  /\ Up
  /\ Visiting("QUEUE_DELETION")
  /\ \/ ~Registered(message.id) /\ Throw("not registered")
     \/ /\ Registered(message.id)
        /\ s2cQueues' = Unbind(s2cQueues, message.id)
        /\ runqueue' = {request \in runqueue : request[1] # message.id}
        /\ message' = None
        /\ UNCHANGED <<c2sQueues, fault>>
  /\ UNCHANGED <<othersVars, dispatching, registrationQueues, c2s, nextClientId>>

\* (Seeded fault: every request is forgotten.)
VisitQueueDeletionForgetful ==
  /\ Up
  /\ Visiting("QUEUE_DELETION")
  /\ \/ ~Registered(message.id) /\ Throw("not registered")
     \/ /\ Registered(message.id)
        /\ s2cQueues' = Unbind(s2cQueues, message.id)
        /\ c2sQueues' = Unbind(c2sQueues, message.id)
        /\ runqueue' = {}
        /\ message' = None
        /\ UNCHANGED fault
  /\ UNCHANGED <<othersVars, dispatching, registrationQueues, c2s, nextClientId>>

\* Both queues are closed, and the scheduler forgets the client's requests with
\* the client.
VisitQueueDeletion ==
  /\ Up
  /\ Visiting("QUEUE_DELETION")
  /\ \/ ~Registered(message.id) /\ Throw("not registered")
     \/ /\ Registered(message.id)
        /\ s2cQueues' = Unbind(s2cQueues, message.id)
        /\ c2sQueues' = Unbind(c2sQueues, message.id)
        /\ runqueue' = {request \in runqueue : request[1] # message.id}
        /\ message' = None
        /\ UNCHANGED fault
  /\ UNCHANGED <<othersVars, dispatching, registrationQueues, c2s, nextClientId>>

\* reg() has found the registration queue empty.  With nobody in the map,
\* dispatch() has nothing to do.
FinishReg ==
  /\ Up
  /\ ~dispatching /\ message = None /\ toService[current] = << >>
  /\ c2sQueues # << >>
  /\ dispatching' = TRUE
  /\ UNCHANGED <<othersVars, registrationQueues, c2s, nextClientId, maps, message, runqueue, fault>>

\* The numbers whose queues hold requests.
\* (Seeded fault: number 0 is taken for no number.)
PendingButZero == {i \in DOMAIN c2sQueues \ {0} : c2s[c2sQueues[i]] # << >>}

Pending == {i \in DOMAIN c2sQueues : c2s[c2sQueues[i]] # << >>}

\* Every queue is emptied into the scheduler.  A request that comes while
\* another queue is read might as well have come before or after.
Dispatch ==
  /\ Up
  /\ dispatching /\ dispatching' = FALSE
  /\ runqueue' = runqueue \cup UNION {{<<i, r>> : r \in ToSet(c2s[c2sQueues[i]])} : i \in Pending}
  /\ c2s' = [p \in Procs |-> IF \E i \in Pending : c2sQueues[i] = p THEN << >> ELSE c2s[p]]
  /\ UNCHANGED <<othersVars, registrationQueues, nextClientId, maps, message, fault>>
-----------------------------------------------------------------------------
(* A worker *)

\* What a worker leaves alone.
nonWorkerVars == <<clientVars, registrationQueues, c2sOwner, s2cOwner, c2s, registrationNames,
                   current, startup, nextClientId, maps, dispatching, message>>

Schedule(w, request) ==
  /\ Up
  /\ workerPc[w] = "idle" /\ request \in runqueue
  /\ runqueue' = runqueue \ {request}
  /\ workerPc' = [workerPc EXCEPT ![w] = "write"]
  /\ job' = [job EXCEPT ![w] = request]
  /\ UNCHANGED <<nonWorkerVars, s2c, fault>>

\* writeBlocking looks the client up.
WriteBlocking(w) ==
  /\ Up
  /\ workerPc[w] = "write"
  /\ \/ /\ job[w][1] \in DOMAIN s2cQueues
        /\ workerPc' = [workerPc EXCEPT ![w] = "send"]
        /\ UNCHANGED fault
     \/ /\ job[w][1] \notin DOMAIN s2cQueues
        /\ fault' = "write to nobody"
        /\ UNCHANGED workerPc
  /\ UNCHANGED <<nonWorkerVars, s2c, runqueue, job>>

\* The set and the maps change: a client is inserted into them or erased.
MapsChange == \/ Visiting("QUEUE_CREATION") /\ ~Registered(message.id)
              \/ Visiting("QUEUE_DELETION") /\ Registered(message.id)

\* The same meanwhile, without a lock: undefined behaviour.
WriteRacing(w) ==
  /\ Up
  /\ workerPc[w] = "write" /\ MapsChange
  /\ fault' = "data race"
  /\ UNCHANGED <<nonWorkerVars, s2c, runqueue, workerVars>>

\* mq_send blocks while the client's queue is full.
SendResponse(w) ==
  /\ Up
  /\ workerPc[w] = "send" /\ job[w][1] \in DOMAIN s2cQueues
  /\ Len(s2c[s2cQueues[job[w][1]]]) < ClientMaxMsg
  /\ s2c' = [s2c EXCEPT ![s2cQueues[job[w][1]]] = Append(@, job[w][2])]
  /\ workerPc' = [workerPc EXCEPT ![w] = "exchange"]
  /\ UNCHANGED <<nonWorkerVars, runqueue, job, fault>>

\* The descriptor was closed since it was looked up.  A worker that is already
\* blocked in mq_send does not notice.
SendToClosed(w) ==
  /\ Up
  /\ workerPc[w] = "send" /\ job[w][1] \notin DOMAIN s2cQueues
  /\ fault' = "write to nobody"
  /\ UNCHANGED <<nonWorkerVars, s2c, runqueue, workerVars>>
-----------------------------------------------------------------------------
(* The service process *)

\* A new process knows nothing.
Blank == /\ nextClientId' = 0
         /\ c2sQueues' = << >> /\ s2cQueues' = << >>
         /\ dispatching' = FALSE /\ message' = None
         /\ runqueue' = {}
         /\ workerPc' = [w \in Workers |-> "idle"]
         /\ job' = [w \in Workers |-> None]
         /\ UNCHANGED <<clientVars, registrationQueues, requestQueues, registrationNames>>

\* It is killed, or dies of what is modelled elsewhere.
Kill ==
  /\ Alive /\ current < MaxRuns
  /\ fault' = "killed"
  /\ Blank /\ UNCHANGED <<current, startup>>

\* It is started again; only the queues and their names are still there.
Restart ==
  /\ ~Alive /\ current < MaxRuns
  /\ current' = current + 1 /\ startup' = "unlink c2s"
  /\ fault' = "none"
  /\ Blank

\* RegistrationVisitor's constructor: each of the registration queues is
\* unlinked and created again.
CreateRegistrationQueues ==
  /\ Alive
  /\ \/ /\ startup = "unlink c2s" /\ startup' = "create c2s"
        /\ c2sName' = None /\ UNCHANGED s2cName
     \/ /\ startup = "create c2s" /\ startup' = "unlink s2c"
        /\ c2sName' = current /\ UNCHANGED s2cName
     \/ /\ startup = "unlink s2c" /\ startup' = "create s2c"
        /\ s2cName' = None /\ UNCHANGED c2sName
     \/ /\ startup = "create s2c" /\ startup' = "up"
        /\ s2cName' = current /\ UNCHANGED c2sName
  /\ UNCHANGED <<clientVars, registrationQueues, requestQueues, current, nextClientId, maps,
                 dispatching, message, runqueue, workerVars, fault>>
-----------------------------------------------------------------------------
ClientStep(p) == \/ OpenS2C(p) \/ SendRegistration(p) \/ ReceiveId(p)
                 \/ UnlinkC2S(p) \/ CreateC2S(p) \/ UnlinkS2C(p) \/ CreateS2C(p)
                 \/ SendQueueCreation(p)
                 \/ SendRequest(p) \/ RefuseResponse(p) \/ \E w \in Workers : Exchange(p, w)
                 \/ CloseC2S(p) \/ CloseS2C(p)

\* What nothing makes a client do.
ClientChoice(p) == OpenC2S(p) \/ BeginRequest(p) \/ SendQueueDeletion(p) \/ Die(p)

RegistrationStep == \/ CreateRegistrationQueues \/ ReceiveRegistration
                    \/ VisitRegistration \/ VisitQueueCreation \/ OpenRequestQueue
                    \/ VisitQueueDeletion
                    \/ FinishReg \/ Dispatch

WorkerStep(w) == \/ \E request \in runqueue : Schedule(w, request)
                 \/ WriteBlocking(w) \/ SendResponse(w)

Next == \/ \E p \in Procs : ClientStep(p) \/ ClientChoice(p)
        \/ RegistrationStep
        \/ \E w \in Workers : WorkerStep(w) \/ WriteRacing(w) \/ SendToClosed(w)
        \/ Kill \/ Restart

\* Every thread goes on when it can; nobody has to make requests, to leave, to
\* die or to start the service again.
Fairness == /\ \A p \in Procs : WF_vars(ClientStep(p))
            /\ WF_vars(RegistrationStep)
            /\ \A w \in Workers : WF_vars(WorkerStep(w))

Spec == Init /\ [][Next]_vars /\ Fairness
-----------------------------------------------------------------------------
Constructing == {"open s2c", "register", "await", "unlink c2s", "create c2s", "unlink s2c",
                 "create s2c", "announce"}
Closing == {"closing c2s", "closing s2c"}
Pcs == {"new", "up", "sending"} \cup Constructing \cup Closing \cup Ended
Startups == {"unlink c2s", "create c2s", "unlink s2c", "create s2c", "up"}
Faults == {"none", "killed", "already registered", "not registered",
           "failed to open message queue", "write to nobody", "data race"}

TypeOK ==
  /\ pc \in [Procs -> Pcs]
  /\ out \in [Procs -> Runs \cup {None}] /\ in \in [Procs -> Runs \cup {None}]
  /\ clientId \in [Procs -> Ids]
  /\ asked \in [Procs -> Nat]
  /\ got \in [Procs -> SUBSET Nat]
  /\ \A p \in Procs : got[p] \subseteq 0..(asked[p] - 1)
  /\ toService \in [Runs -> Seq(Message)] /\ toClients \in [Runs -> Seq(Nat)]
  /\ c2sName \in Runs \cup {None} /\ s2cName \in Runs \cup {None}
  /\ c2sOwner \in [DOMAIN c2sOwner -> Procs] /\ DOMAIN c2sOwner \subseteq Nat
  /\ s2cOwner \in [DOMAIN s2cOwner -> Procs] /\ DOMAIN s2cOwner \subseteq Nat
  /\ c2s \in [Procs -> Seq(Nat)] /\ s2c \in [Procs -> Seq(Nat)]
  /\ current \in Runs /\ startup \in Startups /\ nextClientId \in Nat
  /\ c2sQueues \in [DOMAIN c2sQueues -> Procs] /\ DOMAIN c2sQueues \subseteq DOMAIN s2cQueues
  /\ s2cQueues \in [DOMAIN s2cQueues -> Procs] /\ DOMAIN s2cQueues \subseteq Nat
  /\ dispatching \in BOOLEAN /\ message \in Message \cup {None}
  /\ runqueue \subseteq Nat \X Nat
  /\ workerPc \in [Workers -> {"idle", "write", "send", "exchange"}]
  /\ job \in [Workers -> (Nat \X Nat) \cup {None}]
  /\ fault \in Faults
  /\ disputed \subseteq Nat

\* p has opened a registration queue of one run of the service and one of the next.
Mixed(p) == out[p] # in[p] /\ in[p] # None

\* No client is registered twice, and none is removed that is not there, unless
\* a client whose two registration queues are of different runs of the service
\* announced the number (visitQueueCreation, visitQueueDeletion).
ProtocolKept ==
  fault \in {"already registered", "not registered"} =>
    \E p \in Procs : Mixed(p) /\ out[p] = current /\ clientId[p] = message.id

\* p has left or is leaving, without the answer of something it asked for.
Deserted(p) == pc[p] \in Closing \cup Ended /\ Cardinality(got[p]) < asked[p]

\* What the service can die of, and of whom.  But for clients with a disputed
\* number and those that come to a dying service:
\*   - it fails to open the queues only of a client that left before it was
\*     answered at all;
\*   - a worker writes to nobody, or to a closed queue, only when its client
\*     left with answers outstanding;
\*   - a worker looks a client up while the maps change, without a lock, when
\*     any other client comes or leaves, but not when its own does, unless that
\*     leaves with answers outstanding.  This is all that protects the service
\*     from the race: two ordinary clients are enough for it.
\* (visitQueueCreation, visitQueueDeletion and writeBlocking)
ServiceDeathsExplained ==
  /\ ProtocolKept
  /\ fault = "failed to open message queue" =>
       \E p \in Procs : /\ clientId[p] = message.id /\ out[p] = current
                        /\ \/ message.id \in disputed
                           \/ pc[p] \in {"closing s2c"} \cup Ended /\ got[p] = {}
  /\ fault = "write to nobody" =>
       \E w \in Workers, p \in Procs :
         /\ workerPc[w] \in {"write", "send"}
         /\ clientId[p] = job[w][1] /\ out[p] = current
         /\ job[w][1] \in disputed \/ Deserted(p)
  /\ fault = "data race" =>
       \E w \in Workers, p \in Procs :
         /\ workerPc[w] = "write"
         /\ clientId[p] = message.id /\ out[p] = current
         /\ job[w][1] \in {message.id} \ disputed => Deserted(p)

\* The requests of client p on their way through the service.
AtWorkers(p, pcs) == {w \in Workers : workerPc[w] \in pcs /\ job[w][1] = clientId[p]}
Scheduled(p) == {request \in runqueue : request[1] = clientId[p]}

\* No request of a client that is still there, and whose number is not disputed,
\* is lost or served twice: those it waits for are in its queue, in the scheduler
\* or at one worker each, and its response queue holds exactly what the workers
\* that wait for it have written (sendRequests, dispatch, writeBlocking,
\* receiveResponses).
RequestsTracked ==
  \A p \in Procs :
    Alive /\ pc[p] = "up" /\ out[p] = current /\ clientId[p] \notin disputed =>
      /\ ToSet(c2s[p]) \cup {request[2] : request \in Scheduled(p)}
           \cup {job[w][2] : w \in AtWorkers(p, {"write", "send", "exchange"})}
         = (0..(asked[p] - 1)) \ got[p]
      /\ Len(c2s[p]) + Cardinality(Scheduled(p))
           + Cardinality(AtWorkers(p, {"write", "send", "exchange"}))
         = asked[p] - Cardinality(got[p])
      /\ ToSet(s2c[p]) = {job[w][2] : w \in AtWorkers(p, {"exchange"})}

NoSession == <<0, 0>>
RequestIds == UNION {0..MaxRequests[p] : p \in Procs}
S == INSTANCE Sessions WITH
       SessionIds <- Runs \X Nat,
       Name <- [s \in Runs \X Nat |-> s[2]],
       Requests <- RequestIds,
       session <- [p \in Procs |->
                     IF clientId[p] = None THEN NoSession ELSE <<in[p], clientId[p]>>],
       present <- {p \in Procs : pc[p] \notin Ended},
       asked <- [p \in Procs |-> 0..(asked[p] - 1)],
       answered <- got,
       made <- {<<<<current, job[w][1]>>, job[w][2]>> :
                  w \in {v \in Workers : Alive /\ workerPc[v] = "exchange"}}

\* Whatever dies and whatever is started again, no two processes are given the
\* same number by one run, and as long as a process' number is not disputed,
\* it is given the answers that a worker of its run made for it, each of them
\* once, and nothing else.
Implements == S!Spec

\* The service that p registers with, or is registered with, has died.
ServiceDied(p) == ~Alive \/ out[p] # current \/ in[p] \notin {None, current}

\* Numbers that are in the queue of run n for good: their clients died before
\* they took one, or wait for one of another run.
Leaked(n) == Cardinality({p \in Procs : /\ out[p] = n /\ clientId[p] = None
                                        /\ pc[p] = "dead" \/ Mixed(p)})
\* Clients that took a number of run n and registered with another.
Stolen(n) == {p \in Procs : in[p] = n /\ out[p] # n /\ clientId[p] # None}

\* Servicer's constructor returns: neither two bounded queues in opposite
\* directions nor clients that take each other's numbers can block it for ever.
\* Only clients that die while they wait for their number can, when they fill
\* the queue that all numbers pass through, and clients that came while the
\* service was started again, when they take a number they did not ask for.
ConstructorReturns ==
  \A p \in Procs :
    []<>(\/ pc[p] \notin Constructing \/ ServiceDied(p)
         \/ Leaked(out[p]) > RegistrationMaxMsg \/ Stolen(out[p]) # {})

\* Workers that wait for a client that is not there any more, for ever.
LostWorkers ==
  {w \in Workers : /\ workerPc[w] \in {"send", "exchange"}
                   /\ \E p \in Procs : /\ pc[p] \in Closing \cup Ended
                                        /\ clientId[p] = job[w][1]}

\* A client that stays gets its answers in the end.  One that leaves costs the
\* service one worker at most for each answer it does not wait for, and only
\* when all are lost does it harm the others.
Served ==
  \A p \in Procs :
    []<>(\/ Cardinality(got[p]) = asked[p]
         \/ pc[p] \notin {"up", "sending"} \/ ServiceDied(p) \/ clientId[p] \in disputed
         \/ Leaked(out[p]) > RegistrationMaxMsg \/ LostWorkers = Workers)
=============================================================================
