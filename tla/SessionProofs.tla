----------------------------- MODULE SessionProofs -----------------------------
(***************************************************************************)
(* What Registration's clients can rely on, for any number of processes,   *)
(* workers and runs.  The third layer, on top of IInv and Order:           *)
(*                                                                         *)
(* A member is a client of this run whose number nobody disputes.  Clients *)
(* says of each member that its queues' names are its own from when it     *)
(* makes them (Opened), that nothing is done for it before it is           *)
(* registered (Unserved), nor after it is removed unless it left without   *)
(* its answers (Departed), and that each request it has sent is in one     *)
(* place (Flow, Complete).  It holds of a client that takes its number,    *)
(* since nobody has announced that number to this run, and every step of   *)
(* the client itself, of another client, of the registration thread and of *)
(* a worker keeps it.                                                      *)
(*                                                                         *)
(* From it: no request is lost (RequestsAreTracked), each step is a step   *)
(* of Sessions or a stutter (RegistrationRefinement), and what the service *)
(* dies of is as ServiceDeathsExplained says (ServiceDeaths).              *)
(***************************************************************************)
EXTENDS RegistrationProofs
-----------------------------------------------------------------------------
(* The clients of this run whose number nobody disputes *)

Member(p) == out[p] = current /\ clientId[p] # None /\ clientId[p] \notin disputed

\* Of a client p with the number i: the names that p uses are p's, from when it
\* makes its queues until the service has opened them or p has gone, and the
\* service has no others.
Opened(p, i) ==
  /\ i \in DOMAIN c2sQueues => c2sQueues[i] = p
  /\ i \in DOMAIN s2cQueues => s2cQueues[i] = p
  /\ pc[p] \in {"unlink s2c", "create s2c"} => i \in DOMAIN c2sOwner /\ c2sOwner[i] = p
  /\ Creation(i) \in Unvisited \/ pc[p] \in {"announce", "up", "sending", "gone"} \cup Closing =>
       /\ i \in DOMAIN c2sOwner => c2sOwner[i] = p
       /\ i \in DOMAIN s2cOwner => s2cOwner[i] = p
  /\ pc[p] \in {"announce", "up", "sending", "closing c2s"} =>
       i \in DOMAIN c2sOwner /\ i \in DOMAIN s2cOwner

\* A worker has something of the number i, or the request r.
HasJob(w, i) == workerPc[w] # "idle" /\ job[w][1] = i
Busy(i, r) == \E w \in Workers : HasJob(w, i) /\ job[w][2] = r
Queued(i, r) == <<i, r>> \in runqueue
Used(i) == (\E r \in Nat : Queued(i, r)) \/ \E w \in Workers : HasJob(w, i)

\* Nothing is done for it before it is registered, and after it has been removed
\* only when it has left.
Unserved(p, i) == Creation(i) \in Unvisited => got[p] = {} /\ ~Used(i)
Departed(p, i) == Used(i) /\ ~Registered(i) => pc[p] \in Closing \cup Ended

\* The requests that p has sent.
Sent(p) == {r \in Nat : r < asked[p] /\ (pc[p] = "sending" => r + 1 < asked[p])}

\* Each of them is in one place at most: in p's queue, in the scheduler, at one
\* worker, or answered; p's response queue has what the workers wait with.
Flow(p, i) ==
  /\ got[p] \subseteq Sent(p)
  /\ \A r \in ToSet(c2s[p]) : r \in Sent(p) \ got[p] /\ ~Queued(i, r) /\ ~Busy(i, r)
  /\ \A r \in Nat : Queued(i, r) => r \in Sent(p) \ got[p] /\ ~Busy(i, r)
  /\ \A w \in Workers : HasJob(w, i) =>
       /\ job[w][2] \in Sent(p) \ got[p]
       /\ \A v \in Workers : HasJob(v, i) /\ job[v][2] = job[w][2] => v = w
  /\ OnlyOnce(c2s[p], Nat) /\ OnlyOnce(s2c[p], Nat)
  /\ \A r \in ToSet(s2c[p]) :
       \E w \in Workers : HasJob(w, i) /\ workerPc[w] = "exchange" /\ job[w][2] = r
  /\ \A w \in Workers : HasJob(w, i) /\ workerPc[w] = "exchange" => job[w][2] \in ToSet(s2c[p])

\* None of them is lost while p stays.
Complete(p, i) ==
  pc[p] \in {"up", "sending"} =>
    \A r \in Sent(p) \ got[p] : r \in ToSet(c2s[p]) \/ Queued(i, r) \/ Busy(i, r)

Client(p, i) == Opened(p, i) /\ Unserved(p, i) /\ Departed(p, i) /\ Flow(p, i) /\ Complete(p, i)
Clients == Alive => \A p \in Procs : Member(p) => Client(p, clientId[p])
-----------------------------------------------------------------------------
(* Who is a member *)

\* Everybody else who had the number has ended, and belongs to an earlier run.
LEMMA MemberAlone ==
  ASSUME IInv, NEW p \in Procs, Member(p)
  PROVE  /\ clientId[p] \in Nat /\ in[p] = current /\ out[p] = current
         /\ pc[p] \notin Idle
         /\ \A q \in Procs \ {p} : clientId[q] = clientId[p] => pc[q] \in Ended /\ out[q] # current
         /\ Proper(clientId[p])
  <1> USE DEF IInv
  <1>1. clientId[p] # None /\ out[p] = current /\ in[p] = current /\ clientId[p] \in Nat
        /\ current \in Runs
    <2>1. clientId[p] # None /\ out[p] = current /\ clientId[p] \notin disputed
      BY DEF Member
    <2>2. out[p] = in[p]
      BY <2>1 DEF Holders
    <2> QED
      BY <2>1, <2>2 DEF TypeOK, Ids
  <1>2. pc[p] \notin Idle
    BY <1>1 DEF Stages, Stage
  <1>3. ASSUME NEW q \in Procs \ {p}, clientId[q] = clientId[p]
        PROVE  pc[q] \in Ended /\ out[q] # current /\ out[q] = in[q]
    <2>1. clientId[q] # None /\ clientId[q] \notin disputed
      BY <1>1, <1>3 DEF Member
    <2>2. out[q] = in[q]
      BY <2>1 DEF Holders
    <2>3. in[q] # in[p]
      BY <1>1, <1>3 DEF Numbers
    <2>4. in[q] \in Runs
      BY <2>1 DEF Stages, Stage
    <2>5. in[q] <= current
      <3>1. \A r \in Procs : in[r] \in Runs => in[r] <= current
        BY DEF Begun
      <3> QED
        BY <2>4, <3>1
    <2>6. in[q] < in[p]
      <3>1. in[q] \in Nat /\ in[p] \in Nat
        BY <1>1, <2>4, RunsNumbered
      <3> QED
        BY <1>1, <2>3, <2>5, <3>1
    <2>7. pc[q] \in Ended
      BY <1>1, <1>3, <2>6 DEF Holders, Member
    <2> QED
      BY <1>1, <2>2, <2>3, <2>7
  <1>4. Proper(clientId[p])
    BY <1>1, <1>3 DEF Proper
  <1> QED
    BY <1>1, <1>2, <1>3, <1>4

\* A client that has not announced its queues is unknown to the service.
LEMMA Unannounced ==
  ASSUME IInv, NEW i \in Nat, ~Announced(i)
  PROVE  /\ Creation(i) \notin Unvisited /\ i \notin DOMAIN s2cQueues /\ i \notin DOMAIN c2sQueues
         /\ ~Used(i)
  <1> USE DEF IInv
  <1>1. Creation(i) \notin Unvisited
    BY DifferentMessages DEF Senders
  <1>2. i \notin DOMAIN s2cQueues /\ i \notin DOMAIN c2sQueues
    BY DEF Senders, TypeOK
  <1>3. \A r \in Nat : ~Queued(i, r)
    <2> SUFFICES ASSUME NEW r \in Nat, <<i, r>> \in runqueue PROVE FALSE
      BY DEF Queued
    <2>1. <<i, r>>[1] = i
      OBVIOUS
    <2> QED
      BY <2>1 DEF Senders
  <1>4. \A w \in Workers : ~HasJob(w, i)
    BY DEF Senders, HasJob
  <1> QED
    BY <1>1, <1>2, <1>3, <1>4 DEF Used

\* The service has nothing of a member that has not announced its queues.
LEMMA NotYet ==
  ASSUME IInv, NEW p \in Procs, Member(p), pc[p] \notin Announcing
  PROVE  /\ Creation(clientId[p]) \notin Unvisited /\ ~Used(clientId[p])
         /\ clientId[p] \notin DOMAIN s2cQueues /\ clientId[p] \notin DOMAIN c2sQueues
  <1>1. ~Announced(clientId[p])
    BY MemberAlone DEF Announced
  <1> QED
    BY <1>1, MemberAlone, Unannounced

\* A member has been one since it received its number.
LEMMA MemberBefore ==
  ASSUME IInv, [Next]_vars, Alive', NEW p \in Procs, Member(p)'
  PROVE  Alive /\ current' = current /\ (Member(p) \/ ReceiveId(p))
  <1> USE DEF IInv
  <1>1. ASSUME NEW q \in Procs, ClientStep(q) \/ ClientChoice(q)
        PROVE  Alive /\ current' = current /\ (Member(p) \/ ReceiveId(p))
    <2>1. fault' = fault /\ current' = current
      BY <1>1, ClientFrame
    <2>2. disputed \subseteq disputed'
      BY <1>1, OwnFrame, TypeReceive
    <2>3. CASE clientId[p] # None
      BY <1>1, <2>1, <2>2, <2>3, HeldClient DEF Member, Alive
    <2>4. CASE clientId[p] = None
      <3>1. clientId'[p] # None
        BY DEF Member
      <3>2. p = q /\ ReceiveId(q)
        BY <1>1, <2>4, <3>1, OthersFrame, OwnFrame
      <3> QED
        BY <2>1, <3>2 DEF Alive
    <2> QED
      BY <2>3, <2>4
  <1>2. CASE RegistrationStep
    BY <1>2, RegistrationFrame DEF clientVars, Member
  <1>3. ASSUME NEW w \in Workers, WorkerStep(w) \/ WriteRacing(w) \/ SendToClosed(w)
        PROVE  Alive /\ current' = current /\ Member(p)
    BY <1>3, WorkerFrame DEF nonWorkerVars, clientVars, Member
  <1>4. ~Kill
    BY DEF Kill, Alive
  <1>5. ~Restart
    <2> SUFFICES ASSUME Restart PROVE FALSE
      OBVIOUS
    <2>1. current' # current
      <3>1. current \in Nat
        BY RunsNumbered DEF TypeOK
      <3> QED
        BY <3>1, ProcessFrame DEF Alive
    <2>2. out'[p] # current'
      BY <2>1, BegunProcess
    <2> QED
      BY <2>2 DEF Member
  <1>6. CASE UNCHANGED vars
    BY <1>6 DEF vars, clientVars, serviceVars, Member, Alive
  <1> QED
    BY <1>1, <1>2, <1>3, <1>4, <1>5, <1>6 DEF Next

\* What the messages say of it.
LEMMA MemberOrder ==
  ASSUME IInv, Order, Alive, NEW p \in Procs, Member(p)
  PROVE  Ordered(clientId[p])
  BY MemberAlone DEF Order
-----------------------------------------------------------------------------
(* What keeps a client's facts *)

\* The workers that have a request of the number i keep it.
SameJobs(i) ==
  \A w \in Workers :
    /\ HasJob(w, i)' <=> HasJob(w, i)
    /\ HasJob(w, i) => job'[w] = job[w] /\ (workerPc'[w] = "exchange" <=> workerPc[w] = "exchange")

SameRequests(i) == \A r \in Nat : Queued(i, r)' <=> Queued(i, r)

\* What is at a worker is a request of a number.
LEMMA JobTypes ==
  ASSUME TypeOK, Stages, NEW i, NEW w \in Workers
  PROVE  /\ HasJob(w, i) => job[w][2] \in Nat /\ job[w] = <<i, job[w][2]>>
         /\ \A r : workerPc[w] # "idle" /\ job[w] = <<i, r>> => HasJob(w, i) /\ job[w][2] = r
  <1>1. workerPc[w] # "idle" => job[w] \in Nat \X Nat
    BY DEF Stages
  <1> QED
    BY <1>1 DEF HasJob

\* Steps that change no worker's request of this number, and none in the scheduler.
LEMMA SameBusy ==
  ASSUME NEW i, SameJobs(i)
  PROVE  /\ \A r : Busy(i, r)' <=> Busy(i, r)
         /\ SameRequests(i) => (Used(i)' <=> Used(i))
  BY DEF SameJobs, SameRequests, Used, Busy

\* A step that changes nothing of p's names.
LEMMA OpenedKept ==
  ASSUME NEW p \in Procs, NEW i, pc'[p] = pc[p], Opened(p, i),
         i \in DOMAIN c2sOwner' <=> i \in DOMAIN c2sOwner,
         i \in DOMAIN c2sOwner => c2sOwner'[i] = c2sOwner[i],
         i \in DOMAIN s2cOwner' <=> i \in DOMAIN s2cOwner,
         i \in DOMAIN s2cOwner => s2cOwner'[i] = s2cOwner[i],
         i \in DOMAIN c2sQueues' => i \in DOMAIN c2sQueues /\ c2sQueues'[i] = c2sQueues[i],
         i \in DOMAIN s2cQueues' => i \in DOMAIN s2cQueues /\ s2cQueues'[i] = s2cQueues[i],
         Creation(i) \in Unvisited' => Creation(i) \in Unvisited
  PROVE  Opened(p, i)'
  BY DEF Opened

\* A step that changes nothing of p's requests.
LEMMA FlowKept ==
  ASSUME NEW p \in Procs, NEW i, Flow(p, i),
         c2s'[p] = c2s[p], s2c'[p] = s2c[p], got'[p] = got[p], Sent(p) \subseteq Sent(p)',
         SameJobs(i), SameRequests(i)
  PROVE  Flow(p, i)'
  <1>1. /\ \A r : Busy(i, r)' <=> Busy(i, r)
        /\ \A r \in Nat : Queued(i, r)' <=> Queued(i, r)
        /\ \A w \in Workers : HasJob(w, i)' <=> HasJob(w, i)
        /\ \A w \in Workers : HasJob(w, i) =>
             job'[w] = job[w] /\ (workerPc'[w] = "exchange" <=> workerPc[w] = "exchange")
    BY SameBusy DEF SameRequests, SameJobs
  <1>2. (\A r \in ToSet(c2s[p]) : r \in Sent(p) \ got[p] /\ ~Queued(i, r) /\ ~Busy(i, r))'
    BY <1>1 DEF Flow, Sent
  <1>3. (\A r \in Nat : Queued(i, r) => r \in Sent(p) \ got[p] /\ ~Busy(i, r))'
    BY <1>1 DEF Flow
  <1>4. (\A w \in Workers : HasJob(w, i) =>
           /\ job[w][2] \in Sent(p) \ got[p]
           /\ \A v \in Workers : HasJob(v, i) /\ job[v][2] = job[w][2] => v = w)'
    BY <1>1 DEF Flow
  <1>5. (\A r \in ToSet(s2c[p]) :
           \E w \in Workers : HasJob(w, i) /\ workerPc[w] = "exchange" /\ job[w][2] = r)'
    BY <1>1 DEF Flow
  <1>6. (\A w \in Workers : HasJob(w, i) /\ workerPc[w] = "exchange"
          => job[w][2] \in ToSet(s2c[p]))'
    BY <1>1 DEF Flow
  <1>7. (OnlyOnce(c2s[p], Nat) /\ OnlyOnce(s2c[p], Nat))'
    BY DEF Flow
  <1>8. (got[p] \subseteq Sent(p))'
    BY DEF Flow
  <1> QED
    BY <1>2, <1>3, <1>4, <1>5, <1>6, <1>7, <1>8 DEF Flow

\* A step that takes nothing of p's requests away.
LEMMA CompleteKept ==
  ASSUME NEW p \in Procs, NEW i, Complete(p, i),
         pc'[p] \in {"up", "sending"} => pc[p] \in {"up", "sending"},
         c2s'[p] = c2s[p], got'[p] = got[p], Sent(p)' \subseteq Sent(p),
         SameJobs(i), SameRequests(i)
  PROVE  Complete(p, i)'
  <1>1. \A r : Busy(i, r)' <=> Busy(i, r)
    BY SameBusy
  <1>2. \A r \in Sent(p)' : r \in Nat
    BY DEF Sent
  <1> QED
    BY <1>1, <1>2 DEF Complete, SameRequests

\* A step that changes nothing of p's but, perhaps, its names.
LEMMA RestKept ==
  ASSUME NEW p \in Procs, NEW i, Client(p, i), Opened(p, i)',
         pc'[p] = pc[p], asked'[p] = asked[p], got'[p] = got[p], c2s'[p] = c2s[p], s2c'[p] = s2c[p],
         Registered(i) => Registered(i)',
         Creation(i) \in Unvisited' => Creation(i) \in Unvisited,
         SameJobs(i), SameRequests(i)
  PROVE  Client(p, i)'
  <1> USE DEF Client
  <1>1. Sent(p)' = Sent(p)
    BY DEF Sent
  <1>2. Flow(p, i)'
    BY <1>1, FlowKept
  <1>3. Complete(p, i)'
    BY <1>1, CompleteKept
  <1>4. Used(i)' <=> Used(i)
    BY SameBusy
  <1>5. Unserved(p, i)'
    BY <1>4 DEF Unserved
  <1>6. Departed(p, i)'
    BY <1>4 DEF Departed
  <1> QED
    BY <1>2, <1>3, <1>5, <1>6

\* A step that changes nothing of p's.
LEMMA ClientKept ==
  ASSUME NEW p \in Procs, NEW i, Client(p, i),
         pc'[p] = pc[p], asked'[p] = asked[p], got'[p] = got[p], c2s'[p] = c2s[p], s2c'[p] = s2c[p],
         i \in DOMAIN c2sOwner' <=> i \in DOMAIN c2sOwner,
         i \in DOMAIN c2sOwner => c2sOwner'[i] = c2sOwner[i],
         i \in DOMAIN s2cOwner' <=> i \in DOMAIN s2cOwner,
         i \in DOMAIN s2cOwner => s2cOwner'[i] = s2cOwner[i],
         i \in DOMAIN c2sQueues' <=> i \in DOMAIN c2sQueues,
         i \in DOMAIN c2sQueues => c2sQueues'[i] = c2sQueues[i],
         i \in DOMAIN s2cQueues' => i \in DOMAIN s2cQueues /\ s2cQueues'[i] = s2cQueues[i],
         Creation(i) \in Unvisited' => Creation(i) \in Unvisited,
         SameJobs(i), SameRequests(i)
  PROVE  Client(p, i)'
  <1>1. Opened(p, i)'
    BY OpenedKept DEF Client
  <1>2. Registered(i) => Registered(i)'
    BY DEF Registered
  <1> QED
    BY <1>1, <1>2, RestKept
-----------------------------------------------------------------------------
(* The steps of the clients *)

\* A client touches the names of its own number only, and only the jobs of its
\* own requests.
LEMMA OthersNames ==
  ASSUME TypeOK, NEW q \in Procs, ClientStep(q) \/ ClientChoice(q), NEW i, clientId[q] # i
  PROVE  /\ i \in DOMAIN c2sOwner' <=> i \in DOMAIN c2sOwner
         /\ i \in DOMAIN c2sOwner => c2sOwner'[i] = c2sOwner[i]
         /\ i \in DOMAIN s2cOwner' <=> i \in DOMAIN s2cOwner
         /\ i \in DOMAIN s2cOwner => s2cOwner'[i] = s2cOwner[i]
  <1>1. /\ c2sOwner' \in {c2sOwner, Unbind(c2sOwner, clientId[q]), Bind(c2sOwner, clientId[q], q)}
        /\ s2cOwner' \in {s2cOwner, Unbind(s2cOwner, clientId[q]), Bind(s2cOwner, clientId[q], q)}
    BY DEF ClientStep, ClientChoice, OpenC2S, OpenS2C, SendRegistration, ReceiveId, UnlinkC2S,
         CreateC2S, UnlinkS2C, CreateS2C, SendQueueCreation, BeginRequest, SendRequest,
         RefuseResponse, Exchange, SendQueueDeletion, CloseC2S, CloseS2C, Die, requestQueues
  <1>2. ASSUME NEW map, NEW map2,
               map2 \in {map, Unbind(map, clientId[q]), Bind(map, clientId[q], q)}
        PROVE  /\ i \in DOMAIN map2 <=> i \in DOMAIN map
               /\ i \in DOMAIN map => map2[i] = map[i]
    <2>1. CASE map2 = Unbind(map, clientId[q])
      BY <2>1 DEF Unbind
    <2>2. CASE map2 = Bind(map, clientId[q], q)
      BY <2>2 DEF Bind
    <2> QED
      BY <1>2, <2>1, <2>2
  <1> QED
    BY <1>1, <1>2

\* Clients change no worker's requests but by taking an answer with their own number.
LEMMA OthersJobs ==
  ASSUME TypeOK, NEW q \in Procs, ClientStep(q) \/ ClientChoice(q), NEW i,
         clientId[q] # i \/ \A w \in Workers : ~Exchange(q, w)
  PROVE  SameJobs(i) /\ SameRequests(i)
  <1>1. runqueue' = runqueue
    BY ClientFrame
  <1>2. CASE \A w \in Workers : ~Exchange(q, w)
    <2>1. workerPc' = workerPc /\ job' = job
      BY <1>2 DEF ClientStep, ClientChoice, OpenC2S, OpenS2C, SendRegistration, ReceiveId,
         UnlinkC2S, CreateC2S, UnlinkS2C, CreateS2C, SendQueueCreation, BeginRequest, SendRequest,
         RefuseResponse, SendQueueDeletion, CloseC2S, CloseS2C, Die, serviceVars, workerVars
    <2> QED
      BY <1>1, <2>1 DEF SameJobs, SameRequests, HasJob, Queued
  <1>3. ASSUME NEW w \in Workers, Exchange(q, w), clientId[q] # i
        PROVE  SameJobs(i)
    <2>1. job[w][1] # i /\ workerPc'[w] = "idle"
      BY <1>3 DEF Exchange, TypeOK
    <2>2. \A v \in Workers \ {w} : workerPc'[v] = workerPc[v] /\ job'[v] = job[v]
      BY <1>3 DEF Exchange, TypeOK
    <2> QED
      BY <2>1, <2>2 DEF SameJobs, HasJob
  <1> QED
    BY <1>1, <1>2, <1>3 DEF SameRequests, Queued

\* Nobody else's step changes anything of a member's.
LEMMA ClientOther ==
  ASSUME IInv, NEW p \in Procs, Member(p), Client(p, clientId[p]),
         NEW q \in Procs \ {p}, ClientStep(q) \/ ClientChoice(q)
  PROVE  Client(p, clientId[p])'
  <1> USE DEF IInv
  <1> DEFINE i == clientId[p]
  <1>1. clientId'[p] = i /\ pc'[p] = pc[p] /\ asked'[p] = asked[p] /\ got'[p] = got[p]
        /\ c2s'[p] = c2s[p] /\ s2c'[p] = s2c[p]
    BY OthersFrame
  <1>2. clientId[q] # i
    BY OwnFrame, MemberAlone
  <1>3. /\ i \in DOMAIN c2sOwner' <=> i \in DOMAIN c2sOwner
        /\ i \in DOMAIN c2sOwner => c2sOwner'[i] = c2sOwner[i]
        /\ i \in DOMAIN s2cOwner' <=> i \in DOMAIN s2cOwner
        /\ i \in DOMAIN s2cOwner => s2cOwner'[i] = s2cOwner[i]
    BY <1>2, OthersNames
  <1>4. SameJobs(i) /\ SameRequests(i)
    BY <1>2, OthersJobs
  <1>5. c2sQueues' = c2sQueues /\ s2cQueues' = s2cQueues
    BY ClientFrame DEF maps
  <1>6. Creation(i) \in Unvisited' => Creation(i) \in Unvisited
    <2>1. ASSUME NEW msg \in Message, Sends(q, msg) PROVE msg # Creation(i)
      BY <1>2, <2>1, DifferentMessages, RegistrationAssumption DEF Sends
    <2> QED
      BY <2>1, UnvisitedClient
  <1>7. Client(p, i)'
    BY <1>1, <1>3, <1>4, <1>5, <1>6, ClientKept
  <1> QED
    BY <1>1, <1>7

\* A client that has just received its number.
LEMMA ClientNew ==
  ASSUME IInv, NEW p \in Procs, ReceiveId(p), Member(p)', NEW i \in Nat, clientId'[p] = i
  PROVE  Client(p, i)' /\ ~Announced(i)
  <1> USE DEF IInv
  <1>1. /\ clientId[p] = None /\ i \notin disputed' /\ disputed \subseteq disputed'
        /\ \A q \in Procs \ {p} : clientId'[q] = clientId[q]
        /\ out'[p] = current' /\ in[p] \in Runs
    BY TypeReceive DEF Member
  <1>2. ClientStep(p)
    BY DEF ClientStep
  <1>3. /\ UNCHANGED <<out, in, asked, got, c2sOwner, s2cOwner, c2s, s2c, current, c2sQueues,
                       s2cQueues, toService, message, runqueue, workerPc, job>>
        /\ pc[p] = "await" /\ pc'[p] = "unlink c2s"
    BY DEF ReceiveId, Goto, TypeOK, requestQueues, serviceVars, maps, workerVars
  <1>4. out[p] = current /\ in[p] = current
    <2>1. ~Disputes(p, i)
      <3>1. /\ Head(toClients[in[p]]) = i
            /\ disputed' = disputed \cup {j \in {Head(toClients[in[p]])} : Disputes(p, j)}
        BY TypeReceive DEF ReceiveId
      <3> QED
        BY <1>1, <3>1
    <2> QED
      BY <2>1 DEF Disputes
  <1>5. ~Announced(i)
    <2> SUFFICES ASSUME NEW q \in Procs, out[q] = current, clientId[q] = i, pc[q] \in Announcing
                 PROVE FALSE
      BY DEF Announced
    <2>1. clientId[q] # None /\ clientId[q] \notin disputed
      BY <1>1, RegistrationAssumption
    <2>2. in[q] = current
      BY <2>1 DEF Holders
    <2> QED
      BY <1>4, <2>2, NumbersReceive
  <1>6. /\ Creation(i) \notin Unvisited /\ i \notin DOMAIN s2cQueues /\ i \notin DOMAIN c2sQueues
        /\ ~Used(i)
    BY <1>1, <1>5, Unannounced
  <1>7. Unvisited' = Unvisited
    BY <1>3 DEF Unvisited
  <1>8. Opened(p, i)'
    BY <1>3, <1>6, <1>7 DEF Opened, Closing
  <1>9. (\A r \in Nat : ~Queued(i, r)) /\ \A w \in Workers : ~HasJob(w, i)
    BY <1>6 DEF Used
  <1>10. (\A r \in Nat : ~Queued(i, r)') /\ \A w \in Workers : ~HasJob(w, i)'
    BY <1>3, <1>9 DEF Queued, HasJob
  <1>11. c2s'[p] = << >> /\ s2c'[p] = << >>
    BY <1>1, <1>3 DEF Names
  <1>12. Flow(p, i)'
    <2>1. got'[p] = {}
      <3>1. asked[p] = 0 /\ got[p] \subseteq 0..(asked[p] - 1)
        BY <1>1 DEF Stages, Stage, TypeOK
      <3>2. 0..(0 - 1) = {}
        OBVIOUS
      <3> QED
        BY <1>3, <3>1, <3>2
    <2> QED
      BY <1>10, <1>11, <2>1, Nothing DEF Flow
  <1>13. Unserved(p, i)' /\ Departed(p, i)' /\ Complete(p, i)'
    BY <1>3, <1>6, <1>7, <1>10 DEF Unserved, Departed, Complete, Used
  <1> QED
    BY <1>5, <1>8, <1>12, <1>13 DEF Client

\* A member has its number already.
LEMMA OwnSteps ==
  ASSUME IInv, NEW p \in Procs, Member(p), ClientStep(p) \/ ClientChoice(p)
  PROVE  /\ ~OpenC2S(p) /\ ~OpenS2C(p) /\ ~SendRegistration(p) /\ ~ReceiveId(p)
         /\ clientId' = clientId /\ c2sQueues' = c2sQueues /\ s2cQueues' = s2cQueues
         /\ message' = message /\ runqueue' = runqueue /\ current' = current
         /\ \A q \in Procs \ {p} : c2s'[q] = c2s[q] /\ s2c'[q] = s2c[q]
         /\ ~SendQueueCreation(p) => (Creation(clientId[p]) \in Unvisited' <=>
                                        Creation(clientId[p]) \in Unvisited)
  <1> USE DEF IInv
  <1>1. ~OpenC2S(p) /\ ~OpenS2C(p) /\ ~SendRegistration(p) /\ ~ReceiveId(p)
    BY MemberAlone DEF OpenC2S, OpenS2C, SendRegistration, ReceiveId, Goto, Idle
  <1>2. clientId' = clientId
    BY <1>1, OwnFrame
  <1>3. c2sQueues' = c2sQueues /\ s2cQueues' = s2cQueues /\ message' = message
          /\ runqueue' = runqueue
        /\ current' = current
    BY ClientFrame DEF maps
  <1>4. ASSUME ~SendQueueCreation(p)
        PROVE  Creation(clientId[p]) \in Unvisited' <=> Creation(clientId[p]) \in Unvisited
    <2>1. ASSUME NEW msg \in Message, Sends(p, msg) PROVE msg # Creation(clientId[p])
      BY <1>1, <1>4, <2>1, DifferentMessages DEF Sends
    <2> QED
      BY <2>1, UnvisitedClient
  <1>5. \A q \in Procs \ {p} : c2s'[q] = c2s[q] /\ s2c'[q] = s2c[q]
    BY OthersFrame
  <1> QED
    BY <1>1, <1>2, <1>3, <1>4, <1>5

\* p's own steps keep the names p's.
LEMMA OpenedOwn ==
  ASSUME IInv, NEW p \in Procs, Member(p), NEW i \in Nat, clientId[p] = i, Opened(p, i),
         ClientStep(p) \/ ClientChoice(p)
  PROVE  Opened(p, i)'
  <1> USE DEF IInv
  <1>1. /\ i \in DOMAIN c2sQueues' => c2sQueues'[i] = p
        /\ i \in DOMAIN s2cQueues' => s2cQueues'[i] = p
    BY OwnSteps DEF Opened
  <1>2. /\ ~SendQueueCreation(p) => (Creation(i) \in Unvisited' <=> Creation(i) \in Unvisited)
        /\ ~OpenC2S(p) /\ ~OpenS2C(p) /\ ~SendRegistration(p) /\ ~ReceiveId(p)
    BY OwnSteps
  <1>3. \A x : /\ DOMAIN Unbind(x, i) = DOMAIN x \ {i}
               /\ i \in DOMAIN Bind(x, i, p) /\ Bind(x, i, p)[i] = p
    BY DEF Bind, Unbind
  <1>4. pc \in [Procs -> Pcs]
    BY DEF TypeOK
  <1>5. CASE UnlinkC2S(p) \/ CreateC2S(p) \/ UnlinkS2C(p) \/ CreateS2C(p)
    <2>1. pc[p] \notin Announcing
      BY <1>5 DEF UnlinkC2S, CreateC2S, UnlinkS2C, CreateS2C, Goto, Announcing, Closing, Ended
    <2>2. Creation(i) \notin Unvisited'
      <3>1. ~SendQueueCreation(p)
        BY <1>5 DEF UnlinkC2S, CreateC2S, UnlinkS2C, CreateS2C, Goto, SendQueueCreation
      <3> QED
        BY <1>2, <2>1, <3>1, NotYet
    <2>3. CASE UnlinkC2S(p)
      BY <1>1, <1>4, <2>2, <2>3 DEF UnlinkC2S, Goto, Opened, Closing
    <2>4. CASE CreateC2S(p)
      BY <1>1, <1>3, <1>4, <2>2, <2>4 DEF CreateC2S, Goto, Opened, Closing
    <2>5. CASE UnlinkS2C(p)
      BY <1>1, <1>4, <2>2, <2>5 DEF UnlinkS2C, Goto, Opened, Closing
    <2>6. CASE CreateS2C(p)
      <3>1. i \in DOMAIN c2sOwner /\ c2sOwner[i] = p /\ c2sOwner' = c2sOwner
        BY <2>6 DEF CreateS2C, Goto, Opened
      <3>2. \/ pc'[p] = "announce" /\ s2cOwner' = Bind(s2cOwner, i, p)
            \/ pc'[p] = "dead"
        BY <1>4, <2>6 DEF CreateS2C, Goto
      <3> QED
        BY <1>1, <1>3, <2>2, <3>1, <3>2 DEF Opened, Closing
    <2> QED
      BY <1>5, <2>3, <2>4, <2>5, <2>6
  <1>6. CASE SendQueueCreation(p)
    BY <1>1, <1>4, <1>6 DEF SendQueueCreation, Goto, Opened, requestQueues, Closing
  <1>7. CASE BeginRequest(p) \/ SendRequest(p) \/ SendQueueDeletion(p)
          \/ \E w \in Workers : Exchange(p, w)
    <2>1. /\ pc[p] \in {"up", "sending"} /\ pc'[p] \in {"up", "sending", "closing c2s"}
          /\ c2sOwner' = c2sOwner /\ s2cOwner' = s2cOwner
      BY <1>4, <1>7 DEF BeginRequest, SendRequest, SendQueueDeletion, Exchange, Goto, requestQueues
    <2> QED
      BY <1>1, <2>1 DEF Opened
  <1>8. CASE RefuseResponse(p) \/ Die(p)
    <2>1. /\ pc'[p] = "dead" /\ c2sOwner' = c2sOwner /\ s2cOwner' = s2cOwner
          /\ ~SendQueueCreation(p)
      BY <1>4, <1>8 DEF RefuseResponse, Die, Goto, requestQueues, SendQueueCreation
    <2> QED
      BY <1>1, <1>2, <2>1 DEF Opened, Closing
  <1>9. CASE CloseC2S(p) \/ CloseS2C(p)
    <2>1. /\ pc[p] \in {"closing c2s", "closing s2c"} /\ pc'[p] \in {"closing s2c", "gone"}
          /\ c2sOwner' = c2sOwner \/ c2sOwner' = Unbind(c2sOwner, i)
          /\ s2cOwner' = s2cOwner \/ s2cOwner' = Unbind(s2cOwner, i)
      BY <1>4, <1>9 DEF CloseC2S, CloseS2C, Goto
    <2>2. /\ i \in DOMAIN c2sOwner' => c2sOwner' = c2sOwner
          /\ i \in DOMAIN s2cOwner' => s2cOwner' = s2cOwner
      BY <1>3, <2>1
    <2> QED
      BY <1>1, <2>1, <2>2 DEF Opened, Closing
  <1> QED
    BY <1>2, <1>5, <1>6, <1>7, <1>8, <1>9 DEF ClientStep, ClientChoice

\* What is asked for is sent.
LEMMA FlowSend ==
  ASSUME IInv, NEW p \in Procs, Member(p), NEW i \in Nat, clientId[p] = i,
         Flow(p, i), Complete(p, i),
         ClientStep(p), SendRequest(p)
  PROVE  Flow(p, i)' /\ Complete(p, i)'
  <1> USE DEF IInv
  <1> DEFINE r == asked[p] - 1
  <1>1. /\ pc[p] = "sending" /\ pc'[p] = "up" /\ asked' = asked /\ got' = got /\ s2c' = s2c
        /\ c2s'[p] = Append(c2s[p], r)
        /\ asked[p] \in Nat /\ r \in Nat /\ c2s[p] \in Seq(Nat)
    <2>1. asked[p] \in Nat /\ asked[p] > 0 /\ pc[p] = "sending" /\ c2s[p] \in Seq(Nat)
      BY DEF SendRequest, Goto, Stages, Stage, TypeOK
    <2>2. pc'[p] = "up" /\ c2s'[p] = Append(c2s[p], r) /\ asked' = asked /\ got' = got /\ s2c' = s2c
      BY DEF SendRequest, Goto, TypeOK
    <2> QED
      BY <2>1, <2>2
  <1>2. r \notin Sent(p) /\ r \in Sent(p)' /\ Sent(p)' = Sent(p) \cup {r}
    BY <1>1 DEF Sent
  <1>3. SameJobs(i) /\ SameRequests(i)
    <2>1. \A w \in Workers : ~Exchange(p, w)
      BY <1>1 DEF Exchange
    <2> QED
      BY <2>1, OthersJobs
  <1>4. /\ \A q : Busy(i, q)' <=> Busy(i, q)
        /\ \A q \in Nat : Queued(i, q)' <=> Queued(i, q)
        /\ \A w \in Workers : HasJob(w, i)' <=> HasJob(w, i)
        /\ \A w \in Workers : HasJob(w, i) =>
             job'[w] = job[w] /\ (workerPc'[w] = "exchange" <=> workerPc[w] = "exchange")
    BY <1>3, SameBusy DEF SameRequests, SameJobs
  <1>5. r \notin ToSet(c2s[p]) /\ ~Queued(i, r) /\ ~Busy(i, r) /\ r \notin got[p]
    BY <1>1, <1>2 DEF Flow, Busy
  <1>6. /\ ToSet(c2s'[p]) = ToSet(c2s[p]) \cup {r}
        /\ OnlyOnce(c2s'[p], Nat)
    <2>1. \A s \in Seq(Nat), e \in Nat :
            /\ ToSet(Append(s, e)) = ToSet(s) \cup {e}
            /\ OnlyOnce(s, Nat) /\ (e \in Nat => e \notin ToSet(s)) => OnlyOnce(Append(s, e), Nat)
      BY Appended
    <2>2. OnlyOnce(c2s[p], Nat)
      BY DEF Flow
    <2> QED
      BY <1>1, <1>5, <2>1, <2>2
  <1> HIDE DEF r
  <1>7. Flow(p, i)'
    <2>1. (\A x \in ToSet(c2s[p]) : x \in Sent(p) \ got[p] /\ ~Queued(i, x) /\ ~Busy(i, x))'
      <3> SUFFICES ASSUME NEW x \in ToSet(c2s'[p])
                   PROVE  x \in Sent(p)' \ got'[p] /\ ~Queued(i, x)' /\ ~Busy(i, x)'
        OBVIOUS
      <3>1. CASE x = r
        BY <1>1, <1>2, <1>4, <1>5, <3>1
      <3>2. CASE x # r
        <4>1. x \in ToSet(c2s[p])
          BY <1>6, <3>2
        <4>2. x \in Sent(p) \ got[p] /\ ~Queued(i, x) /\ ~Busy(i, x) /\ x \in Nat
          BY <4>1 DEF Flow, Sent
        <4> QED
          BY <1>1, <1>2, <1>4, <4>2
      <3> QED
        BY <3>1, <3>2
    <2>2. (\A x \in Nat : Queued(i, x) => x \in Sent(p) \ got[p] /\ ~Busy(i, x))'
      BY <1>1, <1>2, <1>4 DEF Flow
    <2>3. (\A w \in Workers : HasJob(w, i) =>
             /\ job[w][2] \in Sent(p) \ got[p]
             /\ \A v \in Workers : HasJob(v, i) /\ job[v][2] = job[w][2] => v = w)'
      <3>1. \A w \in Workers : HasJob(w, i) =>
              /\ job[w][2] \in Sent(p) \ got[p]
              /\ \A v \in Workers : HasJob(v, i) /\ job[v][2] = job[w][2] => v = w
        BY DEF Flow
      <3> QED
        BY <1>1, <1>2, <1>4, <3>1
    <2>4. (\A x \in ToSet(s2c[p]) :
             \E w \in Workers : HasJob(w, i) /\ workerPc[w] = "exchange" /\ job[w][2] = x)'
      <3>1. \A x \in ToSet(s2c[p]) :
              \E w \in Workers : HasJob(w, i) /\ workerPc[w] = "exchange" /\ job[w][2] = x
        BY DEF Flow
      <3> QED
        BY <1>1, <1>4, <3>1
    <2>5. (\A w \in Workers : HasJob(w, i) /\ workerPc[w] = "exchange"
            => job[w][2] \in ToSet(s2c[p]))'
      <3>1. \A w \in Workers : HasJob(w, i) /\ workerPc[w] = "exchange"
              => job[w][2] \in ToSet(s2c[p])
        BY DEF Flow
      <3> QED
        BY <1>1, <1>4, <3>1
    <2>6. got'[p] \subseteq Sent(p)' /\ OnlyOnce(s2c'[p], Nat)
      BY <1>1, <1>2 DEF Flow
    <2> QED
      BY <1>6, <2>1, <2>2, <2>3, <2>4, <2>5, <2>6 DEF Flow
  <1>8. Complete(p, i)'
    <2> SUFFICES ASSUME NEW x \in Sent(p)' \ got'[p]
                 PROVE  x \in ToSet(c2s'[p]) \/ Queued(i, x)' \/ Busy(i, x)'
      BY DEF Complete
    <2>1. CASE x = r
      BY <1>6, <2>1
    <2>2. CASE x # r
      <3>1. x \in Sent(p) \ got[p] /\ x \in Nat
        BY <1>1, <1>2, <2>2 DEF Sent
      <3>2. x \in ToSet(c2s[p]) \/ Queued(i, x) \/ Busy(i, x)
        BY <1>1, <3>1 DEF Complete
      <3> QED
        BY <1>4, <1>6, <3>1, <3>2
    <2> QED
      BY <2>1, <2>2
  <1> QED
    BY <1>7, <1>8

\* The answer at the head of p's queue is handed over.
LEMMA FlowExchange ==
  ASSUME IInv, NEW p \in Procs, Member(p), NEW i \in Nat, clientId[p] = i,
         Flow(p, i), Complete(p, i),
         NEW w \in Workers, Exchange(p, w)
  PROVE  /\ Flow(p, i)' /\ Complete(p, i)'
         /\ HasJob(w, i) /\ job[w][2] \in Sent(p) \ got[p]
         /\ Used(i)' => Used(i)
  <1> USE DEF IInv
  <1> DEFINE r == job[w][2]
  <1>1. /\ pc' = pc /\ pc[p] = "up" /\ asked' = asked /\ c2s' = c2s /\ runqueue' = runqueue
        /\ s2c[p] \in Seq(Nat) /\ s2c[p] # << >> /\ Head(s2c[p]) = r /\ s2c'[p] = Tail(s2c[p])
        /\ got'[p] = got[p] \cup {r}
        /\ HasJob(w, i) /\ workerPc[w] = "exchange" /\ ~HasJob(w, i)'
        /\ \A v \in Workers \ {w} : workerPc'[v] = workerPc[v] /\ job'[v] = job[v]
    <2>1. pc' = pc /\ pc[p] = "up" /\ asked' = asked /\ c2s' = c2s /\ runqueue' = runqueue
      BY DEF Exchange
    <2>2. s2c[p] \in Seq(Nat) /\ s2c[p] # << >> /\ Head(s2c[p]) = r /\ s2c'[p] = Tail(s2c[p])
          /\ got'[p] = got[p] \cup {r}
      BY DEF Exchange, TypeOK
    <2>3. /\ HasJob(w, i) /\ workerPc[w] = "exchange" /\ ~HasJob(w, i)'
          /\ \A v \in Workers \ {w} : workerPc'[v] = workerPc[v] /\ job'[v] = job[v]
      BY DEF Exchange, TypeOK, HasJob
    <2> QED
      BY <2>1, <2>2, <2>3
  <1>2. r \in Sent(p) \ got[p] /\ Sent(p)' = Sent(p) /\ r \in Nat
    BY <1>1 DEF Flow, Sent
  <1>3. /\ ToSet(s2c[p]) = ToSet(s2c'[p]) \cup {r} /\ r \notin ToSet(s2c'[p])
        /\ OnlyOnce(s2c'[p], Nat)
    BY <1>1, <1>2, Taken DEF Flow
  <1>4. \A v \in Workers : /\ HasJob(v, i)' <=> HasJob(v, i) /\ v # w
                           /\ HasJob(v, i)' => job'[v] = job[v] /\ workerPc'[v] = workerPc[v]
    BY <1>1 DEF HasJob
  <1>5. \A v \in Workers : HasJob(v, i) /\ job[v][2] = r => v = w
    BY <1>1 DEF Flow
  <1>6. \A x : /\ Busy(i, x)' => Busy(i, x) /\ x # r
               /\ Busy(i, x) => Busy(i, x)' \/ x = r
    BY <1>4, <1>5 DEF Busy
  <1>7. \A x : Queued(i, x)' <=> Queued(i, x)
    BY <1>1 DEF Queued
  <1>8. Busy(i, r)
    BY <1>1 DEF Busy
  <1> HIDE DEF r
  <1>9. Flow(p, i)'
    <2>1. (\A x \in ToSet(c2s[p]) : x \in Sent(p) \ got[p] /\ ~Queued(i, x) /\ ~Busy(i, x))'
      BY <1>1, <1>2, <1>6, <1>7, <1>8 DEF Flow
    <2>2. (\A x \in Nat : Queued(i, x) => x \in Sent(p) \ got[p] /\ ~Busy(i, x))'
      BY <1>1, <1>2, <1>6, <1>7, <1>8 DEF Flow
    <2>3. (\A v \in Workers : HasJob(v, i) =>
             /\ job[v][2] \in Sent(p) \ got[p]
             /\ \A u \in Workers : HasJob(u, i) /\ job[u][2] = job[v][2] => u = v)'
      BY <1>1, <1>2, <1>4, <1>5 DEF Flow
    <2>4. (\A x \in ToSet(s2c[p]) :
             \E v \in Workers : HasJob(v, i) /\ workerPc[v] = "exchange" /\ job[v][2] = x)'
      <3> SUFFICES ASSUME NEW x \in ToSet(s2c'[p])
                   PROVE  \E v \in Workers : HasJob(v, i)' /\ workerPc'[v] = "exchange"
                            /\ job'[v][2] = x
        OBVIOUS
      <3>1. PICK v \in Workers : HasJob(v, i) /\ workerPc[v] = "exchange" /\ job[v][2] = x
        BY <1>3 DEF Flow
      <3>2. v # w
        BY <1>3, <3>1 DEF r
      <3> QED
        BY <1>4, <3>1, <3>2
    <2>5. (\A v \in Workers : HasJob(v, i) /\ workerPc[v] = "exchange"
            => job[v][2] \in ToSet(s2c[p]))'
      BY <1>3, <1>4, <1>5 DEF Flow
    <2>6. got'[p] \subseteq Sent(p)' /\ OnlyOnce(c2s'[p], Nat)
      BY <1>1, <1>2 DEF Flow
    <2> QED
      BY <1>3, <2>1, <2>2, <2>3, <2>4, <2>5, <2>6 DEF Flow
  <1>10. Complete(p, i)'
    BY <1>1, <1>2, <1>6, <1>7 DEF Complete
  <1>11. Used(i)' => Used(i)
    BY <1>4, <1>7 DEF Used
  <1> QED
    BY <1>1, <1>2, <1>9, <1>10, <1>11 DEF r

\* Steps of a member that touch neither its queues nor the files.
LEMMA FlowQuiet ==
  ASSUME IInv, NEW p \in Procs, Member(p), NEW i \in Nat, clientId[p] = i,
         Flow(p, i), Complete(p, i),
         ClientStep(p) \/ ClientChoice(p),
         ~SendRequest(p), ~RefuseResponse(p), \A w \in Workers : ~Exchange(p, w)
  PROVE  /\ Flow(p, i)' /\ Complete(p, i)'
         /\ got'[p] = got[p] /\ (Used(i)' <=> Used(i))
  <1> USE DEF IInv
  <1>1. ~OpenC2S(p) /\ ~OpenS2C(p) /\ ~SendRegistration(p) /\ ~ReceiveId(p)
    BY OwnSteps
  <1> DEFINE Making == UnlinkC2S(p) \/ CreateC2S(p) \/ UnlinkS2C(p) \/ CreateS2C(p)
             Leaving == SendQueueDeletion(p) \/ CloseC2S(p) \/ CloseS2C(p) \/ Die(p)
  <1>2. Making \/ Leaving \/ SendQueueCreation(p) \/ BeginRequest(p)
    BY <1>1 DEF ClientStep, ClientChoice
  <1>3. pc \in [Procs -> Pcs]
    BY DEF TypeOK
  <1>4. Making => asked' = asked /\ pc'[p] \notin {"up", "sending"}
    BY <1>3 DEF UnlinkC2S, CreateC2S, UnlinkS2C, CreateS2C, Goto
  <1>5. Leaving => asked' = asked /\ pc'[p] \notin {"up", "sending"}
    BY <1>3 DEF SendQueueDeletion, CloseC2S, CloseS2C, Die, Goto
  <1>6. SendQueueCreation(p) => asked' = asked /\ pc'[p] = "up"
    BY <1>3 DEF SendQueueCreation, Goto
  <1>7. SameJobs(i) /\ SameRequests(i)
    BY OthersJobs
  <1>8. c2s' = c2s /\ s2c' = s2c /\ got' = got
    BY <1>1 DEF ClientStep, ClientChoice, UnlinkC2S,
         CreateC2S, UnlinkS2C, CreateS2C, SendQueueCreation, BeginRequest,
         SendQueueDeletion, CloseC2S, CloseS2C, Die, requestQueues
  <1>9. Sent(p) \subseteq Sent(p)' /\ (pc'[p] \in {"up", "sending"} => Sent(p)' \subseteq Sent(p))
    <2>1. CASE BeginRequest(p)
      <3>1. pc[p] = "up" /\ pc'[p] = "sending" /\ asked'[p] = asked[p] + 1 /\ asked[p] \in Nat
        BY <2>1 DEF BeginRequest, Goto, TypeOK
      <3> QED
        BY <3>1 DEF Sent
    <2>2. CASE ~BeginRequest(p)
      <3>1. asked' = asked /\ pc'[p] # "sending"
        BY <1>2, <1>4, <1>5, <1>6, <2>2
      <3>2. ASSUME pc'[p] = "up" PROVE asked[p] = 0
        <4>1. SendQueueCreation(p)
          BY <1>2, <1>4, <1>5, <2>2, <3>2
        <4> QED
          BY <4>1 DEF SendQueueCreation, Goto, Stages, Stage, Constructing
      <3> QED
        BY <3>1, <3>2 DEF Sent
    <2> QED
      BY <2>1, <2>2
  <1>10. Flow(p, i)'
    BY <1>7, <1>8, <1>9, FlowKept
  <1>11. Complete(p, i)'
    <2>1. CASE pc'[p] \notin {"up", "sending"}
      BY <2>1 DEF Complete
    <2>2. CASE pc'[p] \in {"up", "sending"} /\ pc[p] \in {"up", "sending"}
      BY <1>7, <1>8, <1>9, <2>2, CompleteKept
    <2>3. CASE pc'[p] \in {"up", "sending"} /\ pc[p] \notin {"up", "sending"}
      <3>1. SendQueueCreation(p)
        <4>1. ~BeginRequest(p)
          BY <2>3 DEF BeginRequest, Goto
        <4> QED
          BY <1>2, <1>4, <1>5, <2>3, <4>1
      <3>2. asked[p] = 0
        BY <3>1 DEF SendQueueCreation, Goto, Stages, Stage, Constructing
      <3>3. Sent(p) = {}
        BY <3>2 DEF Sent
      <3> QED
        BY <1>9, <2>3, <3>3 DEF Complete
    <2> QED
      BY <2>1, <2>2, <2>3
  <1> QED
    BY <1>7, <1>8, <1>10, <1>11, SameBusy

\* A member's own steps.
LEMMA ClientOwn ==
  ASSUME IInv, NEW p \in Procs, Member(p), NEW i \in Nat, clientId[p] = i, Client(p, i),
         ClientStep(p) \/ ClientChoice(p)
  PROVE  Client(p, i)'
  <1> USE DEF IInv
  <1>1. Opened(p, i)'
    BY OpenedOwn DEF Client
  <1>2. ~RefuseResponse(p)
    <2> SUFFICES ASSUME RefuseResponse(p) PROVE FALSE
      OBVIOUS
    <2>1. /\ pc[p] = "up" /\ s2c[p] \in Seq(Nat) /\ s2c[p] # << >>
          /\ Head(s2c[p]) \notin (0..(asked[p] - 1)) \ got[p] /\ asked[p] \in Nat
      BY DEF RefuseResponse, Goto, TypeOK
    <2>2. Head(s2c[p]) \in ToSet(s2c[p])
      BY <2>1, Taken
    <2>3. Head(s2c[p]) \in Sent(p) \ got[p]
      BY <2>2 DEF Client, Flow
    <2> QED
      BY <2>1, <2>3 DEF Sent
  <1>3. /\ Flow(p, i)' /\ Complete(p, i)'
        /\ Used(i)' => Used(i)
        /\ got'[p] = got[p] \/ Used(i)
    <2>1. CASE SendRequest(p)
      <3>1. got' = got
        BY <2>1 DEF SendRequest
      <3>2. SameJobs(i) /\ SameRequests(i)
        <4>1. \A w \in Workers : ~Exchange(p, w)
          BY <2>1 DEF SendRequest, Exchange, Goto
        <4> QED
          BY <4>1, OthersJobs
      <3> QED
        BY <2>1, <3>1, <3>2, FlowSend, SameBusy DEF ClientStep, Client
    <2>2. ASSUME NEW w \in Workers, Exchange(p, w)
          PROVE  Flow(p, i)' /\ Complete(p, i)' /\ (Used(i)' => Used(i)) /\ Used(i)
      BY <2>2, FlowExchange DEF Client, Used
    <2>3. CASE ~SendRequest(p) /\ \A w \in Workers : ~Exchange(p, w)
      BY <1>2, <2>3, FlowQuiet DEF Client
    <2> QED
      BY <2>1, <2>2, <2>3
  <1>4. Unserved(p, i)'
    <2>1. CASE SendQueueCreation(p)
      <3>1. pc[p] = "announce" /\ got' = got
        BY <2>1 DEF SendQueueCreation, Goto
      <3>2. ~Used(i)
        BY <3>1, NotYet DEF Announcing, Closing, Ended
      <3>3. got[p] = {}
        <4>1. asked[p] = 0 /\ got[p] \subseteq 0..(asked[p] - 1)
          BY <3>1 DEF Stages, Stage, Constructing, TypeOK
        <4>2. 0..(0 - 1) = {}
          OBVIOUS
        <4> QED
          BY <4>1, <4>2
      <3> QED
        BY <1>3, <3>1, <3>2, <3>3 DEF Unserved
    <2>2. CASE ~SendQueueCreation(p)
      <3>1. Creation(i) \in Unvisited' => Creation(i) \in Unvisited
        BY <2>2, OwnSteps
      <3> QED
        BY <1>3, <3>1 DEF Client, Unserved
    <2> QED
      BY <2>1, <2>2
  <1>5. Departed(p, i)'
    <2>1. pc[p] \in Closing \cup Ended => pc'[p] \in Closing \cup Ended
      BY <1>1 DEF ClientStep, ClientChoice, OpenC2S, OpenS2C, SendRegistration, ReceiveId,
         UnlinkC2S, CreateC2S, UnlinkS2C, CreateS2C, SendQueueCreation, BeginRequest, SendRequest,
         RefuseResponse, Exchange, SendQueueDeletion, CloseC2S, CloseS2C, Die, Goto, Closing,
         Ended, TypeOK
    <2> QED
      BY <1>3, <2>1, OwnSteps DEF Client, Departed, Registered
  <1> QED
    BY <1>1, <1>3, <1>4, <1>5 DEF Client
-----------------------------------------------------------------------------
(* The steps of the service *)

\* The registration thread leaves the clients and the workers alone.
LEMMA ServiceFrame ==
  ASSUME IInv, RegistrationStep, NEW i
  PROVE  /\ UNCHANGED <<pc, clientId, asked, got, s2c, c2sOwner, s2cOwner, workerPc, job, current>>
         /\ SameJobs(i)
         /\ Creation(i) \in Unvisited' => Creation(i) \in Unvisited
  <1>1. UNCHANGED <<pc, clientId, asked, got, s2c, c2sOwner, s2cOwner, workerPc, job, current>>
    BY RegistrationFrame DEF clientVars, workerVars
  <1>2. Unvisited' \subseteq Unvisited
    BY UnvisitedService DEF IInv
  <1> QED
    BY <1>1, <1>2 DEF SameJobs, HasJob

\* A client's response queue is opened by its name.
LEMMA ClientCreated ==
  ASSUME IInv, VisitQueueCreation, Alive', NEW p \in Procs, Member(p),
         NEW i \in Nat, clientId[p] = i, Client(p, i)
  PROVE  Client(p, i)'
  <1>1. RegistrationStep
    BY DEF RegistrationStep
  <1>2. /\ message # None /\ message \in Message /\ message.type = "QUEUE_CREATION"
        /\ message.id \in DOMAIN s2cOwner
        /\ s2cQueues' = Bind(s2cQueues, message.id, s2cOwner[message.id])
        /\ UNCHANGED <<c2sQueues, runqueue, c2s>>
    BY DEF VisitQueueCreation, Visiting, Throw, Alive, IInv, TypeOK
  <1>3. SameJobs(i) /\ SameRequests(i)
    BY <1>1, <1>2, ServiceFrame DEF SameRequests, Queued
  <1>4. Opened(p, i)'
    <2>1. i \in DOMAIN s2cQueues' => s2cQueues'[i] = p
      <3>1. CASE message.id = i
        <4>1. message = Creation(i)
          BY <1>2, <3>1 DEF Message, Creation
        <4>2. Creation(i) \in Unvisited
          BY <1>2, <4>1, MessageTypes DEF IInv
        <4>3. s2cOwner[i] = p
          BY <1>2, <3>1, <4>2 DEF Client, Opened
        <4> QED
          BY <1>2, <3>1, <4>3 DEF Bind
      <3>2. CASE message.id # i
        BY <1>2, <3>2 DEF Client, Opened, Bind
      <3> QED
        BY <3>1, <3>2
    <2>2. /\ UNCHANGED <<pc, c2sOwner, s2cOwner>>
          /\ Creation(i) \in Unvisited' => Creation(i) \in Unvisited
      BY <1>1, ServiceFrame
    <2> QED
      BY <1>2, <2>1, <2>2 DEF Client, Opened
  <1>5. Registered(i)' <=> Registered(i)
    BY <1>2 DEF Registered
  <1> QED
    BY <1>1, <1>2, <1>3, <1>4, <1>5, ServiceFrame, RestKept

\* So is its request queue.
LEMMA ClientOpened ==
  ASSUME IInv, OpenRequestQueue, Alive', NEW p \in Procs, Member(p),
         NEW i \in Nat, clientId[p] = i, Client(p, i)
  PROVE  Client(p, i)'
  <1>1. RegistrationStep
    BY DEF RegistrationStep
  <1>2. /\ message # None /\ message \in Message /\ message.type = "QUEUE_CREATION"
        /\ message.id \in DOMAIN c2sOwner
        /\ c2sQueues' = Bind(c2sQueues, message.id, c2sOwner[message.id])
        /\ UNCHANGED <<s2cQueues, runqueue, c2s>>
    BY DEF OpenRequestQueue, Visiting, Throw, Alive, IInv, TypeOK
  <1>3. SameJobs(i) /\ SameRequests(i)
    BY <1>1, <1>2, ServiceFrame DEF SameRequests, Queued
  <1>4. Opened(p, i)'
    <2>1. i \in DOMAIN c2sQueues' => c2sQueues'[i] = p
      <3>1. CASE message.id = i
        <4>1. message = Creation(i)
          BY <1>2, <3>1 DEF Message, Creation
        <4>2. Creation(i) \in Unvisited
          BY <1>2, <4>1, MessageTypes DEF IInv
        <4>3. c2sOwner[i] = p
          BY <1>2, <3>1, <4>2 DEF Client, Opened
        <4> QED
          BY <1>2, <3>1, <4>3 DEF Bind
      <3>2. CASE message.id # i
        BY <1>2, <3>2 DEF Client, Opened, Bind
      <3> QED
        BY <3>1, <3>2
    <2>2. /\ UNCHANGED <<pc, c2sOwner, s2cOwner>>
          /\ Creation(i) \in Unvisited' => Creation(i) \in Unvisited
      BY <1>1, ServiceFrame
    <2> QED
      BY <1>2, <2>1, <2>2 DEF Client, Opened
  <1>5. Registered(i) => Registered(i)'
    BY <1>2 DEF Registered, Bind
  <1> QED
    BY <1>1, <1>2, <1>3, <1>4, <1>5, ServiceFrame, RestKept

\* A client that is removed has left, and what the scheduler had of it is gone.
LEMMA ClientRemoved ==
  ASSUME IInv, Order, VisitQueueDeletion, Alive, Alive', NEW p \in Procs, Member(p),
         NEW i \in Nat, clientId[p] = i, Client(p, i)
  PROVE  Client(p, i)'
  <1>1. RegistrationStep
    BY DEF RegistrationStep
  <1>2. /\ message # None /\ message \in Message /\ message.type = "QUEUE_DELETION"
        /\ s2cQueues' = Unbind(s2cQueues, message.id) /\ c2sQueues' = Unbind(c2sQueues, message.id)
        /\ runqueue' = {request \in runqueue : request[1] # message.id}
        /\ UNCHANGED c2s
    BY DEF VisitQueueDeletion, Visiting, Throw, Alive, IInv, TypeOK
  <1>3. SameJobs(i) /\ (Creation(i) \in Unvisited' => Creation(i) \in Unvisited)
        /\ UNCHANGED <<pc, asked, got, s2c, c2sOwner, s2cOwner>>
    BY <1>1, ServiceFrame
  <1>4. ASSUME NEW r \in Nat PROVE Queued(i, r)' <=> Queued(i, r) /\ message.id # i
    <2>1. <<i, r>>[1] = i
      OBVIOUS
    <2> QED
      BY <1>2, <2>1 DEF Queued
  <1>5. CASE message.id # i
    <2>1. SameRequests(i)
      BY <1>4, <1>5 DEF SameRequests
    <2>2. /\ i \in DOMAIN c2sQueues' <=> i \in DOMAIN c2sQueues
          /\ i \in DOMAIN c2sQueues => c2sQueues'[i] = c2sQueues[i]
          /\ i \in DOMAIN s2cQueues' => i \in DOMAIN s2cQueues /\ s2cQueues'[i] = s2cQueues[i]
      BY <1>2, <1>5 DEF Unbind
    <2> QED
      BY <1>2, <1>3, <2>1, <2>2, ClientKept
  <1>6. CASE message.id = i
    <2>1. message = Deletion(i)
      BY <1>2, <1>6 DEF Message, Deletion
    <2>2. pc[p] \in Closing \cup Ended
      <3>1. Left(i)
        BY <2>1, MemberOrder DEF Ordered, DeletionOnce
      <3>2. PICK q \in Procs : out[q] = current /\ clientId[q] = i /\ pc[q] \in Closing \cup Ended
        BY <3>1 DEF Left
      <3> QED
        BY <3>2, MemberAlone
    <2>3. i \notin DOMAIN c2sQueues' /\ i \notin DOMAIN s2cQueues'
      BY <1>2, <1>6 DEF Unbind
    <2>4. Opened(p, i)'
      BY <1>3, <2>3 DEF Client, Opened
    <2>5. Used(i)' => Used(i)
      BY <1>3, <1>4, <1>6 DEF Used, SameJobs
    <2>6. Unserved(p, i)' /\ Departed(p, i)'
      BY <1>3, <2>2, <2>5 DEF Client, Unserved, Departed
    <2>7. Sent(p)' = Sent(p)
      BY <1>3 DEF Sent
    <2>8. Flow(p, i)'
      <3>1. \A r : Busy(i, r)' <=> Busy(i, r)
        BY <1>3, SameBusy
      <3>2. \A r \in Sent(p) : r \in Nat
        BY DEF Sent
      <3>3. \A r \in Nat : ~Queued(i, r)'
        BY <1>4, <1>6
      <3>4. (\A r \in ToSet(c2s[p]) : r \in Sent(p) \ got[p] /\ ~Queued(i, r) /\ ~Busy(i, r))'
        BY <1>2, <1>3, <2>7, <3>1, <3>2, <3>3 DEF Client, Flow
      <3>5. (\A r \in Nat : Queued(i, r) => r \in Sent(p) \ got[p] /\ ~Busy(i, r))'
        BY <3>3
      <3>6. /\ \A w \in Workers : HasJob(w, i)' <=> HasJob(w, i)
            /\ \A w \in Workers : job'[w] = job[w] /\ workerPc'[w] = workerPc[w]
            /\ got' = got /\ c2s' = c2s /\ s2c' = s2c
        BY <1>1, <1>2, ServiceFrame DEF HasJob
      <3> QED
        BY <2>7, <3>4, <3>5, <3>6 DEF Client, Flow
    <2>9. Complete(p, i)'
      BY <1>3, <2>2 DEF Complete, Closing, Ended
    <2> QED
      BY <2>4, <2>6, <2>8, <2>9 DEF Client
  <1> QED
    BY <1>5, <1>6

\* What is in its queue goes to the scheduler.
LEMMA ClientDispatched ==
  ASSUME IInv, Order, Dispatch, Alive, NEW p \in Procs, Member(p),
         NEW i \in Nat, clientId[p] = i, Client(p, i)
  PROVE  Client(p, i)'
  <1>1. RegistrationStep
    BY DEF RegistrationStep
  <1>2. /\ UNCHANGED <<c2sQueues, s2cQueues>>
        /\ runqueue' =
             runqueue \cup UNION {{<<j, r>> : r \in ToSet(c2s[c2sQueues[j]])} : j \in Pending}
        /\ c2s'[p] = IF \E j \in Pending : c2sQueues[j] = p THEN << >> ELSE c2s[p]
    BY DEF Dispatch, maps
  <1>3. SameJobs(i) /\ (Creation(i) \in Unvisited' => Creation(i) \in Unvisited)
        /\ UNCHANGED <<pc, asked, got, s2c, c2sOwner, s2cOwner, workerPc, job>>
    BY <1>1, ServiceFrame
  <1>4. \A j \in Pending : j \in DOMAIN c2sQueues /\ (c2sQueues[j] = p => j = i)
    BY DEF Pending, IInv, Names
  <1>5. i \in Pending => c2sQueues[i] = p
    BY <1>4 DEF Client, Opened
  <1>6. \A r \in Nat : Queued(i, r)' <=> Queued(i, r) \/ (i \in Pending /\ r \in ToSet(c2s[p]))
    <2> SUFFICES ASSUME NEW r \in Nat
                 PROVE  Queued(i, r)' <=> Queued(i, r) \/ (i \in Pending /\ r \in ToSet(c2s[p]))
      OBVIOUS
    <2>1. ASSUME <<i, r>> \in UNION {{<<j, x>> : x \in ToSet(c2s[c2sQueues[j]])} : j \in Pending}
          PROVE  i \in Pending /\ r \in ToSet(c2s[p])
      <3>1. PICK j \in Pending : \E x \in ToSet(c2s[c2sQueues[j]]) : <<i, r>> = <<j, x>>
        BY <2>1
      <3>2. j = i /\ r \in ToSet(c2s[c2sQueues[j]])
        BY <3>1
      <3> QED
        BY <1>5, <3>2
    <2>2. ASSUME i \in Pending, r \in ToSet(c2s[p])
          PROVE  <<i, r>> \in UNION {{<<j, x>> : x \in ToSet(c2s[c2sQueues[j]])} : j \in Pending}
      BY <1>5, <2>2
    <2> QED
      BY <1>2, <2>1, <2>2 DEF Queued
  <1>7. CASE i \notin Pending
    <2>1. SameRequests(i)
      BY <1>6, <1>7 DEF SameRequests
    <2>2. c2s'[p] = c2s[p]
      BY <1>2, <1>4, <1>7
    <2> QED
      BY <1>2, <1>3, <2>1, <2>2, ClientKept
  <1>8. CASE i \in Pending
    <2>1. c2s'[p] = << >>
      BY <1>2, <1>5, <1>8
    <2>2. Registered(i) /\ Registered(i)'
      BY <1>2, <1>4, <1>8 DEF Registered
    <2>3. Creation(i) \notin Unvisited
      <3>1. message # Creation(i) /\ \A k \in DOMAIN Inbox : Inbox[k] # Creation(i)
        BY <2>2, MemberOrder DEF Ordered, CreationOnce
      <3> QED
        BY <3>1 DEF Unvisited, ToSet, Inbox
    <2>4. Opened(p, i)'
      BY <1>2, <1>3 DEF Client, Opened
    <2>5. Unserved(p, i)' /\ Departed(p, i)'
      BY <1>3, <2>2, <2>3 DEF Unserved, Departed
    <2>6. Sent(p)' = Sent(p) /\ \A r \in Sent(p) : r \in Nat
      BY <1>3 DEF Sent
    <2>7. \A r : Busy(i, r)' <=> Busy(i, r)
      BY <1>3, SameBusy
    <2>8. Flow(p, i)'
      <3>1. /\ \A w \in Workers : HasJob(w, i)' <=> HasJob(w, i)
            /\ \A w \in Workers : job'[w] = job[w] /\ workerPc'[w] = workerPc[w]
            /\ got' = got /\ s2c' = s2c
        BY <1>3 DEF HasJob
      <3>2. (\A r \in ToSet(c2s[p]) : r \in Sent(p) \ got[p] /\ ~Queued(i, r) /\ ~Busy(i, r))'
        BY <2>1, Nothing
      <3>3. (\A r \in Nat : Queued(i, r) => r \in Sent(p) \ got[p] /\ ~Busy(i, r))'
        BY <1>6, <2>6, <2>7, <3>1 DEF Client, Flow
      <3>4. OnlyOnce(c2s'[p], Nat)
        BY <2>1, Nothing
      <3> QED
        BY <2>6, <3>1, <3>2, <3>3, <3>4 DEF Client, Flow
    <2>9. Complete(p, i)'
      <3> SUFFICES ASSUME pc[p] \in {"up", "sending"}, NEW r \in Sent(p) \ got[p]
                   PROVE  Queued(i, r)' \/ Busy(i, r)'
        BY <1>3, <2>6 DEF Complete
      <3>1. r \in ToSet(c2s[p]) \/ Queued(i, r) \/ Busy(i, r)
        BY DEF Client, Complete
      <3> QED
        BY <1>6, <1>8, <2>6, <2>7, <3>1
    <2> QED
      BY <2>4, <2>5, <2>8, <2>9 DEF Client
  <1> QED
    BY <1>7, <1>8

\* The registration thread's steps keep what is said of a member.
LEMMA ClientService ==
  ASSUME IInv, Order, RegistrationStep, Alive, Alive', NEW p \in Procs, Member(p),
         NEW i \in Nat, clientId[p] = i, Client(p, i)
  PROVE  Client(p, i)'
  <1>1. CASE VisitQueueCreation \/ OpenRequestQueue \/ VisitQueueDeletion \/ Dispatch
    BY <1>1, ClientCreated, ClientOpened, ClientRemoved, ClientDispatched
  <1>2. CASE CreateRegistrationQueues \/ ReceiveRegistration \/ VisitRegistration \/ FinishReg
    <2>1. UNCHANGED <<c2sQueues, s2cQueues, runqueue, c2s>>
      BY <1>2 DEF CreateRegistrationQueues, ReceiveRegistration, VisitRegistration, FinishReg, maps,
                  requestQueues
    <2>2. SameRequests(i)
      BY <2>1 DEF SameRequests, Queued
    <2> QED
      BY <2>1, <2>2, ServiceFrame, ClientKept
  <1> QED
    BY <1>1, <1>2 DEF RegistrationStep
-----------------------------------------------------------------------------
(* The steps of the workers *)

\* A worker leaves everything alone but the scheduler's queue, its own job and
\* one response queue.
LEMMA ServingFrame ==
  ASSUME IInv, NEW w \in Workers, WorkerStep(w) \/ WriteRacing(w) \/ SendToClosed(w)
  PROVE  /\ UNCHANGED <<pc, out, clientId, asked, got, disputed, c2s, c2sOwner, s2cOwner, current,
                        c2sQueues, s2cQueues, message, toService, Unvisited>>
         /\ \A v \in Workers \ {w} : workerPc'[v] = workerPc[v] /\ job'[v] = job[v]
  <1>1. UNCHANGED nonWorkerVars /\ \A v \in Workers \ {w} : UNCHANGED <<workerPc[v], job[v]>>
    BY WorkerFrame DEF IInv
  <1> QED
    BY <1>1 DEF nonWorkerVars, clientVars, registrationQueues, maps, Unvisited

\* A request that goes from the scheduler to a worker is still in one place.
LEMMA ClientSchedule ==
  ASSUME IInv, NEW w \in Workers, NEW request \in runqueue, Schedule(w, request),
         NEW p \in Procs, NEW i \in Nat, Client(p, i)
  PROVE  Client(p, i)'
  <1>1. WorkerStep(w)
    BY DEF WorkerStep
  <1>2. /\ workerPc[w] = "idle" /\ workerPc'[w] = "write" /\ job'[w] = request
        /\ runqueue' = runqueue \ {request} /\ s2c' = s2c
        /\ request \in Nat \X Nat
    BY DEF Schedule, IInv, TypeOK
  <1>3. \A v \in Workers \ {w} : workerPc'[v] = workerPc[v] /\ job'[v] = job[v]
    BY <1>1, ServingFrame
  <1>4. CASE request[1] # i
    <2>1. SameJobs(i)
      BY <1>2, <1>3, <1>4 DEF SameJobs, HasJob
    <2>2. \A r \in Nat : <<i, r>> # request
      BY <1>4
    <2>3. SameRequests(i)
      BY <1>2, <2>2 DEF SameRequests, Queued
    <2> QED
      BY <1>1, <1>2, <2>1, <2>3, ServingFrame, ClientKept
  <1>5. CASE request[1] = i
    <2>1. PICK r \in Nat : request = <<i, r>>
      BY <1>2, <1>5
    <2>2. \A x \in Nat : Queued(i, x)' <=> Queued(i, x) /\ x # r
      BY <1>2, <2>1 DEF Queued
    <2>3. /\ \A v \in Workers : HasJob(v, i)' <=> HasJob(v, i) \/ v = w
          /\ \A v \in Workers : HasJob(v, i) => v # w
          /\ job'[w][2] = r
      BY <1>2, <1>3, <2>1 DEF HasJob
    <2>4. \A x : Busy(i, x)' <=> Busy(i, x) \/ x = r
      BY <1>3, <2>3 DEF Busy
    <2>5. Queued(i, r)
      BY <2>1 DEF Queued
    <2>6. r \in Sent(p) \ got[p] /\ ~Busy(i, r) /\ r \notin ToSet(c2s[p])
      BY <2>5 DEF Client, Flow
    <2>7. \A v \in Workers : HasJob(v, i) => job[v][2] # r
      BY <2>6 DEF Busy
    <2>8. /\ UNCHANGED <<pc, asked, got, c2s, s2c, c2sQueues, Unvisited>> /\ Sent(p)' = Sent(p)
          /\ \A x \in Sent(p) : x \in Nat
      BY <1>1, <1>2, ServingFrame DEF Sent
    <2>9. Opened(p, i)'
      <3>1. UNCHANGED <<pc, c2sOwner, s2cOwner, c2sQueues, s2cQueues, Unvisited>>
        BY <1>1, ServingFrame
      <3> QED
        BY <3>1 DEF Client, Opened
    <2>10. Used(i)
      BY <2>5 DEF Used
    <2>11. Unserved(p, i)' /\ Departed(p, i)'
      BY <2>8, <2>10 DEF Client, Unserved, Departed, Registered
    <2>12. Flow(p, i)'
      <3>1. (\A x \in ToSet(c2s[p]) : x \in Sent(p) \ got[p] /\ ~Queued(i, x) /\ ~Busy(i, x))'
        BY <2>2, <2>4, <2>6, <2>8 DEF Client, Flow
      <3>2. (\A x \in Nat : Queued(i, x) => x \in Sent(p) \ got[p] /\ ~Busy(i, x))'
        BY <2>2, <2>4, <2>8 DEF Client, Flow
      <3>3. (\A v \in Workers : HasJob(v, i) =>
               /\ job[v][2] \in Sent(p) \ got[p]
               /\ \A u \in Workers : HasJob(u, i) /\ job[u][2] = job[v][2] => u = v)'
        <4>1. \A v \in Workers : HasJob(v, i) =>
               /\ job[v][2] \in Sent(p) \ got[p]
               /\ \A u \in Workers : HasJob(u, i) /\ job[u][2] = job[v][2] => u = v
          BY DEF Client, Flow
        <4> QED
          BY <1>3, <2>3, <2>6, <2>7, <2>8, <4>1
      <3>4. (\A x \in ToSet(s2c[p]) :
               \E v \in Workers : HasJob(v, i) /\ workerPc[v] = "exchange" /\ job[v][2] = x)'
        <4>1. \A x \in ToSet(s2c[p]) :
               \E v \in Workers : HasJob(v, i) /\ workerPc[v] = "exchange" /\ job[v][2] = x
          BY DEF Client, Flow
        <4> QED
          BY <1>3, <2>3, <2>8, <4>1
      <3>5. (\A v \in Workers : HasJob(v, i) /\ workerPc[v] = "exchange"
              => job[v][2] \in ToSet(s2c[p]))'
        <4>1. \A v \in Workers : HasJob(v, i) /\ workerPc[v] = "exchange"
                => job[v][2] \in ToSet(s2c[p])
          BY DEF Client, Flow
        <4> QED
          BY <1>2, <1>3, <2>3, <2>8, <4>1
      <3>6. (got[p] \subseteq Sent(p) /\ OnlyOnce(c2s[p], Nat) /\ OnlyOnce(s2c[p], Nat))'
        BY <2>8 DEF Client, Flow
      <3> QED
        BY <3>1, <3>2, <3>3, <3>4, <3>5, <3>6 DEF Flow
    <2>13. Complete(p, i)'
      BY <2>2, <2>4, <2>8 DEF Client, Complete
    <2> QED
      BY <2>9, <2>11, <2>12, <2>13 DEF Client
  <1> QED
    BY <1>4, <1>5

\* A worker that writes a response waits with it.
LEMMA ClientRespond ==
  ASSUME IInv, NEW w \in Workers, SendResponse(w), NEW p \in Procs, NEW i \in Nat, clientId[p] = i,
         Client(p, i)
  PROVE  Client(p, i)'
  <1>1. WorkerStep(w)
    BY DEF WorkerStep
  <1> DEFINE j == job[w][1]
             r == job[w][2]
             q == s2cQueues[j]
  <1>2. /\ workerPc[w] = "send" /\ workerPc'[w] = "exchange" /\ job' = job /\ runqueue' = runqueue
        /\ j \in DOMAIN s2cQueues /\ q \in Procs
        /\ s2c'[q] = Append(s2c[q], r) /\ s2c[q] \in Seq(Nat)
        /\ \A x \in Procs \ {q} : s2c'[x] = s2c[x]
    BY DEF SendResponse, IInv, TypeOK
  <1>3. \A v \in Workers \ {w} : workerPc'[v] = workerPc[v]
    BY <1>1, ServingFrame
  <1>4. SameRequests(i)
    BY <1>2 DEF SameRequests, Queued
  <1>5. \A v \in Workers : HasJob(v, i)' <=> HasJob(v, i)
    BY <1>2, <1>3 DEF HasJob
  <1>6. CASE j # i
    <2>1. q # p
      BY <1>2, <1>6 DEF IInv, Names
    <2>2. SameJobs(i)
      BY <1>2, <1>3, <1>5, <1>6 DEF SameJobs, HasJob
    <2> QED
      BY <1>1, <1>2, <1>4, <2>1, <2>2, ServingFrame, ClientKept
  <1>7. CASE j = i
    <2>1. q = p /\ HasJob(w, i)
      BY <1>2, <1>7 DEF Client, Opened, HasJob
    <2>2. /\ UNCHANGED <<pc, asked, got, c2s, c2sQueues, s2cQueues, c2sOwner, s2cOwner, Unvisited>>
          /\ Sent(p)' = Sent(p)
      BY <1>1, ServingFrame DEF Sent
    <2>3. r \in Sent(p) \ got[p] /\ r \in Nat
      BY <2>1 DEF Client, Flow, Sent
    <2>4. r \notin ToSet(s2c[p])
      <3> SUFFICES ASSUME r \in ToSet(s2c[p]) PROVE FALSE
        OBVIOUS
      <3>1. PICK v \in Workers : HasJob(v, i) /\ workerPc[v] = "exchange" /\ job[v][2] = r
        BY DEF Client, Flow
      <3>2. v = w
        BY <2>1, <3>1 DEF Client, Flow
      <3> QED
        BY <1>2, <3>1, <3>2
    <2>5. ToSet(s2c'[p]) = ToSet(s2c[p]) \cup {r} /\ OnlyOnce(s2c'[p], Nat)
      <3>1. OnlyOnce(s2c[p], Nat)
        BY DEF Client, Flow
      <3>2. \A s \in Seq(Nat), e \in Nat :
              /\ ToSet(Append(s, e)) = ToSet(s) \cup {e}
              /\ OnlyOnce(s, Nat) /\ (e \in Nat => e \notin ToSet(s)) => OnlyOnce(Append(s, e), Nat)
        BY Appended
      <3> QED
        BY <1>2, <2>1, <2>3, <2>4, <3>1, <3>2
    <2>6. \A x : Busy(i, x)' <=> Busy(i, x)
      BY <1>2, <1>5 DEF Busy
    <2>7. \A x : Queued(i, x)' <=> Queued(i, x)
      BY <1>2 DEF Queued
    <2>8. Opened(p, i)'
      BY <2>2 DEF Client, Opened
    <2>9. Unserved(p, i)' /\ Departed(p, i)'
      <3>1. Used(i)' <=> Used(i)
        BY <1>5, <2>7 DEF Used
      <3> QED
        BY <2>2, <3>1 DEF Client, Unserved, Departed, Registered
    <2>10. Complete(p, i)'
      BY <2>2, <2>6, <2>7 DEF Client, Complete
    <2>11. Flow(p, i)'
      <3>1. (\A x \in ToSet(c2s[p]) : x \in Sent(p) \ got[p] /\ ~Queued(i, x) /\ ~Busy(i, x))'
        BY <2>2, <2>6, <2>7 DEF Client, Flow
      <3>2. (\A x \in Nat : Queued(i, x) => x \in Sent(p) \ got[p] /\ ~Busy(i, x))'
        BY <2>2, <2>6, <2>7 DEF Client, Flow
      <3>3. (\A v \in Workers : HasJob(v, i) =>
               /\ job[v][2] \in Sent(p) \ got[p]
               /\ \A u \in Workers : HasJob(u, i) /\ job[u][2] = job[v][2] => u = v)'
        <4>1. \A v \in Workers : HasJob(v, i) =>
               /\ job[v][2] \in Sent(p) \ got[p]
               /\ \A u \in Workers : HasJob(u, i) /\ job[u][2] = job[v][2] => u = v
          BY DEF Client, Flow
        <4> QED
          BY <1>2, <1>5, <2>2, <4>1
      <3>4. (\A x \in ToSet(s2c[p]) :
               \E v \in Workers : HasJob(v, i) /\ workerPc[v] = "exchange" /\ job[v][2] = x)'
        <4>1. \A x \in ToSet(s2c[p]) :
               \E v \in Workers : HasJob(v, i) /\ workerPc[v] = "exchange" /\ job[v][2] = x
          BY DEF Client, Flow
        <4> SUFFICES ASSUME NEW x \in ToSet(s2c'[p])
                     PROVE  \E v \in Workers : HasJob(v, i)' /\ workerPc'[v] = "exchange"
                              /\ job'[v][2] = x
          OBVIOUS
        <4>2. CASE x = r
          BY <1>2, <1>5, <2>1, <4>2
        <4>3. CASE x # r
          <5>1. PICK v \in Workers : HasJob(v, i) /\ workerPc[v] = "exchange" /\ job[v][2] = x
            BY <2>5, <4>1, <4>3
          <5> QED
            BY <1>2, <1>3, <1>5, <5>1
        <4> QED
          BY <4>2, <4>3
      <3>5. (\A v \in Workers : HasJob(v, i) /\ workerPc[v] = "exchange"
              => job[v][2] \in ToSet(s2c[p]))'
        <4>1. \A v \in Workers : HasJob(v, i) /\ workerPc[v] = "exchange"
                => job[v][2] \in ToSet(s2c[p])
          BY DEF Client, Flow
        <4> SUFFICES ASSUME NEW v \in Workers, HasJob(v, i)', workerPc'[v] = "exchange"
                     PROVE  job'[v][2] \in ToSet(s2c'[p])
          OBVIOUS
        <4>2. CASE v = w
          BY <1>2, <2>5, <4>2
        <4>3. CASE v # w
          BY <1>2, <1>3, <1>5, <2>5, <4>1, <4>3
        <4> QED
          BY <4>2, <4>3
      <3>6. (got[p] \subseteq Sent(p) /\ OnlyOnce(c2s[p], Nat))'
        BY <2>2 DEF Client, Flow
      <3> QED
        BY <2>5, <3>1, <3>2, <3>3, <3>4, <3>5, <3>6 DEF Flow
    <2> QED
      BY <2>8, <2>9, <2>10, <2>11 DEF Client
  <1> QED
    BY <1>6, <1>7

\* A worker's steps keep what is said of a member.
LEMMA ClientWorker ==
  ASSUME IInv, NEW w \in Workers, WorkerStep(w) \/ WriteRacing(w) \/ SendToClosed(w), Alive, Alive',
         NEW p \in Procs, NEW i \in Nat, clientId[p] = i, Client(p, i)
  PROVE  Client(p, i)'
  <1>1. ~WriteRacing(w) /\ ~SendToClosed(w)
    BY DEF WriteRacing, SendToClosed, Alive
  <1>2. CASE WriteBlocking(w)
    <2>1. workerPc[w] = "write" /\ workerPc'[w] = "send" /\ job' = job /\ runqueue' = runqueue
            /\ s2c' = s2c
      BY <1>2 DEF WriteBlocking, Alive, IInv, TypeOK
    <2>2. WorkerStep(w)
      BY <1>2 DEF WorkerStep
    <2>3. \A v \in Workers \ {w} : workerPc'[v] = workerPc[v]
      BY <2>2, ServingFrame
    <2>4. SameJobs(i) /\ SameRequests(i)
      BY <2>1, <2>3 DEF SameJobs, SameRequests, HasJob, Queued
    <2> QED
      BY <2>1, <2>2, <2>4, ServingFrame, ClientKept
  <1> QED
    BY <1>1, <1>2, ClientSchedule, ClientRespond DEF WorkerStep
-----------------------------------------------------------------------------
(* The invariant *)

\* One step of any of the processes.
LEMMA ClientsStep ==
  ASSUME IInv, Order, Clients, [Next]_vars
  PROVE  Clients'
  <1> SUFFICES ASSUME Alive', NEW p \in Procs, Member(p)' PROVE Client(p, clientId[p])'
    BY DEF Clients
  <1>1. Alive /\ current' = current /\ (Member(p) \/ ReceiveId(p))
    BY MemberBefore
  <1>2. CASE ReceiveId(p)
    <2>1. PICK i \in Nat : clientId'[p] = i
      BY <1>2, TypeReceive DEF IInv
    <2>2. Client(p, i)'
      BY <1>2, <2>1, ClientNew
    <2> QED
      BY <2>1, <2>2 DEF Client, Opened, Unserved, Departed, Flow, Complete
  <1>3. CASE Member(p) /\ ~ReceiveId(p)
    <2>1. PICK i \in Nat : clientId[p] = i
      BY <1>3, MemberAlone
    <2>2. Client(p, i) /\ clientId[p] # None
      BY <1>1, <1>3, <2>1 DEF Clients, Member
    <2>3. ASSUME NEW q \in Procs, ClientStep(q) \/ ClientChoice(q)
          PROVE  Client(p, i)' /\ clientId'[p] = i
      <3>1. clientId'[p] = i
        BY <2>1, <2>2, <2>3, HeldClient DEF IInv
      <3> QED
        BY <1>3, <2>1, <2>2, <2>3, <3>1, ClientOther, ClientOwn
    <2>4. CASE RegistrationStep
      <3>1. clientId' = clientId
        BY <2>4, RegistrationFrame DEF clientVars
      <3> QED
        BY <1>1, <1>3, <2>1, <2>2, <2>4, <3>1, ClientService
    <2>5. ASSUME NEW w \in Workers, WorkerStep(w) \/ WriteRacing(w) \/ SendToClosed(w)
          PROVE  Client(p, i)' /\ clientId'[p] = i
      BY <1>1, <2>1, <2>2, <2>5, ServingFrame, ClientWorker
    <2>6. ~Kill /\ ~Restart
      BY <1>1 DEF Kill, Restart, Alive
    <2>7. CASE UNCHANGED vars
      <3>1. UNCHANGED <<pc, clientId, asked, got, c2s, s2c, c2sOwner, s2cOwner, c2sQueues,
                        s2cQueues, current, message, toService, runqueue, workerPc, job>>
        BY <2>7 DEF vars, clientVars, registrationQueues, requestQueues, serviceVars, maps,
                    workerVars
      <3>2. SameJobs(i) /\ SameRequests(i) /\ Unvisited' = Unvisited
        BY <3>1 DEF SameJobs, SameRequests, HasJob, Queued, Unvisited
      <3>3. Client(p, i)'
        BY <2>2, <3>1, <3>2, ClientKept
      <3> QED
        BY <2>1, <3>1, <3>3
    <2> QED
      BY <2>1, <2>3, <2>4, <2>5, <2>6, <2>7 DEF Next
  <1> QED
    BY <1>1, <1>2, <1>3

\* The third layer holds always.
LEMMA ClientsInv == Spec => [](IInv /\ Order /\ Clients)
  <1>1. Init => Clients
    BY DEF Init, Clients, Member
  <1> QED
    BY <1>1, InitInv, OrderInit, StepInv, OrderStep, ClientsStep, PTL DEF Spec
-----------------------------------------------------------------------------
(* Requests *)

\* The requests of a client that is still there are where RequestsTracked says.
LEMMA TrackedRequests ==
  ASSUME IInv, NEW p \in Procs, Member(p), pc[p] = "up", Client(p, clientId[p])
  PROVE  /\ ToSet(c2s[p]) \cup {request[2] : request \in Scheduled(p)}
              \cup {job[w][2] : w \in AtWorkers(p, {"write", "send", "exchange"})}
            = (0..(asked[p] - 1)) \ got[p]
         /\ Len(c2s[p]) + Cardinality(Scheduled(p))
              + Cardinality(AtWorkers(p, {"write", "send", "exchange"}))
            = asked[p] - Cardinality(got[p])
         /\ ToSet(s2c[p]) = {job[w][2] : w \in AtWorkers(p, {"exchange"})}
  <1> USE DEF IInv
  <1> DEFINE i == clientId[p]
             W == AtWorkers(p, {"write", "send", "exchange"})
             known == Scheduled(p)
             queued == ToSet(c2s[p])
             scheduled == {request[2] : request \in known}
             working == {job[w][2] : w \in W}
             waited == (0..(asked[p] - 1)) \ got[p]
  <1>1. /\ i \in Nat /\ asked[p] \in Nat /\ c2s[p] \in Seq(Nat)
        /\ got[p] \subseteq 0..(asked[p] - 1)
        /\ \A r : r \in Sent(p) <=> r \in 0..(asked[p] - 1)
    <2>1. i \in Nat
      BY MemberAlone
    <2>2. asked[p] \in Nat /\ c2s[p] \in Seq(Nat) /\ got[p] \subseteq 0..(asked[p] - 1)
      BY DEF TypeOK
    <2>3. \A r : r \in Sent(p) <=> r \in 0..(asked[p] - 1)
      BY <2>2 DEF Sent
    <2> QED
      BY <2>1, <2>2, <2>3
  <1>2. waited = Sent(p) \ got[p] /\ \A r \in Sent(p) : r \in Nat
    BY <1>1 DEF Sent
  <1>3. \A w \in Workers : w \in W <=> HasJob(w, i)
    BY DEF AtWorkers, HasJob, TypeOK
  <1>4. ASSUME NEW request \in known
        PROVE  request = <<i, request[2]>> /\ request[2] \in Nat /\ Queued(i, request[2])
    <2>1. request \in runqueue /\ request[1] = i
      BY <1>4 DEF Scheduled
    <2>2. request \in Nat \X Nat
      BY <2>1 DEF TypeOK
    <2>3. request = <<i, request[2]>> /\ request[2] \in Nat
      BY <2>1, <2>2
    <2> QED
      BY <2>1, <2>3 DEF Queued
  <1>5. \A r \in Nat : Queued(i, r) <=> r \in scheduled
    <2> SUFFICES ASSUME NEW r \in Nat, Queued(i, r) PROVE r \in scheduled
      BY <1>4
    <2>1. <<i, r>> \in known
      BY DEF Scheduled, Queued
    <2> QED
      BY <2>1
  <1>6. \A r : Busy(i, r) <=> r \in working
    BY <1>3 DEF Busy, AtWorkers
  <1>7. /\ \A r \in queued : r \in waited /\ ~Queued(i, r) /\ ~Busy(i, r)
        /\ \A r \in Nat : Queued(i, r) => r \in waited /\ ~Busy(i, r)
        /\ \A w \in W : job[w][2] \in waited
        /\ \A r \in waited : r \in queued \/ Queued(i, r) \/ Busy(i, r)
    <2>1. /\ \A r \in queued : r \in waited /\ ~Queued(i, r) /\ ~Busy(i, r)
          /\ \A r \in Nat : Queued(i, r) => r \in waited /\ ~Busy(i, r)
      BY <1>2 DEF Client, Flow
    <2>2. \A w \in W : job[w][2] \in waited
      BY <1>2, <1>3 DEF Client, Flow, AtWorkers
    <2>3. \A r \in waited : r \in queued \/ Queued(i, r) \/ Busy(i, r)
      BY <1>2 DEF Client, Complete
    <2> QED
      BY <2>1, <2>2, <2>3
  <1>8. ASSUME NEW v \in W, NEW w \in W, job[v][2] = job[w][2] PROVE v = w
    <2>1. v \in Workers /\ w \in Workers /\ HasJob(v, i) /\ HasJob(w, i)
      BY <1>3 DEF AtWorkers
    <2> QED
      BY <1>8, <2>1 DEF Client, Flow
  <1>9. scheduled \subseteq Nat /\ working \subseteq waited /\ waited \subseteq Nat
    BY <1>1, <1>4, <1>7
  <1>10. queued \cap scheduled = {} /\ (queued \cup scheduled) \cap working = {}
    BY <1>5, <1>6, <1>7, <1>9
  <1>11. queued \cup scheduled \cup working = waited
    BY <1>5, <1>6, <1>7, <1>9
  <1>12. /\ IsFiniteSet(got[p]) /\ IsFiniteSet(waited)
         /\ Cardinality(waited) = asked[p] - Cardinality(got[p])
    <2>1. IsFiniteSet(0..(asked[p] - 1)) /\ Cardinality(0..(asked[p] - 1)) = asked[p]
      <3>1. 0 \in Int /\ asked[p] - 1 \in Int /\ asked[p] \in Nat
        BY <1>1
      <3>2. /\ IsFiniteSet(0..(asked[p] - 1))
            /\ Cardinality(0..(asked[p] - 1))
                 = IF 0 > asked[p] - 1 THEN 0 ELSE (asked[p] - 1) - 0 + 1
        BY <3>1, FS_Interval
      <3> QED
        BY <3>1, <3>2
    <2>2. IsFiniteSet(got[p]) /\ (0..(asked[p] - 1)) \cap got[p] = got[p]
      BY <1>1, <2>1, FS_Subset
    <2>3. /\ IsFiniteSet((0..(asked[p] - 1)) \ got[p])
          /\ Cardinality((0..(asked[p] - 1)) \ got[p])
             = Cardinality(0..(asked[p] - 1)) - Cardinality((0..(asked[p] - 1)) \cap got[p])
      BY <2>1, FS_Difference, Zenon
    <2> QED
      BY <2>1, <2>2, <2>3
  <1>13. IsFiniteSet(queued) /\ IsFiniteSet(scheduled) /\ IsFiniteSet(working)
    <2>1. queued \subseteq waited /\ scheduled \subseteq waited /\ working \subseteq waited
      BY <1>11
    <2> QED
      BY <1>12, <2>1, FS_Subset
  <1>14. Cardinality(waited) = Cardinality(queued) + Cardinality(scheduled) + Cardinality(working)
    <2>1. /\ IsFiniteSet(queued \cup scheduled)
          /\ Cardinality(queued \cup scheduled) = Cardinality(queued) + Cardinality(scheduled)
      BY <1>10, <1>13, DisjointUnion
    <2>2. Cardinality(queued \cup scheduled \cup working)
            = Cardinality(queued \cup scheduled) + Cardinality(working)
      BY <1>10, <1>13, <2>1, DisjointUnion
    <2> QED
      BY <1>11, <2>1, <2>2
  <1>15. Len(c2s[p]) = Cardinality(queued)
    <2>1. DOMAIN c2s[p] = 1..Len(c2s[p]) /\ \A k \in DOMAIN c2s[p] : c2s[p][k] \in Nat
      BY <1>1, LenProperties
    <2>2. OnlyOnce(c2s[p], Nat)
      BY DEF Client, Flow
    <2>3. Once(c2s[p])
      BY <2>1, <2>2 DEF Once, OnlyOnce
    <2> QED
      BY <1>1, <2>3, LengthOnce
  <1>16. Cardinality(known) = Cardinality(scheduled)
    <2> DEFINE f == [request \in known |-> request[2]]
    <2>1. f \in [known -> scheduled]
      OBVIOUS
    <2>2. \A y \in scheduled : \E x \in known : f[x] = y
      OBVIOUS
    <2>3. \A x, y \in known : f[x] = f[y] => x = y
      BY <1>4
    <2> HIDE DEF f, known, scheduled
    <2> QED
      BY <1>13, <2>1, <2>2, <2>3, CountedBy
  <1>17. Cardinality(W) = Cardinality(working)
    <2> DEFINE f == [w \in W |-> job[w][2]]
    <2>1. f \in [W -> working]
      OBVIOUS
    <2>2. \A y \in working : \E x \in W : f[x] = y
      OBVIOUS
    <2>3. \A x, y \in W : f[x] = f[y] => x = y
      BY <1>8
    <2> HIDE DEF f, W, working
    <2> QED
      BY <1>13, <2>1, <2>2, <2>3, CountedBy
  <1>18. ToSet(s2c[p]) = {job[w][2] : w \in AtWorkers(p, {"exchange"})}
    <2>1. \A w \in Workers :
            w \in AtWorkers(p, {"exchange"}) <=> HasJob(w, i) /\ workerPc[w] = "exchange"
      BY DEF AtWorkers, HasJob
    <2>2. ASSUME NEW r \in ToSet(s2c[p]) PROVE \E w \in AtWorkers(p, {"exchange"}) : r = job[w][2]
      BY <2>1 DEF Client, Flow
    <2>3. ASSUME NEW w \in AtWorkers(p, {"exchange"}) PROVE job[w][2] \in ToSet(s2c[p])
      <3>1. w \in Workers
        BY DEF AtWorkers
      <3> QED
        BY <2>1, <3>1 DEF Client, Flow
    <2> QED
      BY <2>2, <2>3
  <1> QED
    BY <1>11, <1>12, <1>14, <1>15, <1>16, <1>17, <1>18

\* No request of a client that is up, and whose number is not disputed, is lost
\* or served twice, whatever clients come, leave and die around it and however
\* often the service has been started before (dispatch, writeBlocking,
\* sendRequests, receiveResponses).
THEOREM RequestsAreTracked == Spec => []RequestsTracked
  <1>1. IInv /\ Clients => RequestsTracked
    <2> SUFFICES ASSUME IInv, Clients, NEW p \in Procs, Alive, pc[p] = "up", out[p] = current,
                        clientId[p] \notin disputed
                 PROVE  Member(p) /\ Client(p, clientId[p])
      BY TrackedRequests DEF RequestsTracked
    <2>1. clientId[p] # None
      BY DEF IInv, Stages, Stage, Idle
    <2>2. Member(p)
      BY <2>1 DEF Member
    <2> QED
      BY <2>2 DEF Clients
  <1> QED
    BY <1>1, ClientsInv, PTL
-----------------------------------------------------------------------------
(* Registration implements Sessions *)

\* What Sessions sees of the processes and of the service.
Held == [p \in Procs |-> IF clientId[p] = None THEN NoSession ELSE <<in[p], clientId[p]>>]
NameOf == [s \in Runs \X Nat |-> s[2]]
Present == {p \in Procs : pc[p] \notin Ended}
Asked == [p \in Procs |-> 0..(asked[p] - 1)]
Exchanging == {v \in Workers : Alive /\ workerPc[v] = "exchange"}
Made == {<<<<current, job[w][1]>>, job[w][2]>> : w \in Exchanging}

\* The steps of Sessions in these terms.
LEMMA JoinShown ==
  ASSUME NEW p \in Procs, NEW lost
  PROVE  S!Join(p, lost) <=>
           LET s == Held'[p] IN
           /\ p \in Present /\ Held[p] = NoSession
           /\ s \in Runs \X Nat
           /\ \A q \in Procs : Held[q] # s
           /\ Held' = [Held EXCEPT ![p] = s]
           /\ disputed' = IF \/ lost
                             \/ \E q \in Present \ {p} :
                                  Held[q] # NoSession /\ NameOf[Held[q]] = NameOf[s]
                          THEN disputed \cup {NameOf[s]} ELSE disputed
           /\ NameOf[s] \notin disputed' => \A r \in RequestIds : <<s, r>> \notin Made
           /\ Present' = Present /\ Asked' = Asked /\ Made' = Made /\ got' = got
  BY DEF S!Join, S!Named, Held, NameOf, Present, Asked, Made, Exchanging

\* Asking, making an answer and taking it, in the variables of Registration.
LEMMA ServingShown ==
  ASSUME NEW p \in Procs, NEW r
  PROVE  /\ S!Ask(p, r) <=>
              /\ p \in Present /\ Held[p] # NoSession
              /\ r \notin Asked[p]
              /\ Asked' = [Asked EXCEPT ![p] = @ \cup {r}]
              /\ Held' = Held /\ Present' = Present /\ Made' = Made
              /\ got' = got /\ disputed' = disputed
         /\ S!Make(p, r) <=>
              /\ r \in Asked[p] \ got[p]
              /\ <<Held[p], r>> \notin Made
              /\ Made' = Made \cup {<<Held[p], r>>}
              /\ Held' = Held /\ Present' = Present /\ Asked' = Asked
              /\ got' = got /\ disputed' = disputed
         /\ S!Answer(p, r) <=>
              /\ p \in Present
              /\ <<Held[p], r>> \in Made
              /\ Made' = Made \ {<<Held[p], r>>}
              /\ got' = [got EXCEPT ![p] = @ \cup {r}]
              /\ Held' = Held /\ Present' = Present /\ Asked' = Asked /\ disputed' = disputed
         /\ S!Leave(p) <=>
              /\ p \in Present
              /\ Present' = Present \ {p}
              /\ Held' = Held /\ Asked' = Asked /\ Made' = Made
              /\ got' = got /\ disputed' = disputed
  BY DEF S!Ask, S!Make, S!Answer, S!Leave, Held, Present, Asked, Made, Exchanging

\* The steps of Sessions that belong to no process.
LEMMA ServiceShown ==
  /\ S!Forget <=> /\ Made' = {}
                  /\ Held' = Held /\ Present' = Present /\ Asked' = Asked
                  /\ got' = got /\ disputed' = disputed
  /\ S!Confuse <=> /\ DOMAIN got' = Procs
                   /\ \A p \in Procs : IF Held[p] # NoSession /\ NameOf[Held[p]] \in disputed
                                       THEN got[p] \subseteq got'[p] /\ got'[p] \subseteq Asked[p]
                                       ELSE got'[p] = got[p]
                   /\ \A m \in (Made \ Made') \cup (Made' \ Made) : NameOf[m[1]] \in disputed
                   /\ Held' = Held /\ Present' = Present /\ Asked' = Asked
                   /\ disputed' = disputed
  BY DEF S!Forget, S!Confuse, S!Disputed, Held, NameOf, Present, Asked, Made, Exchanging

\* The session of a process that has a number.
LEMMA SessionTypes ==
  ASSUME IInv, NEW p \in Procs, clientId[p] # None
  PROVE  /\ Held[p] = <<in[p], clientId[p]>> /\ Held[p] # NoSession
         /\ Held[p] \in Runs \X Nat /\ NameOf[Held[p]] = clientId[p]
  <1>1. in[p] \in Runs /\ clientId[p] \in Nat
    <2>1. in[p] \in Runs
      BY DEF IInv, Stages, Stage
    <2>2. clientId[p] \in Nat
      BY DEF IInv, TypeOK, Ids
    <2> QED
      BY <2>1, <2>2
  <1>2. in[p] # 0
    BY <1>1, RunsNumbered
  <1> QED
    BY <1>1, <1>2 DEF Held, NoSession, NameOf

\* What is made is what the workers hold that wait for the exchange.
LEMMA MadeTypes ==
  ASSUME IInv, NEW w \in Exchanging
  PROVE  /\ Alive /\ w \in Workers /\ workerPc[w] = "exchange"
         /\ job[w][1] \in Nat /\ job[w][2] \in Nat /\ HasJob(w, job[w][1])
         /\ <<current, job[w][1]>> \in Runs \X Nat
         /\ NameOf[<<current, job[w][1]>>] = job[w][1]
  <1>1. Alive /\ w \in Workers /\ workerPc[w] = "exchange"
    BY DEF Exchanging
  <1>2. job[w] \in Nat \X Nat
    BY <1>1 DEF IInv, Stages
  <1>3. job[w][1] \in Nat /\ job[w][2] \in Nat /\ current \in Runs
    BY <1>2 DEF IInv, TypeOK
  <1> QED
    BY <1>1, <1>3 DEF HasJob, NameOf

\* Who serves an undisputed number serves the member that has it.
LEMMA ServesMember ==
  ASSUME IInv, Clients, Alive, NEW w \in Workers, NEW i \in Nat, HasJob(w, i), i \notin disputed
  PROVE  \E p \in Procs : /\ Member(p) /\ clientId[p] = i /\ in[p] = current /\ Client(p, i)
                          /\ pc[p] \in Announcing
                          /\ \A q \in Procs \ {p} : clientId[q] = i => pc[q] \in Ended
  <1>1. Announced(i)
    BY DEF IInv, Senders, HasJob
  <1>2. PICK p \in Procs : out[p] = current /\ clientId[p] = i /\ pc[p] \in Announcing
    BY <1>1 DEF Announced
  <1>3. Member(p)
    BY <1>2, RegistrationAssumption DEF Member
  <1>4. in[p] = current /\ \A q \in Procs \ {p} : clientId[q] = i => pc[q] \in Ended
    BY <1>2, <1>3, MemberAlone
  <1>5. Client(p, i)
    BY <1>2, <1>3 DEF Clients
  <1> QED
    BY <1>2, <1>3, <1>4, <1>5

\* What a member may ask for.
LEMMA SentRequests ==
  ASSUME IInv, NEW p \in Procs, NEW r \in Sent(p)
  PROVE  r \in Nat /\ r \in 0..(asked[p] - 1) /\ r \in RequestIds
  <1>1. /\ asked[p] \in Nat /\ MaxRequests[p] \in Nat /\ asked[p] <= MaxRequests[p]
    BY RegistrationAssumption DEF IInv, Stages, Stage, TypeOK
  <1>2. r \in Nat /\ r < asked[p]
    BY DEF Sent
  <1>3. r \in 0..(asked[p] - 1) /\ r \in 0..MaxRequests[p]
    BY <1>1, <1>2
  <1> QED
    BY <1>2, <1>3 DEF RequestIds

\* A client that takes a number takes a session that nobody has had.
LEMMA JoinsNewSession ==
  ASSUME IInv, NEW p \in Procs, ReceiveId(p)
  PROVE  \E lost \in BOOLEAN : S!Join(p, lost)
  <1> USE DEF IInv
  <1>1. PICK i \in Nat : clientId'[p] = i
    BY TypeReceive
  <1>2. /\ in[p] \in Runs /\ clientId[p] = None
        /\ \A q \in Procs \ {p} : clientId'[q] = clientId[q]
        /\ i = Head(toClients[in[p]])
    BY <1>1, TypeReceive
  <1>3. /\ pc[p] = "await" /\ pc'[p] = "unlink c2s" /\ \A q \in Procs \ {p} : pc'[q] = pc[q]
        /\ UNCHANGED <<out, in, asked, got, current, fault, workerPc, job>>
        /\ disputed' = disputed \cup {j \in {i} : Disputes(p, j)}
    BY <1>2 DEF ReceiveId, Goto, TypeOK, serviceVars, workerVars
  <1>4. i # None
    BY RegistrationAssumption
  <1>5. PICK lost \in BOOLEAN : lost <=> ~(out[p] = current /\ in[p] = current)
    <2>1. CASE out[p] = current /\ in[p] = current
      <3> WITNESS FALSE \in BOOLEAN
      <3> QED
        BY <2>1
    <2>2. CASE ~(out[p] = current /\ in[p] = current)
      <3> WITNESS TRUE \in BOOLEAN
      <3> QED
        BY <2>2
    <2> QED
      BY <2>1, <2>2
  <1> DEFINE s == <<in[p], i>>
  <1>6. /\ Held[p] = NoSession /\ Held'[p] = s
        /\ \A q \in Procs \ {p} : Held'[q] = Held[q]
    BY <1>1, <1>2, <1>3, <1>4 DEF Held
  <1>7. s \in Runs \X Nat /\ NameOf[s] = i
    BY <1>2 DEF NameOf
  <1>8. ASSUME NEW q \in Procs PROVE Held[q] # s
    <2>1. CASE clientId[q] = None
      <3>1. in[p] # 0
        BY <1>2, RunsNumbered
      <3> QED
        BY <2>1, <3>1 DEF Held, NoSession
    <2>2. CASE clientId[q] # None
      <3>1. in[q] = in[p] => clientId[q] # i
        BY <1>1, NumbersReceive
      <3> QED
        BY <2>2, <3>1 DEF Held
    <2> QED
      BY <2>1, <2>2
  <1>9. Held' = [Held EXCEPT ![p] = s]
    <2>1. \A q \in Procs : Held'[q] = [Held EXCEPT ![p] = s][q]
      BY <1>6 DEF Held
    <2> QED
      BY <2>1 DEF Held
  <1>10. p \in Present /\ Present' = Present /\ Made' = Made
    <2>1. p \in Present /\ Present' = Present
      BY <1>3 DEF Present, Ended
    <2>2. Exchanging' = Exchanging
      BY <1>3 DEF Exchanging, Alive
    <2> QED
      BY <1>3, <2>1, <2>2 DEF Made
  <1>11. \A q \in Procs : Held[q] # NoSession /\ NameOf[Held[q]] = i <=> clientId[q] = i
    <2> SUFFICES ASSUME NEW q \in Procs
                 PROVE  Held[q] # NoSession /\ NameOf[Held[q]] = i <=> clientId[q] = i
      OBVIOUS
    <2>1. CASE clientId[q] = None
      BY <1>4, <2>1 DEF Held
    <2>2. CASE clientId[q] # None
      BY <2>2, SessionTypes
    <2> QED
      BY <2>1, <2>2
  <1>12. Disputes(p, i) <=> \/ lost
                            \/ \E q \in Present \ {p} :
                                 Held[q] # NoSession /\ NameOf[Held[q]] = i
    BY <1>5, <1>11 DEF Disputes, Present
  <1>13. disputed' = IF \/ lost
                        \/ \E q \in Present \ {p} :
                             Held[q] # NoSession /\ NameOf[Held[q]] = i
                     THEN disputed \cup {i} ELSE disputed
    BY <1>3, <1>12
  <1>14. i \notin disputed' => \A r \in RequestIds : <<s, r>> \notin Made
    <2> SUFFICES ASSUME i \notin disputed', NEW w \in Exchanging, <<current, job[w][1]>> = s
                 PROVE  FALSE
      BY DEF Made
    <2>1. ~Disputes(p, i)
      BY <1>3
    <2>2. Member(p)'
      BY <1>1, <1>3, <1>4, <2>1 DEF Disputes, Member
    <2>3. ~Announced(i)
      BY <1>1, <2>2, ClientNew
    <2>4. HasJob(w, i) /\ w \in Workers
      BY MadeTypes
    <2> QED
      BY <2>3, <2>4, Unannounced DEF Used
  <1> HIDE DEF s
  <1>15. Asked' = Asked
    BY <1>3 DEF Asked
  <1>16. Held'[p] = s /\ NameOf[Held'[p]] = i
    BY <1>6, <1>7
  <1>17. /\ disputed' = IF \/ lost
                           \/ \E q \in Present \ {p} :
                                Held[q] # NoSession /\ NameOf[Held[q]] = NameOf[Held'[p]]
                        THEN disputed \cup {NameOf[Held'[p]]} ELSE disputed
         /\ NameOf[Held'[p]] \notin disputed' => \A r \in RequestIds : <<Held'[p], r>> \notin Made
    BY <1>13, <1>14, <1>16
  <1>18. /\ Held[p] = NoSession /\ Held'[p] \in Runs \X Nat
         /\ \A q \in Procs : Held[q] # Held'[p]
         /\ Held' = [Held EXCEPT ![p] = Held'[p]]
    BY <1>6, <1>7, <1>8, <1>9, <1>16
  <1>19. S!Join(p, lost)
    BY <1>3, <1>10, <1>15, <1>17, <1>18, JoinShown
  <1> QED
    BY <1>19

\* The steps of a client that Sessions sees nothing of, but that it ends.
LEMMA QuietClient ==
  ASSUME IInv, NEW p \in Procs, ClientStep(p) \/ ClientChoice(p),
         ~ReceiveId(p), ~BeginRequest(p), \A w \in Workers : ~Exchange(p, w)
  PROVE  /\ Held' = Held /\ Asked' = Asked /\ Made' = Made /\ got' = got /\ disputed' = disputed
         /\ Present' = Present \/ S!Leave(p)
  <1> USE DEF IInv
  <1>1. clientId' = clientId /\ disputed' = disputed
    BY OwnFrame
  <1>2. UNCHANGED <<asked, got, workerPc, job, fault, current>>
    BY DEF ClientStep, ClientChoice, OpenC2S, OpenS2C, SendRegistration, UnlinkC2S, CreateC2S,
           UnlinkS2C, CreateS2C, SendQueueCreation, SendRequest, RefuseResponse, SendQueueDeletion,
           CloseC2S, CloseS2C, Die, serviceVars, workerVars
  <1>3. \A q \in Procs : clientId[q] # None => in'[q] = in[q]
    BY HeldClient
  <1>4. Held' = Held
    BY <1>1, <1>3 DEF Held
  <1>5. Asked' = Asked /\ Made' = Made
    BY <1>2 DEF Asked, Made, Exchanging, Alive
  <1>6. pc[p] \notin Ended /\ \A q \in Procs \ {p} : pc'[q] = pc[q]
    BY OwnFrame, OthersFrame
  <1>7. CASE pc'[p] \in Ended
    <2>1. p \in Present /\ Present' = Present \ {p}
      BY <1>6, <1>7 DEF Present
    <2> QED
      BY <1>1, <1>2, <1>4, <1>5, <2>1, ServingShown
  <1>8. CASE pc'[p] \notin Ended
    BY <1>1, <1>2, <1>4, <1>5, <1>6, <1>8 DEF Present
  <1> QED
    BY <1>7, <1>8

\* A request that is begun is a new one, of a process that has its number.
LEMMA AsksOnce ==
  ASSUME IInv, NEW p \in Procs, BeginRequest(p)
  PROVE  \E r \in RequestIds : S!Ask(p, r)
  <1> USE DEF IInv
  <1>1. PICK r \in Nat : r = asked[p]
    BY DEF TypeOK
  <1>2. /\ pc[p] = "up" /\ pc' = [pc EXCEPT ![p] = "sending"]
        /\ asked' = [asked EXCEPT ![p] = r + 1] /\ r < MaxRequests[p] /\ MaxRequests[p] \in Nat
        /\ UNCHANGED <<in, clientId, got, disputed, current, fault, workerPc, job>>
    BY <1>1, RegistrationAssumption DEF BeginRequest, Goto, TypeOK, serviceVars, workerVars
  <1>3. r \in RequestIds
    <2>1. r \in 0..MaxRequests[p]
      BY <1>1, <1>2
    <2> QED
      BY <2>1 DEF RequestIds
  <1>4. clientId[p] # None
    BY <1>2 DEF Stages, Stage, Idle
  <1>5. Held[p] # NoSession /\ Held' = Held
    BY <1>2, <1>4, SessionTypes DEF Held
  <1>6. r \notin Asked[p] /\ Asked' = [Asked EXCEPT ![p] = @ \cup {r}]
    <2>1. Asked[p] = 0..(r - 1) /\ 0..((r + 1) - 1) = 0..(r - 1) \cup {r} /\ r \notin 0..(r - 1)
      BY <1>1 DEF Asked
    <2>2. asked'[p] = r + 1 /\ \A q \in Procs \ {p} : asked'[q] = asked[q]
      BY <1>2 DEF TypeOK
    <2>3. \A q \in Procs : Asked'[q] = IF q = p THEN Asked[q] \cup {r} ELSE Asked[q]
      BY <2>1, <2>2 DEF Asked
    <2>4. Asked' = [q \in Procs |-> Asked'[q]] /\ DOMAIN Asked = Procs
      BY DEF Asked
    <2> HIDE DEF Asked
    <2> QED
      BY <2>1, <2>3, <2>4
  <1>7. p \in Present /\ Present' = Present
    BY <1>2 DEF Present, Ended, TypeOK
  <1>8. Made' = Made
    BY <1>2 DEF Made, Exchanging, Alive
  <1>9. S!Ask(p, r)
    BY <1>2, <1>5, <1>6, <1>7, <1>8, ServingShown
  <1> QED
    BY <1>3, <1>9

\* The answer that a worker makes is one that the member asked for and that
\* nobody has made before.
LEMMA MakesOnce ==
  ASSUME IInv, Clients, NEW w \in Workers, SendResponse(w)
  PROVE  S!Confuse \/ \E p \in Procs, r \in RequestIds : S!Make(p, r)
  <1> USE DEF IInv
  <1>1. /\ Alive /\ workerPc[w] = "send" /\ workerPc'[w] = "exchange" /\ job' = job
        /\ fault' = fault /\ current' = current
        /\ UNCHANGED <<pc, out, in, clientId, asked, got, disputed>>
        /\ \A v \in Workers \ {w} : workerPc'[v] = workerPc[v]
    BY DEF SendResponse, Up, nonWorkerVars, clientVars, TypeOK
  <1>2. job[w] \in Nat \X Nat
    BY <1>1 DEF Stages
  <1>3. PICK i \in Nat, r \in Nat : job[w] = <<i, r>> /\ job[w][1] = i /\ job[w][2] = r
    BY <1>2
  <1>4. HasJob(w, i)
    BY <1>1, <1>3 DEF HasJob
  <1>5. Exchanging' = Exchanging \cup {w} /\ w \notin Exchanging
    BY <1>1 DEF Exchanging, Alive
  <1>6. Made' = Made \cup {<<<<current, i>>, r>>}
    BY <1>1, <1>3, <1>5 DEF Made
  <1>7. Held' = Held /\ Present' = Present /\ Asked' = Asked
    BY <1>1 DEF Held, Present, Asked
  <1>8. CASE i \in disputed
    <2>1. NameOf[<<current, i>>] = i
      BY DEF NameOf, TypeOK
    <2>2. \A m \in (Made \ Made') \cup (Made' \ Made) : NameOf[m[1]] \in disputed
      BY <1>6, <1>8, <2>1
    <2>3. DOMAIN got = Procs /\ \A p \in Procs : got[p] \subseteq Asked[p]
      BY DEF TypeOK, Asked
    <2> QED
      BY <1>1, <1>7, <2>2, <2>3, ServiceShown
  <1>9. CASE i \notin disputed
    <2>1. PICK p \in Procs : Member(p) /\ clientId[p] = i /\ in[p] = current /\ Client(p, i)
      BY <1>1, <1>4, <1>9, ServesMember
    <2>2. Held[p] = <<current, i>>
      BY <2>1, RegistrationAssumption DEF Held
    <2>3. /\ r \in Sent(p) \ got[p]
          /\ \A v \in Workers : HasJob(v, i) /\ job[v][2] = r => v = w
      BY <1>3, <1>4, <2>1 DEF Client, Flow
    <2>4. r \in RequestIds /\ r \in Asked[p] \ got[p]
      BY <2>3, SentRequests DEF Asked
    <2>5. <<<<current, i>>, r>> \notin Made
      <3> SUFFICES ASSUME NEW v \in Exchanging, job[v][1] = i, job[v][2] = r PROVE FALSE
        BY DEF Made
      <3>1. v \in Workers /\ HasJob(v, i)
        BY MadeTypes
      <3> QED
        BY <1>5, <2>3, <3>1
    <2>6. S!Make(p, r)
      BY <1>1, <1>6, <1>7, <2>2, <2>4, <2>5, ServingShown
    <2> QED
      BY <2>4, <2>6
  <1> QED
    BY <1>8, <1>9

\* The answer that a process takes was made for its session.
LEMMA AnswersOnce ==
  ASSUME IInv, Clients, NEW p \in Procs, NEW w \in Workers, Exchange(p, w)
  PROVE  S!Confuse \/ \E r \in RequestIds : S!Answer(p, r)
  <1> USE DEF IInv
  <1>1. PICK r \in Nat : r = Head(s2c[p])
    BY Taken DEF Exchange, TypeOK
  <1>2. /\ Alive /\ pc[p] = "up" /\ r < asked[p] /\ workerPc[w] = "exchange"
        /\ job[w] = <<clientId[p], r>> /\ workerPc'[w] = "idle"
        /\ got' = [got EXCEPT ![p] = @ \cup {r}]
        /\ \A v \in Workers \ {w} : workerPc'[v] = workerPc[v] /\ job'[v] = job[v]
        /\ UNCHANGED <<pc, in, clientId, asked, disputed, current, fault>>
    BY <1>1 DEF Exchange, TypeOK
  <1>3. clientId[p] # None
    BY <1>2 DEF Stages, Stage, Idle
  <1>4. PICK i \in Nat : clientId[p] = i
    BY <1>3 DEF TypeOK, Ids
  <1>5. HasJob(w, i) /\ job[w][1] = i /\ job[w][2] = r
    BY <1>2, <1>4 DEF HasJob
  <1>6. w \in Exchanging /\ Exchanging' = Exchanging \ {w}
    BY <1>2 DEF Exchanging, Alive
  <1>7. \A v \in Exchanging' : job'[v] = job[v] /\ v # w /\ v \in Exchanging
    BY <1>2, <1>6 DEF Exchanging
  <1>8. /\ <<<<current, i>>, r>> \in Made /\ Made' \subseteq Made
        /\ \A m \in Made \ Made' : m = <<<<current, i>>, r>>
    <2>1. <<<<current, i>>, r>> \in Made
      BY <1>5, <1>6 DEF Made
    <2>2. Made' = {<<<<current, job[v][1]>>, job[v][2]>> : v \in Exchanging \ {w}}
      BY <1>2, <1>6, <1>7 DEF Made
    <2> QED
      BY <1>5, <2>1, <2>2 DEF Made
  <1>9. Held' = Held /\ Present' = Present /\ Asked' = Asked /\ p \in Present
    BY <1>2 DEF Held, Present, Asked, Ended
  <1>10. CASE i \in disputed
    <2>1. NameOf[<<current, i>>] = i
      BY DEF NameOf, TypeOK
    <2>2. \A m \in (Made \ Made') \cup (Made' \ Made) : NameOf[m[1]] \in disputed
      BY <1>8, <1>10, <2>1
    <2>3. Held[p] # NoSession /\ NameOf[Held[p]] \in disputed
      BY <1>3, <1>4, <1>10, SessionTypes
    <2>4. DOMAIN got' = Procs /\ \A q \in Procs : got[q] \subseteq Asked[q]
      BY <1>2 DEF TypeOK, Asked
    <2>5. r \in Asked[p] /\ got'[p] = got[p] \cup {r} /\ \A q \in Procs \ {p} : got'[q] = got[q]
      BY <1>2 DEF TypeOK, Asked
    <2> QED
      BY <1>2, <1>9, <2>2, <2>3, <2>4, <2>5, ServiceShown
  <1>11. CASE i \notin disputed
    <2>1. PICK q \in Procs : /\ Member(q) /\ clientId[q] = i /\ in[q] = current /\ Client(q, i)
                             /\ \A o \in Procs \ {q} : clientId[o] = i => pc[o] \in Ended
      BY <1>2, <1>5, <1>11, ServesMember
    <2>2. p = q
      BY <1>2, <1>4, <2>1 DEF Ended
    <2>3. Held[p] = <<current, i>>
      BY <1>3, <2>1, <2>2 DEF Held
    <2>4. /\ r \in Sent(p) \ got[p]
          /\ \A v \in Workers : HasJob(v, i) /\ job[v][2] = r => v = w
      BY <1>5, <2>1, <2>2 DEF Client, Flow
    <2>5. r \in RequestIds
      BY <2>4, SentRequests
    <2>6. <<<<current, i>>, r>> \notin Made'
      <3> SUFFICES ASSUME NEW v \in Exchanging', job'[v][1] = i, job'[v][2] = r PROVE FALSE
        BY <1>2 DEF Made
      <3>1. v \in Exchanging /\ v # w /\ job[v][1] = i /\ job[v][2] = r
        BY <1>7
      <3>2. v \in Workers /\ HasJob(v, i)
        BY <3>1, MadeTypes
      <3> QED
        BY <2>4, <3>1, <3>2
    <2>7. Made' = Made \ {<<<<current, i>>, r>>}
      BY <1>8, <2>6
    <2>8. S!Answer(p, r)
      BY <1>2, <1>8, <1>9, <2>3, <2>7, ServingShown
    <2> QED
      BY <2>5, <2>8
  <1> QED
    BY <1>10, <1>11

\* What the registration thread, a worker or a crash does is to make an answer,
\* to forget all that is made, or nothing that Sessions sees.
LEMMA QuietService ==
  ASSUME UNCHANGED clientVars,
         \/ Exchanging' = Exchanging /\ UNCHANGED <<job, current>>
         \/ Exchanging' = {}
  PROVE  S!Forget \/ UNCHANGED <<Held, Present, Asked, Made, got, disputed>>
  <1>1. UNCHANGED <<Held, Present, Asked, got, disputed>>
    BY DEF clientVars, Held, Present, Asked
  <1>2. CASE Exchanging' = Exchanging /\ UNCHANGED <<job, current>>
    <2>1. Made' = Made
      BY <1>2 DEF Made
    <2> QED
      BY <1>1, <2>1
  <1>3. CASE Exchanging' = {}
    <2>1. Made' = {}
      BY <1>3 DEF Made
    <2> QED
      BY <1>1, <2>1, ServiceShown
  <1> QED
    BY <1>2, <1>3

\* Every step of Registration is one of Sessions, or changes nothing there.
LEMMA SessionsStep ==
  ASSUME IInv, Clients, [Next]_vars
  PROVE  S!Next \/ UNCHANGED <<Held, Present, Asked, Made, got, disputed>>
  <1> USE DEF IInv
  <1>1. ASSUME NEW p \in Procs, ClientStep(p) \/ ClientChoice(p)
        PROVE  S!Next \/ UNCHANGED <<Held, Present, Asked, Made, got, disputed>>
    <2>1. CASE ReceiveId(p)
      BY <2>1, JoinsNewSession DEF S!Next
    <2>2. CASE BeginRequest(p)
      BY <2>2, AsksOnce DEF S!Next
    <2>3. CASE \E w \in Workers : Exchange(p, w)
      BY <2>3, AnswersOnce DEF S!Next
    <2>4. CASE ~ReceiveId(p) /\ ~BeginRequest(p) /\ \A w \in Workers : ~Exchange(p, w)
      BY <1>1, <2>4, QuietClient DEF S!Next
    <2> QED
      BY <2>1, <2>2, <2>3, <2>4
  <1>2. CASE RegistrationStep
    <2>1. UNCHANGED clientVars /\ UNCHANGED <<workerPc, job, current>> /\ Alive
      BY <1>2, RegistrationFrame DEF workerVars
    <2>2. Exchanging' = Exchanging \/ Exchanging' = {}
      BY <2>1 DEF Exchanging
    <2> QED
      BY <2>1, <2>2, QuietService DEF S!Next
  <1>3. ASSUME NEW w \in Workers, WorkerStep(w) \/ WriteRacing(w) \/ SendToClosed(w)
        PROVE  S!Next \/ UNCHANGED <<Held, Present, Asked, Made, got, disputed>>
    <2>1. CASE SendResponse(w)
      BY <2>1, MakesOnce DEF S!Next
    <2>2. CASE ~SendResponse(w)
      <3>1. UNCHANGED clientVars /\ current' = current
        BY <1>3, WorkerFrame DEF nonWorkerVars
      <3>2. /\ \A v \in Workers \ {w} : workerPc'[v] = workerPc[v] /\ job'[v] = job[v]
            /\ workerPc[w] # "exchange" /\ workerPc'[w] # "exchange" /\ Alive
        BY <1>3, <2>2, WorkerFrame DEF WorkerStep, Schedule, WriteBlocking, WriteRacing,
                                       SendToClosed, workerVars, TypeOK
      <3>3. CASE Alive'
        <4>1. Exchanging' = Exchanging /\ \A v \in Exchanging : job'[v] = job[v]
          BY <3>2, <3>3 DEF Exchanging
        <4>2. Made' = Made
          BY <3>1, <4>1 DEF Made
        <4>3. UNCHANGED <<Held, Present, Asked, got, disputed>>
          BY <3>1 DEF clientVars, Held, Present, Asked
        <4> QED
          BY <4>2, <4>3
      <3>4. CASE ~Alive'
        <4>1. Exchanging' = {}
          BY <3>4 DEF Exchanging
        <4> QED
          BY <3>1, <4>1, QuietService DEF S!Next
      <3> QED
        BY <3>3, <3>4
    <2> QED
      BY <2>1, <2>2
  <1>4. CASE Kill \/ Restart
    <2>1. UNCHANGED clientVars /\ \A w \in Workers : workerPc'[w] = "idle"
      BY <1>4, ProcessFrame
    <2>2. Exchanging' = {}
      BY <2>1 DEF Exchanging
    <2> QED
      BY <2>1, <2>2, QuietService DEF S!Next
  <1>5. CASE UNCHANGED vars
    <2>1. UNCHANGED <<pc, in, clientId, asked, got, disputed, current, fault, workerPc, job>>
      BY <1>5 DEF vars, clientVars, serviceVars, workerVars
    <2> QED
      BY <2>1 DEF Held, Present, Asked, Made, Exchanging, Alive
  <1> QED
    BY <1>1, <1>2, <1>3, <1>4, <1>5 DEF Next

\* Registration implements Sessions (Registration's Implements).  Whatever
\* clients do, whatever dies and is started again: no two processes are given
\* the same number by one run of the service; and as long as nobody disputes a
\* process' number, the answers made for its session are to what it asked,
\* each is made once, and only that process takes it, once.
THEOREM RegistrationRefinement == Spec => Implements
  <1>1. Init => S!Init
    <2> SUFFICES ASSUME Init PROVE S!Init
      OBVIOUS
    <2>1. 0..(0 - 1) = {}
      OBVIOUS
    <2>2. \A w \in Workers : workerPc[w] # "exchange"
      BY DEF Init
    <2>3. Held = [p \in Procs |-> NoSession] /\ Present = Procs /\ Asked = [p \in Procs |-> {}]
      BY <2>1 DEF Init, Held, Present, Asked, Ended
    <2>4. Made = {}
      BY <2>2 DEF Made, Exchanging
    <2>5. got = [p \in Procs |-> {}] /\ disputed = {}
      BY DEF Init
    <2> QED
      BY <2>3, <2>4, <2>5 DEF S!Init, Held, Present, Asked, Made, Exchanging
  <1>2. IInv /\ Clients /\ [Next]_vars => [S!Next]_(S!vars)
    <2> SUFFICES ASSUME IInv, Clients, [Next]_vars PROVE S!Next \/ UNCHANGED S!vars
      OBVIOUS
    <2>1. UNCHANGED <<Held, Present, Asked, Made, got, disputed>> => UNCHANGED S!vars
      BY DEF S!vars, Held, Present, Asked, Made, Exchanging
    <2> QED
      BY <2>1, SessionsStep
  <1> QED
    BY <1>1, <1>2, ClientsInv, PTL DEF Spec, S!Spec, Implements
-----------------------------------------------------------------------------
(* What the service dies of *)

\* A client that leaves makes no requests and does not come back.
LEMMA LeavingStays ==
  ASSUME IInv, NEW p \in Procs, ClientStep(p) \/ ClientChoice(p), NEW q \in Procs,
         pc[q] \in Closing \cup Ended
  PROVE  /\ pc'[q] \in Closing \cup Ended /\ asked'[q] = asked[q]
         /\ pc[q] \in {"closing s2c"} \cup Ended => pc'[q] \in {"closing s2c"} \cup Ended
  <1>1. CASE q # p
    BY <1>1, OthersFrame DEF IInv
  <1>2. CASE q = p
    <2>1. CASE CloseC2S(p) \/ CloseS2C(p) \/ Die(p)
      <3>1. asked' = asked /\ \A x : pc' = [pc EXCEPT ![p] = x] => pc'[p] = x
        <4>1. asked' = asked
          BY <2>1 DEF CloseC2S, CloseS2C, Die
        <4>2. DOMAIN pc = Procs
          BY DEF IInv, TypeOK
        <4> QED
          BY <4>1, <4>2
      <3>2. CASE CloseC2S(p)
        BY <1>2, <3>1, <3>2 DEF CloseC2S, Goto, Closing, Ended
      <3>3. CASE CloseS2C(p)
        BY <1>2, <3>1, <3>3 DEF CloseS2C, Goto, Closing, Ended
      <3>4. CASE Die(p)
        BY <1>2, <3>1, <3>4 DEF Die, Closing, Ended
      <3> QED
        BY <2>1, <3>2, <3>3, <3>4
    <2>2. CASE ~CloseC2S(p) /\ ~CloseS2C(p) /\ ~Die(p)
      <3>1. ~OpenC2S(p) /\ ~OpenS2C(p) /\ ~BeginRequest(p) /\ ~\E w \in Workers : Exchange(p, w)
        BY <1>2 DEF OpenC2S, OpenS2C, BeginRequest, Exchange, Goto, Closing, Ended
      <3>2. ~SendRegistration(p) /\ ~ReceiveId(p) /\ ~SendQueueCreation(p) /\ ~SendQueueDeletion(p)
        BY <1>2 DEF SendRegistration, ReceiveId, SendQueueCreation, SendQueueDeletion, Goto,
                    Closing, Ended
      <3>3. ~UnlinkC2S(p) /\ ~CreateC2S(p) /\ ~UnlinkS2C(p) /\ ~CreateS2C(p)
        BY <1>2 DEF UnlinkC2S, CreateC2S, UnlinkS2C, CreateS2C, Goto, Closing, Ended
      <3>4. ~SendRequest(p) /\ ~RefuseResponse(p)
        BY <1>2 DEF SendRequest, RefuseResponse, Goto, Closing, Ended
      <3> QED
        BY <2>2, <3>1, <3>2, <3>3, <3>4 DEF ClientStep, ClientChoice
    <2> QED
      BY <2>1, <2>2
  <1> QED
    BY <1>1, <1>2

\* What can be said against a client of a dead service can be said ever after.
LEMMA GuiltStays ==
  ASSUME IInv, [Next]_vars, ~Alive, ~Alive', NEW q \in Procs
  PROVE  /\ Deserted(q) => Deserted(q)'
         /\ /\ pc[q] \in {"closing s2c"} \cup Ended /\ got[q] = {}
            => (pc[q] \in {"closing s2c"} \cup Ended /\ got[q] = {})'
  <1> SUFFICES ASSUME pc[q] \in Closing \cup Ended
               PROVE  /\ got' = got /\ asked'[q] = asked[q] /\ pc'[q] \in Closing \cup Ended
                      /\ pc[q] \in {"closing s2c"} \cup Ended
                           => pc'[q] \in {"closing s2c"} \cup Ended
    BY DEF Deserted, Closing
  <1>1. got' = got
    BY DeadService
  <1>2. ASSUME NEW p \in Procs, ClientStep(p) \/ ClientChoice(p)
        PROVE  /\ asked'[q] = asked[q] /\ pc'[q] \in Closing \cup Ended
               /\ pc[q] \in {"closing s2c"} \cup Ended => pc'[q] \in {"closing s2c"} \cup Ended
    BY <1>2, LeavingStays
  <1>3. CASE UNCHANGED clientVars
    BY <1>3 DEF clientVars
  <1>4. \/ \E p \in Procs : ClientStep(p) \/ ClientChoice(p)
        \/ UNCHANGED clientVars
    <2>1. ~RegistrationStep /\ ~Kill /\ ~Restart
      BY RegistrationFrame DEF Kill, Restart, Alive
    <2>2. \A w \in Workers : ~(WorkerStep(w) \/ WriteRacing(w) \/ SendToClosed(w))
      BY WorkerFrame DEF IInv
    <2> QED
      BY <2>1, <2>2 DEF Next, vars
  <1> QED
    BY <1>1, <1>2, <1>3, <1>4

\* Where a worker has a request of a member, the member waits for an answer.
LEMMA Outstanding ==
  ASSUME IInv, NEW p \in Procs, NEW i \in Nat, Flow(p, i), NEW w \in Workers, HasJob(w, i)
  PROVE  Cardinality(got[p]) < asked[p]
  <1>1. PICK r \in Nat : r \in Sent(p) \ got[p]
    BY DEF Flow, Sent
  <1>2. asked[p] \in Nat /\ got[p] \subseteq 0..(asked[p] - 1) /\ r \in 0..(asked[p] - 1)
    BY <1>1, SentRequests DEF IInv, TypeOK
  <1>3. IsFiniteSet(0..(asked[p] - 1)) /\ Cardinality(0..(asked[p] - 1)) = asked[p]
    <2>1. 0 \in Int /\ asked[p] - 1 \in Int
      BY <1>2
    <2>2. /\ IsFiniteSet(0..(asked[p] - 1))
          /\ Cardinality(0..(asked[p] - 1)) = IF 0 > asked[p] - 1 THEN 0 ELSE (asked[p] - 1) - 0 + 1
      BY <2>1, FS_Interval
    <2> QED
      BY <1>2, <2>1, <2>2
  <1>4. Cardinality(got[p]) <= Cardinality(0..(asked[p] - 1)) /\ IsFiniteSet(got[p])
        /\ (Cardinality(got[p]) = Cardinality(0..(asked[p] - 1)) => got[p] = 0..(asked[p] - 1))
    BY <1>2, <1>3, FS_Subset
  <1>5. Cardinality(got[p]) \in Nat
    BY <1>4, FS_CardinalityType
  <1>6. got[p] # 0..(asked[p] - 1)
    BY <1>1, <1>2
  <1> QED
    BY <1>2, <1>3, <1>4, <1>5, <1>6

\* The queues of a client are there to be opened until it leaves.
LEMMA FailedToOpen ==
  ASSUME IInv, Clients, Alive, message # None, message.type = "QUEUE_CREATION",
         \/ message.id \notin DOMAIN c2sOwner
         \/ message.id \notin DOMAIN s2cOwner
  PROVE  \E p \in Procs : /\ clientId[p] = message.id /\ out[p] = current
                          /\ \/ message.id \in disputed
                             \/ pc[p] \in {"closing s2c"} \cup Ended /\ got[p] = {}
  <1> USE DEF IInv
  <1>1. message \in Message /\ message \in Unvisited /\ message.id \in Nat
    <2>1. message \in Message
      BY DEF TypeOK
    <2> QED
      BY <2>1, MessageTypes DEF Unvisited
  <1>2. PICK i \in Nat : i = message.id
    BY <1>1
  <1>3. Creation(i) \in Unvisited /\ Announced(i)
    <2>1. message = Creation(i)
      BY <1>1, <1>2 DEF Message, Creation
    <2> QED
      BY <1>1, <1>2, <2>1 DEF Senders
  <1>4. PICK p \in Procs : out[p] = current /\ clientId[p] = i /\ pc[p] \in Announcing
    BY <1>3 DEF Announced
  <1>5. ASSUME i \notin disputed
        PROVE  pc[p] \in {"closing s2c"} \cup Ended /\ got[p] = {}
    <2>1. Client(p, i)
      BY <1>4, <1>5, RegistrationAssumption DEF Clients, Member
    <2>2. got[p] = {}
      BY <1>3, <2>1 DEF Client, Unserved
    <2>3. pc[p] \notin {"announce", "up", "sending", "closing c2s"}
      BY <1>2, <2>1 DEF Client, Opened
    <2> QED
      BY <1>4, <2>2, <2>3 DEF Announcing, Closing
  <1> QED
    BY <1>2, <1>4, <1>5

\* Whom a worker writes to is registered until it leaves.
LEMMA WroteToNobody ==
  ASSUME IInv, Clients, Alive, NEW w \in Workers, workerPc[w] # "idle",
         job[w][1] \notin DOMAIN s2cQueues
  PROVE  \E p \in Procs : /\ clientId[p] = job[w][1] /\ out[p] = current
                          /\ job[w][1] \in disputed \/ Deserted(p)
  <1> USE DEF IInv
  <1>1. PICK i \in Nat : job[w][1] = i
    BY DEF Stages
  <1>2. HasJob(w, i)
    BY <1>1 DEF HasJob
  <1>3. PICK p \in Procs : out[p] = current /\ clientId[p] = i
    BY <1>2 DEF Senders, HasJob, Announced
  <1>4. ASSUME i \notin disputed PROVE Deserted(p)
    <2>1. Client(p, i)
      BY <1>3, <1>4, RegistrationAssumption DEF Clients, Member
    <2>2. Used(i) /\ ~Registered(i)
      BY <1>1, <1>2 DEF Used, Registered, TypeOK
    <2>3. pc[p] \in Closing \cup Ended
      BY <2>1, <2>2 DEF Client, Departed
    <2>4. Cardinality(got[p]) < asked[p]
      BY <1>2, <2>1, Outstanding DEF Client
    <2> QED
      BY <2>3, <2>4 DEF Deserted
  <1> QED
    BY <1>1, <1>3, <1>4

\* The maps change for a client whose own requests are not at work, unless it
\* leaves without their answers.
LEMMA RacedWith ==
  ASSUME IInv, Order, Clients, Alive, NEW w \in Workers, workerPc[w] # "idle", MapsChange
  PROVE  \E p \in Procs : /\ clientId[p] = message.id /\ out[p] = current
                          /\ job[w][1] \in {message.id} \ disputed => Deserted(p)
  <1> USE DEF IInv
  <1>1. /\ message \in Message /\ message \in Unvisited /\ message.id \in Nat
        /\ message.type \in {"QUEUE_CREATION", "QUEUE_DELETION"}
    <2>1. message \in Message /\ message # None
          /\ message.type \in {"QUEUE_CREATION", "QUEUE_DELETION"}
      BY DEF TypeOK, MapsChange, Visiting
    <2> QED
      BY <2>1, MessageTypes DEF Unvisited
  <1>2. PICK i \in Nat : i = message.id
    BY <1>1
  <1>3. message = Creation(i) \/ message = Deletion(i)
    BY <1>1, <1>2 DEF Message, Creation, Deletion
  <1>4. Announced(i)
    BY <1>1, <1>2 DEF Senders
  <1>5. PICK p \in Procs : out[p] = current /\ clientId[p] = i
    BY <1>4 DEF Announced
  <1>6. ASSUME job[w][1] = i, i \notin disputed PROVE Deserted(p)
    <2>1. Member(p) /\ Client(p, i)
      BY <1>5, <1>6, RegistrationAssumption DEF Clients, Member
    <2>2. HasJob(w, i)
      BY <1>6 DEF HasJob
    <2>3. message # Creation(i)
      BY <1>1, <2>1, <2>2 DEF Client, Unserved, Used
    <2>4. Left(i)
      BY <1>3, <1>5, <2>1, <2>3, MemberOrder DEF Ordered, DeletionOnce
    <2>5. pc[p] \in Closing \cup Ended
      BY <1>5, <2>1, <2>4, MemberAlone DEF Left
    <2>6. Cardinality(got[p]) < asked[p]
      BY <2>1, <2>2, Outstanding DEF Client
    <2> QED
      BY <2>5, <2>6 DEF Deserted
  <1> QED
    BY <1>2, <1>5, <1>6

\* A service that dies, dies of something that is explained.
LEMMA DeathsStep ==
  ASSUME IInv, Order, Clients, Accused, ProtocolKept', ServiceDeathsExplained, [Next]_vars
  PROVE  ServiceDeathsExplained'
  <1> USE DEF IInv
  <1>1. CASE Alive'
    BY <1>1 DEF ServiceDeathsExplained, Alive
  \* The service has been dead for a while.
  <1>2. CASE ~Alive /\ ~Alive'
    <2>1. /\ UNCHANGED <<fault, message, current, workerPc, job, got>>
          /\ disputed \subseteq disputed'
          /\ \A q \in Procs : clientId[q] # None => out'[q] = out[q] /\ clientId'[q] = clientId[q]
      BY <1>2, DeadService
    <2>2. ASSUME fault' = "failed to open message queue"
          PROVE  \E p \in Procs : /\ clientId'[p] = message'.id /\ out'[p] = current'
                                  /\ \/ message'.id \in disputed'
                                     \/ pc'[p] \in {"closing s2c"} \cup Ended /\ got'[p] = {}
      <3>1. PICK p \in Procs : /\ clientId[p] = message.id /\ out[p] = current
                               /\ \/ message.id \in disputed
                                  \/ pc[p] \in {"closing s2c"} \cup Ended /\ got[p] = {}
        BY <2>1, <2>2 DEF ServiceDeathsExplained
      <3>2. clientId[p] # None
        BY <2>1, <2>2, <3>1, MessageTypes, RegistrationAssumption DEF Accused
      <3>3. /\ pc[p] \in {"closing s2c"} \cup Ended /\ got[p] = {}
            => pc'[p] \in {"closing s2c"} \cup Ended /\ got'[p] = {}
        BY <1>2, GuiltStays
      <3> QED
        BY <2>1, <3>1, <3>2, <3>3
    <2>3. ASSUME fault' = "write to nobody"
          PROVE  \E w \in Workers, p \in Procs :
                   /\ workerPc'[w] \in {"write", "send"}
                   /\ clientId'[p] = job'[w][1] /\ out'[p] = current'
                   /\ job'[w][1] \in disputed' \/ Deserted(p)'
      <3>1. PICK w \in Workers, p \in Procs :
                   /\ workerPc[w] \in {"write", "send"}
                   /\ clientId[p] = job[w][1] /\ out[p] = current
                   /\ job[w][1] \in disputed \/ Deserted(p)
        BY <2>1, <2>3 DEF ServiceDeathsExplained
      <3>2. clientId[p] # None
        <4>1. job[w] \in Nat \X Nat
          BY <3>1 DEF Stages
        <4> QED
          BY <3>1, <4>1, RegistrationAssumption
      <3>3. Deserted(p) => Deserted(p)'
        BY <1>2, GuiltStays
      <3>4. /\ workerPc'[w] \in {"write", "send"}
            /\ clientId'[p] = job'[w][1] /\ out'[p] = current'
            /\ job'[w][1] \in disputed' \/ Deserted(p)'
        BY <2>1, <3>1, <3>2, <3>3
      <3> QED
        BY <3>4
    <2>4. ASSUME fault' = "data race"
          PROVE  \E w \in Workers, p \in Procs :
                   /\ workerPc'[w] = "write"
                   /\ clientId'[p] = message'.id /\ out'[p] = current'
                   /\ job'[w][1] \in {message'.id} \ disputed' => Deserted(p)'
      <3>1. PICK w \in Workers, p \in Procs :
                   /\ workerPc[w] = "write"
                   /\ clientId[p] = message.id /\ out[p] = current
                   /\ job[w][1] \in {message.id} \ disputed => Deserted(p)
        BY <2>1, <2>4 DEF ServiceDeathsExplained
      <3>2. clientId[p] # None
        BY <2>1, <2>4, <3>1, MessageTypes, RegistrationAssumption DEF Accused
      <3>3. Deserted(p) => Deserted(p)'
        BY <1>2, GuiltStays
      <3>4. /\ workerPc'[w] = "write"
            /\ clientId'[p] = message'.id /\ out'[p] = current'
            /\ job'[w][1] \in {message'.id} \ disputed' => Deserted(p)'
        BY <2>1, <3>1, <3>2, <3>3
      <3> QED
        BY <3>4
    <2> QED
      BY <2>2, <2>3, <2>4 DEF ServiceDeathsExplained
  \* It dies now.
  <1>3. CASE Alive /\ ~Alive'
    <2>1. CASE RegistrationStep
      <3>1. UNCHANGED <<pc, out, clientId, asked, got, disputed, current, workerPc, job>>
        BY <2>1, RegistrationFrame DEF clientVars, workerVars
      <3>2. CASE fault' = "failed to open message queue"
        <4>1. /\ message' = message /\ message # None /\ message.type = "QUEUE_CREATION"
              /\ \/ message.id \notin DOMAIN c2sOwner
                 \/ message.id \notin DOMAIN s2cOwner
          BY <1>3, <2>1, <3>2 DEF RegistrationStep, CreateRegistrationQueues, ReceiveRegistration,
             VisitRegistration, VisitQueueCreation, OpenRequestQueue, VisitQueueDeletion, FinishReg,
             Dispatch, Throw, Visiting, Alive
        <4>2. PICK p \in Procs : /\ clientId[p] = message.id /\ out[p] = current
                                 /\ \/ message.id \in disputed
                                    \/ pc[p] \in {"closing s2c"} \cup Ended /\ got[p] = {}
          BY <1>3, <4>1, FailedToOpen
        <4> QED
          BY <3>1, <3>2, <4>1, <4>2 DEF ServiceDeathsExplained
      <3>3. CASE fault' # "failed to open message queue"
        <4>1. fault' \in {"already registered", "not registered"}
          BY <1>3, <2>1, <3>3 DEF RegistrationStep, CreateRegistrationQueues, ReceiveRegistration,
             VisitRegistration, VisitQueueCreation, OpenRequestQueue, VisitQueueDeletion, FinishReg,
             Dispatch, Throw, Alive
        <4> QED
          BY <4>1 DEF ServiceDeathsExplained
      <3> QED
        BY <3>2, <3>3
    <2>2. ASSUME NEW w \in Workers, WorkerStep(w) \/ WriteRacing(w) \/ SendToClosed(w)
          PROVE  ServiceDeathsExplained'
      <3>1. UNCHANGED <<pc, out, clientId, asked, got, disputed, current, message>>
        BY <2>2, WorkerFrame DEF nonWorkerVars, clientVars
      <3>2. CASE WriteRacing(w)
        <4>1. workerPc[w] = "write" /\ MapsChange /\ fault' = "data race"
                /\ UNCHANGED <<workerPc, job>>
          BY <3>2 DEF WriteRacing, workerVars
        <4>2. PICK p \in Procs : /\ clientId[p] = message.id /\ out[p] = current
                                 /\ job[w][1] \in {message.id} \ disputed => Deserted(p)
          BY <1>3, <4>1, RacedWith
        <4>3. Deserted(p)' <=> Deserted(p)
          BY <3>1 DEF Deserted
        <4> QED
          BY <3>1, <4>1, <4>2, <4>3 DEF ServiceDeathsExplained
      <3>3. CASE ~WriteRacing(w)
        <4>1. /\ workerPc[w] \in {"write", "send"} /\ job[w][1] \notin DOMAIN s2cQueues
              /\ fault' = "write to nobody" /\ UNCHANGED <<workerPc, job>>
          BY <1>3, <2>2, <3>3 DEF WorkerStep, Schedule, WriteBlocking, SendResponse, SendToClosed,
                                  workerVars, Alive
        <4>2. PICK p \in Procs : /\ clientId[p] = job[w][1] /\ out[p] = current
                                 /\ job[w][1] \in disputed \/ Deserted(p)
          BY <1>3, <4>1, WroteToNobody
        <4>3. Deserted(p)' <=> Deserted(p)
          BY <3>1 DEF Deserted
        <4> QED
          BY <3>1, <4>1, <4>2, <4>3 DEF ServiceDeathsExplained
      <3> QED
        BY <3>2, <3>3
    <2>3. CASE Kill
      BY <2>3 DEF Kill, ServiceDeathsExplained
    <2>4. ASSUME NEW p \in Procs, ClientStep(p) \/ ClientChoice(p) PROVE FALSE
      BY <1>3, <2>4, ClientFrame DEF Alive
    <2>5. ~Restart /\ ~UNCHANGED vars
      BY <1>3 DEF Restart, vars, serviceVars, Alive
    <2> QED
      BY <2>1, <2>2, <2>3, <2>4, <2>5 DEF Next
  <1> QED
    BY <1>1, <1>2, <1>3

\* The service dies of its clients only in the ways that ServiceDeathsExplained
\* tells, however they come, leave and die and however often it is started
\* again (visitQueueCreation, visitQueueDeletion, writeBlocking).
THEOREM ServiceDeaths == Spec => []ServiceDeathsExplained
  <1>1. Init => ServiceDeathsExplained
    BY DEF Init, ServiceDeathsExplained, ProtocolKept
  <1>2. /\ IInv /\ Order /\ Clients /\ Accused /\ ServiceDeathsExplained
        /\ ProtocolKept' /\ [Next]_vars
        => ServiceDeathsExplained'
    BY DeathsStep
  <1> QED
    BY <1>1, <1>2, ClientsInv, KeptInv, PTL DEF Spec
=============================================================================
