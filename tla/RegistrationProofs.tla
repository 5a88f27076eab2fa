-------------------------- MODULE RegistrationProofs --------------------------
(***************************************************************************)
(* Proofs about Registration, for any number of processes, workers and     *)
(* runs and queues of every size.  Two layers:                             *)
(*                                                                         *)
(* IInv, the inductive invariant that needs nothing else: how far a client *)
(* or a worker is says what it has (Stages), nothing is there of a run     *)
(* that has not begun (Begun), a run gives each number once (Numbers), a   *)
(* number that nobody disputes belongs to the client of the last run that  *)
(* gave it (Holders), a queue bears the number of the process that made it *)
(* (Names), and whatever bears a number was sent by a client of this run   *)
(* that has it (Senders).                                                  *)
(*                                                                         *)
(* Order, on top of it: as long as every client of this run that has a     *)
(* number received it from this run (Proper), the number is created once,  *)
(* removed once and in that order, in the queue and under the eyes of the  *)
(* registration thread.  So a client is registered twice, or removed       *)
(* without being there, only when a client with the queues of two runs has *)
(* announced its number (ProtocolIsKept).                                  *)
(*                                                                         *)
(* SessionProofs goes on from here.                                        *)
(***************************************************************************)
EXTENDS Registration, CollectionLemmas, SequenceTheorems, TLAPS
-----------------------------------------------------------------------------
(* The invariant *)

Idle == {"new", "open s2c", "register", "await"}

\* A client that has announced its queues, or died.
Announcing == {"up", "sending"} \cup Closing \cup Ended

\* How far a Servicer is tells which queues it has opened, whether it has a
\* number, and whether it has asked for anything.
Stage(p) ==
  /\ pc[p] \notin {"new", "dead"} => out[p] \in Runs
  /\ pc[p] \notin {"new", "open s2c", "dead"} => in[p] \in Runs
  /\ pc[p] \in {"new", "open s2c"} => in[p] = None
  /\ pc[p] \in Idle => clientId[p] = None
  /\ pc[p] \notin Idle \cup {"dead"} => clientId[p] # None
  /\ clientId[p] # None => out[p] \in Runs /\ in[p] \in Runs
  /\ pc[p] \in {"new"} \cup Constructing \/ clientId[p] = None => asked[p] = 0
  /\ pc[p] = "sending" => asked[p] > 0
  /\ asked[p] <= MaxRequests[p]

\* A worker that is not idle has a request; only a client whose queues are being
\* opened is in one of the two maps.
Stages ==
  /\ \A p \in Procs : Stage(p)
  /\ \A w \in Workers : workerPc[w] # "idle" => job[w] \in Nat \X Nat
  /\ \A i \in DOMAIN s2cQueues \ DOMAIN c2sQueues :
       Visiting("QUEUE_CREATION") /\ message.id = i

\* No two elements of M in the sequence s are the same.
OnlyOnce(s, M) == \A j, k \in DOMAIN s : s[j] \in M /\ s[j] = s[k] => j = k

\* There is nothing of a run that has not begun.
Begun ==
  /\ \A n \in Runs : n > current => toService[n] = << >> /\ toClients[n] = << >>
  /\ c2sName \in Runs => c2sName <= current
  /\ s2cName \in Runs => s2cName <= current
  /\ \A p \in Procs : /\ out[p] \in Runs => out[p] <= current
                      /\ in[p] \in Runs => in[p] <= current

\* A run gives every number once.
Numbers ==
  /\ \A n \in Runs : OnlyOnce(toClients[n], Nat)
  /\ Alive => \A i \in ToSet(toClients[current]) : i < nextClientId
  /\ \A p \in Procs : clientId[p] # None =>
       /\ clientId[p] \notin ToSet(toClients[in[p]])
       /\ Alive /\ in[p] = current => clientId[p] < nextClientId
       /\ \A q \in Procs \ {p} : in[q] = in[p] => clientId[q] # clientId[p]

\* A number that is not disputed belongs to the client of the last run that gave
\* it, and the others that had it have ended.
Holders ==
  \A p \in Procs : clientId[p] # None /\ clientId[p] \notin disputed =>
    /\ out[p] = in[p]
    /\ \A q \in Procs : clientId[q] = clientId[p] /\ in[q] < in[p] => pc[q] \in Ended

\* Queues that can be opened, or are open, are those of a client with the number.
Names ==
  /\ \A i \in DOMAIN c2sOwner : clientId[c2sOwner[i]] = i
  /\ \A i \in DOMAIN s2cOwner : clientId[s2cOwner[i]] = i
  /\ \A i \in DOMAIN c2sQueues : clientId[c2sQueues[i]] = i
  /\ \A i \in DOMAIN s2cQueues : clientId[s2cQueues[i]] = i
  /\ \A p \in Procs : clientId[p] = None => c2s[p] = << >> /\ s2c[p] = << >>

\* Some client of this run has announced its queues under the number i, or died.
Announced(i) ==
  \E p \in Procs : out[p] = current /\ clientId[p] = i /\ pc[p] \in Announcing

\* Messages that the registration thread has not dealt with.
Unvisited == ToSet(toService[current]) \cup ({message} \ {None})

\* Everything that bears a number was sent under it.
Senders ==
  /\ \A m \in Unvisited : m.type # "REGISTRATION" => Announced(m.id)
  /\ \A i \in DOMAIN s2cQueues : Announced(i)
  /\ \A request \in runqueue : Announced(request[1])
  /\ \A w \in Workers : workerPc[w] # "idle" => Announced(job[w][1])

IInv == TypeOK /\ Stages /\ Begun /\ Numbers /\ Holders /\ Names /\ Senders
-----------------------------------------------------------------------------
(* Sequences *)

\* What appending an element does to the set of elements, and when it repeats none.
LEMMA Appended ==
  ASSUME NEW E, NEW s \in Seq(E), NEW e \in E, NEW M
  PROVE  /\ Append(s, e) \in Seq(E)
         /\ ToSet(Append(s, e)) = ToSet(s) \cup {e}
         /\ OnlyOnce(s, M) /\ (e \in M => e \notin ToSet(s)) => OnlyOnce(Append(s, e), M)
  <1>1. /\ DOMAIN s = 1..Len(s) /\ Len(s) \in Nat
        /\ Append(s, e) \in Seq(E) /\ DOMAIN Append(s, e) = 1..(Len(s) + 1)
    BY LenProperties, AppendProperties
  <1>2. /\ \A i \in 1..Len(s) : Append(s, e)[i] = s[i]
        /\ Append(s, e)[Len(s) + 1] = e
    BY AppendProperties
  <1>3. DOMAIN Append(s, e) = DOMAIN s \cup {Len(s) + 1}
    BY <1>1
  <1>4. ToSet(Append(s, e)) = ToSet(s) \cup {e}
    BY <1>1, <1>2, <1>3 DEF ToSet
  <1>5. ASSUME OnlyOnce(s, M), e \in M => e \notin ToSet(s) PROVE OnlyOnce(Append(s, e), M)
    BY <1>1, <1>2, <1>3, <1>5 DEF OnlyOnce, ToSet
  <1> QED
    BY <1>1, <1>4, <1>5

\* The same of taking the first element away.
LEMMA Taken ==
  ASSUME NEW E, NEW s \in Seq(E), s # << >>, NEW M
  PROVE  /\ Head(s) \in E /\ Tail(s) \in Seq(E)
         /\ Head(s) \in ToSet(s)
         /\ ToSet(s) = ToSet(Tail(s)) \cup {Head(s)}
         /\ OnlyOnce(s, M) =>
              OnlyOnce(Tail(s), M) /\ (Head(s) \in M => Head(s) \notin ToSet(Tail(s)))
  <1>1. /\ DOMAIN s = 1..Len(s) /\ Len(s) \in Nat \ {0}
        /\ Head(s) = s[1] /\ Head(s) \in E
        /\ Tail(s) \in Seq(E) /\ DOMAIN Tail(s) = 1..(Len(s) - 1)
    BY LenProperties, HeadTailProperties, EmptySeq
  <1>2. \A i \in 1..(Len(s) - 1) : Tail(s)[i] = s[i + 1]
    BY HeadTailProperties
  <1>3. Head(s) \in ToSet(s) /\ ToSet(Tail(s)) \subseteq ToSet(s)
    BY <1>1, <1>2 DEF ToSet
  <1>4. ASSUME NEW i \in DOMAIN s PROVE s[i] \in ToSet(Tail(s)) \cup {Head(s)}
    <2>1. CASE i = 1
      BY <1>1, <2>1
    <2>2. CASE i > 1
      <3>1. i - 1 \in DOMAIN Tail(s) /\ Tail(s)[i - 1] = s[i]
        BY <1>1, <1>2, <2>2
      <3> QED
        BY <3>1 DEF ToSet
    <2> QED
      BY <1>1, <2>1, <2>2
  <1>5. ASSUME OnlyOnce(s, M)
        PROVE  OnlyOnce(Tail(s), M) /\ (Head(s) \in M => Head(s) \notin ToSet(Tail(s)))
    BY <1>1, <1>2, <1>5 DEF OnlyOnce, ToSet
  <1> QED
    BY <1>1, <1>3, <1>4, <1>5 DEF ToSet

\* The elements of a sequence without its first one.
LEMMA Shifted ==
  ASSUME NEW E, NEW s \in Seq(E), s # << >>
  PROVE  /\ Len(s) \in Nat \ {0} /\ Head(s) = s[1]
         /\ DOMAIN Tail(s) = 1..(Len(s) - 1) /\ Len(Tail(s)) = Len(s) - 1
         /\ \A i \in 1..(Len(s) - 1) : Tail(s)[i] = s[i + 1]
  BY LenProperties, HeadTailProperties, EmptySeq

\* The empty sequence has no elements.
LEMMA Nothing == ToSet(<< >>) = {} /\ \A M : OnlyOnce(<< >>, M)
  <1>1. DOMAIN << >> = {}
    OBVIOUS
  <1> QED
    BY <1>1 DEF ToSet, OnlyOnce
-----------------------------------------------------------------------------
(* Types *)
\* What is there at the start has its type.
LEMMA TypeInit == Init => TypeOK
  <1> SUFFICES ASSUME Init PROVE TypeOK
    OBVIOUS
  <1>1. 1 \in Runs /\ << >> \in Seq(Message) /\ << >> \in Seq(Nat)
    BY RegistrationAssumption, EmptySeq DEF Runs
  <1>2. DOMAIN << >> = {} /\ << >> \in [{} -> Procs]
    OBVIOUS
  <1>3. got \in [Procs -> SUBSET Nat] /\ \A p \in Procs : got[p] \subseteq 0..(asked[p] - 1)
    BY DEF Init
  <1> QED
    BY <1>1, <1>2, <1>3 DEF Init, TypeOK, Pcs, Startups, Faults, Ids

\* Runs are numbered from 1, and None is no run.
LEMMA RunsNumbered ==
  /\ Runs \subseteq Nat \ {0} /\ 1 \in Runs /\ \A n \in Runs : n < MaxRuns => n + 1 \in Runs
  /\ None \notin Runs
  BY RegistrationAssumption DEF Runs

\* A map with one key more or less.
LEMMA MapTypes ==
  ASSUME NEW map, DOMAIN map \subseteq Nat, map \in [DOMAIN map -> Procs],
         NEW i \in Nat, NEW p \in Procs
  PROVE  /\ DOMAIN Unbind(map, i) \subseteq Nat
         /\ Unbind(map, i) \in [DOMAIN Unbind(map, i) -> Procs]
         /\ DOMAIN Bind(map, i, p) \subseteq Nat
         /\ Bind(map, i, p) \in [DOMAIN Bind(map, i, p) -> Procs]
  BY DEF Bind, Unbind

\* A map with one key less, and one with one key more.
LEMMA MapValues ==
  ASSUME NEW map, NEW i
  PROVE  /\ DOMAIN Unbind(map, i) = DOMAIN map \ {i}
         /\ \A j \in DOMAIN map \ {i} : Unbind(map, i)[j] = map[j]
         /\ \A x : /\ DOMAIN Bind(map, i, x) = DOMAIN map \cup {i}
                   /\ Bind(map, i, x)[i] = x
                   /\ \A j \in DOMAIN map \ {i} : Bind(map, i, x)[j] = map[j]
  BY DEF Bind, Unbind

\* A process that has its number, or is about to use it.
LEMMA Numbered ==
  ASSUME TypeOK, Stages, NEW p \in Procs, pc[p] \notin Idle \cup {"dead"}
  PROVE  /\ clientId[p] \in Nat /\ out[p] \in Runs /\ in[p] \in Runs
         /\ toService[out[p]] \in Seq(Message) /\ toClients[in[p]] \in Seq(Nat)
  <1>1. clientId[p] # None /\ out[p] \in Runs /\ in[p] \in Runs
    BY DEF Stages, Stage
  <1> QED
    BY <1>1 DEF TypeOK, Ids

\* What mq_send to the registration queue does.
LEMMA TypeRegister ==
  ASSUME TypeOK, NEW p \in Procs, NEW msg \in Message, out[p] \in Runs, Register(p, msg)
  PROVE  /\ toService' \in [Runs -> Seq(Message)] /\ toClients' = toClients
         /\ toService'[out[p]] = Append(toService[out[p]], msg)
         /\ ToSet(toService'[out[p]]) = ToSet(toService[out[p]]) \cup {msg}
         /\ \A n \in Runs \ {out[p]} : toService'[n] = toService[n]
  <1>1. toService[out[p]] \in Seq(Message)
    BY DEF TypeOK
  <1>2. /\ Append(toService[out[p]], msg) \in Seq(Message)
        /\ ToSet(Append(toService[out[p]], msg)) = ToSet(toService[out[p]]) \cup {msg}
    BY <1>1, Appended
  <1> QED
    BY <1>2 DEF Register, TypeOK

\* What taking a number out of a registration queue does.
LEMMA TypeReceive ==
  ASSUME TypeOK, Stages, NEW p \in Procs, ReceiveId(p)
  PROVE  /\ in[p] \in Runs /\ out[p] \in Runs /\ clientId[p] = None
         /\ toClients[in[p]] \in Seq(Nat) /\ toClients[in[p]] # << >>
         /\ clientId'[p] = Head(toClients[in[p]]) /\ clientId'[p] \in Nat
         /\ clientId'[p] \in ToSet(toClients[in[p]])
         /\ clientId' \in [Procs -> Ids]
         /\ \A q \in Procs \ {p} : clientId'[q] = clientId[q]
         /\ toClients' \in [Runs -> Seq(Nat)]
         /\ toClients'[in[p]] = Tail(toClients[in[p]])
         /\ \A n \in Runs \ {in[p]} : toClients'[n] = toClients[n]
         /\ disputed \subseteq disputed' /\ disputed' \subseteq disputed \cup {clientId'[p]}
         /\ disputed' \subseteq Nat
  <1>1. pc[p] = "await" /\ toClients[in[p]] # << >> /\ in[p] \in Runs /\ out[p] \in Runs
        /\ clientId[p] = None /\ toClients[in[p]] \in Seq(Nat)
    BY DEF ReceiveId, Goto, Stages, Stage, Idle, TypeOK
  <1>2. /\ Head(toClients[in[p]]) \in Nat /\ Tail(toClients[in[p]]) \in Seq(Nat)
        /\ Head(toClients[in[p]]) \in ToSet(toClients[in[p]])
    BY <1>1, Taken
  <1>3. /\ clientId'[p] = Head(toClients[in[p]]) /\ clientId' \in [Procs -> Ids]
        /\ \A q \in Procs \ {p} : clientId'[q] = clientId[q]
    BY <1>2 DEF ReceiveId, TypeOK, Ids
  <1>4. /\ toClients' \in [Runs -> Seq(Nat)] /\ toClients'[in[p]] = Tail(toClients[in[p]])
        /\ \A n \in Runs \ {in[p]} : toClients'[n] = toClients[n]
    BY <1>1, <1>2 DEF ReceiveId, TypeOK
  <1>5. /\ disputed \subseteq disputed' /\ disputed' \subseteq disputed \cup {clientId'[p]}
        /\ disputed' \subseteq Nat
    BY <1>2, <1>3 DEF ReceiveId, TypeOK
  <1> QED
    BY <1>1, <1>2, <1>3, <1>4, <1>5

\* A client's step keeps the types.
LEMMA TypeClient ==
  ASSUME TypeOK, Stages, NEW p \in Procs, ClientStep(p) \/ ClientChoice(p)
  PROVE  TypeOK'
  <1> USE DEF Goto, Closing, Constructing, Ended
  <1> USE DEF requestQueues, registrationQueues, registrationNames, maps, workerVars, serviceVars
  <1>1. CASE OpenC2S(p)
    BY <1>1 DEF OpenC2S, TypeOK, Pcs
  <1>2. CASE OpenS2C(p)
    BY <1>2 DEF OpenS2C, TypeOK, Pcs
  <1>3. CASE SendRegistration(p)
    <2>1. out[p] \in Runs /\ [type |-> "REGISTRATION", id |-> None] \in Message
      BY <1>3 DEF SendRegistration, Stages, Stage, Message
    <2>2. toService' \in [Runs -> Seq(Message)] /\ toClients' = toClients
      BY <1>3, <2>1, TypeRegister DEF SendRegistration
    <2> QED
      BY <1>3, <2>2 DEF SendRegistration, TypeOK, Pcs
  <1>4. CASE ReceiveId(p)
    BY <1>4, TypeReceive DEF ReceiveId, TypeOK, Pcs
  <1>5. CASE SendQueueCreation(p) \/ SendQueueDeletion(p)
    <2>1. clientId[p] \in Nat /\ out[p] \in Runs
      BY <1>5, Numbered DEF SendQueueCreation, SendQueueDeletion, Idle
    <2>2. /\ [type |-> "QUEUE_CREATION", id |-> clientId[p]] \in Message
          /\ [type |-> "QUEUE_DELETION", id |-> clientId[p]] \in Message
      BY <2>1 DEF Message
    <2>3. toService' \in [Runs -> Seq(Message)] /\ toClients' = toClients
      BY <1>5, <2>1, <2>2, TypeRegister DEF SendQueueCreation, SendQueueDeletion
    <2> QED
      BY <1>5, <2>3 DEF SendQueueCreation, SendQueueDeletion, TypeOK, Pcs
  <1>6. CASE UnlinkC2S(p) \/ CreateC2S(p) \/ CloseC2S(p)
    <2>1. clientId[p] \in Nat
      BY <1>6, Numbered DEF UnlinkC2S, CreateC2S, CloseC2S, Idle
    <2>2. DOMAIN c2sOwner \subseteq Nat /\ c2sOwner \in [DOMAIN c2sOwner -> Procs]
      BY DEF TypeOK
    <2>3. \/ c2sOwner' = c2sOwner \/ c2sOwner' = Unbind(c2sOwner, clientId[p])
          \/ c2sOwner' = Bind(c2sOwner, clientId[p], p)
      BY <1>6 DEF UnlinkC2S, CreateC2S, CloseC2S
    <2>4. DOMAIN c2sOwner' \subseteq Nat /\ c2sOwner' \in [DOMAIN c2sOwner' -> Procs]
      BY <2>1, <2>2, <2>3, MapTypes
    <2> QED
      BY <1>6, <2>4 DEF UnlinkC2S, CreateC2S, CloseC2S, TypeOK, Pcs
  <1>7. CASE UnlinkS2C(p) \/ CreateS2C(p) \/ CloseS2C(p)
    <2>1. clientId[p] \in Nat
      BY <1>7, Numbered DEF UnlinkS2C, CreateS2C, CloseS2C, Idle
    <2>2. DOMAIN s2cOwner \subseteq Nat /\ s2cOwner \in [DOMAIN s2cOwner -> Procs]
      BY DEF TypeOK
    <2>3. \/ s2cOwner' = s2cOwner \/ s2cOwner' = Unbind(s2cOwner, clientId[p])
          \/ s2cOwner' = Bind(s2cOwner, clientId[p], p)
      BY <1>7 DEF UnlinkS2C, CreateS2C, CloseS2C
    <2>4. DOMAIN s2cOwner' \subseteq Nat /\ s2cOwner' \in [DOMAIN s2cOwner' -> Procs]
      BY <2>1, <2>2, <2>3, MapTypes
    <2> QED
      BY <1>7, <2>4 DEF UnlinkS2C, CreateS2C, CloseS2C, TypeOK, Pcs
  <1>8. CASE BeginRequest(p)
    <2>1. asked' \in [Procs -> Nat] /\ \A q \in Procs : asked'[q] >= asked[q]
      BY <1>8 DEF BeginRequest, TypeOK
    <2>2. \A q \in Procs : got'[q] \subseteq 0..(asked'[q] - 1)
      <3>1. \A q \in Procs : 0..(asked[q] - 1) \subseteq 0..(asked'[q] - 1)
        BY <2>1 DEF TypeOK
      <3> QED
        BY <1>8, <3>1 DEF BeginRequest, TypeOK
    <2> QED
      BY <1>8, <2>1, <2>2 DEF BeginRequest, TypeOK, Pcs
  <1>9. CASE SendRequest(p)
    <2>1. asked[p] - 1 \in Nat
      <3>1. pc[p] = "sending" /\ asked[p] \in Nat
        BY <1>9 DEF SendRequest, TypeOK
      <3>2. asked[p] > 0
        BY <3>1 DEF Stages, Stage
      <3> QED
        BY <3>1, <3>2
    <2>2. c2s' \in [Procs -> Seq(Nat)]
      BY <1>9, <2>1, AppendProperties DEF SendRequest, TypeOK
    <2> QED
      BY <1>9, <2>2 DEF SendRequest, TypeOK, Pcs
  <1>10. ASSUME NEW w \in Workers, Exchange(p, w) PROVE TypeOK'
    <2>1. /\ Head(s2c[p]) \in Nat /\ Tail(s2c[p]) \in Seq(Nat)
      BY <1>10, HeadTailProperties DEF Exchange, TypeOK
    <2>2. s2c' \in [Procs -> Seq(Nat)]
      BY <1>10, <2>1 DEF Exchange, TypeOK
    <2>3. Head(s2c[p]) \in 0..(asked[p] - 1)
      BY <1>10, <2>1 DEF Exchange, TypeOK
    <2>4. got' \in [Procs -> SUBSET Nat] /\ \A q \in Procs : got'[q] \subseteq 0..(asked'[q] - 1)
      BY <1>10, <2>1, <2>3 DEF Exchange, TypeOK
    <2> QED
      BY <1>10, <2>2, <2>4 DEF Exchange, TypeOK
  <1>11. CASE RefuseResponse(p)
    <2>1. s2c' \in [Procs -> Seq(Nat)]
      BY <1>11, HeadTailProperties DEF RefuseResponse, TypeOK
    <2> QED
      BY <1>11, <2>1 DEF RefuseResponse, TypeOK, Pcs
  <1>12. CASE Die(p)
    BY <1>12 DEF Die, TypeOK, Pcs
  <1> QED
    BY <1>1, <1>2, <1>3, <1>4, <1>5, <1>6, <1>7, <1>8, <1>9, <1>10, <1>11, <1>12
    DEF ClientStep, ClientChoice

\* Who is in a map that the registration thread changes.
LEMMA TypeMaps ==
  ASSUME TypeOK, RegistrationStep
  PROVE  /\ c2sQueues' \in [DOMAIN c2sQueues' -> Procs]
         /\ DOMAIN c2sQueues' \subseteq DOMAIN s2cQueues'
         /\ s2cQueues' \in [DOMAIN s2cQueues' -> Procs] /\ DOMAIN s2cQueues' \subseteq Nat
  <1>1. /\ c2sQueues \in [DOMAIN c2sQueues -> Procs] /\ DOMAIN c2sQueues \subseteq DOMAIN s2cQueues
        /\ s2cQueues \in [DOMAIN s2cQueues -> Procs] /\ DOMAIN s2cQueues \subseteq Nat
        /\ DOMAIN c2sQueues \subseteq Nat
    BY DEF TypeOK
  <1>2. Visiting("QUEUE_CREATION") \/ Visiting("QUEUE_DELETION") => message.id \in Nat
    BY DEF Visiting, TypeOK, Message
  <1>3. CASE VisitQueueCreation
    <2>1. CASE UNCHANGED maps
      BY <1>1, <2>1 DEF maps
    <2>2. CASE ~UNCHANGED maps
      <3>1. /\ message.id \in Nat /\ s2cOwner[message.id] \in Procs /\ c2sQueues' = c2sQueues
            /\ s2cQueues' = Bind(s2cQueues, message.id, s2cOwner[message.id])
        BY <1>2, <1>3, <2>2 DEF VisitQueueCreation, Throw, maps, TypeOK
      <3>2. /\ s2cQueues' \in [DOMAIN s2cQueues' -> Procs] /\ DOMAIN s2cQueues' \subseteq Nat
        BY <1>1, <3>1, MapTypes
      <3>3. DOMAIN s2cQueues' = DOMAIN s2cQueues \cup {message.id}
        BY <3>1, MapValues
      <3> QED
        BY <1>1, <3>1, <3>2, <3>3
    <2> QED
      BY <2>1, <2>2
  <1>4. CASE OpenRequestQueue
    <2>1. CASE UNCHANGED maps
      BY <1>1, <2>1 DEF maps
    <2>2. CASE ~UNCHANGED maps
      <3>1. /\ message.id \in Nat /\ c2sOwner[message.id] \in Procs /\ s2cQueues' = s2cQueues
            /\ message.id \in DOMAIN s2cQueues
            /\ c2sQueues' = Bind(c2sQueues, message.id, c2sOwner[message.id])
        BY <1>2, <1>4, <2>2 DEF OpenRequestQueue, HalfRegistered, Throw, maps, TypeOK
      <3>2. /\ c2sQueues' \in [DOMAIN c2sQueues' -> Procs]
        BY <1>1, <3>1, MapTypes
      <3>3. DOMAIN c2sQueues' = DOMAIN c2sQueues \cup {message.id}
        BY <3>1, MapValues
      <3> QED
        BY <1>1, <3>1, <3>2, <3>3
    <2> QED
      BY <2>1, <2>2
  <1>5. CASE VisitQueueDeletion
    <2>1. CASE UNCHANGED maps
      BY <1>1, <2>1 DEF maps
    <2>2. CASE ~UNCHANGED maps
      <3>1. /\ message.id \in Nat
            /\ s2cQueues' = Unbind(s2cQueues, message.id)
            /\ c2sQueues' = Unbind(c2sQueues, message.id)
        BY <1>2, <1>5, <2>2 DEF VisitQueueDeletion, Throw, maps
      <3>2. /\ c2sQueues' \in [DOMAIN c2sQueues' -> Procs]
            /\ s2cQueues' \in [DOMAIN s2cQueues' -> Procs] /\ DOMAIN s2cQueues' \subseteq Nat
        BY <1>1, <3>1 DEF Unbind
      <3>3. /\ DOMAIN c2sQueues' = DOMAIN c2sQueues \ {message.id}
            /\ DOMAIN s2cQueues' = DOMAIN s2cQueues \ {message.id}
        BY <3>1, MapValues
      <3> QED
        BY <1>1, <3>2, <3>3
    <2> QED
      BY <2>1, <2>2
  <1>6. CASE ~VisitQueueCreation /\ ~OpenRequestQueue /\ ~VisitQueueDeletion
    <2>1. UNCHANGED <<c2sQueues, s2cQueues>>
      BY <1>6 DEF RegistrationStep, CreateRegistrationQueues, ReceiveRegistration,
                  VisitRegistration, FinishReg, Dispatch, maps
    <2> QED
      BY <1>1, <2>1
  <1> QED
    BY <1>3, <1>4, <1>5, <1>6

\* A step of the registration thread keeps the types.
LEMMA TypeRegistration ==
  ASSUME TypeOK, RegistrationStep
  PROVE  TypeOK'
  <1> USE DEF othersVars, clientVars, requestQueues, registrationQueues, registrationNames, maps,
              workerVars
  <1>1. /\ c2sQueues' \in [DOMAIN c2sQueues' -> Procs]
        /\ DOMAIN c2sQueues' \subseteq DOMAIN s2cQueues'
        /\ s2cQueues' \in [DOMAIN s2cQueues' -> Procs] /\ DOMAIN s2cQueues' \subseteq Nat
    BY TypeMaps
  <1>2. CASE CreateRegistrationQueues
    BY <1>1, <1>2 DEF CreateRegistrationQueues, TypeOK, Startups
  <1>3. CASE ReceiveRegistration
    <2>1. Head(toService[current]) \in Message /\ Tail(toService[current]) \in Seq(Message)
      BY <1>3, HeadTailProperties DEF ReceiveRegistration, TypeOK
    <2>2. toService' \in [Runs -> Seq(Message)] /\ message' \in Message
      BY <1>3, <2>1 DEF ReceiveRegistration, TypeOK
    <2> QED
      BY <1>1, <1>3, <2>2 DEF ReceiveRegistration, TypeOK
  <1>4. CASE VisitRegistration
    <2>1. Append(toClients[current], nextClientId) \in Seq(Nat)
      BY AppendProperties DEF TypeOK
    <2>2. toClients' \in [Runs -> Seq(Nat)] /\ nextClientId' \in Nat
      BY <1>4, <2>1 DEF VisitRegistration, TypeOK
    <2> QED
      BY <1>1, <1>4, <2>2 DEF VisitRegistration, TypeOK
  <1>5. CASE VisitQueueCreation \/ OpenRequestQueue
    <2>1. runqueue' = runqueue /\ message' \in {message, None} /\ fault' \in Faults
      BY <1>5 DEF VisitQueueCreation, OpenRequestQueue, Throw, TypeOK, Faults
    <2> QED
      BY <1>1, <1>5, <2>1 DEF VisitQueueCreation, OpenRequestQueue, TypeOK
  <1>6. CASE VisitQueueDeletion
    <2>1. runqueue' \subseteq runqueue /\ message' \in {message, None} /\ fault' \in Faults
      BY <1>6 DEF VisitQueueDeletion, Throw, TypeOK, Faults
    <2> QED
      BY <1>1, <1>6, <2>1 DEF VisitQueueDeletion, TypeOK
  <1>7. CASE FinishReg
    BY <1>1, <1>7 DEF FinishReg, TypeOK
  <1>8. CASE Dispatch
    <2>1. c2s' \in [Procs -> Seq(Nat)]
      BY <1>8, EmptySeq DEF Dispatch, TypeOK
    <2>2. ASSUME NEW i \in Pending PROVE i \in Nat /\ ToSet(c2s[c2sQueues[i]]) \subseteq Nat
      <3>1. i \in Nat /\ c2s[c2sQueues[i]] \in Seq(Nat)
        BY DEF Pending, TypeOK
      <3> QED
        BY <3>1, LenProperties DEF ToSet
    <2>3. runqueue' \subseteq Nat \X Nat
      BY <1>8, <2>2 DEF Dispatch, TypeOK
    <2> QED
      BY <1>1, <1>8, <2>1, <2>3 DEF Dispatch, TypeOK
  <1> QED
    BY <1>2, <1>3, <1>4, <1>5, <1>6, <1>7, <1>8 DEF RegistrationStep

\* So do a step of a worker and one of the process.
LEMMA TypeWorker ==
  ASSUME TypeOK, Stages, NEW w \in Workers, WorkerStep(w) \/ WriteRacing(w) \/ SendToClosed(w)
  PROVE  TypeOK'
  <1> USE DEF nonWorkerVars, clientVars, registrationQueues, registrationNames, maps, workerVars
  <1>1. CASE \E request \in runqueue : Schedule(w, request)
    BY <1>1 DEF Schedule, TypeOK
  <1>2. CASE WriteBlocking(w) \/ WriteRacing(w) \/ SendToClosed(w)
    BY <1>2 DEF WriteBlocking, WriteRacing, SendToClosed, TypeOK, Faults
  <1>3. CASE SendResponse(w)
    <2>1. job[w] \in Nat \X Nat
      BY <1>3 DEF SendResponse, Stages
    <2>2. s2c' \in [Procs -> Seq(Nat)]
      BY <1>3, <2>1, AppendProperties DEF SendResponse, TypeOK
    <2> QED
      BY <1>3, <2>2 DEF SendResponse, TypeOK
  <1> QED
    BY <1>1, <1>2, <1>3 DEF WorkerStep

\* A service that dies or starts again keeps the types.
LEMMA TypeProcess ==
  ASSUME TypeOK, Kill \/ Restart
  PROVE  TypeOK'
  <1>1. current' \in Runs
    <2>1. current \in Runs
      BY DEF TypeOK
    <2>2. current' = current \/ (current < MaxRuns /\ current' = current + 1)
      BY DEF Kill, Restart
    <2> QED
      BY <2>1, <2>2, RunsNumbered
  <1>2. << >> \in [{} -> Procs] /\ DOMAIN << >> = {}
    OBVIOUS
  <1>3. Blank /\ startup' \in Startups /\ fault' \in Faults
    BY DEF Kill, Restart, TypeOK, Startups, Faults
  <1>4. /\ c2sQueues' \in [DOMAIN c2sQueues' -> Procs]
        /\ DOMAIN c2sQueues' \subseteq DOMAIN s2cQueues'
        /\ s2cQueues' \in [DOMAIN s2cQueues' -> Procs] /\ DOMAIN s2cQueues' \subseteq Nat
    BY <1>2, <1>3 DEF Blank
  <1>5. /\ nextClientId' \in Nat /\ dispatching' \in BOOLEAN /\ message' \in Message \cup {None}
        /\ runqueue' \subseteq Nat \X Nat
        /\ workerPc' \in [Workers -> {"idle", "write", "send", "exchange"}]
        /\ job' \in [Workers -> (Nat \X Nat) \cup {None}]
    BY <1>3 DEF Blank
  <1> QED
    BY <1>1, <1>3, <1>4, <1>5
    DEF Blank, TypeOK, clientVars, registrationQueues, requestQueues, registrationNames
-----------------------------------------------------------------------------
(* What a step leaves alone *)

\* A step of p changes nothing of the registration thread and starts no worker.
LEMMA ClientFrame ==
  ASSUME TypeOK, NEW p \in Procs, ClientStep(p) \/ ClientChoice(p)
  PROVE  /\ UNCHANGED <<registrationNames, current, startup, nextClientId, maps, dispatching,
                        message, runqueue, fault>>
         /\ \A w \in Workers :
              workerPc'[w] # "idle" => workerPc'[w] = workerPc[w] /\ job'[w] = job[w]
  <1>1. CASE \E w \in Workers : Exchange(p, w)
    BY <1>1 DEF Exchange, TypeOK
  <1>2. CASE ~\E w \in Workers : Exchange(p, w)
    <2>1. UNCHANGED serviceVars
      BY <1>2 DEF ClientStep, ClientChoice, OpenC2S, OpenS2C, SendRegistration, ReceiveId,
                  UnlinkC2S, CreateC2S, UnlinkS2C, CreateS2C, SendQueueCreation, BeginRequest,
                  SendRequest, RefuseResponse, SendQueueDeletion, CloseC2S, CloseS2C, Die
    <2> QED
      BY <2>1 DEF serviceVars, workerVars
  <1> QED
    BY <1>1, <1>2

\* Nor anything of another client, nor p's number and queues once it has them.
LEMMA OthersFrame ==
  ASSUME TypeOK, NEW p \in Procs, ClientStep(p) \/ ClientChoice(p), NEW q \in Procs, q # p
  PROVE  /\ pc'[q] = pc[q] /\ out'[q] = out[q] /\ in'[q] = in[q] /\ clientId'[q] = clientId[q]
         /\ asked'[q] = asked[q] /\ got'[q] = got[q] /\ c2s'[q] = c2s[q] /\ s2c'[q] = s2c[q]
  <1> USE DEF Goto, requestQueues
  <1>1. CASE OpenC2S(p) \/ OpenS2C(p)
    BY <1>1 DEF OpenC2S, OpenS2C, TypeOK
  <1>2. CASE SendRegistration(p) \/ SendQueueCreation(p) \/ SendQueueDeletion(p)
    BY <1>2 DEF SendRegistration, SendQueueCreation, SendQueueDeletion, TypeOK
  <1>3. CASE ReceiveId(p)
    BY <1>3 DEF ReceiveId, TypeOK
  <1>4. CASE UnlinkC2S(p) \/ CreateC2S(p) \/ CloseC2S(p)
    BY <1>4 DEF UnlinkC2S, CreateC2S, CloseC2S, TypeOK
  <1>5. CASE UnlinkS2C(p) \/ CreateS2C(p) \/ CloseS2C(p)
    BY <1>5 DEF UnlinkS2C, CreateS2C, CloseS2C, TypeOK
  <1>6. CASE BeginRequest(p) \/ Die(p)
    BY <1>6 DEF BeginRequest, Die, TypeOK
  <1>7. CASE SendRequest(p)
    BY <1>7 DEF SendRequest, TypeOK
  <1>8. CASE RefuseResponse(p)
    BY <1>8 DEF RefuseResponse, TypeOK
  <1>9. CASE \E w \in Workers : Exchange(p, w)
    BY <1>9 DEF Exchange, TypeOK
  <1> QED
    BY <1>1, <1>2, <1>3, <1>4, <1>5, <1>6, <1>7, <1>8, <1>9 DEF ClientStep, ClientChoice

\* Only the step that is for it changes what a client has opened, or its number.
LEMMA OwnFrame ==
  ASSUME NEW p \in Procs, ClientStep(p) \/ ClientChoice(p)
  PROVE  /\ pc[p] \notin Ended
         /\ ~OpenC2S(p) => out' = out
         /\ ~OpenS2C(p) => in' = in
         /\ ~ReceiveId(p) => clientId' = clientId /\ toClients' = toClients /\ disputed' = disputed
  BY DEF ClientStep, ClientChoice, OpenC2S, OpenS2C, SendRegistration, ReceiveId, UnlinkC2S,
         CreateC2S, UnlinkS2C, CreateS2C, SendQueueCreation, BeginRequest, SendRequest,
         RefuseResponse, Exchange, SendQueueDeletion, CloseC2S, CloseS2C, Die, Goto, Register,
         registrationQueues, Ended

\* A step of the registration thread changes nothing of a client but what is in
\* its request queue, and nothing of a worker.
LEMMA RegistrationFrame ==
  ASSUME RegistrationStep
  PROVE  /\ Alive
         /\ UNCHANGED <<clientVars, c2sOwner, s2cOwner, s2c, current, workerVars>>
  BY DEF RegistrationStep, CreateRegistrationQueues, ReceiveRegistration, VisitRegistration,
         VisitQueueCreation, OpenRequestQueue, VisitQueueDeletion, FinishReg, Dispatch, othersVars,
         requestQueues, Up

\* A step of a worker changes nothing of a client's but its response queue, of
\* the registration thread's or of another worker's.
LEMMA WorkerFrame ==
  ASSUME TypeOK, NEW w \in Workers, WorkerStep(w) \/ WriteRacing(w) \/ SendToClosed(w)
  PROVE  /\ Alive
         /\ UNCHANGED nonWorkerVars
         /\ runqueue' \subseteq runqueue
         /\ \A v \in Workers \ {w} : UNCHANGED <<workerPc[v], job[v]>>
         /\ job'[w] = job[w] \/ job'[w] \in runqueue
         /\ workerPc[w] = "idle" /\ workerPc'[w] # "idle" => job'[w] \in runqueue
  <1>1. CASE \E request \in runqueue : Schedule(w, request)
    BY <1>1 DEF Schedule, TypeOK, Up
  <1>2. CASE WriteBlocking(w) \/ SendResponse(w) \/ WriteRacing(w) \/ SendToClosed(w)
    BY <1>2 DEF WriteBlocking, SendResponse, WriteRacing, SendToClosed, workerVars, TypeOK, Up
  <1> QED
    BY <1>1, <1>2 DEF WorkerStep

\* The process only forgets.
LEMMA ProcessFrame ==
  ASSUME TypeOK, Kill \/ Restart
  PROVE  /\ UNCHANGED <<clientVars, registrationQueues, requestQueues, registrationNames>>
         /\ c2sQueues' = << >> /\ s2cQueues' = << >> /\ message' = None /\ runqueue' = {}
         /\ \A w \in Workers : workerPc'[w] = "idle"
         /\ nextClientId' = 0
         /\ \/ current' = current /\ fault' # "none"
            \/ ~Alive /\ current' = current + 1 /\ current' \in Runs /\ current \in Runs
  <1>1. current \in Runs
    BY DEF TypeOK
  <1>2. Kill => current' = current /\ fault' # "none"
    BY DEF Kill
  <1>3. Restart => ~Alive /\ current' = current + 1 /\ current' \in Runs
    BY <1>1, RunsNumbered DEF Restart
  <1>4. Blank
    BY DEF Kill, Restart
  <1> QED
    BY <1>1, <1>2, <1>3, <1>4 DEF Blank
-----------------------------------------------------------------------------
(* Stages *)

\* A Servicer has its queues once it has opened them, and a number once it has
\* received one.
LEMMA StagesClient ==
  ASSUME TypeOK, Stages, NEW p \in Procs, ClientStep(p) \/ ClientChoice(p)
  PROVE  Stages'
  <1>1. ASSUME NEW w \in Workers, workerPc'[w] # "idle" PROVE job'[w] \in Nat \X Nat
    BY <1>1, ClientFrame DEF Stages
  <1>2. \A i \in DOMAIN s2cQueues' \ DOMAIN c2sQueues' :
          Visiting("QUEUE_CREATION")' /\ message'.id = i
    BY ClientFrame DEF Stages, Visiting, maps
  <1>3. ASSUME NEW q \in Procs, q # p PROVE Stage(q)'
    <2>1. /\ pc'[q] = pc[q] /\ out'[q] = out[q] /\ in'[q] = in[q] /\ clientId'[q] = clientId[q]
          /\ asked'[q] = asked[q]
      BY <1>3, OthersFrame
    <2>2. Stage(q)
      BY DEF Stages
    <2> QED
      BY <2>1, <2>2 DEF Stage
  <1>4. Stage(p)'
    <2> USE DEF Goto, Register, Stage, Idle, Ended, Closing, Constructing
    <2>1. Stage(p)
      BY DEF Stages
    <2>2. CASE OpenC2S(p)
      <3>1. c2sName \in Runs \cup {None}
        BY DEF TypeOK
      <3>2. /\ pc[p] = "new" /\ pc'[p] \in {"open s2c", "dead"} /\ out'[p] = c2sName
            /\ pc'[p] = "open s2c" => c2sName # None
            /\ UNCHANGED <<in, clientId, asked>>
        BY <2>2 DEF OpenC2S, TypeOK
      <3> QED
        BY <2>1, <3>1, <3>2
    <2>3. CASE OpenS2C(p)
      <3>1. s2cName \in Runs \cup {None}
        BY DEF TypeOK
      <3>2. /\ pc[p] = "open s2c" /\ pc'[p] \in {"register", "dead"} /\ in'[p] = s2cName
            /\ pc'[p] = "register" => s2cName # None
            /\ UNCHANGED <<out, clientId, asked>>
        BY <2>3 DEF OpenS2C, TypeOK
      <3> QED
        BY <2>1, <3>1, <3>2
    <2>4. CASE SendRegistration(p)
      BY <2>1, <2>4 DEF SendRegistration, TypeOK
    <2>5. CASE ReceiveId(p)
      <3>1. clientId'[p] \in Nat
        BY <2>5, TypeReceive
      <3>2. clientId'[p] # None
        BY <3>1, RegistrationAssumption
      <3>3. pc[p] = "await" /\ pc'[p] = "unlink c2s" /\ UNCHANGED <<out, in, asked>>
        BY <2>5 DEF ReceiveId, TypeOK
      <3> QED
        BY <2>1, <3>2, <3>3
    <2>6. CASE SendQueueCreation(p) \/ SendQueueDeletion(p)
      BY <2>1, <2>6 DEF SendQueueCreation, SendQueueDeletion, TypeOK
    <2>7. CASE UnlinkC2S(p) \/ CreateC2S(p) \/ CloseC2S(p)
      BY <2>1, <2>7 DEF UnlinkC2S, CreateC2S, CloseC2S, TypeOK
    <2>8. CASE UnlinkS2C(p) \/ CreateS2C(p) \/ CloseS2C(p)
      BY <2>1, <2>8 DEF UnlinkS2C, CreateS2C, CloseS2C, TypeOK
    <2>9. CASE BeginRequest(p)
      <3>1. /\ pc[p] = "up" /\ pc'[p] = "sending" /\ asked'[p] = asked[p] + 1 /\ asked[p] \in Nat
            /\ asked[p] < MaxRequests[p] /\ MaxRequests[p] \in Nat
            /\ UNCHANGED <<out, in, clientId>>
        BY <2>9, RegistrationAssumption DEF BeginRequest, TypeOK
      <3> QED
        BY <2>1, <3>1
    <2>10. CASE SendRequest(p) \/ RefuseResponse(p) \/ Die(p)
      <3>1. /\ pc[p] # "new" /\ UNCHANGED <<out, in, clientId, asked>>
            /\ (pc[p] = "sending" /\ pc'[p] = "up") \/ pc'[p] = "dead"
        BY <2>10 DEF SendRequest, RefuseResponse, Die, TypeOK
      <3> QED
        BY <2>1, <3>1
    <2>11. CASE \E w \in Workers : Exchange(p, w)
      BY <2>1, <2>11 DEF Exchange
    <2> QED
      BY <2>2, <2>3, <2>4, <2>5, <2>6, <2>7, <2>8, <2>9, <2>10, <2>11 DEF ClientStep, ClientChoice
  <1> QED
    BY <1>1, <1>2, <1>3, <1>4 DEF Stages

\* Between the two openings the registration thread visits the creation.
LEMMA StagesRegistration ==
  ASSUME TypeOK, Stages, RegistrationStep
  PROVE  Stages'
  <1>1. UNCHANGED <<clientVars, workerVars>>
    BY RegistrationFrame
  <1>2. ASSUME NEW i \in DOMAIN s2cQueues' \ DOMAIN c2sQueues'
        PROVE  Visiting("QUEUE_CREATION")' /\ message'.id = i
    <2>1. CASE VisitQueueCreation
      <3>1. CASE UNCHANGED maps
        <4>1. message' = message /\ UNCHANGED <<c2sQueues, s2cQueues>>
          <5>1. CASE Throw("already registered") \/ Throw("failed to open message queue")
            BY <5>1 DEF Throw, maps
          <5>2. CASE message' = message
            BY <3>1, <5>2 DEF maps
          <5> QED
            BY <2>1, <5>1, <5>2 DEF VisitQueueCreation
        <4> QED
          BY <1>2, <4>1 DEF Stages, Visiting
      <3>2. CASE ~UNCHANGED maps
        <4>1. /\ Visiting("QUEUE_CREATION") /\ ~HalfRegistered(message.id) /\ message' = message
              /\ s2cQueues' = Bind(s2cQueues, message.id, s2cOwner[message.id])
              /\ c2sQueues' = c2sQueues
          BY <2>1, <3>2 DEF VisitQueueCreation, Throw, maps
        <4>2. DOMAIN s2cQueues' = DOMAIN s2cQueues \cup {message.id}
          BY <4>1 DEF Bind
        <4> QED
          BY <1>2, <4>1, <4>2 DEF Stages, Visiting
      <3> QED
        BY <3>1, <3>2
    <2>2. CASE OpenRequestQueue
      <3>1. CASE UNCHANGED maps
        <4>1. UNCHANGED <<c2sQueues, s2cQueues>> /\ HalfRegistered(message.id)
          BY <2>2, <3>1 DEF OpenRequestQueue, maps
        <4>2. message' = message
          <5>1. CASE Throw("failed to open message queue")
            BY <5>1 DEF Throw
          <5>2. CASE c2sQueues' = Bind(c2sQueues, message.id, c2sOwner[message.id])
            <6>1. message.id \in DOMAIN c2sQueues'
              BY <5>2 DEF Bind
            <6> QED
              BY <4>1, <6>1 DEF HalfRegistered
          <5> QED
            BY <2>2, <5>1, <5>2 DEF OpenRequestQueue
        <4> QED
          BY <1>2, <4>1, <4>2 DEF Stages, Visiting
      <3>2. CASE ~UNCHANGED maps
        <4>1. /\ s2cQueues' = s2cQueues
              /\ c2sQueues' = Bind(c2sQueues, message.id, c2sOwner[message.id])
          BY <2>2, <3>2 DEF OpenRequestQueue, Throw, maps
        <4>2. DOMAIN c2sQueues' = DOMAIN c2sQueues \cup {message.id}
          BY <4>1 DEF Bind
        <4> QED
          BY <1>2, <4>1, <4>2 DEF Stages
      <3> QED
        BY <3>1, <3>2
    <2>3. CASE VisitQueueDeletion
      BY <1>2, <2>3 DEF VisitQueueDeletion, Throw, Stages, Visiting, maps, Unbind
    <2>4. CASE ~VisitQueueCreation /\ ~OpenRequestQueue /\ ~VisitQueueDeletion
      <3>1. /\ UNCHANGED <<c2sQueues, s2cQueues>>
            /\ message # None => message' = message \/ VisitRegistration
        BY <2>4 DEF RegistrationStep, CreateRegistrationQueues, ReceiveRegistration, FinishReg,
                    Dispatch, VisitRegistration, maps
      <3>2. VisitRegistration => ~Visiting("QUEUE_CREATION")
        BY DEF VisitRegistration, Visiting
      <3> QED
        BY <1>2, <3>1, <3>2 DEF Stages, Visiting
    <2> QED
      BY <2>1, <2>2, <2>3, <2>4
  <1> QED
    BY <1>1, <1>2 DEF Stages, Stage, clientVars, workerVars

\* A worker that leaves the idle state has taken a request.
LEMMA StagesWorker ==
  ASSUME TypeOK, Stages, NEW w \in Workers, WorkerStep(w) \/ WriteRacing(w) \/ SendToClosed(w)
  PROVE  Stages'
  <1>1. UNCHANGED nonWorkerVars
    BY WorkerFrame
  <1>2. ASSUME NEW v \in Workers, workerPc'[v] # "idle" PROVE job'[v] \in Nat \X Nat
    <2>1. runqueue \subseteq Nat \X Nat
      BY DEF TypeOK
    <2> QED
      BY <1>2, <2>1, WorkerFrame DEF Stages
  <1> QED
    BY <1>1, <1>2 DEF Stages, Stage, nonWorkerVars, clientVars, maps, Visiting

\* A service that dies or starts again leaves the clients where they are.
LEMMA StagesProcess ==
  ASSUME TypeOK, Stages, Kill \/ Restart
  PROVE  Stages'
  <1>1. \A w \in Workers : workerPc'[w] = "idle"
    BY ProcessFrame
  <1>2. DOMAIN s2cQueues' = {}
    BY ProcessFrame
  <1> QED
    BY <1>1, <1>2, ProcessFrame DEF Stages, Stage, clientVars
-----------------------------------------------------------------------------
(* Runs and numbers *)

Creation(i) == [type |-> "QUEUE_CREATION", id |-> i]
Deletion(i) == [type |-> "QUEUE_DELETION", id |-> i]

\* What p may send to the registration queue.
Sends(p, msg) ==
  \/ SendRegistration(p) /\ msg = [type |-> "REGISTRATION", id |-> None]
  \/ SendQueueCreation(p) /\ msg = Creation(clientId[p])
  \/ SendQueueDeletion(p) /\ msg = Deletion(clientId[p])

\* What a client adds to the registration queue is the message it is at.
LEMMA SentMessages ==
  ASSUME TypeOK, Stages, NEW p \in Procs, ClientStep(p) \/ ClientChoice(p), toService' # toService
  PROVE  \E msg \in Message : Sends(p, msg) /\ out[p] \in Runs /\ Register(p, msg)
  <1>1. CASE SendRegistration(p)
    <2>1. out[p] \in Runs
      BY <1>1 DEF SendRegistration, Goto, Stages, Stage
    <2> QED
      BY <1>1, <2>1 DEF SendRegistration, Sends, Message
  <1>2. CASE SendQueueCreation(p) \/ SendQueueDeletion(p)
    <2>1. clientId[p] \in Nat /\ out[p] \in Runs
      BY <1>2, Numbered DEF SendQueueCreation, SendQueueDeletion, Goto, Idle
    <2>2. Creation(clientId[p]) \in Message /\ Deletion(clientId[p]) \in Message
      BY <2>1 DEF Message, Creation, Deletion
    <2> QED
      BY <1>2, <2>1, <2>2 DEF SendQueueCreation, SendQueueDeletion, Sends, Creation, Deletion
  <1>3. CASE ~SendRegistration(p) /\ ~SendQueueCreation(p) /\ ~SendQueueDeletion(p)
    <2>1. toService' = toService
      BY <1>3 DEF ClientStep, ClientChoice, OpenC2S, OpenS2C, ReceiveId, UnlinkC2S, CreateC2S,
                  UnlinkS2C, CreateS2C, BeginRequest, SendRequest, RefuseResponse, Exchange,
                  CloseC2S, CloseS2C, Die, registrationQueues
    <2> QED
      BY <2>1
  <1> QED
    BY <1>1, <1>2, <1>3

\* Clients use the queues of runs that have begun.
LEMMA BegunClient ==
  ASSUME TypeOK, Stages, Begun, NEW p \in Procs, ClientStep(p) \/ ClientChoice(p)
  PROVE  Begun'
  <1>1. UNCHANGED <<c2sName, s2cName, current>> /\ current \in Nat
    BY ClientFrame, RunsNumbered DEF registrationNames, TypeOK
  <1>2. \A q \in Procs : out[q] \in Runs => out[q] <= current
    BY DEF Begun
  <1>3. \A q \in Procs : in[q] \in Runs => in[q] <= current
    BY DEF Begun
  <1>4. ASSUME NEW n \in Runs, n > current PROVE toService'[n] = << >>
    <2>1. CASE toService' = toService
      BY <1>4, <2>1 DEF Begun
    <2>2. CASE toService' # toService
      <3>1. PICK msg \in Message : out[p] \in Runs /\ Register(p, msg)
        BY <2>2, SentMessages
      <3>2. out[p] # n
        BY <1>1, <1>2, <1>4, <3>1, RunsNumbered
      <3> QED
        BY <1>4, <3>1, <3>2, TypeRegister DEF Begun
    <2> QED
      BY <2>1, <2>2
  <1>5. ASSUME NEW n \in Runs, n > current PROVE toClients'[n] = << >>
    <2>1. CASE ReceiveId(p)
      <3>1. in[p] \in Runs /\ in[p] # n
        BY <1>1, <1>3, <1>5, <2>1, TypeReceive, RunsNumbered
      <3> QED
        BY <1>5, <2>1, <3>1, TypeReceive DEF Begun
    <2>2. CASE ~ReceiveId(p)
      BY <1>5, <2>2, OwnFrame DEF Begun
    <2> QED
      BY <2>1, <2>2
  <1>6. ASSUME NEW q \in Procs PROVE out'[q] \in Runs => out'[q] <= current
    <2>1. CASE OpenC2S(p)
      BY <1>2, <2>1 DEF OpenC2S, Begun, TypeOK
    <2>2. CASE ~OpenC2S(p)
      BY <1>2, <2>2, OwnFrame
    <2> QED
      BY <2>1, <2>2
  <1>7. ASSUME NEW q \in Procs PROVE in'[q] \in Runs => in'[q] <= current
    <2>1. CASE OpenS2C(p)
      BY <1>3, <2>1 DEF OpenS2C, Begun, TypeOK
    <2>2. CASE ~OpenS2C(p)
      BY <1>3, <2>2, OwnFrame
    <2> QED
      BY <2>1, <2>2
  <1> QED
    BY <1>1, <1>4, <1>5, <1>6, <1>7 DEF Begun

\* So does the registration thread.
LEMMA BegunService ==
  ASSUME TypeOK, Begun, RegistrationStep
  PROVE  Begun'
  <1>1. UNCHANGED <<out, in, current>> /\ current \in Nat /\ current \in Runs
    BY RegistrationFrame, RunsNumbered DEF clientVars, TypeOK
  <1>2. \A n \in Runs \ {current} : toService'[n] = toService[n] /\ toClients'[n] = toClients[n]
    BY DEF RegistrationStep, CreateRegistrationQueues, ReceiveRegistration, VisitRegistration,
           VisitQueueCreation, OpenRequestQueue, VisitQueueDeletion, FinishReg, Dispatch,
           registrationQueues, TypeOK
  <1>3. c2sName' \in {c2sName, None, current} /\ s2cName' \in {s2cName, None, current}
    BY DEF RegistrationStep, CreateRegistrationQueues, ReceiveRegistration, VisitRegistration,
           VisitQueueCreation, OpenRequestQueue, VisitQueueDeletion, FinishReg, Dispatch,
           othersVars, registrationNames
  <1>4. \A n \in Runs : n > current => n # current
    BY <1>1, RunsNumbered
  <1>5. \A n \in Runs : n > current => toService'[n] = << >> /\ toClients'[n] = << >>
    BY <1>2, <1>4 DEF Begun
  <1>6. /\ c2sName' \in Runs => c2sName' <= current
        /\ s2cName' \in Runs => s2cName' <= current
    BY <1>1, <1>3, RunsNumbered DEF Begun
  <1> QED
    BY <1>1, <1>5, <1>6 DEF Begun

\* A run that begins finds nothing of its own.
LEMMA BegunProcess ==
  ASSUME TypeOK, Begun, Kill \/ Restart
  PROVE  /\ Begun'
         /\ current' # current => /\ \A p \in Procs : out'[p] # current' /\ in'[p] # current'
                                  /\ toService'[current'] = << >> /\ toClients'[current'] = << >>
  <1>1. UNCHANGED <<out, in, toService, toClients, c2sName, s2cName>>
    BY ProcessFrame DEF clientVars, registrationQueues, registrationNames
  <1>2. CASE current' = current
    BY <1>1, <1>2 DEF Begun
  <1>3. CASE current' # current
    <2>1. current' = current + 1 /\ current \in Nat /\ current' \in Runs
      BY <1>3, ProcessFrame, RunsNumbered
    <2>2. \A n \in Runs : /\ n \in Nat
                          /\ n > current' => n > current
                          /\ n <= current => n <= current'
                          /\ n <= current => n # current'
      BY <2>1, RunsNumbered
    <2>3. Begun'
      BY <1>1, <2>2 DEF Begun
    <2>4. toService'[current'] = << >> /\ toClients'[current'] = << >>
      BY <1>1, <2>1 DEF Begun
    <2>5. \A p \in Procs : out'[p] # current' /\ in'[p] # current'
      BY <1>1, <2>1, <2>2 DEF Begun
    <2> QED
      BY <2>3, <2>4, <2>5
  <1> QED
    BY <1>2, <1>3

\* A number that is received is in no queue any more, and no other client has it
\* of the same run.
LEMMA NumbersReceive ==
  ASSUME TypeOK, Stages, Numbers, NEW p \in Procs, ReceiveId(p)
  PROVE  Numbers' /\ \A q \in Procs : in[q] = in[p] => clientId[q] # clientId'[p]
  <1> DEFINE n == in[p]
             i == clientId'[p]
  <1>1. /\ n \in Runs /\ toClients[n] \in Seq(Nat) /\ toClients[n] # << >>
        /\ i = Head(toClients[n]) /\ i \in Nat /\ clientId[p] = None
        /\ \A q \in Procs \ {p} : clientId'[q] = clientId[q]
        /\ toClients'[n] = Tail(toClients[n])
        /\ \A m \in Runs \ {n} : toClients'[m] = toClients[m]
    BY TypeReceive
  <1>2. UNCHANGED <<in, current, nextClientId, fault>>
    BY DEF ReceiveId, serviceVars
  <1>3. OnlyOnce(toClients[n], Nat)
    BY <1>1 DEF Numbers
  <1>4. /\ i \in ToSet(toClients[n]) /\ i \notin ToSet(Tail(toClients[n]))
        /\ ToSet(Tail(toClients[n])) \subseteq ToSet(toClients[n])
        /\ OnlyOnce(Tail(toClients[n]), Nat)
    BY <1>1, <1>3, Taken
  <1> HIDE DEF n, i
  <1>5. \A m \in Runs : /\ ToSet(toClients'[m]) \subseteq ToSet(toClients[m])
                        /\ OnlyOnce(toClients'[m], Nat)
    BY <1>1, <1>4 DEF Numbers
  <1>6. n = in[p] /\ i = clientId'[p] /\ i # None
    BY <1>1, RegistrationAssumption DEF n, i
  <1>7. \A q \in Procs : in[q] = n => clientId[q] # i
    <2> SUFFICES ASSUME NEW q \in Procs, in[q] = n, clientId[q] = i PROVE FALSE
      OBVIOUS
    <2>1. clientId[q] \notin ToSet(toClients[in[q]])
      BY <1>6 DEF Numbers
    <2> QED
      BY <1>4, <2>1
  <1>8. ASSUME NEW q \in Procs, clientId'[q] # None
        PROVE  /\ clientId'[q] \notin ToSet(toClients'[in[q]])
               /\ Alive /\ in[q] = current => clientId'[q] < nextClientId
               /\ \A r \in Procs \ {q} : in[r] = in[q] => clientId'[r] # clientId'[q]
    <2>1. CASE q = p
      <3>1. Alive /\ n = current => i < nextClientId
        BY <1>4 DEF Numbers
      <3> QED
        BY <1>1, <1>4, <1>6, <1>7, <2>1, <3>1
    <2>2. CASE q # p
      <3>1. clientId'[q] = clientId[q] /\ clientId[q] # None
        BY <1>1, <1>8, <2>2
      <3>2. /\ clientId[q] \notin ToSet(toClients[in[q]])
            /\ Alive /\ in[q] = current => clientId[q] < nextClientId
            /\ \A r \in Procs \ {q} : in[r] = in[q] => clientId[r] # clientId[q]
        BY <3>1 DEF Numbers
      <3>3. in[q] \in Runs
        BY <3>1 DEF Stages, Stage
      <3>4. \A r \in Procs \ {q} : in[r] = in[q] => clientId'[r] # clientId[q]
        BY <1>1, <1>6, <1>7, <3>2
      <3> QED
        BY <1>5, <3>1, <3>2, <3>3, <3>4
    <2> QED
      BY <2>1, <2>2
  <1>9. current \in Runs
    BY DEF TypeOK
  <1>10. Alive' => \A j \in ToSet(toClients'[current]) : j < nextClientId
    BY <1>2, <1>5, <1>9 DEF Numbers, Alive
  <1> QED
    BY <1>2, <1>5, <1>7, <1>8, <1>10 DEF Numbers, Alive, n, i

\* Each step of a client leaves every number of a run with one owner.
LEMMA NumbersClient ==
  ASSUME TypeOK, Stages, Numbers, NEW p \in Procs, ClientStep(p) \/ ClientChoice(p)
  PROVE  Numbers'
  <1>1. CASE ReceiveId(p)
    BY <1>1, NumbersReceive
  <1>2. CASE OpenS2C(p)
    <2>1. clientId[p] = None /\ \A q \in Procs \ {p} : in'[q] = in[q]
      BY <1>2, OthersFrame DEF OpenS2C, Stages, Stage, Idle
    <2>2. UNCHANGED <<clientId, toClients, current, nextClientId, fault>>
      BY <1>2 DEF OpenS2C, serviceVars, registrationQueues
    <2> QED
      BY <2>1, <2>2 DEF Numbers, Alive
  <1>3. CASE ~ReceiveId(p) /\ ~OpenS2C(p)
    BY <1>3, OwnFrame, ClientFrame DEF Numbers, Alive
  <1> QED
    BY <1>1, <1>2, <1>3

\* A number that is sent is a new one.
LEMMA NumbersService ==
  ASSUME TypeOK, Stages, Numbers, RegistrationStep
  PROVE  Numbers'
  <1>1. UNCHANGED <<in, clientId, current>> /\ Alive
    BY RegistrationFrame DEF clientVars
  <1>2. CASE VisitRegistration
    <2>1. /\ current \in Runs /\ toClients[current] \in Seq(Nat) /\ nextClientId \in Nat
          /\ nextClientId' = nextClientId + 1
          /\ toClients'[current] = Append(toClients[current], nextClientId)
          /\ \A n \in Runs \ {current} : toClients'[n] = toClients[n]
      BY <1>2 DEF VisitRegistration, TypeOK
    <2>2. \A i \in ToSet(toClients[current]) : i \in Nat /\ i < nextClientId
      <3>1. ToSet(toClients[current]) \subseteq Nat
        BY <2>1, LenProperties DEF ToSet
      <3> QED
        BY <1>1, <3>1 DEF Numbers
    <2>3. nextClientId \notin ToSet(toClients[current]) /\ OnlyOnce(toClients[current], Nat)
      BY <2>1, <2>2 DEF Numbers
    <2>4. /\ ToSet(toClients'[current]) = ToSet(toClients[current]) \cup {nextClientId}
          /\ OnlyOnce(toClients'[current], Nat)
      BY <2>1, <2>3, Appended
    <2>5. \A n \in Runs : OnlyOnce(toClients'[n], Nat)
      BY <2>1, <2>4 DEF Numbers
    <2>6. \A i \in ToSet(toClients'[current]) : i < nextClientId'
      BY <2>1, <2>2, <2>4
    <2>7. ASSUME NEW p \in Procs, clientId[p] # None
          PROVE  /\ clientId[p] \notin ToSet(toClients'[in[p]])
                 /\ in[p] = current => clientId[p] < nextClientId'
      <3>1. in[p] \in Runs
        BY <2>7 DEF Stages, Stage
      <3>2. clientId[p] \in Nat
        BY <2>7 DEF TypeOK, Ids
      <3>3. /\ clientId[p] \notin ToSet(toClients[in[p]])
            /\ in[p] = current => clientId[p] < nextClientId
        BY <1>1, <2>7 DEF Numbers
      <3>4. CASE in[p] = current
        <4>1. clientId[p] # nextClientId /\ clientId[p] < nextClientId'
          BY <2>1, <3>2, <3>3, <3>4
        <4> QED
          BY <2>4, <3>3, <3>4, <4>1
      <3>5. CASE in[p] # current
        BY <2>1, <3>1, <3>3, <3>5
      <3> QED
        BY <3>4, <3>5
    <2> QED
      BY <1>1, <2>5, <2>6, <2>7 DEF Numbers
  <1>3. CASE ~VisitRegistration
    <2>1. UNCHANGED <<toClients, nextClientId>>
      BY <1>3 DEF RegistrationStep, CreateRegistrationQueues, ReceiveRegistration,
                  VisitQueueCreation, OpenRequestQueue, VisitQueueDeletion, FinishReg, Dispatch,
                  registrationQueues
    <2> QED
      BY <1>1, <2>1 DEF Numbers
  <1> QED
    BY <1>2, <1>3

\* A process that dies forgets which numbers it gave; the next one has a run of
\* its own.
LEMMA NumbersProcess ==
  ASSUME TypeOK, Begun, Numbers, Kill \/ Restart
  PROVE  Numbers'
  <1>1. UNCHANGED <<in, clientId, toClients>>
    BY ProcessFrame DEF clientVars, registrationQueues
  <1>2. CASE current' = current
    <2>1. ~Alive'
      <3>1. current \in Nat
        BY RunsNumbered DEF TypeOK
      <3> QED
        BY <1>2, <3>1, ProcessFrame DEF Alive
    <2> QED
      BY <1>1, <2>1 DEF Numbers
  <1>3. CASE current' # current
    <2>1. (\A p \in Procs : in'[p] # current') /\ toClients'[current'] = << >>
      BY <1>3, BegunProcess
    <2>2. ToSet(toClients'[current']) = {}
      BY <2>1, Nothing
    <2> QED
      BY <1>1, <2>1, <2>2 DEF Numbers
  <1> QED
    BY <1>2, <1>3
-----------------------------------------------------------------------------
(* Holders, names and senders *)

\* A client that has ended stays so.
LEMMA EndedStays ==
  ASSUME TypeOK, NEW p \in Procs, ClientStep(p) \/ ClientChoice(p), NEW q \in Procs, pc[q] \in Ended
  PROVE  pc'[q] \in Ended
  BY OwnFrame, OthersFrame

\* A client that has announced its queues does not come back from that.
LEMMA AnnouncingStays ==
  ASSUME TypeOK, NEW p \in Procs, ClientStep(p) \/ ClientChoice(p), NEW q \in Procs,
         pc[q] \in Announcing
  PROVE  pc'[q] \in Announcing
  <1>1. CASE q # p
    BY <1>1, OthersFrame
  <1>2. CASE q = p
    BY <1>2 DEF ClientStep, ClientChoice, OpenC2S, OpenS2C, SendRegistration, ReceiveId, UnlinkC2S,
         CreateC2S, UnlinkS2C, CreateS2C, SendQueueCreation, BeginRequest, SendRequest,
         RefuseResponse, Exchange, SendQueueDeletion, CloseC2S, CloseS2C, Die, Goto, Announcing,
         Closing, Ended, TypeOK
  <1> QED
    BY <1>1, <1>2

\* Who receives an undisputed number is of this run, and the others that had it
\* have ended.
LEMMA HoldersClient ==
  ASSUME TypeOK, Stages, Begun, Numbers, Holders, NEW p \in Procs, ClientStep(p) \/ ClientChoice(p)
  PROVE  Holders'
  <1>1. CASE ReceiveId(p)
    <2>1. /\ UNCHANGED <<out, in>>
          /\ \A q \in Procs \ {p} : pc'[q] = pc[q] /\ clientId'[q] = clientId[q]
          /\ disputed \subseteq disputed'
          /\ in[p] \in Runs /\ out[p] \in Runs
      <3>1. in[p] \in Runs /\ out[p] \in Runs /\ disputed \subseteq disputed'
        BY <1>1, TypeReceive
      <3>2. \A q \in Procs \ {p} : pc'[q] = pc[q] /\ clientId'[q] = clientId[q]
        BY OthersFrame
      <3> QED
        BY <1>1, <3>1, <3>2 DEF ReceiveId
    <2>2. Disputes(p, clientId'[p]) => clientId'[p] \in disputed'
      BY <1>1, TypeReceive DEF ReceiveId
    <2>3. clientId'[p] \notin disputed' =>
            /\ out[p] = current /\ in[p] = current
            /\ \A q \in Procs \ {p} : clientId[q] = clientId'[p] => pc[q] \in Ended
      BY <2>2 DEF Disputes
    <2>4. ASSUME NEW q \in Procs, clientId'[q] # None, clientId'[q] \notin disputed'
          PROVE  /\ out[q] = in[q]
                 /\ \A r \in Procs : clientId'[r] = clientId'[q] /\ in[r] < in[q]
                      => pc'[r] \in Ended
      <3>1. CASE q = p
        <4>1. current \in Nat
          BY RunsNumbered DEF TypeOK
        <4>2. ASSUME NEW r \in Procs, clientId'[r] = clientId'[p], in[r] < in[p]
              PROVE  pc'[r] \in Ended
          <5>1. r # p
            BY <2>3, <2>4, <3>1, <4>1, <4>2
          <5> QED
            BY <2>1, <2>3, <2>4, <3>1, <4>2, <5>1
        <4> QED
          BY <2>3, <2>4, <3>1, <4>2
      <3>2. CASE q # p
        <4>1. clientId[q] # None /\ clientId[q] \notin disputed
          BY <2>1, <2>4, <3>2
        <4>2. clientId[q] # None /\ clientId[q] \notin disputed /\ in[q] \in Runs
          BY <4>1 DEF Stages, Stage
        <4>3. /\ out[q] = in[q]
              /\ \A r \in Procs : clientId[r] = clientId[q] /\ in[r] < in[q] => pc[r] \in Ended
          BY <4>2 DEF Holders
        <4>4. ~(clientId'[p] = clientId'[q] /\ in[p] < in[q])
          <5> SUFFICES ASSUME clientId'[p] = clientId'[q], in[p] < in[q] PROVE FALSE
            OBVIOUS
          <5>1. in[p] = current /\ in[q] <= current /\ in[q] \in Nat /\ current \in Nat
            BY <2>3, <2>4, <4>2, RunsNumbered DEF Begun, TypeOK
          <5> QED
            BY <5>1
        <4> QED
          BY <2>1, <3>2, <4>3, <4>4
      <3> QED
        BY <3>1, <3>2
    <2> QED
      BY <2>1, <2>4 DEF Holders
  <1>2. CASE ~ReceiveId(p)
    <2>1. UNCHANGED <<clientId, disputed>>
      BY <1>2, OwnFrame
    <2>2. ASSUME NEW q \in Procs, clientId[q] # None PROVE out'[q] = out[q] /\ in'[q] = in[q]
      <3>1. pc[q] \notin {"new", "open s2c"}
        BY <2>2 DEF Stages, Stage, Idle
      <3>2. q = p => ~OpenC2S(p) /\ ~OpenS2C(p)
        BY <3>1 DEF OpenC2S, OpenS2C
      <3> QED
        BY <3>2, OwnFrame, OthersFrame
    <2> QED
      BY <2>1, <2>2, EndedStays DEF Holders
  <1> QED
    BY <1>1, <1>2

\* The names of a number are given to a process that has it.
LEMMA NamesClient ==
  ASSUME TypeOK, Stages, Names, NEW p \in Procs, ClientStep(p) \/ ClientChoice(p)
  PROVE  Names'
  <1>1. \A q \in Procs, i \in Nat : clientId[q] = i => clientId'[q] = i
    <2>1. CASE ReceiveId(p)
      BY <2>1, TypeReceive, RegistrationAssumption
    <2>2. CASE ~ReceiveId(p)
      BY <2>2, OwnFrame
    <2> QED
      BY <2>1, <2>2
  <1>2. ASSUME NEW i \in DOMAIN c2sQueues' PROVE clientId'[c2sQueues'[i]] = i
    <2>1. c2sQueues' = c2sQueues /\ i \in Nat /\ c2sQueues[i] \in Procs
      BY <1>2, ClientFrame DEF maps, TypeOK
    <2> QED
      BY <1>1, <2>1 DEF Names
  <1>3. ASSUME NEW i \in DOMAIN s2cQueues' PROVE clientId'[s2cQueues'[i]] = i
    <2>1. s2cQueues' = s2cQueues /\ i \in Nat /\ s2cQueues[i] \in Procs
      BY <1>3, ClientFrame DEF maps, TypeOK
    <2> QED
      BY <1>1, <2>1 DEF Names
  <1>4. \A i \in DOMAIN c2sOwner : i \in Nat /\ c2sOwner[i] \in Procs /\ clientId[c2sOwner[i]] = i
    BY DEF Names, TypeOK
  <1>5. \A i \in DOMAIN s2cOwner : i \in Nat /\ s2cOwner[i] \in Procs /\ clientId[s2cOwner[i]] = i
    BY DEF Names, TypeOK
  <1>6. \/ c2sOwner' = c2sOwner
        \/ clientId' = clientId /\ (\/ c2sOwner' = Unbind(c2sOwner, clientId[p])
                                    \/ c2sOwner' = Bind(c2sOwner, clientId[p], p))
    BY DEF ClientStep, ClientChoice, OpenC2S, OpenS2C, SendRegistration, ReceiveId, UnlinkC2S,
         CreateC2S, UnlinkS2C, CreateS2C, SendQueueCreation, BeginRequest, SendRequest,
         RefuseResponse, Exchange, SendQueueDeletion, CloseC2S, CloseS2C, Die, requestQueues
  <1>7. \/ s2cOwner' = s2cOwner
        \/ clientId' = clientId /\ (\/ s2cOwner' = Unbind(s2cOwner, clientId[p])
                                    \/ s2cOwner' = Bind(s2cOwner, clientId[p], p))
    BY DEF ClientStep, ClientChoice, OpenC2S, OpenS2C, SendRegistration, ReceiveId, UnlinkC2S,
         CreateC2S, UnlinkS2C, CreateS2C, SendQueueCreation, BeginRequest, SendRequest,
         RefuseResponse, Exchange, SendQueueDeletion, CloseC2S, CloseS2C, Die, requestQueues
  <1>8. \A i \in DOMAIN c2sOwner' : clientId'[c2sOwner'[i]] = i
    BY <1>1, <1>4, <1>6 DEF Bind, Unbind
  <1>9. \A i \in DOMAIN s2cOwner' : clientId'[s2cOwner'[i]] = i
    BY <1>1, <1>5, <1>7 DEF Bind, Unbind
  <1>10. ASSUME NEW q \in Procs, clientId'[q] = None PROVE c2s'[q] = << >> /\ s2c'[q] = << >>
    <2>1. clientId[q] = None
      <3>1. clientId[q] \in Nat => clientId'[q] \in Nat
        BY <1>1
      <3> QED
        BY <1>10, <3>1, RegistrationAssumption DEF TypeOK, Ids
    <2>2. c2s[q] = << >> /\ s2c[q] = << >>
      BY <2>1 DEF Names
    <2>3. CASE q # p
      BY <2>2, <2>3, OthersFrame
    <2>4. CASE q = p
      <3>1. pc[p] \in Idle \cup {"dead"}
        BY <2>1, <2>4 DEF Stages, Stage
      <3>2. c2s' = c2s /\ s2c' = s2c
        BY <3>1 DEF Idle, ClientStep, ClientChoice, OpenC2S, OpenS2C, SendRegistration, ReceiveId,
             UnlinkC2S, CreateC2S, UnlinkS2C, CreateS2C, SendQueueCreation, BeginRequest,
             SendRequest, RefuseResponse, Exchange, SendQueueDeletion, CloseC2S, CloseS2C, Die,
             Goto, requestQueues
      <3> QED
        BY <2>2, <2>4, <3>2
    <2> QED
      BY <2>3, <2>4
  <1> QED
    BY <1>2, <1>3, <1>8, <1>9, <1>10 DEF Names

\* What visitQueueCreation opens has the name.
LEMMA NamesService ==
  ASSUME TypeOK, Names, RegistrationStep
  PROVE  Names'
  <1>1. UNCHANGED <<clientId, c2sOwner, s2cOwner, s2c>>
    BY RegistrationFrame DEF clientVars
  <1>2. \A q \in Procs : c2s[q] = << >> => c2s'[q] = << >>
    BY DEF RegistrationStep, CreateRegistrationQueues, ReceiveRegistration, VisitRegistration,
           VisitQueueCreation, OpenRequestQueue, VisitQueueDeletion, FinishReg, Dispatch,
           requestQueues
  <1>3. \/ s2cQueues' = s2cQueues \/ s2cQueues' = Unbind(s2cQueues, message.id)
        \/ /\ message.id \in DOMAIN s2cOwner
           /\ s2cQueues' = Bind(s2cQueues, message.id, s2cOwner[message.id])
    BY DEF RegistrationStep, CreateRegistrationQueues, ReceiveRegistration, VisitRegistration,
           VisitQueueCreation, OpenRequestQueue, VisitQueueDeletion, FinishReg, Dispatch,
           Throw, maps
  <1>4. \/ c2sQueues' = c2sQueues \/ c2sQueues' = Unbind(c2sQueues, message.id)
        \/ /\ message.id \in DOMAIN c2sOwner
           /\ c2sQueues' = Bind(c2sQueues, message.id, c2sOwner[message.id])
    BY DEF RegistrationStep, CreateRegistrationQueues, ReceiveRegistration, VisitRegistration,
           VisitQueueCreation, OpenRequestQueue, VisitQueueDeletion, FinishReg, Dispatch,
           Throw, maps
  <1>5. \A i \in DOMAIN s2cQueues' : clientId[s2cQueues'[i]] = i
    BY <1>3 DEF Names, Bind, Unbind
  <1>6. \A i \in DOMAIN c2sQueues' : clientId[c2sQueues'[i]] = i
    BY <1>4 DEF Names, Bind, Unbind
  <1> QED
    BY <1>1, <1>2, <1>5, <1>6 DEF Names

\* A worker writes to an open queue, that of a client with a number.
LEMMA NamesWorker ==
  ASSUME TypeOK, Stages, Names, NEW w \in Workers,
         WorkerStep(w) \/ WriteRacing(w) \/ SendToClosed(w)
  PROVE  Names'
  <1>1. UNCHANGED <<clientId, c2sOwner, s2cOwner, c2s, c2sQueues, s2cQueues>>
    BY WorkerFrame DEF nonWorkerVars, clientVars, maps
  <1>2. ASSUME NEW q \in Procs, clientId[q] = None PROVE s2c'[q] = s2c[q]
    <2>1. CASE SendResponse(w)
      <3>1. job[w] \in Nat \X Nat /\ job[w][1] \in DOMAIN s2cQueues
        BY <2>1 DEF SendResponse, Stages
      <3>2. clientId[s2cQueues[job[w][1]]] = job[w][1] /\ job[w][1] \in Nat
        BY <3>1 DEF Names
      <3>3. q # s2cQueues[job[w][1]]
        BY <1>2, <3>2, RegistrationAssumption
      <3> QED
        BY <2>1, <3>3 DEF SendResponse, TypeOK
    <2>2. CASE ~SendResponse(w)
      BY <2>2 DEF WorkerStep, Schedule, WriteBlocking, WriteRacing, SendToClosed
    <2> QED
      BY <2>1, <2>2
  <1> QED
    BY <1>1, <1>2 DEF Names

\* Queues and names outlive the service.
LEMMA NamesProcess ==
  ASSUME TypeOK, Names, Kill \/ Restart
  PROVE  Names'
  <1>1. UNCHANGED <<clientId, c2sOwner, s2cOwner, c2s, s2c>>
    BY ProcessFrame DEF clientVars, requestQueues
  <1>2. DOMAIN c2sQueues' = {} /\ DOMAIN s2cQueues' = {}
    BY ProcessFrame
  <1> QED
    BY <1>1, <1>2 DEF Names

\* A client that has announced its queues stays one that has.
LEMMA AnnouncedClient ==
  ASSUME TypeOK, Stages, NEW p \in Procs, ClientStep(p) \/ ClientChoice(p), NEW i \in Nat,
         Announced(i)
  PROVE  Announced(i)'
  <1>1. PICK q \in Procs : out[q] = current /\ clientId[q] = i /\ pc[q] \in Announcing
    BY DEF Announced
  <1>2. pc'[q] \in Announcing
    BY <1>1, AnnouncingStays
  <1>3. pc[q] \notin {"new", "open s2c", "await"}
    BY <1>1 DEF Announcing, Ended, Closing
  <1>4. out'[q] = out[q] /\ clientId'[q] = clientId[q]
    <2>1. CASE q # p
      BY <2>1, OthersFrame
    <2>2. CASE q = p
      BY <1>3, <2>2, OwnFrame DEF OpenC2S, ReceiveId, Goto
    <2> QED
      BY <2>1, <2>2
  <1> QED
    BY <1>1, <1>2, <1>4, ClientFrame DEF Announced

\* What p does to the messages that wait.
LEMMA UnvisitedClient ==
  ASSUME TypeOK, Stages, NEW p \in Procs, ClientStep(p) \/ ClientChoice(p)
  PROVE  \/ toService'[current] = toService[current] /\ Unvisited' = Unvisited
         \/ \E msg \in Message : /\ Sends(p, msg) /\ out[p] = current
                                 /\ Unvisited' = Unvisited \cup {msg}
                                 /\ toService'[current] = Append(toService[current], msg)
  <1>1. message' = message /\ current' = current /\ current \in Runs
    BY ClientFrame DEF TypeOK
  <1>2. CASE toService' = toService
    BY <1>1, <1>2 DEF Unvisited
  <1>3. CASE toService' # toService
    <2>1. PICK msg \in Message : Sends(p, msg) /\ out[p] \in Runs /\ Register(p, msg)
      BY <1>3, SentMessages
    <2>2. CASE out[p] = current
      BY <1>1, <2>1, <2>2, TypeRegister DEF Unvisited
    <2>3. CASE out[p] # current
      BY <1>1, <2>1, <2>3, TypeRegister DEF Unvisited
    <2> QED
      BY <2>2, <2>3
  <1> QED
    BY <1>2, <1>3

\* A message that is not a registration has a number.
LEMMA MessageTypes ==
  ASSUME TypeOK
  PROVE  /\ Unvisited \subseteq Message
         /\ \A m \in Message : m.type # "REGISTRATION" => m.id \in Nat
         /\ message # None => message \in Message /\ message \in Unvisited
  <1>1. toService[current] \in Seq(Message)
    BY DEF TypeOK
  <1>2. ToSet(toService[current]) \subseteq Message
    BY <1>1, LenProperties DEF ToSet
  <1>3. message \in Message \cup {None}
    BY DEF TypeOK
  <1>4. \A m \in Message : m.type # "REGISTRATION" => m.id \in Nat
    BY DEF Message
  <1> QED
    BY <1>2, <1>3, <1>4 DEF Unvisited

\* A client announces before it sends anything else with its number.
LEMMA SendersClient ==
  ASSUME TypeOK, Stages, Senders, NEW p \in Procs, ClientStep(p) \/ ClientChoice(p)
  PROVE  Senders'
  <1>1. ASSUME NEW m \in Unvisited', m.type # "REGISTRATION" PROVE Announced(m.id)'
    <2>1. CASE m \in Unvisited
      <3>1. m.id \in Nat /\ Announced(m.id)
        BY <1>1, <2>1, MessageTypes DEF Senders
      <3> QED
        BY <3>1, AnnouncedClient
    <2>2. CASE m \notin Unvisited
      <3>1. Sends(p, m) /\ out[p] = current
        BY <1>1, <2>2, UnvisitedClient
      <3>2. m.id = clientId[p] /\ (SendQueueCreation(p) \/ SendQueueDeletion(p))
        BY <1>1, <3>1 DEF Sends, Creation, Deletion
      <3>3. out' = out /\ clientId' = clientId /\ pc'[p] \in {"up", "closing c2s"}
        BY <3>2 DEF SendQueueCreation, SendQueueDeletion, Goto, TypeOK
      <3>4. current' = current
        BY ClientFrame
      <3> QED
        BY <3>1, <3>2, <3>3, <3>4 DEF Announced, Announcing, Closing
    <2> QED
      BY <2>1, <2>2
  <1>2. \A i \in DOMAIN s2cQueues' : Announced(i)'
    <2>1. s2cQueues' = s2cQueues /\ DOMAIN s2cQueues \subseteq Nat
      BY ClientFrame DEF maps, TypeOK
    <2> QED
      BY <2>1, AnnouncedClient DEF Senders
  <1>3. \A request \in runqueue' : Announced(request[1])'
    <2>1. runqueue' = runqueue /\ \A request \in runqueue : request[1] \in Nat
      BY ClientFrame DEF TypeOK
    <2> QED
      BY <2>1, AnnouncedClient DEF Senders
  <1>4. ASSUME NEW w \in Workers, workerPc'[w] # "idle" PROVE Announced(job[w][1])'
    <2>1. workerPc[w] # "idle" /\ job'[w] = job[w]
      BY <1>4, ClientFrame
    <2>2. job[w][1] \in Nat /\ Announced(job[w][1])
      BY <2>1 DEF Senders, Stages
    <2> DEFINE i == job[w][1]
    <2>3. i' = i /\ i \in Nat /\ Announced(i)
      BY <2>1, <2>2
    <2> HIDE DEF i
    <2>4. \E q \in Procs : out'[q] = current' /\ clientId'[q] = i /\ pc'[q] \in Announcing
      BY <2>3, AnnouncedClient DEF Announced
    <2>5. \E q \in Procs : out'[q] = current' /\ clientId'[q] = i' /\ pc'[q] \in Announcing
      BY <2>3, <2>4
    <2> QED
      BY <2>5 DEF Announced, i
  <1> QED
    BY <1>1, <1>2, <1>3, <1>4 DEF Senders

\* The registration thread visits messages in turn.
LEMMA UnvisitedService ==
  ASSUME TypeOK, RegistrationStep
  PROVE  /\ Unvisited' \subseteq Unvisited
         /\ ~ReceiveRegistration => toService' = toService /\ message' \in {message, None}
  <1>1. CASE ReceiveRegistration
    <2>1. toService[current] \in Seq(Message) /\ toService[current] # << >> /\ message = None
      BY <1>1 DEF ReceiveRegistration, TypeOK
    <2>2. ToSet(toService[current]) =
            ToSet(Tail(toService[current])) \cup {Head(toService[current])}
      BY <2>1, Taken
    <2>3. /\ toService'[current] = Tail(toService[current]) /\ current' = current
          /\ message' = Head(toService[current])
      BY <1>1, RegistrationFrame DEF ReceiveRegistration, TypeOK
    <2> QED
      BY <1>1, <2>2, <2>3 DEF Unvisited
  <1>2. CASE ~ReceiveRegistration
    <2>1. toService' = toService /\ message' \in {message, None} /\ current' = current
      BY <1>2, RegistrationFrame
      DEF RegistrationStep, CreateRegistrationQueues, VisitRegistration, VisitQueueCreation,
          OpenRequestQueue, VisitQueueDeletion, FinishReg, Dispatch, Throw, registrationQueues
    <2> QED
      BY <1>2, <2>1 DEF Unvisited
  <1> QED
    BY <1>1, <1>2

\* The registration thread makes no number up.
LEMMA SendersService ==
  ASSUME TypeOK, Senders, RegistrationStep
  PROVE  Senders'
  <1>1. UNCHANGED <<clientVars, current, workerPc, job>>
    BY RegistrationFrame DEF workerVars
  <1>2. \A i : Announced(i)' <=> Announced(i)
    BY <1>1 DEF Announced, clientVars
  <1>3. \A i \in DOMAIN s2cQueues' : Announced(i)
    <2>1. CASE VisitQueueCreation
      <3>1. DOMAIN s2cQueues' \subseteq DOMAIN s2cQueues \cup {message.id}
              /\ Visiting("QUEUE_CREATION")
        BY <2>1 DEF VisitQueueCreation, Throw, maps, Bind
      <3>2. Announced(message.id)
        BY <3>1, MessageTypes DEF Senders, Visiting
      <3> QED
        BY <3>1, <3>2 DEF Senders
    <2>2. CASE ~VisitQueueCreation
      <3>1. DOMAIN s2cQueues' \subseteq DOMAIN s2cQueues
        BY <2>2 DEF RegistrationStep, CreateRegistrationQueues, ReceiveRegistration,
           VisitRegistration, OpenRequestQueue, VisitQueueDeletion, FinishReg, Dispatch, Throw,
           maps, Unbind
      <3> QED
        BY <3>1 DEF Senders
    <2> QED
      BY <2>1, <2>2
  <1>4. \A request \in runqueue' : Announced(request[1])
    <2>1. CASE Dispatch
      <3>1. \A request \in runqueue' : request \in runqueue \/ request[1] \in DOMAIN c2sQueues
        BY <2>1 DEF Dispatch, Pending
      <3> QED
        BY <3>1 DEF Senders, TypeOK
    <2>2. CASE ~Dispatch
      <3>1. runqueue' \subseteq runqueue
        BY <2>2 DEF RegistrationStep, CreateRegistrationQueues, ReceiveRegistration,
           VisitRegistration, VisitQueueCreation, OpenRequestQueue, VisitQueueDeletion, FinishReg,
           Throw
      <3> QED
        BY <3>1 DEF Senders
    <2> QED
      BY <2>1, <2>2
  <1> QED
    BY <1>1, <1>2, <1>3, <1>4, UnvisitedService DEF Senders

\* Nor does a worker.
LEMMA SendersWorker ==
  ASSUME TypeOK, Senders, NEW w \in Workers, WorkerStep(w) \/ WriteRacing(w) \/ SendToClosed(w)
  PROVE  Senders'
  <1>1. UNCHANGED <<pc, out, clientId, current, toService, message, s2cQueues>>
          /\ runqueue' \subseteq runqueue
    BY WorkerFrame DEF nonWorkerVars, clientVars, registrationQueues, maps
  <1>2. \A i : Announced(i)' <=> Announced(i)
    BY <1>1 DEF Announced
  <1>3. ASSUME NEW v \in Workers, workerPc'[v] # "idle" PROVE Announced(job'[v][1])
    <2>1. \/ workerPc[v] # "idle" /\ job'[v] = job[v]
          \/ job'[v] \in runqueue
      BY <1>3, WorkerFrame
    <2> QED
      BY <2>1 DEF Senders
  <1> QED
    BY <1>1, <1>2, <1>3 DEF Senders, Unvisited

\* A new run knows no numbers.
LEMMA SendersProcess ==
  ASSUME TypeOK, Begun, Senders, Kill \/ Restart
  PROVE  Senders'
  <1>1. /\ UNCHANGED <<pc, out, clientId, toService>>
        /\ message' = None /\ DOMAIN s2cQueues' = {} /\ runqueue' = {}
        /\ \A w \in Workers : workerPc'[w] = "idle"
    BY ProcessFrame DEF clientVars, registrationQueues
  <1>2. CASE current' = current
    BY <1>1, <1>2 DEF Senders, Unvisited, Announced
  <1>3. CASE current' # current
    <2>1. ToSet(toService'[current']) = {}
      BY <1>3, BegunProcess, Nothing
    <2> QED
      BY <1>1, <2>1 DEF Senders, Unvisited
  <1> QED
    BY <1>2, <1>3
-----------------------------------------------------------------------------
(* The invariant holds *)

\* Before anything has happened.
LEMMA InitInv == Init => IInv
  <1> SUFFICES ASSUME Init PROVE IInv
    OBVIOUS
  <1>1. TypeOK
    BY TypeInit
  <1>2. DOMAIN << >> = {} /\ ToSet(<< >>) = {} /\ \A M : OnlyOnce(<< >>, M)
    BY Nothing
  <1>3. Stages
    <2>1. \A p \in Procs : MaxRequests[p] \in Nat
      BY RegistrationAssumption
    <2>2. ASSUME NEW p \in Procs PROVE Stage(p)
      <3>1. pc[p] = "new" /\ in[p] = None /\ clientId[p] = None /\ asked[p] = 0
        BY DEF Init
      <3>2. asked[p] <= MaxRequests[p]
        BY <2>1, <3>1
      <3> QED
        BY <3>1, <3>2 DEF Stage, Idle, Constructing
    <2> QED
      BY <1>2, <2>2 DEF Init, Stages
  <1>4. Begun /\ Numbers
    <2>1. 1 \in Runs /\ None \notin Runs
      BY RunsNumbered
    <2> QED
      BY <1>2, <2>1 DEF Init, Begun, Numbers
  <1>5. Holders /\ Names
    BY <1>2 DEF Init, Holders, Names
  <1>6. Senders
    <2>1. Unvisited = {}
      BY <1>2, RunsNumbered DEF Init, Unvisited
    <2> QED
      BY <1>2, <2>1 DEF Init, Senders
  <1> QED
    BY <1>1, <1>3, <1>4, <1>5, <1>6 DEF IInv

\* One step of any of the processes.
LEMMA StepInv ==
  ASSUME IInv, [Next]_vars
  PROVE  IInv'
  <1> USE DEF IInv
  <1>1. ASSUME NEW p \in Procs, ClientStep(p) \/ ClientChoice(p) PROVE IInv'
    BY <1>1, TypeClient, StagesClient, BegunClient, NumbersClient, HoldersClient, NamesClient,
       SendersClient
  <1>2. CASE RegistrationStep
    <2>1. Holders'
      BY <1>2, RegistrationFrame DEF Holders, clientVars
    <2> QED
      BY <1>2, <2>1, TypeRegistration, StagesRegistration, BegunService, NumbersService,
         NamesService, SendersService
  <1>3. ASSUME NEW w \in Workers, WorkerStep(w) \/ WriteRacing(w) \/ SendToClosed(w) PROVE IInv'
    <2>1. /\ UNCHANGED <<clientVars, registrationQueues, registrationNames, current, nextClientId>>
          /\ Alive
      BY <1>3, WorkerFrame DEF nonWorkerVars
    <2>2. Begun' /\ Numbers' /\ Holders'
      BY <2>1 DEF Begun, Numbers, Holders, clientVars, registrationQueues, registrationNames, Alive
    <2> QED
      BY <1>3, <2>2, TypeWorker, StagesWorker, NamesWorker, SendersWorker
  <1>4. CASE Kill \/ Restart
    <2>1. Holders'
      BY <1>4, ProcessFrame DEF Holders, clientVars
    <2> QED
      BY <1>4, <2>1, TypeProcess, StagesProcess, BegunProcess, NumbersProcess, NamesProcess,
         SendersProcess
  <1>5. CASE UNCHANGED vars
    <2> USE <1>5 DEF vars, clientVars, registrationQueues, requestQueues, registrationNames, maps,
                     workerVars, serviceVars
    <2>1. TypeOK'
      BY DEF TypeOK
    <2>2. Stages' /\ Begun' /\ Numbers'
      BY DEF Stages, Stage, Visiting, Begun, Numbers, Alive
    <2>3. Holders' /\ Names' /\ Senders'
      BY DEF Holders, Names, Senders, Unvisited, Announced
    <2> QED
      BY <2>1, <2>2, <2>3
  <1> QED
    BY <1>1, <1>2, <1>3, <1>4, <1>5 DEF Next

\* The first layer holds always.
LEMMA Invariance == Spec => []IInv
  BY InitInv, StepInv, PTL DEF Spec

\* Type correctness (of every variable of Registration): in particular a client
\* never has the answer of something it did not ask for, and only an entry of
\* both maps is a registered client.
THEOREM RegistrationTypeCorrect == Spec => []TypeOK
  <1>1. IInv => TypeOK
    BY DEF IInv
  <1> QED
    BY <1>1, Invariance, PTL
-----------------------------------------------------------------------------
(* The order of the messages *)

\* Every client of this run that has the number i received it from this run too.
Proper(i) == \A p \in Procs : out[p] = current /\ clientId[p] = i => in[p] = current

Inbox == toService[current]

\* i's creation is behind the registration thread, under its eyes, or in front of
\* position k of the registration queue.
Ahead(i, k) == \/ Registered(i) \/ message = Creation(i)
               \/ \E j \in DOMAIN Inbox : j < k /\ Inbox[j] = Creation(i)

\* The client with the number i has left, or is leaving.
Left(i) == \E p \in Procs : out[p] = current /\ clientId[p] = i /\ pc[p] \in Closing \cup Ended

\* A creation is the only one and comes before the client is registered.
CreationOnce(i) ==
  /\ message = Creation(i) => ~Registered(i)
  /\ \A k \in DOMAIN Inbox : Inbox[k] = Creation(i) =>
       /\ ~Registered(i) /\ message # Creation(i)
       /\ \A j \in DOMAIN Inbox : Inbox[j] = Creation(i) => j = k

\* A deletion is the only one, comes from a client that leaves, and comes behind
\* the creation.
DeletionOnce(i) ==
  /\ message = Deletion(i) => Registered(i) /\ Left(i)
  /\ \A k \in DOMAIN Inbox : Inbox[k] = Deletion(i) =>
       /\ Ahead(i, k) /\ Left(i) /\ message # Deletion(i)
       /\ \A j \in DOMAIN Inbox : Inbox[j] = Deletion(i) => j = k

\* A client that is up is registered or will be.
UpAhead(i) ==
  \A p \in Procs : out[p] = current /\ clientId[p] = i /\ pc[p] \in {"up", "sending"} =>
    Ahead(i, Len(Inbox) + 1)

Ordered(i) == CreationOnce(i) /\ DeletionOnce(i) /\ UpAhead(i)

Order == Alive => \A i \in Nat : Proper(i) => Ordered(i)

\* What waits for the registration thread is a sequence of messages.
LEMMA InboxType == ASSUME TypeOK PROVE /\ Inbox \in Seq(Message) /\ DOMAIN Inbox = 1..Len(Inbox)
                                       /\ Len(Inbox) \in Nat
  BY LenProperties DEF TypeOK, Inbox

\* Creations and deletions are different, and each has one number.
LEMMA DifferentMessages ==
  \A i, j : /\ Creation(i) # Deletion(j)
            /\ Creation(i) = Creation(j) => i = j
            /\ Deletion(i) = Deletion(j) => i = j
            /\ Creation(i).id = i /\ Creation(i).type = "QUEUE_CREATION"
            /\ Deletion(i).id = i /\ Deletion(i).type = "QUEUE_DELETION"
  BY DEF Creation, Deletion

\* One client of this run has a proper number.
LEMMA OneHolder ==
  ASSUME IInv, NEW i \in Nat, Proper(i), NEW p \in Procs, NEW q \in Procs,
         out[p] = current, clientId[p] = i, out[q] = current, clientId[q] = i
  PROVE  p = q
  <1>1. in[p] = current /\ in[q] = current /\ clientId[p] # None
    BY RegistrationAssumption DEF Proper
  <1> QED
    BY <1>1 DEF IInv, Numbers

\* Numbers stay with their clients, so what is proper was proper.
LEMMA HeldClient ==
  ASSUME TypeOK, Stages, NEW p \in Procs, ClientStep(p) \/ ClientChoice(p), NEW q \in Procs,
         clientId[q] # None
  PROVE  out'[q] = out[q] /\ in'[q] = in[q] /\ clientId'[q] = clientId[q]
  <1>1. CASE q # p
    BY <1>1, OthersFrame
  <1>2. CASE q = p
    <2>1. pc[p] \notin {"new", "open s2c", "await"}
      BY <1>2 DEF Stages, Stage, Idle
    <2> QED
      BY <1>2, <2>1, OwnFrame DEF OpenC2S, OpenS2C, ReceiveId, Goto
  <1> QED
    BY <1>1, <1>2

\* A client's step spoils no number that was not proper before.
LEMMA ProperClient ==
  ASSUME TypeOK, Stages, NEW p \in Procs, ClientStep(p) \/ ClientChoice(p), NEW i \in Nat,
         Proper(i)'
  PROVE  Proper(i)
  <1> SUFFICES ASSUME NEW q \in Procs, out[q] = current, clientId[q] = i PROVE in[q] = current
    BY DEF Proper
  <1>1. clientId[q] # None
    BY RegistrationAssumption
  <1> QED
    BY <1>1, HeldClient, ClientFrame DEF Proper

\* A client that has left does not come back.
LEMMA LeftClient ==
  ASSUME TypeOK, Stages, NEW p \in Procs, ClientStep(p) \/ ClientChoice(p), NEW i \in Nat, Left(i)
  PROVE  Left(i)'
  <1>1. PICK q \in Procs : out[q] = current /\ clientId[q] = i /\ pc[q] \in Closing \cup Ended
    BY DEF Left
  <1>2. out'[q] = out[q] /\ clientId'[q] = clientId[q]
    BY <1>1, HeldClient, RegistrationAssumption
  <1>3. pc'[q] \in Closing \cup Ended
    <2>1. CASE q # p
      BY <1>1, <2>1, OthersFrame
    <2>2. CASE q = p
      BY <1>1, <2>2 DEF ClientStep, ClientChoice, OpenC2S, OpenS2C, SendRegistration, ReceiveId,
         UnlinkC2S, CreateC2S, UnlinkS2C, CreateS2C, SendQueueCreation, BeginRequest, SendRequest,
         RefuseResponse, Exchange, SendQueueDeletion, CloseC2S, CloseS2C, Die, Goto, Closing,
         Ended, TypeOK
    <2> QED
      BY <2>1, <2>2
  <1> QED
    BY <1>1, <1>2, <1>3, ClientFrame DEF Left

\* A client comes up by announcing its queues.
LEMMA UpClient ==
  ASSUME TypeOK, Stages, NEW p \in Procs, ClientStep(p) \/ ClientChoice(p), ~SendQueueCreation(p),
         NEW q \in Procs, pc'[q] \in {"up", "sending"}
  PROVE  pc[q] \in {"up", "sending"}
  <1>1. CASE q # p
    BY <1>1, OthersFrame
  <1>2. CASE q = p
    BY <1>2 DEF ClientStep, ClientChoice, OpenC2S, OpenS2C, SendRegistration, ReceiveId, UnlinkC2S,
         CreateC2S, UnlinkS2C, CreateS2C, BeginRequest, SendRequest, RefuseResponse,
         Exchange, SendQueueDeletion, CloseC2S, CloseS2C, Die, Goto, TypeOK
  <1> QED
    BY <1>1, <1>2

\* A step of a client that sends nothing under the number i.
LEMMA OrderedQuietly ==
  ASSUME IInv, NEW p \in Procs, ClientStep(p) \/ ClientChoice(p), NEW i \in Nat, Ordered(i),
         ~(SendQueueCreation(p) /\ clientId[p] = i /\ out[p] = current),
         \/ Inbox' = Inbox
         \/ \E msg : /\ Inbox' = Append(Inbox, msg) /\ msg \in Message
                     /\ msg # Creation(i) /\ msg # Deletion(i)
  PROVE  Ordered(i)'
  <1> USE DEF IInv
  <1>1. /\ DOMAIN Inbox \subseteq DOMAIN Inbox'
        /\ \A k \in DOMAIN Inbox : Inbox'[k] = Inbox[k]
        /\ \A k \in DOMAIN Inbox' \ DOMAIN Inbox :
             Inbox'[k] # Creation(i) /\ Inbox'[k] # Deletion(i)
        /\ Len(Inbox') >= Len(Inbox)
    <2>1. Inbox \in Seq(Message) /\ DOMAIN Inbox = 1..Len(Inbox) /\ Len(Inbox) \in Nat
      BY InboxType
    <2>2. CASE Inbox' = Inbox
      BY <2>1, <2>2
    <2>3. CASE Inbox' # Inbox
      <3>1. PICK msg \in Message :
              Inbox' = Append(Inbox, msg) /\ msg # Creation(i) /\ msg # Deletion(i)
        BY <2>3
      <3>2. /\ DOMAIN Inbox' = 1..(Len(Inbox) + 1) /\ Len(Inbox') = Len(Inbox) + 1
            /\ \A k \in 1..Len(Inbox) : Inbox'[k] = Inbox[k]
            /\ Inbox'[Len(Inbox) + 1] = msg
        <4>1. \A s \in Seq(Message), m \in Message :
                /\ DOMAIN Append(s, m) = 1..(Len(s) + 1) /\ Len(Append(s, m)) = Len(s) + 1
                /\ \A k \in 1..Len(s) : Append(s, m)[k] = s[k]
                /\ Append(s, m)[Len(s) + 1] = m
          BY AppendProperties
        <4> QED
          BY <2>1, <3>1, <4>1
      <3>3. \A k \in 1..(Len(Inbox) + 1) : k \in 1..Len(Inbox) \/ k = Len(Inbox) + 1
        BY <2>1
      <3>4. \A k \in 1..Len(Inbox) : k \in 1..(Len(Inbox) + 1)
        BY <2>1
      <3>5. Len(Inbox') >= Len(Inbox)
        BY <2>1, <3>2
      <3> QED
        BY <2>1, <3>1, <3>2, <3>3, <3>4, <3>5
    <2> QED
      BY <2>2, <2>3
  <1>2. message' = message /\ c2sQueues' = c2sQueues /\ current' = current
    BY ClientFrame DEF maps
  <1>3. ASSUME NEW k, Ahead(i, k) PROVE Ahead(i, k)'
    BY <1>1, <1>2, <1>3 DEF Ahead, Registered
  <1>4. CreationOnce(i)'
    BY <1>1, <1>2 DEF Ordered, CreationOnce, Registered
  <1>5. DeletionOnce(i)'
    <2>1. message' = Deletion(i) => Registered(i)' /\ Left(i)'
      BY <1>2, LeftClient DEF Ordered, DeletionOnce, Registered
    <2>2. ASSUME NEW k \in DOMAIN Inbox', Inbox'[k] = Deletion(i)
          PROVE  /\ Ahead(i, k)' /\ Left(i)' /\ message' # Deletion(i)
                 /\ \A j \in DOMAIN Inbox' : Inbox'[j] = Deletion(i) => j = k
      <3>1. k \in DOMAIN Inbox /\ Inbox[k] = Deletion(i)
        BY <1>1, <2>2
      <3> QED
        BY <1>1, <1>2, <1>3, <3>1, LeftClient DEF Ordered, DeletionOnce
    <2> QED
      BY <2>1, <2>2 DEF DeletionOnce
  <1>6. UpAhead(i)'
    <2> SUFFICES ASSUME NEW q \in Procs, out'[q] = current', clientId'[q] = i,
                        pc'[q] \in {"up", "sending"}
                 PROVE  Ahead(i, Len(Inbox) + 1)'
      BY DEF UpAhead
    <2>1. pc[q] \in {"up", "sending"} \/ (q = p /\ SendQueueCreation(p))
      <3>1. CASE ~SendQueueCreation(p)
        BY <3>1, UpClient
      <3>2. CASE q # p
        BY <3>2, OthersFrame
      <3> QED
        BY <3>1, <3>2
    <2>2. clientId[q] # None
      BY <2>1 DEF Stages, Stage, Idle, SendQueueCreation, Goto
    <2>3. out[q] = current /\ clientId[q] = i
      BY <1>2, <2>2, HeldClient
    <2>4. Ahead(i, Len(Inbox) + 1)
      <3>1. pc[q] \in {"up", "sending"}
        BY <2>1, <2>3
      <3> QED
        BY <2>3, <3>1 DEF Ordered, UpAhead
    <2>5. \A k : k < Len(Inbox) + 1 /\ k \in DOMAIN Inbox => k < Len(Inbox') + 1
      BY <1>1, InboxType
    <2> QED
      BY <1>1, <1>2, <2>4, <2>5 DEF Ahead, Registered
  <1> QED
    BY <1>4, <1>5, <1>6 DEF Ordered

\* The client with the number i announces its queues.
LEMMA OrderedCreation ==
  ASSUME IInv, NEW p \in Procs, ClientStep(p), SendQueueCreation(p), NEW i \in Nat, clientId[p] = i,
         out[p] = current, Proper(i), Ordered(i), Inbox' = Append(Inbox, Creation(i))
  PROVE  Ordered(i)'
  <1> USE DEF IInv
  <1>1. /\ pc[p] = "announce" /\ Creation(i) \in Message /\ Deletion(i) \in Message
        /\ \A q \in Procs \ {p} : pc'[q] = pc[q]
    BY OthersFrame DEF SendQueueCreation, Goto, Message, Creation, Deletion
  <1>2. ~Announced(i)
    <2> SUFFICES ASSUME NEW q \in Procs, out[q] = current, clientId[q] = i, pc[q] \in Announcing
                 PROVE FALSE
      BY DEF Announced
    <2>1. q = p
      BY OneHolder
    <2> QED
      BY <1>1, <2>1 DEF Announcing, Ended, Closing
  <1>3. /\ Creation(i) \notin Unvisited /\ Deletion(i) \notin Unvisited /\ ~Registered(i)
        /\ Creation(i) # Deletion(i)
    BY <1>2, DifferentMessages DEF Senders, Registered, TypeOK
  <1>4. message # Creation(i) /\ message # Deletion(i)
    BY <1>1, <1>3, RegistrationAssumption DEF Unvisited
  <1>5. \A k \in DOMAIN Inbox : Inbox[k] # Creation(i) /\ Inbox[k] # Deletion(i)
    BY <1>3 DEF Unvisited, ToSet, Inbox
  <1>6. /\ DOMAIN Inbox' = 1..(Len(Inbox) + 1) /\ Len(Inbox') = Len(Inbox) + 1
        /\ \A k \in 1..Len(Inbox) : Inbox'[k] = Inbox[k]
        /\ Inbox'[Len(Inbox) + 1] = Creation(i)
        /\ DOMAIN Inbox = 1..Len(Inbox) /\ Len(Inbox) \in Nat
    <2>1. \A s \in Seq(Message), m \in Message :
            /\ DOMAIN Append(s, m) = 1..(Len(s) + 1) /\ Len(Append(s, m)) = Len(s) + 1
            /\ \A k \in 1..Len(s) : Append(s, m)[k] = s[k]
            /\ Append(s, m)[Len(s) + 1] = m
      BY AppendProperties
    <2> QED
      BY <1>1, <2>1, InboxType
  <1>7. \A k \in DOMAIN Inbox' : /\ Inbox'[k] # Deletion(i)
                                 /\ Inbox'[k] = Creation(i) => k = Len(Inbox) + 1
    BY <1>3, <1>5, <1>6
  <1>8. message' = message /\ c2sQueues' = c2sQueues /\ current' = current
    BY ClientFrame DEF maps
  <1>9. CreationOnce(i)'
    BY <1>3, <1>4, <1>7, <1>8 DEF CreationOnce, Registered
  <1>10. DeletionOnce(i)'
    BY <1>4, <1>7, <1>8 DEF DeletionOnce
  <1>11. UpAhead(i)'
    <2>1. Len(Inbox) + 1 \in DOMAIN Inbox' /\ Len(Inbox) + 1 < Len(Inbox') + 1
      BY <1>6
    <2> QED
      BY <1>6, <2>1 DEF UpAhead, Ahead
  <1> QED
    BY <1>9, <1>10, <1>11 DEF Ordered

\* It leaves.
LEMMA OrderedDeletion ==
  ASSUME IInv, NEW p \in Procs, ClientChoice(p), SendQueueDeletion(p),
         NEW i \in Nat, clientId[p] = i,
         out[p] = current, Proper(i), Ordered(i), Inbox' = Append(Inbox, Deletion(i))
  PROVE  Ordered(i)'
  <1> USE DEF IInv
  <1>1. /\ pc[p] = "up" /\ pc'[p] = "closing c2s"
        /\ Creation(i) \in Message /\ Deletion(i) \in Message
        /\ out'[p] = out[p] /\ clientId'[p] = clientId[p]
        /\ \A q \in Procs \ {p} : pc'[q] = pc[q] /\ out'[q] = out[q] /\ clientId'[q] = clientId[q]
        /\ Creation(i) # Deletion(i)
    BY OthersFrame, DifferentMessages DEF SendQueueDeletion, Goto, Message, Creation, Deletion,
         TypeOK
  <1>2. ~Left(i)
    <2> SUFFICES ASSUME NEW q \in Procs, out[q] = current, clientId[q] = i,
                        pc[q] \in Closing \cup Ended
                 PROVE FALSE
      BY DEF Left
    <2>1. q = p
      BY OneHolder
    <2> QED
      BY <1>1, <2>1 DEF Ended, Closing
  <1>3. message # Deletion(i) /\ \A k \in DOMAIN Inbox : Inbox[k] # Deletion(i)
    BY <1>2 DEF Ordered, DeletionOnce
  <1>4. /\ DOMAIN Inbox' = 1..(Len(Inbox) + 1) /\ Len(Inbox') = Len(Inbox) + 1
        /\ \A k \in 1..Len(Inbox) : Inbox'[k] = Inbox[k]
        /\ Inbox'[Len(Inbox) + 1] = Deletion(i)
        /\ DOMAIN Inbox = 1..Len(Inbox) /\ Len(Inbox) \in Nat
    <2>1. \A s \in Seq(Message), m \in Message :
            /\ DOMAIN Append(s, m) = 1..(Len(s) + 1) /\ Len(Append(s, m)) = Len(s) + 1
            /\ \A k \in 1..Len(s) : Append(s, m)[k] = s[k]
            /\ Append(s, m)[Len(s) + 1] = m
      BY AppendProperties
    <2> QED
      BY <1>1, <2>1, InboxType
  <1>5. \A k \in DOMAIN Inbox' :
          /\ Inbox'[k] = Creation(i) => k \in DOMAIN Inbox /\ Inbox[k] = Creation(i)
          /\ Inbox'[k] = Deletion(i) => k = Len(Inbox) + 1
    <2>1. \A k \in 1..(Len(Inbox) + 1) : k \in 1..Len(Inbox) \/ k = Len(Inbox) + 1
      BY <1>4
    <2> QED
      BY <1>1, <1>3, <1>4, <2>1
  <1>6. message' = message /\ c2sQueues' = c2sQueues /\ current' = current
    BY ClientFrame DEF maps
  <1>7. Left(i)'
    BY <1>1, <1>6 DEF Left, Closing
  <1>8. Ahead(i, Len(Inbox) + 1)
    BY <1>1 DEF Ordered, UpAhead
  <1>9. \/ Registered(i)' \/ message' = Creation(i)
        \/ \E j \in DOMAIN Inbox' : j < Len(Inbox) + 1 /\ Inbox'[j] = Creation(i)
    <2>1. ASSUME NEW j \in DOMAIN Inbox PROVE j \in DOMAIN Inbox' /\ Inbox'[j] = Inbox[j]
      BY <1>4
    <2> QED
      BY <1>6, <1>8, <2>1 DEF Ahead, Registered
  <1>10. CreationOnce(i)'
    BY <1>5, <1>6 DEF Ordered, CreationOnce, Registered
  <1>11. DeletionOnce(i)'
    <2>1. ASSUME NEW k \in DOMAIN Inbox', Inbox'[k] = Deletion(i)
          PROVE  Ahead(i, k)' /\ \A j \in DOMAIN Inbox' : Inbox'[j] = Deletion(i) => j = k
      BY <1>5, <1>9, <2>1 DEF Ahead
    <2> QED
      BY <1>3, <1>6, <1>7, <2>1 DEF DeletionOnce
  <1>12. UpAhead(i)'
    <2> SUFFICES ASSUME NEW q \in Procs, out'[q] = current, clientId'[q] = i,
                        pc'[q] \in {"up", "sending"}
                 PROVE FALSE
      BY <1>6 DEF UpAhead
    <2>1. q # p /\ out[q] = current /\ clientId[q] = i
      BY <1>1
    <2> QED
      BY <2>1, OneHolder
  <1> QED
    BY <1>10, <1>11, <1>12 DEF Ordered

\* A client's step keeps the order: it announces its queues once, and then leaves.
LEMMA OrderClient ==
  ASSUME IInv, Order, NEW p \in Procs, ClientStep(p) \/ ClientChoice(p)
  PROVE  Order'
  <1> USE DEF IInv
  <1>1. SUFFICES ASSUME Alive, NEW i \in Nat, Proper(i)' PROVE Ordered(i)'
    BY ClientFrame DEF Order, Alive
  <1>2. Proper(i) /\ Ordered(i)
    BY <1>1, ProperClient DEF Order
  <1>3. current' = current /\ (clientId[p] \in Nat \/ clientId[p] = None)
    BY ClientFrame DEF TypeOK, Ids
  <1>4. current \in Runs
    BY DEF TypeOK
  <1>5. CASE SendQueueCreation(p) /\ clientId[p] = i /\ out[p] = current
    <2>1. Creation(i) \in Message /\ Register(p, Creation(i)) /\ ClientStep(p)
      BY <1>5 DEF SendQueueCreation, Creation, Message, ClientStep
    <2>2. Inbox' = Append(Inbox, Creation(i))
      BY <1>3, <1>4, <1>5, <2>1, TypeRegister DEF Inbox
    <2> QED
      BY <1>2, <1>5, <2>1, <2>2, OrderedCreation
  <1>6. CASE SendQueueDeletion(p) /\ clientId[p] = i /\ out[p] = current
    <2>1. Deletion(i) \in Message /\ Register(p, Deletion(i)) /\ ClientChoice(p)
      BY <1>6 DEF SendQueueDeletion, Deletion, Message, ClientChoice
    <2>2. Inbox' = Append(Inbox, Deletion(i))
      BY <1>3, <1>4, <1>6, <2>1, TypeRegister DEF Inbox
    <2> QED
      BY <1>2, <1>6, <2>1, <2>2, OrderedDeletion
  <1>7. CASE /\ ~(SendQueueCreation(p) /\ clientId[p] = i /\ out[p] = current)
             /\ ~(SendQueueDeletion(p) /\ clientId[p] = i /\ out[p] = current)
    <2>1. \/ Inbox' = Inbox
          \/ \E msg \in Message : Sends(p, msg) /\ out[p] = current /\ Inbox' = Append(Inbox, msg)
      BY <1>3, UnvisitedClient DEF Inbox
    <2>2. ASSUME NEW msg \in Message, Sends(p, msg), out[p] = current
          PROVE  msg # Creation(i) /\ msg # Deletion(i)
      BY <1>7, <2>2, DifferentMessages DEF Sends, Creation, Deletion
    <2>3. \/ Inbox' = Inbox
          \/ \E msg : /\ Inbox' = Append(Inbox, msg) /\ msg \in Message
                      /\ msg # Creation(i) /\ msg # Deletion(i)
      BY <2>1, <2>2
    <2> QED
      BY <1>2, <1>7, <2>3, OrderedQuietly
  <1> QED
    BY <1>5, <1>6, <1>7

\* A message comes under the registration thread's eyes.
LEMMA OrderedReceived ==
  ASSUME IInv, ReceiveRegistration, NEW i \in Nat, Ordered(i)
  PROVE  Ordered(i)'
  <1> USE DEF IInv
  <1>1. /\ message = None /\ Inbox \in Seq(Message) /\ Inbox # << >>
        /\ message' = Head(Inbox) /\ Inbox' = Tail(Inbox)
        /\ UNCHANGED <<c2sQueues, pc, out, clientId, current>>
    <2>1. UNCHANGED <<pc, out, clientId, current>>
      BY RegistrationFrame DEF RegistrationStep, clientVars
    <2>2. message = None /\ message' = Head(Inbox) /\ Inbox # << >> /\ c2sQueues' = c2sQueues
      BY DEF ReceiveRegistration, Inbox, maps
    <2>3. Inbox' = Tail(Inbox)
      BY <2>1 DEF ReceiveRegistration, Inbox, TypeOK
    <2> QED
      BY <2>1, <2>2, <2>3, InboxType
  <1>2. /\ Len(Inbox) \in Nat /\ Len(Inbox) >= 1 /\ DOMAIN Inbox = 1..Len(Inbox)
        /\ message' = Inbox[1]
        /\ DOMAIN Inbox' = 1..(Len(Inbox) - 1) /\ Len(Inbox') = Len(Inbox) - 1
        /\ \A k \in 1..(Len(Inbox) - 1) : Inbox'[k] = Inbox[k + 1]
    <2>1. \A s \in Seq(Message) : s # << >> =>
            /\ Len(s) \in Nat \ {0} /\ Head(s) = s[1]
            /\ DOMAIN Tail(s) = 1..(Len(s) - 1) /\ Len(Tail(s)) = Len(s) - 1
            /\ \A k \in 1..(Len(s) - 1) : Tail(s)[k] = s[k + 1]
      BY Shifted
    <2> QED
      BY <1>1, <2>1, InboxType
  <1>3. /\ 1 \in DOMAIN Inbox
        /\ \A k \in DOMAIN Inbox' : k + 1 \in DOMAIN Inbox /\ Inbox'[k] = Inbox[k + 1]
             /\ k \in Nat /\ k + 1 # 1
        /\ \A k \in DOMAIN Inbox :
             k = 1 \/ (k - 1 \in DOMAIN Inbox' /\ Inbox'[k - 1] = Inbox[k] /\ k \in Nat)
    <2>1. ASSUME NEW k \in DOMAIN Inbox, k # 1
          PROVE  k - 1 \in DOMAIN Inbox' /\ Inbox'[k - 1] = Inbox[k]
      <3>1. k - 1 \in 1..(Len(Inbox) - 1) /\ (k - 1) + 1 = k
        BY <1>2, <2>1
      <3>2. Inbox'[k - 1] = Inbox[(k - 1) + 1]
        BY <1>2, <3>1
      <3> QED
        BY <1>2, <3>1, <3>2
    <2>2. \A k \in DOMAIN Inbox : k \in Nat
      BY <1>2
    <2>3. \A k \in DOMAIN Inbox' : k + 1 \in DOMAIN Inbox /\ Inbox'[k] = Inbox[k + 1]
            /\ k \in Nat /\ k + 1 # 1
      BY <1>2
    <2> QED
      BY <1>2, <2>1, <2>2, <2>3
  <1>4. message # Creation(i) /\ message # Deletion(i)
    BY <1>1, RegistrationAssumption DEF Creation, Deletion, Message
  <1>5. (Left(i)' <=> Left(i)) /\ (Registered(i)' <=> Registered(i))
    BY <1>1 DEF Left, Registered
  <1>6. ASSUME NEW k \in Nat, Ahead(i, k + 1) PROVE Ahead(i, k)'
    <2>1. CASE Registered(i)
      BY <1>5, <2>1 DEF Ahead
    <2>2. CASE \E j \in DOMAIN Inbox : j < k + 1 /\ Inbox[j] = Creation(i)
      <3>1. PICK j \in DOMAIN Inbox : j < k + 1 /\ Inbox[j] = Creation(i)
        BY <2>2
      <3>2. CASE j = 1
        BY <1>2, <3>1, <3>2 DEF Ahead
      <3>3. CASE j # 1
        <4>1. j - 1 \in DOMAIN Inbox' /\ Inbox'[j - 1] = Creation(i) /\ j - 1 < k
          BY <1>3, <3>1, <3>3
        <4> QED
          BY <4>1 DEF Ahead
      <3> QED
        BY <3>2, <3>3
    <2> QED
      BY <1>4, <1>6, <2>1, <2>2 DEF Ahead
  <1>7. CreationOnce(i)'
    <2>1. message' = Creation(i) => ~Registered(i)
      BY <1>2, <1>3 DEF Ordered, CreationOnce
    <2>2. ASSUME NEW k \in DOMAIN Inbox', Inbox'[k] = Creation(i)
          PROVE  /\ ~Registered(i) /\ message' # Creation(i)
                 /\ \A j \in DOMAIN Inbox' : Inbox'[j] = Creation(i) => j = k
      <3>1. k + 1 \in DOMAIN Inbox /\ Inbox[k + 1] = Creation(i) /\ k + 1 # 1 /\ k \in Nat
        BY <1>3, <2>2
      <3>2. \A j \in DOMAIN Inbox : Inbox[j] = Creation(i) => j = k + 1
        BY <3>1 DEF Ordered, CreationOnce
      <3>3. ASSUME NEW j \in DOMAIN Inbox', Inbox'[j] = Creation(i) PROVE j = k
        <4>1. j + 1 = k + 1 /\ j \in Nat
          BY <1>3, <3>2, <3>3
        <4> QED
          BY <3>1, <4>1
      <3> QED
        BY <1>2, <1>3, <3>1, <3>2, <3>3 DEF Ordered, CreationOnce
    <2> QED
      BY <1>5, <2>1, <2>2 DEF CreationOnce
  <1>8. DeletionOnce(i)'
    <2>1. ASSUME message' = Deletion(i) PROVE Registered(i) /\ Left(i)
      <3>1. Ahead(i, 1) /\ Left(i)
        BY <1>2, <1>3, <2>1 DEF Ordered, DeletionOnce
      <3>2. \A j \in DOMAIN Inbox : ~(j < 1)
        BY <1>2
      <3> QED
        BY <1>4, <3>1, <3>2 DEF Ahead
    <2>2. ASSUME NEW k \in DOMAIN Inbox', Inbox'[k] = Deletion(i)
          PROVE  /\ Ahead(i, k)' /\ Left(i) /\ message' # Deletion(i)
                 /\ \A j \in DOMAIN Inbox' : Inbox'[j] = Deletion(i) => j = k
      <3>1. k + 1 \in DOMAIN Inbox /\ Inbox[k + 1] = Deletion(i) /\ k + 1 # 1 /\ k \in Nat
        BY <1>3, <2>2
      <3>2. /\ \A j \in DOMAIN Inbox : Inbox[j] = Deletion(i) => j = k + 1
            /\ Ahead(i, k + 1) /\ Left(i)
        BY <3>1 DEF Ordered, DeletionOnce
      <3>3. ASSUME NEW j \in DOMAIN Inbox', Inbox'[j] = Deletion(i) PROVE j = k
        <4>1. j + 1 = k + 1 /\ j \in Nat
          BY <1>3, <3>2, <3>3
        <4> QED
          BY <3>1, <4>1
      <3> QED
        BY <1>2, <1>3, <1>6, <3>1, <3>2, <3>3
    <2> QED
      BY <1>5, <2>1, <2>2 DEF DeletionOnce
  <1>9. UpAhead(i)'
    <2> SUFFICES ASSUME NEW q \in Procs, out'[q] = current', clientId'[q] = i,
                        pc'[q] \in {"up", "sending"}
                 PROVE  Ahead(i, Len(Inbox) + 1)'
      BY DEF UpAhead
    <2>1. Ahead(i, Len(Inbox) + 1)
      BY <1>1 DEF Ordered, UpAhead
    <2>2. PICK n \in Nat : n = Len(Inbox)
      BY <1>2
    <2>3. Ahead(i, n + 1)
      BY <2>1, <2>2
    <2>4. Ahead(i, n)'
      BY <1>6, <2>3
    <2>5. n = Len(Inbox') + 1
      BY <1>2, <2>2
    <2> QED
      BY <2>4, <2>5 DEF Ahead
  <1> QED
    BY <1>7, <1>8, <1>9 DEF Ordered

\* Once its queues are open, a client is registered.
LEMMA OrderedOpened ==
  ASSUME IInv, OpenRequestQueue, Alive', NEW i \in Nat, Ordered(i)
  PROVE  Ordered(i)'
  <1> USE DEF IInv
  <1>1. /\ message = Creation(message.id) /\ message # None
        /\ c2sQueues' = Bind(c2sQueues, message.id, c2sOwner[message.id]) /\ message' = None
        /\ Inbox' = Inbox
        /\ UNCHANGED <<pc, out, clientId, current>>
    <2>1. UNCHANGED <<pc, out, clientId, current>>
      BY RegistrationFrame DEF RegistrationStep, clientVars
    <2>2. /\ c2sQueues' = Bind(c2sQueues, message.id, c2sOwner[message.id]) /\ message' = None
          /\ toService' = toService
      BY DEF OpenRequestQueue, Throw, Alive, registrationQueues
    <2>3. message # None /\ message.type = "QUEUE_CREATION" /\ message \in Message
      BY DEF OpenRequestQueue, Visiting, TypeOK
    <2>4. message = Creation(message.id)
      BY <2>3 DEF Message, Creation
    <2> QED
      BY <2>1, <2>2, <2>3, <2>4 DEF Inbox
  <1>2. \A j \in Nat : message' # Creation(j) /\ message' # Deletion(j)
    BY <1>1, RegistrationAssumption DEF Creation, Deletion, Message
  <1>3. /\ Registered(i)' <=> Registered(i) \/ message = Creation(i)
        /\ message # Deletion(i)
    BY <1>1, DifferentMessages DEF Registered, Bind
  <1>4. Left(i)' <=> Left(i)
    BY <1>1 DEF Left
  <1>5. ASSUME NEW k, Ahead(i, k) PROVE Ahead(i, k)'
    BY <1>1, <1>3, <1>5 DEF Ahead
  <1>6. CreationOnce(i)'
    BY <1>1, <1>2, <1>3 DEF Ordered, CreationOnce
  <1>7. DeletionOnce(i)'
    BY <1>1, <1>2, <1>3, <1>4, <1>5 DEF Ordered, DeletionOnce
  <1>8. UpAhead(i)'
    <2>1. Ahead(i, Len(Inbox) + 1) => Ahead(i, Len(Inbox) + 1)'
      BY <1>1, <1>3 DEF Ahead
    <2> QED
      BY <1>1, <2>1 DEF Ordered, UpAhead
  <1> QED
    BY <1>6, <1>7, <1>8 DEF Ordered

\* A client that is removed has left.
LEMMA OrderedRemoved ==
  ASSUME IInv, VisitQueueDeletion, Alive', NEW i \in Nat, Proper(i), Ordered(i)
  PROVE  Ordered(i)'
  <1> USE DEF IInv
  <1>1. /\ message = Deletion(message.id) /\ message # None
        /\ c2sQueues' = Unbind(c2sQueues, message.id) /\ message' = None
        /\ Inbox' = Inbox
        /\ UNCHANGED <<pc, out, clientId, current>>
    <2>1. UNCHANGED <<pc, out, clientId, current>>
      BY RegistrationFrame DEF RegistrationStep, clientVars
    <2>2. /\ c2sQueues' = Unbind(c2sQueues, message.id) /\ message' = None /\ toService' = toService
      BY DEF VisitQueueDeletion, Throw, Alive, registrationQueues
    <2>3. message # None /\ message.type = "QUEUE_DELETION" /\ message \in Message
      BY DEF VisitQueueDeletion, Visiting, TypeOK
    <2>4. message = Deletion(message.id)
      BY <2>3 DEF Message, Deletion
    <2> QED
      BY <2>1, <2>2, <2>3, <2>4 DEF Inbox
  <1>2. message' # Creation(i) /\ message' # Deletion(i) /\ message # Creation(i)
    BY <1>1, RegistrationAssumption, DifferentMessages DEF Creation, Deletion, Message
  <1>3. Left(i)' <=> Left(i)
    BY <1>1 DEF Left
  <1>4. Registered(i)' => Registered(i)
    BY <1>1 DEF Registered, Unbind
  <1>5. CreationOnce(i)'
    BY <1>1, <1>2, <1>4 DEF Ordered, CreationOnce
  <1>6. CASE message # Deletion(i)
    <2>1. Registered(i) => Registered(i)'
      BY <1>1, <1>6 DEF Registered, Unbind
    <2>2. ASSUME NEW k, Ahead(i, k) PROVE Ahead(i, k)'
      BY <1>1, <1>2, <2>1, <2>2 DEF Ahead
    <2>3. DeletionOnce(i)'
      BY <1>1, <1>2, <1>3, <2>2 DEF Ordered, DeletionOnce
    <2>4. Ahead(i, Len(Inbox) + 1) => Ahead(i, Len(Inbox) + 1)'
      BY <1>1, <1>2, <2>1 DEF Ahead
    <2>5. UpAhead(i)'
      BY <1>1, <2>4 DEF Ordered, UpAhead
    <2> QED
      BY <1>5, <2>3, <2>5 DEF Ordered
  <1>7. CASE message = Deletion(i)
    <2>1. Left(i) /\ \A k \in DOMAIN Inbox : Inbox[k] # Deletion(i)
      BY <1>7 DEF Ordered, DeletionOnce
    <2>2. DeletionOnce(i)'
      BY <1>1, <1>2, <2>1 DEF DeletionOnce
    <2>3. PICK q \in Procs : out[q] = current /\ clientId[q] = i /\ pc[q] \in Closing \cup Ended
      BY <2>1 DEF Left
    <2>4. \A r \in Procs : out[r] = current /\ clientId[r] = i => r = q
      BY <2>3, OneHolder
    <2>5. pc[q] \notin {"up", "sending"}
      BY <2>3 DEF Closing, Ended
    <2>6. UpAhead(i)'
      BY <1>1, <2>4, <2>5 DEF UpAhead
    <2> QED
      BY <1>5, <2>2, <2>6 DEF Ordered
  <1> QED
    BY <1>6, <1>7

\* The other steps leave the messages and the registered clients alone.
LEMMA OrderedKept ==
  ASSUME UNCHANGED <<c2sQueues, toService, current, pc, out, clientId>>, NEW i \in Nat,
         message' = message \/ (message # Creation(i) /\ message # Deletion(i)
                                /\ message' # Creation(i) /\ message' # Deletion(i)),
         Ordered(i)
  PROVE  Ordered(i)'
  <1>1. Inbox' = Inbox /\ (Registered(i)' <=> Registered(i)) /\ (Left(i)' <=> Left(i))
        /\ (message' = Creation(i) <=> message = Creation(i))
        /\ (message' = Deletion(i) <=> message = Deletion(i))
    BY DEF Inbox, Registered, Left
  <1>2. ASSUME NEW k, Ahead(i, k) PROVE Ahead(i, k)'
    BY <1>1, <1>2 DEF Ahead
  <1>3. Ahead(i, Len(Inbox) + 1) => Ahead(i, Len(Inbox) + 1)'
    BY <1>1 DEF Ahead
  <1>4. CreationOnce(i)'
    BY <1>1 DEF Ordered, CreationOnce
  <1>5. DeletionOnce(i)'
    BY <1>1, <1>2 DEF Ordered, DeletionOnce
  <1>6. UpAhead(i)'
    BY <1>1, <1>3 DEF Ordered, UpAhead
  <1> QED
    BY <1>4, <1>5, <1>6 DEF Ordered

\* The registration thread takes messages in their order.
LEMMA OrderService ==
  ASSUME IInv, Order, RegistrationStep
  PROVE  Order'
  <1> USE DEF IInv
  <1>1. UNCHANGED <<pc, out, in, clientId, current>> /\ Alive
    BY RegistrationFrame DEF clientVars
  <1>2. SUFFICES ASSUME Alive', NEW i \in Nat, Proper(i)' PROVE Ordered(i)'
    BY DEF Order
  <1>3. Proper(i) /\ Ordered(i)
    BY <1>1, <1>2 DEF Order, Proper
  <1>4. CASE ReceiveRegistration
    BY <1>3, <1>4, OrderedReceived
  <1>5. CASE OpenRequestQueue
    BY <1>2, <1>3, <1>5, OrderedOpened
  <1>6. CASE VisitQueueDeletion
    BY <1>2, <1>3, <1>6, OrderedRemoved
  <1>7. CASE VisitRegistration
    <2>1. message.type = "REGISTRATION" /\ message' = None
      BY <1>7 DEF VisitRegistration, Visiting
    <2>2. message' # Creation(i) /\ message' # Deletion(i)
      BY <2>1, RegistrationAssumption DEF Creation, Deletion, Message
    <2>3. message # Creation(i) /\ message # Deletion(i)
      BY <2>1, DifferentMessages
    <2> QED
      BY <1>1, <1>3, <1>7, <2>2, <2>3, OrderedKept DEF VisitRegistration, maps
  <1>8. CASE ~ReceiveRegistration /\ ~OpenRequestQueue /\ ~VisitQueueDeletion /\ ~VisitRegistration
    <2>1. UNCHANGED <<c2sQueues, toService, message>>
      BY <1>2, <1>8 DEF RegistrationStep, CreateRegistrationQueues, VisitQueueCreation, FinishReg,
                        Dispatch, Throw, registrationQueues, maps, Alive
    <2> QED
      BY <1>1, <1>3, <2>1, OrderedKept
  <1> QED
    BY <1>4, <1>5, <1>6, <1>7, <1>8

\* A new run has no messages, and no clients yet.
LEMMA OrderProcess ==
  ASSUME IInv, Kill \/ Restart
  PROVE  Order'
  <1> USE DEF IInv
  <1>1. message' = None /\ UNCHANGED <<out, toService>>
    BY ProcessFrame DEF clientVars, registrationQueues
  <1>2. CASE current' = current
    <2>1. ~Alive'
      <3>1. current \in Nat
        BY RunsNumbered DEF TypeOK
      <3> QED
        BY <1>2, <3>1, ProcessFrame DEF Alive
    <2> QED
      BY <2>1 DEF Order
  <1>3. CASE current' # current
    <2>1. (\A p \in Procs : out'[p] # current') /\ Inbox' = << >>
      BY <1>3, BegunProcess DEF Inbox
    <2>2. \A i \in Nat : message' # Creation(i) /\ message' # Deletion(i)
      BY <1>1, RegistrationAssumption DEF Creation, Deletion, Message
    <2>3. DOMAIN Inbox' = {}
      BY <2>1
    <2>4. \A i \in Nat : Ordered(i)'
      BY <2>1, <2>2, <2>3 DEF Ordered, CreationOnce, DeletionOnce, UpAhead
    <2> QED
      BY <2>4 DEF Order
  <1> QED
    BY <1>2, <1>3

\* One step of any of the processes.
LEMMA OrderStep ==
  ASSUME IInv, Order, [Next]_vars
  PROVE  Order'
  <1> USE DEF IInv
  <1>1. ASSUME NEW w \in Workers, WorkerStep(w) \/ WriteRacing(w) \/ SendToClosed(w) PROVE Order'
    <2>1. UNCHANGED <<c2sQueues, toService, current, pc, out, in, clientId, message>> /\ Alive
      BY <1>1, WorkerFrame DEF nonWorkerVars, clientVars, registrationQueues, maps
    <2>2. \A i \in Nat : Proper(i)' => Proper(i)
      BY <2>1 DEF Proper
    <2> QED
      BY <2>1, <2>2, OrderedKept DEF Order
  <1>2. CASE UNCHANGED vars
    <2>1. UNCHANGED <<c2sQueues, toService, current, pc, out, in, clientId, message, fault>>
      BY <1>2 DEF vars, clientVars, registrationQueues, maps, serviceVars
    <2>2. \A i \in Nat : Proper(i)' => Proper(i)
      BY <2>1 DEF Proper
    <2> QED
      BY <2>1, <2>2, OrderedKept DEF Order, Alive
  <1> QED
    BY <1>1, <1>2, OrderClient, OrderService, OrderProcess DEF Next

\* Before anything has happened.
LEMMA OrderInit == Init => Order
  <1> SUFFICES ASSUME Init, NEW i \in Nat PROVE Ordered(i)
    BY DEF Order
  <1>1. current \in Runs /\ toService[current] = << >>
    <2>1. current = 1 /\ \A n \in Runs : toService[n] = << >>
      BY DEF Init
    <2>2. 1 \in Runs
      BY RunsNumbered
    <2> QED
      BY <2>1, <2>2
  <1>2. Inbox = << >> /\ DOMAIN Inbox = {} /\ message = None
    <2>1. Inbox = << >> /\ message = None
      BY <1>1 DEF Init, Inbox
    <2> QED
      BY <2>1
  <1>3. message # Creation(i) /\ message # Deletion(i)
    BY <1>2, RegistrationAssumption DEF Creation, Deletion, Message
  <1>4. \A p \in Procs : pc[p] = "new"
    BY DEF Init
  <1> QED
    BY <1>2, <1>3, <1>4 DEF Ordered, CreationOnce, DeletionOnce, UpAhead

\* The second layer holds always.
LEMMA OrderInv == Spec => [](IInv /\ Order)
  BY InitInv, OrderInit, StepInv, OrderStep, PTL DEF Spec
-----------------------------------------------------------------------------
(* What the service died of *)

\* A service that has died does nothing, and the numbers stay.
LEMMA DeadService ==
  ASSUME IInv, [Next]_vars, ~Alive, ~Alive'
  PROVE  /\ UNCHANGED <<fault, message, current, workerPc, job, got>>
         /\ \A q \in Procs : clientId[q] # None =>
              out'[q] = out[q] /\ in'[q] = in[q] /\ clientId'[q] = clientId[q]
         /\ disputed \subseteq disputed'
  <1> USE DEF IInv
  <1>1. ASSUME NEW p \in Procs, ClientStep(p) \/ ClientChoice(p)
        PROVE  /\ UNCHANGED <<fault, message, current, workerPc, job, got>>
               /\ \A q \in Procs : clientId[q] # None =>
                    out'[q] = out[q] /\ in'[q] = in[q] /\ clientId'[q] = clientId[q]
               /\ disputed \subseteq disputed'
    <2>1. UNCHANGED <<fault, message, current>>
      BY <1>1, ClientFrame
    <2>2. UNCHANGED <<workerPc, job, got>>
      BY <1>1 DEF ClientStep, ClientChoice, OpenC2S, OpenS2C, SendRegistration, ReceiveId,
         UnlinkC2S, CreateC2S, UnlinkS2C, CreateS2C, SendQueueCreation, BeginRequest, SendRequest,
         RefuseResponse, Exchange, SendQueueDeletion, CloseC2S, CloseS2C, Die, serviceVars,
         workerVars
    <2>3. disputed \subseteq disputed'
      BY <1>1, OwnFrame, TypeReceive
    <2> QED
      BY <1>1, <2>1, <2>2, <2>3, HeldClient
  <1>2. CASE UNCHANGED vars
    BY <1>2 DEF vars, clientVars, serviceVars, workerVars
  <1>3. ~RegistrationStep /\ ~Kill /\ ~Restart
    BY RegistrationFrame DEF Kill, Restart, Alive
  <1>4. \A w \in Workers : ~(WorkerStep(w) \/ WriteRacing(w) \/ SendToClosed(w))
    BY WorkerFrame
  <1> QED
    BY <1>1, <1>2, <1>3, <1>4 DEF Next

\* A service that has died of a message still has it under its eyes.
Accused ==
  fault \in {"already registered", "not registered", "failed to open message queue", "data race"} =>
    message \in Message /\ message.type # "REGISTRATION"

\* A service that died of a message still has it.
LEMMA AccusedStep ==
  ASSUME IInv, Accused, [Next]_vars
  PROVE  Accused'
  <1> USE DEF IInv
  <1>1. CASE Alive'
    BY <1>1 DEF Accused, Alive
  <1>2. CASE ~Alive /\ ~Alive'
    BY <1>2, DeadService DEF Accused
  <1>3. CASE Alive /\ ~Alive'
    <2>1. CASE RegistrationStep
      <3>1. message' = message /\ message # None
              /\ message.type \in {"QUEUE_CREATION", "QUEUE_DELETION"}
        BY <1>3, <2>1 DEF RegistrationStep, CreateRegistrationQueues, ReceiveRegistration,
           VisitRegistration, VisitQueueCreation, OpenRequestQueue, VisitQueueDeletion, FinishReg,
           Dispatch, Throw, Visiting, Alive
      <3> QED
        BY <3>1 DEF Accused, TypeOK
    <2>2. ASSUME NEW w \in Workers, WorkerStep(w) \/ WriteRacing(w) \/ SendToClosed(w)
          PROVE  Accused'
      <3>1. message' = message
        BY <2>2, WorkerFrame DEF nonWorkerVars
      <3>2. CASE WriteRacing(w)
        BY <3>1, <3>2 DEF WriteRacing, MapsChange, Visiting, Accused, TypeOK
      <3>3. CASE ~WriteRacing(w)
        <4>1. fault' = "write to nobody"
          BY <1>3, <2>2, <3>3 DEF WorkerStep, Schedule, WriteBlocking, SendResponse, SendToClosed,
                                  Alive
        <4> QED
          BY <4>1 DEF Accused
      <3> QED
        BY <3>2, <3>3
    <2>3. CASE Kill
      BY <2>3 DEF Kill, Accused
    <2>4. ASSUME NEW p \in Procs, ClientStep(p) \/ ClientChoice(p) PROVE FALSE
      BY <1>3, <2>4, ClientFrame DEF Alive
    <2>5. ~Restart /\ ~UNCHANGED vars
      BY <1>3 DEF Restart, vars, serviceVars, Alive
    <2> QED
      BY <2>1, <2>2, <2>3, <2>4, <2>5 DEF Next
  <1> QED
    BY <1>1, <1>2, <1>3

\* A client is registered twice, or removed without being there, only under a
\* number that a client with the queues of two runs announced.
LEMMA KeptStep ==
  ASSUME IInv, Order, Accused, ProtocolKept, [Next]_vars
  PROVE  ProtocolKept'
  <1> USE DEF IInv
  <1>1. CASE fault' \notin {"already registered", "not registered"}
    BY <1>1 DEF ProtocolKept
  <1>2. CASE fault' \in {"already registered", "not registered"} /\ ~Alive
    <2>1. fault' = fault /\ message' = message /\ current' = current
      BY <1>2, DeadService DEF Alive
    <2>2. PICK p \in Procs : Mixed(p) /\ out[p] = current /\ clientId[p] = message.id
      BY <1>2, <2>1 DEF ProtocolKept
    <2>3. clientId[p] # None
      BY <1>2, <2>1, <2>2, MessageTypes, RegistrationAssumption DEF Accused
    <2>4. out'[p] = out[p] /\ in'[p] = in[p] /\ clientId'[p] = clientId[p]
      BY <1>2, <2>3, DeadService DEF Alive
    <2> QED
      BY <2>1, <2>2, <2>4 DEF ProtocolKept, Mixed
  <1>3. CASE fault' \in {"already registered", "not registered"} /\ Alive
    <2>1. VisitQueueCreation \/ VisitQueueDeletion
      <3>1. ASSUME NEW p \in Procs PROVE ~(ClientStep(p) \/ ClientChoice(p))
        BY <1>3, ClientFrame DEF Alive
      <3>2. ASSUME NEW w \in Workers PROVE ~(WorkerStep(w) \/ WriteRacing(w) \/ SendToClosed(w))
        BY <1>3 DEF WorkerStep, Schedule, WriteBlocking, SendResponse, WriteRacing, SendToClosed,
                    Alive
      <3>3. ~Kill /\ ~Restart /\ ~UNCHANGED vars
        BY <1>3 DEF Kill, Restart, vars, serviceVars, Alive
      <3>4. RegistrationStep
        BY <3>1, <3>2, <3>3 DEF Next
      <3> QED
        BY <1>3, <3>4 DEF RegistrationStep, CreateRegistrationQueues, ReceiveRegistration,
           VisitRegistration, OpenRequestQueue, FinishReg, Dispatch, Throw, Alive
    <2>2. /\ UNCHANGED <<out, in, clientId, current, message>>
          /\ message # None /\ message \in Message /\ message.type # "REGISTRATION"
      <3>1. UNCHANGED <<out, in, clientId, current>>
        BY <2>1, RegistrationFrame DEF RegistrationStep, clientVars
      <3>2. message' = message
        BY <1>3, <2>1 DEF VisitQueueCreation, VisitQueueDeletion, Throw, Alive
      <3> QED
        BY <2>1, <3>1, <3>2 DEF VisitQueueCreation, VisitQueueDeletion, Visiting, TypeOK
    <2>3. message.id \in Nat
      BY <2>2, MessageTypes
    <2>4. ~Ordered(message.id)
      <3>1. CASE VisitQueueCreation
        <4>1. message = Creation(message.id)
          BY <2>2, <3>1 DEF VisitQueueCreation, Visiting, Message, Creation
        <4>2. Registered(message.id)
          BY <1>3, <3>1 DEF VisitQueueCreation, Throw, Alive
        <4> QED
          BY <4>1, <4>2 DEF Ordered, CreationOnce
      <3>2. CASE VisitQueueDeletion
        <4>1. message = Deletion(message.id)
          BY <2>2, <3>2 DEF VisitQueueDeletion, Visiting, Message, Deletion
        <4>2. ~Registered(message.id)
          BY <1>3, <3>2 DEF VisitQueueDeletion, Throw, Alive
        <4> QED
          BY <4>1, <4>2 DEF Ordered, DeletionOnce
      <3> QED
        BY <2>1, <3>1, <3>2
    <2>5. ~Proper(message.id)
      BY <1>3, <2>3, <2>4 DEF Order
    <2>6. PICK p \in Procs : out[p] = current /\ clientId[p] = message.id /\ in[p] # current
      BY <2>5 DEF Proper
    <2>7. in[p] # None
      <3>1. clientId[p] # None
        BY <2>3, <2>6, RegistrationAssumption
      <3>2. in[p] \in Runs
        BY <3>1 DEF Stages, Stage
      <3> QED
        BY <3>2, RunsNumbered
    <2> QED
      BY <2>2, <2>6, <2>7 DEF ProtocolKept, Mixed
  <1> QED
    BY <1>1, <1>2, <1>3

\* The protocol is kept always.
LEMMA KeptInv == Spec => [](IInv /\ Order /\ Accused /\ ProtocolKept)
  <1>1. Init => Accused /\ ProtocolKept
    BY DEF Init, Accused, ProtocolKept
  <1> QED
    BY <1>1, InitInv, OrderInit, StepInv, OrderStep, AccusedStep, KeptStep, PTL DEF Spec

\* No client is registered twice and none is removed that is not there, however
\* clients and the service come, go and die, unless a client that opened its two
\* registration queues in two different runs of the service announced the number
\* (visitQueueCreation, visitQueueDeletion; Servicer's constructor).
THEOREM ProtocolIsKept == Spec => []ProtocolKept
  BY KeptInv, PTL
=============================================================================
