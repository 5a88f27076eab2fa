-------------------------------- MODULE Service --------------------------------
(***************************************************************************)
(* The service program from its command line to the bytes of a request.    *)
(* main makes the ShmManager the command line asks for; a client is told   *)
(* its dimensions in the ID message and maps the same memory; a request is *)
(* granted some segments, whose ids travel in the RESPONSE; and both sides *)
(* then read and write the memory through them.                            *)
(*                                                                         *)
(* One client and one request are followed.  The others are what the       *)
(* request finds: how many wait, and which segments are free.  When who    *)
(* may write is the subject of Transfer and of ShmManager.                 *)
(***************************************************************************)
EXTENDS Arguments, Segments, Messages

CONSTANTS None,
          InternalRepSize,      \* the third argument of ShmManager::init, 32
          NumWorkers,           \* NUM_WORKERS
          RegistrationMsgSize,  \* REGISTRATION_MSG_SIZE
          ClientMsgSize,        \* CLIENT_MSG_SIZE
          ClientIds, FileSizes, \* sets to choose from
          MaxWaiting,           \* bound: requests that wait behind this one
          MaxWrites             \* bound: writes to the segments

ASSUME ServiceAssumption ==
  /\ InternalRepSize \in Nat \ {0} /\ NumWorkers \in Nat \ {0}
  /\ RegistrationMsgSize \in Nat /\ RegistrationMsgSize >= IdSize
  /\ ClientMsgSize \in Nat /\ ClientMsgSize >= ResponseSize(<<0>>)
  /\ ClientIds \subseteq Nat /\ \A id \in ClientIds : Representable(id, SizeofInt)
  /\ FileSizes \subseteq Nat
  /\ \A v \in FileSizes \union {IntMax, -(IntMax + 1), InternalRepSize} :
       Representable(v, SizeofSizeT)
  /\ MaxWaiting \in Nat /\ MaxWrites \in Nat

VARIABLES
  geometry,      \* the service's ShmManager, or None
  clientId,      \* the client's number, as the client has it, or None
  view,          \* the client's ShmManager, or None
  wire,          \* the message that is in a queue, or None
  granted,       \* getSegmentIds of the service's segment
  received,      \* the ids the client has of them
  memory,        \* physical segment and offset -> byte
  content,       \* what was written, as one sequence
  writes         \* how many writes there were

serviceVars == <<geometry, clientId, view, wire, granted, received, memory, content, writes>>

ServiceArguments ==
  DefaultArguments \union
    {ScanInt(Required(AddArgument({"--n_sms"}))), ScanInt(Required(AddArgument({"--sms_size"}))),
     Choose(DefaultValue(AddArgument({"--scheduler"}), "ROUND_ROBIN"), {"ROUND_ROBIN", "CREDIT"})}

ServiceInit == /\ geometry = None /\ clientId = None /\ view = None /\ wire = None
               /\ granted = << >> /\ received = << >>
               /\ memory = << >> /\ content = << >> /\ writes = 0

Step(from, to) == pc = from /\ pc' = to /\ UNCHANGED <<argv, words, used, values>>

\* main: ShmManager::init is outside the try block.  What was parsed is not used
\* any more.
Launch ==
  LET g == Geometry(Get(ServiceArguments, "--n_sms"), Get(ServiceArguments, "--sms_size"),
                    InternalRepSize)
  IN /\ pc = "parsed"
     /\ argv' = << >> /\ words' = << >> /\ used' = {} /\ values' = << >>
     /\ \/ /\ Constructs(g) /\ pc' = "serving"
           /\ geometry' = g
           /\ memory' = [a \in (0..(g.num - 1)) \X (0..(g.size - 1)) |-> 0]
        \/ /\ ~Constructs(g) /\ pc' = "aborted"
           /\ UNCHANGED <<geometry, memory>>
     /\ UNCHANGED <<clientId, view, wire, granted, received, content, writes>>
-----------------------------------------------------------------------------
(* The messages.  A message on the wire is what was meant, the bytes that  *)
(* are sent, and the size its class says it has.                           *)

Mail(message, bytes, size) == [message |-> message, bytes |-> bytes, size |-> size]

Registers == /\ Step("serving", "registering")
             /\ wire' = Mail(Registration, SerializeRegistration(Registration), RegistrationSize)
             /\ UNCHANGED <<geometry, clientId, view, granted, received, memory, content, writes>>

\* reg() and visitRegistration.
AnswersId ==
  /\ Step("registering", "numbered")
  /\ DeserializeRegistrationQueue(wire.bytes).type = "REGISTRATION"
  /\ \E id \in ClientIds :
       LET m == Id(id, geometry.num, geometry.size, geometry.rep)
       IN wire' = Mail(m, SerializeId(m), IdSize)
  /\ UNCHANGED <<geometry, clientId, view, granted, received, memory, content, writes>>

\* Servicer's constructor, from the number to the announcement.
Attaches ==
  /\ Step("numbered", "attached")
  /\ LET m == DeserializeId(wire.bytes)
         announcement == QueueCreation(m.clientId, 64)
     IN /\ clientId' = m.clientId
        /\ view' = Geometry(m.numShmSegments, m.shmSegmentSize, m.internalRepSize)
        /\ wire' = Mail(announcement, SerializeQueueCreation(announcement), QueueCreationSize)
  /\ UNCHANGED <<geometry, granted, received, memory, content, writes>>

Announced ==
  /\ Step("attached", "registered")
  /\ DeserializeRegistrationQueue(wire.bytes).type = "QUEUE_CREATION"
  /\ wire' = None
  /\ UNCHANGED <<geometry, clientId, view, granted, received, memory, content, writes>>

Asks == /\ Step("registered", "asked")
        /\ \E n \in FileSizes :
             LET m == Request(0, n) IN wire' = Mail(m, SerializeRequest(m), RequestSize)
        /\ UNCHANGED <<geometry, clientId, view, granted, received, memory, content, writes>>

RoundUp(n) == ((n + InternalRepSize - 1) \div InternalRepSize) * InternalRepSize
Share(g, waiting) == RoundUp((g.num * g.size) \div (waiting + NumWorkers))

\* selectRoundRobinShmSize and selectCreditShmSize, in segments.
SegmentsFor(g, fileSize, waiting) ==
  LET bytes == Smaller(Share(g, waiting), RoundUp(fileSize))
  IN IF bytes < InternalRepSize THEN 1 ELSE bytes \div InternalRepSize

\* dispatch, a worker's createHandler, and the handler's first message: the
\* first of the free segments, when there are enough; a message that the queue
\* does not take ends the service.
Answers ==
  LET request == DeserializeRequest(wire.bytes)
      pool == 0..(NumInternalSegments(geometry) - 1)
  IN /\ pc = "asked"
     /\ \E waiting \in 0..MaxWaiting :
        \E ids \in [1..SegmentsFor(geometry, request.fileSize, waiting) -> pool] :
          LET m == Response(request.requestId, ids)
          IN /\ \A j, k \in DOMAIN ids : j < k => ids[j] < ids[k]
             /\ granted' = ids
             /\ \/ /\ ResponseSize(ids) <= ClientMsgSize
                   /\ Step("asked", "answered")
                   /\ wire' = Mail(m, SerializeResponse(m), ResponseSize(ids))
                \/ /\ ResponseSize(ids) > ClientMsgSize
                   /\ Step("asked", "too large")
                   /\ wire' = None
     /\ UNCHANGED <<geometry, clientId, view, received, memory, content, writes>>

\* receiveResponses.
Granted ==
  /\ Step("answered", "exchanging")
  /\ received' = DeserializeResponse(wire.bytes).shmSegmentIds
  /\ content' = [k \in 1..FragmentedSize(SegmentsOf(view, received')) |-> 0]
  /\ wire' = None
  /\ UNCHANGED <<geometry, clientId, view, granted, memory, writes>>

\* ~Servicer, and visitQueueDeletion.
Leaves ==
  /\ Step("exchanging", "leaving")
  /\ LET m == QueueDeletion(clientId)
     IN wire' = Mail(m, SerializeQueueDeletion(m), QueueDeletionSize)
  /\ UNCHANGED <<geometry, clientId, view, granted, received, memory, content, writes>>

Left == /\ Step("leaving", "left")
        /\ DeserializeRegistrationQueue(wire.bytes).type = "QUEUE_DELETION"
        /\ wire' = None
        /\ UNCHANGED <<geometry, clientId, view, granted, received, memory, content, writes>>
-----------------------------------------------------------------------------
(* The segments, as either side has them *)

ServiceSegments == SegmentsOf(geometry, granted)
ClientSegments == SegmentsOf(view, received)

\* A message class writes some bytes at some offset.
Writes(segments) ==
  /\ Step("exchanging", "exchanging")
  /\ writes < MaxWrites /\ writes' = writes + 1
  /\ \E offset \in 0..FragmentedSize(segments), size \in 1..FragmentedSize(segments) :
       LET data == [k \in 1..size |-> 10 * writes + k]
       IN /\ Fits(segments, size, offset)
          /\ memory' = WriteFragmented(memory, segments, data, offset)
          /\ content' = [k \in DOMAIN content |->
                           IF k - offset \in DOMAIN data THEN data[k - offset] ELSE content[k]]
  /\ UNCHANGED <<geometry, clientId, view, wire, granted, received>>

ServiceNext == \/ ParseArgs(ServiceArguments) /\ UNCHANGED serviceVars
               \/ Launch
               \/ Registers \/ AnswersId \/ Attaches \/ Announced \/ Asks \/ Answers \/ Granted
               \/ Writes(ServiceSegments) \/ Writes(ClientSegments)
               \/ Leaves \/ Left
-----------------------------------------------------------------------------
(* Properties *)

\* The receiver makes of the bytes what the sender meant, there are as many as
\* the message says, and the queue takes them.  A response is too large only if
\* a worker's share of the pool has more segments than it has room for.
MessagesArrive ==
  /\ wire # None =>
       LET type == wire.message.type
       IN /\ wire.message = CASE type = "ID" -> DeserializeId(wire.bytes)
                              [] type = "REQUEST" -> DeserializeRequest(wire.bytes)
                              [] type = "RESPONSE" -> DeserializeResponse(wire.bytes)
                              [] OTHER -> DeserializeRegistrationQueue(wire.bytes)
          /\ Len(wire.bytes) = wire.size
          /\ wire.size <= (IF type \in {"REQUEST", "RESPONSE"} THEN ClientMsgSize
                           ELSE RegistrationMsgSize)
  /\ pc = "too large" => ResponseSize(<< >>)
       + SizeofInt * (Share(geometry, 0) \div InternalRepSize) > ClientMsgSize

\* A service that has started hands out only segments that lie in the memory it
\* mapped and have no byte in common, whatever the command line asked for.
PoolUsable ==
  geometry # None =>
    LET n == NumInternalSegments(geometry)
        segments == ShmSegments(geometry)
    IN /\ n <= Len(segments)
       /\ \A k \in 1..n :
            /\ 0 <= segments[k].physical /\ segments[k].physical < geometry.num
            /\ segments[k].addr + segments[k].size <= geometry.size
       /\ \A j, k \in 1..n : j < k =>
            \/ segments[j].physical # segments[k].physical
            \/ segments[j].addr + segments[j].size <= segments[k].addr

\* Any part that either side reads is what was last written there by either of
\* them, however the segments lie; and no other segment is touched.
ReadsWhatWasWritten ==
  pc = "exchanging" =>
    /\ \A segments \in {ServiceSegments, ClientSegments} :
         \A offset \in 0..Len(content), size \in 0..Len(content) :
           Fits(segments, size, offset) =>
             ReadFragmented(memory, segments, size, offset)
               = SubSeq(content, offset + 1, offset + size)
    /\ LET own == {<<s.physical, s.addr + k>> : s \in ToSet(ServiceSegments),
                                                k \in 0..(InternalRepSize - 1)}
       IN \A a \in DOMAIN memory \ own : memory[a] = 0
================================================================================
