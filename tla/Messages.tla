------------------------------- MODULE Messages -------------------------------
(***************************************************************************)
(* The messages of the POSIX queues as the bytes that travel: the type as  *)
(* an int, then the fields in the order of the class, each in the          *)
(* machine's representation.  A buffer is a sequence of bytes.             *)
(*                                                                         *)
(* An int has 4 bytes and a size_t 8, the least significant first.  A      *)
(* size_t of 2^63 or more, which only a negative int becomes, is           *)
(* represented by that int: the two are equal modulo 2^64.                 *)
(***************************************************************************)
EXTENDS Integers, Sequences

SizeofInt == 4
SizeofSizeT == 8

\* v without its k lowest bytes.
Shifted(v, k) ==
  LET rest[j \in 0..k] == IF j = 0 THEN v ELSE rest[j - 1] \div 256 IN rest[k]
Byte(v, k) == Shifted(v, k - 1) % 256

\* A number that has room in width bytes, one bit of them for the sign.
Representable(v, width) == Shifted(v, width - 1) \in -128..127

Bytes(v, width) == [k \in 1..width |-> Byte(v, k)]
IntBytes(v) == Bytes(v, SizeofInt)
SizeTBytes(v) == Bytes(v, SizeofSizeT)

Signed(b) == IF b < 128 THEN b ELSE b - 256
Value(bytes) ==
  LET from[k \in 1..Len(bytes)] == IF k = Len(bytes) THEN Signed(bytes[k])
                                   ELSE 256 * from[k + 1] + bytes[k]
  IN from[1]
IntAt(buffer, at) == Value(SubSeq(buffer, at + 1, at + SizeofInt))
SizeTAt(buffer, at) == Value(SubSeq(buffer, at + 1, at + SizeofSizeT))
-----------------------------------------------------------------------------
(* Client messages *)

MQClientMessageType ==
  [REGISTRATION |-> 0, QUEUE_CREATION |-> 1, QUEUE_DELETION |-> 2, REQUEST |-> 3]

ClientHeaderSize == SizeofInt
SerializeClient(type, contents) == IntBytes(MQClientMessageType[type]) \o contents

Registration == [type |-> "REGISTRATION"]
QueueCreation(clientId, priority) ==
  [type |-> "QUEUE_CREATION", clientId |-> clientId, priority |-> priority]
QueueDeletion(clientId) == [type |-> "QUEUE_DELETION", clientId |-> clientId]
Request(requestId, fileSize) ==
  [type |-> "REQUEST", requestId |-> requestId, fileSize |-> fileSize]

RegistrationSize == ClientHeaderSize
SerializeRegistration(m) == SerializeClient("REGISTRATION", << >>)
DeserializeRegistration(buffer) == Registration

QueueCreationSize == ClientHeaderSize + SizeofInt + SizeofInt
SerializeQueueCreation(m) ==
  SerializeClient("QUEUE_CREATION", IntBytes(m.clientId) \o IntBytes(m.priority))
DeserializeQueueCreation(buffer) ==
  QueueCreation(IntAt(buffer, SizeofInt), IntAt(buffer, 2 * SizeofInt))

QueueDeletionSize == ClientHeaderSize + SizeofInt
SerializeQueueDeletion(m) == SerializeClient("QUEUE_DELETION", IntBytes(m.clientId))
DeserializeQueueDeletion(buffer) == QueueDeletion(IntAt(buffer, SizeofInt))

\* (Seeded fault: the file size is taken for an int.)
DeserializeRequestAsInts(buffer) ==
  Request(IntAt(buffer, SizeofInt), IntAt(buffer, 3 * SizeofInt))

RequestSize == ClientHeaderSize + SizeofInt + SizeofSizeT
SerializeRequest(m) ==
  SerializeClient("REQUEST", IntBytes(m.requestId) \o SizeTBytes(m.fileSize))
DeserializeRequest(buffer) ==
  Request(IntAt(buffer, SizeofInt), SizeTAt(buffer, 2 * SizeofInt))

\* AbstractMQClientRegistrationMessage::deserialize; another type throws.
DeserializeRegistrationQueue(buffer) ==
  LET type == IntAt(buffer, 0)
  IN CASE type = MQClientMessageType.REGISTRATION -> DeserializeRegistration(buffer)
       [] type = MQClientMessageType.QUEUE_CREATION -> DeserializeQueueCreation(buffer)
       [] type = MQClientMessageType.QUEUE_DELETION -> DeserializeQueueDeletion(buffer)
       [] OTHER -> [type |-> "unknown message type"]
-----------------------------------------------------------------------------
(* Server messages *)

MQServerMessageType == [ID |-> 0, RESPONSE |-> 1]

ServerHeaderSize == SizeofInt
SerializeServer(type, contents) == IntBytes(MQServerMessageType[type]) \o contents

Id(clientId, numShmSegments, shmSegmentSize, internalRepSize) ==
  [type |-> "ID", clientId |-> clientId, numShmSegments |-> numShmSegments,
   shmSegmentSize |-> shmSegmentSize, internalRepSize |-> internalRepSize]
Response(requestId, shmSegmentIds) ==
  [type |-> "RESPONSE", requestId |-> requestId, shmSegmentIds |-> shmSegmentIds]

IdSize == ServerHeaderSize + SizeofInt + SizeofSizeT + SizeofSizeT + SizeofSizeT
SerializeId(m) ==
  SerializeServer("ID", IntBytes(m.clientId) \o SizeTBytes(m.numShmSegments)
                          \o SizeTBytes(m.shmSegmentSize) \o SizeTBytes(m.internalRepSize))
DeserializeId(buffer) ==
  LET sizes == 2 * SizeofInt
  IN Id(IntAt(buffer, SizeofInt), SizeTAt(buffer, sizes), SizeTAt(buffer, sizes + SizeofSizeT),
        SizeTAt(buffer, sizes + 2 * SizeofSizeT))

ResponseSize(ids) == ServerHeaderSize + SizeofInt + SizeofSizeT + SizeofInt * Len(ids)
SerializeResponse(m) ==
  LET ids == m.shmSegmentIds
      idBytes == [k \in 1..(SizeofInt * Len(ids)) |->
                    Byte(ids[(k - 1) \div SizeofInt + 1], ((k - 1) % SizeofInt) + 1)]
  IN SerializeServer("RESPONSE", IntBytes(m.requestId) \o SizeTBytes(Len(ids)) \o idBytes)
DeserializeResponse(buffer) ==
  LET count == SizeTAt(buffer, 2 * SizeofInt)
  IN Response(IntAt(buffer, SizeofInt),
              [i \in 1..count |-> IntAt(buffer, 2 * SizeofInt + SizeofSizeT + (i - 1) * SizeofInt)])
===============================================================================
