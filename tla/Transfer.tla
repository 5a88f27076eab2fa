------------------------------- MODULE Transfer -------------------------------
(***************************************************************************)
(* One compression request from the moment a service worker has scheduled  *)
(* it: the ServiceFileCompressorHandler of the service and the             *)
(* ClientFileCompressorHandler of the client exchange the file through one *)
(* shared memory segment, in chunks, and hand the segment back and forth   *)
(* with three named POSIX semaphores.  Every access to the segment is a    *)
(* step of its own, a message is a header (its data size) and a payload,   *)
(* written and read in that order.                                         *)
(*                                                                         *)
(* The service destroys its handler, and so returns the segment to the     *)
(* pool, when process() returns.  SegmentReuse says whether some other     *)
(* request may then be given the segment while the client still reads the  *)
(* last chunk; it may not when this is the only request in the system.     *)
(***************************************************************************)
EXTENDS Integers

CONSTANTS FileSizes,        \* sizes of the files clients ask to compress
          CompressedSizes,  \* sizes snappy may answer with (never 0)
          Cap,              \* payload bytes that fit in the segment
          SegmentReuse      \* other requests compete for the segment

ASSUME FileSizesAssumption == FileSizes \subseteq Nat
ASSUME CompressedSizesAssumption == CompressedSizes \subseteq Nat \ {0}
ASSUME CapAssumption == Cap \in Nat \ {0}
ASSUME SegmentReuseAssumption == SegmentReuse \in BOOLEAN

VARIABLES
  fileSize,         \* fileSize of both handlers, sent with the request
  clientPc,         \* where ClientFileCompressorHandler::process stands
  clientSent,       \* its fileSendSize
  clientRecv,       \* its fileRecvSize
  clientSize,       \* its compressedFileSize
  clientMsg,        \* dataSize of the message it has parsed
  compressedData,   \* its compressedData
  completed,        \* Servicer::completeRequest has been called
  serverPc,         \* where ServiceFileCompressorHandler::process stands
  serverRecv,       \* its fileRecvSize
  serverSent,       \* its fileSendSize
  serverSize,       \* its compressedFileSize, 0 before compressData
  serverMsg,        \* dataSize of the message it has parsed
  rawData,          \* its rawData
  reply,            \* the MQServerRequestMessage is in the client's queue
  linked,           \* the semaphore names that exist
  sem,              \* the value of each semaphore
  header,           \* dataSize (or fileSize) at the front of the segment
  payload           \* the rest of the segment

clientData == <<clientSent, clientRecv, clientSize, clientMsg, compressedData, completed>>
serverData == <<serverRecv, serverSent, serverSize, serverMsg, rawData>>
names == <<linked, reply>>
segment == <<header, payload>>
clientVars == <<clientPc, clientData>>
serverVars == <<serverPc, serverData>>
vars == <<fileSize, clientVars, serverVars, names, sem, segment>>

Semaphores == {"client", "server", "sense"}

FileByte(i) == <<"file", i>>
CompressedByte(i) == <<"compressed", i>>
Garbage == <<"garbage", 0>>
Byte == {"file", "compressed", "garbage"} \X Nat

Offsets(n) == 0..(n - 1)
Buffer(n) == [Offsets(n) -> Byte]

\* (Seeded fault: the header is not counted.)
ChunkWithoutHeader(remaining) == IF remaining < Cap + 1 THEN remaining ELSE Cap + 1

\* std::min(remaining, getSize() - headerSize()): the size of the next chunk.
Chunk(remaining) == IF remaining < Cap THEN remaining ELSE Cap

\* Byte i of what snappy makes of rawData.  Only the compressed form of the
\* file itself has a name of its own.
Compressed(i) == IF \A j \in Offsets(fileSize) : rawData[j] = FileByte(j)
                 THEN CompressedByte(i)
                 ELSE Garbage

\* (Seeded fault: every chunk is copied to the front of the buffer.)
CopyInAtFront(buf, offset, n) ==
  [i \in DOMAIN buf |-> IF i \in Offsets(n) THEN payload[i] ELSE buf[i]]

\* buf with the first n bytes of the payload copied in at an offset.
CopyIn(buf, offset, n) ==
  [i \in DOMAIN buf |-> IF i \in offset..(offset + n - 1) THEN payload[i - offset] ELSE buf[i]]

\* copyData throws when the message does not fit the buffer or the segment.
TooLarge(msg, room) == msg > room \/ msg > Cap

ClientGoto(from, to) == clientPc = from /\ clientPc' = to
ServerGoto(from, to) == serverPc = from /\ serverPc' = to

Wait(s) == sem[s] > 0 /\ sem' = [sem EXCEPT ![s] = @ - 1]
Post(s) == sem' = [sem EXCEPT ![s] = @ + 1]

\* (Seeded fault: the client is let in twice.)
CreatedValuesTwice == [s \in Semaphores |-> IF s = "server" THEN 2 ELSE 0]

\* The values the service creates the semaphores with.
CreatedValues == [s \in Semaphores |-> IF s = "server" THEN 1 ELSE 0]

\* A service that ran before may have left semaphores of the same names
\* behind, at any value, and the segment holds whatever it was used for last.
Init ==
  /\ fileSize \in FileSizes
  /\ clientPc = "idle" /\ serverPc = "create"
  /\ clientSent = 0 /\ clientRecv = 0 /\ clientSize = 0 /\ clientMsg = 0
  /\ serverRecv = 0 /\ serverSent = 0 /\ serverSize = 0 /\ serverMsg = 0
  /\ rawData = [i \in Offsets(fileSize) |-> Garbage]
  /\ compressedData = [i \in Offsets(0) |-> Garbage]
  /\ completed = FALSE
  /\ reply = FALSE
  /\ linked \in SUBSET Semaphores
  /\ sem \in [Semaphores -> 0..1]
  /\ header = 0
  /\ payload = [i \in Offsets(Cap) |-> Garbage]
-----------------------------------------------------------------------------
(* ServiceFileCompressorHandler::process *)

\* (Seeded fault: without sem_unlink, O_EXCL makes sem_open fail.)
ServerCreateOnStale == /\ ServerGoto("create", IF linked = {} THEN "reply" ELSE "failed")
                       /\ linked' = Semaphores
                       /\ sem' = CreatedValues
                       /\ UNCHANGED <<fileSize, clientVars, serverData, reply, segment>>

\* sem_unlink, then sem_open with O_CREAT | O_EXCL, for each of the three.
ServerCreate == /\ ServerGoto("create", "reply")
                /\ linked' = Semaphores
                /\ sem' = CreatedValues
                /\ UNCHANGED <<fileSize, clientVars, serverData, reply, segment>>

\* writeBlocking of the MQServerRequestMessage: all semaphores are ready.
ServerReply == /\ ServerGoto("reply", "upload")
               /\ reply' = TRUE
               /\ UNCHANGED <<fileSize, clientVars, serverData, linked, sem, segment>>

ServerUploadWait == /\ serverRecv < fileSize
                    /\ ServerGoto("upload", "parse")
                    /\ Wait("client")
                    /\ UNCHANGED <<fileSize, clientVars, serverData, names, segment>>

\* processClientData: parse(), then copyData() and the new fileRecvSize.
ServerParse == /\ ServerGoto("parse", "copy")
               /\ serverMsg' = header
               /\ UNCHANGED <<fileSize, clientVars, serverRecv, serverSent, serverSize, rawData,
                              names, sem, segment>>

ServerCopy ==
  /\ IF TooLarge(serverMsg, fileSize - serverRecv)
     THEN ServerGoto("copy", "failed") /\ UNCHANGED <<rawData, serverRecv>>
     ELSE /\ ServerGoto("copy", "uploaded")
          /\ rawData' = CopyIn(rawData, serverRecv, serverMsg)
          /\ serverRecv' = serverRecv + serverMsg
  /\ UNCHANGED <<fileSize, clientVars, serverSent, serverSize, serverMsg, names, sem, segment>>

ServerUploadPost == /\ ServerGoto("uploaded", "upload")
                    /\ Post("server")
                    /\ UNCHANGED <<fileSize, clientVars, serverData, names, segment>>

\* (Seeded fault: compression does not wait for the last chunk.)
ServerCompressEarly == /\ ServerGoto("upload", "drain")
                       /\ serverSize' \in CompressedSizes
                       /\ UNCHANGED <<fileSize, clientVars, serverRecv, serverSent, serverMsg,
                                      rawData, names, sem, segment>>


ServerCompress == /\ serverRecv >= fileSize
                  /\ ServerGoto("upload", "drain")
                  /\ serverSize' \in CompressedSizes
                  /\ UNCHANGED <<fileSize, clientVars, serverRecv, serverSent, serverMsg, rawData,
                                 names, sem, segment>>

\* (Seeded fault: the server semaphore is not drained before the download.)
ServerNoDrain == /\ ServerGoto("drain", "meta")
                 /\ UNCHANGED <<fileSize, clientVars, serverData, names, sem, segment>>

\* The wait that takes the server semaphore back to 0 before the download.
ServerDrain == /\ ServerGoto("drain", "meta")
               /\ Wait("server")
               /\ UNCHANGED <<fileSize, clientVars, serverData, names, segment>>

\* sendFileData: the compressed size overwrites the header.
ServerMeta == /\ ServerGoto("meta", "sense")
              /\ header' = serverSize
              /\ UNCHANGED <<fileSize, clientVars, serverData, names, sem, payload>>

ServerSense == /\ ServerGoto("sense", "download")
               /\ Post("sense")
               /\ UNCHANGED <<fileSize, clientVars, serverData, names, segment>>

ServerDownloadWait == /\ serverSent < serverSize
                      /\ ServerGoto("download", "header")
                      /\ Wait("server")
                      /\ UNCHANGED <<fileSize, clientVars, serverData, names, segment>>

\* sendClientData: write() writes the data size, then the data.
ServerHeader == /\ ServerGoto("header", "payload")
                /\ header' = Chunk(serverSize - serverSent)
                /\ UNCHANGED <<fileSize, clientVars, serverData, names, sem, payload>>

ServerPayload ==
  LET n == Chunk(serverSize - serverSent) IN
  /\ ServerGoto("payload", "sent")
  /\ payload' = [j \in Offsets(Cap) |-> IF j < n THEN Compressed(serverSent + j) ELSE payload[j]]
  /\ serverSent' = serverSent + n
  /\ UNCHANGED <<fileSize, clientVars, serverRecv, serverSize, serverMsg, rawData, names, sem,
                 header>>

ServerDownloadPost == /\ ServerGoto("sent", "download")
                      /\ Post("client")
                      /\ UNCHANGED <<fileSize, clientVars, serverData, names, segment>>

\* (Seeded fault: the handler returns one chunk too early.)
ServerReleaseEarly == /\ serverSent + Cap >= serverSize
                      /\ ServerGoto("download", "done")
                      /\ UNCHANGED <<fileSize, clientVars, serverData, names, sem, segment>>

\* process() closes the semaphores and returns; the worker destroys the
\* handler, which returns the segment to the service's pool.
ServerRelease == /\ serverSent >= serverSize
                 /\ ServerGoto("download", "done")
                 /\ UNCHANGED <<fileSize, clientVars, serverData, names, sem, segment>>

\* The service hands the released segment to another request, whose handlers
\* write their own messages into it: a header of 0, one that fits the
\* segment, or bytes of data that read as an enormous one.
OtherRequestWrites ==
  /\ SegmentReuse
  /\ serverPc = "done"
  /\ header' \in {0, 1, Cap, Cap + 1}
  /\ payload' = [j \in Offsets(Cap) |-> Garbage]
  /\ UNCHANGED <<fileSize, clientVars, serverVars, names, sem>>
-----------------------------------------------------------------------------
(* ClientFileCompressorHandler::process *)

\* The client's dispatcher receives the reply and a worker takes the request.
ClientStart == /\ reply
               /\ ClientGoto("idle", "open")
               /\ reply' = FALSE
               /\ UNCHANGED <<fileSize, clientData, serverVars, linked, sem, segment>>

\* sem_open without O_CREAT throws unless every name exists.
ClientOpen == /\ ClientGoto("open", IF linked = Semaphores THEN "upload" ELSE "failed")
              /\ UNCHANGED <<fileSize, clientData, serverVars, names, sem, segment>>

ClientUploadWait == /\ clientSent < fileSize
                    /\ ClientGoto("upload", "header")
                    /\ Wait("server")
                    /\ UNCHANGED <<fileSize, clientData, serverVars, names, segment>>

\* sendServerData: write() writes the data size, then the data.
ClientHeader == /\ ClientGoto("header", "payload")
                /\ header' = Chunk(fileSize - clientSent)
                /\ UNCHANGED <<fileSize, clientData, serverVars, names, sem, payload>>

ClientPayload ==
  LET n == Chunk(fileSize - clientSent) IN
  /\ ClientGoto("payload", "sent")
  /\ payload' = [j \in Offsets(Cap) |-> IF j < n THEN FileByte(clientSent + j) ELSE payload[j]]
  /\ clientSent' = clientSent + n
  /\ UNCHANGED <<fileSize, clientRecv, clientSize, clientMsg, compressedData, completed,
                 serverVars, names, sem, header>>

ClientUploadPost == /\ ClientGoto("sent", "upload")
                    /\ Post("client")
                    /\ UNCHANGED <<fileSize, clientData, serverVars, names, segment>>

ClientSenseWait == /\ clientSent >= fileSize
                   /\ ClientGoto("upload", "meta")
                   /\ Wait("sense")
                   /\ UNCHANGED <<fileSize, clientData, serverVars, names, segment>>

\* (Seeded fault: the buffer for the answer has the size of the file.)
ClientMetaWrongSize == /\ ClientGoto("meta", "ready")
                       /\ clientSize' = header
                       /\ compressedData' = [i \in Offsets(fileSize) |-> Garbage]
                       /\ UNCHANGED <<fileSize, clientSent, clientRecv, clientMsg, completed,
                                      serverVars, names, sem, segment>>

\* processFileData: the compressed size, and a zeroed buffer of that size.
ClientMeta == /\ ClientGoto("meta", "ready")
              /\ clientSize' = header
              /\ compressedData' = [i \in Offsets(header) |-> Garbage]
              /\ UNCHANGED <<fileSize, clientSent, clientRecv, clientMsg, completed, serverVars,
                             names, sem, segment>>

\* (Seeded fault: the client does not tell the service that it is ready.)
ClientReadyNoPost == /\ ClientGoto("ready", "download")
                     /\ UNCHANGED <<fileSize, clientData, serverVars, names, sem, segment>>


ClientReady == /\ ClientGoto("ready", "download")
               /\ Post("server")
               /\ UNCHANGED <<fileSize, clientData, serverVars, names, segment>>

ClientDownloadWait == /\ clientRecv < clientSize
                      /\ ClientGoto("download", "parse")
                      /\ Wait("client")
                      /\ UNCHANGED <<fileSize, clientData, serverVars, names, segment>>

\* processServerData: parse(), then copyData() and the new fileRecvSize.
ClientParse == /\ ClientGoto("parse", "copy")
               /\ clientMsg' = header
               /\ UNCHANGED <<fileSize, clientSent, clientRecv, clientSize, compressedData,
                              completed, serverVars, names, sem, segment>>

ClientCopy ==
  /\ IF TooLarge(clientMsg, clientSize - clientRecv)
     THEN ClientGoto("copy", "failed") /\ UNCHANGED <<compressedData, clientRecv>>
     ELSE /\ ClientGoto("copy", "received")
          /\ compressedData' = CopyIn(compressedData, clientRecv, clientMsg)
          /\ clientRecv' = clientRecv + clientMsg
  /\ UNCHANGED <<fileSize, clientSent, clientSize, clientMsg, completed, serverVars, names, sem,
                 segment>>

ClientDownloadPost == /\ ClientGoto("received", "download")
                      /\ Post("server")
                      /\ UNCHANGED <<fileSize, clientData, serverVars, names, segment>>

\* sem_close and sem_unlink of the three semaphores.
ClientUnlink == /\ clientRecv >= clientSize
                /\ ClientGoto("download", IF linked = Semaphores THEN "complete" ELSE "failed")
                /\ linked' = {}
                /\ UNCHANGED <<fileSize, clientData, serverVars, reply, sem, segment>>

ClientComplete == /\ ClientGoto("complete", "done")
                  /\ completed' = TRUE
                  /\ UNCHANGED <<fileSize, clientSent, clientRecv, clientSize, clientMsg,
                                 compressedData, serverVars, names, sem, segment>>
-----------------------------------------------------------------------------
ServerNext == \/ ServerCreate \/ ServerReply
              \/ ServerUploadWait \/ ServerParse \/ ServerCopy
              \/ ServerUploadPost \/ ServerCompress \/ ServerDrain \/ ServerMeta \/ ServerSense
              \/ ServerDownloadWait \/ ServerHeader \/ ServerPayload \/ ServerDownloadPost
              \/ ServerRelease

ClientNext == \/ ClientStart \/ ClientOpen
              \/ ClientUploadWait \/ ClientHeader \/ ClientPayload \/ ClientUploadPost
              \/ ClientSenseWait \/ ClientMeta \/ ClientReady
              \/ ClientDownloadWait \/ ClientParse \/ ClientCopy
              \/ ClientDownloadPost \/ ClientUnlink \/ ClientComplete

Next == ServerNext \/ ClientNext \/ OtherRequestWrites

\* Each handler is a thread the operating system schedules; a thread blocked
\* in sem_wait is disabled until the semaphore is posted.
Spec == Init /\ [][Next]_vars /\ WF_vars(ServerNext) /\ WF_vars(ClientNext)
-----------------------------------------------------------------------------
ServerPcs == {"create", "reply", "upload", "parse", "copy", "uploaded", "drain", "meta", "sense",
              "download", "header", "payload", "sent", "done", "failed"}
ClientPcs == {"idle", "open", "upload", "header", "payload", "sent", "meta", "ready", "download",
              "parse", "copy", "received", "complete", "done", "failed"}

\* Every variable has its type; the buffers have the sizes the handlers know.
TypeOK ==
  /\ fileSize \in FileSizes
  /\ clientPc \in ClientPcs /\ serverPc \in ServerPcs
  /\ clientSent \in Nat /\ clientRecv \in Nat /\ clientSize \in Nat /\ clientMsg \in Nat
  /\ serverRecv \in Nat /\ serverSent \in Nat /\ serverSize \in Nat /\ serverMsg \in Nat
  /\ rawData \in Buffer(fileSize)
  /\ compressedData \in Buffer(clientSize)
  /\ completed \in BOOLEAN
  /\ reply \in BOOLEAN
  /\ linked \in SUBSET Semaphores
  /\ sem \in [Semaphores -> Nat]
  /\ header \in Nat
  /\ payload \in Buffer(Cap)

\* A handler holds the segment between the sem_wait that gave it the segment
\* and the sem_post that gives it away.
ServerHolds == serverPc \in {"parse", "copy", "uploaded", "meta", "sense", "header", "payload",
                             "sent"}
ClientHolds == clientPc \in {"header", "payload", "sent", "meta", "ready", "parse", "copy",
                             "received"}

\* The two handlers never hold the segment together: neither reads a header or
\* a payload the other is writing (the while loops of both process()).
ExclusiveSegment == ~(ServerHolds /\ ClientHolds)

\* No handler throws, whatever an earlier run of the service left behind:
\* every semaphore exists when it is opened and when it is unlinked, and every
\* message fits its buffer (an exception here ends the whole process).
NoThrow == clientPc # "failed" /\ serverPc # "failed"

\* What App checks of the answer: a completed request carries the whole
\* compressed file, byte for byte (completeRequest at the end of process()).
ResultIntact ==
  completed => /\ clientSize = serverSize /\ clientRecv = serverSize
               /\ compressedData = [i \in Offsets(serverSize) |-> CompressedByte(i)]

\* The service compresses the file itself: once compressData has run, rawData
\* is the client's file, even though the chunks all passed through the same
\* bytes of the segment.
UploadIntact == serverSize # 0 => \A i \in Offsets(fileSize) : rawData[i] = FileByte(i)

\* Where the last chunk of the answer starts.
LastChunk == Cap * ((serverSize - 1) \div Cap)

\* Releasing the segment early can only damage the last chunk of the answer:
\* all that the client has copied before it is the compressed file.
AllButLastChunk ==
  \A i \in Offsets(clientRecv) : i < LastChunk => compressedData[i] = CompressedByte(i)

\* The same for exceptions: the service's handler never throws, and the
\* client's can throw only on the last chunk, when the service is done.
ThrowsOnlyOnLastChunk ==
  /\ serverPc # "failed"
  /\ clientPc = "failed" => serverPc = "done" /\ clientRecv >= LastChunk

FE == INSTANCE FileExchange WITH
        received <- [i \in Offsets(serverRecv) |-> rawData[i]],
        compressedSize <- serverSize,
        result <- [i \in Offsets(clientRecv) |-> compressedData[i]]

\* The two handlers implement the abstract exchange: what each side has is at
\* every moment a prefix of the right bytes.
Implements == FE!Spec

\* Both handlers return and the request completes: no order of waits and posts
\* leaves one of them blocked in sem_wait.
Termination == <>(serverPc = "done" /\ clientPc = "done" /\ completed)

\* Even when the client is given garbage for the last chunk, the service's
\* worker gets out of process() and can take the next request.
ServerFinishes == <>(serverPc = "done")
===============================================================================
