---------------------------- MODULE TransferProofs ----------------------------
(***************************************************************************)
(* Proofs about Transfer, for files and answers of every size and segments *)
(* of every capacity.  The argument: there is one turn, which is either a  *)
(* unit of one of the three semaphores or held by one of the handlers      *)
(* (OneTurn); where the turn is says how many bytes are between the two    *)
(* handlers and what the segment holds (UploadTurn, DownloadTurn); so what *)
(* each handler has copied out of the segment is a prefix of what the      *)
(* other one had to send (Uploaded, Downloaded).                           *)
(***************************************************************************)
EXTENDS Transfer, TLAPS

One(b) == IF b THEN 1 ELSE 0

\* The turn is in at most one place (nowhere, once a client has thrown).
OneTurn == serverPc # "create" =>
             sem["client"] + sem["server"] + sem["sense"] + One(ServerHolds) +
             One(ClientHolds) <= 1

\* The service's handler before and after it has compressed the file and told
\* the client so.
Uploading == {"create", "reply", "upload", "parse", "copy", "uploaded", "drain"}
Telling == {"meta", "sense"}
Downloading == {"download", "header", "payload", "sent", "done"}
ClientUploading == {"idle", "open", "upload", "header", "payload", "sent"}

CtlType ==
  /\ fileSize \in Nat
  /\ clientPc \in ClientPcs /\ serverPc \in ServerPcs
  /\ clientSent \in Nat /\ clientRecv \in Nat /\ clientSize \in Nat /\ clientMsg \in Nat
  /\ serverRecv \in Nat /\ serverSent \in Nat /\ serverSize \in Nat /\ serverMsg \in Nat
  /\ completed \in BOOLEAN /\ reply \in BOOLEAN
  /\ sem \in [Semaphores -> Nat]
  /\ header \in Nat

\* Which semaphore names exist, and who has been told so.
Named ==
  /\ linked \in SUBSET Semaphores
  /\ serverPc # "create" /\ clientPc \notin {"complete", "done", "failed"} => linked = Semaphores
  /\ serverPc \in {"create", "reply"} => ~reply /\ clientPc = "idle"
  /\ reply => clientPc = "idle"
  /\ clientPc = "open" => linked = Semaphores

\* How far the client can be, given where the service is.
Phases ==
  /\ serverPc # "failed"
  /\ serverPc \in Uploading \cup Telling => clientPc \in ClientUploading
  /\ serverPc \in (Uploading \ {"create"}) \cup Telling => sem["sense"] = 0
  /\ serverPc \in Telling \cup Downloading => clientPc \notin {"header", "payload", "sent"}
  /\ serverPc \in Uploading \ {"drain"} => serverSize = 0
  /\ serverPc \in {"drain"} \cup Telling \cup Downloading => serverSize > 0 /\ serverRecv = fileSize
  /\ serverPc \in Telling \cup Downloading => clientSent = fileSize
  /\ serverPc \in Uploading \cup Telling => serverSent = 0
  /\ serverSent <= serverSize
  /\ serverPc \in {"header", "payload"} => serverSent < serverSize
  /\ clientPc \in ClientUploading \cup {"meta"} => clientRecv = 0 /\ clientSize = 0
  /\ completed => clientPc = "done"

UploadInFlight == sem["client"] = 1 \/ clientPc = "sent" \/ serverPc \in {"parse", "copy"}

\* While the file is uploaded: where the turn is says whether a chunk is
\* between the two, and then its header is in the segment.
UploadTurn ==
  serverPc \in Uploading =>
    /\ serverRecv <= clientSent /\ clientSent <= fileSize
    /\ clientPc \in {"header", "payload"} => clientSent < fileSize
    /\ clientPc = "payload" => header = Chunk(fileSize - clientSent)
    /\ serverPc = "create" => clientSent = 0
    /\ serverPc # "create" =>
         IF UploadInFlight
         THEN /\ serverRecv < fileSize
              /\ header = Chunk(fileSize - serverRecv)
              /\ clientSent = serverRecv + header
         ELSE clientSent = serverRecv
    /\ serverPc = "copy" => serverMsg = header

DownloadInFlight == sem["client"] = 1 \/ serverPc = "sent" \/ clientPc \in {"parse", "copy"}

\* The same for the answer, when nobody else writes into the segment.
DownloadTurn ==
  /\ clientPc # "failed"
  /\ serverPc \in Downloading =>
       /\ clientRecv <= serverSent
       /\ serverPc = "payload" => header = Chunk(serverSize - serverSent)
       /\ serverPc = "done" => serverSent = serverSize
       /\ serverPc \in {"header", "payload", "sent"} \/ sem["client"] = 1 =>
            clientPc = "download"
       /\ clientPc \notin ClientUploading \cup {"meta"} => clientSize = serverSize
       /\ clientPc \in ClientUploading => sem["sense"] = 1
       /\ clientPc \in ClientUploading \cup {"meta", "ready"} => serverSent = 0
       /\ sem["sense"] = 1 => clientPc \in ClientUploading
       /\ clientPc = "meta" \/ sem["sense"] = 1 => header = serverSize
       /\ IF DownloadInFlight
          THEN /\ clientRecv < serverSize
               /\ header = Chunk(serverSize - clientRecv)
               /\ serverSent = clientRecv + header
          ELSE serverSent = clientRecv
       /\ clientPc = "copy" => clientMsg = header
       /\ clientPc \in {"complete", "done"} => clientRecv = clientSize
  /\ serverPc = "sense" => header = serverSize

\* The control and the counters of the two handlers.
CtlInv == CtlType /\ OneTurn /\ Named /\ Phases /\ UploadTurn /\ (~SegmentReuse => DownloadTurn)

\* What is in the buffers, given where the turn is.
Uploaded ==
  /\ rawData \in Buffer(fileSize)
  /\ payload \in Buffer(Cap)
  /\ \A i \in Offsets(serverRecv) : rawData[i] = FileByte(i)
  /\ serverPc \in Uploading \ {"create"} /\ UploadInFlight =>
       \A j \in Offsets(header) : payload[j] = FileByte(serverRecv + j)

Downloaded ==
  /\ compressedData \in Buffer(clientSize)
  /\ ~SegmentReuse =>
       /\ \A i \in Offsets(clientRecv) : compressedData[i] = CompressedByte(i)
       /\ serverPc \in Downloading /\ DownloadInFlight =>
            \A j \in Offsets(header) : payload[j] = CompressedByte(clientRecv + j)

IInv == CtlInv /\ fileSize \in FileSizes /\ Uploaded /\ Downloaded

-----------------------------------------------------------------------------
(* Bytes and buffers *)

\* Every byte the handlers write is a byte.
LEMMA ByteType == /\ Garbage \in Byte
                  /\ \A i \in Nat : FileByte(i) \in Byte /\ CompressedByte(i) \in Byte
                  /\ \A i \in Nat : Compressed(i) \in Byte
  BY DEF Byte, Garbage, FileByte, CompressedByte, Compressed

\* copyData keeps the size of the buffer it copies into, writes the bytes of
\* the payload where they belong and leaves the bytes before them alone.
LEMMA CopyInBuffer ==
  ASSUME NEW size \in Nat, NEW buf \in Buffer(size), payload \in Buffer(Cap),
         NEW offset \in Nat, NEW n \in Nat, n <= Cap, offset + n <= size
  PROVE  /\ CopyIn(buf, offset, n) \in Buffer(size)
         /\ \A i \in Offsets(offset) : CopyIn(buf, offset, n)[i] = buf[i]
         /\ \A j \in Offsets(n) : CopyIn(buf, offset, n)[offset + j] = payload[j]
  <1>1. DOMAIN buf = Offsets(size)
    BY DEF Buffer
  <1>2. \A i \in Offsets(size) : i \in offset..(offset + n - 1) => i - offset \in Offsets(Cap)
    BY CapAssumption DEF Offsets
  <1>3. CopyIn(buf, offset, n) \in Buffer(size)
    BY <1>1, <1>2 DEF CopyIn, Buffer
  <1>4. \A i \in Offsets(offset) :
          i \in Offsets(size) /\ i \notin offset..(offset + n - 1)
    BY DEF Offsets
  <1>5. \A j \in Offsets(n) : /\ offset + j \in Offsets(size)
                             /\ offset + j \in offset..(offset + n - 1)
                             /\ (offset + j) - offset = j
    BY DEF Offsets
  <1> QED
    BY <1>1, <1>3, <1>4, <1>5 DEF CopyIn
-----------------------------------------------------------------------------
(* The control and the counters *)

\* The counters, the names and the turn start as the invariant says.
LEMMA CtlInit == Init => CtlInv
  <1> SUFFICES ASSUME Init PROVE CtlInv
    OBVIOUS
  <1>1. completed \in BOOLEAN /\ reply \in BOOLEAN
    BY Zenon DEF Init
  <1>2. CtlType
    BY <1>1, FileSizesAssumption DEF Init, CtlType, ClientPcs, ServerPcs
  <1>3. OneTurn /\ Named /\ Phases
    BY <1>2 DEF Init, CtlType, OneTurn, Named, Phases, Uploading, Telling, Downloading,
       ClientUploading
  <1>4. UploadTurn /\ DownloadTurn
    BY <1>2 DEF Init, CtlType, UploadTurn, DownloadTurn, Uploading, Telling, Downloading,
                UploadInFlight
  <1> QED
    BY <1>2, <1>3, <1>4 DEF CtlInv

\* Every step of a handler, and of another request, keeps the turn in one place
\* and the counters of the two handlers together.
LEMMA CtlNext == ASSUME CtlInv, [Next]_vars PROVE CtlInv'
  <1> USE CapAssumption, CompressedSizesAssumption, SegmentReuseAssumption
      DEF CtlInv, CtlType, OneTurn, One, ServerHolds, ClientHolds, Named, Phases,
         UploadTurn, DownloadTurn,
          Uploading, Telling, Downloading, ClientUploading, ClientPcs, ServerPcs, Semaphores,
          UploadInFlight, DownloadInFlight, clientData, serverData, names, segment,
          clientVars, serverVars, ServerGoto, ClientGoto, Wait, Post, Chunk
  <1>1. CASE ServerCreate
    BY <1>1, SMTT(60) DEF ServerCreate, CreatedValues
  <1>2. CASE ServerReply
    BY <1>2, SMTT(60) DEF ServerReply
  <1>3. CASE ServerUploadWait
    BY <1>3, SMTT(60) DEF ServerUploadWait
  <1>4. CASE ServerParse
    BY <1>4, SMTT(60) DEF ServerParse
  <1>5. CASE ServerCopy
    BY <1>5, SMTT(60) DEF ServerCopy, TooLarge
  <1>6. CASE ServerUploadPost
    BY <1>6, SMTT(60) DEF ServerUploadPost
  <1>7. CASE ServerCompress
    BY <1>7, SMTT(60) DEF ServerCompress
  <1>8. CASE ServerDrain
    BY <1>8, SMTT(60) DEF ServerDrain
  <1>9. CASE ServerMeta
    BY <1>9, SMTT(60) DEF ServerMeta
  <1>10. CASE ServerSense
    BY <1>10, SMTT(60) DEF ServerSense
  <1>11. CASE ServerDownloadWait
    <2>1. CtlType'
      BY <1>11, SMTT(60) DEF ServerDownloadWait
    <2>2. OneTurn'
      BY <1>11, SMTT(60) DEF ServerDownloadWait
    <2>3. Named'
      BY <1>11, SMTT(60) DEF ServerDownloadWait
    <2>4. Phases'
      BY <1>11, SMTT(60) DEF ServerDownloadWait
    <2>5. UploadTurn'
      BY <1>11, SMTT(60) DEF ServerDownloadWait
    <2>6. ~SegmentReuse => DownloadTurn'
      BY <1>11, SMTT(60) DEF ServerDownloadWait
    <2> QED
      BY <2>1, <2>2, <2>3, <2>4, <2>5, <2>6 DEF CtlInv
  <1>12. CASE ServerHeader
    BY <1>12, SMTT(60) DEF ServerHeader
  <1>13. CASE ServerPayload
    BY <1>13, SMTT(60) DEF ServerPayload
  <1>14. CASE ServerDownloadPost
    BY <1>14, SMTT(60) DEF ServerDownloadPost
  <1>15. CASE ServerRelease
    BY <1>15, SMTT(60) DEF ServerRelease
  <1>16. CASE ClientStart
    <2>0. reply' \in BOOLEAN
      BY <1>16, Zenon DEF ClientStart
    <2>1. CtlType'
      BY <1>16, <2>0, SMTT(60) DEF ClientStart
    <2>2. OneTurn'
      BY <1>16, SMTT(60) DEF ClientStart
    <2>3. Named'
      BY <1>16, SMTT(60) DEF ClientStart
    <2>4. Phases'
      BY <1>16, SMTT(60) DEF ClientStart
    <2>5. UploadTurn'
      BY <1>16, SMTT(60) DEF ClientStart
    <2>6. ~SegmentReuse => DownloadTurn'
      BY <1>16, SMTT(60) DEF ClientStart
    <2> QED
      BY <2>1, <2>2, <2>3, <2>4, <2>5, <2>6 DEF CtlInv
  <1>17. CASE ClientOpen
    BY <1>17, SMTT(60) DEF ClientOpen
  <1>18. CASE ClientUploadWait
    BY <1>18, SMTT(60) DEF ClientUploadWait
  <1>19. CASE ClientHeader
    BY <1>19, SMTT(60) DEF ClientHeader
  <1>20. CASE ClientPayload
    BY <1>20, SMTT(60) DEF ClientPayload
  <1>21. CASE ClientUploadPost
    BY <1>21, SMTT(60) DEF ClientUploadPost
  <1>22. CASE ClientSenseWait
    BY <1>22, SMTT(60) DEF ClientSenseWait
  <1>23. CASE ClientMeta
    BY <1>23, SMTT(60) DEF ClientMeta
  <1>24. CASE ClientReady
    BY <1>24, SMTT(60) DEF ClientReady
  <1>25. CASE ClientDownloadWait
    BY <1>25, SMTT(60) DEF ClientDownloadWait
  <1>26. CASE ClientParse
    BY <1>26, SMTT(60) DEF ClientParse
  <1>27. CASE ClientCopy
    BY <1>27, SMTT(60) DEF ClientCopy, TooLarge
  <1>28. CASE ClientDownloadPost
    BY <1>28, SMTT(60) DEF ClientDownloadPost
  <1>29. CASE ClientUnlink
    BY <1>29, SMTT(60) DEF ClientUnlink
  <1>30. CASE ClientComplete
    BY <1>30, SMTT(60) DEF ClientComplete
  <1>31. CASE OtherRequestWrites
    BY <1>31, SMTT(60) DEF OtherRequestWrites
  <1>32. CASE UNCHANGED vars
    BY <1>32 DEF vars
  <1> QED
    BY <1>1, <1>2, <1>3, <1>4, <1>5, <1>6, <1>7, <1>8, <1>9, <1>10, <1>11, <1>12, <1>13,
       <1>14, <1>15, <1>16, <1>17, <1>18, <1>19, <1>20, <1>21, <1>22, <1>23, <1>24, <1>25,
       <1>26, <1>27, <1>28, <1>29, <1>30, <1>31, <1>32 DEF Next, ServerNext, ClientNext
-----------------------------------------------------------------------------
(* The bytes *)

\* Nothing has been copied at the start, in either direction.
LEMMA UploadedInit == Init => Uploaded
  BY ByteType, CapAssumption DEF Init, Uploaded, Buffer, Offsets, Uploading, UploadInFlight

\* The same for the client.
LEMMA DownloadedInit == Init => Downloaded
  BY ByteType, CapAssumption DEF Init, Downloaded, Buffer, Offsets, Downloading, DownloadInFlight

\* Every step keeps what the service has copied a prefix of the file.
LEMMA UploadedNext == ASSUME CtlInv, CtlInv', Uploaded, [Next]_vars PROVE Uploaded'
  <1> USE CapAssumption
      DEF CtlInv, CtlType, OneTurn, One, ServerHolds, ClientHolds, Named, Phases,
         UploadTurn, DownloadTurn,
          Uploading, Telling, Downloading, ClientUploading, ClientPcs, ServerPcs,
          Semaphores, UploadInFlight,
          clientData, serverData, names, segment, clientVars, serverVars, ServerGoto,
          ClientGoto, Wait, Post
  <1>1. CASE ServerCreate
    BY <1>1 DEF ServerCreate, CreatedValues, Uploaded
  <1>2. CASE ServerReply
    BY <1>2 DEF ServerReply, Uploaded
  <1>3. CASE ServerUploadWait
    BY <1>3 DEF ServerUploadWait, Uploaded
  <1>4. CASE ServerParse
    BY <1>4 DEF ServerParse, Uploaded
  <1>5. CASE ServerCopy
    <2>1. /\ serverMsg = header /\ serverMsg \in Nat /\ serverRecv \in Nat /\ fileSize \in Nat
          /\ serverMsg <= Cap /\ serverRecv + serverMsg <= fileSize
          /\ serverPc \in Uploading \ {"create"} /\ UploadInFlight
      BY <1>5 DEF ServerCopy, Chunk
    <2>2. /\ rawData' = CopyIn(rawData, serverRecv, serverMsg)
          /\ serverRecv' = serverRecv + serverMsg
          /\ UNCHANGED <<fileSize, payload, header>>
      BY <1>5, <2>1 DEF ServerCopy, TooLarge
    <2> HIDE DEF CtlInv
    <2>3. /\ rawData' \in Buffer(fileSize)
          /\ \A i \in Offsets(serverRecv) : rawData'[i] = rawData[i]
          /\ \A j \in Offsets(serverMsg) : rawData'[serverRecv + j] = payload[j]
      BY <2>1, <2>2, CopyInBuffer DEF Uploaded
    <2>4. ASSUME NEW i \in Offsets(serverRecv + serverMsg), i \notin Offsets(serverRecv)
          PROVE  i - serverRecv \in Offsets(serverMsg)
      BY <2>1, <2>4 DEF Offsets
    <2>5. \A i \in Offsets(serverRecv') : rawData'[i] = FileByte(i)
      <3> SUFFICES ASSUME NEW i \in Offsets(serverRecv + serverMsg) PROVE rawData'[i] =
      FileByte(i)
        BY <2>2
      <3>1. CASE i \in Offsets(serverRecv)
        BY <3>1, <2>3 DEF Uploaded
      <3>2. CASE i \notin Offsets(serverRecv)
        <4>1. i - serverRecv \in Offsets(header) /\ serverRecv + (i - serverRecv) = i
          BY <2>1, <2>4, <3>2 DEF Offsets
        <4> QED
          BY <4>1, <2>1, <2>3 DEF Uploaded
      <3> QED
        BY <3>1, <3>2
    <2>6. ~UploadInFlight'
      BY <1>5, <2>1 DEF ServerCopy, TooLarge, CtlInv
    <2> QED
      BY <2>2, <2>3, <2>5, <2>6 DEF Uploaded
  <1>6. CASE ServerUploadPost
    BY <1>6 DEF ServerUploadPost, Uploaded
  <1>7. CASE ServerCompress
    BY <1>7 DEF ServerCompress, Uploaded
  <1>8. CASE ServerDrain
    BY <1>8 DEF ServerDrain, Uploaded
  <1>9. CASE ServerMeta
    BY <1>9 DEF ServerMeta, Uploaded
  <1>10. CASE ServerSense
    BY <1>10 DEF ServerSense, Uploaded
  <1>11. CASE ServerDownloadWait
    BY <1>11 DEF ServerDownloadWait, Uploaded
  <1>12. CASE ServerHeader
    BY <1>12 DEF ServerHeader, Uploaded
  <1>13. CASE ServerPayload
    <2>1. payload' \in Buffer(Cap)
      BY <1>13, ByteType DEF ServerPayload, Buffer, Offsets, Uploaded
    <2> QED
      BY <1>13, <2>1 DEF ServerPayload, Uploaded
  <1>14. CASE ServerDownloadPost
    BY <1>14 DEF ServerDownloadPost, Uploaded
  <1>15. CASE ServerRelease
    BY <1>15 DEF ServerRelease, Uploaded
  <1>16. CASE ClientStart
    BY <1>16 DEF ClientStart, Uploaded
  <1>17. CASE ClientOpen
    BY <1>17 DEF ClientOpen, Uploaded
  <1>18. CASE ClientUploadWait
    BY <1>18 DEF ClientUploadWait, Uploaded
  <1>19. CASE ClientHeader
    BY <1>19 DEF ClientHeader, Uploaded
  <1>20. CASE ClientPayload
    <2> DEFINE n == Chunk(fileSize - clientSent)
    <2>1. /\ n \in Nat /\ n <= Cap /\ clientSent \in Nat
          /\ serverPc \in Uploading \ {"create"} => header = n /\ clientSent = serverRecv
      BY <1>20 DEF ClientPayload, Chunk
    <2> HIDE DEF CtlInv, n
    <2>2. /\ payload' = [j \in Offsets(Cap) |-> IF j < n THEN FileByte(clientSent + j)
                                                         ELSE payload[j]]
          /\ UNCHANGED <<fileSize, serverPc, rawData, serverRecv, header>>
      BY <1>20 DEF ClientPayload, n
    <2>3. payload' \in Buffer(Cap)
      BY <2>1, <2>2, ByteType DEF Buffer, Offsets, Uploaded
    <2>4. \A j \in Offsets(n) : j \in Offsets(Cap) /\ j < n
      BY <2>1 DEF Offsets
    <2>5. \A j \in Offsets(n) : payload'[j] = FileByte(clientSent + j)
      BY <2>2, <2>4
    <2> QED
      BY <2>1, <2>2, <2>3, <2>5 DEF Uploaded
  <1>21. CASE ClientUploadPost
    BY <1>21 DEF ClientUploadPost, Uploaded
  <1>22. CASE ClientSenseWait
    BY <1>22 DEF ClientSenseWait, Uploaded
  <1>23. CASE ClientMeta
    BY <1>23 DEF ClientMeta, Uploaded
  <1>24. CASE ClientReady
    BY <1>24 DEF ClientReady, Uploaded
  <1>25. CASE ClientDownloadWait
    BY <1>25 DEF ClientDownloadWait, Uploaded
  <1>26. CASE ClientParse
    BY <1>26 DEF ClientParse, Uploaded
  <1>27. CASE ClientCopy
    BY <1>27 DEF ClientCopy, Uploaded
  <1>28. CASE ClientDownloadPost
    BY <1>28 DEF ClientDownloadPost, Uploaded
  <1>29. CASE ClientUnlink
    BY <1>29 DEF ClientUnlink, Uploaded
  <1>30. CASE ClientComplete
    BY <1>30 DEF ClientComplete, Uploaded
  <1>31. CASE OtherRequestWrites
    <2>1. payload' \in Buffer(Cap)
      BY <1>31, ByteType DEF OtherRequestWrites, Buffer, Offsets, Uploaded
    <2> QED
      BY <1>31, <2>1 DEF OtherRequestWrites, Uploaded
  <1>32. CASE UNCHANGED vars
    BY <1>32 DEF vars, Uploaded
  <1> QED
    BY <1>1, <1>2, <1>3, <1>4, <1>5, <1>6, <1>7, <1>8, <1>9, <1>10, <1>11, <1>12, <1>13,
       <1>14, <1>15, <1>16, <1>17, <1>18, <1>19, <1>20, <1>21, <1>22, <1>23, <1>24, <1>25,
       <1>26, <1>27, <1>28, <1>29, <1>30, <1>31, <1>32 DEF Next, ServerNext, ClientNext

\* Every step keeps what the client has copied a prefix of the answer, when no
\* other request is given the segment.
LEMMA DownloadedNext == ASSUME CtlInv, CtlInv', Uploaded, Downloaded, [Next]_vars PROVE
Downloaded'
  <1> USE CapAssumption
      DEF CtlInv, CtlType, OneTurn, One, ServerHolds, ClientHolds, Named, Phases,
         UploadTurn, DownloadTurn,
          Uploading, Telling, Downloading, ClientUploading, ClientPcs, ServerPcs,
          Semaphores, DownloadInFlight,
          clientData, serverData, names, segment, clientVars, serverVars, ServerGoto,
          ClientGoto, Wait, Post
  <1>1. CASE ServerCreate
    BY <1>1 DEF ServerCreate, CreatedValues, Downloaded
  <1>2. CASE ServerReply
    BY <1>2 DEF ServerReply, Downloaded
  <1>3. CASE ServerUploadWait
    BY <1>3 DEF ServerUploadWait, Downloaded
  <1>4. CASE ServerParse
    BY <1>4 DEF ServerParse, Downloaded
  <1>5. CASE ServerCopy
    BY <1>5 DEF ServerCopy, Downloaded
  <1>6. CASE ServerUploadPost
    BY <1>6 DEF ServerUploadPost, Downloaded
  <1>7. CASE ServerCompress
    BY <1>7 DEF ServerCompress, Downloaded
  <1>8. CASE ServerDrain
    BY <1>8 DEF ServerDrain, Downloaded
  <1>9. CASE ServerMeta
    BY <1>9 DEF ServerMeta, Downloaded
  <1>10. CASE ServerSense
    BY <1>10 DEF ServerSense, Downloaded
  <1>11. CASE ServerDownloadWait
    BY <1>11 DEF ServerDownloadWait, Downloaded
  <1>12. CASE ServerHeader
    BY <1>12 DEF ServerHeader, Downloaded
  <1>13. CASE ServerPayload
    <2> DEFINE n == Chunk(serverSize - serverSent)
    <2>1. /\ n \in Nat /\ n <= Cap /\ serverSent \in Nat /\ fileSize = serverRecv
          /\ ~SegmentReuse => header = n /\ serverSent = clientRecv
      BY <1>13 DEF ServerPayload, Chunk
    <2> HIDE DEF CtlInv, n
    <2>2. /\ payload' = [j \in Offsets(Cap) |-> IF j < n THEN Compressed(serverSent + j)
                                                         ELSE payload[j]]
          /\ UNCHANGED <<clientRecv, clientSize, compressedData, header>>
      BY <1>13 DEF ServerPayload, n
    <2>3. \A i \in Nat : Compressed(i) = CompressedByte(i)
      BY <2>1 DEF Compressed, Uploaded
    <2>4. \A j \in Offsets(n) : j \in Offsets(Cap) /\ j < n /\ serverSent + j \in Nat
      BY <2>1 DEF Offsets
    <2>5. \A j \in Offsets(n) : payload'[j] = CompressedByte(serverSent + j)
      BY <2>2, <2>3, <2>4
    <2> QED
      BY <2>1, <2>2, <2>5 DEF Downloaded
  <1>14. CASE ServerDownloadPost
    BY <1>14 DEF ServerDownloadPost, Downloaded
  <1>15. CASE ServerRelease
    BY <1>15 DEF ServerRelease, Downloaded
  <1>16. CASE ClientStart
    BY <1>16 DEF ClientStart, Downloaded
  <1>17. CASE ClientOpen
    BY <1>17 DEF ClientOpen, Downloaded
  <1>18. CASE ClientUploadWait
    BY <1>18 DEF ClientUploadWait, Downloaded
  <1>19. CASE ClientHeader
    BY <1>19 DEF ClientHeader, Downloaded
  <1>20. CASE ClientPayload
    BY <1>20 DEF ClientPayload, Downloaded
  <1>21. CASE ClientUploadPost
    BY <1>21 DEF ClientUploadPost, Downloaded
  <1>22. CASE ClientSenseWait
    BY <1>22 DEF ClientSenseWait, Downloaded
  <1>23. CASE ClientMeta
    <2>1. compressedData' \in Buffer(clientSize')
      BY <1>23, ByteType DEF ClientMeta, Buffer, Offsets
    <2>2. clientRecv' = 0
      BY <1>23 DEF ClientMeta
    <2>3. ~SegmentReuse => ~DownloadInFlight'
      BY <1>23 DEF ClientMeta
    <2> QED
      BY <2>1, <2>2, <2>3 DEF Downloaded, Offsets
  <1>24. CASE ClientReady
    BY <1>24 DEF ClientReady, Downloaded
  <1>25. CASE ClientDownloadWait
    BY <1>25 DEF ClientDownloadWait, Downloaded
  <1>26. CASE ClientParse
    BY <1>26 DEF ClientParse, Downloaded
  <1>27. CASE ClientCopy
    <2>1. CASE TooLarge(clientMsg, clientSize - clientRecv)
      BY <1>27, <2>1 DEF ClientCopy, Downloaded
    <2>2. CASE ~TooLarge(clientMsg, clientSize - clientRecv)
      <3>1. /\ clientMsg \in Nat /\ clientRecv \in Nat /\ clientSize \in Nat
            /\ clientMsg <= Cap /\ clientRecv + clientMsg <= clientSize
        BY <2>2 DEF TooLarge
      <3>2. ~SegmentReuse => /\ clientMsg = header
                             /\ serverPc \in Downloading /\ DownloadInFlight
                             /\ ~DownloadInFlight'
        BY <1>27, <2>2 DEF ClientCopy
      <3>3. /\ compressedData' = CopyIn(compressedData, clientRecv, clientMsg)
            /\ clientRecv' = clientRecv + clientMsg
            /\ UNCHANGED <<clientSize, payload, header>>
        BY <1>27, <2>2 DEF ClientCopy
      <3> HIDE DEF CtlInv
      <3>4. /\ compressedData' \in Buffer(clientSize)
            /\ \A i \in Offsets(clientRecv) : compressedData'[i] = compressedData[i]
            /\ \A j \in Offsets(clientMsg) : compressedData'[clientRecv + j] = payload[j]
        BY <3>1, <3>3, CopyInBuffer DEF Downloaded, Uploaded
      <3>5. ASSUME ~SegmentReuse, NEW i \in Offsets(clientRecv + clientMsg)
            PROVE  compressedData'[i] = CompressedByte(i)
        <4>1. CASE i \in Offsets(clientRecv)
          BY <3>4, <3>5, <4>1 DEF Downloaded
        <4>2. CASE i \notin Offsets(clientRecv)
          <5>1. i - clientRecv \in Offsets(clientMsg) /\ clientRecv + (i - clientRecv) = i
            BY <3>1, <4>2 DEF Offsets
          <5> QED
            BY <5>1, <3>2, <3>4, <3>5 DEF Downloaded
        <4> QED
          BY <4>1, <4>2
      <3> QED
        BY <3>2, <3>3, <3>4, <3>5 DEF Downloaded
    <2> QED
      BY <2>1, <2>2
  <1>28. CASE ClientDownloadPost
    BY <1>28 DEF ClientDownloadPost, Downloaded
  <1>29. CASE ClientUnlink
    BY <1>29 DEF ClientUnlink, Downloaded
  <1>30. CASE ClientComplete
    BY <1>30 DEF ClientComplete, Downloaded
  <1>31. CASE OtherRequestWrites
    BY <1>31 DEF OtherRequestWrites, Downloaded
  <1>32. CASE UNCHANGED vars
    BY <1>32 DEF vars, Downloaded
  <1> QED
    BY <1>1, <1>2, <1>3, <1>4, <1>5, <1>6, <1>7, <1>8, <1>9, <1>10, <1>11, <1>12, <1>13,
       <1>14, <1>15, <1>16, <1>17, <1>18, <1>19, <1>20, <1>21, <1>22, <1>23, <1>24, <1>25,
       <1>26, <1>27, <1>28, <1>29, <1>30, <1>31, <1>32 DEF Next, ServerNext, ClientNext
-----------------------------------------------------------------------------
(* The theorems *)

\* IInv is an inductive invariant of the specification.
LEMMA Invariance == Spec => []IInv
  <1>1. Init => IInv
    BY CtlInit, UploadedInit, DownloadedInit DEF IInv, Init
  <1>2. IInv /\ [Next]_vars => IInv'
    <2> SUFFICES ASSUME IInv, [Next]_vars PROVE IInv'
      OBVIOUS
    <2>1. CtlInv'
      BY CtlNext DEF IInv
    <2>2. Uploaded' /\ Downloaded'
      BY <2>1, UploadedNext, DownloadedNext DEF IInv
    <2>3. UNCHANGED fileSize
      BY DEF Next, ServerNext, ClientNext, vars, OtherRequestWrites, ServerCreate,
         ServerReply, ServerUploadWait, ServerParse, ServerCopy, ServerUploadPost,
         ServerCompress, ServerDrain, ServerMeta, ServerSense, ServerDownloadWait,
         ServerHeader, ServerPayload, ServerDownloadPost, ServerRelease,
             ClientStart, ClientOpen, ClientUploadWait, ClientHeader, ClientPayload,
             ClientUploadPost, ClientSenseWait, ClientMeta, ClientReady,
             ClientDownloadWait, ClientParse, ClientCopy, ClientDownloadPost,
             ClientUnlink, ClientComplete
    <2> QED
      BY <2>1, <2>2, <2>3 DEF IInv
  <1> QED
    BY <1>1, <1>2, PTL DEF Spec

\* Every variable has its type, and the buffers the sizes the handlers know.
THEOREM TypeCorrect == Spec => []TypeOK
  <1>1. IInv => TypeOK
    BY DEF IInv, CtlInv, CtlType, Named, Uploaded, Downloaded, TypeOK
  <1> QED
    BY <1>1, Invariance, PTL

\* The two handlers never hold the segment together, whatever other requests do.
THEOREM Exclusion == Spec => []ExclusiveSegment
  <1>1. IInv => ExclusiveSegment
    BY DEF IInv, CtlInv, CtlType, OneTurn, One, ExclusiveSegment, ServerHolds, ClientHolds,
       Phases,
           Semaphores, Uploading, ClientUploading
  <1> QED
    BY <1>1, Invariance, PTL

\* What the service compresses is the client's file, whatever other requests do.
THEOREM UploadCorrect == Spec => []UploadIntact
  <1>1. IInv => UploadIntact
    BY DEF IInv, CtlInv, CtlType, Phases, Uploaded, UploadIntact, Uploading, Telling, Downloading,
           ServerPcs
  <1> QED
    BY <1>1, Invariance, PTL

\* A request that has the segment for itself throws no exception.
THEOREM NothingThrown == ASSUME ~SegmentReuse PROVE Spec => []NoThrow
  <1>1. IInv => NoThrow
    BY DEF IInv, CtlInv, DownloadTurn, Phases, NoThrow
  <1> QED
    BY <1>1, Invariance, PTL

\* A request that has the segment for itself completes with the whole answer.
THEOREM ResultCorrect == ASSUME ~SegmentReuse PROVE Spec => []ResultIntact
  <1>1. IInv => ResultIntact
    <2> SUFFICES ASSUME IInv, completed PROVE ResultIntact
      BY DEF ResultIntact
    <2>1. clientPc = "done" /\ clientSize \in Nat
      BY DEF IInv, CtlInv, CtlType, Phases
    <2>2. serverPc \in Downloading
      BY <2>1 DEF IInv, CtlInv, CtlType, Phases, Uploading, Telling, Downloading, ServerPcs,
                  ClientUploading
    <2>3. clientSize = serverSize /\ clientRecv = serverSize
      BY <2>1, <2>2 DEF IInv, CtlInv, DownloadTurn, ClientUploading
    <2>4. /\ compressedData \in [Offsets(serverSize) -> Byte]
          /\ \A i \in Offsets(serverSize) : compressedData[i] = CompressedByte(i)
      BY <2>3 DEF IInv, Downloaded, Buffer
    <2> QED
      BY <2>3, <2>4 DEF ResultIntact
  <1> QED
    BY <1>1, Invariance, PTL
-----------------------------------------------------------------------------
(* Transfer implements FileExchange *)

Received == [i \in Offsets(serverRecv) |-> rawData[i]]
Result == [i \in Offsets(clientRecv) |-> compressedData[i]]

\* What each side has copied is a prefix of what the other one has.
LEMMA Prefixes ==
  ASSUME ~SegmentReuse, IInv
  PROVE  Received = FE!FilePrefix(serverRecv) /\ Result = FE!CompressedPrefix(clientRecv)
  <1>1. \A i \in Offsets(serverRecv) : rawData[i] = FileByte(i)
    BY DEF IInv, Uploaded
  <1>2. \A i \in Offsets(clientRecv) : compressedData[i] = CompressedByte(i)
    BY DEF IInv, Downloaded
  <1>3. Received = FE!FilePrefix(serverRecv)
    BY <1>1 DEF Received, FE!FilePrefix, FE!FileByte, FileByte, Offsets
  <1>4. Result = FE!CompressedPrefix(clientRecv)
    BY <1>2 DEF Result, FE!CompressedPrefix, FE!CompressedByte, CompressedByte, Offsets
  <1> QED
    BY <1>3, <1>4

\* A chunk copied by the service is an upload of the abstract exchange.
LEMMA CopyIsUpload ==
  ASSUME ~SegmentReuse, IInv, IInv', ServerCopy
  PROVE  FE!Upload
  <1>1. /\ serverRecv \in Nat /\ fileSize \in Nat /\ serverSize = 0
        /\ serverMsg = Chunk(fileSize - serverRecv) /\ serverRecv < fileSize
    BY DEF IInv, CtlInv, CtlType, Phases, UploadTurn, UploadInFlight, Uploading, ServerCopy,
           ServerGoto
  <1>2. serverMsg \in 1..Cap /\ serverMsg <= fileSize - serverRecv
    BY <1>1, CapAssumption DEF Chunk
  <1>3. /\ serverRecv' = serverRecv + serverMsg
        /\ UNCHANGED <<fileSize, serverSize, completed, clientRecv, compressedData>>
    BY <1>1, <1>2, CapAssumption DEF ServerCopy, TooLarge, clientVars, clientData
  <1>4. /\ serverRecv \in 0..fileSize /\ serverRecv' \in 0..fileSize
        /\ serverRecv < serverRecv'
    BY <1>1, <1>2, <1>3, CapAssumption
  <1>5. Received = FE!FilePrefix(serverRecv) /\ Received' = FE!FilePrefix(serverRecv')
    <2>1. \A i \in Offsets(serverRecv') : rawData'[i] = FileByte(i)
      BY DEF IInv, Uploaded
    <2> QED
      BY <2>1, Prefixes DEF Received, FE!FilePrefix, FE!FileByte, FileByte, Offsets
  <1> QED
    BY <1>1, <1>3, <1>4, <1>5 DEF FE!Upload, Received

\* A chunk copied by the client is a download of the abstract exchange.
LEMMA CopyIsDownload ==
  ASSUME ~SegmentReuse, IInv, IInv', ClientCopy
  PROVE  FE!Download
  <1>1. /\ clientRecv \in Nat /\ serverSize \in Nat /\ clientSize = serverSize
        /\ clientMsg = Chunk(serverSize - clientRecv) /\ clientRecv < serverSize
    BY DEF IInv, CtlInv, CtlType, Phases, DownloadTurn, DownloadInFlight, Uploading, Telling,
           Downloading, ClientUploading, ServerPcs, ClientCopy, ClientGoto
  <1>2. clientMsg \in 1..Cap /\ clientMsg <= serverSize - clientRecv
    BY <1>1, CapAssumption DEF Chunk
  <1>3. /\ clientRecv' = clientRecv + clientMsg
        /\ UNCHANGED <<fileSize, serverSize, completed, serverRecv, rawData>>
    BY <1>1, <1>2, CapAssumption DEF ClientCopy, TooLarge, serverVars, serverData
  <1>4. /\ clientRecv \in 0..serverSize /\ clientRecv' \in 0..serverSize
        /\ clientRecv < clientRecv'
    BY <1>1, <1>2, <1>3, CapAssumption
  <1>5. Result = FE!CompressedPrefix(clientRecv) /\ Result' = FE!CompressedPrefix(clientRecv')
    <2>1. \A i \in Offsets(clientRecv') : compressedData'[i] = CompressedByte(i)
      BY SegmentReuseAssumption DEF IInv, Downloaded
    <2> QED
      BY <2>1, Prefixes DEF Result, FE!CompressedPrefix, FE!CompressedByte, CompressedByte,
         Offsets
  <1> QED
    BY <1>1, <1>3, <1>4, <1>5 DEF FE!Download, Result

\* A request that has the segment for itself implements the abstract exchange:
\* copying is uploading or downloading, compressData and completeRequest are
\* themselves, and no other step of the handlers shows.
THEOREM Refinement == ASSUME ~SegmentReuse PROVE Spec => Implements
  <1>1. Init => FE!Init
    BY DEF Init, FE!Init, FE!FilePrefix, FE!CompressedPrefix, Offsets
  <1>2. IInv /\ IInv' /\ [Next]_vars => [FE!Next]_(FE!vars)
    <2> SUFFICES ASSUME IInv, IInv', [Next]_vars PROVE [FE!Next]_(FE!vars)
      OBVIOUS
    <2>1. CASE ServerCopy
      BY <2>1, CopyIsUpload DEF FE!Next
    <2>2. CASE ServerCompress
      <3>1. /\ serverSize = 0 /\ serverRecv = fileSize
            /\ UNCHANGED <<fileSize, serverRecv, rawData, clientRecv, compressedData, completed>>
        BY <2>2 DEF ServerCompress, ServerGoto, clientVars, clientData, IInv, CtlInv, CtlType,
                    Phases, UploadTurn, Uploading
      <3>2. FE!Compress
        BY <2>2, <3>1, Prefixes DEF ServerCompress, FE!Compress, Received
      <3> QED
        BY <3>2 DEF FE!Next
    <2>3. CASE ClientCopy
      BY <2>3, CopyIsDownload DEF FE!Next
    <2>4. CASE ClientMeta
      <3>1. /\ clientRecv = 0
            /\ UNCHANGED <<fileSize, serverRecv, rawData, serverSize, clientRecv, completed>>
        BY <2>4 DEF ClientMeta, ClientGoto, serverVars, serverData, IInv, CtlInv, Phases
      <3> QED
        BY <3>1 DEF FE!vars, Offsets
    <2>5. CASE ClientComplete
      <3>1. /\ clientRecv = serverSize /\ serverSize # 0 /\ ~completed
            /\ UNCHANGED <<fileSize, serverRecv, rawData, serverSize, clientRecv, compressedData>>
        BY <2>5 DEF ClientComplete, ClientGoto, serverVars, serverData, IInv, CtlInv, CtlType,
                    Phases, DownloadTurn, ClientUploading, Uploading, Telling,
                    Downloading, ServerPcs
      <3>2. FE!Complete
        BY <2>5, <3>1, Prefixes DEF ClientComplete, FE!Complete, Result
      <3> QED
        BY <3>2 DEF FE!Next
    <2>6. ASSUME ServerNext \/ ClientNext, ~ServerCopy, ~ServerCompress, ~ClientCopy, ~ClientMeta,
                 ~ClientComplete
          PROVE  UNCHANGED FE!vars
      <3>1. UNCHANGED <<fileSize, serverRecv, rawData, serverSize, clientRecv, compressedData,
                        completed>>
        BY <2>6 DEF ServerNext, ClientNext, clientVars, clientData, serverVars, serverData,
             ServerCreate, ServerReply, ServerUploadWait, ServerParse,
             ServerUploadPost, ServerDrain, ServerMeta, ServerSense,
             ServerDownloadWait, ServerHeader, ServerPayload, ServerDownloadPost,
             ServerRelease,
             ClientStart, ClientOpen, ClientUploadWait, ClientHeader, ClientPayload,
             ClientUploadPost, ClientSenseWait, ClientReady, ClientDownloadWait,
             ClientParse, ClientDownloadPost, ClientUnlink
      <3> QED
        BY <3>1 DEF FE!vars
    <2>7. CASE OtherRequestWrites \/ UNCHANGED vars
      BY <2>7 DEF OtherRequestWrites, vars, clientVars, clientData, serverVars, serverData,
         FE!vars
    <2> QED
      BY <2>1, <2>2, <2>3, <2>4, <2>5, <2>6, <2>7 DEF Next
  <1> QED
    BY <1>1, <1>2, Invariance, PTL DEF Spec, FE!Spec, Implements

-----------------------------------------------------------------------------
(***************************************************************************)
(* When the released segment may go to another request.  Until the         *)
(* service's handler returns, nobody else writes into the segment and      *)
(* DownloadTurn holds as it does for a request that is alone (Early).      *)
(* When it returns, the client has copied all whole chunks of the answer   *)
(* but the last (WholeChunks), so what others then write reaches only what *)
(* lies behind LastChunk (Released, EarlyBytes).                           *)
(***************************************************************************)

\* Nobody else writes into the segment before the service's handler returns.
Early == serverPc # "done" => DownloadTurn

\* The client has copied whole chunks, or the whole answer.
WholeChunks == \/ clientRecv = serverSize
               \/ \E k \in Nat : clientRecv = Cap * k

\* The client once the service's handler has returned: it has all but at most
\* the last chunk, and is not about to be told another size.
Released ==
  serverPc = "done" =>
    /\ clientPc \notin ClientUploading \cup {"meta", "ready"}
    /\ clientSize = serverSize
    /\ clientRecv >= LastChunk

\* The bytes the client has copied, and those of the chunk on its way.
EarlyBytes ==
  /\ \A i \in Offsets(clientRecv) :
       serverPc # "done" \/ i < LastChunk => compressedData[i] = CompressedByte(i)
  /\ serverPc \in Downloading \ {"done"} /\ DownloadInFlight =>
       \A j \in Offsets(header) : payload[j] = CompressedByte(clientRecv + j)

RInv == IInv /\ Early /\ (serverPc # "done" => WholeChunks) /\ Released /\ EarlyBytes
-----------------------------------------------------------------------------
(* Whole chunks *)

\* A whole number of chunks and at most one more: the last chunk starts there.
LEMMA LastChunkStarts ==
  ASSUME serverSize \in Nat \ {0}, NEW k \in Nat,
         Cap * k < serverSize, serverSize - Cap * k <= Cap
  PROVE  LastChunk = Cap * k
  <1>1. Cap \in Nat /\ Cap > 0 /\ Cap * k \in Nat
    BY CapAssumption
  <1>2. serverSize - 1 = Cap * k + (serverSize - 1 - Cap * k)
    BY <1>1
  <1>3. serverSize - 1 - Cap * k \in 0..(Cap - 1)
    BY <1>1
  <1>4. (serverSize - 1) \div Cap = k
    BY <1>1, <1>2, <1>3, SMTT(30)
  <1> QED
    BY <1>4 DEF LastChunk

\* The last chunk does not start behind the end of the answer.
LEMMA LastChunkInside ==
  ASSUME serverSize \in Nat \ {0}
  PROVE  LastChunk \in Nat /\ LastChunk < serverSize
  <1>1. Cap \in Nat /\ Cap > 0 /\ serverSize - 1 \in Nat
    BY CapAssumption
  <1>2. /\ (serverSize - 1) \div Cap \in Nat
        /\ Cap * ((serverSize - 1) \div Cap) <= serverSize - 1
    BY <1>1, SMTT(30)
  <1> QED
    BY <1>1, <1>2 DEF LastChunk
-----------------------------------------------------------------------------
(* Until the service returns *)

\* Until the service's handler returns, the turn and the header tell where the
\* download stands, other requests or not.
LEMMA EarlyNext == ASSUME CtlInv, CtlInv', Early, [Next]_vars PROVE Early'
  <1> USE CapAssumption, CompressedSizesAssumption
      DEF CtlInv, CtlType, OneTurn, One, ServerHolds, ClientHolds, Named, Phases, Early,
          DownloadTurn, Uploading, Telling, Downloading, ClientUploading, ClientPcs, ServerPcs,
          Semaphores, DownloadInFlight, clientData, serverData, names, segment,
          clientVars, serverVars, ServerGoto, ClientGoto, Wait, Post, Chunk
  <1>1. CASE ServerCreate
    BY <1>1, SMTT(60) DEF ServerCreate, CreatedValues
  <1>2. CASE ServerReply
    BY <1>2, SMTT(60) DEF ServerReply
  <1>3. CASE ServerUploadWait
    BY <1>3, SMTT(60) DEF ServerUploadWait
  <1>4. CASE ServerParse
    BY <1>4, SMTT(60) DEF ServerParse
  <1>5. CASE ServerCopy
    BY <1>5, SMTT(60) DEF ServerCopy, TooLarge
  <1>6. CASE ServerUploadPost
    BY <1>6, SMTT(60) DEF ServerUploadPost
  <1>7. CASE ServerCompress
    BY <1>7, SMTT(60) DEF ServerCompress
  <1>8. CASE ServerDrain
    BY <1>8, SMTT(60) DEF ServerDrain
  <1>9. CASE ServerMeta
    BY <1>9, SMTT(60) DEF ServerMeta
  <1>10. CASE ServerSense
    BY <1>10, SMTT(60) DEF ServerSense
  <1>11. CASE ServerDownloadWait
    BY <1>11, SMTT(60) DEF ServerDownloadWait
  <1>12. CASE ServerHeader
    BY <1>12, SMTT(60) DEF ServerHeader
  <1>13. CASE ServerPayload
    BY <1>13, SMTT(60) DEF ServerPayload
  <1>14. CASE ServerDownloadPost
    BY <1>14, SMTT(60) DEF ServerDownloadPost
  <1>15. CASE ServerRelease
    BY <1>15, SMTT(60) DEF ServerRelease
  <1>16. CASE ClientStart
    BY <1>16, SMTT(60) DEF ClientStart
  <1>17. CASE ClientOpen
    BY <1>17, SMTT(60) DEF ClientOpen
  <1>18. CASE ClientUploadWait
    BY <1>18, SMTT(60) DEF ClientUploadWait
  <1>19. CASE ClientHeader
    BY <1>19, SMTT(60) DEF ClientHeader
  <1>20. CASE ClientPayload
    BY <1>20, SMTT(60) DEF ClientPayload
  <1>21. CASE ClientUploadPost
    BY <1>21, SMTT(60) DEF ClientUploadPost
  <1>22. CASE ClientSenseWait
    BY <1>22, SMTT(60) DEF ClientSenseWait
  <1>23. CASE ClientMeta
    BY <1>23, SMTT(60) DEF ClientMeta
  <1>24. CASE ClientReady
    BY <1>24, SMTT(60) DEF ClientReady
  <1>25. CASE ClientDownloadWait
    BY <1>25, SMTT(60) DEF ClientDownloadWait
  <1>26. CASE ClientParse
    BY <1>26, SMTT(60) DEF ClientParse
  <1>27. CASE ClientCopy
    <2>1. CASE serverPc = "done"
      BY <1>27, <2>1 DEF ClientCopy
    <2>2. CASE serverPc # "done"
      <3>1. /\ serverPc \in Downloading \ {"done"} /\ sem["client"] = 0 /\ serverPc # "sent"
            /\ sem["sense"] = 0 /\ clientPc = "copy"
        BY <1>27, <2>2, SMTT(60) DEF ClientCopy
      <3>2. /\ clientRecv < serverSize /\ clientSize = serverSize /\ clientMsg = header
            /\ header = Chunk(serverSize - clientRecv) /\ serverSent = clientRecv + header
            /\ serverPc \notin {"header", "payload", "sent"}
        BY <2>2, <3>1
      <3>3. /\ clientRecv' = serverSent /\ clientPc' = "received"
            /\ UNCHANGED <<clientSize, serverPc, serverSent, serverSize, sem, header>>
        BY <1>27, <3>2, SMTT(60) DEF ClientCopy, TooLarge
      <3> QED
        BY <2>2, <3>1, <3>2, <3>3
    <2> QED
      BY <2>1, <2>2
  <1>28. CASE ClientDownloadPost
    BY <1>28, SMTT(60) DEF ClientDownloadPost
  <1>29. CASE ClientUnlink
    BY <1>29, SMTT(60) DEF ClientUnlink
  <1>30. CASE ClientComplete
    BY <1>30, SMTT(60) DEF ClientComplete
  <1>31. CASE OtherRequestWrites
    BY <1>31, SMTT(60) DEF OtherRequestWrites
  <1>32. CASE UNCHANGED vars
    BY <1>32 DEF vars
  <1> QED
    BY <1>1, <1>2, <1>3, <1>4, <1>5, <1>6, <1>7, <1>8, <1>9, <1>10, <1>11, <1>12, <1>13,
       <1>14, <1>15, <1>16, <1>17, <1>18, <1>19, <1>20, <1>21, <1>22, <1>23, <1>24,
       <1>25, <1>26, <1>27, <1>28, <1>29, <1>30, <1>31, <1>32 DEF Next, ServerNext,
       ClientNext
-----------------------------------------------------------------------------
(* Whole chunks, always *)

\* Only the client's copy moves clientRecv, only compressData sets the size of
\* the answer, and a handler that has returned does not run again.
LEMMA CountersOwned ==
  ASSUME [Next]_vars
  PROVE  /\ ~ClientCopy => UNCHANGED clientRecv
         /\ ~ServerCompress => UNCHANGED serverSize
         /\ serverPc = "done" => UNCHANGED <<serverPc, serverSize>>
  <1>1. CASE ServerCreate
    BY <1>1 DEF ServerCreate, clientVars, clientData, serverVars, serverData, ServerGoto
  <1>2. CASE ServerReply
    BY <1>2 DEF ServerReply, clientVars, clientData, serverVars, serverData, ServerGoto
  <1>3. CASE ServerUploadWait
    BY <1>3 DEF ServerUploadWait, clientVars, clientData, serverVars, serverData, ServerGoto
  <1>4. CASE ServerParse
    BY <1>4 DEF ServerParse, clientVars, clientData, serverVars, serverData, ServerGoto
  <1>5. CASE ServerCopy
    BY <1>5 DEF ServerCopy, clientVars, clientData, serverVars, serverData, ServerGoto
  <1>6. CASE ServerUploadPost
    BY <1>6 DEF ServerUploadPost, clientVars, clientData, serverVars, serverData, ServerGoto
  <1>7. CASE ServerCompress
    BY <1>7 DEF ServerCompress, clientVars, clientData, serverVars, serverData, ServerGoto
  <1>8. CASE ServerDrain
    BY <1>8 DEF ServerDrain, clientVars, clientData, serverVars, serverData, ServerGoto
  <1>9. CASE ServerMeta
    BY <1>9 DEF ServerMeta, clientVars, clientData, serverVars, serverData, ServerGoto
  <1>10. CASE ServerSense
    BY <1>10 DEF ServerSense, clientVars, clientData, serverVars, serverData, ServerGoto
  <1>11. CASE ServerDownloadWait
    BY <1>11 DEF ServerDownloadWait, clientVars, clientData, serverVars, serverData, ServerGoto
  <1>12. CASE ServerHeader
    BY <1>12 DEF ServerHeader, clientVars, clientData, serverVars, serverData, ServerGoto
  <1>13. CASE ServerPayload
    BY <1>13 DEF ServerPayload, clientVars, clientData, serverVars, serverData, ServerGoto
  <1>14. CASE ServerDownloadPost
    BY <1>14 DEF ServerDownloadPost, clientVars, clientData, serverVars, serverData, ServerGoto
  <1>15. CASE ServerRelease
    BY <1>15 DEF ServerRelease, clientVars, clientData, serverVars, serverData, ServerGoto
  <1>16. CASE ClientStart
    BY <1>16 DEF ClientStart, clientVars, clientData, serverVars, serverData, ServerGoto
  <1>17. CASE ClientOpen
    BY <1>17 DEF ClientOpen, clientVars, clientData, serverVars, serverData, ServerGoto
  <1>18. CASE ClientUploadWait
    BY <1>18 DEF ClientUploadWait, clientVars, clientData, serverVars, serverData, ServerGoto
  <1>19. CASE ClientHeader
    BY <1>19 DEF ClientHeader, clientVars, clientData, serverVars, serverData, ServerGoto
  <1>20. CASE ClientPayload
    BY <1>20 DEF ClientPayload, clientVars, clientData, serverVars, serverData, ServerGoto
  <1>21. CASE ClientUploadPost
    BY <1>21 DEF ClientUploadPost, clientVars, clientData, serverVars, serverData, ServerGoto
  <1>22. CASE ClientSenseWait
    BY <1>22 DEF ClientSenseWait, clientVars, clientData, serverVars, serverData, ServerGoto
  <1>23. CASE ClientMeta
    BY <1>23 DEF ClientMeta, clientVars, clientData, serverVars, serverData, ServerGoto
  <1>24. CASE ClientReady
    BY <1>24 DEF ClientReady, clientVars, clientData, serverVars, serverData, ServerGoto
  <1>25. CASE ClientDownloadWait
    BY <1>25 DEF ClientDownloadWait, clientVars, clientData, serverVars, serverData, ServerGoto
  <1>26. CASE ClientParse
    BY <1>26 DEF ClientParse, clientVars, clientData, serverVars, serverData, ServerGoto
  <1>27. CASE ClientCopy
    BY <1>27 DEF ClientCopy, clientVars, clientData, serverVars, serverData, ServerGoto
  <1>28. CASE ClientDownloadPost
    BY <1>28 DEF ClientDownloadPost, clientVars, clientData, serverVars, serverData, ServerGoto
  <1>29. CASE ClientUnlink
    BY <1>29 DEF ClientUnlink, clientVars, clientData, serverVars, serverData, ServerGoto
  <1>30. CASE ClientComplete
    BY <1>30 DEF ClientComplete, clientVars, clientData, serverVars, serverData, ServerGoto
  <1>31. CASE OtherRequestWrites
    BY <1>31 DEF OtherRequestWrites, clientVars, clientData, serverVars, serverData, ServerGoto
  <1>32. CASE UNCHANGED vars
    BY <1>32 DEF vars, clientVars, clientData, serverVars, serverData
  <1> QED
    BY <1>1, <1>2, <1>3, <1>4, <1>5, <1>6, <1>7, <1>8, <1>9, <1>10, <1>11, <1>12, <1>13,
       <1>14, <1>15, <1>16, <1>17, <1>18, <1>19, <1>20, <1>21, <1>22, <1>23, <1>24,
       <1>25, <1>26, <1>27, <1>28, <1>29, <1>30, <1>31, <1>32 DEF Next, ServerNext,
       ClientNext

\* The client copies whole chunks until it has the whole answer.
LEMMA WholeChunksNext ==
  ASSUME CtlInv, Early, serverPc # "done" => WholeChunks, [Next]_vars, serverPc' # "done"
  PROVE  WholeChunks'
  <1>1. serverPc # "done" /\ WholeChunks
    BY CountersOwned
  <1>2. CASE ServerCompress
    <2>1. clientRecv' = 0
      BY <1>2, CountersOwned DEF CtlInv, Phases, Uploading, ServerCompress, ServerGoto,
                                 ClientUploading, clientVars, clientData
    <2>2. 0 \in Nat /\ Cap * 0 = 0
      BY CapAssumption
    <2> QED
      BY <2>1, <2>2 DEF WholeChunks
  <1>3. CASE ClientCopy
    <2>1. /\ clientRecv \in Nat /\ serverSize \in Nat /\ clientRecv < serverSize
          /\ clientSize = serverSize /\ clientMsg = Chunk(serverSize - clientRecv)
      BY <1>1, <1>3 DEF CtlInv, CtlType, Phases, Early, DownloadTurn, DownloadInFlight,
             Uploading, Telling, Downloading, ClientUploading, ServerPcs, ClientCopy, ClientGoto
    <2>2. clientMsg \in Nat /\ clientMsg <= Cap /\ clientMsg <= serverSize - clientRecv
      BY <2>1, CapAssumption DEF Chunk
    <2>3. clientRecv' = clientRecv + clientMsg /\ serverSize' = serverSize
      BY <1>3, <2>1, <2>2, CapAssumption DEF ClientCopy, TooLarge, serverVars, serverData
    <2>4. PICK k \in Nat : clientRecv = Cap * k
      BY <1>1, <2>1 DEF WholeChunks
    <2>5. CASE serverSize - clientRecv < Cap
      BY <2>1, <2>3, <2>5 DEF Chunk, WholeChunks
    <2>6. CASE ~(serverSize - clientRecv < Cap)
      <3>1. clientRecv' = Cap * k + Cap
        BY <2>1, <2>3, <2>4, <2>6 DEF Chunk
      <3>2. k + 1 \in Nat /\ Cap * (k + 1) = Cap * k + Cap
        BY CapAssumption
      <3> QED
        BY <3>1, <3>2 DEF WholeChunks
    <2> QED
      BY <2>5, <2>6
  <1>4. CASE ~ServerCompress /\ ~ClientCopy
    BY <1>1, <1>4, CountersOwned DEF WholeChunks
  <1> QED
    BY <1>2, <1>3, <1>4

\* When the service's handler returns, the client has all but at most the last
\* chunk.
LEMMA ReleasedAtRelease ==
  ASSUME CtlInv, Early, WholeChunks, ServerRelease
  PROVE  /\ clientPc \notin ClientUploading \cup {"meta", "ready"}
         /\ clientSize = serverSize
         /\ clientRecv >= LastChunk
  <1>1. /\ serverPc = "download" /\ serverSent = serverSize
        /\ serverSize \in Nat \ {0} /\ clientRecv \in Nat
    BY DEF ServerRelease, ServerGoto, CtlInv, CtlType, Phases, Downloading
  <1>2. clientPc \notin ClientUploading \cup {"meta", "ready"} /\ clientSize = serverSize
    BY <1>1 DEF Early, DownloadTurn, Downloading
  <1>3. LastChunk \in Nat /\ LastChunk < serverSize
    BY <1>1, LastChunkInside
  <1>4. CASE clientRecv = serverSize
    BY <1>1, <1>2, <1>3, <1>4
  <1>5. CASE clientRecv # serverSize
    <2>1. /\ clientRecv < serverSize /\ header = Chunk(serverSize - clientRecv)
          /\ serverSize = clientRecv + header
      BY <1>1, <1>5 DEF Early, DownloadTurn, Downloading
    <2>2. serverSize - clientRecv <= Cap
      BY <1>1, <2>1, CapAssumption DEF Chunk
    <2>3. PICK k \in Nat : clientRecv = Cap * k
      BY <1>5 DEF WholeChunks
    <2>4. LastChunk = Cap * k
      BY <1>1, <2>1, <2>2, <2>3, LastChunkStarts
    <2> QED
      BY <1>1, <1>2, <1>3, <2>3, <2>4
  <1> QED
    BY <1>4, <1>5

\* What the client has when the service's handler returns, it keeps.
LEMMA ReleasedNext ==
  ASSUME CtlInv, Early, serverPc # "done" => WholeChunks, Released, [Next]_vars
  PROVE  Released'
  <1>1. CASE ServerRelease
    <2>1. serverPc # "done" /\ UNCHANGED <<clientPc, clientSize, clientRecv, serverSize>>
      BY <1>1 DEF ServerRelease, ServerGoto, clientVars, clientData, serverData
    <2> QED
      BY <1>1, <2>1, ReleasedAtRelease DEF Released, LastChunk
  <1>2. ASSUME ~ServerRelease, serverPc' = "done" PROVE serverPc = "done"
    BY <1>2 DEF Next, ServerNext, ClientNext, vars, serverVars, ServerGoto,
             ServerCreate, ServerReply, ServerUploadWait, ServerParse, ServerCopy,
             ServerUploadPost, ServerCompress, ServerDrain, ServerMeta, ServerSense,
             ServerDownloadWait, ServerHeader, ServerPayload, ServerDownloadPost, ClientStart,
             ClientOpen, ClientUploadWait, ClientHeader, ClientPayload, ClientUploadPost,
             ClientSenseWait, ClientMeta, ClientReady, ClientDownloadWait, ClientParse,
             ClientCopy, ClientDownloadPost, ClientUnlink, ClientComplete, OtherRequestWrites
  <1>3. ASSUME ~ServerRelease, serverPc = "done"
        PROVE  /\ clientPc' \notin ClientUploading \cup {"meta", "ready"}
               /\ clientSize' = serverSize
               /\ clientRecv' >= LastChunk
    <2> DEFINE Safe == {"download", "parse", "copy", "received", "complete", "done", "failed"}
    <2>1. /\ clientPc \in Safe /\ clientSize = serverSize /\ clientRecv >= LastChunk
          /\ clientRecv \in Nat /\ clientMsg \in Nat /\ LastChunk \in Nat
          /\ serverSize \in Nat \ {0}
      BY <1>3, LastChunkInside DEF Released, CtlInv, CtlType, Phases, ClientPcs, ClientUploading,
             Downloading
    <2>2. clientPc' \in Safe /\ clientSize' = clientSize
      BY <1>3, <2>1 DEF Next, ServerNext, ClientNext, vars, clientVars, clientData, ServerGoto,
             ClientGoto,
             ServerCreate, ServerReply, ServerUploadWait, ServerParse, ServerCopy,
             ServerUploadPost, ServerCompress, ServerDrain, ServerMeta, ServerSense,
             ServerDownloadWait, ServerHeader, ServerPayload, ServerDownloadPost, ClientStart,
             ClientOpen, ClientUploadWait, ClientHeader, ClientPayload, ClientUploadPost,
             ClientSenseWait, ClientMeta, ClientReady, ClientDownloadWait, ClientParse,
             ClientCopy, ClientDownloadPost, ClientUnlink, ClientComplete, OtherRequestWrites
    <2>3. clientRecv' = clientRecv \/ clientRecv' = clientRecv + clientMsg
      BY CountersOwned DEF ClientCopy
    <2> QED
      BY <2>1, <2>2, <2>3 DEF ClientUploading
  <1> QED
    BY <1>1, <1>2, <1>3, CountersOwned DEF Released, LastChunk
-----------------------------------------------------------------------------
(* The bytes of all but the last chunk *)

\* Only copying and making room touches the client's buffer.
LEMMA BufferOwned ==
  ASSUME [Next]_vars, ~ClientCopy, ~ClientMeta
  PROVE  UNCHANGED compressedData
  BY DEF Next, ServerNext, ClientNext, vars, clientVars, clientData,
             ServerCreate, ServerReply, ServerUploadWait, ServerParse, ServerCopy,
             ServerUploadPost, ServerCompress, ServerDrain, ServerMeta, ServerSense,
             ServerDownloadWait, ServerHeader, ServerPayload, ServerDownloadPost, ServerRelease,
             ClientStart, ClientOpen, ClientUploadWait, ClientHeader, ClientPayload,
             ClientUploadPost, ClientSenseWait, ClientReady, ClientDownloadWait, ClientParse,
             ClientDownloadPost, ClientUnlink, ClientComplete, OtherRequestWrites

\* What the client copies is the answer, or goes behind the start of the last
\* chunk.
LEMMA CopiedBytes ==
  ASSUME IInv, Early, Released, EarlyBytes, ClientCopy,
         NEW i \in Offsets(clientRecv'), serverPc' # "done" \/ i < LastChunk'
  PROVE  compressedData'[i] = CompressedByte(i)
  <1>1. UNCHANGED <<serverPc, serverSize>> /\ LastChunk' = LastChunk
    BY DEF ClientCopy, serverVars, serverData, LastChunk
  <1>2. CASE TooLarge(clientMsg, clientSize - clientRecv)
    BY <1>1, <1>2 DEF ClientCopy, EarlyBytes
  <1>3. CASE ~TooLarge(clientMsg, clientSize - clientRecv)
    <2>1. /\ clientMsg \in Nat /\ clientRecv \in Nat /\ clientSize \in Nat
          /\ clientMsg <= Cap /\ clientRecv + clientMsg <= clientSize
      BY <1>3, CapAssumption DEF TooLarge, IInv, CtlInv, CtlType
    <2>2. /\ compressedData' = CopyIn(compressedData, clientRecv, clientMsg)
          /\ clientRecv' = clientRecv + clientMsg
      BY <1>3 DEF ClientCopy
    <2>3. /\ \A k \in Offsets(clientRecv) : compressedData'[k] = compressedData[k]
          /\ \A j \in Offsets(clientMsg) : compressedData'[clientRecv + j] = payload[j]
      BY <2>1, <2>2, CopyInBuffer DEF IInv, Uploaded, Downloaded
    <2>4. CASE i \in Offsets(clientRecv)
      BY <1>1, <2>3, <2>4 DEF EarlyBytes
    <2>5. CASE i \notin Offsets(clientRecv)
      <3>1. i - clientRecv \in Offsets(clientMsg) /\ clientRecv + (i - clientRecv) = i
        BY <2>1, <2>2, <2>5 DEF Offsets
      <3>2. serverPc # "done"
        <4> SUFFICES ASSUME serverPc = "done" PROVE FALSE
          OBVIOUS
        <4>1. serverSize \in Nat \ {0}
          BY DEF IInv, CtlInv, CtlType, Phases, Downloading
        <4>2. LastChunk \in Nat /\ i < LastChunk /\ clientRecv >= LastChunk /\ i \in Nat
          BY <1>1, <2>1, <2>2, <4>1, LastChunkInside DEF Released, Offsets
        <4> QED
          BY <2>1, <2>5, <4>2 DEF Offsets
      <3>3. clientPc = "copy" /\ serverPc \in Downloading
        BY DEF ClientCopy, ClientGoto, IInv, CtlInv, CtlType, Phases, Uploading, Telling,
               Downloading, ClientUploading, ServerPcs
      <3>4. clientMsg = header /\ DownloadInFlight
        BY <3>2, <3>3 DEF Early, DownloadTurn, DownloadInFlight
      <3> QED
        BY <2>3, <3>1, <3>2, <3>3, <3>4 DEF EarlyBytes
    <2> QED
      BY <2>4, <2>5
  <1> QED
    BY <1>2, <1>3

\* What the client has copied stays right.
LEMMA ReceivedNext ==
  ASSUME IInv, Early, Released, EarlyBytes, [Next]_vars,
         NEW i \in Offsets(clientRecv'), serverPc' # "done" \/ i < LastChunk'
  PROVE  compressedData'[i] = CompressedByte(i)
  <1>1. CASE ClientCopy
    BY <1>1, CopiedBytes
  <1>2. CASE ClientMeta
    <2>1. clientRecv' = 0
      BY <1>2 DEF ClientMeta, ClientGoto, IInv, CtlInv, Phases
    <2> QED
      BY <2>1 DEF Offsets
  <1>3. CASE ~ClientCopy /\ ~ClientMeta
    <2>1. compressedData' = compressedData /\ clientRecv' = clientRecv
      BY <1>3, BufferOwned, CountersOwned
    <2>2. serverPc # "done" \/ i < LastChunk
      BY CountersOwned DEF LastChunk
    <2> QED
      BY <2>1, <2>2 DEF EarlyBytes
  <1> QED
    BY <1>1, <1>2, <1>3
-----------------------------------------------------------------------------
(* The chunk on its way *)

\* Until the service's handler returns, a chunk on its way to the client is the
\* next piece of the compressed file.
LEMMA FlightNext ==
  ASSUME IInv, CtlInv', Early, Early', EarlyBytes, [Next]_vars,
         serverPc' \in Downloading \ {"done"}, DownloadInFlight', NEW j \in Offsets(header')
  PROVE  payload'[j] = CompressedByte(clientRecv' + j)
  <1>0. CtlInv
    BY DEF IInv
  <1> USE CapAssumption
      DEF CtlInv, CtlType, OneTurn, One, ServerHolds, ClientHolds, Named, Phases, Early,
          DownloadTurn, Uploading, Telling, Downloading, ClientUploading, ClientPcs, ServerPcs,
          Semaphores, DownloadInFlight, clientData, serverData, names, segment,
          clientVars, serverVars, ServerGoto, ClientGoto, Wait, Post
  <1>1. CASE ServerCreate
    BY <1>0, <1>1 DEF ServerCreate, CreatedValues, EarlyBytes
  <1>2. CASE ServerReply
    BY <1>0, <1>2 DEF ServerReply, EarlyBytes
  <1>3. CASE ServerUploadWait
    BY <1>0, <1>3 DEF ServerUploadWait, EarlyBytes
  <1>4. CASE ServerParse
    BY <1>0, <1>4 DEF ServerParse, EarlyBytes
  <1>5. CASE ServerCopy
    BY <1>0, <1>5 DEF ServerCopy, TooLarge, EarlyBytes
  <1>6. CASE ServerUploadPost
    BY <1>0, <1>6 DEF ServerUploadPost, EarlyBytes
  <1>7. CASE ServerCompress
    BY <1>0, <1>7 DEF ServerCompress, EarlyBytes
  <1>8. CASE ServerDrain
    BY <1>0, <1>8 DEF ServerDrain, EarlyBytes
  <1>9. CASE ServerMeta
    BY <1>0, <1>9 DEF ServerMeta, EarlyBytes
  <1>10. CASE ServerSense
    BY <1>0, <1>10 DEF ServerSense, EarlyBytes
  <1>11. CASE ServerDownloadWait
    BY <1>0, <1>11 DEF ServerDownloadWait, EarlyBytes
  <1>12. CASE ServerHeader
    BY <1>0, <1>12 DEF ServerHeader, EarlyBytes
  <1>13. CASE ServerPayload
    <2> DEFINE n == Chunk(serverSize - serverSent)
    <2>1. /\ n \in Nat /\ n <= Cap /\ serverSent \in Nat /\ fileSize = serverRecv
          /\ header = n /\ serverSent = clientRecv
      BY <1>0, <1>13 DEF ServerPayload, Chunk
    <2> HIDE DEF CtlInv, n
    <2>2. /\ payload' = [k \in Offsets(Cap) |-> IF k < n THEN Compressed(serverSent + k)
                                                         ELSE payload[k]]
          /\ UNCHANGED <<clientRecv, header>>
      BY <1>13 DEF ServerPayload, n
    <2>3. \A k \in Nat : Compressed(k) = CompressedByte(k)
      BY <2>1 DEF Compressed, IInv, Uploaded
    <2>4. \A k \in Offsets(n) : k \in Offsets(Cap) /\ k < n /\ serverSent + k \in Nat
      BY <2>1 DEF Offsets
    <2> QED
      BY <2>1, <2>2, <2>3, <2>4
  <1>14. CASE ServerDownloadPost
    BY <1>0, <1>14 DEF ServerDownloadPost, EarlyBytes
  <1>15. CASE ServerRelease
    BY <1>0, <1>15 DEF ServerRelease, EarlyBytes
  <1>16. CASE ClientStart
    BY <1>0, <1>16 DEF ClientStart, EarlyBytes
  <1>17. CASE ClientOpen
    BY <1>0, <1>17 DEF ClientOpen, EarlyBytes
  <1>18. CASE ClientUploadWait
    BY <1>0, <1>18 DEF ClientUploadWait, EarlyBytes
  <1>19. CASE ClientHeader
    BY <1>0, <1>19 DEF ClientHeader, EarlyBytes
  <1>20. CASE ClientPayload
    BY <1>0, <1>20 DEF ClientPayload, EarlyBytes
  <1>21. CASE ClientUploadPost
    BY <1>0, <1>21 DEF ClientUploadPost, EarlyBytes
  <1>22. CASE ClientSenseWait
    BY <1>0, <1>22 DEF ClientSenseWait, EarlyBytes
  <1>23. CASE ClientMeta
    BY <1>0, <1>23 DEF ClientMeta, EarlyBytes
  <1>24. CASE ClientReady
    BY <1>0, <1>24 DEF ClientReady, EarlyBytes
  <1>25. CASE ClientDownloadWait
    BY <1>0, <1>25 DEF ClientDownloadWait, EarlyBytes
  <1>26. CASE ClientParse
    BY <1>0, <1>26 DEF ClientParse, EarlyBytes
  <1>27. CASE ClientCopy
    BY <1>0, <1>27 DEF ClientCopy, TooLarge, EarlyBytes
  <1>28. CASE ClientDownloadPost
    BY <1>0, <1>28 DEF ClientDownloadPost, EarlyBytes
  <1>29. CASE ClientUnlink
    BY <1>0, <1>29 DEF ClientUnlink, EarlyBytes
  <1>30. CASE ClientComplete
    BY <1>0, <1>30 DEF ClientComplete, EarlyBytes
  <1>31. CASE OtherRequestWrites
    BY <1>0, <1>31 DEF OtherRequestWrites, EarlyBytes
  <1>32. CASE UNCHANGED vars
    BY <1>0, <1>32 DEF vars, EarlyBytes
  <1> QED
    BY <1>1, <1>2, <1>3, <1>4, <1>5, <1>6, <1>7, <1>8, <1>9, <1>10, <1>11, <1>12, <1>13,
       <1>14, <1>15, <1>16, <1>17, <1>18, <1>19, <1>20, <1>21, <1>22, <1>23, <1>24,
       <1>25, <1>26, <1>27, <1>28, <1>29, <1>30, <1>31, <1>32 DEF Next, ServerNext,
       ClientNext

-----------------------------------------------------------------------------
(* The theorems *)

\* RInv is an inductive invariant of the specification, other requests or not.
LEMMA ReuseInvariance == Spec => []RInv
  <1>1. Init => RInv
    <2> SUFFICES ASSUME Init PROVE RInv
      OBVIOUS
    <2>1. IInv
      BY CtlInit, UploadedInit, DownloadedInit DEF IInv, Init
    <2>2. Early /\ Released /\ EarlyBytes
      BY DEF Init, Early, DownloadTurn, Downloading, Released, EarlyBytes, Offsets
    <2>3. 0 \in Nat /\ clientRecv = Cap * 0
      BY CapAssumption DEF Init
    <2> QED
      BY <2>1, <2>2, <2>3 DEF RInv, WholeChunks
  <1>2. IInv /\ IInv' /\ RInv /\ [Next]_vars => RInv'
    <2> SUFFICES ASSUME IInv, IInv', RInv, [Next]_vars PROVE RInv'
      OBVIOUS
    <2>1. CtlInv /\ CtlInv'
      BY DEF IInv
    <2>2. Early'
      BY <2>1, EarlyNext DEF RInv
    <2>3. (serverPc # "done" => WholeChunks)' /\ Released'
      BY <2>1, WholeChunksNext, ReleasedNext DEF RInv
    <2>4. EarlyBytes'
      BY <2>1, <2>2, ReceivedNext, FlightNext DEF RInv, EarlyBytes
    <2> QED
      BY <2>2, <2>3, <2>4 DEF RInv
  <1> QED
    BY <1>1, <1>2, Invariance, PTL DEF Spec

\* Releasing the segment before the client has read the last chunk can only
\* damage that chunk: all that was copied before it is the compressed file, for
\* files, answers and segments of every size and whatever other requests write.
THEOREM OnlyLastChunkDamaged == Spec => []AllButLastChunk
  <1>1. RInv => AllButLastChunk
    BY DEF RInv, EarlyBytes, AllButLastChunk
  <1> QED
    BY <1>1, ReuseInvariance, PTL

\* The service's handler never throws, and the client's only on the last chunk
\* of the answer, once the service's handler has returned.
THEOREM OnlyLastChunkThrows == Spec => []ThrowsOnlyOnLastChunk
  <1>1. RInv => ThrowsOnlyOnLastChunk
    BY DEF RInv, IInv, CtlInv, Phases, Early, DownloadTurn, Released, ThrowsOnlyOnLastChunk
  <1> QED
    BY <1>1, ReuseInvariance, PTL
===============================================================================
