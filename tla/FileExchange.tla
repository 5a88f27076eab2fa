----------------------------- MODULE FileExchange -----------------------------
(***************************************************************************)
(* What one TinyFile request promises, whatever the shared memory, the     *)
(* semaphores and the chunking do: the service's copy of the file grows as *)
(* a prefix of the file, the client's copy of the answer grows as a prefix *)
(* of the compressed file, and the request completes with the whole of it. *)
(* Data is a function from byte offsets to bytes; a byte is named by where *)
(* it comes from.  Transfer.tla implements this specification.             *)
(***************************************************************************)
EXTENDS Naturals

CONSTANTS FileSizes,        \* sizes of the files clients ask to compress
          CompressedSizes   \* sizes the compressor may answer with

VARIABLES fileSize,         \* size of the file of this request
          received,         \* the part of the file the service has
          compressedSize,   \* size of the compressed file, 0 while unknown
          result,           \* the part of the compressed file the client has
          completed         \* the client's request has been completed

vars == <<fileSize, received, compressedSize, result, completed>>

FileByte(i) == <<"file", i>>
CompressedByte(i) == <<"compressed", i>>

\* The first n bytes of the file, and of its compressed form.
FilePrefix(n) == [i \in 0..(n - 1) |-> FileByte(i)]
CompressedPrefix(n) == [i \in 0..(n - 1) |-> CompressedByte(i)]

Init == /\ fileSize \in FileSizes
        /\ received = FilePrefix(0)
        /\ compressedSize = 0
        /\ result = CompressedPrefix(0)
        /\ completed = FALSE

\* A chunk of the file reaches the service.
Upload == \E old \in 0..fileSize, new \in 0..fileSize :
             /\ compressedSize = 0
             /\ old < new
             /\ received = FilePrefix(old)
             /\ received' = FilePrefix(new)
             /\ UNCHANGED <<fileSize, compressedSize, result, completed>>

\* The service compresses the file once it has all of it.
Compress == /\ compressedSize = 0
            /\ received = FilePrefix(fileSize)
            /\ compressedSize' \in CompressedSizes
            /\ UNCHANGED <<fileSize, received, result, completed>>

\* A chunk of the compressed file reaches the client.
Download == \E old \in 0..compressedSize, new \in 0..compressedSize :
               /\ old < new
               /\ result = CompressedPrefix(old)
               /\ result' = CompressedPrefix(new)
               /\ UNCHANGED <<fileSize, received, compressedSize, completed>>

\* The request completes with the whole compressed file.
Complete == /\ ~completed
            /\ compressedSize # 0
            /\ result = CompressedPrefix(compressedSize)
            /\ completed' = TRUE
            /\ UNCHANGED <<fileSize, received, compressedSize, result>>

Next == Upload \/ Compress \/ Download \/ Complete

Spec == Init /\ [][Next]_vars
===============================================================================
