---------------------------------- MODULE App ----------------------------------
(***************************************************************************)
(* The example client.  It reads its command line, makes a Servicer and    *)
(* has the files it was given compressed: with the blocking call, or with  *)
(* the asynchronous one and a wait for every request.                      *)
(*                                                                         *)
(* The Servicer is what the application sees of it: a call makes a request *)
(* with the next number, and a wait returns the answer of one it has and   *)
(* throws for one it has not.  Servicer.tla has its threads.               *)
(***************************************************************************)
EXTENDS Arguments

CONSTANT MaxLines      \* bound: lines of the list of files

VARIABLES
  lines,         \* getline calls left of the list, or files left of the vector
  requestIds,    \* the requests processFileAsync has to wait for
  requestMap,    \* those the Servicer has
  nextRequestId,
  named          \* how many files the program was told to compress

appVars == <<lines, requestIds, requestMap, nextRequestId, named>>

AppArguments ==
  DefaultArguments \union
    {Choose(Required(AddArgument({"--state"})), {"SYNC", "ASYNC"}),
     AddArgument({"--file"}), AddArgument({"--files"}),
     ScanInt(AddArgument({"--priority"})), AddArgument({"--log"})}

AppInit == /\ lines = 0 /\ requestIds = << >>
           /\ requestMap = {} /\ nextRequestId = 0
           /\ named = 0

Goto(from, to) == pc = from /\ pc' = to /\ UNCHANGED <<argv, words, used, values>>
State == Get(AppArguments, "--state")
FileFlag == IsUsed(AppArguments, "--file")
FilesFlag == IsUsed(AppArguments, "--files")

\* An exception that main does not catch: nothing is destroyed.
Abort(from) == Goto(from, "aborted") /\ UNCHANGED appVars

NoFile == ~FileFlag /\ ~FilesFlag /\ Goto("parsed", "failed") /\ UNCHANGED appVars

\* main from the Servicer on.  Its constructor may throw.
MakeServicer == \/ /\ FileFlag
                   /\ Goto("parsed", "file") /\ named' = 1
                   /\ UNCHANGED <<lines, requestIds, requestMap, nextRequestId>>
                \/ /\ ~FileFlag /\ FilesFlag
                   /\ Goto("parsed", "open_list") /\ UNCHANGED appVars
                \/ (FileFlag \/ FilesFlag) /\ Abort("parsed")

AfterFile == IF FilesFlag THEN "open_list" ELSE "return"

\* callServiceSync: the request is made, answered and forgotten.
CallSync == /\ nextRequestId' = nextRequestId + 1
            /\ UNCHANGED <<requestIds, requestMap, named>>
CallAsync == /\ nextRequestId' = nextRequestId + 1
             /\ requestMap' = requestMap \union {nextRequestId}
             /\ requestIds' = Append(requestIds, nextRequestId)
             /\ UNCHANGED named

\* processFileSync, or processFileAsync of one file.
ProcessFile == \/ /\ State = "SYNC" /\ Goto("file", AfterFile)
                  /\ CallSync /\ UNCHANGED lines
               \/ /\ State = "ASYNC" /\ Goto("file", "wait_file")
                  /\ CallAsync /\ UNCHANGED lines
               \/ Abort("file")                 \* readFile, or another content

OpenList == \/ \E n \in 0..MaxLines :
                 /\ Goto("open_list", "list")
                 /\ lines' = n /\ named' = named + n
                 /\ UNCHANGED <<requestIds, requestMap, nextRequestId>>
            \/ Abort("open_list")

\* The lines of the list: each file is done before the next is read, or all
\* requests are made first.
NextFile == \/ /\ lines > 0 /\ Goto("list", "list")
               /\ lines' = lines - 1
               /\ IF State = "SYNC" THEN CallSync ELSE CallAsync
            \/ lines > 0 /\ Abort("list")       \* readFile, or another content
            \/ /\ lines = 0 /\ Goto("list", IF State = "SYNC" THEN "return" ELSE "wait_list")
               /\ UNCHANGED appVars

\* (Seeded fault: the last request of the vector is not waited for.)
WaitAllButLast(here, next) ==
  \/ /\ Len(requestIds) > 1 /\ Goto(here, here)
     /\ requestMap' = requestMap \ {Head(requestIds)}
     /\ requestIds' = Tail(requestIds)
     /\ UNCHANGED <<lines, nextRequestId, named>>
  \/ Len(requestIds) <= 1 /\ Goto(here, next) /\ UNCHANGED appVars

\* waitServiceSync for each request, in the order they were made.
Wait(here, next) ==
  \/ /\ requestIds # << >> /\ Goto(here, here)
     /\ requestMap' = requestMap \ {Head(requestIds)}
     /\ requestIds' = Tail(requestIds)
     /\ UNCHANGED <<lines, nextRequestId, named>>
  \/ requestIds # << >> /\ Abort(here)          \* another content
  \/ requestIds = << >> /\ Goto(here, next) /\ UNCHANGED appVars

AppNext == \/ ParseArgs(AppArguments) /\ UNCHANGED appVars
           \/ NoFile
           \/ MakeServicer
           \/ ProcessFile
           \/ OpenList
           \/ NextFile
           \/ Wait("wait_file", AfterFile)
           \/ Wait("wait_list", "return")

\* The application waits once for every request it makes and for no other (a
\* second wait for a request, or a destroyed Servicer that still has some, is
\* what Servicer does not survive), and when main returns it has done every
\* file it was told to.
NoRequestLeftBehind ==
  /\ ToSet(requestIds) = requestMap /\ IsInjective(requestIds)
  /\ pc = "return" => requestMap = {} /\ nextRequestId = named
================================================================================
