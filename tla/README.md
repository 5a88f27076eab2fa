# TinyFile in TLA+

TinyFile is a compression service. Client processes send it files and get the
snappy-compressed files back. Control messages go through POSIX message queues,
file contents through shared memory that the service divides among the
requests, and named POSIX semaphores say whose turn it is to use a piece of it.
This directory models the service's core in TLA+, checks it with TLC on small
instances and proves its main properties with TLAPS for instances of any size.
Source paths below are relative to `src/tiny_file/`.

## 1. The system

| Component | State | Operations | Talks to |
| --- | --- | --- | --- |
| `ServiceFileCompressorHandler` | `fileRecvSize`, `fileSendSize`, `rawData`, `compressedData` | `process()`: create the semaphores, tell the client, receive the file in chunks, compress, announce the size, send the answer in chunks | the client's handler, by three semaphores and one segment |
| `ClientFileCompressorHandler` | the same on the client's side | `process()`: open the semaphores, send, receive, unlink, complete | the service's handler; `Servicer::completeRequest` |
| `ShmManager` | `availableSegments`, `availableSize` | `getShmSegment(size)`, `getShmSegment(ids)`, `releaseShmSegment` | threads waiting in `segmentCond` |
| `Scheduler` and its two strategies | `clientCredits`, `underQueue`, `overQueue`, `requestMap`, `requestMapIterator`, `requestCount` | `registerClient`, `deregisterClient`, `enqueue`, `schedule` | called by the registration thread and the workers; calls `ShmManager` with its mutex held |
| `ServiceFileCompressorWorker` | the handler it runs | `schedule(); process();` and the handler's destructor, for ever | `Scheduler`, the handlers |
| `RegistrationVisitor`, `RegistrationWorker` | `registeredClients`, `nextClientId`, queue descriptors | the constructor, `reg()` with its three visits, `dispatch()`, `writeBlocking()` | clients through message queues; `Scheduler` |
| `Servicer` and the client's threads | `requestMap`, `requestQueue`, `requestResponseQueue`, `requestsInFlight` | `callServiceSync/Async`, `waitServiceSync`, `sendRequests`, `receiveResponses`, `scheduleRequest`, `completeRequest` | the service through message queues |
| `FragmentedShmSegment`, `ContiguousShmSegment` | list of internal segments | `read`, `write`, `getSegmentIds`, destructor | `ShmManager` |
| the message classes | their fields | `serialize`, `deserialize`, `getContentSize` | the queues |
| `main` of the service, `main` of App, `argparse::ArgumentParser` | the command line, the arguments and their values | parse, start up; compress a file or a list of files | `ShmManager::init`; `Servicer` |

What is hard about it, and what each part has to get right:

* **Transfer.** Two processes share bytes with nothing but the order of waits
  and posts between them, and one of the semaphores has two meanings. They must
  never use the segment together, never wait for each other, and deliver
  exactly the right bytes for files and answers of any number of chunks,
  whatever semaphores a crashed service has left behind.
* **Pool of segments.** A bitmap and a counter are updated separately, waiters
  are woken one at a time, and waiting happens with another mutex held. No
  segment may be lost or given twice, and no waiter forgotten.
* **Scheduling.** A lost wakeup, an iterator kept over a deregistration, a
  client listed twice: the state is spread over two lists, two maps, a counter
  and iterators, in several threads. Clients must be served in the promised
  order, and every request at some time.
* **The client's Servicer.** A request goes through five queues and four kinds of
  threads, under four mutexes and, in two places, under none. No request may be
  lost or answered twice, no caller left asleep, and no segment assigned that
  no worker is free to use; the destructor has to get all threads to stop.
* **Registration.** All clients get their numbers from one queue and queues are
  found by number; either side may die and the service starts counting at 0
  again; the registration thread changes maps that the workers read without a
  lock. Two processes must not end up with one number, an answer must reach the
  process that asked, and what a client does must not kill the service.
* **Start-up.** A command line is turned into the geometry of the shared memory,
  which travels to the client and decides which bytes every segment stands for.
  A wrong number must be refused, and no segment may lie outside the memory or
  share a byte with another, on either side.

`PROJECT.json` lists these hazards with the source line where each one bites,
and the property that would catch it, or why none does.

## 2. Modules

    FileExchange      what one request promises
      Transfer        one request: both handlers, semaphores, segment
        MCTransfer    instances for TLC
        TransferProofs
    ShmManager        the pool of segments
      ShmManagerProofs
      Scheduler       EXTENDS ShmManager: scheduler, workers, registration thread
        MCScheduler   instances for TLC
        SchedulerProofs  EXTENDS Scheduler, ShmManagerProofs, CollectionLemmas
    Servicer          the client's library, and the service as it sees it
      MCServicer      instances for TLC
      ServicerProofs  EXTENDS Servicer, CollectionLemmas
    Sessions          what registration promises
      Registration    clients that come and go, the registration thread, restarts
        MCRegistration  instance for TLC
        RegistrationProofs  EXTENDS Registration, CollectionLemmas
          SessionProofs
    Arguments         argparse, as far as the programs use it
      App             EXTENDS Arguments: the example client
      Service         EXTENDS Arguments, Segments, Messages: from the service's
                      command line to the bytes of a request
        Segments      where the bytes of shared memory are
        Messages      the messages of the queues, byte for byte
      Programs        both programs
        MCPrograms    instance for TLC
        ProgramsProofs  EXTENDS Programs, CollectionLemmas
    CollectionLemmas  sums, folds, queues and counting, for the proofs

### Transfer

One action is one access to a semaphore or to the segment. `serverPc` and
`clientPc` are the places in the two `process()` functions; the other variables
have the names of the members they model (`serverRecv` is the `fileRecvSize` of
the service's handler, `clientSent` the `fileSendSize` of the client's).

* A message is a header (a size) and a payload, written in that order
  (`ServerHeader`, `ServerPayload`) and read in that order (`ServerParse`,
  `ServerCopy`), in four steps that interleave with everything else.
* A byte is named by where it comes from: byte `i` of the file, byte `i` of the
  compressed file, or garbage. Compressing anything but the whole file gives
  garbage, so a wrong upload shows in the answer. snappy itself is a size from
  `CompressedSizes`, never 0, because snappy writes at least a length.
* `sem_unlink` and `sem_open(O_CREAT | O_EXCL)` of the three semaphores are one
  action: the client does not know the names before the reply. `Init` allows
  any semaphores of an earlier run.
* A thrown exception is the place `"failed"`; nothing catches it, and the process
  would end. The exceptions modelled are a missing semaphore name and a message
  that does not fit its buffer or the segment. `sem_wait` interrupted by a
  signal and other system call failures are not modelled.
* The service's handler returns its segment to the pool when `process()`
  returns. With `SegmentReuse`, `OtherRequestWrites` is whatever another request
  does with the segment from then on. Without it the request is alone.

### ShmManager

One action is one critical section of `segmentMutex`. Waiting in `segmentCond`
puts a thread in `asleep`, `notify_one` takes any one thread out, and so does a
spurious wakeup; a woken thread checks again (`Recheck`). `held` is what each
thread's handler has. The model covers the service's side, `getShmSegment(size)`
and `releaseShmSegment(ids)`. `GeometryAssumption` says that `--sms_size` is a
multiple of the size of an internal segment. The code does not check that, but
with another size it does not get past the constructor (Segments, below) unless
the whole pool is smaller than one internal segment.

### Scheduler

One action is one critical section of `requestMapMutex`. The exception is the
wait for shared memory, which happens with that mutex held: `requestMapMutex`
is then the worker that waits, and every other action that needs the mutex is
disabled (`Locked`). Processing a request is one step (`Process`); Transfer is
what happens inside. It is followed by the handler's destructor as a step of its
own (`ReleaseHandler`), because the client can leave between the two.

* An `unordered_map` is a function and, if its order matters to the strategy
  that runs, a sequence. Inserting may change the order to any other one
  (`OrdersWith`): a rehash does that.
* `requestMapIterator` is a client, `End`, or `Singular`: an iterator that may not be
  looked at. By the standard it is singular until it is assigned (the constructor
  does not initialise it, `Scheduler.hpp:112`) and after every insertion that
  rehashes (`Scheduler.cpp:137`); libstdc++, the standard library of g++ on Linux,
  makes it a pointer to a node of the map, null at first, which a rehash does not
  touch. `NodeIterators` chooses between the two (`IteratorAfterInsert`); using a
  singular iterator is a fault. The round-robin runs have it `TRUE`; credits do not
  use the iterator, and have it `FALSE`.
* Credits are whole numbers in units of `1 / (DEFAULT_PRIORITY *
  FILE_CREDIT_MULTIPLIER * numWorkers)`, so nothing is rounded. The code uses
  doubles.
* An exception in a worker, and undefined behaviour, set `fault` and stop
  everything: nothing catches the exceptions, so the service dies.
* Each client id is used once, as `nextClientId` makes sure. When a client may
  deregister is `Departures`: never, when it has its answers, or at any time.
* `bypass` is a history variable that no guard reads.

### Servicer

One action is one critical section or one access to a message queue. Where a
function takes two mutexes one after the other (always `requestQueueMutex`,
then `requestMapMutex`; or `requestResponseQueueMutex`, then `requestMapMutex`),
the action is everything up to the release, since nobody else can be half way.

* `sendRequests` lets go of both mutexes for `mq_send` and goes on using its
  reference into `requestMap`: `sending` is that reference, and `SendRequest`
  is undefined when the request is gone.
* `getShmSegment(ids)` changes `availableSegments`, a `vector<bool>`, without
  `segmentMutex`. Changing a bit is loading a word and storing it
  (`ReceiveResponse`, `FinishAllocation`; `ReleaseSegment`, `FinishRelease`), and
  all segments are in one word. With `TornBitmap = FALSE` the two cannot overlap;
  the code is `TRUE`.
* With `SegmentReuse` the service assigns a segment again as soon as its own
  handler is gone, as the code does; without it, not before the client's handler
  is gone too. The two constants exist to tell the two ways into "already
  allocated" apart.
* A message assigns one segment. With more, the loop of `getShmSegment(ids)` does
  the same for each of them.
* The workers' condition variable is not a variable of the model: their wait has
  a timeout, so a worker may always look again. The callers' wait has none, and
  is modelled with its notification and with spurious wakeups.
* The service takes requests in any order and answers each one when the worker
  that has its assignment is at it. The order and the exchange are the subjects
  of Scheduler and Transfer.
* The application follows `App.cpp`: it waits once for each of its calls, and
  destroys the Servicer when it has all answers. `destructor` counts the threads
  told to stop; the queues are closed before the first.

### Registration

One action is one access to a message queue or to a queue's name, or one access of a
worker to the maps of `RegistrationVisitor`. So the client looks up its two
registration queues in two steps (`OpenC2S`, `OpenS2C`), makes its two request
queues in four (`UnlinkC2S` to `CreateS2C`) and unlinks them in two; the service
makes its registration queues in four (`CreateRegistrationQueues`) and opens a
client's in two (`VisitQueueCreation`, `OpenRequestQueue`). Everything else may
come in between, a restart of the service included. The exceptions are
`Dispatch`, which empties all queues at once (a request that comes meanwhile
might as well have come before or after), and closing descriptors in
`VisitQueueDeletion`, which only a worker could notice (`WriteRacing`,
`SendToClosed`).

* A queue is the process, or the run of the service, that created it: `c2sOwner` and
  `s2cOwner` are what the names with a number refer to, `c2sName` and `s2cName`
  what the two registration names do. `mq_unlink` and the creation of a queue with
  the same name change that, while descriptors that are open stay with the queue.
  `s2cQueues` is `registeredClients` and `blockingServerToClientQueues`,
  `c2sQueues` is `nonBlockingClientToServerQueues`, which gets its entry last.
* `out` and `in` are the runs whose registration queues a client has opened. They
  differ when the service was started again in between (`Mixed`): such a client
  writes to one run and takes a number of the other, perhaps one left over.
* `reg()` reads the registration queue until it is empty, `dispatch()` then reads
  every client's queue until it is empty: `FinishReg` needs an empty registration
  queue and sets `dispatching`, and then no message is received before `Dispatch`.
* `visitRegistration` blocks while the queue of numbers is full, and with it
  everything the registration thread does.
* `writeBlocking` is a look-up (`WriteBlocking`) and a send (`SendResponse`), with
  everything else in between. A look-up while a visit changes the maps
  (`MapsChange`) is undefined behaviour, a fault of its own (`WriteRacing`). A
  descriptor closed in between makes `mq_send` fail, or writes to a queue opened
  since with the same descriptor (`SendToClosed`); both count as a fault.
* Nothing catches an exception of these threads: `fault` is what the service died
  of. `Kill` is any other death, and `Restart` starts it again, `MaxRuns` times in
  all. Clients of the earlier run stay, with their open queues and their numbers.
* A client may leave whenever its library lets it (`SendQueueDeletion`), and those in
  `Mortal` may die anywhere (`Die`), as App does of an exception.
* Which request is scheduled is left open, the exchange of the files is one step
  of both sides (`Exchange`): Scheduler and Transfer have them.

`Sessions` is what this is for. A process joins with a session nobody ever had and
asks; the service makes an answer for that session, once for each request, and the
process whose session it was made for takes it, once; then it leaves. A session is
a run of the service and a number, and the number is its name: queues and
semaphores are found by it. Numbers start at 0 again with every run, so names
are used again. That does no harm once the earlier process has gone. While it is
still there, or when the client is one of two runs, two processes share the
queues' names, and the number is `disputed` from then on, a history variable that
no guard reads. Of processes with a disputed name `Sessions` promises only that
they are answered nothing they did not ask, and that nobody else notices
(`Confuse`): the code does give one of them the other's answers.

### Start-up: Arguments, App, Service, Programs

A word of the command line is what the parser can tell of it, not characters. Of a
number its prefix is kept and the characters behind it: digits up to 15, a sign, a
point, or another letter. Octal, hexadecimal and binary numbers, and what is no
number, are told apart by them, and so are a minus behind a prefix, which
`std::from_chars` takes (`0x-5` is -5), and the sign of an exponent, which makes
`-1e+0` a value and not an option. `Arguments` has `parse_args` one
option at a time, and beside it what a command line means (`Legal`, `Denoted`),
written without regard to the parser. `pc` is how far `main` is; an exception
that is not a `runtime_error` is not caught and aborts.

`App` is `main` and its three `processFile` functions, calling a Servicer that is
what it promises. It has the code's own oddity that `--priority` and `--log` are
read and then not used (`App.cpp:155`).

`Service` follows one client and one request through everything `main` sets up:
`ShmManager`'s constructor, the ID, the announcement, the request, the choice of
segments and their ids, and then any reads and writes of either side. Other
requests are what it finds: how many wait, and which segments are free, of which
it takes the first (any ascending sequence of ids). Messages are sequences of bytes,
a byte being what remains of a number that has lost its lower ones. The constructor (`Segments`) makes internal
segments that go past the end of a physical one when the sizes do not divide;
the vector then outgrows its reservation, the old elements are destroyed, and
their destructor asks for the instance that is being made and throws, which
ends the program. `Constructs` says so, and `PoolUsable` that what gets past it
is sound.

### Seeded faults

Some definitions are preceded by a variant of themselves marked "Seeded fault":
the definition with the mistake a programmer might have made in that code. For
each property of a passing run, `PROJECT.json` names one that TLC finds to
violate it. No specification uses them.

## 3. Runs

| Run | What it shows |
| --- | --- |
| `transfer` | a request with a segment of its own: exclusion, no exception, the right answer, `FileExchange` implemented, termination |
| `transfer_reuse` | other requests are given the segment early: the upload, all chunks but the last and the service's progress are still right |
| `transfer_last_chunk` | violation: the last chunk may be overwritten |
| `round_robin` | round robin, clients that stay: no fault, no lost wakeup, consistent pool, bounded waiting, fair order |
| `scheduler_live` | every request is taken |
| `credit` | credit strategy, clients that leave with their answers: lists and credits agree, credit goes before no credit |
| `dangling_iterator` | violation: round robin, a client leaves with its answers |
| `abandoned_requests` | violation: credit, a client leaves with requests waiting |
| `servicer` | the client's threads, with all that the code allows: requests tracked, callers woken, a worker for every assignment, calls and destructor return; nothing but "already allocated" is thrown |
| `lost_update` | violation: an update of the bitmap is lost, although segments are not reused early |
| `registration` | clients that come, leave and die, a service that dies and returns: one process per number and run, answers to the process they were made for, `Sessions` implemented; what the service can die of; constructors return, clients that stay are served |
| `start_up` | both programs from thousands of command lines: what the parser accepts, refuses and dies of; App waits for what it asks; messages arrive; segments are sound and hold what is written |

**Bounds.** In Transfer the segment holds two bytes of payload, files have 0 to
5 bytes and answers 1 to 5: every combination of no, one, two and three chunks
with a full or a partial last one. More of them repeat the same loop, and the
theorems do not depend on the sizes. In the safety
runs of the scheduler the pool is one 12-byte segment split into three internal
segments of 4 bytes, with two workers. Files of 9 bytes ask for up to three
segments, cut down to two or one when requests wait (`SelectShmSize`), so that
workers wait for each other. `scheduler_live` has three workers and two
segments of 4 bytes instead, with files of one segment: only there can a worker
wait for shared memory while other requests still wait for a worker, which is
the case `AllServed` depends on. The runs have two or three clients with two
requests each, which is enough for the iterator to
wrap around, for clients to become idle and come back, and for a client to be
passed over.
`MaxBypass` caps the history variable: 2 where `RoundRobinFair` needs to see 2,
0 elsewhere. In `credit` a request costs 8 units and credits start at 4 or 12
(two workers, `DefaultPriority` 2), so that clients cross from UNDER to OVER and
back within their requests. Symmetry under the names of workers and clients is used for
safety only. Servicer has one caller, as App has, with three calls
(`MaxRequests`) that may all be out at once, two workers, two segments and
message queues with room for one: one request is held back by
`requestsInFlight`, the dispatcher and the service both meet a full queue, and a
segment has to be used again. A second caller multiplies the states and meets
the first one only in the two mutexes.
Registration has two clients with three requests between them, one worker, and
queues that hold one message, so that every queue is full at some time; the
service is started twice, so that numbers are given again and a client can have
opened a queue of each run. One of the clients may die anywhere (`Mortal`); the other
may leave whenever it likes. With two clients nobody is ever registered twice: it
takes three for that exception of `ProtocolKept`. Three clients were simulated (some
ten million states) without other results, and the theorems are for any number.
In `start_up`, command lines are up to three of 28 pieces for the service and up
to four of 12 for App; ints have 7 bits, internal segments 2 bytes and a pool at
most 8, the client's queue 28 bytes per message (room for three ids, where the
code has room for 1532), so that numbers overflow, sizes fail to divide,
a response does not fit and reads cross boundaries. Client numbers and file sizes
include 300, which takes two bytes.

**Deadlock** is checked in the scheduler's passing runs (a worker with nothing to
do may still wake up spuriously, so only a real standstill of everything would be
reported; `OneWaitsForSegments`, `WorkersAwake` and `AllServed` are what says
that work goes on). It is off in Transfer, where both handlers return, in
Servicer and Registration, where processes end, in `start_up`, and where a process is
expected to die.

**Fairness.** Transfer has weak fairness of each handler, which is one thread: the
operating system runs it again and again, and when it is blocked in `sem_wait`
its next action is disabled until the post. One semaphore is never waited for by
both handlers in a way that lets one take the other's post for ever (that is
what `Termination` checks), so nothing stronger is needed. Scheduler has weak
fairness of each worker. There is none for clients, which need not send
anything, nor for spurious wakeups, which must not be what saves a lost wakeup.
That `Process` ends is justified by `ServerFinishes`. Servicer has weak fairness
of each of its threads, of the thread in the destructor and of a caller that has
been woken, but none that makes the application call or leave; that the
service takes and answers every request is what `AllServed` and `ServerFinishes`
say of it. Registration has weak fairness of each client's next step when it is
inside the library, of the registration thread and of each worker, since each is
one thread; none for registering, asking, leaving, dying, killing and starting
again, which nobody owes. `ConstructorReturns` and `Served` say under which
circumstances they do not hold: the service has died, clients that died or came
between two runs have left more numbers in the queue than it holds
(`Leaked`), or taken a number of another's (`Stolen`), every worker waits for a
client that is gone, or the number is disputed. They have the form `[]<>(...)`: what
they say of a client that waits, or has been answered, or of what has become
impossible for it, is true again and again. Mutexes are held for a bounded number
of steps, and a thread that finds one taken gets it later.

## 4. Findings

1. **The last chunk** (`transfer_last_chunk`). The service posts the last chunk
   and destroys its handler, and its segments with it, before the client has
   read the chunk. A waiting request is given them and writes into them; the
   client completes with wrong bytes, or throws when the header has become
   too large. The wait that would prevent it is the one the client already
   posts for (`ClientFileCompressorHandler.cpp:52`).
2. **The iterator** (`dangling_iterator`). `deregisterClient` erases the entry
   `requestMapIterator` points at.
3. **Abandoned requests** (`abandoned_requests`). `deregisterClient` leaves the
   client in `underQueue` or `overQueue`, and its requests in `requestCount`.
4. **An unlocked bitmap** (`lost_update`). The client's `getShmSegment(ids)` takes
   no mutex, so its change of `availableSegments` and that of a release can
   undo each other.

Seen on the way, without a run that is kept for it:

* **A segment assigned too early.** Finding 1 seen from the pools: the service's
  handler gives the segment back first, and when the client's next request is
  given it, the client's dispatcher throws "already allocated" (even when the
  bitmap is updated atomically). `OnlyAllocationThrows` says that this and finding
  4 are the only ways for the client's threads to throw, under the use that App
  makes of the Servicer.
* **Credit order.** Each credit step queues all other clients again in the order of
  an `unordered_map`, so that three clients of equal priority are not served in
  turn: `RoundRobinFair`, which the round-robin strategy has, fails for credits.
* **An iterator before its time.** `requestMapIterator` is not initialised and kept
  over rehashes (Scheduler, above). With `NodeIterators = FALSE` the run
  `round_robin` has a fault at its first schedule; with libstdc++ there is none.
* **Deaths of the service.** A client that leaves with answers outstanding, or
  before the service has opened its queues, ends the service with an exception in
  `writeBlocking` or `visitQueueCreation`. So can two clients that do nothing
  wrong: a worker looks its client up without a lock while another comes or
  leaves, and the set and the maps are changed under it. A client of an earlier run
  that is still there can take the names of a new one's queues away; and a client
  that looked up the registration queues of two runs can announce a number
  that is somebody else's, which ends the service with "already registered" for
  the right owner. `ServiceDeathsExplained` says that there are no other ways, and
  of which client each of them is. A client that dies costs a worker
  (`LostWorkers`), because the handler's waits have no timeout. A RESPONSE with
  more than 1532 ids ends it too (`MessagesArrive`): a pool of some 200 KB with one
  request for a larger file is enough.
* **A number given again.** A client of an earlier run that is still there when the
  service gives its number again shares names with the new client: their
  semaphores are the same, and either can unlink, or be handed, what is the other's.
  `Sessions` calls such a number disputed and promises nothing of it.
* **Two runs of the service.** The constructor of a client that looked up the two
  registration queues in different runs waits for ever for a number, or takes one
  that another client of that run was to have, which then waits in its place; the
  service lives (`ConstructorReturns` has to except both).
* **Numbers on the command line.** `--n_sms 08`, or `--n_sms x`, is not answered by
  the usage message: `std::invalid_argument` is not a `runtime_error`.
* **Sizes.** An `--sms_size` that is not a multiple of 32 aborts the service in the
  constructor, except for one segment of less than 32 bytes: then the pool is
  empty and every request waits for ever. So it does with `--n_sms 0`.

## 5. Proofs

TLAPS checks every theorem for all values of the constants that satisfy the
named assumptions.

**TransferProofs.** The inductive invariant `IInv`. `ExclusiveSegment` alone
is not inductive: it holds because there is one turn, which is either a unit of
one semaphore or held by one handler (`OneTurn`). Where the turn is says how
far the two handlers are apart and what is in the segment (`UploadTurn`,
`DownloadTurn`), given the phases the two are in (`Phases`). With that, what has
been copied is a prefix of the right bytes (`Uploaded`, `Downloaded`). Type
correctness, exclusion and the correctness of the upload hold with and without
`SegmentReuse`. `NothingThrown`, `ResultCorrect` and `Refinement` assume
`~SegmentReuse`, and finding 1 is why they must. `Refinement` maps the
prefixes copied so far to the variables of `FileExchange`. What finding 1 leaves
standing is proved with reuse (`RInv`): until the service's handler returns the
client has copied whole chunks (`WholeChunks`), when it has returned the client
lacks the last one at most (`Released`), and what it has of the others is right
(`EarlyBytes`). Hence only the last chunk can be damaged, and only it can make
the client throw.

**ShmManagerProofs.** `PoolConsistent` with the types is inductive once threads
that wait are known to hold nothing. The substance is arithmetic about
cardinalities of the sets that change hands.

**SchedulerProofs** has two invariants. For the pool, which requests are picked
does not matter, so `SchedInv` says nothing of orders and credits. The worker that
creates a handler keeps the mutex (`Locking`), so that one at most waits for
segments. `LegalSize` shows that the size it asks for is a multiple of the internal
size and fits the pool. Hence a single `notify_one` per release is enough
(`SegmentsWakeTheirWaiter`) and what the waiter lacks is held by another worker
(`WaitIsBounded`). Both hold for any number of workers and clients, both
strategies, and all departures. `SchedulerUsesPool` follows: every step of the
scheduler is one that `ShmManager` allows, or leaves the pool alone.

`SchedulerInv` adds what the maps, lists and counters say of each other, each part
under the circumstances in which it holds:

| Part | What it says | Needs |
| --- | --- | --- |
| `Accounts` | whose requests and credits there are; `totalCredits` is the sum of the priorities | nothing |
| `Orders` | each map is iterated in an order of its keys | nothing |
| `Lists` | each list has the registered clients of its type, once, and nobody who is still to come | nothing |
| `Standing` | a client is idle exactly without requests, and its list says whether it has credit left | credits |
| `NothingLeft` | `requestCount` is the sum of the queues; no client is listed that has gone | nobody leaves requests behind |
| `Others` | the types of the rest | nothing |
| `Turns` | when d has passed c over, the scan comes to c before it comes to d again | round robin |
| `Survives` | nothing was thrown or undefined, and the iterator is at an entry | credits and nobody leaves requests behind, or round robin, nobody leaves, and `NodeIterators` |
| `Enough` | while a worker sleeps, as many others are on their way as requests wait | nothing |

So `WorkersStayAwake` and `TypeCorrect` hold whoever leaves, `RoundRobinIsFair` and
`CreditIsSpentFirst` for their strategy whoever leaves, and `CountersStayRight`,
`ListsStayRight` and `SchedulerSurvives` state what they need as the properties do;
the runs `dangling_iterator` and `abandoned_requests` show what happens otherwise.

**ServicerProofs.** The invariant `SInv` follows a request from queue to queue.
It is at one stage (`Apart`) and there only once (`Single`), a thread's place in
its loop says whether it holds one (`Holders`), and the requests without an answer
are exactly those at some stage (`Unanswered`). `requestsInFlight` counts the ones
that have left the first queue, and with them the places they take in the
others (`Counted`, `Places`), which is why a worker is free for every assignment.
Each request belongs to one caller (`Owners`), so that a caller asleep has an
answer to come, and the destructor runs when there is none left (`NoneLeft`).
`Tracked` holds while nothing has been thrown, and `OnlyAllocationThrows` says
what can be: for any callers, workers, segments, queue sizes and both
settings of `TornBitmap` and `SegmentReuse`.

**RegistrationProofs** and **SessionProofs** have three layers, each inductive with
the ones below it.

`IInv` needs nothing else. Beside the types it has how far a client is and what
it holds (`Stages`); that there is nothing of a run before it begins (`Begun`); that a
number is below `nextClientId`, in the queue of its run, or with one client that
received it from that run (`Numbers`); that a number nobody disputes belongs to
the client of the last run that gave it, and everybody who had it before has
ended (`Holders`); that queues and names are those of clients with that number
(`Names`); and that whatever bears a number was sent by a client of this run that
has it (`Senders`).

`Order` is about the registration queue. A number is `Proper` if every client
that writes to this run under it received it from this run, so that there is
one such client at most. Of a proper number there is one creation at most, one
deletion at most and that behind it, wherever they are between the client, the
queue and the registration thread; the number is registered exactly in between.
`ProtocolIsKept` follows: who is registered twice, or removed without being there,
was not proper, and that is a client of two runs. Its conclusion names it.

`Clients` is about members, the clients of this run whose number nobody disputes.
The names a member uses are its own from when it makes its queues (`Opened`):
whoever else had the number has ended and unlinks nothing. Nothing is done for it
before it is registered (`Unserved`), nor after it is removed unless it left
without its answers (`Departed`). Each request it has sent is in one place at
most (`Flow`), and in one at least while it stays (`Complete`). The layer begins
when a client takes its number: by `Senders` and `Holders` the service then has
nothing under it, because nobody has announced it.

Then `RequestsAreTracked` is `Flow` and `Complete` counted; `RegistrationRefinement`
shows that every step is a step of `Sessions` or changes nothing there (`made`
is the requests at workers that wait in `process()`; what becomes of disputed
numbers is `Confuse`, and a service that dies is `Forget`); and `ServiceDeaths` looks
at each fault when it happens and uses `Clients` to say whose fault it is, and
that this stays true of a dead service (`AccusedStep`). `RegistrationAssumption` has
`None` differ from every number and message, and otherwise only has the bounds
positive; how large they are does not matter, nor who is in `Mortal`.

**ProgramsProofs.** `AppLeavesNothing` counts the requests of App by the place main
has reached (`Places`), after showing that `parse_args` ends in one of its five
ways whatever the words are. For `PoolIsUsable` the numbers of the command line
have to be numbers first: `ValuedNext` follows the parser up to its check for
required arguments, and `CharsAreNumbers` the loop over the digits. Then
`CutWithoutRest` shows that a constructor that does not throw has cut every
physical segment without a rest, or has made no segment.

`EveryMessageArrives` rests on bytes: a number that has room in so many bytes
(`Representable`) is what its receiver makes of them (`Value`), because each byte is
what taking it off the number leaves out; a field that is written before or behind
another is still where it was (`HasBytes`); and so the receiver of each of the five
messages has the sender's. `MessagesInv` follows the message in the queue and what
the client has taken from it: the client's number and the service's geometry
(`Introduced`), and then ids that are ascending, hence different and no more than
the pool has, and the same on both sides (`Agreed`).

`SegmentsAreShared` follows the loops of `FragmentedShmSegment` one segment at a
time. After each, what is written is the part of the data that belongs to the
segments so far, at the place that is theirs, and the rest of memory is as before
(`WrittenUpTo`); what is read is the part that is there (`ReadUpTo`). The places of
two bytes of the fragments differ (`Apart`), because `PoolUsable` holds and no id
comes twice; so `StoredInv`, that `content` is where the fragments are and the rest
of memory is 0, is kept by a write of any size at any offset.

Both theorems are about runs with `IdsFit`: segments are counted with `size_t` but
numbered with `int` (`ShmManager.cpp:21`), and with numbers that have no room in
an int the ids of the response are others. Every pool below 64 GB has it. What they
need of the constants is in `ServiceAssumption`: clients' numbers have room in an
int and sizes in a size_t, and the queues' messages have room for an `ID` and for a
`RESPONSE` with one segment.

`LinesAreDecided` compares `parse_args`, which takes one word after another, with
what the whole line means. `LineInv` says that the parser has taken a legal part of
the line, or that its end says what the line is (`Decides`). A part is legal
(`Parsed`) when what is left is the rest of the line (`Rest`), every word so far has
its place (`Placed`), and the options so far are those the parser has marked, each
with the number its word denotes (`Found`). Then each way to go on takes one more
legal part, and each exception comes with the word that has no place, the option
that comes twice (`GivenTwice`), or the required one that is missing. What this
needs of the two programs' arguments is `WellFormed`: names are of one argument
only, and an option ends the program or takes one value. `NumberDenoted` is the
loop of `from_chars`: digits read from the left come to the sum of what each
counts by its place (`ReadAsSum`), and whatever is in no base or has no room in an
int throws. The proof corrected the property: `--help=` and `--scheduler=-v` end
the program too, because the parser splits a word at the equals sign before it looks
for flags, so a flag is looked for in the line that has been split; `start_up`
has both lines.

**CollectionLemmas** replaces the library's induction, whose theorems take an
operator: a set of numbers that has 0 and each successor is `Nat`, a set of
subsets that has what is one element larger than its members has them all. Both
come from the least element of a set of numbers. With them it shows that the
recursive functions inside `SumFunctionOnSet`, `FoldLeft` and `FlattenSeq` exist,
and what the scheduler's counters and the parser need of them; and what `Append`,
`Head` and `Tail` do to a queue that has nothing twice.

The named assumptions are about constants only. Beside types and what the
sections above name, they say that `None` and `End`, which stand for no value, are
none of the values (`NoneAssumption`, `EndAssumption`), and that a number on a
command line has digits (`CommandsAssumption`). TLC evaluates them in the runs.

Every invariant and action property of the runs that pass, and both refinements,
are stated by a theorem. Only model-checked: liveness
(`Termination`, `ServerFinishes`, `AllServed`, `CallsReturn`, `DestructorReturns`,
`ConstructorReturns`, `Served`), which the prover cannot treat under fairness.

## 6. Not modelled

snappy, which is a third-party library; the parts of ArgParse that no program
uses (sub-parsers, choices, positional arguments, groups, help texts); the text of
the names of system objects; logging and timing; failures of system calls other
than the ones above; `AbstractShmSegment::serialize` and
`ShmManager::releaseShmSegment(id)`, which nothing calls (but for the constructor's
failure), and the destruction of the singletons when a program ends. Rounding of
credits to doubles. Two threads that wait for one request, which App does not do
(`NoRequestLeftBehind`). A client that dies is in Registration only; Transfer and
Scheduler have clients that answer.

## 7. Plan

1. An abstract specification of a call (made, answered, returned) for Servicer to
   implement.
2. Clients that die in the middle of a request in Scheduler, with the segments
   and workers they cost.
