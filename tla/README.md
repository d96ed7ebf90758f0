# A TLA+ model of Horcrux

Horcrux cuts a file into *Horcruxes*, ships them to a server, and puts them
together again. This directory holds TLA+ modules that model the program from
its source, TLC configurations that check them on small instances, and TLAPS
proofs of the main safety properties for every instance.

## The system

| Part | Source | State | Operations |
|---|---|---|---|
| Acceptor | `networking/TcpServer`, `server.cpp` | the connection that waits in `async_accept` | construct, `handle_accept`, `startAccept`, end of `main`, start again |
| Connection | `networking/TcpConnection` | the two headers, the vector of optional Horcruxes, the one outstanding operation | `ReadPreRequestHeader`, `ReadRequestHeader`, `ReadRequestContent`, `sendResponse` and its completion, `saveHorcruxes` |
| File storage | `Utils::saveFile`, `loadFile` | the files of `out/`, named by UUID and index | create unless the path is taken, write, read |
| File splitter | `logic/HorcruxData` | loop counters, offsets in `uint32_t` | `split`, `join` |
| Requests | `networking/Requests` | the headers sent by the client | `PreRequestHeader::fromHorcruxes`, `Request::fromHorcruxes` |
| Client | `client.cpp` | position in the list of requests | connect, `sendHorcruxRequest`, `readResponse` |
| Join tool | `join.cpp` | the bytes joined so far | read each file, write the result |
| Helpers | `logic/Utils` | none | `parseHorcruxCommand`, `generateRandomUint64`, header serialisation, logging |

The client connects, sends a *pre-request header* (UUID, total size, number of
Horcruxes) and waits for `SUCCESS` or `FAILURE`; then for each Horcrux it sends
a header and the content and waits again. The server checks each header,
collects the contents in a vector of optionals, and, when the vector is full,
answers the last request and then saves one file per Horcrux. A rejection ends
the connection. The join tool reads the files of a UUID by increasing index.

Beneath both lies asio, vendored with the program: the composed `async_read`
and `async_write`, the scheduler behind `io_context::run`, the epoll reactor,
and strands. The models of Horcrux take asio's operations as completing once
and in order; the asio modules check the machinery that makes it so.

What makes it hard: handlers of many connections are interleaved on one thread;
what one handler has checked is used by a later one; the last answer is sent
before the save; the results of `saveFile` and of the write in it are ignored;
either process, the connection or the disk may fail in the middle; two uploads
may share a UUID; a read may return a part of an answer; the join tool reads
what is still being written; offsets and sizes are 32 bits wide; and in asio,
wake-ups, edges and work counts are passed between threads without a lock held
throughout. `PROJECT.json` lists each hazard at its source line with the
properties that cover it.

## Modules

| Module | What it is |
|---|---|
| `HorcruxServer` | acceptor, connections, `saveFile` and the directory `out`; the faults around them |
| `UploadStore` | abstract specification: a write-once store of uploads |
| `HorcruxServerProofs` | the server's inductive invariant, its properties, and the refinement of `UploadStore` |
| `FileSplitter` | `split` and `join`, one action per iteration |
| `ClientRequests` | the client up to its requests: command line, `loadFile`, `split` (of `FileSplitter`), `fromHorcruxes` |
| `ClientRequestsProofs` | the theorems on the splitter, and on the client |
| `HorcruxSystem` | the client's protocol composed with the actions of `HorcruxServer` over TCP streams |
| `HorcruxSessionProofs` | the invariant that ties a client, its two streams and its connection together, and the steps of the server |
| `HorcruxSystemProofs` | the steps of the clients, and the theorems on the whole system |
| `JoinTool`, `JoinToolProofs` | the join tool beside the server, given as `UploadStore`; three theorems |
| `SequenceFacts` | what the proofs need to know of parts and concatenations of sequences, by induction |
| `ComposedTransfer` | asio's `read_op` and `write_op` with `consuming_buffers` and the completion conditions |
| `Scheduler`, `SchedulerProofs` | asio's scheduler; two theorems |
| `Strand`, `SerialQueue`, `StrandProofs` | asio's two implementations of strands; the serial queue they implement; two theorems |
| `EpollReactor` | one descriptor of asio's epoll reactor, with the kernel's part |
| `MC...` | the sets TLC tries |

Definitions whose comment begins "Faulty variant" stand before the definition
they vary. They are plausible slips in the code, each of which breaks the
property `PROJECT.json` names with it; nothing else uses them.

### HorcruxServer

asio calls every completion handler on the thread in `io_context::run`, and a
connection always has exactly one operation outstanding. So the control state
of a connection is the name of that operation, `pending[c]`: `accept`, one of
the three reads, the write of a response (told apart by what its completion
goes on with), or `none` when the object does not exist. Each handler is one
action that does all the handler does, up to starting the next operation.

`saveHorcruxes` is the exception. A crash, a full disk or another process can
see it half way, so it takes two steps per file, `openFile` (the existence test
and the open) and `writeFile` (the write and the close). While a connection is
at one of them no other handler runs (`Runs`).

| Variable | Code |
|---|---|
| `pending` | the outstanding operation and its handler |
| `preRequestHeader`, `requestHeader` | `mPreRequestHeader`, `mRequestHeader` |
| `horcruxes` | `mCurrentRequestHorcruxes`, indexed from 0, `None` for `nullopt` |
| `counter` | the loop counter of `saveHorcruxes` |
| `replies` | the responses handed to `async_write` |
| `out` | the files of `kOutPath`, by UUID and index |
| `up` | the process runs |

The peers are arbitrary: any header, any content of the announced size, an
error at any read. `mMessageBuffer` is abstracted to the content that is copied
out of it before the response overwrites it. The checksum fields are not read
by the code and are left out.

Faults: `openFails` and `writeFails` (a stream that is not good, a short write;
only when `DiskFaults`), `Crash` (an exception that leaves a handler ends
`main`; so does a kill; the file being written keeps what reached the disk) and
`Restart`. `out` survives a crash; everything else is lost.

### UploadStore

What the server promises to those who read `out`: a session collects the pieces
of an upload, each once; files are made from complete uploads only; a file is
created by one session, which fills it at most once with its piece or a part of
it; it never changes afterwards. `HorcruxServer!Store` maps the server to it:
`pieces` is `horcruxes`, `files` is `out`, and `writing` is the index of the
file a connection has created and not yet written.

### FileSplitter

`offset(i)` is where Horcrux `i` begins, computed modulo `UintMod` (2^32 in the
code) as the expressions of `split` are; the last Horcrux ends where the file
ends. An iteration whose end is before its beginning makes the constructor of
`std::string` throw (`length_error`). The number of splits is at most 2^31 - 1,
since the loop variable is an `int32_t`.

### ClientRequests

From `main` to the vector of requests. A number given with `-n` may be no
number (refused), one that does not fit `int` (an exception nothing catches
ends the program), or any `int`, converted to `uint32_t`. The steps of `split`
are those of `FileSplitter`. Its `int32_t` loop variable would overflow for
2^31 splits and more (`undefined`). For a file of less than 2^31 bytes the check
on its size comes first, as `SendsOrRefuses` shows; a larger file can get there,
and nothing is said of what follows. `mTotalSize` is added up modulo 2^32.

### HorcruxSystem

A connection is two sequences of cells. A header and a response are two cells
each, so that they can be cut; a byte of content is one. A write puts all its
cells into the stream, as a blocking socket does, and one of nothing does nothing,
even after a reset; a read takes what has arrived,
or with `ShortReads` any part of it. A client that connects waits in the
`backlog`; a side that closes with something unread, or is sent something
afterwards, causes a `reset`, which may overtake data. The client's `at` is the
statement at which it would block. The server's part is the handlers of
`HorcruxServer`: each takes its cells from the stream, and `Socket` sends what
it replied and closes the socket if the connection object is gone. Cells that
are not the two halves of one header are read as some header. Either process
may be killed at any time (`Faults`); the server may be started again.

### JoinTool

Two sessions of `UploadStore` write files of a UUID while the tool opens them
one after the other, concatenates them, and saves the result with `saveFile`. A
file may be missing, created and still empty, or final, and may fail to open: `at`
tells the two ways apart in which `loadFile` returns nothing, `missing` and
`unreadable`. The result file may fail to open, or be cut by a write that nobody
looks at. The tool may be killed anywhere and be run again; its result file stays.

### The asio modules

`ComposedTransfer`: the buffers are given by their sizes (empty ones included),
every transfer moves any part of what `prepare` offers, or fails; a cancellation
may come at any time.

`Scheduler`: threads in `run`, `run_one`, `wait_one`, `poll` and `poll_one`, at
the granularity of the mutex: what a thread does under one lock is one step. The
event's state and its waiters are explicit, and so are the task in the queue,
the private queues and private work counts of the threads, and the destructors
that give them back, also after an exception.

`Strand`: threads dispatch and post handlers, also from within handlers; the
invoker runs what is ready, outside the mutex. `service` says which of the two
implementations it is, as they differ in `dispatch`. A strand maps to
`SerialQueue` by appending its waiting handlers to its ready ones; the abstract
queue loses handlers only when it is closed, which is `shutdown_`.

`EpollReactor`: a descriptor with a queue of operations per type, from
registration to close, and the kernel: data and space arrive, the connection
ends, a report is due when what is registered has an edge. Registering may fail,
with `EPERM` or otherwise, and so may the registration of a first write for
`EPOLLOUT`; of the `epoll_ctl` whose result the code ignores, success is assumed.
A report is taken by
`epoll_wait` in the task and performed later, by any thread, with operations
started or cancelled and the descriptor closed in between.

## Runs

| Run | Checks | Bounds |
|---|---|---|
| `server` | `TypeOK`, `SlotReserved`, `SaveIffComplete`, `RepliesCountHorcruxes`, `AcceptorArmed`, `OutWrittenOnce`, `ImplementsUploadStore` | 3 connection objects, so that two uploads overlap; 1 UUID, so that they collide; at most 2 Horcruxes, counts and indexes 0..3, sizes 1 and 2 with a limit of 1 |
| `size_limit` | `OversizedIsRejected`, violated | 2 connection objects, 2 UUIDs, 2 byte values, otherwise as `server` |
| `file_splitter` | `TypeOK`, `RoundTrip`, `EvenSplit`, `SplitReturns` | files of 0..40 bytes, 0..5 splits, integers modulo 12 |
| `client_requests` | `RequestsCarryFile`, `AnnouncedModulo`, `SendsOrRefuses` | files of 0..30 bytes, `-n` from -12 to 12, integers modulo 12 |
| `system_upload` | `UploadStored`, `AcceptedIsSaved` | 2 clients, one of which may stall, 2 UUIDs, uploads of one and of two Horcruxes, integers modulo 3, no faults |
| `system_faults` | `FilesAreSent`, `FilesHaveNoGap` | 2 clients under 1 UUID, uploads of different lengths and contents, crashes of all processes, resets, sound disk |
| `system_short_reads` | `AcknowledgedIsHeld`, `ClientEnds` | 1 client, uploads of none to three Horcruxes and one over the limit, reads in parts, crashes, disk faults |
| `join_tool` | `JoinsWhatWasStored`, `MissingStopsJoin`, `FirstResultStays`, `JoinEnds` | 2 uploads of 2 files under the tool's UUID, 2 contents, any number of runs of the tool |
| `composed_transfer` | `TransfersInOrder`, `SuccessMeetsCondition`, `NoNeedlessTransfer` | up to 4 buffers of 0..2 bytes, 2 of them offered at a time, at most 3 bytes per transfer |
| `scheduler` | `WorkIsCounted`, `OneTask`, `QueuedIsRun`, `StopEndsRun`, `RunEndsWithoutWork` | 2 threads, 2 operations, all calls, stop, restart, exceptions |
| `strand` | `OneInvoker`, `IsSerialQueue`, `AcceptedIsRun` | 3 threads, 4 handlers, both implementations, exceptions |
| `epoll_reactor` | `OperationsAreWork`, `NoLostEdge`, `FirstIsServed` | 1 thread, 2 operations, reads and writes, at most 2 units of data or space |

- `server`: every header passes or fails each comparison of the two checks by
  one, in every order, on two connections at once, with crashes and disk faults
  at each point of a save. With one UUID the comparison of UUIDs never fails
  here; it does in `size_limit`, and the proofs cover any set of UUIDs.
- `file_splitter`: sizes up to more than three times the integer range, so that
  offsets wrap once and more. All bytes of a file differ, so that no two parts
  of it can be mistaken for each other.
- `client_requests`: files of more than twice the range. The announced total is
  right modulo 2^32 only: for a file of 4 GiB or more it is too small, and the
  server's limit does not catch it.
- The `system` runs let a client in `Steady` draw UUID 0 and any other client any
  UUID (`MCDraw`); UUIDs are only compared, so this is all there is up to their
  names.
- `system_upload`: the total of the longer upload wraps to zero. `UploadStored`
  asks that no other client has drawn the same UUID: the second of two such
  uploads is answered `SUCCESS` to the end and then dropped, since `saveFile`
  refuses a path that exists and `saveHorcruxes` ignores its result.
- `system_faults`: what exists of a UUID is a prefix of its indexes, and each
  file has the beginning of a Horcrux sent under its name, whichever of the two
  clients won.
- `system_short_reads`: once a read returned a part of an answer the client
  attributes later answers to the wrong requests; `AcknowledgedIsHeld` speaks of
  what precedes. The client ends in every case, as the server closes after a
  rejection.
- `join_tool`: a file that is still empty is joined silently; what was complete
  when the tool began is joined right, or the tool ends because a file cannot be
  opened. That all of it gets into `reconstructed.png` is not promised.
- `composed_transfer`: buffers that are empty or used up take no place among
  those offered, otherwise a transfer of nothing would end the operation early.
- `scheduler`: `QueuedIsRun` is asked while all threads are in `run`, as Horcrux
  uses it. `~work_cleanup` puts continuations into the queue and wakes nobody,
  as its thread goes on to take them; after `run_one` or an exception it does
  not, and they may wait for the next thread that looks.
- `strand`: handlers throw, nest, and are posted from any thread. What is still
  queued at shutdown is dropped; otherwise everything accepted is run.
- `epoll_reactor`: `NoLostEdge` and `FirstIsServed` leave out a type after one of
  its operations was told of the end of the connection: the kernel reports that
  edge once, and operations queued behind it stay until another is started.
  Horcrux has one operation per connection. With one thread a report in the
  scheduler and one in the thread are on the way together, but not two in threads.

The violation is a disagreement between the code and its comment: a Horcrux over
`mMaxTotalSizeAccepted` is not rejected (`TcpConnection.hpp:22` says it is),
because the limit is compared with the announced total only.

The bounds are enough for these questions because connections meet only in the
acceptor, in the thread and in `out`: two concurrent uploads, two indexes and
two contents give every way in which they can get in each other's way. In asio,
two threads and two operations give one to lose and one to take the wake-up. The
proofs cover the rest for Horcrux itself, for strands and for the scheduler.

Deadlock is checked where a state without a successor would be an error. It is
not in the `system` runs, `composed_transfer`, `scheduler` and `strand`, where
all work may be done.

### Fairness

| Run | Assumed | Why |
|---|---|---|
| `file_splitter`, `client_requests` | a loop that can go on does | sequential code |
| `system_upload`, `system_short_reads` | `WF` of each client in `Steady`; `SF` of the server's steps for each connection | the operating system runs both; `io_context::run` takes completions in order, and another connection's save only delays them. Nothing is assumed of the other clients, of crashes or of restarts |
| `join_tool` | a tool that runs and is not killed goes on | sequential code |
| `scheduler`, `strand` | `WF` of each thread's own steps, and that the inner executor runs a submitted invoker; nothing of the program that posts and stops | the operating system runs the threads; `QueuedIsRun` is what the strand relies on |
| `epoll_reactor` | `WF` of `run` and of each thread | the scheduler keeps the task going while there is work |

## Proofs

The named assumptions on the constants (`ServerAssumption`,
`SplitterAssumption`, `RequestsAssumption`, `SystemAssumption`, `FieldsFit`,
`JoinAssumption`, `StrandAssumption`, `SchedulerAssumption`) are all that is
assumed: counts and sizes are natural numbers, there are finitely many
connections, threads and operations, the task is not one of the handlers, `nullopt` is
neither a content nor a number, the number of splits fits the loop variable.
`FieldsFit` says that the fields of a header can hold what the client puts into
them: the sum of the sizes wraps, but each Horcrux and the number of Horcruxes
must fit. TLC evaluates it for the uploads of the runs.

### The server

`HorcruxServerProofs!Inv` is inductive. The properties are not, because each
handler relies on what an earlier one left behind, so `Inv` states that for each
value of `pending[c]` (`Handover`): before the pre-request header nothing was
received; after it something is missing; while a content is read its slot is in
range and empty; while a save is due or running nothing is missing, and the loop
counter is within the vector. Three facts about connections together complete
it: at most one is inside `saveHorcruxes` (`OneSaver`), the file about to be
written was created by the same call (`Created`), and exactly one is accepting
(`Armed`). Each action has a lemma; the steps that end a connection, and those
that move the loop of `saveHorcruxes`, share one each.

| Theorem | Property | Argument |
|---|---|---|
| `ServerTypeOK`, `ContentHasSlot`, `SavesCompleteRequests`, `AlwaysAccepting` | `TypeOK`, `SlotReserved`, `SaveIffComplete`, `AcceptorArmed` | follow from `Inv` |
| `FilesAreWrittenOnce` | `OutWrittenOnce` | `OutStep`: a step creates the file the saver is at, or fills the file just created, or leaves `out` alone |
| `RepliesCount` | `RepliesCountHorcruxes` | inductive relative to `Inv`: a content adds one element to the set received, and one answer |
| `NoGap` | `FilesHaveNoGap` | strengthened by `Behind`: the save in progress has a file at each index it has passed |
| `ServerImplementsStore` | `ImplementsUploadStore` | one lemma per action of the store; the other steps change nothing it shows |

### The splitter

Horcrux *k* is the part of the file between two consecutive offsets, wrapped or
not. `OffsetInFile` shows that a wrapped offset still lies within the file, so
`split` either throws or cuts the file into adjacent parts, and `join` has at
each iteration put together what lies before the current offset
(`SplitRoundTrip`). If the size of the file fits the integer type no offset
wraps (`OffsetExact`), which gives the sizes (`SplitIsEven`).

`ClientAnnounces` carries this to the client: the contents are adjacent parts of
the file (`Cut`), each sum so far is the size of what lies before, modulo the
range (`SizesFit`, `AddWrapped`), and there are as many requests as splits.

`ClientCarriesFile` says that the payloads, one after the other, are the file.
`CarryInv` adds to the invariant that each request made so far has the header
and the content of its Horcrux; that the contents are consecutive parts of the
file then gives the whole (`PayloadIsFile`, with `ConcatenationOfCuts`).

### Sequences

A concatenation of arbitrarily many parts is a recursive function, of which the
provers know nothing but that it was chosen. `SequenceFacts` shows that it
exists and what it is. The induction is over a set: a set of numbers that has 0,
and with each number its successor, has all (`SetInduction`, from
`LeastNat`). `ConcatenationExists` gives the equations, `ConcatParts` finds each
part again where its predecessors end, `ConcatenationOfCuts` puts a sequence
together from its consecutive parts.

### The whole system

`SystemInv` is inductive together with the server's `Inv`. For each connection
that has a client it says how the two stand to each other (`Session`): the
server has not begun to read (`Unread`), has refused (`Rejected`), or has taken
the first *j* Horcruxes (`InTransfer`). In the last case its vector has just
these, and everything the client has written and the server has not taken is the
rest of one sequence of cells, the whole upload on the wire (`Stream`); and
until a request fails, the answers on their way and those the client has read
add up to the requests served (`Answers`). `Links` says that a client has one connection or waits once
in the backlog. Since the cells that arrive are always those of the next header
or content, the server reads a header as the header that was sent, however
the client's writes are cut up. `StreamWritten` and `StreamTaken` are the two
ends of a stream; one lemma per action of the client and of the server.

| Theorem | Property | Argument |
|---|---|---|
| `SystemImplementsServer` | `SystemSpec => Spec` of `HorcruxServer` | what arrives is a header or a content that the server's actions allow; client steps stutter |
| `SystemNoGap` | `FilesHaveNoGap` | `NoGap` of the server, through the refinement |
| `SystemStoresWhatIsSent` | `FilesAreSent` | `OutStep` of the server, and that the saver has its client's Horcruxes in hand |
| `SystemAcknowledges` | `AcknowledgedIsHeld` | the answers of `InTransfer` |

Through the refinement each theorem on the server, proved there for arbitrary
peers, holds of the system.

### The join tool

`JoinInv` adds to the invariant of the store that every file the tool has passed
is there (`There`), and that its result file is empty while it is about to write
it. Since a file never disappears (`FilesStay`), `JoinStopsAtMissing` follows: no
result without all the files, and none is found missing that was there at the
beginning, though it may fail to open;
`JoinKeepsFirstResult` follows from the second part.

`JoinIsWhatWasStored` needs more: a file that is final stays as it is (`Final`,
`FinalStep`), and what is joined so far is the concatenation of the files passed
(`StoredInv`), which one more file extends (`ConcatenationGrows`).

### Strands

`OneInvoker` is not inductive. `StrandProofs!Protocol` adds what the steps rely
on: only a thread in a handler has frames, an unlocked strand is empty, the ready
queue is empty when a thread has just taken `locked_`, and nothing is left after
`shutdown`. With it `OneInvokerHolds`, and `StrandIsSerialQueue` step by step: a
push appends, a handler that is taken was the first.

### The scheduler

`OneTask` needs to know what else can get into the queues: `SchedulerProofs!Places`
says that private queues, the reactor and a thread that is about to push only have
handlers, and where a thread goes on after a signal or a stop. `Moves` is what any
of the five functions does with a queue: it takes the task out or leaves it there.
`lock`, `wait`, `cleanup` and `task_cleanup` go through it, the last with the task put
back first; the other steps do not touch the task, except `init_task`, which finds
none.

`SchedulerCountsWork` rests on `WorkInv`. A thread has only what its place says
(`Owns`): an argument while it is about to push, a running handler while it is in
one, and private operations from then until `~work_cleanup` or `~task_cleanup` has
pushed them. No queue has an operation twice, and some function says of every
operation in which one place it is (`Located`). A step moves operations between
places, which changes no count (`CountStays`), or takes one operation from nowhere
or back there, and changes `outstanding_work_` and the private count of that thread
by one together (`CountChanges`). That the sum over the threads then changes by as
much (`SumChanges`) is an induction over the number of threads in which the sum is
a function, not an operator.

### Only model-checked

Liveness is out of the prover's reach. `EpollReactor` uses recursive operators.
`ComposedTransfer` has no proofs. The violated property has none by its nature.

## Not modelled

Of Horcrux: logging and the text of messages; the checksum, a stub; the byte
layout of the headers, which both sides share as an object representation; a
short write by the client (its sockets block, and it installs no signal
handlers; as it only logs the length that `write_some` returns, client and
server would wait for each other).

Of `loadFile`: an error of the read after the file was opened, which the code does
not look at.

Of the parts of asio that are modelled: a scheduler's own internal thread, calls
of the scheduler from within a handler (`poll` and `poll_one` then take over the
private queue of the outer call), the posting of several operations at once, shutdown and fork; the reactor's internal
descriptors, its interrupter and its timer descriptor; reads and writes at an
offset, on dynamic buffers and up to a delimiter.

All the rest of asio: timers, which Horcrux does not use; the reactors of other
systems, Windows, SSL, serial ports, files, coroutines, channels, and the type
machinery of executors and completion tokens; its tests and examples. Most of
the repository's lines are this library. Horcrux reaches a small part of it, and
much of that part is templates without state of their own.
