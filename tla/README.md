# A TLA+ model of bluetootch

This directory models the concurrent parts of the repository and its QR encoder
in TLA+, checks them with TLC on small instances, and proves the most important safety
properties for every instance with TLAPS. The repository has two Windows C++
projects: **fastnet**, an asynchronous I/O library with an echo server, test
clients and a tray program that sends heartbeats; and **ControlPPt**, a server
that lets a phone steer a presentation, with an unfinished successor (PCControl)
and an older network library. Paths below are relative to `src/`.

Reading order: `Executor`, `Dispatcher`, `TaskPoll`, `PptServer`, `TcpServer`,
`TrayBeat`, `PipeServer`, the proof modules; apart from them `QrTables`,
`QrStream`, `QrSymbol`, `QrEncode` with `QrReader`.

## 1. Inventory

### fastnet

**Dispatcher** `service::iocp_impl` (`fastnet/source/dispatcher/iocp_impl.cc`,
`fastnet/include/iocp_impl.h`, `iocp.h`, `async_callback.h`).
*State*: the completion port, the vector of threads, and per worker the batch of
up to 64 entries it took. *Operations*: `post()`, `bind()`, the workers' `run()`,
`stop()` from the destructor. *Interaction*: every asynchronous operation of the
library ends as an entry on the port; a callback travels as a raw `OVERLAPPED*`
from the `unique_ptr` in `post()` through the kernel to the `unique_ptr` in
`handle_callback()`. *Hard*: who owns a callback at each moment; a handler that
throws drops the rest of its batch and ends its worker; workers are woken for
the stop by a user APC, which is lost on a thread that has not begun. *Correct
if*: every callback has one owner, none disappears unaccounted for, the
destructor leaves no handler running, and it returns.

**TCP server** `socket_acceptor`, `socket_handle_t`, `socket_channel`
(`fastnet/source/dispatcher`), `session`, `server_mgr`
(`fastnet/source/iocp_server`). *State*: one outstanding `AcceptEx`, per
connection one outstanding `WSARecv`, the message being read, the nest of
handler calls on the worker's stack. *Operations*: `init`, `start`, `stop`,
`handle_accept`, `async_read` with its header and body handlers, `handle_read`,
`async_write`. *Interaction*: handlers run on the dispatcher's worker, or inside
the call that started the operation if it succeeded at once. *Hard*: the two
ways a completion can arrive; TCP hands over bytes, not messages; end of stream;
an accept that succeeds at once. *Correct if*: one read per connection, every
message echoed once, clients go on being accepted.

**Named pipes** `pipe_channel`, `pipe_acceptor`, `pipe_mgr`, `pipe_session`
(`fastnet/source/dispatcher/pipe_*.cc`, `iocp_server/pipe_*.cc`). *State*: the
set of pending channels under a mutex, a session number that invalidates old
accepts, one header buffer per channel. *Operations*: `init`, `start`, `stop`,
`do_accept`, `handle_accept` of acceptor and manager, `be_server`, `async_read`
with its header and body handlers, `close`. *Interaction*: one worker runs all of
it, in steps between which clients come and go and the owner stops or destroys
the manager. *Hard*: a client that connects before `ConnectNamedPipe()`, or
before the handle is on the port; `close()` against accepts in flight; reads that
fail. *Correct if*: one accept is under way at a time, `close()` reaches every
session, and what a client sends reaches its session.

**Timers** `timer_service_t`, `basic_timer_t`, `waitable_timer_t`
(`fastnet/source/tray_beat/net`). *State*: the map from handle to timer and
callback under a mutex, the update event, the thread's private copy of the
handles, the APC that ends it. *Hard*: the copy is stale between an update and
the next wait; a handle value can be reused; the limit of 64 wait objects.
*Correct if*: the thread waits on the timers that exist, and a tick reaches the
callback of its own timer. Modelled for the program's one timer.

**Heartbeat** `beat_mgr`, `net_request`, tray dialog
(`fastnet/source/tray_beat`). *State*: timer, channel, one mutex. *Interaction*:
the timer's thread sends, the dispatcher's worker or the same thread handles the
result and starts a read. *Hard*: the mutex is held around a send whose handler
may run in the same call and locks it again; two reads may be outstanding on
one socket. *Correct if*: every beat is sent, and answers are read one by one.

**Clients and utilities** `iocp_client`, `ip_address`, `socket_function`,
`socket_type`, `log`: drivers and wrappers without behaviour over time.

### ControlPPt

**Task pool** `TaskPoll` (`ControlPPt/source/PPTServer/task_poll.cpp`).
*State*: a deque of tasks, a flag, a mutex, a condition variable, the threads.
*Operations*: `Start`, `Post`, `Run`, `Stop`. *Hard*: lost and spurious
wake-ups, the flag written without the mutex, the shutdown. *Correct if*: tasks
run once and start in order, no worker sleeps while a task waits, `Stop()`
returns.

**Control center, socket server and sessions** (`control_center.cpp`,
`socket_server.cpp`, `socket_session.cpp`). *State*: the center's mutex, the
accept thread, one thread per client and the shared pointers that keep a session
alive. *Interaction*: sessions post commands and their own closing to the pool;
the pool's worker joins the session's thread. *Hard*: a session's `thread_` is
assigned after the thread runs; destroying a joinable `std::thread` ends the
process; the pool's only worker joins and shows message boxes. *Correct if*:
commands of one chunk stay together, closed sessions are reaped, nothing
deadlocks, no client ends the process.

**Command parser** (`command_parser.cpp`, `utils.cpp`): splits a received chunk
at `;`. A singleton without a mutex. In `PptServer`: how many commands a chunk
becomes (`SplitCount`), and their delivery; the commands' text is abstracted.

**QR encoder** (`QR_Encode.cpp`, a fifth of the repository's code): a pure
algorithm, used to show the server's address. *State*: the stream of bits, the
codewords, the square of modules, and tables for 40 versions typed by hand.
*Operations*: `EncodeData` with all it calls. *Hard*: thresholds between modes
that differ by group of versions, blocks of two lengths interleaved by index
arithmetic, patterns painted over each other, a zigzag over a square with holes.
*Correct if*: a scanner that knows the format reads what was asked for.

**Dialog, console driver, key simulation**: the dialog's `StartControlServer()`
and `StopControlServer()` are the owner's steps in `PptServer`, its call of
`EncodeData()` is one of those of `MCQrEncode`. The rest calls Windows.

**PCControl** (on boost.asio) and the older **bluetooch** network library with
its test program: the first is unfinished (its message handlers are empty), the
second is used by no program. Neither is modelled.

`PROJECT.json` lists every component with its status, and under `hazards` what
can go wrong in this code at which line.

## 2. The modules

| Module | Stands for | Its variables in the code |
|---|---|---|
| `Executor` | what a work queue promises (abstract) | - |
| `Dispatcher` | `iocp_impl` | `port`: the completion port; `entrys[t]`: worker's batch; `apc`: queued user APCs; `stop`, `todo`: progress of the destructor's two loops; `freed`, `leaked`: fate of callback objects |
| `TaskPoll` | `TaskPoll` | `is_stop_`, `mutex_`, `tasks_`, `threads_` as in the class; `pc`: place in `Run()`; `owner`, `joining`: place in `Stop()` and its local list |
| `PptServer` | control center + server + sessions + `INSTANCE TaskPoll` with one worker | `body`: what each task is bound to; `center`: the center's mutex; `accept`, `sp[s]`: accept thread and session threads; `thread_[s]`: the member of that name |
| `TcpServer` | acceptor, channel, session, server manager | `acceptor`: the outstanding `AcceptEx`; `reading[c]`, `want[c]`: the outstanding `WSARecv`; `port`: its completions; `at`, `cur`, `stack`: the worker's nest of calls |
| `TrayBeat` | `beat_mgr`, its timer service, channel and one worker | `mutex_`, `timers_`, `update_` as in the classes; `handles`: the thread's private copy; `ui`, `tt`, `wk`: the dialog's thread, the timer's, the worker; `reads`: the outstanding `WSARecv`s |
| `PipeServer` | `pipe_mgr`, `pipe_acceptor`, channels, sessions, on one worker | `mutex_`, `session_`, `pendings_` as in the classes; `port`, `at`: the completion port and what the worker is doing; `pipe`, `units`: the kernel's instances; `bound`: channels with their `handle_`; `accepted[i]`: `session_` as the accept's callback holds it |
| `QrTables` | the tables at the head of `QR_Encode.cpp` | - |
| `QrStream` | characters to bits: modes, segments | - |
| `QrSymbol` | bits to modules: patterns, walk, masks, penalty | - |
| `QrEncode` | one call of `EncodeData()` | the members of the same names; `bits`: `m_byDataCodeWord` up to `m_ncDataCodeWordBit`; `walk`: `x`, `y` and the two directions in `SetCodeWordPattern()` |
| `QrReader` | a scanner (the reference definition) | - |
| `QueueLemmas` | facts about sequences | - |
| `DispatcherProofs`, `TaskPollProofs`, `PptServerProofs`, `TcpServerProofs`, `TrayBeatProofs`, `PipeServerProofs`, `QrEncodeProofs` | theorems | - |
| `MC*` | instances for TLC | - |

Every action is one operation, or the part of one between two points at which
another thread can act. `PROJECT.json` maps each definition to the lines it
stands for. The choices that matter:

* **Dispatcher.** A callback is the number of the `post()` that made it.
  `Dequeue` takes any number of entries up to the batch size. `Begin` is the
  thread's first instruction: an APC queued before it is delivered there,
  outside an alertable wait, and `missed` remembers it. `PostFails` is the
  ignored result of `PostQueuedCompletionStatus`. `Throw` is a `std::exception`
  out of a handler; any other exception ends the process and is not modelled.
* **TaskPoll.** The mutex is explicit where a thread can be preempted with it.
  `Post` is one step (a critical section that cannot block, and the
  notification after it). `Start` may create any subset of the threads, as the
  `catch` inside its loop allows. `Spurious` is a spurious wake-up.
* **PptServer.** The pool's variables are the server's; its actions are called
  by name, and every other step leaves those variables alone. So the invariants
  of `TaskPoll` hold of this pool by the way the module is written; the proofs
  use that as a lemma (`PoolBehaviour`), and no run spends a property on it.
  A session is `Destroyed` when its last shared pointer is gone; if its thread
  is then joinable the process is `Terminated` and nothing more happens.
  A task is a key command, a message box, or the closing of a session.
* **TcpServer.** A message is two units of header and `BodyUnits` of body, and
  a segment is any number of units. Because a short read fails an assertion
  (the solution builds a debug library, `fastnet/output/debug`), a connection
  that lives is always aligned with the messages, and the stream needs no
  contents. `Recv` is one `WSARecv`; when it succeeds the handler is called in
  the same nest, and `stack` holds the `handle_read()` calls that have read
  again and not echoed yet. `AcceptEx` returning `TRUE` queues no completion.
  A listening socket cannot be shut down, so `Stop` changes nothing.
* **TrayBeat.** The answer is the server's echo of the request: eight bytes of
  header and four of body, as three units of four bytes, the first of which holds
  the length. Several reads may wait on the socket, and the kernel completes them
  in order. `add_timer()` and `async_wait()` are three steps of the dialog's
  thread, because the timer's thread already runs. Locking `mutex_` a second time
  on the same thread is undefined for `std::mutex`: `Relock` blocks, ends the
  process, or goes on.
* **PipeServer.** An instance of the pipe stands for its channel, its session
  and its client. `do_accept()` is four steps of the worker (`DoAccept`,
  `Connect`, `Insert`, `BeServer`), because clients come between them and
  `stop()` runs on the owner's thread; `close()` is two, because `session_++` is
  before the lock. A client may open an instance as soon as it exists; the
  completion of a connect whose handle is not on the port yet is lost. A channel
  that never got its `handle_` reads from any value. A session that ends takes
  its channel with it, which disconnects the pipe (`HandleRead`). `OwnerRelease`
  is the point of the destructor after which the worker's callbacks use a released
  manager. The acceptor lives longer if an accept's callback still holds it: it
  closes once more, in its destructor (`Destroyed`), when the last holder lets go,
  and never if one of the callbacks will not come back (`lost`).
* **QrEncode.** A step is one turn of the outermost loop that the call is in.
  The tables are the source's numbers, row by row. `QrReader` is written from the
  format and not from the code: it finds the version from the size, corrects
  nothing, reads the format word, takes the mask off, walks the zigzag by a
  closed formula, undoes the interleaving and decodes the segments. It shares
  with the encoder only the table of versions, whose consistency
  (`TablesConsistent`) is checked against geometry. `InBounds` says of every
  index the encoder computes from its tables that it is inside its array, the
  last place a block writes included, and of every stored value that it fits a
  byte; the code looks at no bound but that of `SetBitStream()`.

`Executor` is the abstract specification of both queues: an item is handed over,
runs once or is dropped, and nothing runs once the queue is closed. Each queue
defines the refinement mapping at the end of its module (`Exec == INSTANCE
Executor WITH ...`) and has `ImplementsExecutor` as a property.

## 3. What TLC checks

| Run | Instance | What it shows |
|---|---|---|
| `dispatcher` | 3 workers, batches of up to 2, 3 callbacks | ownership (`Ownership`), the stop protocol (`StopSound`, `StopReturns`), `QueueServed`, refinement of `Executor` |
| `taskpoll` | 3 workers, 4 tasks | mutex and condition variable (`Monitor`), order and single execution (`Fifo`), `EveryTaskServed`, refinement of `Executor` |
| `taskpoll_stop` | 1 worker | **violated**: `Stop()` never returns |
| `pptserver` | 2 clients, 3 tasks, 1 chunk each of one or two commands | `ChunksContiguous`, `StopIsLast`, `TerminateCauses`, `CommandTaken`, `StopTaskReturns`, `ClosedSessionReaped` |
| `pptserver_terminate` | 1 client | **violated**: a client can end the process |
| `tcpserver` | one client with 3 messages, one that connects and goes; bodies of two units, a stack of two calls | `OneRead`, `EchoOnce`, `BurstOrder`, `Framing`, `ClientServed`, `MessageEchoed` |
| `tcpserver_header` | the same | **violated**: the assertion on the size of a header |
| `traybeat` | 3 beats, segments of up to two answers | `AnswersInTurn`, `TickTaken`, `MutexReleased` |
| `traybeat_header` | 2 beats, whole answers | **violated**: the assertion on the size of a header |
| `pipe` | 2 clients, 2 messages each, 3 openings and closings | `OneAccept`, `SessionsClosable`, `AssertCauses`, `MessageReceived` |
| `qr` | 162 calls of `EncodeData()` | `InBounds`, `TablesConsistent`, `SegmentsAdvance`, `SymbolReadable`, `PatternsIntact`, `BlocksValid` |
| `qr_rs` | 52 calls for version 1, level H | **violated**: the codewords of a block |

Each property of a passing run has a mutant: a plausible mistake in the code,
written as an operator next to the definition it replaces, under which TLC finds
the property violated.

**Bounds.** `MaxPosts`, `MaxRecv`, `MaxMessages`, `MaxTicks` and `StackDepth` bound otherwise
unbounded counters, and every one is a constant named in a guard. Three workers
with batches of two and three callbacks let one worker hold a batch, another
wait and a third be signalled or not have begun; a batch of two is the smallest
that a throwing handler can cut short. Four tasks and three workers let two
workers compete for one task while another waits. Two clients and three tasks let
one client's pair of commands be interrupted by the other's, or both be closed.
Three messages are the fewest for one to come alone and two in a burst, which is
what tells `BurstOrder` from plain order or plain reversal; the second client is
there to meet the first at the acceptor. A header and a body have two units
each, so that either can come in part. `StackDepth` is two, one less than the
messages: a burst can exhaust it as well as a closed connection, and `Framing`
tells the two apart. Two beats are
enough for two reads on one connection, a third comes when they have gone wrong. The
proofs of section 4 hold for all values. In `PipeServer`, two clients are one
that is served while the other is accepted, two messages are one behind the
other, and `MaxSession` 3 is an `open()` and two `close()`, or three `close()`
of a server that was never opened. The calls of `MCQrEncode` are chosen at the
edges: the program's own call; pairs and triples of runs of digits, letters,
bytes and kanji with lengths at each threshold of the smallest versions; two long
sources with all thresholds of the other two groups; versions with each number of
alignment patterns, and with one and two kinds of block, in all levels; sources
that just fill or overflow a version, a group, the largest symbol. What depends on
tables only is checked for all 40 versions and 4 levels.

**Fairness.** A started thread is scheduled (`WF` of each worker's steps).
Handlers and tasks return: this is the library's contract with its callers, and
`PptServer`, where it is in doubt, states it separately for the message box
(`WF` of `DismissBox`: someone at the machine dismisses it). A thread that asks
again and again for a mutex gets it (`SF` of `LockCenter`, `StopClear`,
`UiStart`, `HandleBeat` and `AsyncRead`; the
Windows lock does not starve a waiter whose lock is released infinitely often).
Nothing forces a spurious wake-up, a client's action, a user's, a tick,
a segment, a `Start` or the beginning of a `Stop`. Pending reads complete when
there is something to read. In `PipeServer` the worker is scheduled and
`stop()`, once it holds the mutex, goes on (`WF` of `Worker` and `OwnerClear`).
`QrEncode` is sequential and states no fairness: that its loop over the source
comes to an end is the action property `SegmentsAdvance`.

**What the violations say.** `TaskPoll::Stop()` stores `false` in `is_stop_`
(`task_poll.cpp:28`), the value it already has; the woken workers wait again and
the join does not end. `SocketSession::Start()` assigns `thread_` after the
thread has started (`socket_session.cpp:17`); if the client leaves first, the
posted `Stop()` finds no thread, joins nothing, and the session dies with a
joinable thread. `socket_channel::async_read()` asks for a header once and
asserts that it came whole (`socket_channel.cc:80`). `beat_mgr::handle_write()`
starts a read for every request (`beat_mgr.cpp:79`); when an answer takes longer
than the period the second read takes the first answer's body for a header.
`GetRSCodeWord()` shifts too few places when the leading coefficient is 0 and the
block has more error correction than data codewords (`QR_Encode.cpp:1324`); such
blocks exist in small versions of levels Q and H. The window asks for level M,
where there are none, and `BlocksValid` shows the others right.

**What passing runs say that may surprise.** `TerminateCauses`: the process ends
at a client's closing in two ways only, the one above and `TaskPoll::Stop()`
discarding a session's `Stop()`. `StopSound` and `StopReturns` hold only up
to an APC missed by a thread that had not begun. `BurstOrder`: echoes of a burst
leave in reverse order; only messages of different completions keep theirs.
`ClientServed`: an `AcceptEx` that succeeds at once ends the accepting.
`Framing`: a client alone can end the server, by sending part of a header or
body and pausing, by more messages in one burst than the stack has room for, or
by closing its connection in order (the end of the stream is taken for an empty
message, and the read that follows ends at once, again and again); it cannot get
a message's part taken for another's. `StopIsLast`: a session's `Stop()` is posted
without the center's mutex and still comes behind all it has posted. `TickTaken` and `MutexReleased`: a send that
succeeds at once locks `mutex_` twice, and then the heartbeat may stop for good.
`OneAccept`: the chain of accepts of the pipe server ends without anybody having
stopped it when a client opens the pipe before `be_server()` has put the handle on
the port, and the first `init()` leaves a server that its own first accept stops.
`SessionsClosable` holds because `handle_accept()` inserts the channel into
`pendings_` where its name lets one expect that it erases it. `AssertCauses`: the
assertion on headers fails on a channel without handle, after a client that has
left, and after a `close()`, even if the accept came after that `close()` had
counted `session_` up, because it takes the lock only then.

## 4. What is proved

Every safety invariant that a run checks is proved, except four of the QR
encoder's (see the end of this section). All theorems are for any constants that satisfy the named assumption of
the module. Besides saying that bounds and counts are natural numbers these
assume: a batch of at least 1 (`DispatcherAssumption`); `"free"` is not a worker
(`TaskPollAssumption`); the names of non-sessions are not sessions
(`PptServerAssumption`); a chunk is a non-empty sequence of text and separators
(`ChunksAssumption`); a body has at least one unit, the stack has room for a
call, and `"nobody"` is not a client (`TcpServerAssumption`); a segment has at least
one unit (`TrayBeatAssumption`); a call of `EncodeData()` has a level, a version
or 0 for any, a mask or -1 for the best, and a source of bytes of any length
(`CallsAssumption`). `PipeServerAssumption` names bounds only. TLC
evaluates them in every run.

**DispatcherProofs.** `TypeCorrect`, `OwnershipCorrect`, `StopProtocol`,
`Refinement`. `Ownership` is `OwnedOnce /\ AllAccounted`, `StopSound` is `WakeupPending /\
Joined`. The inductive invariant is `TypeOK /\ OwnedOnce /\ AllAccounted /\
Joined`. Ownership is not inductive by itself: that `post()` makes an object
nobody holds follows from `AllAccounted` together with the type invariant (every
known callback is at most `posted`), and `Close` needs `Joined` (no batch is
left when what is queued is given up). Each action moves callbacks between port,
batches, `freed` and `leaked`; the lemmas of `QueueLemmas` say what `Append`,
`Tail` and splitting at a position do to the set of elements of an injective
sequence.

**TaskPollProofs.** `TypeCorrect`, `SyncCorrect`, `OrderCorrect`, `Refinement`. `Monitor` is `MutexHeld /\ NoLostWakeup /\ TakeFinds`, `Fifo` is
`InPostOrder /\ OneExecution`. The inductive invariant is `TypeOK /\ Sync /\ JoinList /\
StopsOnlyEmptyPool /\ Order`. `Sync` adds to the three synchronisation properties that the
flag is always down; with that, no worker ever leaves `Run()`, and `JoinList`
(every created thread is in `threads_`, later in the list being joined) gives
`StopsOnlyEmptyPool`: `Stop()` returns only from a pool without threads, so that
no task is begun after the pool is closed, which the refinement needs. `Order` adds that a running task
is in the history, from which two workers never run one task.

**PptServerProofs.** `TypeCorrect`, `ChunksCorrect`, `StopLastCorrect`,
`TerminateCorrect`. By the lemma `PoolBehaviour` the pool's invariant holds here
without a new proof (`PoolInvCorrect`). `TypeCorrect` needs two
strengthenings: a session that posts has a command left and a chunk received
(`Delivering`), and `thread_` is null until the accept thread that started the
session has assigned it (`Unassigned`). `TerminateCorrect` rests on `Reaping`: a
session that has posted its `Stop()` still has that task in the pool, unless its
thread was joined, or the task ran early, or `TaskPoll::Stop()` threw it away.
That invariant needs the pool's: a posted task is new, a finished one is not
queued, and the queue shrinks only by `Take` and by the clearing in `Stop()`.

`ChunksCorrect`: the inductive invariant (`Chunking`) says that a session that
posts a chunk has been the only one to post a command since the first of that
chunk: it holds the center's mutex, and the closings that are posted without it
are no commands. That a chunk is not taken up again later follows from the
session's counter of chunks received.

`StopLastCorrect`: the invariant `Closing` says that a session which has posted
its `Stop()` posts nothing more, and that all its tasks have smaller numbers than
that one. The pool takes tasks in the order of their numbers (its `InPostOrder`),
so that what is still queued when the `Stop()` is taken belongs to others.

**TcpServerProofs.** `TypeCorrect`, `OneReadCorrect`, `EchoCorrect`,
`BurstCorrect`, `FramingCorrect`. `OneRead` counts the places where an open connection's read is
(`ReadsUnderWay`), `EchoOnce` the places where a message is (`Places`); neither
is inductive. `Reads` says instead what each place means: a completion of a read is on
the port, once, exactly if `reading[c]` is `"queued"`, one of an accept exactly
if the connection is `"accepted"`, and a connection is open exactly if the kernel,
the port or the worker's call has its read. `Echoes` is a ledger for each
connection: echoes sent and calls on the stack name different messages, none
above the number read and none missing; and a message that a call on the stack
still has to echo is newer than every point at which a callback began. The last
part is what makes `BurstOrder` inductive: the stack unwinds from the top, and
what lies below a message there came in the same callback. `Framing` becomes
inductive (`Framed`) with one addition: a completion that reports a failure has
read nothing. It uses `Reads`, for where the bytes of a read in flight are, and
`Echoes`, for the stack: the messages on it are different and none is above the
number read, so that a full stack means as many messages.

**TrayBeatProofs.** `TypeCorrect`, `AnswersCorrect`. `Beats` strengthens the type
invariant: fewer beats were sent than the timer ticked as long as a tick is
pending, from which `sent` never passes `MaxTicks`. `InTurn` follows the right
to read an answer: until a request overtakes an answer (`late`), it is with one
of the timer's thread, the worker, the port and the kernel, and the place in the
stream where the holder will read is the beginning of a header or of a body, as
it expects (`Placed`). A read that starts in the middle, which is the violation
of `traybeat_header`, needs a second holder.

**PipeServerProofs.** `TypeCorrect`, `AcceptCorrect`, `ClosableCorrect`,
`AssertCorrect`. The order of the port's entries does not matter to the
properties, so the proofs speak of the set of entries, and that none is there
twice is part of the invariant (`Distinct`). The common invariant `Inv` says:
instances are used one after the other, and all but the newest have had their
client or were disconnected, which only a `close()` or the end of a session does
(`Served`); what the worker is doing and what is on the port
concern the newest instance, or a session that is not reading (`WorkerPlaced`,
`PortPlaced`); the accept is with the port, the worker or the pipe and never
with two of them (`OneHolder`); and the instance after the last client's is for
nobody (`LastUnused`, which also gives the bound of `created` in `TypeOK`). On it rest
three invariants. `Goes`: the accept is not lost while the server runs, unless a
client was stranded. `Closable`: an instance is in `pendings_` already while its
accept is handled, before it has a session. `Book`: what was sent to an
instance is what is in its pipe, what a completion on the port has taken out of it, and
what its session got; when `ReadFails` on a broken pipe, nothing is in it, and
so everything sent was handed over, as `AssertCauses` says.

**QrEncodeProofs.** `InBoundsCorrect`, `AdvanceCorrect`, `TablesAddUp`.
`InBounds` is not inductive: that `PlaceRS` writes inside the array follows from
how the blocks before it were cut. `IInv` therefore says what each phase has
established. The mode is `GetInitDataMode()` of the next byte (`StreamOK`); the
version is one of the 40 once padding has begun (`VersionOK`); the data fill
what the table says, and `nDataCwIndex` is the sum of the blocks before the
current one (`DataOK`, `BlockOK`); all codewords have their place (`AllOK`,
`PlaceOK`); the work area holds bytes (`WorkOK`). Two things carry the proof.
`TablesAddUp` goes through the 160 entries of the tables, row by row: blocks add
up to data codewords, with error correction to all codewords, and their
generator polynomial exists. `BlockArithmetic` then says, for any numbers that
add up so, that each block ends before the data do and that the last places of
each block, interleaved, are inside the array. The rest is that the bits of a
segment are bits, whatever its mode, and that exclusive or and the tables of the
field keep bytes bytes. `AdvanceCorrect` compares, for each mode, the test
by which `GetInitDataMode()` chose it with the count of bytes that
`EncodeSourceData()` then takes: a kanji needs two, and it is chosen only if two
are there.

**Only model-checked.** All liveness (`StopReturns`, `QueueServed`,
`EveryTaskServed`, `StopTaskReturns`, `ClosedSessionReaped`, `ClientServed`,
`MessageEchoed`, `CommandTaken`, `TickTaken`, `MutexReleased`,
`MessageReceived`): reasoning about fairness and `ENABLED` is beyond the
installed prover. (`CommandTaken` says "again and again", and the number of posts
is bounded, so that it means each command in its turn.) Of the QR encoder, what relates the symbol to its meaning.
`BlocksValid` is the algebra of the Reed-Solomon code: the remainder is one
after an induction over the turns of the division, in a field given by tables.
`SymbolReadable` would be an induction over source, bits and codewords, on both
sides. `PatternsIntact`, and the part of `TablesConsistent` that `TablesAddUp`
leaves (free modules, alignment patterns, roots of the polynomials), count and
compare modules and coefficients in 40 concrete tables: TLC evaluates them for
all 40, and nothing in them is left to generalise but the symbol's mask and data.

## 5. What is not modelled

Windows, MFC and socket wrappers and the key simulation have no behaviour of
their own. PCControl is unfinished: its accept chain is that of `TcpServer`, its
message handler is empty and nothing reads after the first message. The older
network library is used by no program, and its dispatcher could not be stopped:
the constructor keeps pointers to threads that it has destroyed. Of the modelled
components the following is left out: in `Dispatcher`, failures to create the
port or a thread, and exceptions that are not `std::exception`; in `PptServer`,
`OnHandleSocketServerClose` and `SocketServer::NotifyClose()`, which nothing
calls, and `UnInit()`, which runs after a `Stop()` that does not return; in
`TcpServer`, the connecting side and the blocking calls, messages of length 0 or
beyond the session's buffer, the bytes of a pending send (its message is
destroyed when `async_write()` returns), the closing of sockets (no code path
closes one), and the completion of an accept with an error; in
`TrayBeat`, `stop()`, `cancel()` and `erase_timer()`, which nothing calls while
the program runs, and a service with several timers; in `PipeServer`, the client's side of a channel,
`is_acceptor_ready()`, messages without a body or beyond the session's buffer, a
port that refuses a post, and what handles are never closed; in `PptServer`, the
text of commands. The data race on the
parser's `buf_` is listed as a hazard and not modelled: what is split is the
received chunk, never `buf_`.

## 6. Plan

The model is complete as far as section 5 says, and so are the proofs of its
invariants but those that section 4 leaves to TLC. What could still be proved:

1. More facts about the processes than the listed properties say, which are now
   inside the inductive invariants: `Reads` and `Echoes` of `TcpServer`, `InTurn`
   of `TrayBeat`, `Inv` of `PipeServer`. The lemmas about
   the port of `PipeServer`, `TcpServer` and `TrayBeat` could be shared.
2. Abstract specifications of which `TcpServer` and `PipeServer` are refinements,
   as `Dispatcher` and `TaskPoll` are of `Executor`.

## 7. Running it

    tlc -config MCDispatcher.cfg MCDispatcher      # likewise the other cfgs
    tlapm DispatcherProofs.tla                     # likewise the other proofs

The longest run, `pptserver`, takes about two and a half minutes on two cores.
