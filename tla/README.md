# TLA+ model of skyuv

skyuv ports the Skynet actor runtime onto libuv. Its core is the socket runtime
(`src/src/socket/socket_internal.c`): worker threads hand commands to one loop
thread, which owns all libuv handles and hands events back. This directory holds a
model of that core and of the facade Skynet sees, of the client runtime and the stdin
reader behind `client.socket`, and of a whole node from its command line to its end;
TLC configurations that check them; and TLAPS proofs of their safety properties. Paths
below are relative to `src/src/`.

## 1. Inventory

| Part | Source | State it keeps | Status |
|---|---|---|---|
| Socket ids | `socket/socket_internal.c` 1996-2025 | none (arithmetic on slot and generation) | modelled, proved |
| Command queue | 1179-1307 | FIFO, `accepting`, one mutex | modelled |
| Command channel | 1130-1177, 1879-1914 | queue, async wake-up, drain loop | modelled, proved |
| Socket entries | 22-73, 336-1128 | one record per socket: state, write lists, flags, handle | modelled, proved |
| Table, poll, exit, release | 222-334, 1309-1781, 1895-1994 | slots, generations, counters, event list, pump list | modelled, proved |
| Process signals | 111-183, 1122-1128, 1808-1812 | three signal handles, a shutdown flag | modelled, hang-ups proved |
| `socket_server` facade | `socket/socket_server_compat.c` | object interface | modelled but for conversions |
| Client runtime | `client/client_runtime.c` | one command slot, connections, condition variables | modelled, proved |
| Client stdin | `client/client_stdin.c` | ring of 1024 lines, a thread | modelled, proved |
| Client Lua binding | `client/client_lua.c`, `platform/client_*.c` | none | `select` modelled |
| PID file, daemon | `platform/daemon.c` | lock files, PID file | modelled, proved |
| Launcher, configuration, paths | `runtime/`, `platform/runtime_paths.c` | paths, directories | modelled for `--runtime-paths` |
| Control hooks, logger | `compat/skynet/skyuv_control.c`, `platform/logger.c` | none | the two hooks and the reopening modelled |
| Snapshots and names | 185-220, 1799-1806, 1814-1877, `socket/socket_info_compat.c` | statistics | not modelled |
| Threads, atomics, spinlock, memory, time, dynamic libraries | `platform/`, `memory/`, `compat/skynet/` | OS objects | not modelled |

The hazards of the code, with the line where each bites and the property that
watches it, are listed in `PROJECT.json`.

### How the parts interact

A thread that opens a socket reserves a table entry under `slots_mutex`, builds a
command and submits it; the queue has its own mutex. `uv_async_send` wakes the
loop. `skyuv_socket_runtime_poll` runs `uv_run` until an event is queued. In it,
`consume_commands` drains the queue, one `process_*` handler per command, and then
starts the first write of every socket that got one. libuv's callbacks (read,
connect, write, accept, close) change the same entries. Both append to a list of
events only the loop thread touches. `EXIT` stops the queue, closes every handle,
and is reported when the last entry is gone. `release` frees what is left.

The client runtime is separate and runs in a plain Lua interpreter. One caller fills
the only command slot, wakes the loop thread and waits, first for the command and
then, in most calls, for a request on its own stack that a callback completes. The
stdin reader beside it is one thread that reads, and callers that take lines.

A node finds its configuration, makes the directories for its log and its PID file,
becomes the owner of the PID file, forks and writes its PID. Then Skynet's threads
run: the socket thread calls poll, where signals arrive as well, and the timer thread
takes the shutdown flag a SIGTERM sets. When all services are gone the timer thread
calls exit, poll reports it, and the node gives the PID file up.

## 2. Modules

| Module | Models |
|---|---|
| `SocketId` | ids: masking is a remainder, shifting a quotient |
| `CommandQueue` | the five queue operations, one step each |
| `CommandChannel` | submit/exit/wake of any number of threads against the draining loop |
| `SocketEntry` | each handler and callback as a function of an entry |
| `SocketRuntime` | threads, table, poll, commands, callbacks, exit and release as actions |
| `SocketProperties` | properties of `SocketRuntime` |
| `SocketLife` | what the runtime promises about the life of a socket (abstract) |
| `SocketServer` | the `socket_server` facade on `SocketRuntime`: buffer ownership, `udp_dial` |
| `StdinReader` | the reading thread, the ring of lines, the callers of `readstdin` |
| `LineQueue` | what the ring promises: a bounded queue that remembers what it turned away (abstract) |
| `PidFile` | `daemon.c`: acquire, fork, publish and release of any number of processes |
| `InstanceLock` | what a PID file is for: one owner at a time (abstract) |
| `RuntimePaths` | where configuration, log and PID file are, as functions |
| `ProcessControl` | signals, poll, shutdown flag and logger, as functions of a control state |
| `Node`, `MCNode` | composition of `PidFile`, `RuntimePaths` and `ProcessControl`; its instance |
| `ClientRuntime`, `MCClient` | the caller and the loop thread of `client.socket`; its instance |
| `CommandChannelProofs` | proofs about the channel |
| `SocketEntryProofs` | what every function of `SocketEntry` preserves |
| `SocketTableProofs` | ids, preservation by the threads' and the loop's steps, addresses of buffers |
| `SocketRuntimeProofs` | the theorems about the runtime, with the pump list and announcements |
| `PidFileProofs`, `NodeProofs` | the PID file as a lock; what nodes inherit of it, their directories, configurations and hang-ups |
| `ClientRuntimeProofs`, `StdinReaderProofs` | the safety properties of the client runtime and of the stdin reader |

`SocketRuntime` extends `SocketId`, `SocketEntry` and `CommandQueue`: it uses the
same queue operators as `CommandChannel`. `SocketServer` extends `SocketProperties` and
takes every step of the runtime, replacing only the sends and adding the dials.

### Correspondence with the code

* A handler `process_x` or callback is an operator of `SocketEntry` with the same
  name. It takes the entry and the outcome of the libuv calls it makes, and yields
  the entry after it, the events pushed and the buffers released. An action of
  `SocketRuntime` (`ProcessX`, `ReadCompleted`, ...) applies it in one step,
  because only the loop thread writes these fields.
* `runtime_listen`, `runtime_connect`, `runtime_udp` and `runtime_bind` start a call
  of a thread by reserving an entry. `ClaimFd` (bind), `SubmitOpen`, then `ReturnId`
  or `Discard` are its later steps, interleaved with everything else. These steps
  use the entry through a pointer: if it has been freed meanwhile, the step records
  a `misuse`. That includes `Discard` of an entry that is no longer the one the thread
  reserved (`OwnsEntry`).
* `runtime_start`, `runtime_send` and so on fill in one command and append it. A
  refused command changes nothing and stays with the caller.
* `phase` is the position of the loop thread: `poll`, inside `uv_run` (`run`),
  in the two loops of `consume_commands` (`drain`, `pump`), after `EXIT`
  (`done`), in `release` and after it (`released`).
* `uv_closes` counts calls of `uv_close` on a handle. libuv asserts that a handle
  is closed once; a second call, like a misuse, ends the behaviour (`Stopped`).
* `terminals`, `published`, `released`, `sent_to` and the counters of calls are
  history variables for properties and bounds.
* `ClientRuntime` has one action per call (`runtime_x`, `select_socket`), per command
  that `execute` runs (`StartConnect`, `ReceiveData`, ...) and per callback
  (`Connected`, `ConnectionTimeout`, ...). `at` is where the caller is: in a call
  whose command has not been answered, waiting for its request, or in a round of
  select (`select`, `check`, `wait`). `revised` stands for the comparison of two
  revisions, and whether a select has a timeout is decided when it would matter
  (`EndSelect`).
* `SocketServer` counts for each buffer handed over what the facade frees (`freed`) and
  the number the runtime gave it (`buf`), under which the runtime's own history
  counts. A refused send is one action for all its early returns but one:
  `socket_server_udp_send` with a NULL address returns without freeing the buffer, and
  Skynet never passes one. The host of a `UDP_CONNECT` is an address (`good`) or not
  (`bad`); `udp_dial` and `udp_connect` cannot tell, only `process_udp_connect` can.
* `StdinReader`: a byte is its position and a line the range of its bytes, so that a
  byte lost or repeated shows. A critical section is one step; `JoinThread` is outside.
  Carriage returns before a line feed are part of it; those that end a full buffer, which
  `queue_line` strips too, are not told from other bytes.
* `PidFile`: `at` is the next system call of a process. A PID file is an inode, and
  `file` says where the name leads, since `unlink` lets it lead elsewhere. `parent` is
  the process `daemon()` forked from, which holds both locks until it has exited.
  `Write` may write the first digits only, which read as another PID.
* `Node`: `Main` evaluates `prepare_paths` and `config_load`; `Mkdir` is one
  `uv_fs_mkdir` with the `stat` behind it, `todo` the stack of the recursion. The options
  `--run-root` and `--log-root` and the two environment variables are constants, the same
  for every launch, although each process has its own: two nodes started with different
  roots use different PID files, and `OneInstance` says nothing of them. What
  Skynet does between (services that retire, the end of its threads) is external; that
  the timer thread calls `socket_server_exit` is Skynet's, what the call does is not
  (`TimerEnds`).

### libuv, as the model assumes it

Pending write and connect requests of a closed handle are called back, and only
then its close callback. A handle that is closing reads and accepts nothing. An
accept callback that returns without `uv_accept` stops the polling of the
listener. An async callback covers all sends before it. Of the kernel it is assumed
that `flock` belongs to an open file and lasts until every process that inherited it
has closed it, and that a pid is nobody else's while its process lives.

### Atomicity

* `process_exit` is one step although it scans the table entry by entry: a
  reservation during the scan lands in a slot already passed, as if it came after
  the scan, or in one still ahead, as if it came before.
* A decrement of `entry_count` and the test in `update_exit_ready` are one step
  although each takes the mutex on its own: a reservation between the two has the
  effect of one before the decrement.
* `next_slot` is kept modulo the number of slots, which divides 2^32.
* Wake-ups are not modelled in `SocketRuntime`; `CommandChannel` is about them.
* A command or callback of the client runtime is one step: the caller is blocked until
  the command has run, and it shares nothing with the callbacks but its request and
  the revision, each under a mutex.
* A signal handler runs on the loop's thread, so it is one step.
* Opening and locking the guard file is one step, since its inode never changes;
  opening and locking the PID file are two.
* Comparing and unlinking the PID file are two steps, so a process may come between.

### Left out of the modelled parts

Addresses, names, statistics, times, error codes and contents of data;
`LISTEN_PENDING`, which exists only inside `process_listen`; failures of
`skyuv_socket_runtime_create`; a zero-length TCP read, which does nothing; the
Windows build, in which bind and daemons are not supported. In the client: rejected
arguments, a select that names no socket, a failing `uv_async_send` (libuv has none),
and calls from two threads at once, which `client_runtime.h` forbids. In nodes:
`mkdir` refused for lack of permission, a configuration without a PID file, a PID path
that turns out too long after the log's directory was made, and upstream Skynet
processes that use the same PID file without the guard.

## 3. Runs

`tlc -config X.cfg M`. All bounds are constants named in the configuration.

| Run | Question | Instance |
|---|---|---|
| `channel` | order, no lost wake-up, nothing left behind `EXIT`, every accepted command consumed | 3 threads, 2 submissions each |
| `stream` | byte accounting, warnings, buffer ownership, progress of writes; one end per socket, `CLOSING` exactly with `uv_close` | 1 TCP socket, connecting or bound, 2 sends of 2 sizes and priorities, any 2 of start, pause, close, shutdown, every outcome of `uv_write` |
| `table` | the table stays consistent, accepted sockets are announced, late commands reach nobody else, `SocketRuntime` implements `SocketLife` | 2 slots, 2 generations, a listener and what it accepts or a UDP socket, each failure of `accept_connection` |
| `open_race` | opening against exit, one descriptor bound twice, `EXIT` delivered | 2 threads, 2 slots |
| `server` | the caller's buffers are freed exactly once, a dialled socket has its target before its sends | 2 buffers of 3 kinds, UDP or bound socket, hosts that are addresses or not, every allocation and libuv call may fail |
| `stdin` | the ring implements `LineQueue`; cutting against a reference; `eof` only at the end; one join, which returns | every input of up to 4 bytes, lines of up to 2, a ring of 3, 2 callers |
| `node` | `PidFile` implements `InstanceLock`; the PID file names its node and is removed; one node per configuration; directories made together; hang-ups not lost; SIGTERM ends the node unless `EXIT` is lost | 2 places for nodes, 2 launches, 1 kill or refused unlink, 2 signals, 2 working directories, a link, pids 12, 13 and a foreign 1 |
| `client` | handles, requests on the stack, bytes and backpressure, sleeping in select; timed connects and destroy return | 2 connections, a buffer of 2 bytes and 3 bytes sent, selects of 2 sockets |

The bounds are the smallest at which the cases meet: two writes are needed for one
to wait behind the other, two generations and a slot used three times for an id to
come back, two threads for a reservation to race another, three threads for two
wake-ups to merge while a third exits. `WARNING_SIZE` is 2, so that one and two sends
lie below, on and above it. The client's peer sends one byte more than the buffer
holds, so that reading stops, resumes and receives again. Four bytes of input give
two full lines, and empty lines enough to overflow a ring that holds two. Both nodes
of `node` can be alive at once, and PIDs 12 and 13 cut off after a digit name the
foreign process 1. `MaxEvents` holds back only what peers do (data, connections), never
commands. An id that comes back after all generations were used is accepted by the
code. All runs let the system rest: once nobody calls and peers are silent, nothing
is enabled, so deadlock is not checked.

### Where the code and its documents disagree

Four runs show a behaviour that a document in `docs/plans` excludes.

| Run | What happens | Document |
|---|---|---|
| `drain_stalls` | close with two writes queued: `write_completed` sees `close_requested` and does not pump the second write, so it is never written and the handle never closes | 004-socket-semantics.md:193 |
| `closed_twice` | a draining socket is shut down: the cancelled write closes the handle again | 003-libuv-tcp-minimum.md:80 |
| `close_reported_twice` | a second close of a draining socket reports `CLOSE` again | 003-libuv-tcp-minimum.md:184 |
| `double_free` | `process_exit` discards an entry a thread has reserved; the thread's refused call discards it again | 003-libuv-tcp-minimum.md:137 |

The properties of the passing runs that these behaviours would disturb say so:
`EndReportedOnce` and `WritesMoveOn` except sockets that drain before closing.

Two more behaviours are in the models, and the properties they would break are stated
so as to leave them out:

* `socket_server_udp_dial` for a host that is not an address returns an id as if it had
  succeeded: `process_udp_connect` leaves the socket without a target and pushes no
  event. 004-socket-semantics.md:44 wants what is not supported to fail synchronously or
  with an explicit error, never to succeed silently. The owner hears of it only by the
  `ERROR` of a later send. `DialledHasTarget` is therefore about hosts that are
  addresses.
* `skyuv_socket_runtime_exit` fails when there is no memory for its command, and
  `socket_server_exit` ignores that. The timer thread ends all the same, nobody asks
  again, and the socket thread waits in poll for ever: the node stays up without
  services. `TerminationCompletes` excludes exactly this (`exit` is `lost`); losing the
  event of the SIGTERM itself does no harm.

### Fairness

`CommandChannel`: the loop thread keeps running, and a thread that has appended its
command reaches the next line. `FairSpec`: weak fairness for a thread inside a call
and for the loop thread, since nothing in the code blocks them. Strong fairness for
the start of a drain and for the callbacks of closing handles: `uv_run` looks at
both on every turn, but they are disabled while poll hands out events. Peers and
callers owe nothing, and release need not be called. That poll is called again
after it returns an error is Skynet's socket thread. `DrainSpec` adds that libuv
completes pending requests, as it does while the peer reads. `ClientRuntime`: the
caller goes on when it can, and the loop runs commands, expired timers and callbacks
of closing handles; the network owes nothing, so a connect without a timeout may
wait for ever. `StdinReader`: once the input has ended the thread goes on, and so does a
caller that joins it; the input may stay silent for ever. `Node`: some thread of a
serving node goes on and a process that gives its PID file up goes on doing so, where
retired services ending is Skynet's; nobody has to start a node or send a signal.

### Refinements

* `ImplementsLife` (run `table`): an entry maps to `free`, `reserved`, `live`,
  `draining` or `closing` by its state and `close_requested`. It excludes that a slot is
  reused before the close callback, that a socket comes back from `closing`, and that two
  sockets in turn have one generation.
* `RingIsLineQueue` (run `stdin`, and proved): the waiting lines are those from `head` to
  `tail`.
* `ImplementsLock` (run `node`, and proved): the owners of a name are the processes with
  `owns_pid` set.

## 4. Proofs

All theorems hold for every value of the constants that satisfies the named
assumptions (`SlotCountAssumption`, `GenerationAssumption`, `WarningSizeAssumption`,
`RuntimeAssumption`, `MaxSubmitsAssumption`, `PidAssumption`, `PathsAssumption`,
`NodeAssumption`, `ClientAssumption`, `StdinAssumption`): a table has at least one slot
and one generation, the constants have their types. `SLOT_COUNT` need not be a power of
two.

* `SocketTableProofs`: `NextGenerationInRange`, `IdRoundTrip`.
* `CommandChannelProofs`: `ChannelTypeCorrect`, `ChannelFifo`, `ExitAcceptedLast`,
  `WakeupNotLost`, `QueueEmptyAfterExit`. The inductive invariant `ChannelInv` joins
  all five with `ClosedAfterStop` (a closed async implies a stopped queue). They
  need each other: that the queue is empty after `EXIT` follows from the order of
  consumption and from `EXIT` being last, and a push keeps it so only because a
  closed async implies a queue that refuses.
* `SocketRuntimeProofs`: `RuntimeTypeCorrect` (`TypeInv`), `TableIntegrity`
  (`SlotIntegrity`), `ClosingMeansClosed` (`ClosingIsClosed`), `OneSocketPerDescriptor`
  (`DescriptorHeldOnce`), `OneEndPerSocket` (`EndReportedOnce`), `ClosedForGood`
  (`NeverReopened`), `SentToAddressee` (`WrittenToAddressee`), `WritesGoOn`
  (`WritesMoveOn`), `AcceptsAreAnnounced` (`AcceptedIsAnnounced`). The inductive invariant
  `RuntimeInv` says that every variable is well typed, that every entry is `Sound`,
  that an occupied slot's id is made of the slot and its generation, that no
  descriptor has two holders, and that a thread inside a call has an id other than 0.
  `Sound` couples the type, `CLOSING` if and only if `uv_close` was called, what the
  owner has been told, and an `INVALID` entry being exactly the empty one. The last
  conjunct is needed because a step of a thread compares its id with the id in a slot,
  and an empty slot has id 0. `SentToAddressee` adds `AddressInv`: the buffers of
  queued commands, too, are addressed to the command's id. With it a command that
  finds its entry delivers to the addressee, and every other step at most drops
  buffers from an entry (`HeldStep`). The last two add `PumpInv` and `AcceptInv`: a
  socket that has queued writes and none in flight is on the pump list, which is empty
  outside `consume_commands`, and an accepted socket that was not started has been
  announced. Only a send makes a socket wait and only `accept_connection` accepts one;
  all other steps are `Orderly` for every slot.
* `PidFileProofs`: `SingleOwner` (`OneOwner`), `PidFileNamesServer`
  (`PublishedNamesOwner`), `PidFileIsLock` (`ImplementsLock`), `NoPidLeft`
  (`NothingLeftBehind`). `PidInv` says that at most one process, or its parent, holds
  the guard of a name, what a process holds at each step, and that two names never
  lead to one inode. The guard carries the argument: between taking and dropping it a
  process is alone, so the name cannot lead elsewhere behind its back between
  comparing and unlinking. `NoPidLeft` adds `LeftInv` on what files hold while nobody
  was killed.
* `NodeProofs`: `NodesLock`, `NodesNamed`, `NodesLeaveNothing`: every step of a node is a
  step of `PidFile` or leaves its state alone, so `Node` refines `PidFile`. Of nodes
  alone: `NodesPrepared`, `OneNodePerConfiguration` (`OneInstance`), `DirectoriesMade`
  (`DirectoriesShared`), `HangupsAreKept` (`HangupNotLost`). `BootInv` says that a process
  that starts or serves uses the PID file which `config_load` finds for its configuration,
  that the root of a relative PID file exists or is still on the stack `todo`, and that
  only a directory which nobody can make lets a start fail. Two nodes with one
  configuration therefore use one PID file, and `PidInv` lets one at a time hold its
  guard. `HangupInv` says that the SIGHUPs not acted upon are the reopenings among the
  loop's events and in the logger's queue, which never holds more than were asked for;
  each handler of `ProcessControl` keeps that.
* `StdinReaderProofs`: `StdinCorrect`, `RingImplementsQueue` (`RingIsLineQueue`),
  `InputIsCut` (`CutAsReference`), `EofComesLast` (`EofIsFinal`), `ThreadJoinedOnce`
  (`JoinedOnce`). `StdinInv` couples how far the thread is with the flags it has set
  (`ThreadInv`), says that `joined` is set for one caller (`JoinInv`), that what has been
  collected is what the reference cuts from the bytes before `start` (`CutInv`), and
  that a collected line was delivered or waits in the ring unless a failure or overflow
  is recorded (`QueueInv`). The reference is not a second automaton: a line starts at the
  first byte, behind a line feed, or a whole number of full lines behind such a place
  (`LineStart`), so the proof needs arithmetic on remainders, as the ring's indices do.
* `ClientRuntimeProofs`: `ClientCorrect`, `HandlesCounted` (`HandlesExact`),
  `RequestsOutliveUse` (`RequestOutlivesUse`), `TimeoutsReported` (`TimeoutReported`),
  `BytesStayInOrder` (`BytesInOrder`), `RoomIsRead` (`ReadsWhileRoom`),
  `SelectNeverOversleeps` (`SleepsOnlyIfNothingReady`). `Local` is what holds of a
  connection by itself; every function that changes one keeps it. `ClientInv` adds how
  connections, the caller and its request fit together. It is inductive because calls are
  serial: a pending command has a caller that waits for it, while it is pending nothing
  in the loop points to a request, so it meets only connections that are open or gone.
  For select, `Asked` says that the sockets already asked about in this round are not
  ready unless the round has been notified since.

The argument for the runtime has two layers. `SocketEntryProofs` shows for each handler
and callback that a sound entry becomes a sound entry with the same id, or the empty
one, that the pushed events are typed, which buffers it may hold afterwards, and that it
leaves no write waiting that was not. `SocketTableProofs` lifts this to the table once
(`ApplyStep`, `HandleStep`, `CallbackStep`) and then goes through the actions.

### Only proved

`ChannelTypeInv`, `TypeInv` and `ExitIsLast` are parts of the inductive invariants and
`NeverReopened` is implied by `ImplementsLife` wherever a run checks that; no run
repeats them.

### Only model-checked

* `ImplementsLife`, `EntryCountExact` and `ExitAfterLastClose`: each needs an invariant
  beyond `RuntimeInv` that couples the handle of an entry with its state and with the
  commands still queued for it.
* `QueuedBytesExact` and `BacklogReported`: sums over the lists of writes, which need
  induction over a sequence.
* `BufferReleasedOnce` and `CallerBufferFreedOnce` count the places where a buffer is;
  the lists of writes would have to be followed element by element.
* `DialledHasTarget`: it does not hold for every number of calls. A dial names its socket
  by id, and an id comes back once all generations are used.
* Liveness (`AcceptedIsConsumed`, `ExitCompletes`, `DrainCompletes`,
  `TimedConnectReturns`, `DestroyReturns`, `JoinReturns`, `TerminationCompletes`),
  which is out of the prover's reach.

## 5. Not modelled

* Snapshots, names, `socket_info_compat.c`, `socket_server_udp_address`: they copy or
  convert and change nothing.
* `thread.c`, `atomic.c`, the pthread shims: wrappers around libuv and single machine
  instructions; the models use them as critical sections and steps. The spinlock is
  used by Skynet only.
* `memory.c`: sequential pointer arithmetic around an allocator.
* The loop over the launcher's arguments and its start without `--runtime-paths`, the
  Lua loader of the configuration: strings.
* The Lua function that reopens the log, time, dynamic libraries: wrappers without
  state.
* Warnings of a growing backlog after the first: `BacklogReported` is about `warn_size`,
  by which the code remembers that it has warned, and not about the `WARNING` events
  themselves (an event can be lost when memory runs out) nor about the later doublings.
* Two hazards are in the models and no property speaks of them, because no document
  says what should happen: a listener that stalls when `accept_connection` returns
  early, and the socket `udp_dial` leaves open when it fails.
