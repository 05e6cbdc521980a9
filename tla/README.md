# A TLA+ development of deon

deon is a small multithreaded HTTP server in C++11: one acceptor loop, a pool
of I/O loops (one per thread, epoll in edge-triggered mode), a connection object
per client, a timer heap per loop and an asynchronous, double-buffered log. This
directory holds specifications of its parts, the TLC configurations that check
them and TLAPS proofs about them. Paths below are relative to `src/deon/`.

## 1. The system

| Component | State it keeps | Operations | Talks to |
|---|---|---|---|
| `EventLoop` (`net/EventLoop.*`) | `quit_`, `pendingFunctors_` under `mutex_`, `callingPendingFunctors_`, the eventfd and its channel | `loop`, `quit`, `runInLoop`, `queueInLoop`, `wakeup`, `handleRead`, `handleRegister`, `doPendingFunctors` | every other thread (functors, eventfd), the poller, channels (callbacks) |
| `EventLoopThread`, `EventLoopThreadPool` (`net/`) | `loop_` under a mutex and a condition; the loops and the round-robin index | `startLoop`, `threadFunc`, destructor; `start`, `getNextLoop` | `EventLoop`, `Thread` |
| `EpollPoller`, `Channel` (`net/`) | `channels_`, `https_`, the epoll interest list, event masks | `poll`, `addChannel`, `updateChannel`, `deleteChannel`, `handleEvents` | the kernel, `TimerManager`, callbacks of `Http`, `Server`, `EventLoop` |
| `TimerManager`, `TimerNode` (`net/Timer.*`) | the heap of nodes, each with an expiry and a reference to its connection | `addTimer`, `resetHttp`, `isValid`, `handleExpiredEvent`, `~TimerNode` | `Http::handleClose` |
| `Http` (`net/Http.*`) | input and output buffers, parser states, `err_`, `isConnecting_`, `keepAlive_`, the event mask | `registerHttp`, `handleRead`, `handleWrite`, `handleError`, `handleRegister`, `handleClose`, the parsers | socket, `EventLoop`, `TimerNode` |
| `Server` (`net/Server.*`) | the listening descriptor and its channel | `start`, `newConnection`, `registerConnection` | the pool, `Http` |
| `AsyncLogging` with `LogFile`, `FileUtil` (`base/`) | two front buffers and a queue under `mutex_`, two spare buffers and a batch in the logging thread, stdio's buffer | `append`, `threadFunc`, `start`, `stop` | every thread that logs, the file |
| `Logger`, `LogStream` (`base/`) | one small buffer per statement; the global log behind `pthread_once` | `<<`, `output`, `once_init` | `AsyncLogging` |
| `MutexLock`, `Condition`, `CountDownLatch`, `Thread` (`base/`) | `holder_`, the latch's count, `started_`, `joined_` | `lock`, `unlock`, `wait`, `notify`, `countDown`, `start`, `join` | pthreads |

How the parts meet. `main` starts the log, builds the acceptor's `EventLoop` and a
`Server`, and enters the acceptor loop. `Server::start` starts one
`EventLoopThread` after the other; each constructs its `EventLoop` on the new
thread's stack, publishes the pointer and enters `loop()`. For each accepted
descriptor the acceptor picks a loop round robin and hands it a functor
(`runInLoop`), so that from then on one thread alone touches the `Http` object. An
event of the descriptor runs `Channel::handleEvents`: the read or write callback,
then the register callback, which re-arms the channel and gives the connection a
new timer node, or closes it. Every thread logs: `Logger` formats a line and
`AsyncLogging::append` takes it.

What is hard here:

- the hand-over of functors and of `quit()` to a thread that may be asleep, with an
  edge-triggered wakeup descriptor that the loop registers again after every event;
- buffers that move between threads by pointer, are written outside the mutex, and
  are recycled;
- one connection's control flow over a socket that gives a request in pieces, takes
  a response in pieces and ends at any time;
- ownership between node, connection, channel and registry, where destructors close
  descriptors, on a clock that wraps around;
- a scanner that is called again for every piece of its input;
- descriptor numbers that the kernel gives out again while the old connection is
  still being taken out of a registry, on loops that run in parallel;
- threads that make each other, any of which may be the first to log;
- records put together in a buffer of fixed size, number by number.

PROJECT.json lists these at their lines, under "hazards".

## 2. The modules

| Module | Models | Kind |
|---|---|---|
| `EventLoop` | one `EventLoopThread` with its `EventLoop`, the eventfd, and the threads that call it | state machine |
| `FunctorQueue` | what the loop promises its callers | abstract specification |
| `AsyncLogging` | the log: `append`, `start`, `stop`, `threadFunc`, `LogFile::append` | state machine |
| `LossyLog` | what the log promises its callers | abstract specification |
| `HttpConn` | one connection: `Http`, its channel, the socket, the peer | state machine |
| `ConnTimers` | the timers, the registry and the life of connections of one loop | state machine |
| `HeaderParser` | `Http::parseRequestHeader`, one iteration a step | state machine |
| `RequestParser` | `Http::parseRequestLine`, and the header scanner behind it | state machine, extends `HeaderParser` |
| `Server` | acceptor, round robin, hand-over, and the registry and epoll set of every loop | state machine, composes the loops over `FunctorQueue`'s promise |
| `ConnLife` | what the server promises of a connection | abstract specification |
| `Startup` | how the threads come up: pool, log, latches, `pthread_once`, `MutexLock` with `holder_` | state machine |
| `LogStream` | one log record in its buffer of fixed size, with `convert()` | state machine over pure functions |
| `...Proofs` | the theorems about the module they are named after; `RequestParserProofs` has those of `HeaderParser` too, `ServerProofs` the refinement of `ConnLife` | proofs |
| `MC...` | the instances TLC checks | |

Definitions commented "Mutant" are not part of any specification. Each is a
plausible mistake in the definition it precedes; PROJECT.json names the property
that notices it, so that no property is kept that the code could not break.

**EventLoop.** `lpc` is the place of the I/O thread in `threadFunc` and `loop()`;
`pc[t]` the place of another thread in `queueInLoop`, `quit` and the destructor.
`pendingFunctors_` is `pending`, the vector swapped out of it `functors`. A critical
section is one action, what follows it outside the mutex another: `QueueInLoop`
pushes, `Wakeup` writes the eventfd. `runInLoop` has two forms, `RunInLoopHere` on
the loop's thread and `QueueInLoop` from another. The eventfd is a counter
(`efd`), its place on the epoll ready list a flag (`ready`), set by every write while
it is registered and by a registration that finds it readable, and cleared by
`epoll_wait`. `AddWakeupChannel` is modelled as it is: the register callback *adds*
the wakeup descriptor a second time, `EPOLL_CTL_ADD` fails with EEXIST, and
`EpollPoller::update` erases the channel it just stored. After the first wakeup the
loop no longer finds the wakeup channel, never reads the eventfd again, and goes on
waking up only because an eventfd raises an edge on every write. `NoLostWakeup` and
`RunsFunctors` are checked of that program, and their safety is proved.

**AsyncLogging.** Buffers have identities; `content` maps a buffer to its lines, so
that a buffer shared by mistake shows its writes everywhere. `Buf` is the heap and
`NewBuffer` takes a free one. `SwapBuffers` is the critical section of `threadFunc`,
`Trim`, `WriteBuffer` and `Recycle` what it does outside. `stop()` is two actions,
because it takes no mutex. Lines are numbers and fill equal shares of a buffer; a
line that never fits does not occur, as `Logger` lines are shorter than a buffer.
stdio is a sequence of lines of which a prefix is in the file. For `LossyLog` that prefix
is `file`; `pending` are the lines of the rest of `stdio` and of the buffers that are
`Live`: the unwritten part of the batch, the queue and the current buffer.

**HttpConn.** A request is two to four parts (halves of the request line, the header
block, a body), each of which may arrive alone. A response is two units, so that a
short write can cut it. `pc` is the place of the loop's thread in `handleRead`,
`handleWrite`, `handleRegister`; peer actions interleave between any two system
calls. The nested call of `handleRead` at Http.cpp:184 is `Restart` going back to
"read": nothing but the register callback follows it, so no stack is kept.
`outEvent` is EPOLLOUT in the event mask, which is never taken back. `err` is set where
the code sets it: before `handleError` is called (`Fail`), and after it only for a
missing file, whose error response `analysisRequest` writes. `HandleError` is
`writen(void*)`: it writes everything, or its thread is "stuck" in the loop that tries a
failed write again. `WindowOpens`, the peer making room, ends that after an `EAGAIN`,
with the stray bytes that were counted as -1 sent first; nothing ends it on a reset
connection.

**ConnTimers.** A connection is the number of its `Http` object, so that one that
reuses a descriptor is told from its predecessor. A node keeps the number in `http`,
0 after `resetHttp`. `HandleRegister` is the whole of an event that keeps the
connection: the old node is separated, and a new one pushed. `conn` is `https_` and
what the connection keeps, `channels` is `channels_`: `Update` lets `EPOLL_CTL_ADD` and
`EPOLL_CTL_MOD` fail, which erases the channel after the node was pushed, and an event
is only `Reported` to a channel that is there. `PopExpired` is one round of
`handleExpiredEvent` with the node's destructor, which closes the connection the node
still has; `PopAborts` is the same where the assertions of `deleteChannel` (`Deletable`)
fail, which ends the process. `failed` is a history variable. The constant `Sweeps`
says whether anything calls `handleExpired`. Nothing in the program does; with TRUE the
code that is there is checked as its interface intends it, with FALSE the program is as
it is.

**HeaderParser.** `i`, the positions and `hState` are the code's locals and
`hState_`, counted from 0. `Call` is `handleRead` calling again with more input: it sets
the locals back and leaves `hState` alone. One action per state of the `switch`.

**RequestParser.** `ReceiveLine` is `handleRead` in `STATE_PARSE_REQUESTLINE`: it waits
for a line end, cuts the line off the buffer, parses it and goes on with the headers
on what is left, which is where `HeaderParser`'s own actions take over. A method, "HTTP"
and a version are one character each, so that `find("GET")` is a search for one of
them; the order of the searches, the positions they start from and what is cut out
are the code's.

**Server.** Loop 0 is the main loop with the acceptor, the others are the pool's.
`file` is the process's descriptor table: accept() takes the lowest free number, and
`CloseFd` (the destructor of `Http`) gives it back. `channels` and `https` are the maps
of each loop's poller, `reg` and `ready` its epoll set and ready list: an edge is
raised by what arrives (`Send`), and by `EPOLL_CTL_ADD` and `MOD` if something is there;
`EPOLLONESHOT`, which only the first registration has, disarms. An `Http` is referred to
by a map, a timer node or a functor (`Referred`), and by `held`, the `httpData` of
`newConnection`, from the hand-over to `ReleaseHttp`; whichever of loop and acceptor gives
up the last reference closes the descriptor. `HandleClose` and `CtlDel` are the two
halves of `deleteChannel`: the entries are reset, which destroys the `Http` unless it is
`held`, before `EPOLL_CTL_DEL` uses its number; another loop's thread may run in between.
`CtlDel` takes whatever that number is by then out of this loop's epoll set. `queue` is
the loop's queue of functors as `FunctorQueue` promises it; `EventLoop` is the model that keeps the promise. What an
event does with a connection is `HttpConn`'s matter. Here an event for reading takes what
there is, and then goes on or closes, or leaves the connection with EPOLLOUT only
(`outOnly`, after a short write) or its thread in an error response for ever (`pc` is
"stuck"); an event for writing reads nothing. `Faults` says what may go wrong: `fcntl`
(newConnection returns, with the descriptor open); `epoll_ctl` as ADD or MOD (only the
entry of `channels_` is erased, and the events of a registration that is left are
`Dropped`), for the acceptor's own channel too (`deaf`); short, a response is cut short;
stuck, a peer never takes an error response. `lost` is a history variable: the
connections that a failed call leaves open for ever.

**ConnLife.** A connection goes from "new" over "backlog" and "accepted" to "open" and
"closed", in the order of arrival, and has a descriptor of its own from its acceptance
to its close. "lost" is where a failing call puts it, and a loop that hangs those that
wait in its queue (`Lose`). It does not stay "accepted" (`Settles`).

**Startup.** All waiting in the start-up is on a *gate*: a mutex, a condition variable
and a flag that is set once under the mutex. Gates are the latch of each `Thread`,
`loop_` of each `EventLoopThread`, and the latch of `AsyncLogging`. `call[t]` is where
thread t is in a call on a gate, step by step through `MutexLock::lock`
(`pthread_mutex_lock`, then `assignHolder`), `Condition::wait`, `notify` and
`MutexLock::unlock` (`holder_ = 0`, then `pthread_mutex_unlock`). `step[t]` is where it is
in its own function, `log[t]` where in a `LOG`, which each thread does at most once of
itself at any moment, and `once` is `pthread_once`. A `pthread_create` that fails logs,
too.

**LogStream.** The buffer is the sequence of its characters, `touched` the furthest byte
that was written, which is one further than the buffer after a number, whose NUL
`FixedBuffer::add` does not count. `Convert` is `convert()` on integers of `Bits` bits with
C's division and remainder, which round towards zero; the digits are looked up at
negative places for negative numbers, as in the code. The reference it is checked
against in `WholeItems` is decimal notation.

## 3. What the runs check

| Run | Instance | Result |
|---|---|---|
| `EventLoop` | 3 functors, 2 callers, one of them destroys the thread | `TypeOK`, `NoLostWakeup`, `RunsFunctors` (refinement of `FunctorQueue!Spec` with its fairness), `QuitObeyed` |
| `EventLoopQuit` | the same | violates `QuitEndsLoop` |
| `AsyncLogging` | 9 lines, 2 to a buffer, trim above 2 buffers, flush every 3 appends | `TypeOK`, `SingleOwner`, `AssertsHold`, `WaitsWhenEmpty`, `LinesInOrder`, `ImplementsLog` (refinement of `LossyLog!Spec`), `StopReturns` |
| `HttpConn` | 3 requests of any kind but "hello"; pipelining, half-close, short writes, resets | `TypeOK`, `InOrder`, `ErrorIsLast`, `AnsweredAtClose`; `Answers`, `Closes`, `LoopGoesOn` |
| `HttpPartial` | 2 requests, short writes | violates `LongConnection` |
| `ConnTimers` | 2 descriptors, timeouts 1 and 2, period 3, 4 ticks, 3 nodes, sweeping, failing epoll_ctl() | `TypeOK`, `RegistryAgrees`, `NoEarlyClose`, `ExpiredLeave` |
| `TimersNever` | no sweeping, as the program is | violates `IdleClosed` |
| `RequestParser` | 175 request lines with one header block, and one line with all blocks of 1 or 2 headers from 3 keys and 3 values, followed by nothing or by more text; whole, or cut in the line or the first key | `TypeOK`, `RangesValid`, `RequestAsSent`, `RequestAccepted` |
| `HeaderSplit` | the header blocks, cut anywhere | violates `HeadersAsSent` |
| `Server` | no pool, a pool of one and of two, 2 descriptors, 3 connections, every fault without a pool, without failing epoll_ctl() with one, without short writes with two | `TypeOK`, `OwnDescriptor`, `CallbacksSafe`, `DelIsHarmless`, `PeersServed`, `ImplementsLife` (refinement of `ConnLife!Spec` with its fairness) |
| `Startup` | a pool of two, the log's thread, spurious wakeups, a pthread_create that may fail | `TypeOK`, `AssertsHold`, `UsedWhenMade`, `HolderTrue`, `ComesUp` |
| `LogStream` | 18 bytes, numbers below 6 characters, all 8-bit integers, texts of 0 to 5 characters, 3 items and the closing | `InBounds`, `WholeItems`, `RecordEnds` |

Bounds, and why they are enough:

- `EventLoop`: with three functors one can run, one wait in the swapped batch and one
  be queued behind it; two callers can stand between push and wakeup at once, and
  one of them between `quit_` and wakeup. The state space needs no further bound.
- `AsyncLogging`: 9 lines fill four buffers and start a fifth, so that a batch is
  over the limit while `nextBuffer_` is used up and both spares are given away;
  `MaxBuffers` is 25 in the code and 2 here, the least the trim allows, and the
  proofs need only that it is at least 2. `Buf` has 9 buffers: with
  9 lines at least one of them is free in every state, so that `new` never comes up
  empty.
- `HttpConn`: the second request meets everything the first one left in the buffers,
  the parser and the event mask; the third meets a parser that was set back twice.
- `ConnTimers`: 4 ticks take the clock past its period from every start value, and 3
  nodes let a connection renew its node, close, and be followed on its descriptor
  by another.
- `RequestParser`: the second header meets the positions of the first; keys and
  values of one and two characters, and a value with the separators in it, tell a
  key from a prefix and a colon from a separator. The lines have every method and
  version, and paths that are empty, that hold the name of a method, a slash or a
  version, with and without a query.
- `Server`: with two descriptors for three connections a number is used again while
  another is open; with two loops the old and the new user of the number may be on
  different ones; without a pool the acceptor shares its loop with the connections. All
  four faults with two loops are too many states for one run. A short write and a
  failing `epoll_ctl` concern one connection and its own loop, so that they are checked
  together on the main loop and apart on the pool's; safety is proved for all of them
  and any number of loops (section 7).
- `Startup`: two threads of the pool wait on gates of their own and on the log's at
  once, and any of the four threads may be the first to log.
- `LogStream`: 18 bytes are full at every place an item can begin, and 8 bits hold a
  least value whose magnitude they do not have.

`CHECK_DEADLOCK FALSE` is in every configuration because each system ends or comes to
rest: a loop that was left, a log that was stopped, a closed connection, a clock at its
bound, a parsed request, a server whose peers are silent, threads that were started (or
that wait for one that failed to), a record that was output.

## 4. Fairness

- `EventLoop`: the I/O thread is scheduled (`WF(LoopStep)`), `epoll_wait` returns once
  the wakeup descriptor is ready (`WF(PollWakeup)`), and a thread that has pushed or set
  `quit_` is scheduled to its `write` (`WF(Wakeup(t))`). Nothing is assumed of I/O
  events or of the 10 s timeout of `epoll_wait` (`PollOther`): `RunsFunctors` and
  `QuitObeyed` say that the wakeup alone does it. Callbacks and functors return
  (`Return` is a `LoopStep`). Nobody has to hand over a functor or destroy the loop.
- `AsyncLogging`: the logging thread is scheduled, its wait is timed (`WF(Timeout)`,
  `waitForSeconds`), and the thread that began to start or stop it goes on. Nobody
  has to log or to stop.
- `HttpConn`: `WF(ServerStep)`, the loop's thread is scheduled and epoll reports what
  is ready. For what is in the output buffer this includes that a peer whose window
  closed opens it again and EPOLLOUT comes. It does not for an error response:
  `WindowOpens` has no fairness, as the thread spins while a silent peer keeps its
  window closed, for ever if the peer does. The peer has none either: it may fall
  silent in the middle of a request.
- `ConnTimers`: time passes, and a loop with a call of `handleExpired` calls it again and
  again.
- `Server`: `WF(LoopStep(l))` for each loop, its thread is scheduled. That a functor in
  its queue ends `epoll_wait` is `FunctorQueue`'s promise, which `EventLoop` is checked
  to keep. Peers have no fairness, and neither has `Writable`: EPOLLOUT may never come. A
  loop chooses freely between going on with a connection and closing it, and a fault may
  happen or not. A thread that is stuck takes no step, and no fairness asks for one.
- `Startup`: `SF(ThreadStep(t))` for each thread, strong fairness because taking a mutex
  may be disabled again and again while others take it: a waiting thread is not
  overtaken for ever. Threads that wake without cause make this necessary, as each
  such wakeup takes the mutex for a moment. Nobody has to log.
- `RequestParser`, `HeaderParser` and `LogStream` have safety properties only. "The request
  is accepted" is `RequestAccepted`, an invariant: the parser never waits when
  everything has arrived.

## 5. Findings

Four runs are expected to fail. Each states what the repository says of the program,
and TLC finds the behaviour of the code that breaks it.

1. `EventLoopQuit`: `loop()` starts with `quit_ = false` (EventLoop.cpp:59), after
   `threadFunc` published the pointer. A destructor in between sets `quit_` to no
   effect and joins for ever.
2. `HttpPartial`: `handleRegister` keeps `EPOLLOUT` once it was set (Http.cpp:244).
   After one short write the connection never waits for input again. (It also makes
   the loop spin: each `EPOLL_CTL_MOD` reports the writable socket at once.)
3. `TimersNever`: nothing calls `handleExpired`, so no timer fires.
4. `HeaderSplit`: between calls the parser keeps its state but not its positions
   (Http.cpp:471). A block cut behind its first colon stores other headers.

## 6. What the properties leave out on purpose

The code does the following, no document says that it does otherwise, and the
properties are worded around it. Each is a hazard in PROJECT.json where a test could
be surprised by it.

- `HttpConn.Answers` and `Closes` hold up to the first response that was cut short
  (finding 2), and `Answers` is about peers that wait for their answers: after an answer
  `handleRead` reads before it parses (Http.cpp:181), so a second request that is already
  in the input buffer waits until the peer sends something more.
- Data that comes in one read with the end of the stream is dropped (Http.cpp:71):
  `AnsweredAtClose` speaks of the requests that were analysed.
- The `void*` form of `writen` knows no error but `EINTR` (Util.cpp:157), so that an
  error response keeps the thread of the loop as long as it cannot be written: for ever
  to a reset connection, and to a peer that never opens its window again. `err_` is set
  before (Http.cpp:67, 93, 115, 140), but nothing closes the connection meanwhile.
  `HttpConn!Stuck` names this state, and `LoopGoesOn`, `Answers` and both halves of
  `Closes` except a thread that stays there. So do the properties about the other
  connections of that loop: `PeersServed` asks nothing of a loop that is `Server!Stuck`
  nor, if it is the main loop, of the backlog; and in `ImplementsLife` the connections
  in its queue are lost.
- `PeersServed` excepts, too, a connection that was left with EPOLLOUT only after a short
  write (`outOnly`, finding 2): what its peer sends is neither read nor is it closed. And
  when `epoll_ctl` failed for the acceptor's own channel (`deaf`), no event of the backlog
  is reported any more.
- `ErrorIsLast`: an error response is written past the output buffer. It comes after
  the answers before it and not amid one, unless a write was cut short.
- "hello", the answer that assigns `outputBuffer_` instead of appending (Http.cpp:499),
  is left out of the run and of the theorems: with pipelining and a short write it drops
  output, and `InOrder` fails.
- `RequestAsSent` and `RequestAccepted` speak of plain paths. A path that holds the name
  of a method changes the method, and a path with a slash moves the place where the
  version is looked for (Http.cpp:295, Http.cpp:351).
- `RequestAccepted` has at least one header in each block. A request without any is never
  completed: the empty line is skipped by `H_START` (Http.cpp:386).
- `ExpiredLeave` allows an expired node to become valid again when the clock goes
  back to 0; such a node is closed late, which nothing forbids. A node whose expiry is
  not below the period is never invalid at all, and what lies behind it in the heap
  waits with it (Timer.cpp:22): `ExpiredLeave` says nothing of such nodes, nor of how many
  nodes pile up until their time.
- A connection whose `epoll_ctl` failed keeps its node (EpollPoller.cpp:90): a sweep of that
  node would fail the assertion at EpollPoller.cpp:73. `RegistryAgrees` excepts it
  (`failed`), and `ExpiredLeave` a process that was aborted so. As nothing calls
  `handleExpired` (finding 3), the program does not get there.
- `NoEarlyClose` takes the clock as one that only goes back at its period;
  `gettimeofday` set back by hand only makes closing later, set forward makes it
  early, and neither is modelled.
- `ComesUp` is about runs in which `pthread_create` works. When it fails, `Thread::start`
  logs; inside `once_init` that is `pthread_once` again on the same control, which never
  returns, and otherwise `startLoop` waits for a `loop_` that nobody will set.
- A connection whose `fcntl`, `EPOLL_CTL_ADD` or `EPOLL_CTL_MOD` failed stays open and
  unserved for ever: `lost` in `OwnDescriptor`, `PeersServed` and `ConnLife`. What is left of
  its registration is `Dropped` in `CallbacksSafe`.

## 7. What is proved

Every theorem is about the specification without fairness and holds for every value
of the constants that the named assumptions of the module allow. TLC checked each
invariant first on the instances above.

**EventLoop** (any functors, any callers; `Owner` is one of them).
`NoLostWakeup` speaks of the moment before `epoll_wait` only and is not inductive.
`IInv` adds `WakeupKept`: from the end of the swap up to the next `epoll_wait` a queued
functor has its event on the ready list, or its caller between push and `wakeup()`.
Between `epoll_wait` and the swap this need not be so, and the swap then takes what
is there. It needs that the descriptor stays registered (`WakeupRegistered`), which
the failing second `EPOLL_CTL_ADD` does not change, and that no functor comes before
publication (`NotPublished`). `BatchEmpty` makes the refinement go through:
`ImplementsQueue` proves that each step is a step of `FunctorQueue` or a stutter,
with the queue read as the swapped batch followed by `pendingFunctors_`.
Theorems: `TypeCorrect`, `WakeupNotLost`, `ImplementsQueue`.

**AsyncLogging** (any number and size of buffers, any trim limit from 2, any number of
lines). `IInv` follows the spare buffers through a round: `SparesAtHand` while the
thread holds both, `BatchCoversSpares` while it writes. The step from one to the
other is `NextOrQueued`: `append` uses up `nextBuffer_` only when it queues a buffer, so
that a round which gives away both spares swaps out at least two. `FreeBuffersEmpty`
says that `new` returns empty buffers. `Chained` is the order of the lines: within each
buffer, from what went to stdio through the unwritten part of the batch and the queue
to the current buffer, behind which only empty buffers follow. It rests on `IInv`,
because a line put in a buffer is in order only if that buffer has one owner.
`LInv` adds what the refinement needs: every buffer of the queue is full (`QueueFull`),
and so is every buffer of a batch before its trim but the last, which may be an
unfilled `currentBuffer_`; outside of writing, `stdio` holds nothing back (`AllFlushed`).
`KeepsPromise` proves with it that each step is a step of `LossyLog` or a stutter. `Flush`,
or a `WriteBuffer` whose append flushes, is `Write`: the lines that become synced are the
oldest ones pending, by `Chained`. A trim that loses lines is `Drop`: from the third buffer
on they are one run of adjacent lines (`LongTrim`); more than `MaxBuffers` buffers, all full
but the last, hold at least `MaxBuffers * Capacity` lines, and the two kept ones
`2 * Capacity` that are older. `pending` is a set of lines, so that this needs no induction
over the concatenated buffers: `InOrder` says in which order a set of lines is written.
Theorems: `TypeCorrect`, `BuffersHaveOneOwner`, `AssertionsHold`, `NotifyNotMissed`,
`LinesKeepOrder`, `KeepsPromise`.

**HttpConn** (any number of requests). `ConnInv` holds for requests of every kind:
`Stream` says that what is unread, in the socket and in the input buffer, continues
exactly where the parser stopped; `Sent` and `Current` tie the request being parsed to
those sent, `Ending` says where the thread is after an error was written or the stream
ended. `AnswerInv`
is for sites without "hello" (section 6), which is the hypothesis of three theorems:
the units on the wire and in the output buffer are those of consecutive answers, and
there are twice as many as requests were answered (`Units`, `Flushed`), but for an
error, which comes late (`ErrorOf`, `ErrorLate`). Theorems: `TypeCorrect`,
`StreamUnbroken`, `AnswersInOrder`, `ErrorComesLast`, `NothingOwedAtClose`.

**ConnTimers** (any descriptors, timeouts and period, with and without sweeping).
`RegistryAgrees` is proved from its parts: the node of a registered descriptor is that of
its connection (`NodesAreCurrent`), the assertions of `deleteChannel` hold for it unless
`epoll_ctl` failed for that connection (`NodesDeletable`), and every open connection has
one (`OpenHaveTimer`). Added to them are that `channels_` and `https_` have the same
connections but for those (`MapsMatch`), that nodes have their own ids, and `ExpiryLate`: for
a node with a connection, clock and real time are such that the clock reaches the
expiry no earlier than real time reaches the end of the idle period. A wrap only
makes the clock smaller, which keeps it. Theorems: `TypeCorrect`, `HeapAndRegistry`,
and the action property `NotClosedEarly`.

**HeaderParser and RequestParser** (any text over the alphabet, well-formed or not, cut
in any way). `Positions` orders the positions by the state of the machine. That it
survives `Call`, which sets them back to 0 and keeps the state, is why the ranges stay
valid even where finding 4 makes them wrong. It is proved of the scanner by itself
(`TypeCorrect`, `SlicesInBounds`) and behind the request line, which leaves the scanner
a shorter text (`ReqTypeCorrect`, `ReqSlicesInBounds`).
`TakenAsSent` and `PlainAccepted` are about requests that are `WellFormed`, of any length and
with any number of headers. A message carries, as history, the fields its peer meant and the
place where each starts, and `WellFormed` says that its text is the line and these fields
at these places; `MCRequestParser` has TLC evaluate it for every request of the run. The
other hypothesis, `~SplitAnywhere`, is that of the run: the text is cut in its line or first
key only, as behind the first colon finding 4 bites. The invariant `Sent` says, for every
state of the machine, how many fields are read, that the positions point into the
next one where it has its key, its colon and its value, and that `headers` holds the last
value of each key among the fields read; while the line is not complete, that the buffer
is all that arrived. It speaks of every line, `Plain` or not, as the header block behind
an odd line is still read rightly.

**Server** (any number of loops, descriptors and connections, with and without faults).
`IInv` is `Placed` and `Held`. `Placed` says where a connection may be: not accepted, in a
loop's queue, in the maps and the timer, kept by the acceptor alone, or lost (`Fresh`,
`Described`, `Queued`, `Kept`); and that the maps of a loop and its epoll set agree up to
what a failed `epoll_ctl` leaves and to a connection whose loop has reset its entries
but not yet asked for `EPOLL_CTL_DEL` (`Registry`, `Registered`, `Closing`). `Held` says what
the threads have in hand: what the acceptor refers to is open until it lets go
(`Holding`), what a loop handles is `Watched` by it and not lost (`InHand`), and, in
`Deleting`, whatever else has the number of a connection that is being closed is not
registered on the epoll set of the loop that will delete it. The last is why the
deletion is harmless although another thread may have been given the number: what took
it is on another loop, or still in this loop's queue. If the acceptor keeps the
descriptor open, the deletion ends the connection's own registration, which is what it
is for; `DelIsHarmless` speaks of every other.
Theorems: `TypeCorrect`, `OwnsDescriptor`, `CallbacksMeetHttp`, `DeleteHarmless`, and
`LivesOneLife`, the safety part of the refinement of `ConnLife`. Its status is a function
of queues, descriptors and of which threads are stuck, so that a step maps to a step of
one connection, to `Lose` of several, or to a stutter.

**Startup** (any number of threads). `IInv` follows each waiting thread to its gate and
each gate to the one thread that opens it. `MutexOwned` and `HolderInside` say who is
between `lock` and `unlock`, the two steps of each included; `OpenTells` and `WaitOver` that
a gate which is open was opened by its thread, and that who comes out of a wait found
it so; `OnceWaits` who is inside `pthread_once`. Theorems: `TypeCorrect`, `StartAsserts`,
`MadeBeforeUse`, `HolderTells`.

**LogStream** (any size of buffer, width of integers and texts). `RecordOK` bounds the
buffer, and the bytes touched beyond it, by what each kind of item checks before it
writes. `Whole` says of a stream that the buffer between two `ends` is the text of the item, or
empty where the item did not fit, and that a later item changes nothing of it. `convert()` is a
recursive definition, for which the prover has no induction: that its texts fit is
`NumericAssumption`, which TLC evaluates for every integer of the instance, and that
they are decimal notation is the hypothesis `Decimals` of `ItemsWhole`, which the run's
`WholeItems` compares for every integer. Theorems: `StaysInBounds`, `NewlineEnds`,
`ItemsWhole`.

Only model-checked, not proved:

- liveness, and the fairness part of the refinements: out of the prover's reach, as
  is `ENABLED`. These are `RunsFunctors`, `QuitObeyed`, `StopReturns`, `Answers`, `Closes`,
  `LoopGoesOn`, `ExpiredLeave`, `PeersServed`, `ComesUp`, and of `ImplementsLog` and
  `ImplementsLife` what their safety theorems (`KeepsPromise`, `LivesOneLife`) leave;
- `Decimals` and `NumericAssumption`, what `convert()` computes: induction over data;
- the violations of section 5, each of which is a counterexample.

Every invariant that a passing run checks is the conclusion of a theorem.

## 8. What is not modelled

- The lifetime of the `EventLoop` object on the stack of its thread: only
  `EventLoopThread`'s destructor could outlive it, and the program runs no such
  destructor, as `main` never leaves its loop.
- The aborts of the constructors (socket, bind, listen, eventfd, epoll_create),
  option parsing with its `stoi`, and the end of the process: pure I/O before any
  concurrency, or after all of it.
- MIME types, the contents of files and an `mmap` that fails, the text of
  `Content-length`, HEAD as different from GET (its answer has no body): data that no
  property is about.
- A disk that fails under `FileUtil`: it gives up the rest of a line and reports to
  stderr; nothing depends on it.
- `rollFile`, `writenwc`, `s2ws`, `ws2s`, `assertLocked`, the destructor of `Thread` on a
  live object: no callers.

## 9. Plan

The first step was `EventLoop`, `AsyncLogging`, `HttpConn`, `ConnTimers` and `HeaderParser`.
The second composed the acceptor, the pool and the registries over them in `Server`,
modelled the threads' start with their locks in `Startup`, put the request line in front
of the header scanner, added the log record, and proved the safety of all of these and
of `HttpConn`. Runs that asked one question twice were made one, and properties that
only restated a guard were replaced. The third proved the invariants that had only been
model-checked, those of the parsers and of the log record, and the safety part of
`ImplementsLog`.

Left, in this order:

1. The lifetime of the `EventLoop` object behind a published pointer, for programs that
   destroy an `EventLoopThread`: late callers of `wakeup()` after the thread's stack is
   gone. `main`'s program has no such destructor.
2. Responses of different length in `HttpConn`: the answer to a HEAD is its headers only,
   a file may be empty, and a body may be cut at more than one place.
3. A `Content-length` that is no number, for which `stoi()` throws (Http.cpp:136), and a
   file that cannot be mapped, whose address is used all the same (Http.cpp:537): both
   end the process, and would be a fault of `Server` that takes all connections down.
