# TLA+ models of MOBAN

MOBAN is a C++17 code base around a reactor network library
(`plugins/Muduo`, a port of muduo), a library of common utilities
(`deps/common`), and examples (`example/`), of which `miniftpd`, an FTP server,
uses both. This directory models the code in which several threads, the kernel
and user callbacks meet, and in which a unit test reaches few of the orders in
which they can.

`PROJECT.json` lists, for machines, what this file explains: the components,
the runs, the mutations each property was tested against, the source lines
behind every definition, the hazards, and the theorems.

## 1. Inventory

| Part | Source | Status |
| --- | --- | --- |
| `EventLoop`: loop, functors, wakeups, quit | `net/EventLoop.*` | modelled, proved |
| `Channel`, `EPollPoller`: registration, dispatch | `net/Channel.*`, `net/EpollPoller.cpp`, `net/EPollPoller.h` | modelled, proved |
| `EventLoopThread`: a loop on its own thread | `net/EventLoopThread.*` | modelled, proved |
| `EventLoopThreadPool`: round robin over loops | `net/EventLoopThreadPool.*` | modelled, proved |
| `TimerQueue`, `Timer`, `TimerId` | `net/Timer*` | modelled but for the destructor, proved |
| `TcpConnection` | `net/TcpConnection.*` | modelled but for the high-water mark and the input buffer, proved |
| `Acceptor`, `TcpServer` | `net/Acceptor.*`, `net/TcpServer.*` | modelled, proved |
| `Connector`, `TcpClient` | `net/Connector.*`, `net/TcpClient.*` | modelled, proved |
| `Buffer` | `net/buffer.*` | modelled, proved |
| `ThreadPool`, `Thread` | `deps/common/base` | modelled, proved |
| `miniftpd`: sessions, transfers, PASV | `example/miniftpd` | modelled, proved in part; its disk pool modelled in part |
| `Socket`, `socketOps`, `InetAddress` | `net/` | system calls, external to the models |
| other parts of `deps/common`, `miniftpd_c`, vendored code | | left out, see section 5 |

How the parts interact. A thread runs one `EventLoop`. The loop waits in
`epoll_wait` and calls the handler of each ready `Channel`. Then it runs the
functors that were queued for it; other threads queue them with
`queueInLoop` and wake the loop through an eventfd. `TimerQueue` is a channel
on a timerfd. `TcpServer` lives on a base loop, accepts with its `Acceptor`, and
gives each connection to a loop of its `EventLoopThreadPool`. From then on the
`TcpConnection` belongs to that IO loop; other threads reach it by functors
only. It dies when the last shared pointer to it goes. `TcpClient` is the other
end: its `Connector` makes one attempt at a time and hands the socket over to a
`TcpConnection`. A session of `miniftpd` lives on the IO loop of its control
connection. It opens a `TcpServer` of its own for each PASV, and sends disk
work to a pool of threads, which answer with functors.

## 2. Modules

Paths are under `src/plugins/Muduo/muduo/net/` unless they say otherwise.

**`FunctorQueue`** is what a loop promises to its callers, and a `ThreadPool` to
its own: a FIFO queue, each element of which is taken once.

**`EventLoop`** (`EventLoop.cpp`) is the loop and the threads that call it.
The loop thread is cut where another thread can see or change something: the
test of `quit_`, the return of `epoll_wait`, each handler, the swap in
`doPendingFunctors`, each functor. A call from another thread is two steps, the
push (or the store to `quit_`) and the write to the eventfd. The eventfd's
counter is reduced to "readable". `ImplementsFunctorQueue` maps the functors
swapped out and not run, then `pendingFunctors_`, to the abstract queue.

**`EventLoopThread`** (`EventLoopThread.cpp`) extends `EventLoop` with
`threadFunc`, `startLoop`, the destructor and the condition variable between
them, with spurious wakes. Sections under the mutex are one step. A call on a
loop that is already destroyed is undefined behaviour: it has no effect or
ends the process.

**`Poller`** (`Channel.cpp`, `EpollPoller.cpp`, and `updateChannel` and
`removeChannel` of `EventLoop.cpp`) has the channels' `events_` and `index_`,
the poller's map, the kernel's set as `epoll_ctl` (external) leaves it, and the
batch of ready channels that `loop()` goes through. Handlers and functors
open and close descriptors and construct, enable, disable, remove and destroy
channels in any order that the code's asserts allow.

**`TimerQueue`** (`TimerQueue.cpp`, `Timer.cpp`) has `Timer` objects at
addresses that are reused after `delete`, both sets, the timerfd, and
`handleRead` cut at each callback, because callbacks add and cancel timers.
Time is counted in the 100 microseconds that `howMuchTimeFromNow` puts on every
delay at least.

**`TcpConnection`** (`TcpConnection.cpp`, `TcpServer.cpp`) is a connection, its
server, the two loops they live on (or the one), user code on the IO loop and
another thread that calls `send`, `shutdown` and `forceClose`. Messages are two
units long, so that a write can be partial. Ownership is explicit: `Alive` says
that a shared pointer is left, in the server's map, with the user or in a
functor; functors that capture a raw `this` keep nothing alive. The other
thread's `shutdown` and `forceClose` are three steps: they test the plain field
`state_`, store it, and queue the functor. Which of these things happen is
chosen by the environment, a record that is fixed in the initial state.

**`EventLoopThreadPool`** (`EventLoopThreadPool.cpp`) is `setThreadNum`,
`start` and `getNextLoop`.

**`TcpServer`** (`TcpServer.cpp`, `Acceptor.cpp`) composes the `Acceptor`, the
pool (whose variables it extends) and several connections. `handleRead` is cut
at its system calls (`accept`; on EMFILE close the spare descriptor, accept,
close, reopen), because other threads open files in between. Functors travel
between the base loop and the IO loops, with shared pointers and with raw ones.
EMFILE is modelled by counting descriptors against a limit.

**`Connector`, `TcpClient`** (`Connector.cpp`, `TcpClient.cpp`) are methods as
operators on a state record; `TcpClient` holds the record and the loop. A loop
iteration handles some events, then the functors queued so far. The results of
`connect` and of `SO_ERROR` are chosen from the groups that the code's `switch`
tells apart. The user calls `connect`, `disconnect` and `stop` and destroys the
client in any order, from callbacks of the loop or from another thread.
`connect_` is a plain bool in both classes, so with another thread what is done
after a test of it is a step of its own: `start` tests, stores and queues in
three steps (`ThreadStep`), `stop` stores and queues in two, and the loop's
thread makes the connection (`NewConnection`, after the test in `handleWrite`)
or restarts (`Restart`, after the test in `removeConnection`) in a step after
the one that tested. `~TcpClient` on another thread is one step up to
`Connector::stop`'s store; its comment says itself that this is not safe. The
field `stopped` is history: which of `connect` and `stop` was called last. A
failed assertion, an uncaught exception or a call on a destroyed object ends
the program, and `halt` says which.

**`ByteQueue`, `Buffer`** (`buffer.cpp`, `buffer.h`). `Buffer` is the vector with
both indices, every call, and `readFd` with its second block; `ByteQueue` is
the string of bytes its users believe in. `IsByteQueue` maps the bytes between
the indices to that string. Integers are encoded and decoded in network byte
order, digit by digit, in base `Base`.

**`ThreadPool`** (`deps/common/base/thread_pool.*`, `thread.*`) is `start`, `run`,
`run_in_thread` and `stop` (which is the destructor). A worker that found nothing
to do holds the mutex until `wait` has put it to sleep; that gap is a state of
its own, because `stop` clears `running_` without the mutex. Tasks may throw,
which ends their worker, and `start` may fail to create a thread.

**`FtpSession`** (`example/miniftpd/src/`) is a session with its control
connection, its data servers and data connections, the PASV timers, and disk
tasks that finish in any order. The state is one record and a method of the
class is an operator on it, so that a handler is one step with every call it
makes. The client is part of the model: one that keeps to the dialogue (with
aborts), or one that sends any command at any time, chosen by the environment.

`MCEventLoop` puts a loop's two homes side by side, the main thread and an
`EventLoopThread`. The other modules beginning with `MC` hold what only TLC
needs: symmetry sets, environments, and for `TimerQueue` time without end. The
modules ending in `_proofs` hold the theorems.

Elsewhere than in `EventLoopThread` and `TcpClient`, an access to a destroyed
object is not a step, and a property says that it never becomes due.

A definition whose name says what is missing or wrong
(`UpdateForgetsDeleted`, `CloseKeepsState`, ...) is not part of a model. It is
a deliberate mistake in the operator that follows it, and TLC finds the property
it is meant for violated when it takes that operator's place.

## 3. Runs

| Run | Configuration | What it shows |
| --- | --- | --- |
| `eventloop` | `EventLoop.cfg` | functors run once, in order, and each one runs; each quit ends the loop; `startLoop` returns a live loop, and the destructor returns unless its `quit()` meets a loop that is already gone (section 5) |
| `poller` | `Poller.cfg` | epoll's set, the map and the channels agree, so that `epoll_ctl` is never refused; no pointer the loop can follow dangles |
| `timer` | `TimerQueue.cfg` | no timer leaks, is lost, is restarted after its cancel, or is left behind a timerfd set too late; every one-shot timer runs or is cancelled |
| `tcp` | `TcpConnection.cfg` | with another thread that only sends: POLLOUT follows the buffer, the FIN follows the data, the user is told once of the close, and where a server that is destroyed first has its connections idle and on its own loop the channel goes before the object; every close and shutdown is finished. When that thread also closes and the server ends first, the byte stream is intact and raw functors find the connection, as long as the thread keeps its pointer while its calls are pending |
| `server` | `TcpServer.cfg` | loops are handed out evenly, the spare descriptor survives EMFILE, functors find their objects, the queue of connections drains, closed connections return their descriptors |
| `client` | `TcpClient.cfg` | every open socket has one owner; with one call per iteration no object is used after its end and one assert alone can fail, that of `startInLoop` on `connect` after `stop`; once `stop` has run on the loop nothing is connecting until the next `connect`, whatever it crossed; a client that has a connection or is connecting gets one again after each close |
| `buffer` | `Buffer.cfg` | every sequence of calls is one of a byte queue; memory stays within twice what was asked for; only `prepend` uses the headroom |
| `threadpool` | `ThreadPool.cfg` | `stop` returns and drains the queue, tasks are taken once and in order, and each queued task is run while a worker is left |
| `ftp` | `FtpSession.cfg` | whatever the client does, a chunk is sent only for the transfer it was read for; for one that waits for its replies, what is sent is the file in order and 226 means all of it, descriptors are closed, no null pointer is used, one final reply per command, the announced port stays open, transfers and sessions end |

Three runs take a comment of the code at its word and find a behaviour of the
code that contradicts it:

| Run | The comment | What happens |
| --- | --- | --- |
| `timer_threads` | `TimerQueue.h:19`, `addTimer` is thread-safe | the loop has run and deleted a due timer before `addTimer` reads its sequence number |
| `tcp_forceclose` | `TcpConnection.cpp:264`, `forceClose` may be called across threads | the peer's close comes between the test of `state_` and its store, and the connection is closed twice |
| `ftp_second` | `ftp_session.cpp:242`, a second data connection is refused | closing it runs the branch for the end of the data connection, and the first one's transfer is aborted with 426 |

Several properties hold under a condition, and the condition is in the property:
`ClosesOnLoop` (no other thread closes the connection), `ServerEndsIdle` (a
server that is destroyed has its connections on its own loop and none is being
closed), `~env.others` (no other thread opens files), `Patient` (one call per
iteration of the client's loop), `env.client = "polite"` (a client that waits for
its replies, and is alone on its port). Section 5 says what happens without it.
One precondition is a guard instead: `EventLoop::removeChannel` asserts that a
handler removes no channel that is later in its batch, and in `Poller` no handler
tries.

Bounds.

- `EventLoop`: three threads, four functors. A lost wakeup needs two callers in
  different halves of their calls and a functor that queues another one; the
  bound leaves a functor to spare. On an `EventLoopThread`, one of the threads is
  its owner.
- `Poller`: four channels over three descriptors, so that a descriptor is
  reused by a new channel while others are in the batch. Nothing else is bounded.
- `TimerQueue`: two live timers over two addresses, which are reused, and
  another thread; two pending functors. Time does not end: at the last moment
  all other times move back by one (`Slide`), since only differences matter.
- `TcpConnection`: three messages of two units, two functors in the queue when
  `forceClose` adds one. A thread that closes has two messages, and starts no
  further shutdown or close once the user has been told of one (`MaxDowns`),
  without which closing and reopening `state_` could go on for ever.
- `TcpServer`: up to two IO threads, four connections, four descriptors, so that
  EMFILE comes with the spare descriptor, connections and other threads' files
  all competing.
- `TcpClient`: four sockets and five calls: connect, lose the connection and
  connect again, with a stop and a disconnect to spare.
- `Buffer`: headroom 2, initial size 2, a second block of 1, four bytes of
  content, bytes in base 2. Every index meets every edge, and both branches of
  `makeSpace` are taken with and without content.
- `ThreadPool`: three workers, two callers, three tasks, three starts. A task can
  be left over by workers that all threw, and be run after a restart.
- `FtpSession`: two files, two workers, two of PASV, data connections and
  transfers, two chunks per file; the client that sends anything has one chunk.
  Two transfers are needed for an answer of the first to reach the second.

Deadlock is checked for the loop, the poller, the timers and the buffer.
Elsewhere a process, a connection, a client or a session really ends.

Fairness. Nothing below makes a user, a peer or a client do anything, unless it
says so.

- `EventLoop`, `EventLoopThread`: weak fairness of each thread's steps: the
  scheduler runs threads, and callbacks return. `epoll_wait`'s ten-second timeout
  and spurious wakes are not fair, so nothing that is shown depends on them.
- `TimerQueue`: time goes on, and each part of a loop iteration comes round.
- `TcpConnection`: weak fairness of polling, handlers, the server's loop and
  the other thread. Functors get strong fairness, because every iteration of
  `loop()` runs them and handlers cannot keep them out. Strong fairness of the
  writable report and of end of file are assumptions on a peer that keeps
  reading and on the data it sent being finite.
- `TcpServer`: weak fairness of the steps of `handleRead`; strong fairness of each
  loop's functors, for the same reason.
- `TcpClient`: weak fairness of the loop's thread (the rest of a handler,
  functors) and of the network's answer to an attempt; not of the user.
- `ThreadPool`: strong fairness of the owner and of each worker, because a
  mutex that is free again and again is got in the end; weak fairness of a
  caller's `notify_one`. Tasks end; spurious wakes are not relied on.
- `FtpSession`: weak fairness of the loop (functors, handlers, and those
  events that cannot stay away: a data connection with something to write or an
  end of file, a connection that the client has made) and of the disk.

## 4. Theorems

| Module | Theorem | For any |
| --- | --- | --- |
| `EventLoop_proofs` | `TypeCorrect`, `LoopNeverMissesAFunctor`, `LoopNeverMissesAQuit`, `HandleReadNeverExits`, `LoopIsAFunctorQueue`, `ThreadImplementsLoop`, `StartLoopReturnsALiveLoop` | set of threads, number of functors |
| | of the poller, `PollerTypeCorrect`, `KernelFollowsChannels`, `LoopFollowsLivePointers`, `MapFollowsChannels`, `UpdateNeverExits` | sets of channels and descriptors |
| `TimerQueue_proofs` | `EveryTimerHasOneOwner`, `CancelledTimersStayAway`, `NoTimerIsLost`, `TimerfdIsSetInTime` | number of timers, addresses, threads, intervals, length of time |
| `TcpConnection_proofs` | `StreamStaysIntact`, `WatchesWhatIsBuffered`, `RawFunctorsAreSafe`, `LifeGoesInOrder` | number of messages, environment, length of the queues |
| `TcpClient_proofs` | `SocketsStayOwned`, `PatientCallsAreSafe`, `StopsEndAttempts` | number of sockets and calls, events per iteration, environment |
| `TcpServer_proofs` | of the pool, `NextIsALoop`, `RoundRobinIsBalanced`; `ServerImplementsPool`, `ServerIsBalanced`, `SpareSurvivesEmfile`, `FunctorsFindTheirObjects` | number of IO threads, connections and descriptors |
| `Buffer_proofs` | `MemoryStaysBounded`, `HeadroomIsKept`, `IntegersReadBack`, `BufferIsAByteQueue` | headroom, sizes, lengths, base |
| `ThreadPool_proofs` | `StopWakesEveryWorker`, `NoTaskIsStranded`, `StopDrainsTheQueue`, `PoolIsATaskQueue` | number of workers, callers, tasks, restarts |
| `FtpSession_proofs` | `TransfersStayApart` | files, workers, servers, connections, transfers, environment |

Assumptions on constants: bounds are natural numbers, a null pointer is not a
channel, intervals are positive, `FdLimit` is not 0, the callers of a
`ThreadPool` are finitely many (their notifies are counted), and no file of
`FtpSession` is called `"dir"` or `"closed"`, which stand for a directory and for a
descriptor that is not open.
No theorem has a hypothesis but its specification.

*EventLoop.* `NoLostWakeup` is not inductive: it speaks of a sleeping loop, and
says nothing of the states from which the loop goes to sleep. `WakeupOwed`
strengthens it to every moment outside the handlers: if functors wait that
were handed to a running loop, the eventfd is readable or a caller is about to
write it. Only while handlers run may the wakeup have been consumed, and the
swap that follows pays for it. `IInv` joins it with the types, `NoLostQuit` and
`WakeupReadSucceeds`. The refinement needs no invariant but the types: a push
appends to the abstract queue, a finished functor takes its head, and the swap
is a stutter because the concatenation does not change.

*EventLoopThread.* Every step of the thread, of its owner and of the callers is
a step of `EventLoop` or leaves the loop alone (`ThreadImplementsLoop`), so the
theorems above hold of a loop on its own thread. `StartedLoopIsAlive` needs
`HandOver`: the pointer is set from the moment `threadFunc` publishes it, and the
loop returns, and is destroyed, only on a `quit_` that nobody but the destructor
stores. So the owner, who leaves its wait only with the pointer set, however
often it wakes for nothing, has a loop that lasts.

*Poller.* The four properties are inductive together with `RegistrationInv`:
epoll's set is part of the map, a descriptor in the map is open, and a channel
that waits for its handler has not been removed and is not the one being
handled. The last is what `EventLoop::removeChannel` asserts, and it is why a
handler cannot destroy a channel that is later in its batch. `UpdateResult` says
what the three states of `updateChannel` come to, and `UpdatePreserves` covers the
four calls that change `events_` at once.

*TcpConnection.* `StreamInv` has three parts. `ControlInv` says how far the
connection has come: how often the user was told of it, what it watches, what
another thread is doing to it. `QueueInv` says what may wait in the queues, above
all that `connectEstablished` comes first and alone. `SocketInv` is the stream
itself with `WatchesOutput`. Without the second the third is not inductive: a
message sent before `connectEstablished` would be buffered with nothing watched.
`OwnerInv` gives every functor that captured a raw `this` an owner beside it,
the server's map, `connnectDestroyed` or the calling thread's pointer, which
that thread keeps by the hypothesis `env.keepsRef` of
`RawFunctorsFindConnection`. `KeptWhileUp` follows the shared pointer from the
map, through the server's queue, to the functor that takes the channel out of
the poller; it holds where no other thread closes (`ClosesOnLoop`) and a server
that is destroyed has its connections on its own loop and was only asked to
send (`ServerEndsIdle`), which are the conditions of `LifeInOrder`.

*TcpClient.* The three theorems rest on one invariant, `ClientInv`.
`SocketsOwned` speaks of sockets, and is kept by facts about functors and
pointers (`Running`). Outside an attempt the `Connector` has a `Channel` exactly
while its functor `resetChannel` is pending, and that functor is pending once
(`ChannelKept`): this is what lets the next attempt's `Channel` survive the
functor of the one before. A connection exists, or is on its way, only in
`Kconnected`, so a restart never opens a second socket beside it. There is one
lemma for each method of `Connector` and `TcpClient`, on any state record that is
`Sound`, so that a method is treated once however it is reached: called, or run
as a functor. `CallsAreSafe` needs `Quiet` besides: with one call per iteration
of the loop no functor with a bare `this` outlives the object, because an event
meets only empty queues (`BeforeEvent`), and an attempt has `connect_` set, so
that `start` returns during it and the assertion of `startInLoop` can fail in
`Kconnected` only. Nothing in `SocketsOwned` depends on that, nor on the thread
that calls. `StopEndsAttempt` needs the order of the queues (`Stopping`): after
`stop` a `startInLoop` that is still queued is followed by a `stopInLoop`
(`StopLast`), and an attempt or a connection on its way has a `stopInLoop`
pending. It does not follow from `connect_`, which a restart that was tested
before the `stop` sets again after it.

*EventLoopThreadPool.* `RoundInv` gives the exact difference: loops before
`next_` have had one turn more than those from `next_` on.

*TimerQueue.* The four properties lean on each other and are carried in one
`IInv`. `Sets` says that `timers_` and `activeTimers_` hold the same timers.
`Owners` gives every live `Timer` one place: the sets, the batch being run, or a
functor on its way. `Seqs` makes sequence numbers unique among live timers, which
is what tells a reused address from the timer that was there before. `Cancels`
relates a cancel made during the batch to `cancelingTimers_`, which `reset`
consults. `NoMissedTimer` follows from the order in which `reset` and
`addTimerInLoop` set the timerfd after they have changed the sets.

*TcpServer.* Every step of the server is a step of its pool or leaves it alone
(`ServerImplementsPool`), so the pool's theorem carries over. `SpareInv` counts
the descriptors in use without the spare one: they never fill the table, because
`handleRead` returns what it accepted on the spare slot before it reopens it.
`FunctorInv` relates the queues of all loops to the connections: each connection
has one functor at most, and is in the state in which that functor was queued.

*Buffer.* `MemoryBounded` is inductive as it stands. The work is in one lemma per
operator (`makeSpace`, `append`, `retrieve`, `prepend`, `readFd`): what the bytes
between the indices are afterwards, where the reader index is, and how long the
vector may be. From these, each call is a step of `ByteQueue`. That an integer
reads back as it was written (`IntegersReadBack`) is an induction over its
bytes. The prover has no use for the library's induction rules, which take an
operator; the rule for a set (`InductionOnNat`) is derived from the
well-foundedness of the order on the naturals, and `PrimitiveRecursion` from it,
which shows that `Power` is what its definition says. What `SignedOf` has read
after `i` bytes is the number divided by the weight of byte `i`
(`UnsignedReadsBack`); the cast to a signed type then gives back the sign.

*ThreadPool.* `NoStrandedTask` needs a count: when a worker is asleep, the queue
is no longer than the workers about to look plus the callers about to notify
(`Tokens`). A notify that wakes a worker turns one into the other, a worker that
takes a task takes both away, and a worker falls asleep only on an empty
queue, under the mutex (`Mutex`). `NoLostStop` holds from `stop`'s `notify_all`
on, which takes the mutex and so meets no worker between its test and its
sleep. `Accounted` says that an accepted task is queued, in a worker's hand or
ended, and `LeftEmpty` that a worker returns only from an empty pool, which
`run` then refuses to fill; together they give `StopDrains`.

*FtpSession.* `TransfersApart` is about what was sent; `Bookkept` is about what is
on its way. A descriptor number comes back for another file while a disk task
still reads the old one, so neither a task nor an answer says by itself whose
bytes it has. Its generation does: none is newer than `xferGen_`, and one of the
current generation, while a transfer runs, has the transfer's source
(`TaskApart`, `FunctorApart`). Every place that ends a transfer or starts one
makes a new generation before it lets go of the descriptor, which leaves all
that is under way behind, and `sendChunkReady` drops what is behind. `HasSource`
holds because only `abortTransfer` closes a source, which ends the transfer in the
same step, and `tryStartTransfer` opens it, or gives the connection up, once there is one. A
server that waits for its deletion is not the current one, so that the current
one exists. There is one lemma for each method, on any session record that is
`Apart`, since methods call each other and are reached from handlers, functors
and the destructor alike; `KeepsApart` covers all that touches only the control
connection, the timers and the states of connections. The connections that
`deleteServer` destroys one after the other are a recursive function, which is
shown to exist by the same induction as in `Buffer_proofs`.

Only model-checked: every liveness property, which is out of the prover's
reach (it would need `ENABLED` and fairness), and of `FtpSession` the four
invariants about a client that waits for its replies (`StreamInOrder`,
`DescriptorsOwned`, `OneFinalReply`, `PortStaysOpen`). They need the whole
dialogue between client and session as their strengthening.

## 5. What is not modelled, and what the models leave to the reader

Left out, with the reason:

- `BlockingQueue`, `BoundedBlockingQueue`, `CountDownLatch`. The last two have no
  user in the repository. `BlockingQueue` has one, the disk pool of `miniftpd`;
  its protocol (push under the lock, notify after it, wait with a predicate) is
  `ThreadPool`'s.
- `config`, `string_utils`: functions of their input, without state.
- `file_utils`: wrappers of system calls. `write_file_atomic` depends on what
  `rename` and `fsync` promise after a crash, which is not in this code.
- logging, `Timestamp`, `current_thread`, `demangle`, idioms such as `defer` and
  `singleton`, the macros of `di`, `miniftpd_c` (its `main.cpp` is empty) and
  vendored libraries: output, formatting, or no state machine.
- `~TimerQueue`; a connection's bytes, input buffer and high-water mark; listing
  formats and the replies of FTP commands that change nothing; the counter
  `pending_` of `miniftpd`'s disk pool and the pool's end with `main`.
- Weak memory. A plain field that two threads use (`state_`) is read and
  written in separate steps, but the steps are sequentially consistent.
- A reactor callback that throws. `Thread` swallows the exception, and a loop
  would end with it.
- A loop of an `EventLoopThread` that its own user code quits. The destructor
  then uses a pointer to a loop that is gone. Also, `quit()` touches the loop
  after the store that lets it end; the model has that outcome (`OnLoop`), and
  `OwnerReturns` allows for the crash.
- `~TcpServer` called from a handler of one of its own connections, whose channel
  may be in the batch.
- `start` and `stop` of a `ThreadPool` called at the same time, or by a task:
  `threads_` is not protected.

What the conditions in the properties exclude, observed while modelling:

- *TcpConnection.* `send` from another thread captures a raw `this`
  (`TcpConnection.cpp:168`), so its functor can find the connection gone when the
  caller has dropped its pointer. A connection that is shutting down when its
  server is destroyed has its channel removed with events enabled
  (`TcpConnection.cpp:137`, against `Channel.cpp:93`).
- *TcpServer.* A thread that opens a file between the close and the reopening of
  `idlefd_` leaves the Acceptor without a spare descriptor for good. A server
  with IO threads that is destroyed before its connections leaves functors with
  its address behind (`TcpServer.cpp:91`).
- *TcpClient.* `retry` throws `bad_weak_ptr`, because `Connector` inherits
  `enable_shared_from_this` privately (`Connector.cpp:167`): a refused attempt
  ends the program. Two calls in one iteration, or calls of another thread, reach
  asserts of `Connector` and functors whose object is gone. `TcpClient.h` has no
  `public:`, so that no code outside the class can make one as it stands.
- *ThreadPool.* `deps/common/base/README.md` says that `stop` drains the queue.
  When every worker was ended by a task that threw, it does not, and the tasks
  wait for the next `start`. `StopDrains` names that case.
- *FtpSession.* Replies: a file that cannot be opened is answered with 550 and
  then 426. A `closeDataServer` that was queued for one server can close the
  next one, after a 425 that crossed with a connection or after 550 and 451. A
  second PASV overwrites the id of the first one's timer, and a second RETR
  during a transfer the descriptor. A PASV during a transfer followed by its end
  of file uses a null `dataConn_`, and a server deleted while its connection is
  closing removes a channel with events enabled. An abort handled in the same poll as the next
  command can leave that transfer without an end. A session whose control
  connection went when only one of data connection and transfer command had come
  is never destroyed, because the timer asks for both to be missing.
- *miniftpd's disk pool.* `trySubmit` tests `pending_` and increments it in two
  steps, so two IO threads can go one past the limit.

What the properties of the client allow, because the code does it:

- `connect` after `stop` on a client that is connected fails the assertion of
  `startInLoop` (`Connector.cpp:37`): `stop` clears `connect_` and leaves the state
  `Kconnected`. `CallsAreSafe` names that case as the only one.
- `connect` after `disconnect`, when the connection has ended, does nothing:
  `connect_` of the `Connector` is still set and `start` returns at
  `Connector.cpp:28`, so a client with `enableRetry` waits for ever. `Reconnects`
  is about a client that has a connection or is connecting.
- A `stop` of another thread between the test of `connect_` (`Connector.cpp:142`)
  and `TcpClient.cpp:120` comes too late, and the connection is made. One between
  the test in `removeConnection` (`TcpClient.cpp:135`) and the restart ends the
  attempt that the restart makes, but leaves `connect_` set, so that the next
  `connect` does nothing. `StopEndsAttempt` says what is left: no attempt outlives
  the functor of `stop`.
