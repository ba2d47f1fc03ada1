# Specifications of `ants` and `gnet`

The repository annotates two Go libraries: `ants`, a pool of goroutines, and
`gnet`, an event-driven network server for kqueue systems. This directory holds
TLA+ specifications of them, translated from the Go source, with the TLC
configurations that check small instances and proofs that TLAPS checks for all
instances.

## The system

### ants

| Part | State | Operations |
| --- | --- | --- |
| `Pool` (`ants/pool.go`, `worker.go`) | capacity, `running`, state, spin lock, queue of idle workers, condition variable, count of blocked calls; per worker a channel | `Submit`, `Tune`, `Release`, `Reboot`, the goroutine of a worker, the purger |
| `PoolWithFunc` (`pool_func.go`, `worker_func.go`) | the same with a slice of idle workers | `Invoke`, and the same others |
| Worker queues (`worker_stack.go`, `worker_loop_queue.go`) | an array and, for the loop queue, head, tail, size and isFull | `insert`, `detach`, `retrieveExpiry`, `reset` |
| Options, defaults, spin lock | configuration | constructors |

`Submit` takes an idle worker, starts one, waits, or is refused; a worker that
has run its function puts itself back and signals one waiter; the purger and
`Release` end idle workers with a nil on their channel. Much of this is done
without the lock: the capacity is compared before the worker is counted, the
state is read before the lock is taken, `Release` sends while it holds the lock,
and a call that wakes up with no worker running goes on unlocked. The pool is
right when its counter is the number of its goroutines, a worker has one owner,
its owner sends to a goroutine that receives, an accepted function runs, and
once only, and neither `Release` nor the purger gets stuck.

### gnet

| Part | State | Operations |
| --- | --- | --- |
| Poller and job queue (`internal/netpoll/kqueue.go`, `kqueue_events.go`, `internal/queue.go`) | the jobs, the event list, `wakenUp` | `Trigger`, `Polling`, `ForEach`, `increase` |
| Connection (`connection_unix.go`) | packet slice, inbound and outbound ring buffers, `opened`, registered filters | `Read`, `ShiftN`, `ResetBuffer`, `write`, `open`, `AsyncWrite`, `Wake`, `Close` |
| Event loop (`eventloop_unix.go`, `reactor_bsd.go`, `loop_bsd.go`) | connections by descriptor | `loopOpen`, `loopRead`, `loopWrite`, `loopCloseConn`, `loopWake`, `loopAccept`, `loopTicker` |
| Codecs (`codec.go`) | none | `Encode`, `Decode` |
| Ring buffer (`ringbuffer/ring_buffer.go`) and powers of two (`internal/math.go`) | array, size, mask, `r`, `w`, `isEmpty` | reads, peeks, shifts, writes, growth |
| Server (`server_unix.go`, `acceptor_unix.go`) | loops, wait group, condition variable, `Once` | start, accept, signal, stop |
| Load balancing (`load_balancing.go`) | loops, index or heap, cached root, threshold | `register`, `next`, `calibrate`, `iterate` |
| Buffer pools (`pool/`) | statistics of sizes over `sync.Pool` | `Get`, `Put` |

Other goroutines reach a loop only through `Trigger`: they push a job and wake
the poller, and the main reactor hands over accepted sockets the same way. The
loop alternates between the events of one `Kevent` and the jobs; handlers call
the user's `EventHandler`, which may answer, close or shut down. What is hard is
the wake-up (only the first pusher triggers it), the buffers between partial
reads and writes, the registration of the write filter, and the many ways in
which a handler ends up closing the connection it is working for. It is right
when jobs run in order and none is forgotten, bytes keep their order in both
directions, a connection is closed once and by its owner, and stopping reaches every loop.

`PROJECT.json` lists the hazards of this code line by line, with the properties
aimed at them.

## Modules

| Module | Models | Grain of its actions |
| --- | --- | --- |
| `TaskPool` | what a pool promises to the callers of `Submit` and `Invoke` | begin, block, be refused, be served, return, run |
| `AntsPool` | `Pool`, its workers and purgers, both queues | a section under the lock, a channel operation, an atomic access |
| `PoolWithFunc` | `PoolWithFunc` | the same |
| `ByteQueue` | what a ring buffer promises: a queue of bytes | one operation |
| `RingBuffer` | the ring buffer | one operation |
| `Powers` | `internal/math.go` | operators |
| `JobExecutor` | what a loop promises about jobs | submit, run, stop |
| `Poller` | `Trigger`, `Polling`, the kernel's readiness | a system call, a section under the lock, a callback, a job |
| `Connection` | a TCP connection on its loop, its peer and its user | an event, a job, a frame |
| `LoopQueue` | the circular queue of a `PreAlloc` pool | operators |
| `AntsLoop` | `AntsPool` and `LoopQueue` side by side | that of `AntsPool` |
| `Server` | the goroutines of a server from `Serve` to its return | a section under a lock, a channel operation, the loops of `serve` and `stop` over the event loops |
| `LoadBalancing` | the three balancers | operators |
| `Acceptor` | the main reactor, the event loops and the descriptors that they hand around | a system call with what follows it, a callback, a job |
| `Frames` | the codecs over the two input buffers of a connection | operators; a packet, a frame |
| `AntsPoolProofs`, `PoolWithFuncProofs`, `RingBufferProofs`, `PollerProofs`, `ConnectionProofs`, `ServerProofs`, `AcceptorProofs`, `FramesProofs` | theorems about the module of that name, `AntsPoolProofs` about `AntsLoop` too | |
| `MC...` | values for TLC | |

The modules that compose others: `AntsPool` and `PoolWithFunc` implement
`TaskPool`, read through `Phase`, which says of a call of theirs whether it has
begun, is blocked, has a worker or has returned; `AntsLoop` lets every step of `AntsPool` that
touches the queue of workers act on the fields of `LoopQueue` too; `Poller`
implements `JobExecutor`, whose sequence of jobs `Server` and `Acceptor` then
take for granted (in `Acceptor` with the jobs that `ForEach` has taken apart,
because a batch and the jobs behind it matter there); `Acceptor` applies
`LoadBalancing`; `RingBuffer` implements `ByteQueue`, which is what `Connection`
and `Frames` have for buffers.

The modules keep the names of the Go code: `items` is the queue of workers,
`jobs` is `q.jobs`, `conn` is the `conn` with its socket, and an action or
operator carries the name of the function it translates or of the part of it
that runs between two points where others can interfere. Definitions called
"Mutant of ..." are not part of a specification: each is a plausible bug, kept
to show that the property it is paired with in `PROJECT.json` notices it.

What the abstractions are:

- `AntsPool`, `PoolWithFunc`. A function that is in `Panicking` may panic and may
  return. `Release` sends nil to one idle worker after the other and only then
  empties the stack, as `reset` does; `Idle` is the stack without those that have
  been told (`told`). A section under the spin lock is one action, since
  everyone but the unlocked branch of `retrieveWorker` takes the lock; that
  branch is split at its reads and writes, and is modelled for the stack only,
  because the options with a loop queue are nonblocking here. The loads of
  `revertWorker` are one action. At most one `Release` is under way. There are
  as many worker objects as `Workers`; when all are in use `Spawn` waits for
  one, which is harmless because calls and not workers are the limit of an
  instance. Times are not modelled: a round of the purger of `Pool` takes every
  idle worker, since `recycleTime` is never set there, and that of
  `PoolWithFunc` finds any number of them expired. A waiter queue is kept in the
  order of tickets.
- `RingBuffer`. The size of the array is a power of two (`PowerAtLeast`, which
  `Powers` shows the bit arithmetic to compute), so the mask is a remainder.
  `MaxSize` bounds the growth.
- `Poller`. A descriptor is ready or not, and an `EINTR` is a stutter. Each job
  is handed over once. Other errors of `kevent` are left out.
- `Connection`. Ring buffers are sequences, which is what `RingBufferProofs`
  establishes of them; the two parts in which a ring buffer gives its content
  are kept, split anywhere. The two writes of `loopWrite` are one action:
  between them the peer can only make room or reset, which gives nothing that
  an earlier reception or a failure of the first write does not give. `unix.Write`
  takes any number of bytes that fit, or says `EAGAIN` when nothing does. A nil
  dereference ends the process (`pc = "panicked"`). The jobs are run until
  there are none, in their order; which of them an iteration takes is the matter
  of `Poller`. Bytes are numbers, so that loss, repetition and change of order
  can be told apart. `c.fd` keeps its number when the socket is closed, and the
  number may have been given to a connection of another goroutine by then: a
  later write on it fails or sends the bytes to the other peer, and a later close
  fails or closes the other socket, which calls `OnClosed` for this connection
  again (`closeFd`, `reused`) and panics in `releaseTCP` the second time.
- `AntsLoop`. No worker of a `Pool` has a `recycleTime`, so a round of the purger
  takes the queue from head to tail.
- `TaskPool` knows no worker, queue or lock: a call that has begun may be served,
  block, or be refused, each only as the options say. It counts the runs of each
  function, and a second one is no step of it; that an accepted function does run
  is liveness, and `AcceptedRuns` says it of `AntsPool`. `Exact` says whether the
  number of blocked calls is promised. `PoolWithFunc` keeps that promise;
  `AntsPool` does not, because the branch without the lock (`pool.go:178-186`)
  changes `blockingNum` while others do.
- `Server`. Connections are left out: a callback may end its loop at any time,
  and so may `accept` the main reactor, which it does once the listener is
  closed. A condition variable wakes only who waits, so a `signalShutdown` that
  comes before `waitForShutdown` is lost and the `Once` prevents another. The
  ticker's channel has room for one delay; a send on the closed channel, a second
  close, and an interrupt delivered to the closed channel `shutdown` end the
  process (`fate`). A loop whose kqueue is closed polls on and does nothing.
  The heap of the least-connections set renumbers the loops at will
  (`Renumber`, at most `MaxRenumber` times).
- `LoadBalancing`. `heap.Init` leaves some order that is a heap; `calibrate` and
  `next` are atomic, and the header of the module says why they may be.
- `Acceptor`. What flows through a connection is left to `Connection`: a handler
  does nothing, closes, closes with a flush that fails, has a reply that fails and
  closes, or asks for `Shutdown`.
  The kernel gives the lowest free descriptor to the next connection, whoever
  accepts it, and a closed descriptor leaves the kqueue, while events of it that
  have been fetched stay in the batch. After a flush that failed the outer close
  finds the descriptor free or given to another connection (`OuterClose`). After a
  reply that failed `loopRead` still does what `React` asked for: it closes again,
  which is the same outer close or a nil dereference, ends the loop, or goes on to
  the next frame (`AfterReply`, `NextFrame`). `AddRead` may fail. `unix.Close` fails only for a descriptor that is not open.
- `Frames`. A byte has `Radix` values instead of 256, which brings the overflow of
  a length field within reach; fields of 4 and 8 bytes do not overflow. The ring
  buffer and the packet are sequences. The sender encodes with the codec of the
  receiver and puts the header before the length field that its decoder skips.
  The two ends match (`CodecsAssumption`): same width and order of the field, the
  decoder takes away what the encoder adds and strips no more than the header,
  and a message fits a field of 4 or 8 bytes, whose overflow `Encode` does not check.
  Connections stay open: what a handler answers is the matter of `Connection`.

## Runs

| Run | Question | Bounds |
| --- | --- | --- |
| `ants_safety` | counter, ownership, the promises of `TaskPool`, the loop queue holds the idle workers, in all modes, through `Tune`, `Release`, `Reboot` and purges | three calls, one that may panic; three workers; sizes 1, 2 and unlimited; both queues |
| `ants_liveness` | accepted functions run, `Release` returns, the purger leaves nothing | two calls, two workers, sizes 1, 2 and unlimited, nonblocking, both queues |
| `ants_two_purgers` (violated) | a purger ends only workers that nobody else has | two purgers |
| `poolfunc_safety` | counters, blocked calls, ownership before the first tick, no idle worker while calls wait, the promises of `TaskPool` with an exact count of blocked calls | three calls, sizes 1 and 2, with and without a limit of blocked calls |
| `poolfunc_purge` (violated) | a worker in the stack receives | two workers, one purger |
| `ring_buffer` | the ring buffer is a queue; accessors agree | arrays of 0, 2, 4 and 8 bytes, two byte values |
| `poller` | no lost wake-up, jobs in order, jobs and ready descriptors are reached until the list of events has no room | three jobs, two descriptors, a list that three events fill |
| `connection` | order and completeness of both directions, write filter, one call of `OnClosed` per close of the socket, neither direction stuck | two bytes in, four out, a socket buffer of two, one call each of `AsyncWrite`, `Wake`, `Close`, all actions of the handler |
| `connection_line` (violated) | each byte is given to `React` once (`GivenInOrder`) | three bytes, two lines |
| `server` | `OnShutdown` comes last, pollers are closed after their loops, the ticker's channel is closed once, `Serve` returns when woken | two loops, with a main reactor and without, with a ticker and without, one renumbering |
| `acceptor` | counts of connections, owners of descriptors, stale events, the choice of the least-connections set | two loops, three connections, three descriptors, batches of two, every balancer and `SO_REUSEPORT` |
| `frames` | what is encoded is decoded, in order, each message once | two of five messages, of up to four bytes; 166 codecs: length fields of every width, order, adjustment, offset and stripping |

Why these bounds are enough for what is asked: three callers are the least for
one that waits, one that is woken and one that takes its worker; two workers the
least for a queue in which order matters; a ring of eight bytes, reached from
nothing by doubling, wraps at every position; three jobs allow one to be first,
one to come before and one after the drain; four bytes out against a socket
buffer of two give a partial write, a pending head and a pending tail at once.
Three calls that all come back insert three workers, so that circular queues of
one and of two fill up, meet head = tail in both senses and wrap around; two events
of a batch are enough for the first to close the connection of the second, and
jobs to come between; two loops are enough for a signal that two of them
send and for a heap with a choice; three connections on three descriptors let one
be closed, its number be given to a second, and a third be in a batch or a job
meanwhile; with a radix of three, four bytes overflow a length field of one byte
once it is adjusted or includes itself, and two messages show what the first
leaves behind for the second. `ants_safety` and `poolfunc_safety` use symmetry of
the workers and of the calls that do not panic; runs with
liveness use none. Deadlock is not checked: a pool without callers, a server
without clients and one that has returned rest.

The violated runs are disagreements between the code and its documents:

- `ants_two_purgers`: `Reboot` assumes that the purger of before has exited.
- `poolfunc_purge`: `pool_func.go:82` tells the wrong workers to end.
- `connection_line`: `ShiftN` leaves the bytes of the inbound buffer in place
  when a frame ends in the packet, so that they are decoded again: lines 1 2 and 3
  that arrive as 1 and 2 3 are given to `React` as 1 2 and 1 3.

Other flaws of the code are steps of the models, and the passing runs state what
holds up to them:

- `increase` (`kqueue_events.go:30`) halves the list of events each time a batch
  fills it, down to no room, after which the loop serves nothing any more.
  `JobsAreRun` and `ReadyIsReported` say that nothing is forgotten before that
  (`NoRoom`); the safety properties of `Poller` are proved for every size.
- A call of `Submit` that waited and finds no worker running goes on to detach a
  worker without the lock (`pool.go:178-183`), so that two calls can hold the same
  worker. `NonblockingOneOwner` and `NonblockingIdleIsReceiving` are about
  nonblocking pools, and `OneOwnerUntilTick` about the time before the first tick
  of a `PoolWithFunc`, because of `poolfunc_purge`.
- A signal to shut down before `stop` waits is lost and `Serve` never returns
  (`server_unix.go:119-133`; the comment there says so). `StopReturns` starts where
  `serve` has been woken.
- If `start` fails after the reactors have been started, `OnShutdown` is called
  and the pollers are closed under loops that run (`server_unix.go:233-237`), which
  `OnShutdownLast` excludes (`failed`).
- The least-connections set renumbers loops that compare their number with 0 to
  start and stop the ticker, so that its channel may be closed twice or never
  (`StableIndex` in `TicktockClosedOnce` and `StopReturns`).
- After a flush that failed, the outer close may hit a descriptor that has been
  given to another connection (`eventloop_unix.go:36-40`). From then on a
  connection can be closed twice; the properties of `Acceptor` are for the time
  before (`NoneClosedTwice`). So may what `loopRead` does after a reply that failed
  and closed (`connection_unix.go:98-106`). Of the connection that is closed twice,
  `OnClosed` is called twice: `ClosedOnce` excepts just this case (`reused`).
- With `SO_REUSEPORT` a loop accepts in the middle of a batch, and an event for a
  closed connection can find the new one on its descriptor, which is why
  `EventsForOwner` is about servers with a main reactor.
- A connection that is accepted while its loop ends is in a job that is never
  run, and stays open after `OnShutdown`; so does one whose `SetNonblock` or `AddRead`
  fails. `gnet.go:111` says that `OnShutdown` comes after all connections have been
  closed. `SocketsAccounted` has these three as its exceptions (`Leaks`), and shows
  that every other open descriptor has exactly one owner that will open or close
  it (`Owners`).
- `ShiftN` breaks frames that are split over packets (`connection_line`), and
  `FixedLengthFrameCodec` gives short frames then, so that `RoundTrip` promises
  frames for packets that end with a frame (`whole`) and the order of the bytes
  for all. A length-field message of no bytes is never decoded (`NoneEmpty`). In
  `connection`, `InputInOrder` holds for the built-in codec, which never leaves
  bytes behind.

### Fairness

Weak fairness of each goroutine that is under way, and of nothing else: of each
call of `Submit` once it has begun, of each worker, purger and `Release`, of the
loop that polls, and of a caller of `Trigger` that has pushed and has yet to
wake the poller. Go's scheduler runs a goroutine that can run. Calls, `Tune`,
`Release`, `Reboot`, readiness and everything the peer sends are up to the
environment and may never come; the one exception is `Receive` in `Connection`,
because `OutputFlows` is about a peer that reads. In `Server` the caller of
`Serve`, the goroutine of the interrupts, each loop, the main reactor and each
ticker run when they can; interrupts, errors of callbacks and of `accept` need
never come. A goroutine that waits for the
spin lock counts as waiting, so that weak fairness asks nothing of it until it
can take the lock.

## Proofs

TLAPS checks these theorems for all values of the constants that satisfy the
named assumptions of the modules. Two theorems about `AntsPool` assume
`OnePurger` besides, and one about `Connection` the built-in codec; the last
column says why. `TypeCorrect` (`PollerTypeCorrect`, `RingTypeCorrect`) is proved
of every state machine in the table but `AntsLoop`, which has none of its own,
and `Frames`, whose types are part of the invariant below.

| Theorem | Property | What the inductive invariant adds |
| --- | --- | --- |
| **AntsPoolProofs** | | |
| `CounterExact` | `RunningCountsLive` | Nothing: each step that starts or ends a worker changes the set of live workers by one element and the counter by one. Every mode. |
| `WorkerOwnership`, `OwnersDoNotWait` | `NonblockingOneOwner`, `NonblockingIdleIsReceiving` | `IInv`: nobody waits, a caller holds a worker exactly while it is going to send, and a goroutine that is not receiving has an empty channel. `OnePurger` is needed: `ants_two_purgers` shows what two of them do. |
| `FunctionsRunOnce` | (no run) | `OnceInv`: a function is in the channel or the hands of one worker, and the condition variable holds each waiting call once and no other, so that no call that has gone on is woken again. Every mode, any number of purgers. |
| `PoolKeepsPromises`, `LoopKeepsPromises` | `PoolSpec` | The types, `OnceInv` and `NoNilTask` (no worker holds the function nil) tell for every step which step of `TaskPool` it is, or that the callers see nothing of it. A function that runs is one whose call has returned and that has not run, which is why none runs twice. The second is about `AntsLoop`, whose steps are steps of `AntsPool`. |
| `LoopQueueIsQueue` | `LoopHoldsItems` | `PreAllocInv`: the cells from head to tail, around the end of the array, are the sequence of idle workers; and no call waits, since the branch without the lock would act on the sequence alone. |
| **PoolWithFuncProofs** | | |
| `CounterExact` | `RunningCountsLive` | as above |
| `BlockingNumExact` | `BlockedCountExact` | Nothing: a call has a ticket and is counted from `p.blockingNum++` to the end of its wait. |
| `PoolKeepsPromises` | `PoolSpec` | `OnceInv`, as in `AntsPool`, here with purgers that end workers of the stack, so that an argument may be lost, but the function is not run on it twice; and the exact count: a call that was let in counts itself when it looks for a worker again, and so is not refused. |
| `WorkerOwnership` | `OneOwnerUntilTick` | `IInv`, before the first heartbeat: all purgers rest, owners and channels are as in `AntsPool`, tickets as above. |
| `WaitersAreWoken` | `NoIdleWhileWaiting` | `EnoughWoken`: while a call waits, at least as many calls are woken and have not run yet as there are idle workers; `LockHolders`: the stack stays empty between a call's look at it and its wait. |
| **RingBufferProofs** | | |
| `RingIsQueue` | `QueueSpec` | The types. The refinement reads the array from `r` to `w`; lemmas describe the content of an array read at one index and written at another, before and after consuming, storing and copying to a larger array. |
| `RingAccessors` | `AccessorsAgree` | The types. |
| **PollerProofs** | | |
| `WakeupNeverLost` | `NoLostWakeup` | The types, which say that the locals of an iteration do not outlive it. |
| `PollerImplementsExecutor` | `ExecutorSpec` | With the jobs taken and those queued as one sequence, every step is a step of `JobExecutor` or a stutter. |
| **ConnectionProofs** | | |
| `OutputOrdered` | `OutputInOrder` | `Output`: what was received, what is in the kernel, in `outboundBuffer` and, once the socket is closed, what is lost are together what has been written, in order. |
| `WriteEventRegistered`, `ClosesOnce` | `WriteRegistered`, `ClosedOnce` | `Sound`, of the connection and of every outcome of a call on it: also the types, that a released connection has no socket, and that a second `OnClosed` comes from a number that was reused. `Fresh`: nothing has been written before `loopOpen`. |
| `InputOrdered` | `InputInOrder` | `InputInv`: what was handed to `React`, the frame being cut, the two buffers and the socket are together what was sent. The built-in codec takes both buffers whole; with one that calls `ShiftN` the property is false (`connection_line`). |
| **ServerProofs** | | |
| `ShutdownIsLast` | `OnShutdownLast` | `ShutdownOrder`: what the main goroutine has passed and which goroutines of the wait group can then still run. |
| `TickerChannelSafe` | `TicktockClosedOnce` | `FirstLoopTicks`, `StartOrder`: the loop with number 0 is the only one that starts or closes the ticker, and it ends once. |
| **AcceptorProofs** | | |
| `NextIsNearMinimal` | `NextNearMinimal` | `RootNear`: the cached root was the minimum when the heap was built (`RootIsMinimal`, by the least counter-example of the order), and no loop has gained on it by more than the operations counted in `threshold`, which `next` finds to be fewer than the loops. |
| `EventsFindOwner` | `EventsForOwner` | `BatchFirst`, `EventsCurrent`: jobs are run behind the batch, so that while events are left a map can only forget. |
| `CountsAreExact`, `NoSocketIsLost` | `CountsMatch`, `SocketsAccounted` | `Accounted`: an open connection is in one of a hand, a job and a map, all of its own loop, the kernel's descriptors are those of open connections, and each count is that of its map. `Stages`: the connection that a loop is still at after a failed flush or reply is closed, so that closing anything then closes it twice. A place is that of an owner or of a leak (`OwnedOrLeaked`). All steps are brought under six forms (`IntoHand`, `IntoMap`, `HandToJob`, `FromJob`, `Closes`, `Stays`), and each form keeps the invariant. |
| **FramesProofs** | | |
| `CodecsRoundTrip` | `RoundTrip` | `CutInv`: for the codecs that cut by size, what React got, the buffer and the wire are together the stream, and nothing is in the inbound buffer. `FixedInv`: in whole packets their lengths are multiples of the frame's. `FramedInv`: for the others, `got` is the frames of the first messages, the buffer those of the next ones, the wire those of the last, so that `Decode` finds the frame of a message at the front and takes just it. |

The calls of `Connection` have sets of outcomes, because a write may be cut
anywhere and a close fails in several ways. The proofs state once, for each
function of the code, what all its outcomes have in common (`After`, `Flushed`);
the steps of the loop use only that.

`Frames` is proved in layers. The lemmas on a length field say that `Uint` of
`PutUint` is the number, in both orders, as long as it is below `Pow` of the
width; `Encode` checks that for 1, 2 and 3 bytes and `Matching` asks it of 4 and 8.
From them each codec decodes what it encodes when other bytes follow (a
delimiter is the first one in the frame, a length field says where the frame
ends), and `FlattenSeq` of the frames between two messages is the first of them
with the rest. The library's induction theorems cannot be used here, since they
take an operator; where a number of bytes or frames has to be gone through, the
induction is over a set of numbers (`UpTo`): the ones for which a statement holds
contain 0 and with each its successor. `Pow` is a function and `FlattenSeq` a
fold, both within reach of that.

What is only model-checked, and why:

- Liveness under weak fairness, out of the provers' reach: `JobsAreRun` and
  `ReadyIsReported` (`Poller`), `AcceptedRuns`, `ReleaseReturns` and `PurgeDrains`
  (`AntsLoop`), `OutputFlows` and `InputIsRead` (`Connection`), `StopReturns` (`Server`).
- The bit arithmetic of `Powers`, which is recursive and is checked by an
  assumption of `MCRingBuffer`.

## Not modelled

- UDP: `loopReadUDP`, `sendTo`, `newUDPConn`, `releaseUDP`. A datagram is read,
  handled and answered in one callback and leaves no state.
- The contents of the packet that the connections of a loop share, and of the
  pooled byte buffers: what a handler sees that keeps a frame after `React`.
- Line and delimiter codecs with data that holds the delimiter, and
  `InitialBytesToStrip` beyond the frame, where `Decode` panics.
- Times: `ExpiryDuration`, the delays of the ticker (a sleep ends), back-off.
- Errors of `kevent` other than those of a closed kqueue, failures of `Close`.
- Not worth a model: address conversion, socket options, option setters, loggers,
  the buffer pools (caches whose only logic is statistics of sizes), the default
  pool of `ants.go` (a `Pool`), the empty `main`.

## Plan

What would come next: UDP sockets on the loops; the packet shared by the
connections of a loop, with the frames that a handler keeps; the line codec of
`Connection`, with its repeated lines, as an implementation of `Frames`.
