# Serverbox in TLA+

Serverbox is a C++ library for network servers.  Its core is a task scheduler that
runs on a few worker threads without a dedicated scheduling thread, the lock-free
queues and the small synchronisation objects this scheduler is made of, and a
second scheduler of the same design (`aio::IOCore`) for sockets, on which TCP and SSL
sockets and servers are built.  This directory holds models of these, of the containers
and buffers below them and of the resolver of names beside them, the runs that check
them with TLC and the proofs that TLAPS checks.  All paths below are relative to the
root of the repository.

## The system

The code is in five directories: `src/mg/box` (threads, queues, containers),
`src/mg/sch` (the task scheduler), `src/mg/aio` (asynchronous sockets), `src/mg/net`
(buffers, names, SSL) and `src/mg/sio` (blocking sockets).

### Components

**`sch::TaskScheduler`** (`TaskScheduler.{h,cpp}`).  State: the front queue of posted
tasks, the pending list and the heap of waiting tasks, the queue of ready tasks, the
scheduler mutex, two signals (front and ready) and the workers.  Any thread posts.
A worker tries to take the scheduler mutex; the one who gets it is the
"sched-thread" for a while: it moves tasks from queue to queue, sleeps on the front
signal when there is nothing else to do, then gives the role away and executes ready
tasks like the others.  `Start()`, `IsEmpty()`, `Stop()` and `Reserve()` take the same
mutex and interrupt a sleeping sched-thread.  Hard: nobody is dedicated to
scheduling, so somebody must always be on the way to it; a push must wake the
sched-thread but only the first one signals; the batch limits; stopping workers that
sleep on two different signals.  Correct if: one thread schedules at a time, no task
is lost, doubled or left waiting when it could run, tasks keep their order, all the
calls return.

**`sch::Task`** (`Task.{h,cpp}`).  State: an atomic status (PENDING, WAITING, READY,
SIGNALED), a deadline, an expiration flag, the scheduler it is posted to, links and a
heap index.  `PostWakeup()` and `PostSignal()` come from any thread and race with the
sched-thread's compare-and-exchange and exchange.  Whoever takes the status away from
WAITING must push the task.  Correct if: exactly one does, no wakeup or signal is lost,
and the task is never in two places.

**`box::InterruptibleMutex`**.  State: two bits (TAKEN, HAS_WAITERS), an inner mutex
and a list of waiters that live on the stacks of their callers.  The owner may sleep
on something else; the first waiter interrupts it.  `Unlock()` hands the ownership to
the first waiter.  Hard: the handover, the bit that outlives the list, the waiter that
is gone as soon as it has been signalled.  Correct if: exclusion, order, no use of a
dead waiter, no lost waiter.

**`box::Signal`**.  State: an atomic (EMPTY, PROBE, SIGNALED), a mutex, a condition
variable.  A binary flag: many sends, one receive.  A sender that finds PROBE leaves at
once, a receiver may delete the object as soon as it has received.  Correct if: no lost
wakeup, no access after the deletion, one receive per flag.

**`box::MultiConsumerQueue`** (`MultiConsumerQueueBase.{h,cpp}`).  One producer, many
consumers, a list of bounded sub-queues that are recycled at the tail once no consumer
refers to them.  Correct if: FIFO, nothing taken twice, no cell read that is not
written, the count not below what is visible.

**`box::MultiProducerQueueIntrusive`**.  A lock-free stack that one consumer takes as a
whole and reverses.  Correct if: the order of the pushes, and a true answer to "was it
empty", which is what the front signal depends on.

**`box::Thread`, `Mutex`, `ConditionVariable`, `Atomic`**.  Wrappers of the system's
primitives; used in the models as what the C++ standard promises.

**`box::ForwardList`, `DoublyList`, `BinaryHeap`**.  Intrusive containers: state is the
links, or the indexes, inside of the items.  The schedulers rely on each of them:
lists of tasks between the queues, a heap of deadlines from whose middle a task may
be taken.  Correct if: the links tell the same sequence, the indexes the same order,
after any series of operations.

**`box::ThreadLocalPool`**.  Free objects in chains, one per thread and some in a global
pool; the container of a chain is itself a free object.  Correct if: an object is in one
place or in use, whichever thread frees it and whichever thread ends.

**`aio::IOCore`, `aio::IOTask`**.  The scheduler once more, for tasks that own a socket.
State of a task: a status (PENDING, READY, WAITING, CLOSING, CLOSED), a close guard,
pending and ready events, a count of operations, a deadline.  The sched-thread also
takes events from the kernel (epoll, kqueue, io_uring or IOCP) and sleeps there.  Hard:
the close against wakeups, deadlines and kernel events that were already fetched;
operations in flight when the socket is closed; edge-triggered events that come once;
stopping threads that sleep in different places; the reuse of a closed task.  Correct
if: one thread owns a task, a close is carried out once and after all else, no event
is lost, the count of tasks covers them, `Stop()` returns.

**`aio::TCPSocketIFace`, `TCPSocket`, `TCPSocketCtl`, `SSLSocket`, `TCPServer`**.  State
machines on top of `IOTask`: external calls hand over data and requests under a mutex,
the worker carries them out in `OnEvent()`.  Hard: which calls are legal in which state,
a shutdown or a close that overtakes a connect, data of the application and of the
network in SSL, reopening.  Correct if: the assertions hold, the subscription is told
of a life in its order, whatever is posted is taken.

**`net::DomainToIP`**.  One worker thread that resolves names for requests with
deadlines that can be cancelled at any moment.  Correct if: the answer meets its
receiver alive, once, and the context is freed by the last who holds it.

**`net::Buffer`**.  Chains of reference-counted buffers: a stream with a read end and a
write position, and output queues of links to chains that may be shared.  Correct if:
what is read or sent is what was written, in order.

**`box::SharedPtr`, `RefCount`, `Coro`, errors, strings, time; `net::SSLContext`,
`SSLStream`, `Host`, `Socket`, `URL`; `sio`**: counters, coroutine plumbing, wrappers,
tables, blocking sockets for the tests.

### How they interact

    client ── Post / PostWakeup / PostSignal ──> Task.status ──> front queue (MultiProducerQueue)
                                                                     │ first push
                                                                     v
       worker <── InterruptibleMutex ──> sched-thread <── front signal (Signal)
         ^                                   │ pending list, heap of deadlines
         │ ready signal (Signal)             v
         └── Pop ── ready queue (MultiConsumerQueue) <── FlushPending

A waiter of the mutex interrupts the sleeping sched-thread through the same front
signal.  After it has given the mutex back, the thread sends the ready signal, and so
does each worker that leaves.  The callback of a task may post the task again.

    TCPSocket / SSLSocket / TCPServer ── PostWakeup / PostClose ──> IOTask.status ──> front queue
          │  ^                                                          │
          │  └── OnEvent() ── worker <── ready queue <── sched-thread <─┴─ kernel events, deadlines
          ├── name ──> DomainToIP (own thread) ── answer, wakeup ──> the socket's task
          └── BufferLinkList (output), BufferStream (input)

## The plan

In this order, the core first:

| # | modules | about | state |
|---|---------|-------|-------|
| 1 | `InterruptibleMutex`, `Signal` + `SignalSpec` | the two synchronisation objects | done |
| 2 | `TaskLifecycle` | abstract: what the scheduler promises about one task | done |
| 3 | `TaskScheduler` (implements 2) | workers, scheduler role, queues, start and stop | done |
| 4 | `MultiConsumerQueue` (implements `FifoQueue`), `MultiProducerQueue` (implements `PushQueue`) | the two lock-free queues | done |
| 5 | `*Proofs` for 1, 2 and 3 | invariants for any number of threads and tasks | done |
| 6 | `IOCore` with `IOCoreEpoll`, `IOCoreKqueue`, `IOCoreUring`, `IOCoreIocp`, put together in `IOCoreBackends` (implements `IOTaskSpec`) | the socket scheduler: close protocol, kernel events, deadlines, stop | done |
| 7 | `TCPSocket` (with SSL) over `IOTaskSpec`, `TCPServer` | socket life cycles | done |
| 8 | `DomainToIP` | requests, deadlines, cancellation | done |
| 9 | `BinaryHeap`, `ForwardList`, `DoublyList`, `BufferStream`, `BufferLinks`, `ThreadLocalPool` | algorithms against reference definitions, moving batches | done |
| 10 | `TaskSchedulerProofs`: `TaskScheduler` ⇒ `TaskLifecycle`, `NoDuplicates`, `FairOrder`, `SomebodySchedules` | the scheduler for any size | done |
| 11 | `IOCoreProofs`, `IOCoreOwnership`: every safety property of `io_core`, `IOCore` ⇒ `IOTaskSpec` | the socket scheduler, for any size and each backend | done |
| 12 | `MultiConsumerQueueProofs`: `QueueInv`, `MultiConsumerQueue` ⇒ `FifoQueue` | the ready queue for any number of consumers and sub-queues of any size | done |
| 13 | `PartsProofs`: `MultiProducerQueue` ⇒ `PushQueue`, `TCPSocket`, `TCPServer`, `DomainToIP`, `ThreadLocalPool`, `BinaryHeap` | the front queue, sockets, servers, the resolver, the pool and the heap, for any items, uses, requests, objects and keys | done |

## The modules

**`InterruptibleMutex`**.  `myState` is the set of flags of the code's `myState`,
`myMutex` the owner of the inner mutex, `myWaiters` the list, `mySignal[c]` the signal
inside the waiter object of caller `c`, `wakeup` the signal the owner sleeps on (in
the scheduler, the front signal).  Workers only call `TryLock()` and may sleep as owners,
callers call `Lock()`.  Each atomic access and each assignment that another thread could
see is an action; the names follow the code's branches (`LockFlag`, `LockTake`,
`LockWakeup`, `LockAppend`, `UnlockFast`, `UnlockPop`, `UnlockFlag`, `UnlockSend`).

**`SignalSpec`, `Signal`**.  `SignalSpec` is the promise: a flag that becomes "coming",
then "there", and is taken by one receiver.  `Signal` has the atomic state, the mutex, the
wait set of the condition variable (with spurious ends) and `users`: either all the
threads use the signal for ever, or one of them sends once and another one destroys the
object when it has received it, which is how the stack-allocated waiters of the mutex use
it.  `ImplementsSignalSpec` is the refinement, liveness included.

**`TaskLifecycle`**.  The abstract specification of the scheduler.  A task has a status,
a deadline, an expiration flag, a place (`outside`, `front`, `collected`, `parked`,
`ready`, `executing`) and may be in the heap; a client that has taken a status away from
WAITING has the task in `pushing`.  The actions are the atomic steps on the status:
`Wakeup`, `Signal`, `Push`, `Collect`, `Park`, `DispatchWoken`, `DispatchExpired`,
`Expire`, `Execute`, `ReceiveSignal`, `Post`, `Return`.  Time is what the comparison of
deadlines tells: none, ahead, passed, never.

**`TaskScheduler`**.  The code of `TaskScheduler.cpp`: clients (`Client...`), workers
(`Worker...`, `Callback...`), the sched-thread (`Sched...`) and one controller thread that
calls `Start()`, `IsEmpty()`, `Stop()` (`Controller...`, `Start...`, `Empty...`,
`Stop...`).  The queues, signals and the mutex appear as their own modules show them to be:
atomic sequences, flags, an owner and one waiter.  `schedBatch` and `execBatch` are the two
batch counters.  Steps that only the owner of the mutex can observe are merged with its
next visible step.  `Place` maps this state to `TaskLifecycle`.

**`MultiConsumerQueue`, `FifoQueue`**.  Sub-queues are numbers, `list` is the list from
`myHead` to `myTail`; each has its read, flush and write index, its cells and the count of
consumers.  A cell that was never written holds `Garbage`, a recycled one its old
item.  Loads and compare-and-exchanges of the indexes are steps, changes of the list are
one step each because they are under the queue's lock.  `Visible` maps the sub-queues to
the one sequence of `FifoQueue`.

**`MultiProducerQueue`, `PushQueue`**.  Items are linked by `next`; `Link`, `Exchange`,
`ExchangeFails` are the loop of a push, `ExchangeAll` and `ReverseOne` the pop.  Consumed
items are free to be pushed again at once, so old heads come back (ABA).  `PushQueue` is
the promise: pushes append as a whole, exactly the push into the empty queue is "first".

`MCThreads` puts `InterruptibleMutex`, `Signal` and `TaskLifecycle` into one instance: a
behaviour is one of the part that it begins with, the other parts keep one initial state.
`MCTaskScheduler` adds the symmetry set for TLC and the scenes, what comes from outside in
a run: two clients while the scheduler runs, or one client amid `Start()`, `IsEmpty()` and
`Stop()` in any order, or everything.

**`IOTaskSpec`**.  What `IOTask.h` promises to the owner of a task: one call at a time, a
call after every wakeup, one last call after a close, then none until the owner posts the
task anew.

**`IOCore`, `IOCoreBackends`**.  `IOCore` has what the backends share: the record of a task
(`status`, `guard`, `pending`, `ready`, `locked`, `operations`, ...), the queues, the
workers (`elect`, `pop`, `execute`, `callback`, `release`), `PostWakeup()`,
`PostClose()`, `PrivRePost()`, the reuse and the detachment of a closed task, `Start()` and
`Stop()`.  The initial state picks a scenario: a backend, how many workers, what the
owner of each task does (it receives, sends after a connect, accepts, or just sets
deadlines), whether `Stop()` comes and whether the socket may break.
`IOCoreBackends` joins the four, states the properties and the mapping to `IOTaskSpec`.

**`IOCoreEpoll`, `IOCoreKqueue`**.  Flags: the kernel reports an edge once (`reported`),
the harvest is a set of pairs that are handled one by one, `pending` merges them until
the task is published, `locked` is the `IOEvent` that waits for its flag.  kqueue has its own
merging of filters and no registration to undo; the rest it does like epoll.

**`IOCoreUring`, `IOCoreIocp`**.  Operations: each is with the task, in the list to
submit, inside of the kernel, done, harvested, or among the events of the task.  A close
with operations left sends a cancel (io_uring: an entry of the same ring, which may itself
be too late; IOCP: a call) and waits for the last completion.  io_uring sleeps in
`poll()` on an eventfd beside the ring, IOCP in the harvest itself.  A harvest takes a batch of
`KernelBatch` completions, any of them, when there are that many (`Entries`): `round.full` says
that it did, and that some may be left in the ring without being announced.

**`TCPSocket`**.  `TCPSocketIFace`, `TCPSocket`, `SSLSocket` and `TCPSocketCtl` over
`ioTask`, which is `IOTaskSpec`.  `sock` and `front` are what the mutex protects, `inner`
what only the worker touches, `worker` where in `OnEvent()` it is, one action for each
part under or outside of the mutex.  `caller` is a call whose wakeup is still to come.  The
six uses in `MCParts` are those of clients (`connect`, then data or a shutdown, then a
reopening), of sockets from a task of the application and of wrapped, accepted ones; both of
these may be shut down at any moment.  A failed assertion of `Connect()` ends the process, as in
the code (`worker = "aborted"`).  Resolution and OpenSSL answer anything that the code tells
apart.

**`TCPServer`**.  Bind, listen, accept, close, in the same manner.  Anybody may close it at
any moment, again and again; the worker clears the subscription in a step after the unlock, and
a `PostClose()` whose assertion fails ends the process (`closer = "aborted"`).

**`DomainToIP`**.  `queues` is what the resolver's mutex protects, `main` its own queue and
heap; `resolver.pc` goes through the code's loop (`asleep`, the cancelled ones, the new
ones, a batch of names, the late ones), and the answer is three steps: the result is
written, the request is locked, the user is told.  `refs` counts the context's holders.

**`ForwardList`, `DoublyList`**.  The links, changed as the code changes them, next to the
sequence that the operation means.  **`BinaryHeap`**: the array, the indexes in the items and
their keys; a turn of the loop of `PrivUpdateUp()` or `PrivUpdateDown()` is a step (`Rise`,
`Sink`), `moving` is the loop's `tmp` and `aIndex`, and nobody calls the heap meanwhile.
**`ThreadLocalPool`**: chains with their containers.  **`BufferStream`**: the list of
buffers with the three pointers and two sizes, the bytes numbered as they are written.
**`BufferLinks`**: `next` is the link inside of a shared buffer, each queue has its
own list of heads and offset.

`MCParts` puts all of these and `MultiProducerQueue` together, the parts with theorems by
EXTENDS, so that their own properties are the run's, the lists and buffers by INSTANCE; a
behaviour is one of the part that it begins with, the other parts keep one initial state.  `MCIOCore` has the
scenarios of `IOCore`, `MCBufferLinks` the chains of `shared_buffers`.  `Sum` in
`BufferStream` is recursive and for TLC only.

## The runs

| run | question | instance |
|-----|----------|----------|
| `threads` | mutex: one owner, live waiters, order, every lock succeeds | 2 workers, 3 callers |
|           | signal: the flag is implemented, no lost wakeup, no use after deletion | 2 senders, 2 receivers |
|           | task: one pusher, no lost wakeup, progress | 2 tasks, 2 clients |
| `scheduler` | no duplicates, somebody schedules, refinement of `TaskLifecycle` with liveness, every call returns | 2 workers, 1 task; 2 clients, or 1 amid all calls |
| `scheduler_order` | tasks keep their order, no missed push, no sleep on what a batch left behind | 2 workers, 2 tasks, 1 client |
| `scheduler_is_empty` | violation: `IsEmpty()` while a task runs | 2 workers |
| `ready_queue` | FIFO, index order, recycling, count, what is visible gets popped | 2 consumers, 2 sub-queues of 1 or of 2, 3 items |
| `io_core` | one owner of a task, the code's assertions, nothing of a closed task in the kernel, edges, operations and tasks counted, the sleeping scheduler is reached | 4 backends, 18 scenarios, batches of 2 completions |
| `io_ring` | violation: `poll()` while completions of the last batch are left in the ring | the same |
| `io_live` | refinement of `IOTaskSpec`, `Stop()` returns, deadlines and data wake | 3 backends, 9 scenarios |
| `parts` | sockets, servers, resolver, front queue, containers, pool, buffers | see below |
| `socket_shutdown` | violation: a shutdown before the connect | as `parts` |
| `server_close` | violation: a second `PostClose()` before the first one has ended | as `parts` |
| `shared_buffers` | violation: a shared chain that begins with an empty buffer | 2 queues, 3 buffers |

Why these bounds.  Two workers are needed for every race about the scheduler role, and a
third worker finds the mutex taken or the ready queue empty like the second.  Three callers
make a waiter list in which one waits behind another while a third one comes.  One
task is enough for its own life since tasks only meet in the queues; two are needed for
their order.  The batch of the scheduler is one per worker (`ExecBatch = 1`), so that with two
workers a batch has room for one task: the limit is met all the time.  Two clients race for one status.  The ready queue
gets three items: with sub-queues of one each push opens the next sub-queue, and the third one fills again what both
consumers have left and was recycled; with sub-queues of two, two items meet in one,
pending or exposed.  Three items let a producer push a list
while another one holds the address of an item that has been popped and pushed
again.  `MaxItems` and `MaxReserve` bound what would grow in the queues.

`IOCore`: the scenarios, in `MCIOCore`, keep each instance to what one question needs: one
worker that schedules and executes, with `Stop()`, `Start()` and breaking sockets;
two workers, one of which executes while the other one schedules; two tasks in the
queues of one worker.  `MaxTime = 1` gives a deadline that is passed, one ahead and none.
`RingSize = 1` makes a ring too small for an operation and a cancel, so submissions are
left over; `KernelBatch = 2` makes the third completion (a task's operation, its cancel and the read
of the signal may end together) one that is left over from a full batch.  Only `io_live` takes all
completions in a round (`KernelBatch = 7`: three kinds for each of two tasks, and the read of the signal):
what is left over is not announced, so that liveness under io_uring is true only of fewer completions
than the 1024 of a batch, see `io_ring` below.  epoll and kqueue keep what exceeds their batch
of 1024, and say so as long as it is there, so their harvest takes all.  `io_live` has a stop with one
deadline ahead for each way to sleep (a poll beside the kernel's queue, the harvest itself).  kqueue's
liveness is epoll's: it has the same wait.

`parts`: one caller for a socket, whose calls and wakeups interleave with the
worker's steps, at most two lives and one unit of data, which the shutdowns (before and after
the connect), the reopenings and SSL's two queues all meet; three requests of names, one of them
blocking, with a batch of one (ten in the code); lists of three items; a heap of six, three
levels, with two keys so that there are ties; two threads with chains of two
(`PoolBatch`) and six objects, so that chains move to the global pool and back; streams of four
buffers of two bytes and six bytes in all; three buffers in three patterns of
sharing.  `MaxPeers`, `MaxObjects`, `MaxWritten` and `MaxBuffers` bound what would grow.

The scheduler's `scheduler` run posts tasks with a deadline ahead (that may pass at any
moment) or infinite, the latter only amid the controller's calls, where the client does not
signal either; the absent deadline, which behaves as one already passed, is in the other
runs of the module.  Liveness of a task is claimed of a scheduler that is left running in the end:
`Stop()` and `Start()` without an end may keep a task from being executed.

Fairness.  A thread inside a method keeps running (weak fairness of its step).  The system's
mutexes and the weak compare-and-exchanges do not fail one thread for ever (strong fairness
of the steps that take them).  A timed wait ends once a deadline of the heap has passed, a
task's callback returns, the controller finishes its call and starts the scheduler.
Nobody has to post, wake up or signal, no deadline has to pass, no wait has to end
unasked, and an owner of the mutex that sleeps may do so for ever.  In `IOCore` the
threads run, callbacks return, clients end the call they are in, `Stop()` ends what it
has begun, the clock ticks and the kernel finishes what was cancelled and its own
operations; no peer has to send anything and no owner has to close.  A socket's task is
executed as `IOTaskSpec` promises; the resolver runs when it is awake.

Deadlock is not checked in the runs of the core and of the parts: a core whose tasks are closed, a
closed socket or a stream at its bounds really stops, and so does a process whose assertion has failed.

## The proofs

For every number of workers, callers, tasks, clients and every batch size.

`TaskLifecycleProofs`: `TypeCorrect`, `WakerIsUnique`, `QueueIsUnique`, `ExecutesReady`,
`ExpirationIsTrue` and the action property `WakeupsAreKept`.  The properties are inductive
together with one more fact, `ParkedIsNotPending`: a task that sleeps has a status other
than PENDING until it is dispatched.  Without it nothing would forbid a client that
pushes a task to meet it in the heap.  Assumption: `NoTask` is not a task.

`InterruptibleMutexProofs`: `TypeCorrect`, `Exclusion`, `AssertionsAreTrue`,
`WaitersAlive`.  The invariant ties the two bits to the world: TAKEN is set exactly while
somebody owns the mutex, where a caller whose signal was sent owns it already;
HAS_WAITERS exactly while somebody is in the list, about to join it or just popped from
it; what a branch has found out under the inner mutex stays true while it holds it.
The exclusion alone is not inductive, since an exchange that finds the bit clear says nothing
about owners unless the bit and the owners agree.  Assumptions: workers and callers are
disjoint, `NoThread` is neither.

`WaitersInOrder` (the action property `NoOvertaking`) follows from that invariant and from
three lemmas about the list: a step that does not touch it, an append and a pop all keep
the order.  The half about newcomers uses that an exchange which finds TAKEN clear finds
HAS_WAITERS clear too.

`SignalProofs`: `TypeCorrect`, `ProbeIsUnique`, `WakeupsArrive`, `DeletionIsSafe`.  The
invariant adds who may be where (senders in `Send()`, receivers elsewhere), who holds the
mutex of the signal (`LockHeld`), that the signal is not set between a receiver's check
and its wait, since that takes the mutex (`NoSignalBeforeWait`), and, when the object is
deleted, that its one sender is past its last access (`SenderLeaves`).  `Implements` maps
every step to one of the flag of `SignalSpec`, or to none; that a receiver with nothing
to give back had found no flag, or waited with a deadline, takes one more fact
(the second check is for timed receives only, in `Roles`).  Assumptions: senders and
receivers are disjoint, `NoThread` is neither.

`TaskSchedulerProofs`: `TypeCorrect`, `SchedulerIsUnique`, `SleeperWakes`,
`SignalIsPassedOn`.  `SleeperWakes` needs `NothingUnannounced`: from the moment the
sched-thread has emptied the front queue until it unlocks, whatever is in the queue has been
announced by a signal that is there or on the way.  `SignalIsPassedOn` (the property
`SomebodySchedules`) is about the signal of the ready queue, which is passed on from
worker to worker.  Assumptions: a finite, non-empty set of workers, a positive
batch, special values outside of the sets.

The same module: `Implements` (the scheduler implements `TaskLifecycle`, for its
steps: without the fairness), `TasksAreUnique` (`NoDuplicates` for the queues and the workers' hands,
and for the heap and those who are about to push a task `OneQueue` and `OneWakerPushes` of
`TaskLifecycle` under the mapping), `OrderIsFair` (`FairOrder`)
and `JourneyIsSafe`, which carries the theorems about the life of a task over to the
scheduler.  The invariant `TInv` says where a task can be among the lists and the hands.
It is not inductive by itself: that a task which a client is about to push is in no list
follows from the status, so from the invariant of `TaskLifecycle` under the
mapping.  The two are proved together: a step preserves `TInv` and maps to a step of
`TaskLifecycle` (or a stutter), which preserves the other one.

`IOCoreProofs`: `TypeCorrect`; `SchedulesAlone`, that one worker at a time is in
`PrivScheduleDo()` and nobody else has what it took from the kernel; `SchedulerIsReached`
(the property `SleeperIsReached`), for batches and submission queues of any size.  The invariant
`ReachInv` says what the sleep rests on: since the front queue was emptied, who has filled it
again has sent the wakeup, is about to, or the kernel has turned it into a completion
(`FrontIsAnnounced`); the read of the wakeup is in the kernel, completed, in the harvest or in the list to
submit, so that a full ring never loses it (`ReadIsKept`); and nobody but the sched-thread fills
the queues that it has found empty (`SleepsEmpty`).  The order matters: the harvest comes before
the front queue is emptied, so a wakeup that it consumes belongs to tasks that are taken afterwards.
`SchedInv` has the completions: after a harvest they are announced, or the batch was full
(`DoneIsAnnounced`).

`IOCoreOwnership`: every other safety property of `io_core`, with any of the four backends
and whatever the scenario has of closes, wakeups, deadlines, broken sockets, `Stop()` and
restarts: `TaskHasOneOwner` (`OneOwner`), `EdgesAreKept` (`NoEdgeLost`), `AssertionsAreKept`
(`AssertionsHold`), `ClosedIsForgotten` (`KernelForgetsClosed`), `CountsOperations`
(`OperationsAreCounted`), `CountIsTrusted` (`CountCoversTasks`).  All but the last follow from
`TasksAreOwned`, the invariant `OwnInv`:

* a task has one seat: the front queue, the ready queue, the hands of one thread, or none
  (`QueuesApart`, `SeatsApart`);
* its status, close guard, `inQueues` and events are what they are to be in that seat
  (`TaskFits`): one that is queued is not WAITING, so that `PostWakeup()` and `PostClose()`,
  which push the task when they have found it WAITING, never meet it in a queue;
* the flag that a task waits for, where there is data for it, is in the kernel, in
  the harvest or among the task's events (`FlagsFit`);
* each operation is in one place only, among the task, the submissions, the kernel, the
  completions and the harvest, and the task's counter and its locks agree with the sum
  (`OperationsFit`, `KernelFits`).

None of them is inductive alone.  That a task is not pushed twice rests on its status; that
the status is right on arrival rests on its seat; and that a closed task is
released only when the kernel has forgotten it rests on the count of its operations.
`CountIsTrusted` adds `CountIsRight`: the count of the core is the number of attached
tasks and of threads that are still to let one go.  The step of the sched-thread is proved
once for what the backends share and once for each way to report events: flags (epoll,
kqueue) and operations (io_uring, IOCP).

`OwnerIsServed` is the refinement of `IOTaskSpec`, for its steps: under the mapping of
`IOCoreBackends` every step of the core is one that the owner of the task may see, or none.
The status and the seat of a task decide the phase its owner sees, so each action is
compared task by task: what it does not touch stays (`Untouched`), what the sched-thread
takes out of the front queue or the kernel is at most woken up, and only a call, a close and
a new post change the phase.  The one case that needs more than `OwnInv` is a closed task
that is awake: it is one that is being posted anew (`AwakeIsOver`).

Assumptions: finite sets of workers and tasks, workers and clients are disjoint, `NoTask` is
not a task, positive batches and ring, scenarios of the form that `IOCore` gives.  `MaxTime`
bounds the clock in the theorems too, but by any number.

`MultiConsumerQueueProofs`: `Invariant`, `StateIsRight` (`QueueInv`) and `ItIsFifo` (the
refinement of `FifoQueue`), for any finite set of consumers, any sub-queues and any of their
sizes.  The properties say little about why they hold; the inductive invariant `IInv` numbers
the items as they are pushed and says that there are a number `n`, of items taken, and for
each sub-queue a `start`, the number of its first item, such that

* sub-queues that are written up come first in the list, then the one at `wpos`, then
  clean ones (`ListOK`); what is pending or in the hand of the producer follows the
  published items (`ProducerOK`, `ItemsOK`);
* the cells of a sub-queue hold a run of items from `start` on, its read index is
  where item `n + 1` is, before it or behind it, and the starts are a whole sub-queue
  apart, except where everything between has been taken: a sub-queue recycled from the
  middle of the list leaves no item behind (`Order`);
* a consumer never is in a sub-queue that starts behind item `n + 1`, and the item that it is
  about to take by its exchange is the one at the index it has loaded (`ConsumersOK`), so
  that a successful exchange takes `n + 1`, even when the sub-queue was recycled in between:
  the consumer is counted in it (`AttachedOK`), so it was not;
* the count is what is left, what has been taken and not counted yet, and what is counted
  ahead of its publication (`CountOK`).

`n` and `start` are bound in the invariant, not state: they are what the code knows only
implicitly.  From `IInv`, `Visible` (the items of all sub-queues, one after
another) is the run from `n + 1` to `published`, which needs the lemmas on flattened
sequences, and so each step maps to one of `FifoQueue`.  Pop() answers "nothing" only
at an empty place in the sub-queue at `wpos`, and by `Order` nothing is left before it then.
Assumption: the consumers are finitely many (they are threads), else their
number means nothing.

`PartsProofs` has the parts around the scheduler and the core.

* `FrontQueueKeepsItems` and `FrontQueueIsQueue` (the refinement of `PushQueue`).  The
  invariant `FrontInv` says that three chains of links, from `head`, `curr` and `prev`, end and
  share no item with one another, with the lists of the producers or with what is free
  (`Chains`, `Apart`), and that the links of a producer's list are those it has made
  (`ProducerFits`).  It says nothing of `oldHead` but that the last item links to it.  That is
  why ABA does no harm: when the exchange finds the head equal to `oldHead`, the last item
  links to what *now* begins there, whether or not it was popped and pushed again
  in between, and the push appends; and it is null exactly when the queue is empty now.
* `SocketIsSafe` (`SocketAssertions` of sockets) and `SubscriptionIsTold` (`ToldInOrder`).  The
  invariant `SocketInv` ties the state of the socket, the phase of its task and the worker's
  place in `OnEvent()` to one another (`PhaseFits`); it says that what nobody uses is like new
  (`Fresh`), that of a connect, an attach, a handshake and the I/O one is going on, either in
  the front control message or in the worker's (`StagesApart`), and what a control message
  that SSL has given may be merged with (`CtlFits`).  The assertions of the code alone
  are not inductive: that an opened socket is like new is decided by the close before.  The
  theorem has every order of calls; only the assertion that fails, of a connect after a shutdown,
  is no part of it (`ShutdownIsNotFirst`, see below).
* `ServerIsSafe`: the assertions of `TCPServer`, by where task and subscription are in each
  state (`ServerStages`), however often it is closed; and that `PostClose()` fails its own only while
  an earlier close is under way (`ServerDied`).
* `RequestsStaySafe` (`RequestsAreSafe`), for any requests and batches.  In the invariant
  `DomainInv` a request is in one place on its way through the front list, the main queue and
  the hands of the thread, and in one on the way of its cancellation (`Places`); it is in the
  first exactly while its user waits for an answer or has cancelled (`UserFits`).  So a cancel that
  finds it in the main queue answers it, and one that comes late only gives its
  reference back.  The number of references is the number of holders.
* `PoolIsKept` (`PoolKeepsObjects`), for any threads, objects and size of a batch.  `PoolInv`
  adds to the property what it rests on: a chain in the global pool is never empty and is as
  long as its size says, so that the next thread finds a container in it (`PoolSized`),
  and an object is nowhere before it is created (`PoolPlaced`).  An object may be freed by
  another thread than allocated it: the proof never asks which thread had it.
* `HeapStaysTrue` (`HeapIsTrue`), for any items and keys: the comment of `PrivUpdate()`
  (`BinaryHeap.h:568-591`) argues that an item goes up or down, never both, and this is the
  proof.  `HeapInv` looks at the tree with the item that moves in its place (`Logical`).  All
  places but that of the item are in order with their parents while it goes up (`Rising`), all
  but its children while it goes down (`Sinking`), and in both cases the children are in order
  with the parent of the place (`Passed`): without this an item that goes up could leave a
  disorder below itself, which the code would not look for.  `OneChanged` shows that whatever an
  operation changes, at one place, begins with that, and `UpdateBegins` that
  `PrivUpdate()` finds the right direction.

Assumptions: items are finitely many and `Null` is none of them, `NoRequest` is not a
request, a batch of the pool is at least one (a `static_assert` of the code), keys are
integers.

The invariants that are proved and not among a run's properties (the types, `OneQueue`,
`ReadyToExecute`, `ExpiredIsTruthful` of `TaskLifecycle`, `AssertionsHold` of the mutex,
`ProbeHasOneSender`, `OneScheduler`, `TInv`, `SchedInv`, `ReachInv`, `OwnInv`, `IInv`, `FrontInv`, `SocketInv`, `ServerInv`,
`DomainInv`, `PoolInv`, `HeapInv`) hold for every instance, so
for those of the runs.


Only model-checked: all liveness properties (fairness and ENABLED are beyond the
prover), so also the fair half of the refinements of `TaskLifecycle`, `SignalSpec` and
`IOTaskSpec`, and `PostedIsTaken` and `EveryRequestEnds` of `parts`.  Of the
containers, `ForwardList` and `DoublyList`, and the two kinds of buffers (together
`ListsAreTrue`): what they compute is compared with a reference by walks and folds over data
of any length, which need induction over data.

## What the code does other than it says

* `scheduler_is_empty`: `IsEmpty()` looks at the workers first and at the ready queue
  last.  A worker it has seen idle may wake up, pop the last task and run it before the
  count is read, so the answer may be true while a task runs, which the comment at
  `TaskScheduler.cpp:54-57` sets out to avoid.  `WaitEmpty()` polls the same answer.
* `shared_buffers`: `BufferLinkList::SkipEmptyPrefix()` (`src/mg/net/Buffer.cpp:85`) drops
  an empty buffer by moving the link out of it.  When another queue holds the same buffer,
  its chain now ends there and the rest is never sent, although `Buffer.h:132-135` calls
  it safe to send the same buffers in parallel.
* `io_ring`: with more completions than one batch takes (1024 in the code), the rest stays in the
  ring.  When the count of the eventfd was read before, and the batch has made no task ready (closing
  tasks that still wait for another completion, and the wakeup), `poll()` sleeps until something else
  comes, with completions in the ring, although there is "no work to do anywhere"
  (`IOCore_iouring.cpp:469-482`).  The run needs one closing task and a batch of two.
* `socket_shutdown`: `PostShutdown()` of a socket that was posted as a task is accepted
  (`TCPSocketIFace.cpp:197-204`), and `Connect()` in the worker then fails the assertion that "Shutdown
  couldn't be requested before" (`TCPSocketCtl.cpp:133-137`), unless the worker has taken the shutdown
  over in between.
* `server_close`: `TCPServer::PostClose()` of a server that is CLOSING, or CLOSED with a worker that has
  not cleared `mySub` yet (`TCPServer.cpp:102-108`), fails the assertion `mySub == nullptr`
  (`TCPServer.cpp:59-60`).

The following came up while modelling; each is what the code does, and the models
either do the same or say that they stay clear of it.

The scheduler and its queues:

* With one worker and a sub-queue size of one the loops `while (++batch < maxBatch)` of
  `PrivSchedule()` (`TaskScheduler.cpp:217`) handle no task: a posted task never runs,
  although the size is only asserted to be above zero.
* `MultiConsumerQueueBase.cpp:454` decides what `Push()` returns by a count that lags
  behind the pops, so the push that makes a queue non-empty for consumers that have found
  it empty may return false (`.h:83-88` offers the result as a reason to signal them).
  The scheduler signals regardless.
* `Task::ReceiveSignal()` "can be called anytime" (`Task.h:509`), but asserts that it is
  called while the task is executed.

The socket scheduler:

* epoll: the event that wakes the scheduler for `Stop()` may be consumed by the harvest;
  with a task that has a deadline the scheduler then sleeps in `poll()` until that passes
  (`IOCore_epoll.cpp:339`; the state is looked at only without a deadline, 350-354).
  `Stop()` returns, later.
* epoll and kqueue: `Accept()` after a non-critical error only returns an empty result,
  while `IOTask.h:501-502` says that the task was re-scheduled.
* `Reschedule()` sets the deadline to zero, so `IsExpired()` is true in the next call of a
  task that had no deadline; `IOTask.h:367-369` says it is "always false" then.

Sockets, servers, buffers:

* A shutdown that meets a socket still to be attached finds no socket and is forgotten
  (`TCPSocketCtl.cpp:204-220` waits for a connect only).
* `IsClosed()` is true (`TCPSocketIFace.cpp:418`) before the worker has cleared its
  members (424-432); a reopening is safe from `OnClose()` on.  Data posted after the close
  stays for the next life.
* An SSL socket may hand data to `OnRecv()` before it calls `OnConnect()`, when the peer's
  bytes come with the last ones of the handshake (`SSLSocket.cpp:134`).
* `BufferStream::WriteCopy()` (`Buffer.cpp:199-210`) takes the buffer it writes to for
  the last one with space.  With more than one it forgets the rest or fails an assertion.
  The model's two styles of writing keep clear of it, as the library does.
* A `ForwardList` made by a move from an empty list keeps the address of the other
  list's first link (`ForwardList.h:211-217`).  Nothing in the library does that.
* The branch of `DomainToIP` for a wait that has timed out with no request is never taken.

## What is not modelled

The memory orders of the atomics: every access is sequentially consistent here.  The
coroutine interface of tasks and sockets, which wraps the same calls.  `WaitEmpty()`, which
polls.  The iterators of the lists, the conversions of buffers to `IOVec`s and the copies
into chains of buffers.  `SharedPtr` and `RefCount`, one atomic counter whose use that
races is in `DomainToIP`; the destructors, which only assert that all is over.
Allocation failure and process crashes: nothing is persisted.  OpenSSL, address parsing,
system calls, error texts, strings and the blocking sockets of `sio`: not this
repository's protocols, or pure functions.

Four simplifications to know of.  The queues and signals inside of both schedulers are
atomic, as their own modules show them to be.  In `IOCore` a task has one kind of operation
in a scenario, at most one of them and one cancel at a time.  In `TCPSocket` data is counted
in units, and a transfer is partial only between units.  The parts of `MCParts` do not meet
one another: a socket sees of the resolver and of the core what these promise.
