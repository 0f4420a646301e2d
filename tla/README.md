# TensorPipe in TLA+

TensorPipe moves messages (metadata, payloads and tensors) between processes.
This directory holds TLA+ modules translated from its source, the
configurations that check them with TLC, and proofs checked with TLAPS.

## The system

A user creates a **context**, registers **transports** and **channels** with it,
and gets **pipes** from `connect` or from a **listener**. A pipe sends
descriptors, payloads and replies over transport connections, and tensors over
channels, which in turn use connections of their own. Every operation is
asynchronous and ends in a callback.

| part | source (under `src/tensorpipe`) | modules |
|---|---|---|
| deferred executors: every object below runs its code as tasks of one | `common/deferred_executor.h` | `DeferredExecutor`, `SerialExecutor` |
| operation state machine | `common/state_machine.h`, `common/callback.h` | `PipeState` and `Pipe` (step by step), `OpsStateMachine` (as operators) |
| pipe: reads and writes | `core/pipe_impl.cc` | `PipeState`, `Pipe`, `MessageStream` |
| pipe: handshake; listener; context | `core/pipe_impl.cc`, `core/listener_impl.cc`, `core/context_impl.cc` | `Handshake`, `Selection` |
| what a process can use and with whom | `create` and `canCommunicateWithRemote` of every transport and channel | `Descriptors` |
| ring buffer in shared memory | `common/ringbuffer*.h` | `RingBuffer`, `BoundedStream`, `RingBufferOps` |
| contexts, listeners of transports | `transport/*_impl_boilerplate.h` | `TransportContext` |
| shm, uv and ibv connections | `transport/{shm,uv,ibv}`, `transport/connection_impl_boilerplate.h` | `Connection`, `ShmConnection`, `UvConnection`, `IbvConnection` |
| polling loops | `common/busy_polling_loop.h`, `common/epoll_loop.*` | `EpollLoop` |
| contexts of channels with a copying thread | `channel/context_impl_boilerplate.h`, `channel/{xth,cma}/context_impl.cc` | `ChannelContext` |
| channels | `channel/channel_impl_boilerplate.h`, `channel/*/channel_impl.cc` | `Channel`, `ChannelOps` and one module for each channel |
| staging buffers, CUDA callbacks | `common/allocator.cc`, `common/cuda_loop.cc` | `Allocator`, `CudaLoop` |

What makes it hard: tasks of many threads funnelled through loops that borrow
threads; operations that overlap but must not overtake each other; callbacks
that hold pointers to operations an error may finish; two ends that agree on
what a read carries only through the order of their calls; memory shared
between processes; bounded buffers waited for in a chain; a teardown that waits
for every object. `PROJECT.json` lists these hazards with their lines.

What the system should guarantee: tasks of one loop never overlap and run in
order; every deferred task runs; the ends of a pipe agree on what each read
carries; messages arrive once, whole and in order; callbacks come once each and
in order, with an error if need be, for all operations, those begun after the
error included; no callback touches an operation that was freed; no wake-up is
lost; close and join end.

## Modules

A module that specifies a component has its state as variables, one action for
each operation, task or step of a thread, and its properties at the end. An
`MC` module instantiates components for TLC. Where several components are asked
the same question, one `MC` module holds them all: a behaviour starts by picking
a scenario, that is a component and what its users do, and takes only that
component's steps from then on.

Operators whose comment begins with "Faulty variant" are deliberately wrong
versions of the definition that follows them. Nothing uses them; they are the
changes to the code that the properties are meant to detect.

### DeferredExecutor

Each critical section of a mutex is one action, and so are the start and the
end of a task. A task is the number under which it was enqueued.

- `fns`, `batch`: the functions deferred to the event loop and those its thread
  swapped out and has yet to run. `consumer` is
  `isThreadConsumingDeferredFunctions_`.
- `pendingTasks`, `currentLoop`: the on-demand loop.
- `pc`, `running`, `awaiting`: for each thread, where it is in the executor,
  the task it is inside of, and the task whose future it waits for.

`DeferToLoop` is the first critical section of
`EventLoopDeferredExecutor::deferToLoop`; when it finds the thread gone, the
caller goes on to `OnDemandPush`, another critical section, and any other
thread may act in between. `RunDeferredFunctions`, `EventLoopReturns` and
`DrainOrHandOver` are the life of the loop's thread. The event loop of a
subclass is left abstract: it runs deferred functions and may return at any time
between batches. A task may defer others. Whether it blocks on another loop is
left out, and so is `runInLoop` from a thread that is already in the loop, which
runs the function inline and changes nothing here.

### PipeState and Pipe

`PipeState` has the state, the guards of the transitions and the invariants;
`Pipe` has the actions and the specification.

Both ends (`Pipes`) run on loops that were shown to be serial, so that a task
runs alone on its end. A task is split into steps, one for each successful
`attemptTransition` and one for each move to the next operation; `todo[p]` is
what remains of it, and no other task starts on `p` meanwhile. The other end,
though, acts at any moment.

- `readOps`, `writeOps`: all operations so far. Those that the code popped are
  the finished ones at the front (`Front`).
- `ins`, `outs`: the reads and writes (`recv`s and `send`s) posted on the
  descriptor connection, the reply connection and the channel; `insDone`,
  `outsDone`: those whose callback has fired. The i-th read of a stream gets the
  i-th write of the other end, which is what connections and channels promise.
  Callbacks of a connection fire in order, those of a channel in any order.
- `readDescriptorCalled`, `readCalled`, `writeCalled`: the calls of user
  callbacks, with the operation and whether they carried success.

What the users ask for follows one of `Sessions`: the messages written at each
end and the number of reads. A message is its *shape*: how many payloads and tensors, and whether a target
device is missing, in which case the writer waits for a descriptor reply. The
contents of descriptors are carried from the write to the matching read
(`DescriptorAt`). A callback may carry an error at any time (`ok` false): it
then sets `error_`, closes the streams and advances all operations before its
own body runs, as `CallbackWrapper` does.

`connectionState_` and `messageBeingReadFromConnection_` exist only for debug
assertions; `StreamsAgree` states what they guard. The check of an allocation
against its descriptor concerns a misuse by the user and is left out.
`Establish` stands for the end of the handshake. Several channels between the
ends act as independent copies of the one modelled.

### RingBuffer

Any number of instances of `NumRoles` roles share a header and a data pool. The
last role fills the pool, role 0 frees it; shm uses two roles, the outbox of ibv
three. Every access to the header is a step and every byte of a `memcpy` is one,
so that instances in other threads and processes act between any two of them.

- `markers`, `inTx`: the markers and the flags in the header. They are read and
  written with acquire and release order, so that a byte copied before a marker
  moves is seen by whoever reads the marker; the model has no weaker order.
- `pc`, `txSize`, `access`, `copied`: where an instance is in its transaction,
  what it has claimed, and how far the current copy is.
- `data`: for each slot, who wrote it and for which position: enough to tell a
  byte in the wrong place, or of a cancelled transaction, from the right one.
- `author`: history of who committed each position.

`Claim` is the part of `accessContiguousInTx` that moves `txSize_`. It reads two
markers, of which its own cannot move meanwhile, so that one step is enough; the
other may have moved by the time of the copy. `SlotOf` are the one or two
buffers it returns. Calls that fail (`EAGAIN`, `ENODATA`) change nothing.
`CommitTx` and `CancelTx` end before the flag is cleared, which is
`EndTransaction`. `Crash` is the death of a process inside a transaction. `read`
and `write` are sequences of these steps. Markers do not overflow in the model:
`MaxMarker` bounds them. The network card that fills the ibv inbox, after which
the last role only moves its marker, is in `IbvConnection`.

### RingBufferOps

The read and write operations that move a message, its length first, through a
ring buffer in as many transactions as it takes. Here a transaction is one step
and the ring buffer a sequence of bytes, which is what `RingBuffer` implements.
A libnop object is serialised in the ring buffer itself and only if it fits as a
whole.

### Connections

`Connection` is `ConnectionImplBoilerplate` around two ends of a connection:
calls, errors, the order of callbacks. The three transports supply the rest.
The socket may fail already in `initImplFromLoop` (`Failing`). In ibv that comes
before the queue pair is created and `handleErrorImpl` dereferences it all the
same (`transport/ibv/connection_impl.cc:497`): the process ends there
(`crashed`).

- `ShmConnection`: the exchange of file descriptors and reactor tokens over the
  socket, `processReadOperationsFromLoop` and `processWriteOperationsFromLoop`,
  and the triggers. The reactor threads of the two ends interleave between the
  commit of a transaction and the trigger that follows it. Triggers for a
  connection that had the same token before may still arrive (`stale`). The
  number of tokens that fit in a reactor's ring buffer is not bounded: a full
  one makes the writer spin, and that two reactors may do so for each other is
  accepted in a comment of the code (`transport/shm/reactor.cc:29-34`).
- `UvConnection`: libuv cuts the stream anywhere, within the sizes of the
  sockets, and calls back in its own time. After `uv_close` write requests come
  back cancelled, and the close callback unenrols the connection.
- `IbvConnection`: writes and acknowledgements as work requests, the limits of
  the reactor on both and its queues of those that wait, completions polled in
  batches, the flush of a queue pair put in error, and the deferred clean-up.
  The devices are external: they serve the requests of a queue pair in order, and
  only while the other end has a receive request posted.

### Contexts and loops

- `TransportContext`: enrolment of listeners and connections, `accept` and the
  connections that come in, error and close of each, close and join of the
  context. shm and ibv keep callbacks in a queue and leave connections in the
  socket; uv accepts at once and keeps connections (`RearmableCallback`). The
  loop of ibv ends only when no queue pair is registered (`ReadyToClose`); how a
  connection gets there is `TryCleanup` here, and in detail in `IbvConnection`.
  A second `join` finds `joined_` set and returns at once, although the first one
  may still wait: what `join` promises is checked for the first.
- `ChannelContext`: the same for channels, with the thread that serves the copy
  requests of xth and cma and the queue (`common/queue.h`) between them.
- `EpollLoop`: the epoll thread, the thread of the busy polling loop, the
  records that tell an event of a closed descriptor from one of its successor,
  the handing over of each batch of events, and the end of both threads: the
  epoll thread leaves when the loop is closed and no handler is left, the other
  returns from its event loop and runs the functions still deferred (`WindDown`).
- `CudaLoop`: CUDA's own thread, the loop's thread, and close.

### Channels

`ChannelOps` has what all channels do to the record of an end, `OpsStateMachine`
the deque of operations, and `Channel` the boilerplate around a channel's code:
`send`, `recv`, `close`, and the tasks into which `CallbackWrapper` puts every
callback. A task runs alone on its end, as shown for the executors, so that an
operation with all the transitions it provokes is one step; in `Pipe`, where
the order of transitions is the subject, they are steps of their own. The
connections below a channel are what the connection modules show: in order, all
called back, failing at any time if asked to (`CanFail`) and once an end is
closed.

| module | beyond `send`, `recv`, errors and close |
|---|---|
| `BasicChannel` | |
| `XthChannel`, `CmaChannel` | the thread that copies from the sender's memory; what it finds there depends on whether the sender's callback was called |
| `MptChannel` | lanes, their hellos and registrations with the server's context; chunks of unequal length |
| `CudaXthChannel` | the streams of both ends, each at its own pace; events between them |
| `CudaIpcChannel` | slots of the outbox, their events, the GPUs' copies in any order the events allow |
| `CudaBasicChannel` | staging buffers of both ends, the copies, which may fail, the CPU channel, which may call back out of order when it fails |
| `CudaGdrChannel` | the handshake, queue pairs between all NICs, slots, requests that wait, transfers and the completions that each end polls later, clean-up |

A buffer is its number of bytes or chunks; what it holds is the number of the
send it belongs to.

### Handshake, Selection and Descriptors

`Handshake` follows the pipes of several clients and of one server through
brochure, answer and connection requests, with the listener's registrations and
connections that wait for a hello, and the server's context with its close and
join. The transport's listener may fail an accept, and the write of the answer
may fail. An assertion that fails in the choice of channels is thrown out of the
loop and ends the process: of the client (`THREW`), or of the server with all it
was doing (`threw`). `setup` is what is registered at both ends; it never
changes. `Selection`
has `selectTransport` and `selectChannels` as operators, and `Descriptors` what
they work on: for a process given by its namespaces, credentials, security
modules, GPUs and NICs, which contexts are viable, what their descriptors hold,
and `canCommunicateWithRemote`, with the cases in which it throws (`Throws`). `Works` is external: what the kernel, CUDA and
InfiniBand allow between two processes. The handshake ends where `Pipe` begins
(`Establish`).

## Runs

| run | checks | scenarios and bounds |
|---|---|---|
| `executor` | `MutualExclusion`, `InLoopIsRunningThread`, `NothingStranded`, `BeginInOrder`, `ExecutorInv`, `SerialSpec`, `EveryTaskRuns`, `RunInLoopReturns` | 2 user threads, the loop's thread, 5 deferrals |
| `executor_same_thread` | `SameThread`, violated | 2 deferrals |
| `pipe` | `StreamsAgree`, `NoDanglingOperation`, `ReadCallFindsItsMessage`, `NothingLeftToAdvance`, `CallbacksInOrder`, `NothingPostedAfterError`, `StreamSpec` | 2 messages one way, of different shapes: a payload, a tensor, a tensor without target device; or one message each way |
| `pipe_live` | `AnsweredAfterError`, `WritesAreAnswered` | 2 messages without target device |
| `ring` | `RingInv`, `ClaimsDisjoint`, `ContentsIntact`, `CopiesCommittedBytes`, `BoundedStreamSpec` | the three roles of the ibv outbox with two producers, pool of 4, accesses of 2 and 3, 6 bytes in all |
| `connections` | `Answered`, `ReadsWhatWasWritten`, `NoneForgotten`, `RequestsAccounted` | each transport with up to 3 messages one way and with messages both ways; ibv with requests that wait in the reactor when an end fails |
| `ibv_reclaim` | `RequestsReclaimed`, violated | 2 messages, either end may close |
| `contexts` | `NothingAfterJoin`, `ServedInOrder`, `JoinReturns`, `AllServed` | a transport context with a listener and 2 connections made or accepted, for shm, ibv and uv; 2 channels with a receive each; 2 files on 2 descriptors; 3 CUDA callbacks |
| `channels` | `NoDanglingIterator`, `AllCalledBack`, `NoneStuck`, `ReceivedIntact`, `SentMeansTaken`, `ResourcesKept` | 11: each of the eight channels with 1 to 3 buffers one way, of 0 to 3 bytes or chunks; mpt from the client and from the server; cuda_basic over a CPU channel that calls back in order or not; cuda_gdr with one NIC and with two |
| `mpt_empty` | `AllCalledBack`, violated | an empty buffer between two others, no error |
| `cuda_gdr_empty` | `ReceivedIntact`, violated | an empty buffer between two others |
| `handshake` | `NoLooseEnds`, `ConnectionsMatched`, `NeverHalfway`, `SelectionsAgree` | one client and everything that may be closed; two clients at one listener; one client for each of 384 setups; one client for each pair of some fifty kinds of processes with each of five pairs of channels |

Why the bounds are enough:

- Executor: five deferrals let both users and a running task defer before,
  during and after the handover, with another task queued behind.
- Pipe: two messages are what it takes for one operation to overtake, unblock or
  outlive another, since every transition looks only at the operation before;
  the shapes give a message that waits for its reply before and after one that
  goes out at once. A message without target device goes through every
  state of both state machines, which is why the liveness run uses it alone. In
  both directions at once the reads and the writes of one end meet in its error.
- Ring: six bytes through a pool of four let an access of either size wrap
  around and slots be used again; two producers let one meet what the other
  cancelled or left behind.
- Connections: messages longer than the ring buffer or inbox, one that is empty,
  and libnop objects that fit only in an empty ring buffer; for uv a header that
  is cut. One request of each kind at a time makes the queues of the ibv reactor
  fill up; in "ibv, closing" several are out when an end closes, and in "ibv,
  waiting" some are not posted yet.
- Contexts: two objects let one be created or come in while the context is
  closed; two descriptors let one be closed and used again between `epoll_wait`
  and the handling; three callbacks let one be added before, during and after
  close of the CUDA loop.
- Channels: three buffers, one of them empty, let an operation finish before an
  earlier one; a single slot or staging buffer makes every chunk wait for the one
  before. Connections of basic, xth and cma, and those of cuda_basic with a GPU
  buffer only, fail at any time; those of the others once an end is closed or a
  copy has failed, which leads to the same handlers. basic and that cuda_basic
  are closed at either end and the others at one; mpt only in the scenario from
  the server, and cuda_gdr only with one NIC. A context has
  one channel: that several channels of cuda_ipc share an outbox is not exercised.
- Handshake: two clients are what it takes to confuse connections; a channel of
  two connections is completed by either first. The user accepts once in
  "closing" and twice in "two clients", where nothing fails: the order of several
  accepts is not checked together with errors.

Symmetry: only the ring's two producers are declared interchangeable; that run
has no liveness property. Deadlock is not
checked: once the bounds are used up, and everything is answered, nothing is
left to do. That nothing stops earlier is what `NothingStranded`,
`NothingLeftToAdvance`, `NoneForgotten`, `NoneStuck` and `NeverHalfway` say.

### Fairness

- Executor: a thread that can go on does (`OnDemandPush`, `OnDemandNext`,
  `GetFuture`, `BatchNext`, `DrainOrHandOver`), tasks return, and the event loop
  runs the functions it was woken up for, as the comments on
  `wakeupEventLoopToDeferFunction` demand. Nobody has to defer or to stop the
  loop.
- Pipe (`FairSpec`): a task runs to its end, and streams call back when they can
  or when an end has closed them. Users have no obligations; `WritesAreAnswered`
  has as its premise that the handshake ends and that they keep reading
  (`KeepsReading`). Without it a write may wait for ever: that is the library's
  back-pressure. With it every write is called back, and read with success at the
  other end unless the pipe is closed or fails.
- Contexts: the tasks of a loop run, a thread that can go on does, a loop that
  may end does, `join` returns when what it waits for has happened, libuv calls
  back for `uv_close`, and CUDA calls the callbacks on its streams. The queue
  pairs of a context that is closed are cleaned up, which takes that their
  requests all complete; `ibv_reclaim` below shows when they do not. Nobody has
  to call `close`.

Connections, channels and the handshake are checked without fairness: their
properties say of each state in which nothing more can happen that everything
that should have happened has.

### Findings

- `executor_same_thread`: `README.md` says that all callbacks of a context are
  called from the same thread. The context's loop is an on-demand one, so that
  they run on whichever thread finds the loop free. That no two overlap, which
  the sentence concludes from it, is true nonetheless (`MutualExclusion`).
- `mpt_empty`: `advanceAllOperations` follows sequence numbers until
  `findOperation` returns null. An operation that finishes takes with it those
  behind it that were finished before, such as an empty buffer's; the next number
  is then no longer in the deque and the loop ends early. After an error nothing
  else advances the operations behind, and their callbacks are never called,
  against `README.md:80` and `docs/thread_model.md:94`. The run has a channel
  closed before its lanes are up, with receives of 1, 0 and 1 bytes.
- `cuda_gdr_empty`: an operation on an empty buffer is FINISHED at once, which
  satisfies the condition that the one after it puts on its predecessor. The
  third of three sends is posted before the first, while the receives are posted
  in order, and the bytes end up in the wrong buffer. The comment at
  `channel/cuda_gdr/channel_impl.cc:264` says what the condition is for.
- `ibv_reclaim`: a completion with an error never gives its slot back to
  `numAvailableWrites_` or `numAvailableAcks_` (`transport/ibv/reactor.cc:107`),
  though a connection is to reclaim what it posted
  (`transport/ibv/constants.h:62`). Requests that wait for a slot then wait for
  ever, the queue pair of their connection is never unregistered, and the context
  cannot be joined. `RequestsAccounted` excepts this one case: a queue pair is
  given up after an error unless requests of it wait in the reactor.

Because of the first two, the passing scenarios of mpt and cuda_gdr have no empty
buffers.

Met while modelling and in the modules, but not kept as runs (TLC violates each
property named here within seconds when it is added to an `MC` module; the two
ends of a process are part of what the code is modelled to do):

- `XthChannel!NotReleasedWhileCopying`: when the sender fails it calls back
  while the other end's thread may be copying from the buffer. The memory is the
  user's again (`docs/thread_model.md:94-102` says a callback must wait).
- `EpollLoop!WriteSeenFirst`: the comment at `common/epoll_loop.h:101` on the
  order of a write and of the close that follows it does not hold when both come
  between a `pollOnce` that finds nothing and the functions deferred after it.
- `IbvConnection`: a socket that fails in `initImplFromLoop` ends the process
  (`crashed`), where one would expect the connection to be in error.
- `Descriptors!CudaIpcThrows`: two processes on one machine, one in a container
  in which NVML shows only its own GPU, both with cuda_ipc: the lookup of the
  other's GPU (`channel/cuda_ipc/context_impl.cc:98-107`) throws and ends the
  process, where one would expect the channel not to be picked. `SelectionsAgree`
  says that a process ends in this case only, or when the ends rank the channels
  differently.
- `CudaBasicChannel!ChunksDoneBeforeCallback` needs a CPU channel that calls
  back in order; when xth or cma fail they do not, and the callback of a CPU
  buffer of two chunks may then come too early. `SentMeansTaken` checks it for
  the scenario with callbacks in order.

## Proofs

`DeferredExecutorProofs` proves, for any set of threads and any number of
deferrals, assuming only that the loop's thread, the users' threads and "no
thread" are different (`ThreadsAssumption`, `BoundAssumption`):

| theorem | statement |
|---|---|
| `ExecutorInvariant` | `Spec => []ExecutorInv` |
| `ExecutorTypes` | `Spec => []TypeOK` |
| `ExecutorMutualExclusion` | `Spec => []MutualExclusion` |
| `ExecutorInLoop` | `Spec => []InLoopIsRunningThread` |
| `ExecutorStrandsNothing` | `Spec => []NothingStranded` |
| `ExecutorBeginsInOrder` | `Spec => BeginInOrder` |
| `ExecutorIsSerial` | `Spec => SerialSpec` |

Mutual exclusion is not inductive: it rests on which loop is in charge and who
owns it. `ExecutorInv` says that while the event loop consumes, the on-demand
loop is untouched and no thread is on its way to it (`EventLoopAlone`); that the
thread starts before anybody defers (`UnusedBeforeStart`); that `currentLoop_`
is exactly the thread in the on-demand loop, and that tasks run only where
`inLoop` says so (`OnDemandOwner`); and that the queues hold consecutive numbers
from the last task begun on (`Consecutive`), from which the order and the
refinement follow. Each conjunct has a lemma with one step for each action that
may disturb it.

`RingBufferProofs` proves, for any number of roles from two on, any instances,
any size of the pool from two on and any sizes of accesses (`RingAssumption`; the
code in addition makes the size a power of two, so that a mask is a remainder):

| theorem | statement |
|---|---|
| `RingInvariant` | `Spec => []RingInv` |
| `RingClaimsDisjoint` | `Spec => []ClaimsDisjoint` |
| `RingContents` | `Spec => []ContentsIntact` |
| `RingCopies` | `Spec => []CopiesCommittedBytes` |
| `RingIsStream` | `Spec => BoundedStreamSpec` |

`RingInv` adds to the contents that the markers are ordered and at most a pool
apart (`MarkersOrdered`, stated for every pair of roles, since from neighbour to
neighbour it would take an induction over roles), that a role has one transaction
at a time (`OneTransactionPerRole`), that a transaction stays within a limit that
only grows (`TransactionFits`), and that what it has copied so far is in place
(`WrittenSoFar`), which is what a commit turns into contents. Two lemmas carry
the arithmetic: positions less than a pool apart have different slots
(`SlotsDiffer`), and the buffers an access returns are the slots of consecutive
positions, wrapped or not (`SlotOfIsRemainder`).

`PipeProofs` proves, for any sessions, that is any messages of any shapes written
at either end and any numbers of reads, and any two ends (`PipesAssumption`; a
message lacks a target device only for a tensor it has, `ShapesAssumption`):

| theorem | statement |
|---|---|
| `PipeOrder` | `Spec => []OrderInv` |
| `PipeCallbacksInOrder` | `Spec => []CallbacksInOrder` |
| `PipeNothingPostedAfterError` | `Spec => NothingPostedAfterError` |
| `PipeAdvance` | `Spec => []AdvanceInv` |
| `PipeNothingLeftToAdvance` | `Spec => []NothingLeftToAdvance` |
| `PipeReadCallFindsItsMessage` | `Spec => []ReadCallFindsItsMessage` |

`CallbacksInOrder` is not inductive: that the next callback is that of the next
operation takes knowing how far every operation has got. `OrderInv` says that
an operation that got somewhere has those before it at least as far as the
transitions ask (`ReadsOrdered`, `WritesOrdered`); which states the flags of a
read allow, and that the only read that expects a call of `read` is the one
`nextMessageGettingAllocation_` names (`ReadFlags`); that exactly the first
operations have been called back, with an error only after one was met
(`ReadsCalled`, `WritesCalled`, `CallsMatch`); that what was posted on a stream
belongs to operations that exist, and the reads of descriptors to ones that were
begun (`ItemsOK`, `DescriptorsStarted`); and that the body of a callback is the
last piece of its task (`TodoOK`). The guards look at the operation right before
only; that those further back are as far is what the order adds.

`NothingLeftToAdvance` speaks of pipes between two tasks. `AdvanceInv` is what
makes it inductive: while a task runs, every operation that could make a
transition is one that a piece of the task will come to, `advanceOperation`
included, which stops at the first operation that does not advance. With the
order it gives `ReadCallFindsItsMessage`: the messages that were announced and
those that were asked for are both the first so many, so that the next one is
determined, it has no reason to stay behind, and so it expects the call.

The last step uses that a set of numbers is counted as one expects (`Counting`),
which `PipeProofs` takes from the theorems on finite sets. The proofs are in layers, so
that each rests on short descriptions of the steps and not on the actions:

| module | proves |
|---|---|
| `PipeEffects` | no proofs: for each step of `Pipe`, what it changes entry by entry; `OrderInv` |
| `PipeSteps` | every step of `Pipe` is one that `PipeEffects` describes, and keeps types |
| `PipeTransitionProofs` | every transition of an operation keeps `OrderInv` |
| `PipeOrderProofs` | so does every other step: calls of the user, callbacks, what remains of a task |
| `PipeAdvanceProofs` | every step keeps `AdvanceInv` |
| `PipeProofs` | the theorems |

Only model-checked: of the pipe, `NoDanglingOperation`, `StreamsAgree` and the refinement of
`MessageStream` (`StreamSpec`), which relate what the two ends have posted on a
stream, item by item; everything about the handshake, connections, contexts and
channels; and all liveness, which is out of the prover's reach, as are the
recursive operators of `OpsStateMachine`.

## Not modelled

- Wrappers of system calls and of libraries: sockets, file descriptors, shared
  memory segments, libuv handles, verbs, NVML, CUDA, `dlopen`. They have no
  protocol of their own; where one matters it is an external action or operator
  of the module that uses it.
- The matching of GPUs with InfiniBand NICs by their PCI paths, when the cuda_gdr
  context is created: a search in a tree that ends before anything runs.
- Serialisation (libnop): a message is carried as what its fields say.
- `registerTransport` and `registerChannel`, which come before everything else:
  what they leave registered is the setup of `Handshake`. That a name or priority
  is not used twice is an assertion of theirs.
- Errors as values, texts and logging; identifiers (`setId`); the check of an
  allocation against its descriptor, which concerns a misuse by the user.
- Python bindings, benchmarks and tests.

Next would be proofs that the two ends of a pipe agree on what travels on each of
their streams, and with it that a pipe is a `MessageStream`.
