# ServerCommon in TLA+

`src/ServerCommon` is the library a family of Windows game servers share: lock-free
containers and pools, packets and their buffers, a frame scheduler, a DB writer
thread, a profiler, and helpers around them. The network library that uses it
(sessions, `LanClient`, the IOCP workers) is not in the repository. These modules
model the concurrent and the arithmetical core of the library; TLC checks them on
small instances. TLAPS proves for every number of threads, nodes and values that the
TLS object pool, the lock-free queue, the lock-free stack and the ring buffer implement
their abstract specifications, and that their lists and counts are what they should be;
and for all parameters the safety of the update gate, the scheduler thread, the DB
writer thread with its queries, the packet and its codec, the intrusive lists of the leak
logs, and the profiler.

## The system

| Component | State | Operations | Works with | What makes it correct |
|---|---|---|---|---|
| `CAddressTranslator` | none (a counter passed in) | `GetCnt`, `GetMetaAddr`, `ExtractMetaCnt`, `GetRealAddr` | everything lock-free | a tagged word tells two uses of one address apart until the tag wraps |
| `CTlsObjectPool` | stack of empty buckets, TLS bucket of each thread, counts of each bucket | `Alloc`, `Free` | nodes, packets, jobs, DB requests | no object has two owners, no bucket is lost |
| `CLockFreeQueue` | tagged head and tail, `num_`, nodes with tagged `next_` | `Enqueue`, `Dequeue`, `GetSize`, `ClearAll` | node pool shared by all queues of one T | FIFO; no link into another queue; a reserved element is there |
| `CLockFreeStack` | tagged top, `num_` | `Push`, `Pop` | node pool | LIFO, no lost node |
| `CLockFreeObjectPool` | tagged free list | `Alloc`, `Free`, `ClearAll` | whoever holds its objects | no object has two owners |
| `UpdateBase` | `singleThreadGate_`, `unProcessedPqcsCnt_`, frame times | `Update` | completion port, scheduler | `Update_IMPL` is serialised, no call is lost, frames keep their phase |
| `Scheduler` | registered objects, time left of each, stop event, thread handle | `Register_UPDATE`, `Init`, `Start`, `Release_SchedulerThread`, loop | `UpdateBase`, every server | due objects are posted, in time and within their limit; it stops before a server goes on |
| `DBWriteThread` | request queue, `bShutDown_`, thread | `ReqDBWriteJob`, `SetShutDown`, `WaitUntilDbWriteComplete`, loop | queue, packet pool, `QueryFactory` | each request is written; the thread ends |
| `QueryFactory` | buffer and connection of each thread | `MAKE_...`, `ExcuteWriteQuery` | MySQL | a query is what was printed, after any number of `Resize` |
| `RingBuffer` | two positions, bytes | `Enqueue`, `Dequeue`, `Peek`, `PeekAt`, direct access | receive and send paths | a bounded FIFO of bytes for one writer and one reader |
| `Packet` | buffer, positions, flags, header | `<<`, `>>`, `PutData`, `Resize`, `SetHeader`, `ValidateReceived`, ... | pool, sessions | reads and writes stay inside as long as callers give the unchecked calls what fits; the receiver gets what was sent |
| `SmartPacket` | reference count | construction, destruction | pools | freed once, after the last use |
| `Packet` with `DEBUG_LEAK`, `CLinkedList` | list of packets in use, list of logs of each packet | `AllocForDebugLeak`, `WRITE_PACKET_LOG`, `FreeForDebugLeak`; `push_back`, `remove`, `GetNext` | pools, critical sections | the lists name exactly what is in use |
| `MultithreadProfiler` | `state` word, samples of each thread | `PROFILE`, `Reset`, `ProfileDataOutText` | every thread | no sample is read or cleared while it is written, none is forgotten |
| `CMClient` | `bLogin_` | login, send, reconnect | external `LanClient` | sends only when logged in |
| `SmartJob` | job and its pool | | | |
| `HMonitor`, Redis, Logger, Parser, protocol headers | | | external libraries | |

What is hard: steps of several threads between two interlocked operations; memory
that is reused while a slow thread still holds its address (in another queue,
even); counters that lag behind the structure they count; a wake that comes too
early; positions read while the other side moves them; several servers that shut one
thread down; wrap-around of clocks, tags and positions. `PROJECT.json` lists each such
place under "hazards".

**Memory model.** The code runs on x86-64, where loads are not reordered with loads
or stores with stores, and every racy plain store is followed by an interlocked
operation before its effect matters. The modules therefore interleave single
accesses. The copies and the position store of RingBuffer cannot be exchanged by
the compiler, because its `char*` arguments may alias the positions.

## Modules

| Module | Models | Notes |
|---|---|---|
| `AddressTranslator` | `CAddressTranslator.h` | a word is a record of tag and address, the tag wraps at `COUNTER_MAX` |
| `ObjectPool` | abstract pool | what any pool promises: what is handed out is not handed out again before it is freed |
| `TlsObjectPool` | `CTlsObjectPool.h` | refines `ObjectPool`; one action per access to shared memory |
| `TlsObjectPoolProofs` | | the theorems about `TlsObjectPool` |
| `FifoQueue` | abstract queue | elements in order; a `Dequeue` takes one and returns it later |
| `LockFreeQueue` | `CLockFreeQueue.h` | refines `FifoQueue`; takes its nodes from `ObjectPool` |
| `LockFreeQueueProofs` | | the theorems about `LockFreeQueue` |
| `LifoStack` | abstract stack | a `Pop` takes the element pushed last, and returns it later |
| `LockFreeStack` | `CLockFreeStack.h` | refines `LifoStack`; takes its nodes from `ObjectPool` |
| `LockFreeObjectPool` | `CLockFreeObjectPool.h` | |
| `MCLockFreeStack` | a program that uses both | objects of the one travel through the other |
| `LockFreeStackProofs` | | the theorems about that program, and so about both lists |
| `UpdateGate` | `UpdateBase::Update` and the loop of `Scheduler` | |
| `FrameTimer` | the times of both | pure operators over a clock that wraps |
| `Scheduler` | the scheduler thread's life | composes `UpdateGate` and `FrameTimer` |
| `SchedulerProofs` | | the theorems about `UpdateGate`, `FrameTimer` and `Scheduler` |
| `DBWriteThread` | class `DBWriteThread` | over the `num_` protocol that `LockFreeQueue` shows, and `ObjectPool` |
| `DBWriteThreadProofs` | | the theorems about `DBWriteThread` and `DBQueryWriter` |
| `QueryFactory` | `QueryFactory` in one thread | a text is a sequence of the names of its parts |
| `DBQueryWriter` | a writer thread whose `OnWrite` makes a query | composes the two |
| `ByteQueue` | abstract queue of bytes | |
| `RingBuffer` | `RingBuffer` | refines `ByteQueue`, writer and reader interleaved |
| `RingBufferProofs` | | the theorems about `RingBuffer`, its refinement among them |
| `Packet` | buffer side of class `Packet`, and `SmartPacket` | bytes abstracted to the set of cells that still hold what was put there |
| `PacketProofs` | | the theorems about `Packet`, `PacketCodec` and `MCPacket`, and about `PacketLeakLog` |
| `PacketCodec` | header side of `Packet` | operators: checksum and both XOR passes |
| `MCPacket` | | composes `Packet` and `PacketCodec` |
| `PacketLeakLog` | `CLinkedList`, and `Packet` under `DEBUG_LEAK` | takes packets and logs from `ObjectPool` |
| `MCPacketBuilds` | `#ifdef DEBUG_LEAK` in `Packet.h` | one build is `MCPacket`, the other `PacketLeakLog`; which one is chosen at the start |
| `Profiler` | `MultithreadProfiler` | |
| `ProfilerProofs` | | the theorems about `Profiler` |
| other `MC*` | | instances for TLC |

Variables have the names of the members they stand for, without the underscore;
`pc` and the records of locals stand for where a thread is in a call. A finished
call leaves its locals at their initial values, so that equal situations are equal
states. A definition under a comment "Mutation:" is a plausible bug in the
definition after it; no specification uses it.

### TlsObjectPool
`metaTop`, `metaCnt`, `capacity`, `size`, `allocSize` are the pool's members,
`allocCnt`, `freeCnt`, `metaNext` those of a bucket, `tls` the slot of a thread. An
object is a bucket and an index. `Alloc` is `BeginAlloc`, then either `AllocNode`
from the thread's bucket, or the pop loop (`ReadTop`, `ReadNext`, `PopBucket`,
`InitBucket`, `TakeBucket`) or `MallocBucket` first. `Free` is `FreeNode`, which
counts the node back and frees the bucket with the last one, and the push loop
(`GetTag`, `PushRead`, `PushLink`, `PushBucket`, `IncSize`). `MaxLive` bounds the
objects in use. `NotReissued` states the assumption behind the 17-bit tag: no word
is built anew while a thread in the pop loop still compares against it.

### LockFreeQueue
`next_` is two words, loaded one after the other and exchanged as one. The
constructor, `Enqueue` (`EnqReadTail` to `EnqCount`), `Dequeue` (`DeqReserve` to
`DeqFree`) and `ClearAll` follow the code; all queues share one pool of nodes, so a
node freed by one may be linked by another while a third thread still has its
address. `ClearAll` is for leak debugging (`CLockFreeQueue.h:135`): it is modelled for
queues no thread is inside. With a thread inside `Enqueue` that read `metaTail_`
before, the last node, freed with its null `next_` and old tag, would still look like
the end of a list.

### LockFreeStack and LockFreeObjectPool
Both lists are the same algorithm, a tagged top and a CAS; the stack takes its nodes
from a pool and moves a value out of them, the pool makes an object when its list is
empty and hands out the node itself. `TakeData` reads the node after the CAS that made
it the thread's own, and gives it back, so that another thread may reuse it while a
third still compares with the old top. `MCLockFreeStack` runs both at once: objects of
a `CLockFreeObjectPool` travel from thread to thread through a `CLockFreeStack`, and
`HandedOn` says that each has one place over both. `ClearAll` leaves `metaTop_`
dangling (`CLockFreeObjectPool.h:92`); no call follows it. `Holdable` bounds the
objects a thread holds outside any call.

### UpdateGate, FrameTimer and Scheduler
`gate` is `singleThreadGate_`, `unProcessed` is `unProcessedPqcsCnt_`, `queue` the
completions posted and not taken; `owed` is a history variable, the calls turned
away since `Update_IMPL` last began. `Enter`, `BeginImpl`, `EndImpl`, `Rearm`,
`Leave`, `Finish` are `Update`; `First`, `Wait`, `Check`, `Increment`, `Post` the
scheduler. In this protocol any frame may be late and any set of objects due.

`FrameTimer` has the times that decide it, as operators over a clock of `CLOCK` values:
`Round` is one turn of the scheduler's loop after a wait that ended up to `MaxLate` too
late, `EndRun` the end of a run in `Update`. `Schedules` and `Runs` are the sets of
states these reach, followed in real time, which the code sees only modulo `CLOCK`.
`ScheduleKept` says that an update comes up one frame and the delays after the last
time at most, never with a wait of 0, and exactly on its frames' phase when no wait was
late; `RunsKept` that `Update`'s frames keep that phase through late ones. Beyond a wrap
of the clock the phase shifts once (2^32 is no multiple of the frame); both say so.
`Kept` is their conjunction by the start of the clock, for all frame lengths up to
`MaxTick`; `FramesKept` in `Scheduler` asks for it once the thread runs, whatever time it
starts at.

`Scheduler` adds the thread's life: `Create` and `Start`, and for each server of the
process the steps of `Release_SchedulerThread`, interleaved. `WaitForThread` begins the
wait with the handle it reads then (`Scheduler.cpp:92`). On the open handle it lasts until
the thread has ended (`EndWait`), on a closed one it fails at once. On
`INVALID_HANDLE_VALUE`, which another server may have set since line 89, it never ends, as
line 88 says: the server is "hung" and has no further step. `StoppedAfterRelease` is what
all that come back rely on. `ReleaseEnds` says that nothing else holds a server up, and
that one is back whenever another hangs; `ReleaseReturns`, which does without the
exception, is violated (see Findings). A server that releases the thread before `Start`
waits for ever too; both are stated for a thread that was started.

### DBWriteThread, QueryFactory and DBQueryWriter
`Link`, `Count`, `WakeWriter` are the two steps of `Enqueue` that others can see
and the wake; the writer's actions follow `DBThreadFunc`, `draining` tells which of
its two loops it is in. `WaitOnAddress` compares and sleeps in one step, as
Windows guarantees. `overlap` is a history variable, whether some request was under
way when `SetShutDown` was called or later. What the drain promises without such a
request is `AllWrittenAtExit`. With one, the element at the head may be linked and not yet
counted; the drain then takes it for a request behind it that had returned, which stays in
the queue when the writer leaves. No property covers that case; it is listed as a hazard.
Nothing in the repository speaks of requests made after `SetShutDown`.

A `MAKE_` call is the list of the parts it prints; `PrintPart` prints one, or as much of
it as fits and has `Resize` double the buffer. `QueryExact` says that after any
number of retries the text is the parts in order, each once. `DBQueryWriter` puts this
into `OnWrite` while producers go on.

### RingBuffer
A call loads both positions (`BeginEnqueue`, `BeginReceive`, `Dequeue`, `PeekAt`,
`BeginSend`), copies in one or two steps and stores its own position. The classes
that use it are outside the repository; the code's local copies of the positions
are made for one thread on each side, and that is what is modelled. A call that is
refused changes nothing and is not an action.

### Packet, PacketCodec and MCPacket
`Resize` copies `rear_ - front_ + sizeof(NetHeader)` bytes from the *start* of the
buffer (`Packet.h:85`). That keeps the unread bytes only if nothing was read yet;
the history variable `late` tells when it was otherwise, and `UnreadIntact` is
stated for the other packets. Two facts are left out of the properties because
nothing in the repository contradicts them: a packet that grows after a read loses
its last bytes, and for a Lan packet, whose header is 3 bytes shorter, the copy can
read up to 3 bytes past a full buffer (`CopyInBounds` is stated for Net packets).

Three calls leave it to their callers that the packet stays inside its buffer:
`MoveWritePos` and `MoveReadPos` add to a position without a look at it, and `PutData`
makes room with one `Resize` and copies whatever it was given. They are modelled without
a guard, for lengths up to `MaxData`. `Contract` names what the callers owe: no more than
one `Resize` makes room for, no more than is free, no more than is unread. `breach` records
the first call that left it. What the heap and the packet are worth then is not
followed: no buffer call comes after it, the references go on. `InBlock` and `UnreadIntact`
are stated under the contract; `<<`, `>>`, `GetData` and `GetPointer` owe nothing, since
they check, and one `Resize` gains 300 bytes or more in the code while a scalar (`Widths`) has
8 at most. A `PutData` of more than one `Resize` makes room for does write beyond the
array (`Packet.h:143`); the model has that step, as a breach.

`refCnt` is the member; `held` and `queued` say who has a reference: the
`SmartPacket` of the owner, and the sends (`Send` is external: the network library
takes a reference for each send, `MaxSends` bounds those under way at once). `Drop` is
one interlocked decrement, `Free` the separate step of the thread that brought the
count to 0, so that two threads dropping at once are interleaved.

`PacketCodec` has `Encode`, `Decode` and `ValidateReceived` as operators over bytes of a
small width. A byte is the set of its bits that are 1, so that `^` is the symmetric
difference of two sets; the arithmetic of both directions is modulo 2^Width, which is what the
mixture of `char` and `unsigned char` in the code comes to. `WireExact` in `MCPacket`
joins the two: a packet being sent was encoded once, however many sends share it, and
every payload of its length arrives under every pair of keys.

### PacketLeakLog
Every packet in use is on `debugList`, every log on the `logList_` of its packet; both
are `CLinkedList`s, each behind its critical section. `push_back` and `remove` are two
actions each, with the section held in between; the loop of `FreeForDebugLeak`
removes a log, frees it, and goes on with the successor that `remove` returned.
`Broken` is what the `_DEBUG` checks of `remove` look for. `Share` stands for the copies
of a packet that sends make, each with a reference: only a thread with one logs. The
offset 200 that `debugList` is built with (`Packet.h:625`) is layout and not modelled.
`LetGo` drops a reference; the names of the specification begin with `Leak`
(`LeakInit`, `LeakNext`, `LeakSpec`), so that `PacketProofs` can extend it beside `Packet`.
`MCPacketBuilds` runs either build: the lists exist only with `DEBUG_LEAK`, and the buffer, which
that switch does not touch, is followed only without it.
`ListsExact` looks at a list while nobody is in its section, and at the element that the
loop of `FreeForDebugLeak` is about to remove; `LogsAccounted` holds at every step.

### Profiler
`Begin` counts a request in and looks at the flag, in one step; `AllocIndex`, `Describe`
and `UseSample` are the first passes of a thread and of a statement, `Record` and
`Leave` the destructor. `Lock`, `Visit` and `Unlock` are `Reset` and the output, one
descriptor a step. `log` is a history variable, what was measured since a `Reset`
reached the sample; `SamplesExact` compares every sample with it. A statement whose
first pass was refused has an index and no sample: later statements of the thread then
lie beyond `validSampleNumber_`, where `Reset` and the output do not look.
`NothingHidden` is stated for the other threads (`turnedAway`). `MaxCalls` bounds the
measurements since a `Reset`; there is always a free entry behind the last descriptor,
since the loops read past `DESC_ARR` when all 50 are taken.

## Runs

| Run | Instance | Shows |
|---|---|---|
| `pool_shared` | 2 threads, 4 buckets of 2 nodes, 3 live, 2 tags | intact stack of buckets, exact counts of buckets and statistics, refinement of `ObjectPool` (no object has two owners) |
| `queue_fifo` | 2 threads, 1 queue, 3 nodes, 2 values, 3 tags | refinement of `FifoQueue`; list and `num_` |
| `queue_two` | 2 threads, 2 queues, 3 nodes | no link across queues or to a recycled node |
| `queue_progress` | 2 threads | lock-freedom |
| `lockfree_lists` | 2 threads, 2 objects, 2 stack nodes, 2 tags | refinement of `LifoStack`; both lists whole; each object in one place |
| `gate` | 2 workers, 2 objects, limit 2, 2 servers; clock of 16, frames up to 3, delays up to 1, 6 rounds | serialisation, exact and limited counts, a call turned away is made good; frames kept; shutdown after the last post, and nothing but an invalid handle holds it up |
| `release_hang` | 1 worker, 1 object, 2 servers | violation: see Findings |
| `db_service` | 3 producers, 2 packets, shutdown at any time, queries that outgrow their buffer | packets accounted for, no sleep over work, requests served, all written at exit, queries exact |
| `db_shutdown` | 2 producers | violation: see Findings |
| `ring_spsc` | 3 bytes, 2 values | refinement of `ByteQueue`, no copy out of bounds or over queued bytes |
| `packet_builds` | sizes 4, 6, 9, both headers, scalars of 1 and 2 bytes and data of up to 3 (the first `Resize` gains 2), a contract broken once, 2 sends at once; bytes of 2 bits, payloads up to 4; with `DEBUG_LEAK` 3 threads, 3 packets, 3 logs | positions, unread bytes and header across growth and reuse; what `Resize` copies; one free, after the last reference; what is sent arrives; both kinds of list exact in both directions, no log leaks |
| `profiler` | 2 threads with 2 statements, nested, 2 that reset and print, 2 times | exclusion; samples exact; nothing hidden |

**Bounds.** Tags wrap within every run of a lock-free list (2 or 3 values instead of
131072). Three queue nodes are a dummy, a linked node and one to recycle; two stack
nodes let one be popped, reused and pushed under a sleeping thread's eyes; four buckets of
two nodes let every thread hold one while another is retired and one is popped.
`GateBound` is tested only when the scheduler posts, so calls under way can go
beyond it; it caps a counter that the code leaves to grow, and a gate above 2 is
treated as one of 2, a decrement leaves it above 0 and a store sets it to 1. Sixteen clock values and frames of up to
three put the wrap at every point of a frame, and six rounds pass it from the later
starts. Three list elements are what a removal from the middle needs. Three bytes in
four cells give every pair of positions and every split of a copy. Two packets and
three producers let a late wake meet a new request, and a producer find the pool empty.
Payloads of four bytes of two bits pass the wrap of the byte index. Deadlock checking
is off where the system may stop: a list cleared, the scheduler terminated, the
writer joined. Symmetry is used for safety runs only. Two workers
are enough for the gate's runs because the proofs cover any number of them.

**Fairness.** A thread that is inside a call keeps running (weak fairness of the
steps of `Update`, of the scheduler thread and of the servers inside
`Release_SchedulerThread` in `LSpec`; of the writer, the requests and the shutdown in
`QSpec` and `LiveSpec`): the system's scheduler is preemptive and no step blocks
except the waits, which are guards. Nobody is obliged to start a call, to shut down or
to wake the writer without a reason. For `LockFree` the fairness is the weaker one of
the definition: *some* thread inside a call takes a step.

## Findings

- `db_shutdown`: `SetShutDown` between the loop test (`DBWriteThread.cpp:7`) and
  `WaitOnAddress` (line 19) is missed. `num_` is 0 and stays 0, so the writer sleeps
  for ever and `WaitUntilDbWriteComplete` does not return.
- `release_hang`: two servers pass the test in `Scheduler.cpp:89`; one runs lines 92-94; the
  other reads `INVALID_HANDLE_VALUE` in line 92 and waits on it for ever. Lines 87 and 88
  describe that hang and the test as what prevents it.

## Proofs

Each `...Proofs` module proves its theorems from the model's specification and the named
assumption on its constants; nothing else is assumed. The figures in the Runs table are
those of TLC's instances; in the proofs numbers of threads, nodes, packets and values are
arbitrary (finite where something is counted), and so are sizes, limits and the number
of tags.

### TlsObjectPoolProofs
`StackIntactAlways`, `CountersExactAlways`, and `ImplementsObjectPool`: what `Alloc`
returns is not in use, and only what is in use is freed. The assumption
(`PoolAssumption`) is a bucket of at least one node and finitely many threads and
buckets. The inductive invariant (`StackInv`) describes the stack by a sequence of
buckets (`IsStack`) that exists in every state. A word on its way to the stack is not
one a thread is about to compare with (`TagInv`), and who compares with a word that is
still in the stack has read the word behind it (`NextRead`); so a pop that succeeds
takes the first element and leaves the rest, whatever was popped and pushed in between.
Both rest on `NotReissued`, the tag's promise. `ThreadInv` says what a thread holds at
each place, `HeldOnce` that no bucket is in two hands, and the model's `NodesAccounted` that
the counts of a bucket cover the objects in use. The statistics need sums over threads
(`Statistics`): each step shifts one thread by what it adds to a counter.

### LockFreeQueueProofs
For any threads, queues, nodes, values and tags (`QueueAssumption`): `NumExactAlways`,
`TailReachableAlways`, `NodesAccountedAlways`, the action property `LinksAtEndAlways`, and
`ImplementsFifo`, the refinement of `FifoQueue` for all queues at once. `QueueInv` names
the list of every queue as a sequence of nodes that exists in every state:

- `ListsInv`: tagged words lead from `metaHead_` along the list; its last node has the null
  of its own queue and tag; lists share no node.
- `TailInv`: the tail is the last node, or the one before while the `Enqueue` that linked
  the last one has yet to swing it.
- `Ahead`, `BuildInv`: a word the tail or the head has still to reach, or that is still to
  be linked, is in no other thread's locals. This is what a fresh tag is for, and it keeps
  a CAS from succeeding late.
- `Swing`, `Advance`: a thread whose word is still the tail (the head) knows the right next
  word, and before the CAS of `Dequeue` the right value.
- `End`: a node that looks like the end of a list and was once read as a tail is in a list,
  or about to be linked to one. With the identifier and tag in the null, the double-width
  CAS then succeeds on the last node of the right queue only.
- `CountInv`: `num_` is the length of the list less the calls that claim an element, and
  those that were told yes are covered by elements.

`Dequeue` takes effect at its CAS of `metaHead_` and `Enqueue` at the double-width CAS;
every other step is a stutter of the FIFO (`Quiet`), but for the return of a value and
`ClearAll`.

### LockFreeStackProofs
About `MCLockFreeStack`, the stack and the object pool with a caller between them, for any
threads, nodes, objects and tags (`StackAssumption`, `ObjectsAssumption`):
`ListsIntactAlways`, `ImplementsLifo` and `HandedOnAlways`. The two lists are the same
algorithm and share one argument, made with operators over the words, the next words and
the threads' locals: `Linked` (the sequence is the list), `Tags` (no word a thread has read
is one about to be put in; what it read behind it still stands there), `Owns` (a node off
the list is one thread's). The lemmas about a successful CAS of a push and of a pop are
proved once and used for both structures (`StackList`, `PoolList`). `Parted` follows the
objects: those handed out are divided among the threads, the nodes of the stack and the
`Pop`s that have freed their node and not returned. `HandedOn` also counts them, since
every object in use is somewhere.

### SchedulerProofs
For any finite set of workers, any objects, limits and bounds (`GateAssumption`: finitely
many workers, None is no object, the bounds are integers): `TypeCorrect`,
`SerializedAlways`, `NoLostUpdateAlways`, `GateTellsOwnerAlways`, `WithinLimitAlways`,
`UnprocessedExactAlways`.

`Serialized` is not inductive: nothing in it keeps `Enter` from letting in a second
worker. `IInv` adds that the gate is never negative and is 0 exactly when nobody is
inside, so `Enter` sees 0 only when nobody is there. That fact needs in turn that a
decrement of the worker inside brings a gate of 1 to 0 and leaves any other above 0,
and that is where `Serialized` is used: only one worker decrements. `NoLostUpdate` is
carried along, because what `Leave` finds in the gate decides whether it runs again.
`WithinLimit` has an invariant of its own (`LimitInv`): the count is below the limit
while the scheduler is between its test and its increment, because everyone else
only decrements, and nothing is outstanding for an object whose first post is
still to come. `UnprocessedExact` is inductive with the fact that a worker outside
`Update` is in no call (`CountInv`): `Take` moves one completion from the queue to a
worker, `Finish` takes one off both sides, and the scheduler counts one (`Coming`) that
its next step posts.

For any servers, the life of the thread is a refinement of `UpdateGate`
(`ImplementsGate`, so all of the above holds of it; `ServiceSerialized` says it for
`Serialized`) and `StoppedAfterReleaseAlways` holds. The inductive invariant `LifeInv`
says that a handle that is closed or invalid, and a server past its wait, mean that the
thread has ended: whoever closes the handle has waited for the thread, so a wait that
fails on it, or an early return, comes after the end as well.

`FramesKeptAlways` is about the arithmetic of `FrameTimer`, for any clock longer than a
frame, any delays and any number of rounds (`TimerAssumption`). The states a
schedule can reach are a recursive function of the number of rounds. The proof shows that
the function exists (`Reached`) and that all it holds stay in a set (`StaysGood`), here
`GoodSchedules`: every wait lasts from 1 to a whole frame and ends one frame after the
update was last due or, by the delays since, later, and when there were none and the
time since the start did not wrap, where a frame of that update begins (`InFrame`,
`OnTime`).
`RoundKeeps` is the step, in which the update found due gets a wait from the code's
subtractions modulo the clock (`SleepTime`, `Sleeps`) and the others lose the shortest
wait; `RunStepKeeps` is the same for Update's `oldFrameTick_` and `GoodRuns`.

### ProfilerProofs
`ExclusionAlways`, `NothingHiddenAlways` and `SamplesExactAlways` for any finite sets of
threads, keepers and statements, any times and any depth of nesting that leaves the top
bit of `state` free (`ProfilerAssumption`). Three invariants, each with the one before:

- `IInv`: the last conjunct of `Exclusion`, that `state` is the number of requests plus the
  flag times the number of holders, is what makes it inductive. A lock is taken only from
  0, when there are no requests at all, and a request that is let in has seen the word
  without the flag.
- `HInv`, for `NothingHidden`: the indices given out are 1 .. `lastIdx`, one for each
  thread (`IndexInv`), and each has a descriptor or its thread is making it
  (`DescribedInv`); the statements of a thread are numbered from 0 (`SiteInv`); its used
  samples are the first ones, but for one on the way (`UsedInv`). That a thread is in one
  request only, apart from those it is nested in, is `Nested`.
- `SInv`, for `SamplesExact`: each sample agrees with the log (`Match`), those a statement
  has, those that are unused, and those a `Reset` under way has been at (`Done`). A count
  and a total are sums over the set of times, of which one measurement changes one term;
  the two least and two greatest times are characterised by how many measurements lie
  below and above them (`Least`, `Greatest`), and an insertion is compared with that.

### PacketProofs
`TypeCorrect`, `InBlockAlways`, `UnreadIntactAlways`, `HeaderExactAlways`,
`FreedOnceAlways` and `CopyInBoundsAlways` for any header, payload and buffer sizes and
scalars that satisfy `PacketAssumption`, and data of any length. The assumption says that
one `Resize` makes room for a scalar, as it does in the code; of `PutData`, `MoveWritePos`
and `MoveReadPos` nothing is assumed. `InBlock` and `UnreadIntact` hold until one of them
is called against the contract, the other four properties whatever they are called with.
They are proved together with
`PhaseInv`, the link between the phase of a packet and its positions, and `RefInv`,
which says that the count is the number of references and that one thread is about to
free the packet exactly when it is 0 and the packet is not free. A packet that nobody
has read starts right after its header, so the `rear_ - front_ + sizeof(NetHeader)`
bytes that `Resize` copies from the start of the buffer reach as far as `rear_`; and a
packet that is not sent yet is not encoded, so the first `SetHeader` of a use writes
the length and the later ones find the same length.

`WireExactAlways` adds the codec, for bytes of any width, payloads of any length and any
keys (`CodecAssumption`). The turns of `Encode` are a recursive function, which is shown to
exist (`Recursion`, `EncodeTurns`); `DecodeUndoes` then needs no induction. `Decode` goes
from the last byte to the first, so each pass combines a byte with the same value of its
predecessor that `Encode` combined it with, and the second symmetric difference undoes the
first (`XorBack`). That the sender did this exactly once, however many sends share the
packet, is `HeaderExact`.

`ListsExactAlways` and `LogsAccountedAlways` are about `PacketLeakLog`, for any set of
threads and any finite sets of packets and logs (`LeakAssumption`). `LeakInv`, their
invariant, has two layers. `ControlInv` looks at no list: who links a packet has its only
reference, who links a log has a reference to its packet, a packet that is being freed has
none (`Stage`), no two threads have the same packet in charge (`Charge`), and who is in a
section is named by it. So a list that a packet is freed with is nobody else's
(`Alone`). The second layer says that there is a sequence for each list: `Located` which
elements it has, each log in one of them or held by one thread, and `Shaped` that the links,
ends and sizes are those of the sequences, but for the one element that the thread in the
section is linking, which is not the tail yet, or removing, which its predecessor passes
over (`Chain`). Each half of `push_back` and `remove` is one lemma about `Chain`
(`ChainPush`, `ChainEndPush`, `ChainUnlinkPrev`, `ChainUnlinkNext`). `WalkIs` shows that a
walk along such links meets the sequence: `Walk` is a recursive function, and any function
that does its steps gives what it meets (`WalkUnique`). Backwards it meets the opposite
order (`WalkBack`), during a removal the rest (`WalkPast`). `LogsAccounted` counts pairs
whose second parts tell them apart (`SecondCounted`).

### DBWriteThreadProofs
Every invariant that `db_service` checks (`TypeCorrect`, `CountExactAlways`,
`NoSleepOverWorkAlways`, `PacketsAccountedAlways`, `AllWrittenAtExitAlways`,
`QueryExactAlways`) for any finite sets of producers and packets
(`DBAssumption`), any first size of the buffer and any lengths (`QueryAssumption`). The
proof is in layers. `BasicInv` has the types, who holds a packet
(`HoldInv`), and that `num_` is never below 0 but for the -1 of a `Dequeue` that is about
to undo it (`NumFloor`); `NoSleepOverWork` is inductive with these, because the
comparison of `WaitOnAddress` and the sleep are one step and whoever counts a request
goes on to wake the thread. `CountExact` is then inductive by itself, each step moving
both sides by the same amount. `DrainInv` is about the last loop: when no request
overlaps the shutdown, `CountExact` makes `num_` the number of packets left, so an empty
answer means an empty queue. `PacketsAccounted` says the places of a packet are disjoint
without naming pairs of places: their sizes add up to the size of their union. `TypeOK`
comes last, since the bound on `num_` follows from the counts.

`ServiceIsWriter` carries all this over to `DBQueryWriter`. For `QueryExact`, `BufferInv` says
that the text as far as `nextPos` is what was printed, and that what a failed print
left behind `nextPos` is gone once all parts are in: the next try begins at `nextPos` again.

### RingBufferProofs
`InBoundsAlways`, `NoOverwriteAlways` and `ImplementsByteQueue` for any size of at
least 1 and any set of byte values with a member (`BufferAssumption`). The argument is
about distances: a cell is queued when it is closer to `iOutPos_` than `iInPos_` is
(`QueuedCells`). `WriterFits` says that the writer's local `in` is still `iInPos_`, that
its bytes fit in what is free *now*, and that a first piece that is not all of them ends
where the array does; `ReaderFits` says the same of the reader, whose bytes lie within
what is used. A side only makes room for the other (`MoveDistance`), so what either saw
when its call began stays enough. `InBounds` and `NoOverwrite` follow from these two
(`WritingCells`, `ReadingCells`). For the refinement, `DataInv` adds what each side has
copied so far: the writer's bytes stand behind `iInPos_` (`WriterCopied`), the reader's
copy is what still stands behind its position (`ReaderCopied`), since a writer never
copies onto what is queued (`CopyAside`). The store of a position is then the moment of
the call: `EnqueueStore` appends all its bytes at once, `ReadStore` takes off, or shows,
exactly the first ones.

### What is left to TLC
No `RECURSIVE` operator and no theorem with an operator as a parameter can be used in a
proof, so the library's induction theorems are out of reach. Where an argument by
induction is over a given set the proofs do without: a set of numbers below a bound has a least
element (`LeastElement`), which gives the chains of the lists, the sums, and the existence
of the recursive functions the operators are built from. Every invariant a passing run
checks is proved. TLC alone stands behind the liveness properties (`OwedRuns`,
`ReleaseEnds`, `RequestsServed`, `LockFree`): liveness under fairness is out of the
prover's reach.

## Not modelled

- `CheckMetaCntBits` (asks the machine for its address range).
- `Register_UPDATE` and `RegisterMonitor`, which fill arrays before the threads run
  (the check behind the store breaks at the 15th registration although it would fit,
  `Scheduler.cpp:75`); `MonitoringUpdate`, which prints.
- `PROFILER::Clear`, which runs at exit, and the figures and layout of the report.
- The MySQL connection of a `BufInfo` and the results of queries.
- `CMClient`: its base class `LanClient`, which has the sessions, the reconnection timer
  and its queue, is not in the repository; one flag set and cleared by callbacks would
  be left.
- `MyJob.h`: the base class declares `Excute` pure virtual and the templates override
  `Execute`, so that no job can be made of it, and nothing uses it.
- `HMonitor`, the Redis wrapper, Logger and Parser (calls of external libraries, no
  state of their own); `CommonProtocol.h`, `ServerNum.h`, `MYOVERLAPPED.h`, `Assert.h`
  (definitions); `fps_` and every log.

## Plan

Every component with behaviour of its own is modelled, and every invariant, action
property and refinement that a passing run checks is proved. What is left is out of the
provers' reach (liveness), or recorded as a hazard without a property in `PROJECT.json`.
A change of the code should be followed in the module first, then in its run, and
then in the proof step of the action that changed.
