# GFXReconstruct: a TLA+ model of how captures are made, read ahead and replayed

GFXReconstruct records the calls an application makes to a graphics API (a
*capture* is the file it writes) and replays them. Most of its code translates
single API calls and structures and has no control of its own. This directory
models the parts that do: threads, locks, queues, batches of blocks, frames,
protected memory, and files that refer to each other.

* [1 Inventory](#1-inventory): the components, their state and operations, what is hard
* [2 Plan](#2-plan): modules written and to be written
* [3 Modules and code](#3-modules-and-code)
* [4 Runs](#4-runs): questions, bounds, fairness
* [5 Proofs](#5-proofs)
* [6 Findings](#6-findings)
* [7 Not modelled](#7-not-modelled)

Paths below are relative to `src/framework`.

## 1 Inventory

### Replay: from a file to calls of consumers

| component | state | operations | interacts with |
|---|---|---|---|
| thread-safe queue (`util/thread_safe_queue.h`) | producer store, consumer store, `open`, mutex, condition variable | `emplace`, `close`, `pop`, `try_pop` | between the two threads of the asynchronous replay |
| block parser (`decode/block_parser.cpp`) | decompression policy, block index limit | read a block, parse it, decide whether to decompress now or later | called by the block processor |
| block processor (`decode/block_processor.cpp`) | stack of open files, frame number, block index, first-frame and skip state, stutter | `ProcessBlock`, `ProcessBlocks`, frame delimiters, execute-blocks-from-file, state begin/end, end of file | reads files, calls a visitor per block |
| block allocator (`decode/block_allocator.cpp`) | current batch | `StartBlock`, `AddBlock`, `FlushBatch` | gives batches to a sink |
| asynchronous processor (`decode/async_processor.cpp`) | batch queue, enqueued and dequeued counters, wait target, `keep_alive_`, thread | launch, the thread's main loop, throttle, preload fence, iterator, destructor | block processor on one side, file processor on the other |
| file processor (`decode/file_processor.cpp`) | frame number, batch iterator, error and limits | `ProcessNextFrame` (synchronous and asynchronous), `ReplayOneFrame`, `ProcessAllFrames` | asks the asynchronous processor for batches, dispatches blocks to decoders |
| preload file processor (`decode/preload_file_processor.cpp`) | preloaded batches, bookmarks of frames, loop state | preload n frames, replay one of them, reset, skip the state blocks | extends the file processor |
| application (`application/application.cpp`, `graphics/fps_info.cpp`, `graphics/frame_loop_info.h`) | running, paused, frame limits, loop counters | `Run`, `PlaySingleFrame`, limits for measuring and looping | drives the file processor |
| thread pool (`util/threadpool.h`) | task queues, running flag, threads | `post`, `poll`, `join_all` | creation of pipelines |
| asynchronous pipelines (`decode/vulkan_replay_consumer_base.cpp`) | the tasks each handle is used by, the futures of the object table, deferred names, the queue of the main thread | create, use, name, destroy, end of replay | thread pool on one side, the calls of a capture on the other |

### Capture

| component | state | operations | interacts with |
|---|---|---|---|
| capture manager (`encode/capture_manager.cpp`) | frame count, capture mode, trim ranges and triggers, file, API call lock (shared/exclusive), instance count | start and end of an API call, end of frame, queue submit, activation and deactivation of trimming | every encoded call of every thread |
| page guard manager (`util/page_guard_manager.cpp`) | protected memory, dirty and read pages | track, untrack, fault handler, process entries | mapped memory of the application, the fault handler of the process |
| asset files (`encode/vulkan_state_tracker.cpp`, `vulkan_state_writer.cpp`) | dirty flags of resources and descriptor sets, offsets into the asset file, the sets a resource is bound to | every tracked call that creates, writes, binds or destroys; snapshot; asset dump | capture manager; the replay's stack of files |
| other state trackers and writers, encoders, handle wrappers | tables of API objects | one per API call | capture manager |

The rest is in [section 7](#7-not-modelled).

### What is hard

* *Two threads and four shared variables.* `batch_queue_`,
  `enqueued_batch_index_`/`last_dequeued_batch_`, `throttle_wait_target_` and
  `keep_alive_` are written by different threads, some under
  `throttle_mutex_`, some atomically before it, some with neither.
* *Waiting on each other.* The dispatching thread waits for a batch, the
  processing thread for a batch to be dequeued.
* *Batches are not frames.* Frames end anywhere in a batch, the throttle cuts
  batches anywhere, but preloaded frames must have batches of their own; and
  frame numbers repeat (a *stutter*) when a delimiter ends a frame that has not begun.
* *Ends.* A capture ends cleanly, truncated, damaged, at a block limit, at a
  quit frame, or by destruction, each in the middle of any of the above.
* *Frame limits of three users* (quit frame, measured range, loop range) meet in
  the block processor, which reads ahead of all of them.
* *Switching the capture on*: threads count frames under a shared lock and give
  it up to take it exclusively, between the encoding and the tracking of others'
  calls; trimming compares that count with `==`.
* *Memory written behind the API*: a write to mapped memory is seen by a signal
  handler that competes, page by page, with the thread that processes the pages.
* *Objects in use*: a capture destroys objects that a task of another thread still
  needs, and names objects that do not exist yet.
* *Files that outlive what they tell*: a capture refers to blocks written for an
  earlier one and counts them again from the present state.

### What makes a component correct

* queue: it is a first-in first-out queue that can be closed; no value and no wakeup is lost.
* asynchronous processor: what is delivered is what one thread reading the file
  would have seen, whatever the timing; no wakeup is lost; the threads never wait
  for each other; preloaded frames are cut at batches; the queue's end is announced
  before it is reached; the backlog is bounded; the destructor returns.
* file and preload processors: a frame that is replayed is one frame; the
  synchronous and the asynchronous variant replay the same frames.
* capture manager: a trimmed file contains exactly the frames of its range, and
  with its snapshot every call exactly once; no call waits for ever.
* page guard: no write to mapped memory is missed, undone or attributed to a later
  submit, and what the device wrote is read; no trap under the handler's lock.
* asynchronous pipelines: nothing is destroyed while a task uses it; a name
  reaches its pipeline; every task and every call comes to an end.
* asset files: the replay of a capture restores the state it was started in, and a
  block that executes others stands for exactly these.

The hazards, each at its line and with the properties that watch it, are listed
in `PROJECT.json`.

## 2 Plan

The order is that of importance: what two threads share comes first, then what
uses it, then the parts that stand alone.

| | modules | state |
|---|---|---|
| 1 | the queue and its contract: `ClosableQueue`, `QueueContract`, `ThreadSafeQueue` | done, contract proved |
| 2 | the processing thread: `BlockStream`, `AsyncProcessor` | done; types, accounting, wakeups, backlog, deadlock, batch boundaries and content proved |
| 3 | replay on top of it, in one thread and in two: `ReplayOptions`, `FrameScript`, `FrameReplay`, `FileProcessor`, `SyncReplay`, `AsyncReplay` | done; all invariants of both proved, and that `SyncReplay` implements `FrameReplay`; that `AsyncReplay` does is checked |
| 4 | the capture's write mode: `CaptureTrim` | done, all safety proved |
| 5 | mapped memory: `PageGuard` | done for the default mode, all safety proved |
| 6 | `ThreadPool` and, on it, `AsyncPipelines` | done, all safety proved |
| 7 | captures that share an asset file and their replay: `FileStack`, `AssetFile`, `AssetReplay` | done, all safety proved |
| 8 | fences and queue synchronisation of the D3D12 replay; the image tracking of swapchains | to do |

Every invariant a passing run checks is proved, and every other safety property but one, that `AsyncReplay` implements `FrameReplay` (section 5).

## 3 Modules and code

`PROJECT.json` maps each definition to its lines; this section says what
corresponds to what and how the data is abstracted.

    ThreadSafeQueue   implements QueueContract, which EXTENDS ClosableQueue
    AsyncProcessor    EXTENDS BlockStream, uses the operations of ClosableQueue
    FrameScript       EXTENDS ReplayOptions, which EXTENDS BlockStream
    FileProcessor     EXTENDS ReplayOptions
    FrameReplay       the contract of a replay, given what is to be shown
    SyncReplay        EXTENDS FileProcessor and FrameScript, implements FrameReplay
    AsyncReplay       EXTENDS AsyncProcessor, FileProcessor and FrameScript, implements FrameReplay
    CaptureTrim, PageGuard
    AsyncPipelines    EXTENDS ThreadPool
    AssetReplay       EXTENDS AssetFile and FileStack

**ClosableQueue** has the operations of the queue as single steps, and
**QueueContract** says which of them a call may come back with. `owed` is the set of
consumers that must not be given `std::nullopt` while the queue is open.

**ThreadSafeQueue** is the code: a critical section is a step (`mp_queue_` and
`open_` are touched under `mutex_` only), the notifications behind it and the
consumer's unlocked access to `sc_queue_` are steps of their own. `pc` says where
each thread is: *lock* is inside `pop`, waiting or about to take the mutex,
*try_lock* the same of `try_pop`, *take* behind the exchange of the stores.
Values are numbered in the order they are pushed. The variant modelled is the one
the program instantiates (`decode/async_processor.h:51`), with one consumer.
Pushing to a closed queue asserts in debug builds; no client does it,
and the model does not either.

**BlockStream** is the block processor seen by its callers: a capture is a
sequence of block kinds and whether its header announces frame markers; a
position is the block index, the frame number and whether markers delimit frames.
`ProcessBlocks` reads to the next frame boundary, end or error. A block that is
parsed becomes an entry with its frame number and the decompression policy it
was parsed under; its payload is left out. Kinds are *call* (anything that ends
no frame), *present*, *marker*, *annotation* (the one that announces markers),
*state_end* and *damaged*.

**AsyncProcessor** has the two threads. `async_pc` follows `ThreadMain`,
`ThrottleQueue` and `WaitForBatchCount` (*act* is the place between the load of
`last_dequeued_batch_` and the use of it; *wait_test*, *wait_block*, *waiting*
and *woken* are the condition variable's wait, taken apart so that stores not
made under the mutex fall between the test and the blocking); `dispatch_pc`
follows `AsyncBatchIterator::Advance`, `NotifyBatchIndexDequeued` and the
destructor. When a batch is full depends on the sizes of blocks: `MakeRoom` may
flush before any block. The queue is used through the operations of
`ClosableQueue`, which `ThreadSafeQueue` is proved to implement. What the thread
that dispatches does with a batch is left open here (`idle`).

**ReplayOptions** is the arithmetic between frames counted from one (options)
and from zero (parameters). **FrameScript**
cuts a capture into frames, and says which blocks the decoders are to see, under
which frame number, in which order and how often, for given limits and loops (`Script`).
**FrameReplay** is the contract of a whole replay: what is seen grows along the
script, frame by frame, replay ends behind the last frame, and the user may quit
between two.

**FileProcessor** has the application's loop and all of the file and preload
processor that does not depend on who reads: limits, preload queue, loop frame,
bookmark, replay from the queue. **SyncReplay** adds the reading in the same
thread; **AsyncReplay** extends it and `AsyncProcessor`, so that the application
is the dispatching thread and takes batches apart with a cursor. In both, a
step is one call up to the place where it may wait for the other thread.
`replayed` is a history of what decoders saw.

**CaptureTrim** is `CommonCaptureManager` with threads in the middle of calls. A
call takes the shared lock (*Begin*), is encoded in write mode, tracked in track
mode, and ends; a present or submit goes on through the boundary checks, each a
step where another thread may come in: the stop of a capture, the exchange of the
lock, the switch of the mode, the taking back of the shared lock. A file is what
it holds: the calls in its snapshot, the calls recorded, the frames or submits
among them. Whether a file can be created, and when triggers fire, is left open.
The two looks at the capture mode in a call (`IsCaptureModeTrack` and the use of
the tracker) are two steps, so that what another thread does between them counts.

**PageGuard** has one mapped memory, its shadow pages and the driver's. The content
of a page is the version of its last write. `access` says where a thread's access
is: an access that the protection forbids traps, waits for
`tracked_memory_lock_`, opens the page, marks it and is repeated. `api` says where
the API thread is: it scans the marks page by page, protects a range, copies
it and resets the guard, each a step. A submit puts the device's pages in flight, a
wait ends that. The watcher may find the signal handler replaced and mark everything.

**ThreadPool** has post, the workers and join with its dropped tasks, and
**AsyncPipelines** what the Vulkan replay does with it: `main.pc` follows one call
of the main thread through the polling of its own queue, the tracking of handles,
the task's future, and destruction, which waits for the tasks that use an object.
A task posts to the main thread's queue as its last action.

**FileStack** is the block processor's stack of files: a block may execute blocks of
another file, a number of them or all up to its end. Offsets are numbers of
blocks. **AssetFile** is the Vulkan state tracker and writer as far as asset files
go: dirty flags, the sets a resource is bound to, and the writer's visit of the
table, object by object; a buffer stands for whatever a descriptor may refer to.
A write is two steps, as in the code: `TrackAssetsInSubmission` marks what the
submission will write, and the driver and the device write it later (`CarryOut`), when
nothing marks it again. So is a destruction: `RemoveEntry` takes the buffer out of the
table under `state_table_mutex_`, `DestroyState` marks its sets without the mutex
(`vulkan_state_tracker.h:281`). A set is visited in one step; a mark that is set
without the mutex between the tests and the clearing of its flag is lost
(`LostMarks`). `Quiet` is when the writer may begin: a capture has the API lock
exclusively and the device idle (`vulkan_state_writer.cpp:312`), so that no call is
half way and no submission outstanding. There are two exceptions, both constants.
With `TrimBoundary = "submits"` the capture begins in `PreQueueSubmit`, between the
marks of a submission and the submission. With `DumpsBesideCalls`
an asset dump, which shares the lock and waits for no device, runs beside calls and
submissions.
**AssetReplay** puts them together: once all captures are made, one of them is
replayed from the files, or from what is left of them. `executed` is what reaches the
decoders, for each block of the capture file the blocks it stands for, and `restored`
what these make: the buffers with their contents and the sets with their
descriptors, as Vulkan would (`Apply`).

## 4 Runs

| run | bounds | result |
|---|---|---|
| `queue_mpsc` | 2 producers, 1 consumer, 4 values | FIFO contract, no lost wakeup, close unblocks |
| `async_processor` | 6 frames of one block, and 5 captures of 4 to 8 blocks (`MCPreloadInputs`) | types, accounting, wakeups, backlog, stream, batch boundaries, decompression, no mutual blocking, the end is reached |
| `sync_replay` | all captures of up to 3 blocks of 6 kinds and a longer one, under 20-odd limits | what is replayed is what `FrameReplay` says |
| `async_replay` | 19 replays of captures of 3 to 5 blocks | the same with two threads, nothing is read while preloaded frames are replayed, replay ends |
| `capture_trim` | 10 settings; one thread that presents and submits (4 calls), one that calls (2) | every call in the file or its snapshot, files hold their ranges, calls return |
| `page_guard` | 2 threads, 3 pages of which the device writes one, 2 versions of a page, 3 settings | no write missed or undone, submits capture earlier writes, device writes are read, no trap under the lock |
| `async_pipelines` | 2 creation calls with a common shader module, 3 pipelines, 2 workers or none, 5 blocks | nothing in use is destroyed, names are set, calls return, tasks end |
| `assets` | 2 buffers, 2 sets of one allocation with 2 and 1 bindings, 2 snapshots or dumps | snapshots are restored, clean buffers are in the file, what is referenced is executed |

Four more runs each end in a violation and belong to [section 6](#6-findings).

*Bounds.* The throttle's constants are 0, 1, 1, 2, 3 for 1, 2, 4, 8, 16
(`async_processor.h`), which makes `kAsyncResume` 3 and `kAsyncWait` 4 by the
formulas of the code: small, all branches distinct, and six batches pass all of
them. What is proved holds of all values in that order.
`kMaxFrame` (99) and `kMaxBatchCount` (999) are larger than any number that occurs.
`MaxPushes` bounds the values pushed: with two producers and four values a push,
an exchange and a close can come between any two steps of a pop. `MaxBlocks` bounds
the captures of `sync_replay`: three blocks have two delimiters and a block
between, behind or before them, which every early return of the block processor
distinguishes; the longer capture has what needs more (a loop frame behind a
state end, a marker after presents). `FirstMarkerIsEarly` leaves out captures
whose first marker, not announced, comes after two delimiters, see section 6.

In `capture_trim` four calls of the boundary thread pass two ranges of frames with a
gap, consecutive ones, and a range that is longer than one frame; the two calls of
the other thread can be one before and one across each switch of the mode. In
`page_guard` three pages are a page before, in and behind a range of marked ones, the
middle one the device's; two versions are what it takes to overwrite a write, and
one restored handler to mark everything at any moment. In `async_pipelines` the two
creation calls have two pipelines and one: a shared dependency, a first and a
second pipeline, and five blocks are two creations and three of use, name and
destruction. In `assets` two files suffice for a dump and a later reference to it
(with two buffers and bindings, the numbers of blocks differ); `MaxContent` is the
writes of a buffer, so that a clean one and one written again differ.
Behind the last snapshot the application does nothing more. The run is of captures at
frame boundaries (`TrimBoundary = "frames"`) and of dumps while nothing else is
on its way (`DumpsBesideCalls = FALSE`): with either of the other values the
program clears marks too early, and TLC finds both `CleanBuffersAreInTheFile` and
`SnapshotIsRestored` violated on this instance, see section 6.

*Deadlock* is checked by all passing runs but `capture_trim`, `async_pipelines` and
`assets`, whose programs end; the other modules with an end have a step for it (`Finished`, `Terminated`).

*Fairness.* A thread that can take a step is scheduled (weak fairness of the steps of
the processing thread, of the dispatching thread's code in `AsyncProcessor`, of
the application in `AsyncReplay`, of a thread in a call in `CaptureTrim`, of the
main thread and each worker in `AsyncPipelines`). Mutexes that are given up are
eventually had: the dispatching thread gets `throttle_mutex_` although the other one
may take it again and again on spurious wakeups (strong fairness of
`NotifyDequeued`). No wakeup is spurious on demand, no user quits on
demand, no destructor is called on demand: liveness holds without them. In the
queue, nobody has to start an operation; a thread inside one goes on. A capture
thread need not begin a call, and the calls are bounded, so that weak fairness
gives a waiting writer the lock; `std::shared_mutex` leaves open whether endless readers could starve it.

## 5 Proofs

Eight modules hold theorems. Each is about every value of the constants: any
capture, options, number of threads, pages, tasks or files. What is assumed of the
constants is declared with them (`BoundaryAssumption`, `InputAssumption`,
`ReplayAssumption`, `ThreadsAssumption`, `CaptureTrimAssumption`,
`PageGuardAssumption`, `AsyncPipelinesAssumption`, `AssetFileAssumption` and that
the sentinels are no values; `MaxFrameAssumption`, that no capture ends as many frames as
`UINT32_MAX`), and TLC evaluates it in the runs. Nine conditions go
further and stand as hypotheses of the theorems that need them, because the code
does without them what the theorem excludes:

| hypothesis | of | without it |
|---|---|---|
| `OnlyTheFirstFrameStutters` | the batch boundaries of a preload that begins with the first frame | a first marker behind two presents sets the frame number back to 1, possibly from behind the range into it: present, call, present, call, present, marker, present, marker, preloaded up to frame 2, has blocks of the range in a batch with others and parsed under `kNever` |
| `EveryStutterIsEarly` | in one thread, that decoders see what `FrameReplay` says; in two, that what is preloaded is the range, that nothing is read meanwhile, and that replay does not come to the end of the queue | the same of every range: present, present, present, marker, call, preloaded from frame 3 on, goes back to frame 1 behind the beginning of the range, and frames that are not of it are replayed from memory |
| `NoConsecutiveSubmits` | what the file of a range of submits holds | the file of the next range is begun before the submit that ended the previous one is tracked (section 6) |
| `LoadsWholeMemory` | that no write is undone, with persistent shadow memory | pages behind one that was loaded before get the wrong content (section 6), and of a memory of whole pages the last one is never loaded (`page_guard_manager.cpp:1338`) |
| `FirstPipelineIsMade` | that nothing in use is destroyed | a task is waited for through the first pipeline of its call, which is not there (section 6) |
| `UpdatesAreTracked` | that a capture with an asset file restores its state, executes what it refers to and no stale descriptor | a set updated with a template is not marked when what it refers to is destroyed: run `asset_template` |
| `FirstIsFreedLast` | the same | the next set of a joint allocation counts a block its dump does not begin with (section 6) |
| `RangesOfFrames` | that the file has what clean buffers contain; that a capture with an asset file restores its state, executes what it refers to and no stale descriptor | a range of submits dumps what its first submission is marked to write before it is written (section 6) |
| `DumpsAreAlone` | the same | a dump clears the mark of a submission that is not carried out, or misses that of a destruction (section 6) |

An invariant is proved by a stronger one that is inductive; what it adds is said
here, the rest stands with the definitions.

**ThreadSafeQueue_proofs**, for any number of producers and values:
`TypeCorrect`; `NothingLostOrReordered`; and `Implements`, that the code refines
`QueueContract`. Content and refinement both need `StoresInv`: the stores are
exchanged only when the consumer store is empty, because the consumer is at the
mutex only after finding it so, and nobody else fills it. The mapping answers the
consumer when it holds the mutex; `TakeFromContent` and `AppendToContent` are what
it needs to know of sequences.

**FileProcessor_proofs** has lemmas on which the next two modules rest: what a block
does to the position (`AfterBlockFields`, `NextFrameNumber`), that a read comes to an
end and what it returns (`ReadEnds`, `ReadTypes`), that a frame taken from a
queue with a result in it ends with one (`FrameIsTaken`), and what the frames and the
script of a replay are (`NextFrame`, `ScriptFacts`). `ProcessBlocks` is
written without recursion for their sake: the blocks ahead of the one that ends the
loop end no frame, so that the position behind them is known in one go
(`AfterCalls`), and the end is the first place where the loop is left (`CallsRead`).
`LeastExists` replaces induction: the sets 0..n are well-founded under inclusion.

**SyncReplay_proofs**: `NextFrameIsNextToReadCorrect`, the assertion of
`ProcessNextFrameSync`, and `PreloadedFramesEnd`, that replay from memory does not run
off the preloaded blocks. Between a preload and the end of its replay the
two frame numbers differ, so the invariant keeps what brings them together again: the
queue ends with the result that led to where the reader is (`PreloadingInv`,
`QueueInv`). That the queue is not empty when a preload ends needs the range to
have two ends (`range_begin < range_end`, from the options): a frame that is shown at
once because its number stutters is then never the last one. That nothing is
preloaded twice, which would clear what is not yet replayed, needs `LeavesBegin`: no frame
in the queue is followed by the first one of the range.
`TypeCorrect` adds the history to the types: what decoders were given are blocks with the
number of a frame, whatever was preloaded, looped or shown at once (`ShownType`).

`FrameReplayImplemented` is the refinement. `ScriptInv` says where in its script replay
is, as two numbers: m, the frames shown, and c, the frames read. Before a loop
(`Follows`) what has been shown is the script up to m, the position is that of frame c
(`PositionAt`), and the frames from m to c are those in the queue, one behind the other
(`HoldsFrames`; while the queue is replayed it begins with frames that were shown). In
a loop (`Repeats`) the queue holds the loop frame, the last of the script, and the second
number is how often replay has gone back to the bookmark. Then each step is looked at: one that reads or replays a
frame shows the next of the script (`FrameIsContracted`), any other shows nothing, and
replay ends where the script does (`EndIsContracted`), because the number in the
last result shown is the one the limits look at (`FrameBefore`). A stutter is shown while it
is preloaded, and is not the last frame that is preloaded (`StutterIsFollowed`). The hypothesis
is needed for nothing else to be in the queue then: numbers that only go up do not come back
to the one replay is at. Like the stream of the
asynchronous reader the script is a recursion over the capture, and there is such a function by
`RecursionExists`; where it begins and how it goes on is all the steps need
(`FramesAreRead`, `NextFrame`, `ScriptFacts`). TLC checked `ScriptInv` on the instance of the run
`sync_replay` before it was proved.

**AsyncReplay_proofs**, first of `AsyncProcessor` alone: `TypeCorrect` (no unsigned
subtraction wraps), `BatchesAccountedFor`, `NoLostNotification`, `BacklogBounded`,
`NoDeadlock`. The invariant `IInv` adds to them what the processing thread may
believe of the other one: the pending count it read is an upper bound of the true
one (`PendingIsUpperBound`), since the other thread only lowers it, and what it
waits for has been enqueued (`TargetIsEnqueued`), being either the fence's own
batch or `kAsyncResume` batches behind the newest. Without the first the backlog
cannot be bounded, and without the second a wait might have no batch to end it.
Then `PreloadOnBatchBoundariesCorrect` and `PreloadedBlocksAreDecompressedCorrect`:
`PreloadInv` says at each label whether the batch in hand is all preloaded (and the
policy `kAlways`) or not at all, `FramesArePresents` that before the first marker
frames ended at presents, so that the count can start again only where the
hypothesis allows it. Then `ReplayRunsTheProcessor`: the application's own steps
change the processor through `Advance` and `Destroy` only, so that each behaviour of
both is one of `AsyncProcessor`, and every safety theorem about it holds in every
replay; three are stated (`ReplayNoDeadlock`, `ReplayBatchesAccountedFor`,
`ReplayStreamIsSequential`).
Last, of the composition, `NoReadingWhileMeasuredCorrect` and
`PreloadedFramesAreTheRangeCorrect`. The application recognises the range by the tails of
batches, which were cut by another thread long before, so the invariant
`ReplayInv` reads what is under way as one list of batches, from the rest of the
application's batch over the queue to what the producer fills (`AheadAt`): a frame number is
not reached yet, or is crossed at the tail of one batch, with lower numbers before
it and none lower behind (`NotReached`, `CrossedAt`). At the end of the range this batch is
followed by at most the one of the fence, behind which the producer is held
(`Held`); so when the application comes to its tail the producer waits there until
the application advances, which it does only in `ClearPreloaded`. `Phases` says
what the application may have of the range at each of its labels; `EndsAreLast` that
a result that ends the replay is the last there is, for ranges the capture
ends in. `Shifts` and `Stays` are all that the dispatching thread does to the list.
Before it was proved, TLC checked `ReplayInv` on every capture of at most three
calls, presents and markers and on some longer ones, under ten sets of options
(768625 states), and `EndInv` on the same.

`NeverPastTheEndWithinLimitsCorrect` needs `EndInv` besides. The assertions say that
the queue has something to take when the application comes to its end, and only the producer's
stop could make it otherwise. So the invariant says that once the producer will
read no more the application knows: the result that ends the reading is at the tail
of a batch ahead of it (`EndIsAhead`), or it has that result, in what it preloaded or
in the frame just replayed (`EndIsTaken`). The numbers the two stop at are different
ones, the limit given at the start and the frame the application quits before, and
`LimitsAgree` relates them. What is played from memory ends with a result
(`QueueEnds`) and stays in its last batch until it is played (`TakenIsBehind`), and what
is looped begins at once (`LoopsAtOnce`).

`StreamIsSequentialCorrect` is about the entries themselves, for every capture. The
reference, what one thread reads of the capture (`ReadUpTo`), and the content of the queue
(`Flattened`) are recursive functions, of which the definition alone says nothing: `CHOOSE`
gives a function that has the equation only if there is one. `RecursionExists`
gives it, by the least number up to which there is none; with
`LeastExists` again, what one thread read after k blocks is all there when it has read more
(`ReadOn`), and appending to the queue and taking from its front do to its content
what they should (`FlattenedAppend`, `FlattenedTail`). Then the steps: the processing thread adds
a block, or a block with the result of its frame, or the terminal result, to the
end of all there is (`Content`), and every flush, throttle decision and dequeued batch
leaves that as it is (`ProducerContent`, `DispatcherContent`). `StreamInv` has the thread at
the position where the reference is after as many blocks (`Here`), and as many
entries as the reference has there. The count replaces a filter that leaves out the signals.

**CaptureTrim_proofs**: `TypeCorrect`; `EveryCallIsInTheFileCorrect`;
`FilesHoldTheRangesCorrect`. `IInv` follows the thread that ends frames or submits
through the change of the write mode: who holds the lock at which label (`LockInv`),
where each thread of a call is (`CallInv`), and which mode, file and range go with
it (`ModeInv`). `ContentInv` divides the calls by how far each thread is: the tracker
knows those behind their check and none that is not encoded, and the file in write
mode has all that are encoded, in its snapshot or among its calls and never in both.
This is where the exclusive lock counts: while the mode changes no other thread is
between its encoding and its check. `UnitsInv` counts the frames or submits of the
open file against the boundary thread's place in its call.

**PageGuard_proofs**: `TypeCorrect`, `NoWriteMissedCorrect`, `NoTrapCorrect`,
`DeviceWritesAreReadCorrect`, `WritesSurviveCorrect` and
`SubmitCapturesEarlierWritesCorrect`. `IInv` has the holder of
`tracked_memory_lock_`, what the scan has left behind it (`ScanInOrder`: it goes from
the first page to the last, and nothing is marked behind it), that a marked page is known to be modified
unless the scan has yet to reach it (`MarksAreKnown`), and which pages
are closed. `DeviceInv` and `WriteInv` rest on it: an open page of the device holds what
the device has written, and a page whose content the driver and the capture do not have
is open.

**AsyncPipelines_proofs**: `TypeCorrect`, `NothingInUseIsDestroyedCorrect`,
`NamesAreSetCorrect` and `HandleIsClearedCorrect`, that behind the wait of a destruction
no task is tracked for the handle. A task is with one of the pool's queue, a worker, the
main thread's queue or done (`PoolInv`, `PostedInv`); as long as it has not
given up what it uses it is tracked by every handle of its call (`TrackInv`), so that
the tasks that are waited for are all there are (`DestroyInv`); and a deferred
name has a task to set it (`DeferredInv`). The queues are treated as sets without
repetitions (`AppendElements`, `TailElements`, `ConcatElements`).

**AssetFile_proofs**: `AssetTypeCorrect` and `CleanBuffersCorrect`, that what a
capture refers to for a buffer it does not dump again is what the buffer contains, if
captures begin between frames and dumps are alone. The inductive invariant
adds `QuietInv`: what a submission is yet to write is dirty, and while the writer
works nothing is on its way. It is this that a range of submits and a
dump beside calls break. `DumpExtends` is the heart of it: the asset
file only grows, so that an offset keeps its meaning, and what is dumped begins where
the file ended; `MarkedKeepsClean` says that a step of the application only has to mark
what it changes, or to find it marked. That a set is written with blocks at all needs `Counted`: the
active bindings are counted without a gap, shown by the pigeonhole theorem, as
induction is not to be had.

Then, of captures and their replay: `SnapshotIsRestoredCorrect`,
`ExecutesWhatIsReferencedCorrect`, `StaleDescriptorsAreIgnoredCorrect` and
`ReplayTypeCorrect`. The invariant has three parts. `SnapshotInv` is about the files. A clean
set's offset is where its allocation and its updates stand
(`CleanSetsAreInTheFile`), which holds only because a buffer that is destroyed knows
the sets to mark (`TableInv`); a capture, from its first block to where
the writer is, refers to blocks of the state it began in (`Belongs`), allocates each set
once and before its updates, and leaves nothing out of what was visited (`WriterInv`,
`IsComplete`). Since the file only grows, a capture that is finished stays
so. `StackInv` is about the block processor: which of four things the stack is doing,
and that what is executed of the entry in hand lies between its offset and the
position in the asset file, with as many blocks left to count as are missing from it.
This is what the counting has to get right, being one ahead because the executing
block is counted in the new file. `RestoredInv` says that what was made is what was
executed; `Belongs` then makes it the state of the capture, and order and
uniqueness of the allocations that Vulkan refuses nothing. TLC checked the three on the
instance of the run `assets` before they were proved. The theorems are about that
system with any number of buffers, sets, bindings, captures and dumps; the four
hypotheses exclude what section 6 reports.

*Only model-checked*: liveness (out of the prover's reach), and that `AsyncReplay`
implements `FrameReplay`. The argument would be that of `SyncReplay` with the frames that
are read cut into batches by the other thread; that what it is given is the capture in order is proved
(`ReplayStreamIsSequential`), as is what it preloads, and that it finds a result where it
looks for one. Every invariant a passing run checks is proved.

## 6 Findings

Each is a run that TLC ends with the counterexample described; the sentences of
the code that are contradicted are quoted in `PROJECT.json`.

* `async_destructor`: `~AsyncProcessor` stores `keep_alive_` and notifies without
  `throttle_mutex_`. Both can fall between the other thread's test of its
  predicate and its blocking; then `join()` does not return.
* `async_loop_frame`: the limit the producer is given for a loop frame is
  exclusive and is the loop frame itself, so that with asynchronous processing the loop
  frame (unless it is the first) is never read and replay ends in a fatal error.
* `capture_tracker`: behind the last trim range the state tracker is destroyed under
  the shared lock, beside a call of another thread that has found track mode set
  and is about to use it.
* `asset_template`: an update of a descriptor set with a template does not tell
  the resources which set refers to them. When one is destroyed the set stays clean,
  and the next capture executes the first blocks of the earlier dump, as many as
  there are descriptors left: the stale one is executed and the last one is missing.

Cases met while modelling that no run shows; the inputs of the runs leave them out:

* *Replay.* A quit frame inside a preloaded range stops the producer inside it
  (`preload_file_processor.cpp:230`; `NeverPastTheEndWithinLimits` names the limits for
  which the producer stops early). A looped first frame is parsed under `kNever`
  although its blocks are replayed again (`file_processor.cpp:271`). A first marker that
  was not announced and comes behind two or more frames of presents makes a
  preload clear blocks it has not replayed (`preload_file_processor.cpp:84`).
  `kAsyncWait` bounds the depth of the queue between frames only
  (`async_processor.h:168`).
* *Pipelines.* A task is waited for through the first pipeline of its call; if that
  is null in the capture the wait returns at once, and what the task uses is
  destroyed (`vulkan_replay_consumer_base.cpp:13809`).
* *Trimming.* With consecutive ranges of submits the file of the next range is begun
  in `PostQueueSubmit`, before the submit that ended the previous one is tracked:
  that submit is in neither (`capture_manager.cpp:943`). An asset dump sets the write
  mode under the shared lock, without a file for other threads' calls.
* *Page guard.* The loop that loads the pages of a persistent shadow allocation
  advances its pointers only with a copy (`page_guard_manager.cpp:1172`), so that
  pages behind one loaded before get the wrong content; `Ranges` is the whole
  memory for that reason. The handler makes a page readable for the process
  before it has copied the driver's content into it
  (`page_guard_manager.cpp:1455`, `:1481`); a second thread that reads the page in
  between gets what the shadow held. `DeviceWritesAreRead` is about reads once the
  handler is done.
* *Asset files.* When the first set of a joint allocation is freed alone the next
  clean set counts the allocation's block, which its dump does not begin with
  (`vulkan_state_writer.cpp:1179`); `Freed` leaves that out. Freed memory under a buffer,
  or an image destroyed before its view, changes what is active without marking the
  set. A buffer whose memory cannot be read is marked clean without an offset
  (`:2619`). An asset dump with a destroyed set layout writes to the capture file there
  is not (`:1158`). Tensors are not written with an asset file. A descriptor that is
  overwritten leaves its set entered in the earlier buffer; freeing the set and
  destroying that buffer then marks a freed wrapper
  (`vulkan_state_tracker.cpp:2316`).
* *Marks of asset files that are cleared too early.* A submission is marked
  (`vulkan_capture_manager.cpp:3238`, `:3280`) before `PreQueueSubmit` (`:3243`,
  `:3285`), which may begin a range of submits: the snapshot dumps the old contents and
  clears the flags, then the driver gets the submission, and nothing marks what it
  writes. The next snapshot refers to contents that are out of date. One thread
  suffices. With `TrimBoundary = "submits"` in `Assets.cfg` TLC finds
  `CleanBuffersAreInTheFile` violated in 8 states and `SnapshotIsRestored` in 17.
  An asset dump runs under the shared lock and without waiting for the device
  (`capture_manager.cpp:1030`), so that the same happens to a submission before it or
  of another thread: with `DumpsBesideCalls = TRUE` in 6 states and 17. Without
  any submission a dump can still lose a mark: `DestroyState` marks the sets of a
  destroyed buffer once `state_table_mutex_` is released (`vulkan_state_tracker.h:281`,
  `vulkan_state_tracker.cpp:2314`), between the tests of a set
  (`vulkan_state_writer.cpp:1170`, `:1185`) and the clearing of its flag (`:1268`). The next
  capture then counts on a dump that does not match the set; TLC finds
  `SnapshotIsRestored` violated with one set of two bindings and three captures and dumps.
  `TrackUpdateDescriptorSetWithTemplate` does not take the mutex either.
  `USAGE_desktop_Vulkan.md:517` promises that what was changed is dumped. The properties
  are checked and proved where neither happens (`RangesOfFrames`, `DumpsAreAlone`);
  to see the violations, change the constant in `Assets.cfg`.
* *File stack.* A block that executes others is not counted down in the file it is
  in, so that a counted range must not contain one; a file that executes itself
  shares its position. No writer makes either.

## 7 Not modelled

* The payload of blocks: parsing, decompression, encoding, handle mapping, and
  the consumers that issue the calls. They are functions of data, or do what a
  driver does. This, with the generated code (one function per API call or
  structure, half of the repository), is nearly all of the lines that no
  definition maps to.
* Instrumentation, logging, statistics.
* The memory of batches (`BlockBatch`'s arena and reference counts).
* Relaxed memory: the atomics of the modelled parts are stored with release and
  loaded with acquire order, and each access is a step of the model. The pairs
  whose order matters (the wait target and the count of dequeued batches) are
  written on both sides around `throttle_mutex_`, which orders them.
* `QueueMPMC`, the variant of the queue for several consumers, which nothing
  instantiates.
* In replay: pausing and window events of the application, decoders that ask for
  the end of a replay (`IsComplete`), block skipping, `ProcessAllFrames` (tools
  without an application loop), byte counts, the eviction of open files.
* In capture: trimming by draw calls, frame boundaries inside of submits, several
  threads that present or submit (the counters are not atomic), screenshots, the calls
  that other threads encode to no stream while assets are dumped.
* With asset files, writes through mapped memory: they are marked and saved by the next
  submission or by unmapping (`TrackMappedAssetsWrites`), and a thread that writes
  while its memory is saved races with the copy.
* In the page guard: userfaultfd, write watch, memory without a shadow, several
  entries for one memory, and the two exceptions
  `USAGE_desktop_Vulkan.md` (312, 315) makes for pages shared between writers.
* In the pool: priorities other than the default, `swap`.
* Other state trackers and writers, resource dumping, swapchains, memory translation,
  D3D12 and OpenXR consumers, tools, windows. `PROJECT.json` lists each with its
  reason.
