---------------------------- MODULE AsyncProcessor ----------------------------
(***************************************************************************)
(* framework/decode/async_processor.cpp: the thread that reads and parses  *)
(* the capture ahead of the thread that replays it.                        *)
(*                                                                         *)
(* The processing thread collects blocks in a batch (BlockAllocator), tags *)
(* the batches and puts them on a queue; the dispatching thread takes them *)
(* off the queue through an AsyncBatchIterator.  The processing thread     *)
(* waits when it is too many batches ahead (ThrottleQueue), and after the  *)
(* frames that are preloaded, until the dispatching thread has caught up.  *)
(*                                                                         *)
(* The queue is the one of ClosableQueue.  The bytes of a block and of a   *)
(* batch are left out: whether the next block still fits in the batch, and *)
(* whether the batch is half full, is a free choice, since blocks have any *)
(* size.                                                                   *)
(*                                                                         *)
(* The dispatching thread is the most general one: whenever it is idle it  *)
(* may advance or destroy the AsyncProcessor.  AsyncReplay restricts it to *)
(* what the replay application does.                                       *)
(***************************************************************************)
EXTENDS BlockStream, FiniteSets

CONSTANTS
  Inputs,                  (* what may be replayed, see InputAssumption      *)
  kLowWater,               (* the throttle boundaries, in batches            *)
  kSoftLowWater,
  kAsyncDecompressNever,
  kAsyncDecompressOptimized,
  kAsyncDecompressAlways,
  kMaxBatchCount,          (* the wait target of a producer that is not      *)
                           (* waiting; the largest BatchCount                *)
  NoBatch                  (* the null BatchPtr                              *)

kAsyncResume == kAsyncDecompressOptimized + 1
kAsyncWait == kAsyncDecompressAlways + 1

(* The two static_asserts of ThrottleQueue, and that the boundaries rise.     *)
ASSUME BoundaryAssumption ==
  /\ kLowWater \in Nat
  /\ kSoftLowWater \in Nat
  /\ kAsyncDecompressNever \in Nat
  /\ kAsyncDecompressOptimized \in Nat
  /\ kAsyncDecompressAlways \in Nat
  /\ kLowWater <= kSoftLowWater
  /\ kSoftLowWater <= kAsyncDecompressNever
  /\ kAsyncDecompressNever < kAsyncDecompressOptimized
  /\ kAsyncDecompressOptimized < kAsyncDecompressAlways

(* An input is a capture with the FrameProcessingParams and the block limit:  *)
(* the frames in [preload_begin, preload_end) are preloaded, and reading ends *)
(* at quit_before_frame.                                                      *)
ASSUME InputAssumption ==
  \A input \in Inputs :
    /\ input.capture \in Captures
    /\ input.block_limit \in Nat
    /\ input.preload_begin \in Nat
    /\ input.preload_end \in Nat
    /\ input.quit_before_frame \in Nat

Batch == [tag : Nat, blocks : Seq(Entries)]

ASSUME SentinelAssumption ==
  /\ NoBatch \notin Batch
  /\ kMaxBatchCount \in Nat

(* The one consumer of the queue.                                             *)
Dispatcher == "dispatcher"

VARIABLES
  input,           (* what is replayed; never changes                        *)
  pos,             (* the position of the BlockProcessor                     *)
  process_state,   (* what the latest ProcessBlocks returned                 *)
  batch,           (* the entries of the allocator's current batch           *)
  policy,          (* the parser's decompression policy                      *)
  enqueued_batch_index,
  preloading,      (* local of ThreadMain                                    *)
  pending_batches, (* local of ThrottleQueue                                 *)
  async_pc,        (* where the processing thread is                         *)
  queue, queue_open, got,      (* batch_queue_, and what was popped last     *)
  last_dequeued_batch,
  throttle_wait_target,
  keep_alive,
  dispatch_pc,     (* where the dispatching thread is in AsyncProcessor code *)
  delivered        (* history: the entries of all batches popped so far      *)

reader_vars == <<pos, process_state, batch, policy>>
queue_vars == <<queue, queue_open, got>>
dispatch_vars == <<last_dequeued_batch, keep_alive, dispatch_pc, delivered>>
vars == <<input, reader_vars, enqueued_batch_index, preloading, pending_batches,
          async_pc, queue_vars, throttle_wait_target, dispatch_vars>>

Queue == INSTANCE ClosableQueue WITH
  Consumers <- {Dispatcher}, Values <- Batch, NoValue <- NoBatch,
  items <- queue, open <- queue_open, got <- got

Init ==
  /\ input \in Inputs
  /\ pos = StartOf(input.capture)
  /\ process_state = "kContinue"
  /\ batch = <<>>
  /\ policy = "kAlways"
  /\ enqueued_batch_index = 0
  /\ preloading = FALSE
  /\ pending_batches = 0
  /\ async_pc = "not_started"
  /\ Queue!Init
  /\ last_dequeued_batch = 0
  /\ throttle_wait_target = kMaxBatchCount
  /\ keep_alive = FALSE
  /\ dispatch_pc = "launch"
  /\ delivered = <<>>

-----------------------------------------------------------------------------
(* The processing thread: ThreadMain and what it calls                       *)

GoAsync(label) == async_pc' = label

(* Mutants of Flush: the tag is set before the index is incremented; the      *)
(* batch is sent and kept.                                                    *)
Flush_TagBeforeIncrement(blocks) ==
  IF blocks = <<>>
    THEN /\ batch' = <<>>
         /\ UNCHANGED <<enqueued_batch_index, queue_vars>>
    ELSE /\ batch' = <<>>
         /\ enqueued_batch_index' = enqueued_batch_index + 1
         /\ Queue!Push([tag |-> enqueued_batch_index, blocks |-> blocks])

Flush_KeepsBatch(blocks) ==
  IF blocks = <<>>
    THEN /\ batch' = <<>>
         /\ UNCHANGED <<enqueued_batch_index, queue_vars>>
    ELSE /\ batch' = blocks
         /\ enqueued_batch_index' = enqueued_batch_index + 1
         /\ Queue!Push([tag |-> enqueued_batch_index + 1, blocks |-> blocks])

(* FlushBatch of a batch with these entries, through the sink of ThreadMain:  *)
(* an empty batch is not sent; any other gets the next tag and is queued.     *)
Flush(blocks) ==
  IF blocks = <<>>
    THEN /\ batch' = <<>>
         /\ UNCHANGED <<enqueued_batch_index, queue_vars>>
    ELSE /\ batch' = <<>>
         /\ enqueued_batch_index' = enqueued_batch_index + 1
         /\ Queue!Push([tag |-> enqueued_batch_index + 1, blocks |-> blocks])

(* The current batch is kept and nothing is sent.                             *)
Keep(blocks) ==
  /\ batch' = blocks
  /\ UNCHANGED <<enqueued_batch_index, queue_vars>>

(* The head of ThreadMain: a batch with only a continue block goes out so     *)
(* that LaunchAsyncThread need not wait for the first full batch.             *)
StartThread ==
  /\ async_pc = "start"
  /\ Flush(Append(batch, ContinueEntry))
  /\ policy' = "kNever"
  /\ GoAsync("top")
  /\ UNCHANGED <<input, pos, process_state, preloading, pending_batches,
                 throttle_wait_target, dispatch_vars>>

InPreloadRange(frame) == input.preload_begin <= frame /\ frame < input.preload_end

(* Mutant: what was read before stays in the batch.                           *)
TopOfLoop_NoFlush ==
  /\ async_pc = "top"
  /\ preloading' = InPreloadRange(pos.frame_number)
  /\ policy' = IF pos.frame_number = input.preload_begin /\ preloading'
                 THEN "kAlways" ELSE policy
  /\ Keep(batch)
  /\ GoAsync("read")
  /\ UNCHANGED <<input, pos, process_state, pending_batches, throttle_wait_target,
                 dispatch_vars>>

(* The top of the loop: what was read before the first preloaded frame is     *)
(* flushed, so that preloaded frames start on a batch.                        *)
TopOfLoop ==
  /\ async_pc = "top"
  /\ preloading' = InPreloadRange(pos.frame_number)
  /\ IF pos.frame_number = input.preload_begin /\ preloading'
       THEN /\ Flush(batch)
            /\ policy' = "kAlways"
       ELSE /\ Keep(batch)
            /\ UNCHANGED policy
  /\ GoAsync("read")
  /\ UNCHANGED <<input, pos, process_state, pending_batches, throttle_wait_target,
                 dispatch_vars>>

(* ProcessBlock reads and parses one block.  Before it is read StartBlock     *)
(* makes room: the current batch is flushed if the block does not fit in it.  *)
(* The bytes of a damaged block are asked for as well, so it flushes, too.    *)
MakeRoom ==
  /\ async_pc = "read"
  /\ batch # <<>>
  /\ ~OverLimit(pos, input.block_limit)
  /\ ~AtEndOfFile(input.capture, pos)
  /\ Flush(batch)
  /\ GoAsync("read_into_new_batch")
  /\ UNCHANGED <<input, pos, process_state, policy, preloading, pending_batches,
                 throttle_wait_target, dispatch_vars>>

ReadBlock ==
  /\ async_pc \in {"read", "read_into_new_batch"}
  /\ ~Stops(input.capture, input.block_limit, pos)
  /\ LET kind == NextKind(input.capture, pos)
     IN /\ Keep(Append(batch, BlockEntry(pos.block_index + 1, pos.frame_number, policy)))
        /\ pos' = AfterBlock(pos, kind)
        /\ process_state' = BlockState(pos, kind)
        /\ GoAsync(IF IsFrameDelimiter(pos, kind) THEN "result" ELSE "read")
  /\ UNCHANGED <<input, policy, preloading, pending_batches, throttle_wait_target,
                 dispatch_vars>>

(* ProcessBlocks ends because there is no block to parse.                     *)
StopReading ==
  /\ async_pc \in {"read", "read_into_new_batch"}
  /\ Stops(input.capture, input.block_limit, pos)
  /\ process_state' = StopState(input.capture, input.block_limit, pos)
  /\ Keep(batch)
  /\ GoAsync("result")
  /\ UNCHANGED <<input, pos, policy, preloading, pending_batches,
                 throttle_wait_target, dispatch_vars>>

(* Mutants of AddResult: no flush after the last preloaded frame; the         *)
(* throttle also runs between preloaded frames.                               *)
AddResult_NoFlush ==
  /\ async_pc = "result"
  /\ LET with_result == Append(batch, ResultEntry(process_state, pos.frame_number))
     IN /\ Keep(with_result)
        /\ GoAsync(IF preloading
                     THEN IF InPreloadRange(pos.frame_number) THEN "bottom" ELSE "fence"
                     ELSE "throttle")
  /\ UNCHANGED <<input, pos, process_state, policy, preloading, pending_batches,
                 throttle_wait_target, dispatch_vars>>

AddResult_AlwaysThrottle ==
  /\ async_pc = "result"
  /\ LET with_result == Append(batch, ResultEntry(process_state, pos.frame_number))
     IN IF preloading /\ ~InPreloadRange(pos.frame_number)
          THEN /\ Flush(with_result)
               /\ GoAsync("fence")
          ELSE /\ Keep(with_result)
               /\ GoAsync("throttle")
  /\ UNCHANGED <<input, pos, process_state, policy, preloading, pending_batches,
                 throttle_wait_target, dispatch_vars>>

(* AddResultsBlock, and after the last preloaded frame the flush that makes   *)
(* its result the tail of a batch.                                            *)
AddResult ==
  /\ async_pc = "result"
  /\ LET with_result == Append(batch, ResultEntry(process_state, pos.frame_number))
     IN IF preloading /\ ~InPreloadRange(pos.frame_number)
          THEN /\ Flush(with_result)
               /\ GoAsync("fence")
          ELSE /\ Keep(with_result)
               /\ GoAsync(IF preloading THEN "bottom" ELSE "throttle")
  /\ UNCHANGED <<input, pos, process_state, policy, preloading, pending_batches,
                 throttle_wait_target, dispatch_vars>>

(* Mutant: the fence waits for a batch behind the continue batch.             *)
Fence_OffByOne ==
  /\ async_pc = "fence"
  /\ Flush(Append(batch, ContinueEntry))
  /\ throttle_wait_target' = enqueued_batch_index' + 1
  /\ GoAsync("wait_test")
  /\ UNCHANGED <<input, pos, process_state, policy, preloading, pending_batches,
                 dispatch_vars>>

(* Mutant: the producer goes on behind the preloaded frames.                  *)
Fence_NoWait ==
  /\ async_pc = "fence"
  /\ Flush(Append(batch, ContinueEntry))
  /\ GoAsync("bottom")
  /\ UNCHANGED <<input, pos, process_state, policy, preloading, pending_batches,
                 throttle_wait_target, dispatch_vars>>

(* The continue batch behind the preloaded frames, and WaitForBatchCount for  *)
(* it up to where it evaluates its predicate, under throttle_mutex_.          *)
Fence ==
  /\ async_pc = "fence"
  /\ Flush(Append(batch, ContinueEntry))
  /\ throttle_wait_target' = enqueued_batch_index'
  /\ GoAsync("wait_test")
  /\ UNCHANGED <<input, pos, process_state, policy, preloading, pending_batches,
                 dispatch_vars>>

(* ThrottleQueue looks once at how far the other thread is behind.            *)
ReadPending ==
  /\ async_pc = "throttle"
  /\ pending_batches' = enqueued_batch_index - last_dequeued_batch
  /\ GoAsync("act")
  /\ UNCHANGED <<input, reader_vars, enqueued_batch_index, preloading, queue_vars,
                 throttle_wait_target, dispatch_vars>>

(* Low water: at or below kLowWater the batch is flushed however small it is, *)
(* up to kSoftLowWater it is if it is half full.                              *)
LowWater ==
  /\ async_pc = "act"
  /\ pending_batches <= kSoftLowWater
  /\ \/ Flush(batch)
     \/ pending_batches > kLowWater /\ Keep(batch)
  /\ policy' = "kNever"
  /\ GoAsync("bottom")
  /\ UNCHANGED <<input, pos, process_state, preloading, pending_batches,
                 throttle_wait_target, dispatch_vars>>

(* Mutant: the target is ahead of what was enqueued.                          *)
HighWater_TargetAhead ==
  /\ async_pc = "act"
  /\ pending_batches > kSoftLowWater
  /\ pending_batches >= kAsyncWait
  /\ throttle_wait_target' = enqueued_batch_index + kAsyncResume
  /\ GoAsync("wait_test")
  /\ UNCHANGED <<input, reader_vars, enqueued_batch_index, preloading,
                 pending_batches, queue_vars, dispatch_vars>>

(* Mutant: the high water test is left out.                                   *)
HighWater_AnyPending ==
  /\ async_pc = "act"
  /\ pending_batches > kSoftLowWater
  /\ throttle_wait_target' = enqueued_batch_index - kAsyncResume
  /\ GoAsync("wait_test")
  /\ UNCHANGED <<input, reader_vars, enqueued_batch_index, preloading,
                 pending_batches, queue_vars, dispatch_vars>>

(* High water: WaitForBatchCount up to where it evaluates its predicate.      *)
HighWater ==
  /\ async_pc = "act"
  /\ pending_batches > kSoftLowWater
  /\ pending_batches >= kAsyncWait
  /\ throttle_wait_target' = enqueued_batch_index - kAsyncResume
  /\ GoAsync("wait_test")
  /\ UNCHANGED <<input, reader_vars, enqueued_batch_index, preloading,
                 pending_batches, queue_vars, dispatch_vars>>

(* AdjustDecompressionPolicy: a hysteresis around the number of batches.      *)
AdjustedPolicy(pending) ==
  CASE policy = "kNever" ->
         IF pending > kAsyncDecompressOptimized THEN "kQueueOptimized" ELSE policy
    [] policy = "kQueueOptimized" ->
         IF pending >= kAsyncDecompressAlways THEN "kAlways"
         ELSE IF pending <= kAsyncDecompressNever THEN "kNever" ELSE policy
    [] policy = "kAlways" ->
         IF pending <= kAsyncDecompressOptimized THEN "kQueueOptimized" ELSE policy

BetweenWaters ==
  /\ async_pc = "act"
  /\ pending_batches > kSoftLowWater
  /\ pending_batches < kAsyncWait
  /\ policy' = AdjustedPolicy(pending_batches)
  /\ Keep(batch)
  /\ GoAsync("bottom")
  /\ UNCHANGED <<input, pos, process_state, preloading, pending_batches,
                 throttle_wait_target, dispatch_vars>>

(* WaitForBatchCount.  At "wait_test" and "wait_block" the thread holds       *)
(* throttle_mutex_; the predicate and the blocking are two steps because      *)
(* keep_alive_ is written without the mutex.                                  *)
HoldsThrottleMutex == async_pc \in {"wait_test", "wait_block"}

CaughtUp == ~keep_alive \/ last_dequeued_batch >= throttle_wait_target

(* Mutant: a wait without a predicate, over with any wakeup.                  *)
WaitDone_NoPredicate ==
  /\ async_pc = "wait_test"
  /\ throttle_wait_target' = kMaxBatchCount
  /\ policy' = IF preloading THEN "kNever" ELSE AdjustedPolicy(kAsyncResume)
  /\ Keep(batch)
  /\ GoAsync("bottom")
  /\ UNCHANGED <<input, pos, process_state, preloading, pending_batches, dispatch_vars>>

(* The predicate is true: the wait is over, and so is ThrottleQueue or the    *)
(* fence, each with its change of the policy.                                 *)
WaitDone ==
  /\ async_pc = "wait_test"
  /\ CaughtUp
  /\ throttle_wait_target' = kMaxBatchCount
  /\ policy' = IF preloading THEN "kNever" ELSE AdjustedPolicy(kAsyncResume)
  /\ Keep(batch)
  /\ GoAsync("bottom")
  /\ UNCHANGED <<input, pos, process_state, preloading, pending_batches, dispatch_vars>>

WaitStep(from, to) ==
  /\ async_pc = from
  /\ GoAsync(to)
  /\ UNCHANGED <<input, reader_vars, enqueued_batch_index, preloading,
                 pending_batches, queue_vars, throttle_wait_target, dispatch_vars>>

NotYet == ~CaughtUp /\ WaitStep("wait_test", "wait_block")
Block == WaitStep("wait_block", "waiting")
SpuriousWakeup == WaitStep("waiting", "woken")
Reacquire == WaitStep("woken", "wait_test")

(* The loop's condition.                                                      *)
BottomOfLoop ==
  /\ async_pc = "bottom"
  /\ GoAsync(IF /\ ContinueProcessing(process_state)
                /\ pos.frame_number < input.quit_before_frame
                /\ keep_alive
               THEN "top" ELSE "last_flush")
  /\ UNCHANGED <<input, reader_vars, enqueued_batch_index, preloading,
                 pending_batches, queue_vars, throttle_wait_target, dispatch_vars>>

(* Must flush before closing.                                                 *)
LastFlush ==
  /\ async_pc = "last_flush"
  /\ Flush(batch)
  /\ GoAsync("close")
  /\ UNCHANGED <<input, pos, process_state, policy, preloading, pending_batches,
                 throttle_wait_target, dispatch_vars>>

(* Mutant: the queue is left open.                                            *)
CloseQueue_Skipped ==
  /\ async_pc = "close"
  /\ GoAsync("exited")
  /\ UNCHANGED <<input, reader_vars, enqueued_batch_index, preloading, queue_vars,
                 pending_batches, throttle_wait_target, dispatch_vars>>

CloseQueue ==
  /\ async_pc = "close"
  /\ Queue!Close
  /\ GoAsync("exited")
  /\ UNCHANGED <<input, reader_vars, enqueued_batch_index, preloading,
                 pending_batches, throttle_wait_target, dispatch_vars>>

-----------------------------------------------------------------------------
(* The dispatching thread, in the code of AsyncProcessor                     *)

async_vars == <<reader_vars, enqueued_batch_index, preloading, pending_batches,
                throttle_wait_target>>

GoDispatch(label) == dispatch_pc' = label

(* A notification of throttle_cv_ reaches the processing thread only if it is *)
(* blocked at that time.                                                      *)
NotifyThrottle ==
  async_pc' = IF async_pc = "waiting" THEN "woken" ELSE async_pc

(* LaunchAsyncThread, up to the construction of the iterator, which advances. *)
LaunchAsyncThread ==
  /\ dispatch_pc = "launch"
  /\ keep_alive' = TRUE
  /\ GoAsync("start")
  /\ GoDispatch("pop")
  /\ UNCHANGED <<input, async_vars, queue_vars, last_dequeued_batch, delivered>>

(* A BlockIterator that has left a batch advances to the next one.            *)
Advance ==
  /\ dispatch_pc = "idle"
  /\ GoDispatch("pop")
  /\ UNCHANGED <<input, async_vars, async_pc, queue_vars, last_dequeued_batch,
                 keep_alive, delivered>>

(* AsyncBatchIterator::Advance gets a batch, or finds the queue at its end.   *)
PopBatch ==
  /\ dispatch_pc = "pop"
  /\ Queue!Pop(Dispatcher)
  /\ delivered' = delivered \o Head(queue).blocks
  /\ GoDispatch("store")
  /\ UNCHANGED <<input, async_vars, async_pc, last_dequeued_batch, keep_alive>>

PopEnd ==
  /\ dispatch_pc = "pop"
  /\ Queue!PopClosed(Dispatcher)
  /\ GoDispatch("idle")
  /\ UNCHANGED <<input, async_vars, async_pc, last_dequeued_batch, keep_alive,
                 delivered>>

(* NotifyBatchIndexDequeued: the store comes before the lock ...              *)
StoreDequeued ==
  /\ dispatch_pc = "store"
  /\ last_dequeued_batch' = got[Dispatcher].tag
  /\ GoDispatch("notify")
  /\ UNCHANGED <<input, async_vars, async_pc, queue_vars, keep_alive, delivered>>

(* Mutant of NotifyDequeued: the lock is not taken.                           *)
NotifyDequeued_NoLock ==
  /\ dispatch_pc = "notify"
  /\ IF got[Dispatcher].tag >= throttle_wait_target
       THEN NotifyThrottle
       ELSE UNCHANGED async_pc
  /\ GoDispatch("idle")
  /\ UNCHANGED <<input, async_vars, queue_vars, last_dequeued_batch, keep_alive,
                 delivered>>

(* ... and the notification, if the target is reached, under it.              *)
NotifyDequeued ==
  /\ dispatch_pc = "notify"
  /\ ~HoldsThrottleMutex
  /\ IF got[Dispatcher].tag >= throttle_wait_target
       THEN NotifyThrottle
       ELSE UNCHANGED async_pc
  /\ GoDispatch("idle")
  /\ UNCHANGED <<input, async_vars, queue_vars, last_dequeued_batch, keep_alive,
                 delivered>>

(* ~AsyncProcessor: neither the store to keep_alive_ nor the notification is  *)
(* made under throttle_mutex_.                                                *)
Destroy ==
  /\ dispatch_pc = "idle"
  /\ keep_alive' = FALSE
  /\ GoDispatch("destroy_notify")
  /\ UNCHANGED <<input, async_vars, async_pc, queue_vars, last_dequeued_batch,
                 delivered>>

DestroyNotify ==
  /\ dispatch_pc = "destroy_notify"
  /\ NotifyThrottle
  /\ GoDispatch("join")
  /\ UNCHANGED <<input, async_vars, queue_vars, last_dequeued_batch, keep_alive,
                 delivered>>

Join ==
  /\ dispatch_pc = "join"
  /\ async_pc = "exited"
  /\ GoDispatch("joined")
  /\ UNCHANGED <<input, async_vars, async_pc, queue_vars, last_dequeued_batch,
                 keep_alive, delivered>>

(* The end of the program is no deadlock.                                     *)
Finished == dispatch_pc = "joined" /\ UNCHANGED vars

-----------------------------------------------------------------------------
AsyncStep ==
  \/ StartThread \/ TopOfLoop
  \/ MakeRoom \/ ReadBlock \/ StopReading \/ AddResult
  \/ Fence \/ ReadPending \/ LowWater \/ HighWater \/ BetweenWaters
  \/ WaitDone \/ NotYet \/ Block \/ Reacquire
  \/ BottomOfLoop \/ LastFlush \/ CloseQueue

(* What the dispatching thread does inside AsyncProcessor once it is there.   *)
DispatchStep ==
  \/ LaunchAsyncThread
  \/ PopBatch \/ PopEnd \/ StoreDequeued \/ NotifyDequeued
  \/ DestroyNotify \/ Join

Next == AsyncStep \/ SpuriousWakeup \/ DispatchStep \/ Advance \/ Destroy \/ Finished

Spec == Init /\ [][Next]_vars

(* Both threads are scheduled, and an idle dispatching thread goes on to its  *)
(* next batch or ends.  A thread that asks for throttle_mutex_ gets it        *)
(* however often the other one takes it in between (which it could do for     *)
(* ever on spurious wakeups).  No wakeup is spurious on demand.               *)
Fairness ==
  /\ WF_vars(AsyncStep)
  /\ WF_vars(DispatchStep)
  /\ SF_vars(NotifyDequeued)
  /\ WF_vars(Advance \/ Destroy)

FairSpec == Spec /\ Fairness
-----------------------------------------------------------------------------
(* Properties                                                                *)

AsyncLabels ==
  {"not_started", "start", "top", "read", "read_into_new_batch", "result",
   "fence", "throttle", "act", "wait_test", "wait_block", "waiting", "woken",
   "bottom", "last_flush", "close", "exited"}

DispatchLabels ==
  {"launch", "pop", "store", "notify", "idle", "destroy_notify", "join", "joined"}

(* Types; that the counters and the wait target are natural numbers says that *)
(* the unsigned subtractions of ThrottleQueue do not wrap around              *)
(* (async_processor.cpp:106 and :136).                                        *)
TypeOK ==
  /\ input \in Inputs
  /\ pos \in Positions
  /\ process_state \in ProcessBlockStates
  /\ batch \in Seq(Entries)
  /\ policy \in Policies
  /\ enqueued_batch_index \in Nat
  /\ preloading \in BOOLEAN
  /\ pending_batches \in Nat
  /\ async_pc \in AsyncLabels
  /\ queue \in Seq(Batch)
  /\ queue_open \in BOOLEAN
  /\ got \in [{Dispatcher} -> Batch \cup {NoBatch}]
  /\ last_dequeued_batch \in Nat
  /\ throttle_wait_target \in Nat
  /\ keep_alive \in BOOLEAN
  /\ dispatch_pc \in DispatchLabels
  /\ delivered \in Seq(Entries)

(* A batch that was popped and not yet reported.                              *)
InFlight == IF dispatch_pc = "store" THEN 1 ELSE 0

(* The two counters, written by two threads, account for every batch between  *)
(* them: what is not reported as dequeued is on the queue or just popped, and *)
(* tags run without a gap.  Hence last_dequeued_batch_ <=                     *)
(* enqueued_batch_index_, the assertion of async_processor.cpp:105.           *)
TagsAccountForBatches ==
  /\ enqueued_batch_index = last_dequeued_batch + InFlight + Len(queue)
  /\ \A i \in 1 .. Len(queue) : queue[i].tag = last_dequeued_batch + InFlight + i
  /\ dispatch_pc = "store" => got[Dispatcher].tag = last_dequeued_batch + 1
  /\ dispatch_pc = "notify" => got[Dispatcher].tag = last_dequeued_batch

(* No wakeup by a dequeued batch is lost: when the target is reached and the  *)
(* processing thread is blocked, or past its test and about to block, the     *)
(* dispatching thread still has its notification ahead of it                  *)
(* (async_processor.cpp:60-72 against 81-93).                                 *)
CaughtUpIsNotified ==
  async_pc \in {"wait_block", "waiting"} /\ last_dequeued_batch >= throttle_wait_target
    => dispatch_pc = "notify"

(* The two threads never wait for each other: the dispatching thread for a    *)
(* batch and the processing thread for a batch to be dequeued.                *)
NoMutualBlocking ==
  ~ /\ async_pc \in {"wait_block", "waiting"}
    /\ last_dequeued_batch < throttle_wait_target
    /\ dispatch_pc = "pop"
    /\ queue = <<>>

(* Between two frames that are not preloaded the processing thread is less    *)
(* than kAsyncWait batches ahead, as long as nobody ends it.                  *)
BacklogBoundedBetweenFrames ==
  async_pc = "bottom" /\ ~preloading /\ keep_alive
    => enqueued_batch_index - last_dequeued_batch < kAsyncWait

IsBlock(entry) == "block" \in DOMAIN entry
Blocks(entries) == {entries[i] : i \in {j \in DOMAIN entries : IsBlock(entries[j])}}

(* Every batch that is not yet given up: queued, just popped, or being filled.*)
LiveBatches ==
  {queue[i].blocks : i \in DOMAIN queue} \cup {batch}
    \cup {b.blocks : b \in {got[Dispatcher]} \ {NoBatch}}

(* "async preload content starts and ends on frame boundaries": no batch has  *)
(* blocks of preloaded and of other frames, not even when the frame number    *)
(* stutters (async_processor.cpp:240-252).                                    *)
PreloadOnBatchBoundaries ==
  \A b \in LiveBatches : \A e, f \in Blocks(b) :
    InPreloadRange(e.frame) <=> InPreloadRange(f.frame)

(* Preloaded blocks are decompressed by the processing thread, whatever the   *)
(* throttle decided before (async_processor.cpp:257).                         *)
PreloadedBlocksAreDecompressed ==
  \A b \in LiveBatches : \A e \in Blocks(b) :
    InPreloadRange(e.frame) => e.policy = "kAlways"

(* The entries of these batches, in order.                                    *)
Flattened(batches) ==
  LET f[n \in 0 .. Len(batches)] == IF n = 0 THEN <<>> ELSE f[n - 1] \o batches[n].blocks
  IN f[Len(batches)]

(* All entries there have been, oldest first.  Signals and policies do not    *)
(* count: the n-th of the others is what there is n-th to replay.             *)
Stream == delivered \o Flattened(queue) \o batch

IsSignal(entry) == entry = ContinueEntry
Plain(entry) == IF IsBlock(entry) THEN [entry EXCEPT !.policy = "kAlways"] ELSE entry
CountIn(stream, n) == Cardinality({i \in 1 .. n : ~IsSignal(stream[i])})

Reference == SequentialStream(input.capture, input.block_limit)

(* Nothing the threads, the flushes, the fence or the throttle do changes     *)
(* what is replayed: the stream is always a beginning of what one thread      *)
(* would have read, with the same frame numbers.                              *)
StreamIsSequential ==
  \A i \in DOMAIN Stream :
    ~IsSignal(Stream[i]) =>
      LET n == CountIn(Stream, i)
      IN n <= Len(Reference) /\ Plain(Stream[i]) = Reference[n]

(* A dispatching thread that keeps advancing comes to the end of the queue.   *)
EndIsReached ==
  <>(\/ dispatch_pc = "idle" /\ got[Dispatcher] = NoBatch
     \/ dispatch_pc \in {"destroy_notify", "join"})

(* Thread teardown control (async_processor.h:208): the destructor, once it   *)
(* is entered, returns.                                                       *)
DestructorReturns == (dispatch_pc = "destroy_notify") ~> (dispatch_pc = "joined")

=============================================================================
