------------------------- MODULE AsyncReplay_proofs -------------------------
(***************************************************************************)
(* What holds of AsyncProcessor for every capture, every set of parameters *)
(* and every choice of the throttle boundaries: the type invariant, the    *)
(* accounting of batches between the two threads, that no wakeup by a      *)
(* dequeued batch is lost, and that preloaded frames fill batches of their *)
(* own and are decompressed.  All of it holds of AsyncReplay, too: every   *)
(* step of the replay application is one of AsyncProcessor's dispatching   *)
(* thread, or leaves the processor alone.  Of AsyncReplay itself: what is  *)
(* preloaded is the range, nothing is read while it is measured, and no    *)
(* frame behind the end of the range is replayed.                          *)
(*                                                                         *)
(* The inductive invariant IInv ties the processing thread's local         *)
(* variables to the shared counters: the pending count it read is an upper *)
(* bound of the true one (the other thread only lowers it), and the target *)
(* it waits for has been enqueued.  BatchesInv adds what the batch, the    *)
(* policy and the frame number have to do with each other at each label,   *)
(* and ReplayInv what is in the batches that are under way.                *)
(*                                                                         *)
(* The results on Spec are about AsyncProcessor alone; they do not use     *)
(* ReplayAssumption, which is about the inputs of the application.         *)
(***************************************************************************)
EXTENDS AsyncReplay, FileProcessor_proofs, SequenceTheorems


WaitLabels == {"wait_test", "wait_block", "waiting", "woken"}

PendingIsUpperBound ==
  async_pc = "act" =>
    /\ enqueued_batch_index - last_dequeued_batch <= pending_batches
    /\ pending_batches <= enqueued_batch_index

TargetIsEnqueued ==
  async_pc \in WaitLabels =>
    /\ throttle_wait_target <= enqueued_batch_index
    /\ ~preloading => throttle_wait_target = enqueued_batch_index - kAsyncResume

FenceIsForPreload == async_pc = "fence" => preloading

IInv ==
  /\ TypeOK
  /\ TagsAccountForBatches
  /\ PendingIsUpperBound
  /\ TargetIsEnqueued
  /\ FenceIsForPreload
  /\ CaughtUpIsNotified
  /\ BacklogBoundedBetweenFrames


-----------------------------------------------------------------------------
(* Policies and boundaries                                                   *)

LEMMA AdjustedPolicyType ==
  ASSUME policy \in Policies, NEW n
  PROVE  AdjustedPolicy(n) \in Policies
BY DEF AdjustedPolicy, Policies

LEMMA BoundaryTypes ==
  /\ kAsyncResume \in Nat /\ kAsyncWait \in Nat
  /\ kAsyncResume < kAsyncWait
  /\ kSoftLowWater + 1 < kAsyncWait
  /\ kSoftLowWater \in Nat /\ kLowWater \in Nat
BY BoundaryAssumption DEF kAsyncResume, kAsyncWait

-----------------------------------------------------------------------------
(* What a flush does: types are kept, and as long as the dispatching thread   *)
(* does not move, so is the accounting of batches.                            *)

LEMMA FlushTypes ==
  ASSUME TypeOK, NEW blocks \in Seq(Entries), Flush(blocks) \/ Keep(blocks)
  PROVE  /\ batch' \in Seq(Entries)
         /\ enqueued_batch_index' \in Nat
         /\ queue' \in Seq(Batch)
         /\ queue_open' \in BOOLEAN
         /\ got' = got
         /\ enqueued_batch_index <= enqueued_batch_index'
         /\ enqueued_batch_index' <= enqueued_batch_index + 1
<1>1. CASE /\ batch' \in {<<>>, blocks}
           /\ UNCHANGED <<enqueued_batch_index, queue_vars>>
  <2>1. <<>> \in Seq(Entries)
    OBVIOUS
  <2>2. /\ queue' = queue /\ queue_open' = queue_open /\ got' = got
        /\ enqueued_batch_index' = enqueued_batch_index
    BY <1>1 DEF queue_vars
  <2>3. batch' \in Seq(Entries)
    BY <1>1, <2>1
  <2> QED BY <2>2, <2>3 DEF TypeOK
<1>2. CASE /\ batch' = <<>>
           /\ enqueued_batch_index' = enqueued_batch_index + 1
           /\ Queue!Push([tag |-> enqueued_batch_index + 1, blocks |-> blocks])
  <2>1. [tag |-> enqueued_batch_index + 1, blocks |-> blocks] \in Batch
    BY DEF TypeOK, Batch
  <2> QED BY <1>2, <2>1 DEF TypeOK, Queue!Push
<1> QED BY <1>1, <1>2 DEF Flush, Keep

LEMMA AppendTypes ==
  ASSUME TypeOK
  PROVE  /\ Append(batch, ContinueEntry) \in Seq(Entries)
         /\ Append(batch, ResultEntry(process_state, pos.frame_number)) \in Seq(Entries)
         /\ Append(batch, BlockEntry(pos.block_index + 1, pos.frame_number, policy))
              \in Seq(Entries)
<1>1. pos.frame_number \in Nat /\ pos.block_index + 1 \in Nat
  BY DEF TypeOK, Positions
<1> QED BY <1>1, EntryTypes DEF TypeOK

LEMMA FlushAccounts ==
  ASSUME TypeOK, TagsAccountForBatches, NEW blocks, Flush(blocks) \/ Keep(blocks),
         UNCHANGED dispatch_vars
  PROVE  TagsAccountForBatches'
<1>1. CASE UNCHANGED <<enqueued_batch_index, queue_vars>>
  BY <1>1 DEF TagsAccountForBatches, InFlight, dispatch_vars, queue_vars
<1>2. CASE /\ enqueued_batch_index' = enqueued_batch_index + 1
           /\ Queue!Push([tag |-> enqueued_batch_index + 1, blocks |-> blocks])
  <2> DEFINE b == [tag |-> enqueued_batch_index + 1, blocks |-> blocks]
  <2>1. queue' = Append(queue, b) /\ got' = got
    BY <1>2 DEF Queue!Push
  <2>2. /\ Len(queue') = Len(queue) + 1
        /\ \A i \in 1 .. Len(queue) : queue'[i] = queue[i]
        /\ queue'[Len(queue) + 1] = b
    BY <2>1 DEF TypeOK
  <2>3. InFlight' = InFlight /\ InFlight \in {0, 1} /\ last_dequeued_batch' = last_dequeued_batch
    BY DEF InFlight, dispatch_vars
  <2>4. Len(queue) \in Nat /\ last_dequeued_batch \in Nat
    BY DEF TypeOK
  <2>5. enqueued_batch_index' = last_dequeued_batch' + InFlight' + Len(queue')
    BY <1>2, <2>2, <2>3, <2>4 DEF TagsAccountForBatches
  <2>6. ASSUME NEW i \in 1 .. Len(queue')
        PROVE  queue'[i].tag = last_dequeued_batch' + InFlight' + i
    <3>1. CASE i \in 1 .. Len(queue)
      BY <3>1, <2>2, <2>3 DEF TagsAccountForBatches
    <3>2. CASE i = Len(queue) + 1
      BY <3>2, <2>2, <2>3, <2>4 DEF TagsAccountForBatches
    <3> QED BY <3>1, <3>2, <2>2, <2>4
  <2> QED
    BY <2>1, <2>5, <2>6 DEF TagsAccountForBatches, dispatch_vars
<1> QED
  BY <1>1, <1>2 DEF Flush, Keep

-----------------------------------------------------------------------------
LEMMA InitIInv == Init => IInv
<1> SUFFICES ASSUME Init PROVE IInv
  OBVIOUS
<1>1. /\ pos \in Positions /\ input \in Inputs
  <2>1. input \in Inputs /\ input.capture \in Captures
    BY InputAssumption DEF Init
  <2> QED BY <2>1, StartType DEF Init
<1>2. got \in [{Dispatcher} -> Batch \cup {NoBatch}] /\ queue = <<>> /\ queue_open = TRUE
  BY DEF Init, Queue!Init
<1>3. TypeOK
  <2>1. <<>> \in Seq(Entries) /\ <<>> \in Seq(Batch)
    OBVIOUS
  <2> QED BY <1>1, <1>2, <2>1, SentinelAssumption
     DEF Init, TypeOK, ProcessBlockStates, Policies, AsyncLabels, DispatchLabels
<1>4. TagsAccountForBatches
  BY <1>2 DEF Init, TagsAccountForBatches, InFlight
<1> QED
  BY <1>3, <1>4 DEF Init, IInv, PendingIsUpperBound, TargetIsEnqueued, FenceIsForPreload,
     CaughtUpIsNotified, BacklogBoundedBetweenFrames, WaitLabels

(* The typing of every step, given the accounting (which makes the batch that *)
(* is reported a batch) and the bound of the count that was read.             *)
LEMMA TypeStep ==
  ASSUME TypeOK, TagsAccountForBatches, PendingIsUpperBound, Next
  PROVE  TypeOK'
<1> USE DEF AsyncLabels, DispatchLabels
<1>0. CASE AsyncStep
  <2>0. UNCHANGED dispatch_vars => 
          /\ last_dequeued_batch' \in Nat
          /\ keep_alive' \in BOOLEAN
          /\ dispatch_pc' \in DispatchLabels
          /\ delivered' \in Seq(Entries)
    BY DEF TypeOK, dispatch_vars
  <2>1. CASE StartThread
    BY <2>1, <2>0, FlushTypes, AppendTypes DEF StartThread, TypeOK, GoAsync, Policies
  <2>2. CASE TopOfLoop
    BY <2>2, <2>0, FlushTypes DEF TopOfLoop, InPreloadRange, TypeOK, GoAsync, Policies
  <2>3. CASE MakeRoom
    BY <2>3, <2>0, FlushTypes DEF MakeRoom, TypeOK, GoAsync
  <2>4. CASE ReadBlock
    BY <2>4, <2>0, FlushTypes, AppendTypes, AfterBlockType DEF ReadBlock, TypeOK, GoAsync, Positions
  <2>5. CASE StopReading
    BY <2>5, <2>0, FlushTypes, StopStateType DEF StopReading, TypeOK, GoAsync
  <2>6. CASE AddResult
    BY <2>6, <2>0, FlushTypes, AppendTypes DEF AddResult, TypeOK, GoAsync, Positions
  <2>7. CASE Fence
    BY <2>7, <2>0, FlushTypes, AppendTypes DEF Fence, TypeOK, GoAsync
  <2>8. CASE ReadPending
    BY <2>8, <2>0 DEF ReadPending, TypeOK, GoAsync, TagsAccountForBatches, InFlight,
       reader_vars, queue_vars
  <2>9. CASE LowWater
    BY <2>9, <2>0, FlushTypes DEF LowWater, TypeOK, GoAsync, Policies
  <2>10. CASE HighWater
    BY <2>10, <2>0, BoundaryTypes DEF HighWater, TypeOK, GoAsync, PendingIsUpperBound,
       reader_vars, queue_vars
  <2>11. CASE BetweenWaters
    BY <2>11, <2>0, FlushTypes, AdjustedPolicyType DEF BetweenWaters, TypeOK, GoAsync
  <2>12. CASE WaitDone
    BY <2>12, <2>0, FlushTypes, AdjustedPolicyType, SentinelAssumption
       DEF WaitDone, TypeOK, GoAsync, Policies
  <2>13. CASE NotYet \/ Block \/ Reacquire
    BY <2>13, <2>0 DEF NotYet, Block, Reacquire, WaitStep, TypeOK, GoAsync,
       reader_vars, queue_vars
  <2>14. CASE BottomOfLoop
    BY <2>14, <2>0 DEF BottomOfLoop, TypeOK, GoAsync, reader_vars, queue_vars
  <2>15. CASE LastFlush
    BY <2>15, <2>0, FlushTypes DEF LastFlush, TypeOK, GoAsync
  <2>16. CASE CloseQueue
    BY <2>16, <2>0 DEF CloseQueue, Queue!Close, TypeOK, GoAsync, reader_vars
  <2> QED
    BY <1>0, <2>1, <2>2, <2>3, <2>4, <2>5, <2>6, <2>7, <2>8, <2>9, <2>10, <2>11,
       <2>12, <2>13, <2>14, <2>15, <2>16 DEF AsyncStep
<1>1. CASE SpuriousWakeup \/ LaunchAsyncThread \/ Advance \/ Destroy \/ DestroyNotify \/ Join
  BY <1>1 DEF SpuriousWakeup, WaitStep, LaunchAsyncThread, Advance, Destroy,
     DestroyNotify, NotifyThrottle, Join, TypeOK, GoAsync, GoDispatch,
     reader_vars, queue_vars, dispatch_vars, async_vars
<1>2. CASE PopBatch
  <2>1. Head(queue) \in Batch /\ Tail(queue) \in Seq(Batch)
    BY <1>2 DEF PopBatch, Queue!Pop, TypeOK
  <2>2. delivered \o Head(queue).blocks \in Seq(Entries)
    <3>1. Head(queue).blocks \in Seq(Entries)
      BY <2>1 DEF Batch
    <3> QED BY <3>1 DEF TypeOK
  <2>3. got' \in [{Dispatcher} -> Batch \cup {NoBatch}]
    BY <1>2, <2>1 DEF PopBatch, Queue!Pop, TypeOK
  <2> QED
    BY <1>2, <2>1, <2>2, <2>3 DEF PopBatch, Queue!Pop, TypeOK, GoDispatch, async_vars,
       reader_vars
<1>3. CASE PopEnd
  BY <1>3 DEF PopEnd, Queue!PopClosed, Queue!TryPopEmpty, TypeOK, GoDispatch, async_vars,
    reader_vars
<1>4. CASE StoreDequeued
  BY <1>4 DEF StoreDequeued, TagsAccountForBatches, TypeOK, GoDispatch, async_vars,
     reader_vars, queue_vars
<1>5. CASE NotifyDequeued
  BY <1>5 DEF NotifyDequeued, NotifyThrottle, TypeOK, GoDispatch, async_vars,
     reader_vars, queue_vars
<1>6. CASE UNCHANGED vars
  BY <1>6 DEF TypeOK, vars, reader_vars, queue_vars, dispatch_vars
<1> QED
  BY <1>0, <1>1, <1>2, <1>3, <1>4, <1>5, <1>6 DEF Next, DispatchStep, Finished

(* The accounting: the processing thread only flushes; the dispatching thread *)
(* takes the head of the queue and then reports its tag.                      *)
LEMMA AccountingStep ==
  ASSUME TypeOK, TagsAccountForBatches, Next
  PROVE  TagsAccountForBatches'
<1>1. CASE AsyncStep
  <2>1. UNCHANGED dispatch_vars
    BY <1>1 DEF AsyncStep, StartThread, TopOfLoop, MakeRoom, ReadBlock, StopReading,
       AddResult, Fence, ReadPending, LowWater, HighWater, BetweenWaters, WaitDone,
       NotYet, Block, Reacquire, WaitStep, BottomOfLoop, LastFlush, CloseQueue
  <2>2. \/ \E blocks : Flush(blocks) \/ Keep(blocks)
        \/ UNCHANGED <<enqueued_batch_index, queue, got>>
    BY <1>1 DEF AsyncStep, StartThread, TopOfLoop, MakeRoom, ReadBlock, StopReading,
       AddResult, Fence, ReadPending, LowWater, HighWater, BetweenWaters, WaitDone,
       NotYet, Block, Reacquire, WaitStep, BottomOfLoop, LastFlush, CloseQueue,
       Queue!Close, queue_vars
  <2>3. CASE UNCHANGED <<enqueued_batch_index, queue, got>>
    BY <2>1, <2>3 DEF TagsAccountForBatches, InFlight, dispatch_vars
  <2> QED BY <2>1, <2>2, <2>3, FlushAccounts
<1>2. CASE \/ SpuriousWakeup \/ LaunchAsyncThread \/ Advance \/ Destroy
           \/ DestroyNotify \/ Join \/ PopEnd \/ UNCHANGED vars
  <2>1. /\ UNCHANGED <<enqueued_batch_index, queue, last_dequeued_batch>>
        /\ \/ UNCHANGED <<dispatch_pc, got>>
           \/ dispatch_pc \notin {"store", "notify"} /\ dispatch_pc' \notin {"store", "notify"}
    BY <1>2 DEF SpuriousWakeup, WaitStep, LaunchAsyncThread, Advance, Destroy,
       DestroyNotify, Join, PopEnd, Queue!PopClosed, Queue!TryPopEmpty, GoDispatch, vars, queue_vars,
       dispatch_vars, async_vars
  <2> QED BY <2>1 DEF TagsAccountForBatches, InFlight
<1>3. CASE PopBatch
  <2>1. /\ dispatch_pc = "pop" /\ dispatch_pc' = "store"
        /\ queue # <<>> /\ queue' = Tail(queue)
        /\ got' = [got EXCEPT ![Dispatcher] = Head(queue)]
        /\ UNCHANGED <<enqueued_batch_index, last_dequeued_batch>>
    BY <1>3 DEF PopBatch, Queue!Pop, GoDispatch, async_vars
  <2>2. /\ Len(queue) \in Nat /\ Len(queue') = Len(queue) - 1
        /\ \A i \in 1 .. Len(queue') : queue'[i] = queue[i + 1]
        /\ Head(queue) = queue[1] /\ 1 \in 1 .. Len(queue)
    BY <2>1 DEF TypeOK
  <2>3. got'[Dispatcher] = queue[1]
    BY <2>1, <2>2 DEF TypeOK
  <2>4. InFlight = 0 /\ InFlight' = 1
    BY <2>1 DEF InFlight
  <2>5. enqueued_batch_index' = last_dequeued_batch' + InFlight' + Len(queue')
    BY <2>1, <2>2, <2>4 DEF TagsAccountForBatches, TypeOK
  <2>6. ASSUME NEW i \in 1 .. Len(queue')
        PROVE  queue'[i].tag = last_dequeued_batch' + InFlight' + i
    <3>1. i + 1 \in 1 .. Len(queue) /\ queue'[i] = queue[i + 1]
      BY <2>2
    <3> QED BY <3>1, <2>1, <2>4 DEF TagsAccountForBatches, TypeOK
  <2>7. got'[Dispatcher].tag = last_dequeued_batch' + 1
    BY <2>1, <2>2, <2>3, <2>4 DEF TagsAccountForBatches, TypeOK
  <2> QED BY <2>1, <2>5, <2>6, <2>7 DEF TagsAccountForBatches
<1>4. CASE StoreDequeued
  <2>1. /\ dispatch_pc = "store" /\ dispatch_pc' = "notify"
        /\ last_dequeued_batch' = got[Dispatcher].tag
        /\ UNCHANGED <<enqueued_batch_index, queue, got>>
    BY <1>4 DEF StoreDequeued, GoDispatch, async_vars, queue_vars
  <2>2. last_dequeued_batch' = last_dequeued_batch + 1 /\ InFlight = 1 /\ InFlight' = 0
    BY <2>1 DEF TagsAccountForBatches, InFlight
  <2> QED BY <2>1, <2>2 DEF TagsAccountForBatches, TypeOK
<1>5. CASE NotifyDequeued
  <2>1. /\ dispatch_pc = "notify" /\ dispatch_pc' = "idle"
        /\ UNCHANGED <<enqueued_batch_index, queue, got, last_dequeued_batch>>
    BY <1>5 DEF NotifyDequeued, GoDispatch, async_vars, queue_vars
  <2> QED BY <2>1 DEF TagsAccountForBatches, InFlight
<1> QED
  BY <1>1, <1>2, <1>3, <1>4, <1>5 DEF Next, DispatchStep, Finished

-----------------------------------------------------------------------------
(* Arithmetic of the backlog e - l: it does not grow with l, grows with e by  *)
(* as much, and is at most k when l has reached e - k.                        *)

LEMMA BacklogArithmetic ==
  /\ \A e, l, m, p \in Nat : e - l <= p /\ l <= m => e - m <= p
  /\ \A e, l, m, w \in Nat : e - l < w /\ l <= m => e - m < w
  /\ \A e, f, l, p, s, w \in Nat :
       e - l <= p /\ p <= s /\ f <= e + 1 /\ s + 1 < w => f - l < w
  /\ \A e, l, p, w \in Nat : e - l <= p /\ p < w => e - l < w
  /\ \A e, l, r, w, t \in Nat : l >= t /\ t = e - r /\ r < w => e - l < w
OBVIOUS

(* The invariants of one thread's local state under the steps of both        *)

LEMMA PendingStep ==
  ASSUME IInv, TypeOK', TagsAccountForBatches', Next
  PROVE  PendingIsUpperBound'
<1> SUFFICES ASSUME async_pc' = "act"
             PROVE  /\ enqueued_batch_index' - last_dequeued_batch' <= pending_batches'
                    /\ pending_batches' <= enqueued_batch_index'
  BY DEF PendingIsUpperBound
<1>1. CASE ReadPending
  <2>1. /\ pending_batches' = enqueued_batch_index - last_dequeued_batch
        /\ UNCHANGED <<enqueued_batch_index, last_dequeued_batch>>
    BY <1>1 DEF ReadPending, dispatch_vars
  <2> QED BY <2>1 DEF IInv, TypeOK
<1>2. CASE /\ async_pc = "act"
           /\ UNCHANGED <<pending_batches, enqueued_batch_index>>
           /\ last_dequeued_batch <= last_dequeued_batch'
  <2>1. /\ enqueued_batch_index' = enqueued_batch_index
        /\ pending_batches' = pending_batches
        /\ enqueued_batch_index \in Nat /\ pending_batches \in Nat
        /\ last_dequeued_batch \in Nat /\ last_dequeued_batch' \in Nat
    BY <1>2 DEF IInv, TypeOK
  <2>2. /\ enqueued_batch_index - last_dequeued_batch <= pending_batches
        /\ pending_batches <= enqueued_batch_index
    BY <1>2 DEF IInv, PendingIsUpperBound
  <2>3. enqueued_batch_index - last_dequeued_batch' <= pending_batches
    BY <1>2, <2>1, <2>2, BacklogArithmetic
  <2> QED BY <2>1, <2>2, <2>3
<1>3. CASE StoreDequeued
  <2>1. last_dequeued_batch <= last_dequeued_batch'
    BY <1>3 DEF StoreDequeued, IInv, TypeOK, TagsAccountForBatches
  <2> QED BY <1>3, <1>2, <2>1 DEF StoreDequeued, async_vars
<1>4. CASE \/ LaunchAsyncThread \/ Advance \/ PopBatch \/ PopEnd \/ NotifyDequeued
           \/ Destroy \/ DestroyNotify \/ Join \/ UNCHANGED vars
  <2>1. /\ async_pc = "act"
        /\ UNCHANGED <<pending_batches, enqueued_batch_index, last_dequeued_batch>>
    BY <1>4 DEF LaunchAsyncThread, Advance, PopBatch, PopEnd, NotifyDequeued, Destroy,
       DestroyNotify, Join, NotifyThrottle, GoAsync, vars, async_vars, dispatch_vars
  <2> QED BY <2>1, <1>2 DEF IInv, TypeOK
<1>5. CASE SpuriousWakeup \/ (AsyncStep /\ ~ReadPending)
  BY <1>5 DEF SpuriousWakeup, AsyncStep, StartThread, TopOfLoop, MakeRoom, ReadBlock,
     StopReading, AddResult, Fence, LowWater, HighWater, BetweenWaters,
     WaitDone, NotYet, Block, Reacquire, WaitStep, BottomOfLoop, LastFlush, CloseQueue,
     GoAsync
<1> QED
  BY <1>1, <1>3, <1>4, <1>5 DEF Next, DispatchStep, Finished

LEMMA TargetStep ==
  ASSUME IInv, TypeOK', Next
  PROVE  TargetIsEnqueued'
<1> SUFFICES ASSUME async_pc' \in WaitLabels
             PROVE  /\ throttle_wait_target' <= enqueued_batch_index'
                    /\ ~preloading' =>
                         throttle_wait_target' = enqueued_batch_index' - kAsyncResume
  BY DEF TargetIsEnqueued
<1>1. CASE Fence
  <2>1. throttle_wait_target' = enqueued_batch_index' /\ preloading' = preloading
    BY <1>1 DEF Fence
  <2>2. preloading
    BY <1>1 DEF Fence, IInv, FenceIsForPreload
  <2> QED BY <2>1, <2>2 DEF TypeOK
<1>2. CASE HighWater
  <2>1. /\ throttle_wait_target' = enqueued_batch_index - kAsyncResume
        /\ enqueued_batch_index' = enqueued_batch_index
    BY <1>2 DEF HighWater
  <2> QED BY <2>1, BoundaryTypes DEF IInv, TypeOK
<1>3. CASE /\ async_pc \in WaitLabels
           /\ UNCHANGED <<throttle_wait_target, enqueued_batch_index, preloading>>
  BY <1>3 DEF IInv, TargetIsEnqueued
<1>4. CASE NotYet \/ Block \/ Reacquire \/ SpuriousWakeup
  BY <1>4, <1>3 DEF NotYet, Block, Reacquire, SpuriousWakeup, WaitStep, WaitLabels
<1>5. CASE DispatchStep \/ Advance \/ Destroy \/ UNCHANGED vars
  <2>1. /\ async_pc \in WaitLabels
        /\ UNCHANGED <<throttle_wait_target, enqueued_batch_index, preloading>>
    BY <1>5 DEF DispatchStep, LaunchAsyncThread, Advance, PopBatch, PopEnd, StoreDequeued,
       NotifyDequeued, Destroy, DestroyNotify, Join, NotifyThrottle, GoAsync, vars,
       async_vars, WaitLabels
  <2> QED BY <2>1, <1>3
<1>6. CASE AsyncStep /\ ~(Fence \/ HighWater \/ NotYet \/ Block \/ Reacquire)
  BY <1>6 DEF AsyncStep, StartThread, TopOfLoop, MakeRoom, ReadBlock, StopReading,
     AddResult, ReadPending, LowWater, BetweenWaters, WaitDone, BottomOfLoop, LastFlush,
     CloseQueue, GoAsync, WaitLabels
<1> QED
  BY <1>1, <1>2, <1>4, <1>5, <1>6 DEF Next, Finished

LEMMA FenceStep ==
  ASSUME IInv, Next
  PROVE  FenceIsForPreload'
<1>1. CASE AsyncStep
  BY <1>1 DEF AsyncStep, StartThread, TopOfLoop, MakeRoom, ReadBlock, StopReading,
     AddResult, Fence, ReadPending, LowWater, HighWater, BetweenWaters, WaitDone,
     NotYet, Block, Reacquire, WaitStep, BottomOfLoop, LastFlush, CloseQueue, GoAsync,
     FenceIsForPreload
<1>2. CASE SpuriousWakeup \/ DispatchStep \/ Advance \/ Destroy \/ UNCHANGED vars
  BY <1>2 DEF SpuriousWakeup, WaitStep, DispatchStep, LaunchAsyncThread, Advance, PopBatch,
     PopEnd, StoreDequeued, NotifyDequeued, Destroy, DestroyNotify, Join, NotifyThrottle,
     GoAsync, vars, async_vars, IInv, FenceIsForPreload
<1> QED BY <1>1, <1>2 DEF Next, Finished

LEMMA CaughtUpStep ==
  ASSUME IInv, TypeOK', Next
  PROVE  CaughtUpIsNotified'
<1> DEFINE Blocked == {"wait_block", "waiting"}
<1> SUFFICES ASSUME async_pc' \in Blocked,
                    last_dequeued_batch' >= throttle_wait_target'
             PROVE  dispatch_pc' = "notify"
  BY DEF CaughtUpIsNotified
<1>1. CASE NotYet
  <2>1. /\ ~(last_dequeued_batch >= throttle_wait_target)
        /\ UNCHANGED <<last_dequeued_batch, throttle_wait_target>>
    BY <1>1 DEF NotYet, CaughtUp, WaitStep, dispatch_vars
  <2> QED BY <2>1
<1>2. CASE Block
  BY <1>2 DEF Block, WaitStep, dispatch_vars, IInv, CaughtUpIsNotified
<1>3. CASE \/ SpuriousWakeup
           \/ AsyncStep /\ ~(NotYet \/ Block)
  BY <1>3 DEF SpuriousWakeup, AsyncStep, StartThread, TopOfLoop, MakeRoom, ReadBlock,
     StopReading, AddResult, Fence, ReadPending, LowWater, HighWater, BetweenWaters,
     WaitDone, Reacquire, WaitStep, BottomOfLoop, LastFlush, CloseQueue, GoAsync
<1>4. CASE StoreDequeued
  BY <1>4 DEF StoreDequeued, GoDispatch
<1>5. CASE NotifyDequeued
  <2>1. /\ dispatch_pc = "notify" /\ async_pc \notin {"wait_test", "wait_block"}
        /\ UNCHANGED <<last_dequeued_batch, throttle_wait_target>>
    BY <1>5 DEF NotifyDequeued, HoldsThrottleMutex, async_vars
  <2>2. got[Dispatcher].tag >= throttle_wait_target
    BY <2>1 DEF IInv, TagsAccountForBatches
  <2>3. async_pc' = IF async_pc = "waiting" THEN "woken" ELSE async_pc
    BY <1>5, <2>2 DEF NotifyDequeued, NotifyThrottle
  <2> QED BY <2>1, <2>3
<1>6. CASE \/ LaunchAsyncThread \/ Advance \/ PopBatch \/ PopEnd \/ Destroy
           \/ DestroyNotify \/ Join
  <2>1. /\ async_pc \in Blocked
        /\ UNCHANGED <<last_dequeued_batch, throttle_wait_target>>
        /\ dispatch_pc # "notify"
    BY <1>6 DEF LaunchAsyncThread, Advance, PopBatch, PopEnd, Destroy, DestroyNotify, Join,
       NotifyThrottle, GoAsync, async_vars
  <2> QED BY <2>1 DEF IInv, CaughtUpIsNotified
<1>7. CASE UNCHANGED vars
  BY <1>7 DEF vars, dispatch_vars, IInv, CaughtUpIsNotified
<1> QED
  BY <1>1, <1>2, <1>3, <1>4, <1>5, <1>6, <1>7 DEF Next, DispatchStep, Finished

(* At the bottom of the loop the backlog is bounded because of what was read  *)
(* (low water, between the waters) or because the wait ended with its target  *)
(* reached (high water).                                                      *)
LEMMA BacklogStep ==
  ASSUME IInv, TypeOK', TagsAccountForBatches', Next
  PROVE  BacklogBoundedBetweenFrames'
<1> SUFFICES ASSUME async_pc' = "bottom", ~preloading', keep_alive'
             PROVE  enqueued_batch_index' - last_dequeued_batch' < kAsyncWait
  BY DEF BacklogBoundedBetweenFrames
<1>n. /\ enqueued_batch_index \in Nat /\ enqueued_batch_index' \in Nat
      /\ last_dequeued_batch \in Nat /\ last_dequeued_batch' \in Nat
      /\ pending_batches \in Nat /\ throttle_wait_target \in Nat
  BY DEF IInv, TypeOK
<1>1. CASE LowWater
  <2>1. /\ pending_batches <= kSoftLowWater
        /\ last_dequeued_batch' = last_dequeued_batch
    BY <1>1 DEF LowWater, dispatch_vars
  <2>2. enqueued_batch_index' <= enqueued_batch_index + 1
    BY <1>1, <1>n DEF LowWater, Flush, Keep
  <2>3. enqueued_batch_index - last_dequeued_batch <= pending_batches
    BY <1>1 DEF LowWater, IInv, PendingIsUpperBound
  <2> QED BY <1>n, <2>1, <2>2, <2>3, BoundaryTypes, BacklogArithmetic
<1>2. CASE BetweenWaters
  <2>1. /\ pending_batches < kAsyncWait
        /\ UNCHANGED <<last_dequeued_batch, enqueued_batch_index>>
    BY <1>2 DEF BetweenWaters, Keep, dispatch_vars
  <2>2. enqueued_batch_index - last_dequeued_batch <= pending_batches
    BY <1>2 DEF BetweenWaters, IInv, PendingIsUpperBound
  <2> QED BY <1>n, <2>1, <2>2, BoundaryTypes, BacklogArithmetic
<1>3. CASE WaitDone
  <2>1. /\ last_dequeued_batch >= throttle_wait_target
        /\ UNCHANGED <<last_dequeued_batch, enqueued_batch_index, preloading>>
    BY <1>3 DEF WaitDone, CaughtUp, Keep, dispatch_vars
  <2>2. throttle_wait_target = enqueued_batch_index - kAsyncResume
    BY <1>3, <2>1 DEF WaitDone, IInv, TargetIsEnqueued, WaitLabels
  <2> QED BY <1>n, <2>1, <2>2, BoundaryTypes, BacklogArithmetic
<1>4. CASE AddResult
  BY <1>4 DEF AddResult, GoAsync
<1>5. CASE AsyncStep /\ ~(LowWater \/ BetweenWaters \/ WaitDone \/ AddResult)
  BY <1>5 DEF AsyncStep, StartThread, TopOfLoop, MakeRoom, ReadBlock, StopReading,
     Fence, ReadPending, HighWater, NotYet, Block, Reacquire, WaitStep,
     BottomOfLoop, LastFlush, CloseQueue, GoAsync
<1>6. CASE SpuriousWakeup \/ LaunchAsyncThread \/ Destroy
  BY <1>6 DEF SpuriousWakeup, WaitStep, LaunchAsyncThread, Destroy, GoAsync
<1>7. CASE \/ Advance \/ PopBatch \/ PopEnd \/ StoreDequeued \/ NotifyDequeued
           \/ DestroyNotify \/ Join \/ UNCHANGED vars
  <2>0. UNCHANGED <<enqueued_batch_index, preloading, keep_alive>>
    BY <1>7 DEF Advance, PopBatch, PopEnd, StoreDequeued, NotifyDequeued, DestroyNotify,
       Join, vars, async_vars, dispatch_vars
  <2>1. async_pc = "bottom"
    BY <1>7 DEF Advance, PopBatch, PopEnd, StoreDequeued, NotifyDequeued, DestroyNotify,
       Join, NotifyThrottle, vars
  <2>2. last_dequeued_batch <= last_dequeued_batch'
    <3>1. CASE StoreDequeued
      <4>1. last_dequeued_batch' = last_dequeued_batch + 1
        BY <3>1 DEF StoreDequeued, IInv, TagsAccountForBatches
      <4> QED BY <4>1, <1>n
    <3>2. CASE ~StoreDequeued
      <4>1. last_dequeued_batch' = last_dequeued_batch
        BY <1>7, <3>2 DEF Advance, PopBatch, PopEnd, NotifyDequeued, DestroyNotify,
           Join, vars, dispatch_vars
      <4> QED BY <4>1, <1>n
    <3> QED BY <3>1, <3>2
  <2>3. enqueued_batch_index - last_dequeued_batch < kAsyncWait
    BY <2>0, <2>1 DEF IInv, BacklogBoundedBetweenFrames
  <2> QED BY <1>n, <2>0, <2>2, <2>3, BoundaryTypes, BacklogArithmetic
<1> QED
  BY <1>1, <1>2, <1>3, <1>4, <1>5, <1>6, <1>7 DEF Next, DispatchStep, Finished

-----------------------------------------------------------------------------
LEMMA NextIInv == IInv /\ Next => IInv'
<1> SUFFICES ASSUME IInv, Next PROVE IInv'
  OBVIOUS
<1>1. TypeOK /\ TagsAccountForBatches /\ PendingIsUpperBound
  BY DEF IInv
<1>2. TypeOK' /\ TagsAccountForBatches'
  BY <1>1, TypeStep, AccountingStep
<1>3. PendingIsUpperBound' /\ TargetIsEnqueued' /\ FenceIsForPreload'
  BY <1>2, PendingStep, TargetStep, FenceStep
<1>4. CaughtUpIsNotified' /\ BacklogBoundedBetweenFrames'
  BY <1>2, CaughtUpStep, BacklogStep
<1> QED BY <1>2, <1>3, <1>4 DEF IInv

LEMMA StutterIInv == IInv /\ UNCHANGED vars => IInv'
BY DEF vars, reader_vars, queue_vars, dispatch_vars, IInv, TypeOK, TagsAccountForBatches,
   InFlight, PendingIsUpperBound, TargetIsEnqueued, FenceIsForPreload,
   CaughtUpIsNotified, BacklogBoundedBetweenFrames

(* The inductive invariant holds in every behaviour of the two threads.       *)
THEOREM Invariance == Spec => []IInv
BY InitIInv, NextIInv, StutterIInv, PTL DEF Spec

(* Every variable has its type; the counters, the pending count and the wait  *)
(* target never wrap around below zero (async_processor.cpp:106, 136).        *)
THEOREM TypeCorrect == Spec => []TypeOK
<1>1. IInv => TypeOK
  BY DEF IInv
<1> QED BY <1>1, Invariance, PTL

(* Between the two counters every batch is accounted for, and tags are        *)
(* contiguous (async_processor.cpp:60-72, 215-222, 475-491).                  *)
THEOREM BatchesAccountedFor == Spec => []TagsAccountForBatches
<1>1. IInv => TagsAccountForBatches
  BY DEF IInv
<1> QED BY <1>1, Invariance, PTL

(* The notification of a dequeued batch is never lost to a processing thread  *)
(* that waits for it (async_processor.cpp:60-72 against 81-93).               *)
THEOREM NoLostNotification == Spec => []CaughtUpIsNotified
<1>1. IInv => CaughtUpIsNotified
  BY DEF IInv
<1> QED BY <1>1, Invariance, PTL

(* The throttle keeps its promise at the end of every frame that is not       *)
(* preloaded (async_processor.cpp:95-151).                                    *)
THEOREM BacklogBounded == Spec => []BacklogBoundedBetweenFrames
<1>1. IInv => BacklogBoundedBetweenFrames
  BY DEF IInv
<1> QED BY <1>1, Invariance, PTL

(* The threads do not wait for each other: an empty queue means that every    *)
(* batch was reported, and the target of a wait has been enqueued.            *)
THEOREM NoDeadlock == Spec => []NoMutualBlocking
<1>1. IInv => NoMutualBlocking
  <2> SUFFICES ASSUME IInv,
                      async_pc \in {"wait_block", "waiting"},
                      last_dequeued_batch < throttle_wait_target,
                      dispatch_pc = "pop",
                      queue = <<>>
               PROVE  FALSE
    BY DEF NoMutualBlocking
  <2>1. /\ enqueued_batch_index \in Nat /\ last_dequeued_batch \in Nat
        /\ throttle_wait_target \in Nat
    BY DEF IInv, TypeOK
  <2>2. throttle_wait_target <= enqueued_batch_index
    BY DEF IInv, TargetIsEnqueued, WaitLabels
  <2>3. Len(queue) = 0 /\ InFlight = 0
    BY DEF InFlight
  <2>4. enqueued_batch_index = last_dequeued_batch
    BY <2>1, <2>3 DEF IInv, TagsAccountForBatches
  <2> QED BY <2>1, <2>2, <2>4
<1> QED BY <1>1, Invariance, PTL

-----------------------------------------------------------------------------
(* What is preloaded starts and ends with a batch, and is decompressed.      *)

(* Of a preload range that begins with the first frame, on a capture whose   *)
(* header does not say that it has markers: the first marker comes early.    *)
(* (A first marker that comes later sets the frame number back to 1 all the  *)
(* same, UpdateEndFrameState; behind the range it would then enter the range *)
(* once more, in the middle of a batch.  A range that begins later is        *)
(* entered at its first frame in any case.)                                  *)
OnlyTheFirstFrameStutters ==
  \A i \in Inputs : i.preload_begin = 0 => FirstMarkerIsEarly(i.capture)

FramesArePresents == CountsPresents(input.capture, pos)

AllPreloaded(b) == \A e \in Blocks(b) : InPreloadRange(e.frame)
NonePreloaded(b) == \A e \in Blocks(b) : ~InPreloadRange(e.frame)
AtPreloaded == InPreloadRange(pos.frame_number)
BeginsPreload == AtPreloaded => pos.frame_number = input.preload_begin

(* Between two frames: if the next one is preloaded, it is the first of the   *)
(* range, or everything in the batch is preloaded already.                    *)
Outside == NonePreloaded(batch) /\ BeginsPreload
Inside == AllPreloaded(batch) /\ policy = "kAlways"

PreloadInv ==
  /\ async_pc \in {"not_started", "start"} => batch = <<>> /\ BeginsPreload
  /\ async_pc \in {"top", "bottom"} => Outside \/ (Inside /\ AtPreloaded)
  /\ async_pc \in {"read", "read_into_new_batch"} =>
       /\ preloading <=> AtPreloaded
       /\ preloading => Inside
       /\ ~preloading => NonePreloaded(batch)
  /\ async_pc = "result" => (preloading => Inside) /\ (~preloading => Outside)
  /\ async_pc \in {"throttle", "act", "fence"} \cup WaitLabels => Outside
  /\ async_pc = "fence" => batch = <<>>

Uniform(b) ==
  /\ \A e, f \in Blocks(b) : InPreloadRange(e.frame) <=> InPreloadRange(f.frame)
  /\ \A e \in Blocks(b) : InPreloadRange(e.frame) => e.policy = "kAlways"

BatchesAreUniform == \A b \in LiveBatches : Uniform(b)

LaunchStartsIt == dispatch_pc = "launch" => async_pc = "not_started"

BatchesInv ==
  IInv /\ LaunchStartsIt /\ FramesArePresents /\ PreloadInv /\ BatchesAreUniform

-----------------------------------------------------------------------------
(* The blocks among the entries of a batch                                   *)

LEMMA WhichAreBlocks ==
  /\ ~IsBlock(ContinueEntry)
  /\ \A s, f : ~IsBlock(ResultEntry(s, f))
  /\ \A n, f, p : /\ IsBlock(BlockEntry(n, f, p))
                  /\ BlockEntry(n, f, p).frame = f
                  /\ BlockEntry(n, f, p).policy = p
BY DEF IsBlock, ContinueEntry, ResultEntry, BlockEntry

LEMMA BlocksOfAppend ==
  ASSUME NEW s \in Seq(Entries), NEW e \in Entries
  PROVE  /\ IsBlock(e) => Blocks(Append(s, e)) = Blocks(s) \cup {e}
         /\ ~IsBlock(e) => Blocks(Append(s, e)) = Blocks(s)
<1> DEFINE t == Append(s, e)
<1>1. /\ Len(s) \in Nat /\ DOMAIN s = 1 .. Len(s) /\ DOMAIN t = 1 .. (Len(s) + 1)
      /\ \A i \in 1 .. Len(s) : t[i] = s[i]
      /\ t[Len(s) + 1] = e
  OBVIOUS
<1> HIDE DEF t
<1>2. \A x \in Blocks(s) : x \in Blocks(t)
  BY <1>1 DEF Blocks
<1>3. \A x \in Blocks(t) : x \in Blocks(s) \/ (x = e /\ IsBlock(e))
  BY <1>1 DEF Blocks
<1>4. IsBlock(e) => e \in Blocks(t)
  BY <1>1 DEF Blocks
<1> QED BY <1>2, <1>3, <1>4 DEF t

LEMMA BlocksOfEmpty == Blocks(<<>>) = {}
<1>1. DOMAIN <<>> = {}
  OBVIOUS
<1> QED BY <1>1 DEF Blocks

LEMMA EmptyIsUniform == Uniform(<<>>) /\ AllPreloaded(<<>>) /\ NonePreloaded(<<>>)
BY BlocksOfEmpty DEF Uniform, AllPreloaded, NonePreloaded

(* The signals and results leave the blocks of the batch alone.               *)
LEMMA BlocksOfBatch ==
  ASSUME TypeOK
  PROVE  /\ Blocks(Append(batch, ContinueEntry)) = Blocks(batch)
         /\ Blocks(Append(batch, ResultEntry(process_state, pos.frame_number)))
              = Blocks(batch)
         /\ Blocks(Append(batch, BlockEntry(pos.block_index + 1, pos.frame_number, policy)))
              = Blocks(batch)
                  \cup {BlockEntry(pos.block_index + 1, pos.frame_number, policy)}
<1>1. pos.frame_number \in Nat /\ pos.block_index + 1 \in Nat /\ policy \in Policies
      /\ process_state \in ProcessBlockStates /\ batch \in Seq(Entries)
  BY DEF TypeOK, Positions
<1>2. /\ ContinueEntry \in Entries
      /\ ResultEntry(process_state, pos.frame_number) \in Entries
      /\ BlockEntry(pos.block_index + 1, pos.frame_number, policy) \in Entries
  BY <1>1, EntryTypes
<1> QED BY <1>1, <1>2, BlocksOfAppend, WhichAreBlocks

-----------------------------------------------------------------------------
(* The numbers of the frames                                                 *)

(* The position only changes when a block is read.                            *)
LEMMA PositionMoves ==
  ASSUME Next
  PROVE  input' = input /\ (ReadBlock \/ pos' = pos)
BY DEF Next, AsyncStep, StartThread, TopOfLoop, MakeRoom, StopReading,
   AddResult, Fence, ReadPending, LowWater, HighWater, BetweenWaters, WaitDone, NotYet,
   Block, Reacquire, WaitStep, BottomOfLoop, LastFlush, CloseQueue, SpuriousWakeup,
   DispatchStep, LaunchAsyncThread, Advance, PopBatch, PopEnd, StoreDequeued,
   NotifyDequeued, Destroy, DestroyNotify, Join, Finished, vars, reader_vars, async_vars,
   ReadBlock

(* What is read is in the file.                                               *)
LEMMA BlockIsThere ==
  ASSUME TypeOK, ReadBlock
  PROVE  /\ input.capture \in Captures
         /\ pos \in Positions /\ pos.block_index \in Nat /\ pos.frame_number \in Nat
         /\ Len(input.capture.blocks) \in Nat
         /\ pos.block_index + 1 <= Len(input.capture.blocks)
<1>1. input.capture \in Captures /\ pos \in Positions
  BY InputAssumption DEF TypeOK
<1>2. pos.block_index \in Nat /\ pos.frame_number \in Nat /\ Len(input.capture.blocks) \in Nat
  BY <1>1 DEF Captures, Positions
<1>3. ~(pos.block_index >= Len(input.capture.blocks))
  BY DEF ReadBlock, Stops, StopState, AtEndOfFile
<1> QED BY <1>1, <1>2, <1>3

LEMMA FramesStep ==
  ASSUME TypeOK, FramesArePresents, Next
  PROVE  FramesArePresents'
<1>1. CASE pos' = pos
  BY <1>1, PositionMoves DEF FramesArePresents, CountsPresents
<1>2. CASE ReadBlock
  <2>1. pos' = AfterBlock(pos, NextKind(input.capture, pos)) /\ input' = input
    BY <1>2 DEF ReadBlock
  <2>2. CountsPresents(input.capture, AfterBlock(pos, NextKind(input.capture, pos)))
    BY <1>2, BlockIsThere, BlockCounts DEF FramesArePresents
  <2> QED BY <2>1, <2>2 DEF FramesArePresents
<1> QED BY <1>1, <1>2, PositionMoves

(* A frame ends: its number is counted up, or the first one stutters, or the  *)
(* count starts again at or before the first frame of the range.              *)
LEMMA FrameNumberStep ==
  ASSUME OnlyTheFirstFrameStutters, TypeOK, FramesArePresents, ReadBlock
  PROVE  /\ pos.frame_number \in Nat
         /\ LET kind == NextKind(input.capture, pos) IN
            IF IsFrameDelimiter(pos, kind)
              THEN \/ pos'.frame_number = pos.frame_number + 1
                   \/ pos'.frame_number = 1 /\ (pos.frame_number = 1 \/ input.preload_begin >= 1)
              ELSE pos'.frame_number = pos.frame_number
<1> DEFINE kind == NextKind(input.capture, pos)
<1>1. pos' = AfterBlock(pos, kind)
  BY DEF ReadBlock
<1>2. IF IsFrameDelimiter(pos, kind)
        THEN \/ pos'.frame_number = pos.frame_number + 1
             \/ /\ pos'.frame_number = 1
                /\ FirstMarkerIsEarly(input.capture) => pos.frame_number = 1
        ELSE pos'.frame_number = pos.frame_number
  BY <1>1, BlockIsThere, NextFrameNumber DEF FramesArePresents
<1>3. input.preload_begin >= 1 \/ FirstMarkerIsEarly(input.capture)
  BY InputAssumption DEF TypeOK, OnlyTheFirstFrameStutters
<1>4. pos.frame_number \in Nat
  BY BlockIsThere
<1> HIDE DEF kind
<1> QED BY <1>2, <1>3, <1>4 DEF kind

-----------------------------------------------------------------------------
(* What goes through the batch and the queue                                 *)

(* A batch that is live after a step was so before, or is what the processing *)
(* thread has in hand.                                                        *)
LEMMA FlushedBatches ==
  ASSUME TypeOK, NEW blocks \in Seq(Entries), Flush(blocks) \/ Keep(blocks)
  PROVE  /\ batch' = blocks \/ batch' = <<>>
         /\ \A b \in LiveBatches' : b \in LiveBatches \/ b = blocks \/ b = <<>>
<1>1. CASE UNCHANGED queue_vars
  <2>1. batch' = blocks \/ batch' = <<>>
    BY DEF Flush, Keep
  <2>2. queue' = queue /\ got' = got
    BY <1>1 DEF queue_vars
  <2> QED BY <2>1, <2>2 DEF LiveBatches
<1>2. CASE /\ batch' = <<>>
           /\ Queue!Push([tag |-> enqueued_batch_index + 1, blocks |-> blocks])
  <2> DEFINE sent == [tag |-> enqueued_batch_index + 1, blocks |-> blocks]
  <2>1. queue' = Append(queue, sent) /\ got' = got
    BY <1>2 DEF Queue!Push
  <2>2. sent.blocks = blocks
    OBVIOUS
  <2> HIDE DEF sent
  <2>3. queue \in Seq(Batch)
    BY DEF TypeOK
  <2>4. /\ DOMAIN queue' = 1 .. (Len(queue) + 1) /\ DOMAIN queue = 1 .. Len(queue)
        /\ Len(queue) \in Nat
        /\ \A i \in 1 .. Len(queue) : queue'[i] = queue[i]
        /\ queue'[Len(queue) + 1] = sent
    BY <2>1, <2>3
  <2>5. \A i \in DOMAIN queue' : i \in DOMAIN queue \/ i = Len(queue) + 1
    BY <2>4
  <2> QED BY <1>2, <2>1, <2>2, <2>4, <2>5 DEF LiveBatches
<1> QED BY <1>1, <1>2 DEF Flush, Keep

LEMMA LiveIsTyped == TypeOK => \A b \in LiveBatches : b \in Seq(Entries)
<1> SUFFICES ASSUME TypeOK, NEW b \in LiveBatches PROVE b \in Seq(Entries)
  OBVIOUS
<1>1. /\ batch \in Seq(Entries)
      /\ \A i \in DOMAIN queue : queue[i] \in Batch
      /\ got[Dispatcher] \in Batch \cup {NoBatch}
  BY DEF TypeOK
<1>2. \A c \in Batch : c.blocks \in Seq(Entries)
  BY DEF Batch
<1> QED BY <1>1, <1>2 DEF LiveBatches

(* The dispatching thread moves batches, and makes none.                      *)
LEMMA DispatchedBatches ==
  ASSUME TypeOK, DispatchStep \/ Advance \/ Destroy \/ UNCHANGED vars
  PROVE  /\ UNCHANGED <<input, pos, batch, policy, preloading>>
         /\ \A b \in LiveBatches' : b \in LiveBatches
<1>1. UNCHANGED <<input, pos, batch, policy, preloading>>
  BY DEF DispatchStep, LaunchAsyncThread, Advance, PopBatch, PopEnd, StoreDequeued,
     NotifyDequeued, Destroy, DestroyNotify, Join, vars, reader_vars, async_vars
<1>2. CASE PopBatch
  <2>1. /\ queue # <<>> /\ queue' = Tail(queue)
        /\ got' = [got EXCEPT ![Dispatcher] = Head(queue)]
    BY <1>2 DEF PopBatch, Queue!Pop
  <2>2. queue \in Seq(Batch) /\ got'[Dispatcher] = Head(queue)
    BY <2>1 DEF TypeOK
  <2>3. /\ \A i \in DOMAIN queue' : i + 1 \in DOMAIN queue /\ queue'[i] = queue[i + 1]
        /\ 1 \in DOMAIN queue /\ Head(queue) = queue[1]
    BY <2>1, <2>2
  <2> QED BY <1>1, <2>2, <2>3 DEF LiveBatches
<1>3. CASE PopEnd
  <2>1. queue' = queue /\ got'[Dispatcher] = NoBatch
    BY <1>3 DEF PopEnd, Queue!PopClosed, Queue!TryPopEmpty, TypeOK
  <2> QED BY <1>1, <2>1 DEF LiveBatches
<1>4. CASE ~PopBatch /\ ~PopEnd
  <2>1. queue' = queue /\ got' = got
    BY <1>4 DEF DispatchStep, LaunchAsyncThread, Advance, StoreDequeued,
       NotifyDequeued, Destroy, DestroyNotify, Join, vars, queue_vars
  <2> QED BY <1>1, <2>1 DEF LiveBatches
<1> QED BY <1>1, <1>2, <1>3, <1>4

(* A step of the processing thread flushes or keeps its batch, its batch with *)
(* a result or a signal behind it, or, in ReadBlock, with one more block.     *)
LEMMA ProcessedBatches ==
  ASSUME TypeOK, AsyncStep \/ SpuriousWakeup
  PROVE  \A b \in LiveBatches' :
           b \in LiveBatches \/ Blocks(b) = Blocks(batch) \/ b = <<>> \/ (ReadBlock /\ b = batch')
<1>1. /\ batch \in Seq(Entries) /\ Append(batch, ContinueEntry) \in Seq(Entries)
      /\ Append(batch, ResultEntry(process_state, pos.frame_number)) \in Seq(Entries)
      /\ Append(batch, BlockEntry(pos.block_index + 1, pos.frame_number, policy))
           \in Seq(Entries)
  BY AppendTypes DEF TypeOK
<1>2. CASE ReadBlock
  <2>1. Keep(Append(batch, BlockEntry(pos.block_index + 1, pos.frame_number, policy)))
    BY <1>2 DEF ReadBlock
  <2>2. batch' = Append(batch, BlockEntry(pos.block_index + 1, pos.frame_number, policy))
    BY <2>1 DEF Keep
  <2> QED BY <1>1, <1>2, <2>1, <2>2, FlushedBatches
<1>3. CASE \/ TopOfLoop \/ MakeRoom \/ StopReading \/ LowWater \/ BetweenWaters
           \/ WaitDone \/ LastFlush
  <2>1. Flush(batch) \/ Keep(batch)
    BY <1>3 DEF TopOfLoop, MakeRoom, StopReading, LowWater, BetweenWaters, WaitDone, LastFlush
  <2> QED BY <1>1, <2>1, FlushedBatches
<1>4. CASE StartThread \/ Fence
  <2>1. Flush(Append(batch, ContinueEntry))
    BY <1>4 DEF StartThread, Fence
  <2> QED BY <1>1, <2>1, FlushedBatches, BlocksOfBatch
<1>5. CASE AddResult
  <2>1. \/ Flush(Append(batch, ResultEntry(process_state, pos.frame_number)))
        \/ Keep(Append(batch, ResultEntry(process_state, pos.frame_number)))
    BY <1>5 DEF AddResult
  <2> QED BY <1>1, <2>1, FlushedBatches, BlocksOfBatch
<1>6. CASE \/ ReadPending \/ HighWater \/ NotYet \/ Block \/ Reacquire \/ SpuriousWakeup
           \/ BottomOfLoop \/ CloseQueue
  <2>1. UNCHANGED <<batch, queue, got>>
    BY <1>6 DEF ReadPending, HighWater, NotYet, Block, Reacquire, SpuriousWakeup, WaitStep,
       BottomOfLoop, CloseQueue, Queue!Close, reader_vars, queue_vars
  <2> QED BY <2>1 DEF LiveBatches
<1> QED BY <1>2, <1>3, <1>4, <1>5, <1>6 DEF AsyncStep

-----------------------------------------------------------------------------
LEMMA UniformStep ==
  ASSUME BatchesInv, Next
  PROVE  BatchesAreUniform'
<1>0. TypeOK /\ input' = input
  BY PositionMoves DEF BatchesInv, IInv
<1>1. \A b : Uniform(b) => Uniform(b)'
  BY <1>0 DEF Uniform, InPreloadRange
<1>2. \A b : b \in LiveBatches \/ Blocks(b) = Blocks(batch) \/ b = <<>> => Uniform(b)
  <2>1. batch \in LiveBatches
    BY DEF LiveBatches
  <2> QED BY <2>1, EmptyIsUniform DEF BatchesInv, BatchesAreUniform, Uniform
<1>3. CASE DispatchStep \/ Advance \/ Destroy \/ UNCHANGED vars
  BY <1>0, <1>1, <1>2, <1>3, DispatchedBatches DEF BatchesAreUniform
<1>4. CASE AsyncStep \/ SpuriousWakeup
  <2>1. ASSUME ReadBlock PROVE Uniform(batch')
    <3> DEFINE e == BlockEntry(pos.block_index + 1, pos.frame_number, policy)
    <3>1. Blocks(batch') = Blocks(batch) \cup {e}
      BY <1>0, <2>1, BlocksOfBatch DEF ReadBlock, Keep
    <3>2. e.frame = pos.frame_number /\ e.policy = policy
      BY WhichAreBlocks
    <3> HIDE DEF e
    <3>3. /\ preloading <=> AtPreloaded
          /\ preloading => Inside
          /\ ~preloading => NonePreloaded(batch)
      BY <2>1 DEF ReadBlock, BatchesInv, PreloadInv
    <3>4. Uniform(batch)
      BY <1>2
    <3>5. CASE preloading
      BY <3>1, <3>2, <3>3, <3>4, <3>5 DEF Uniform, Inside, AllPreloaded, AtPreloaded
    <3>6. CASE ~preloading
      BY <3>1, <3>2, <3>3, <3>4, <3>6 DEF Uniform, NonePreloaded, AtPreloaded
    <3> QED BY <3>5, <3>6
  <2>2. ASSUME NEW b \in LiveBatches' PROVE Uniform(b)
    BY <1>0, <1>2, <1>4, <2>1, <2>2, ProcessedBatches
  <2> QED BY <1>1, <2>2 DEF BatchesAreUniform
<1> QED BY <1>3, <1>4 DEF Next, Finished

(* The numbers say where the reading is in the preload range.                 *)
LEMMA RangeArithmetic ==
  \A i \in Inputs : \A f \in Nat :
    /\ i.preload_begin \in Nat /\ i.preload_end \in Nat
    /\ (i.preload_begin <= f + 1 /\ f + 1 < i.preload_end
          /\ ~(i.preload_begin <= f /\ f < i.preload_end)) => f + 1 = i.preload_begin
BY InputAssumption

LEMMA LaunchStep ==
  ASSUME LaunchStartsIt, Next
  PROVE  LaunchStartsIt'
<1>1. CASE AsyncStep \/ SpuriousWakeup
  BY <1>1 DEF LaunchStartsIt, AsyncStep, StartThread, TopOfLoop, MakeRoom, ReadBlock,
     StopReading, AddResult, Fence, ReadPending, LowWater, HighWater, BetweenWaters, WaitDone,
     NotYet, Block, Reacquire, WaitStep, BottomOfLoop, LastFlush, CloseQueue, SpuriousWakeup,
     dispatch_vars
<1>2. CASE DispatchStep \/ Advance \/ Destroy \/ UNCHANGED vars
  BY <1>2 DEF LaunchStartsIt, DispatchStep, LaunchAsyncThread, Advance, PopBatch, PopEnd,
     StoreDequeued, NotifyDequeued, Destroy, DestroyNotify, Join, GoDispatch, vars,
     dispatch_vars
<1> QED BY <1>1, <1>2 DEF Next, Finished

LEMMA PreloadStep ==
  ASSUME OnlyTheFirstFrameStutters, BatchesInv, Next
  PROVE  PreloadInv'
<1>0. /\ TypeOK /\ input' = input /\ batch \in Seq(Entries)
      /\ Append(batch, ContinueEntry) \in Seq(Entries)
      /\ Append(batch, ResultEntry(process_state, pos.frame_number)) \in Seq(Entries)
      /\ preloading \in BOOLEAN
  BY PositionMoves, AppendTypes DEF BatchesInv, IInv, TypeOK
<1>1. /\ pos' = pos => (AtPreloaded' <=> AtPreloaded) /\ (BeginsPreload' <=> BeginsPreload)
      /\ Blocks(batch') \subseteq Blocks(batch) =>
           /\ NonePreloaded(batch) => NonePreloaded(batch)'
           /\ AllPreloaded(batch) => AllPreloaded(batch)'
  BY <1>0 DEF AtPreloaded, BeginsPreload, InPreloadRange, NonePreloaded, AllPreloaded
<1>2. ASSUME NEW b \in Seq(Entries), Blocks(b) = Blocks(batch), Flush(b) \/ Keep(b)
      PROVE  Blocks(batch') \subseteq Blocks(batch)
  BY <1>0, <1>2, FlushedBatches, BlocksOfEmpty
<1> USE DEF GoAsync
<1>3. CASE StartThread
  <2>1. /\ async_pc = "start" /\ async_pc' = "top" /\ pos' = pos
        /\ Flush(Append(batch, ContinueEntry))
    BY <1>3 DEF StartThread
  <2>2. Blocks(batch') \subseteq Blocks(batch)
    BY <1>0, <1>2, <2>1, BlocksOfBatch
  <2>3. batch = <<>> /\ BeginsPreload
    BY <2>1 DEF BatchesInv, PreloadInv
  <2> QED BY <1>1, <2>1, <2>2, <2>3, EmptyIsUniform DEF PreloadInv, Outside, WaitLabels
<1>4. CASE TopOfLoop
  <2>1. /\ async_pc = "top" /\ async_pc' = "read" /\ pos' = pos
        /\ preloading' = AtPreloaded
        /\ AtPreloaded' <=> AtPreloaded
    BY <1>1, <1>4 DEF TopOfLoop, AtPreloaded
  <2>2. Blocks(batch') \subseteq Blocks(batch)
    BY <1>0, <1>2, <1>4 DEF TopOfLoop
  <2>3. CASE Outside /\ ~AtPreloaded
    BY <1>1, <2>1, <2>2, <2>3 DEF PreloadInv, Outside, WaitLabels
  <2>4. CASE Outside /\ AtPreloaded
    <3>1. pos.frame_number = input.preload_begin /\ preloading'
      BY <2>1, <2>4 DEF Outside, BeginsPreload
    <3>2. policy' = "kAlways" /\ batch' = <<>>
      BY <1>4, <3>1 DEF TopOfLoop, Flush
    <3>3. AllPreloaded(batch)'
      BY <3>2, BlocksOfEmpty DEF AllPreloaded
    <3> QED BY <2>1, <2>4, <3>2, <3>3 DEF PreloadInv, Inside, WaitLabels
  <2>5. CASE Inside /\ AtPreloaded
    <3>1. policy' = "kAlways"
      BY <1>4, <2>5 DEF TopOfLoop, Inside
    <3> QED BY <1>1, <2>1, <2>2, <2>5, <3>1 DEF PreloadInv, Inside, WaitLabels
  <2> QED BY <2>1, <2>3, <2>4, <2>5 DEF BatchesInv, PreloadInv
<1>5. CASE MakeRoom
  <2>1. /\ async_pc = "read" /\ async_pc' = "read_into_new_batch" /\ pos' = pos
        /\ UNCHANGED <<policy, preloading>>
        /\ Flush(batch)
    BY <1>5 DEF MakeRoom
  <2>2. Blocks(batch') \subseteq Blocks(batch)
    BY <1>0, <1>2, <2>1
  <2> QED BY <1>0, <1>1, <2>1, <2>2 DEF BatchesInv, PreloadInv, Inside, WaitLabels
<1>6. CASE ReadBlock
  <2> DEFINE e == BlockEntry(pos.block_index + 1, pos.frame_number, policy)
             kind == NextKind(input.capture, pos)
  <2>1. /\ async_pc \in {"read", "read_into_new_batch"}
        /\ async_pc' = IF IsFrameDelimiter(pos, kind) THEN "result" ELSE "read"
        /\ UNCHANGED <<policy, preloading>>
    BY <1>6 DEF ReadBlock
  <2>2. /\ preloading <=> AtPreloaded
        /\ preloading => Inside
        /\ ~preloading => NonePreloaded(batch)
    BY <2>1 DEF BatchesInv, PreloadInv
  <2>3. Blocks(batch') = Blocks(batch) \cup {e} /\ e.frame = pos.frame_number
    BY <1>0, <1>6, BlocksOfBatch, WhichAreBlocks DEF ReadBlock, Keep
  <2>4. /\ pos.frame_number \in Nat
        /\ IF IsFrameDelimiter(pos, kind)
             THEN \/ pos'.frame_number = pos.frame_number + 1
                  \/ pos'.frame_number = 1 /\ (pos.frame_number = 1 \/ input.preload_begin >= 1)
             ELSE pos'.frame_number = pos.frame_number
    BY <1>0, <1>6, FrameNumberStep DEF BatchesInv
  <2> HIDE DEF e, kind
  <2>5. preloading => Inside'
    BY <1>0, <2>1, <2>2, <2>3 DEF Inside, AllPreloaded, AtPreloaded, InPreloadRange
  <2>6. ~preloading => NonePreloaded(batch)'
    BY <1>0, <2>2, <2>3 DEF NonePreloaded, AtPreloaded, InPreloadRange
  <2>7. CASE IsFrameDelimiter(pos, kind)
    <3>1. ~preloading => BeginsPreload'
      <4> SUFFICES ASSUME ~AtPreloaded, AtPreloaded'
                   PROVE  pos'.frame_number = input.preload_begin
        BY <1>0, <2>2 DEF BeginsPreload
      <4>1. input \in Inputs
        BY <1>0 DEF TypeOK
      <4>2. CASE pos'.frame_number = 1 /\ input.preload_begin >= 1
        <5>1. input.preload_begin <= 1 /\ input.preload_begin \in Nat
          BY <1>0, <4>1, <4>2, InputAssumption DEF AtPreloaded, InPreloadRange
        <5> QED BY <4>2, <5>1
      <4>3. \/ pos'.frame_number = pos.frame_number + 1
            \/ pos'.frame_number = 1 /\ input.preload_begin >= 1
        BY <1>0, <2>4, <2>7 DEF AtPreloaded, InPreloadRange
      <4>4. CASE pos'.frame_number = pos.frame_number + 1
        <5>1. /\ ~(input.preload_begin <= pos.frame_number /\ pos.frame_number < input.preload_end)
              /\ input.preload_begin <= pos.frame_number + 1
              /\ pos.frame_number + 1 < input.preload_end
          BY <1>0, <4>4 DEF AtPreloaded, InPreloadRange
        <5> QED BY <2>4, <4>1, <4>4, <5>1, RangeArithmetic
      <4> QED BY <4>3, <4>2, <4>4
    <3> QED BY <2>1, <2>5, <2>6, <2>7, <3>1 DEF PreloadInv, Outside, WaitLabels
  <2>8. CASE ~IsFrameDelimiter(pos, kind)
    <3>1. AtPreloaded' <=> AtPreloaded
      BY <1>0, <2>4, <2>8 DEF AtPreloaded, InPreloadRange
    <3> QED BY <2>1, <2>2, <2>5, <2>6, <2>8, <3>1 DEF PreloadInv, WaitLabels
  <2> QED BY <2>7, <2>8
<1>7. CASE StopReading
  <2>1. /\ async_pc \in {"read", "read_into_new_batch"} /\ async_pc' = "result"
        /\ pos' = pos /\ UNCHANGED <<policy, preloading>> /\ Keep(batch)
    BY <1>7 DEF StopReading
  <2>2. Blocks(batch') \subseteq Blocks(batch)
    BY <1>0, <1>2, <2>1
  <2>3. /\ preloading <=> AtPreloaded
        /\ preloading => Inside
        /\ ~preloading => NonePreloaded(batch)
    BY <2>1 DEF BatchesInv, PreloadInv
  <2> QED BY <1>0, <1>1, <2>1, <2>2, <2>3
       DEF PreloadInv, Inside, Outside, BeginsPreload, WaitLabels
<1>8. CASE AddResult
  <2> DEFINE with_result == Append(batch, ResultEntry(process_state, pos.frame_number))
  <2>1. /\ async_pc = "result" /\ pos' = pos /\ UNCHANGED <<policy, preloading>>
        /\ IF preloading /\ ~AtPreloaded
             THEN Flush(with_result) /\ async_pc' = "fence"
             ELSE Keep(with_result) /\ async_pc' = IF preloading THEN "bottom" ELSE "throttle"
    BY <1>8 DEF AddResult, AtPreloaded
  <2>2. Blocks(batch') \subseteq Blocks(batch)
    BY <1>0, <1>2, <2>1, BlocksOfBatch
  <2>3. (preloading => Inside) /\ (~preloading => Outside)
    BY <2>1 DEF BatchesInv, PreloadInv
  <2>4. CASE preloading /\ ~AtPreloaded
    <3>1. with_result # <<>>
      <4>1. Len(with_result) = Len(batch) + 1 /\ Len(batch) \in Nat /\ Len(<<>>) = 0
        BY <1>0
      <4> QED BY <4>1
    <3>2. batch' = <<>>
      BY <2>1, <2>4, <3>1 DEF Flush
    <3>3. NonePreloaded(batch)'
      BY <3>2, BlocksOfEmpty DEF NonePreloaded
    <3>4. BeginsPreload'
      BY <1>1, <2>1, <2>4 DEF BeginsPreload
    <3> QED BY <2>1, <2>4, <3>2, <3>3, <3>4 DEF PreloadInv, Outside, WaitLabels
  <2>5. CASE preloading /\ AtPreloaded
    BY <1>1, <2>1, <2>2, <2>3, <2>5 DEF PreloadInv, Inside, WaitLabels
  <2>6. CASE ~preloading
    BY <1>1, <2>1, <2>2, <2>3, <2>6 DEF PreloadInv, Outside, WaitLabels
  <2> QED BY <1>0, <2>4, <2>5, <2>6
<1>9. CASE Fence \/ LowWater \/ BetweenWaters \/ WaitDone
  <2>1. /\ async_pc \in {"throttle", "act", "fence"} \cup WaitLabels
        /\ async_pc' \in {"bottom", "wait_test"}
        /\ pos' = pos
    BY <1>9 DEF Fence, LowWater, BetweenWaters, WaitDone, WaitLabels
  <2>2. Blocks(batch') \subseteq Blocks(batch)
    <3>1. Flush(batch) \/ Keep(batch) \/ Flush(Append(batch, ContinueEntry))
      BY <1>9 DEF Fence, LowWater, BetweenWaters, WaitDone
    <3> QED BY <1>0, <1>2, <3>1, BlocksOfBatch
  <2>3. Outside
    BY <2>1 DEF BatchesInv, PreloadInv
  <2> QED BY <1>1, <2>1, <2>2, <2>3 DEF PreloadInv, Outside, WaitLabels
<1>10. CASE ReadPending \/ HighWater \/ NotYet \/ Block \/ Reacquire \/ SpuriousWakeup
  <2>1. /\ async_pc \in {"throttle", "act"} \cup WaitLabels
        /\ async_pc' \in {"act"} \cup WaitLabels
        /\ pos' = pos /\ batch' = batch
    BY <1>10 DEF ReadPending, HighWater, NotYet, Block, Reacquire, SpuriousWakeup, WaitStep,
       WaitLabels, reader_vars
  <2>2. Outside
    BY <2>1 DEF BatchesInv, PreloadInv
  <2> QED BY <1>1, <2>1, <2>2 DEF PreloadInv, Outside, WaitLabels
<1>11. CASE BottomOfLoop
  <2>1. /\ async_pc = "bottom" /\ async_pc' \in {"top", "last_flush"}
        /\ UNCHANGED <<pos, batch, policy>>
    BY <1>11 DEF BottomOfLoop, reader_vars
  <2>2. Outside \/ (Inside /\ AtPreloaded)
    BY <2>1 DEF BatchesInv, PreloadInv
  <2> QED BY <1>1, <2>1, <2>2 DEF PreloadInv, Outside, Inside, WaitLabels
<1>12. CASE LastFlush \/ CloseQueue
  BY <1>12 DEF LastFlush, CloseQueue, PreloadInv, WaitLabels
<1>13. CASE DispatchStep \/ Advance \/ Destroy \/ UNCHANGED vars
  <2>1. UNCHANGED <<pos, batch, policy, preloading>>
    BY <1>0, <1>13, DispatchedBatches
  <2>2. \/ async_pc' = async_pc
        \/ async_pc = "not_started" /\ async_pc' = "start"
        \/ async_pc = "waiting" /\ async_pc' = "woken"
    BY <1>13 DEF BatchesInv, LaunchStartsIt, LaunchAsyncThread, DispatchStep, Advance, PopBatch,
      PopEnd, StoreDequeued,
       NotifyDequeued, Destroy, DestroyNotify, Join, NotifyThrottle, vars
  <2>3. (NonePreloaded(batch)' <=> NonePreloaded(batch)) /\ (AllPreloaded(batch)' <=> AllPreloaded(batch))
    BY <1>0, <2>1 DEF NonePreloaded, AllPreloaded, InPreloadRange
  <2> QED BY <1>1, <2>1, <2>2, <2>3 DEF BatchesInv, PreloadInv, Outside, Inside, WaitLabels
<1> QED
  BY <1>3, <1>4, <1>5, <1>6, <1>7, <1>8, <1>9, <1>10, <1>11, <1>12, <1>13
     DEF Next, AsyncStep, Finished

-----------------------------------------------------------------------------
LEMMA InitBatchesInv == Init => BatchesInv
<1> SUFFICES ASSUME Init PROVE BatchesInv
  OBVIOUS
<1>1. IInv
  BY InitIInv
<1>2. /\ batch = <<>> /\ queue = <<>> /\ got[Dispatcher] = NoBatch
      /\ async_pc = "not_started" /\ pos = StartOf(input.capture)
      /\ input \in Inputs
  BY DEF Init, Queue!Init
<1>3. /\ pos.block_index = 0 /\ pos.frame_number = 0
      /\ pos.uses_markers = input.capture.markers
      /\ Len(input.capture.blocks) \in Nat
      /\ input.preload_begin \in Nat /\ input.preload_end \in Nat
  BY <1>2, InputAssumption DEF StartOf, Captures
<1>4. FramesArePresents
  BY <1>2, InputAssumption, StartCounts DEF FramesArePresents
<1>5. PreloadInv
  <2>1. BeginsPreload
    BY <1>3 DEF BeginsPreload, AtPreloaded, InPreloadRange
  <2> QED BY <1>2, <2>1 DEF PreloadInv, WaitLabels
<1>6. BatchesAreUniform
  <2>1. DOMAIN queue = {}
    BY <1>2
  <2>2. LiveBatches = {<<>>}
    BY <1>2, <2>1 DEF LiveBatches
  <2> QED BY <2>2, EmptyIsUniform DEF BatchesAreUniform
<1> QED BY <1>1, <1>2, <1>4, <1>5, <1>6 DEF BatchesInv, LaunchStartsIt

LEMMA NextBatchesInv ==
  ASSUME OnlyTheFirstFrameStutters, BatchesInv, Next
  PROVE  BatchesInv'
<1>1. IInv'
  BY NextIInv DEF BatchesInv
<1>2. LaunchStartsIt' /\ FramesArePresents'
  BY LaunchStep, FramesStep DEF BatchesInv, IInv
<1>3. PreloadInv' /\ BatchesAreUniform'
  BY PreloadStep, UniformStep
<1> QED BY <1>1, <1>2, <1>3 DEF BatchesInv

LEMMA StutterBatchesInv == BatchesInv /\ UNCHANGED vars => BatchesInv'
<1> SUFFICES ASSUME BatchesInv, UNCHANGED vars PROVE BatchesInv'
  OBVIOUS
<1>1. /\ IInv'
      /\ UNCHANGED <<input, pos, batch, policy, preloading, async_pc, dispatch_pc, queue, got>>
  BY StutterIInv DEF vars, reader_vars, queue_vars, dispatch_vars, BatchesInv
<1>2. LaunchStartsIt' /\ FramesArePresents'
  BY <1>1 DEF BatchesInv, LaunchStartsIt, FramesArePresents, CountsPresents
<1>3. PreloadInv'
  BY <1>1 DEF BatchesInv, PreloadInv, Inside, Outside, BeginsPreload, AtPreloaded,
     AllPreloaded, NonePreloaded, InPreloadRange
<1>4. BatchesAreUniform'
  BY <1>1 DEF BatchesInv, BatchesAreUniform, Uniform, LiveBatches, InPreloadRange
<1> QED BY <1>1, <1>2, <1>3, <1>4 DEF BatchesInv

(* In every behaviour on such captures the batch, the frame number and the    *)
(* label of the processing thread agree on whether frames are preloaded.      *)
THEOREM PreloadInvariance ==
  ASSUME OnlyTheFirstFrameStutters
  PROVE  Spec => []BatchesInv
<1>1. BatchesInv /\ [Next]_vars => BatchesInv'
  BY NextBatchesInv, StutterBatchesInv
<1> QED BY <1>1, InitBatchesInv, PTL DEF Spec

(* No batch mixes blocks of preloaded frames with others, whatever the        *)
(* throttle and the dispatching thread do (async_processor.cpp:240-252).      *)
THEOREM PreloadOnBatchBoundariesCorrect ==
  ASSUME OnlyTheFirstFrameStutters
  PROVE  Spec => []PreloadOnBatchBoundaries
<1>1. BatchesInv => PreloadOnBatchBoundaries
  BY DEF BatchesInv, BatchesAreUniform, Uniform, PreloadOnBatchBoundaries
<1> QED BY <1>1, PreloadInvariance, PTL

(* Every block of a preloaded frame was parsed with the policy that           *)
(* decompresses it on the processing thread (async_processor.cpp:257).        *)
THEOREM PreloadedBlocksAreDecompressedCorrect ==
  ASSUME OnlyTheFirstFrameStutters
  PROVE  Spec => []PreloadedBlocksAreDecompressed
<1>1. BatchesInv => PreloadedBlocksAreDecompressed
  BY DEF BatchesInv, BatchesAreUniform, Uniform, PreloadedBlocksAreDecompressed
<1> QED BY <1>1, PreloadInvariance, PTL

-----------------------------------------------------------------------------
(* The application as the dispatching thread                                 *)

(* A step of the application advances, destroys or does nothing to the        *)
(* processor.                                                                 *)
LEMMA ReplayStepIsDispatch ==
  ReplayStep \/ UserQuits => Advance \/ UNCHANGED vars
<1> USE DEF NextBatch, StayAt, processor_vars
<1>1. ASSUME Client \/ UserQuits PROVE UNCHANGED vars
  BY <1>1 DEF Client, UserQuits
<1>2. ASSUME PreloadBatch PROVE Advance \/ UNCHANGED vars
  BY <1>2 DEF PreloadBatch
<1>3. ASSUME PreloadEnd PROVE UNCHANGED vars
  BY <1>3 DEF PreloadEnd
<1>4. ASSUME ClearPreloaded PROVE Advance
  BY <1>4 DEF ClearPreloaded
<1>5. ASSUME PlayBatch PROVE Advance \/ UNCHANGED vars
  BY <1>5 DEF PlayBatch
<1>6. ASSUME PlayPastTheEnd PROVE UNCHANGED vars
  BY <1>6 DEF PlayPastTheEnd
<1>7. QED
  BY <1>1, <1>2, <1>3, <1>4, <1>5, <1>6 DEF ReplayStep

(* Every behaviour of the application and the processor is one of the         *)
(* processor with the most general dispatching thread.                        *)
THEOREM ReplayRunsTheProcessor == ReplaySpec => Spec
<1>1. ReplayInit => Init
  BY DEF ReplayInit
<1>2. [ReplayNext]_replay_vars => [Next]_vars
  <2> SUFFICES ASSUME [ReplayNext]_replay_vars PROVE [Next]_vars
    OBVIOUS
  <2>1. CASE InProcessor(AsyncStep)
    BY <2>1 DEF InProcessor, Next
  <2>2. CASE InProcessor(SpuriousWakeup)
    BY <2>2 DEF InProcessor, Next
  <2>3. CASE InProcessor(DispatchStep)
    BY <2>3 DEF InProcessor, Next
  <2>4. CASE ReplayStep \/ UserQuits
    BY <2>4, ReplayStepIsDispatch DEF Next
  <2>5. CASE DestroyProcessor
    BY <2>5 DEF DestroyProcessor, Next
  <2>6. CASE Terminated
    BY <2>6 DEF Terminated, replay_vars, processor_vars
  <2>7. CASE UNCHANGED replay_vars
    BY <2>7 DEF replay_vars, processor_vars
  <2>8. QED
    BY <2>1, <2>2, <2>3, <2>4, <2>5, <2>6, <2>7 DEF ReplayNext
<1>3. QED
  BY <1>1, <1>2, PTL DEF ReplaySpec, Spec

(* In every replay, with any capture and options, the application and the     *)
(* producer never wait for each other: PreloadNextFramesAsync, in particular, *)
(* may wait for a batch while the producer is at the fence behind the         *)
(* preloaded frames only if that batch is on the queue.                       *)
THEOREM ReplayNoDeadlock == ReplaySpec => []NoMutualBlocking
BY ReplayRunsTheProcessor, NoDeadlock, PTL

(* In every replay the batches that were dequeued and those on the queue are  *)
(* the ones that were enqueued, in order.                                     *)
THEOREM ReplayBatchesAccountedFor == ReplaySpec => []TagsAccountForBatches
BY ReplayRunsTheProcessor, BatchesAccountedFor, PTL

-----------------------------------------------------------------------------
(* The range, between the processing thread and the application.  The results *)
(* of frames are followed on their way: what a batch in hand, the batches on  *)
(* the queue and the rest of the application's batch say of where the range   *)
(* begins and ends (BeginAhead, EndAhead), and what the application has of it  *)
(* at each label (Phases).                                                   *)

(* The first marker is early in every capture, so that the frame number is    *)
(* never set back behind the second frame, whatever the range.                *)
EveryStutterIsEarly == \A i \in Inputs : FirstMarkerIsEarly(i.capture)

(* The number an entry carries: of its frame, or of the frame behind it.      *)
NumberOf(e) == IF IsResult(e) THEN e.next_frame ELSE e.frame
FrameEnd(n) == ResultEntry("kFrameBoundary", n)

BelowFrame(s, t) == \A i \in 1 .. Len(s) : NumberOf(s[i]) < t
FromFrame(s, t) == \A i \in 1 .. Len(s) : s[i] = ContinueEntry \/ NumberOf(s[i]) >= t
EndsBefore(s, t) ==
  /\ s # <<>> /\ s[Len(s)] = FrameEnd(t)
  /\ \A i \in 1 .. Len(s) - 1 : NumberOf(s[i]) < t

(* What the application has ahead: the rest of its batch, the batches on the  *)
(* queue, and what the producer is filling, with the result it is about to    *)
(* add.                                                                       *)
Rest == IF dispatch_pc \in {"launch", "pop"} \/ AtEndOfQueue THEN <<>>
        ELSE SubSeq(CurrentBatch.blocks, cursor, Len(CurrentBatch.blocks))
Filling == IF async_pc = "result"
             THEN Append(batch, ResultEntry(process_state, pos.frame_number)) ELSE batch
Last == Len(queue) + 1
AheadAt(j) == IF j = 0 THEN Rest ELSE IF j = Last THEN Filling ELSE queue[j].blocks

-----------------------------------------------------------------------------
LEMMA Numbers ==
  /\ \A n, f, p : NumberOf(BlockEntry(n, f, p)) = f
  /\ \A s, f : NumberOf(ResultEntry(s, f)) = f
  /\ NumberOf(ContinueEntry) = NoFrame
  /\ \A e \in Entries : NumberOf(e) \in Nat \cup {NoFrame}
<1>1. \A s, f : NumberOf(ResultEntry(s, f)) = f
  BY EntryKinds DEF NumberOf
<1>2. \A n, f, p : NumberOf(BlockEntry(n, f, p)) = f
  BY EntryKinds DEF NumberOf, BlockEntry
<1>3. \A e \in Entries : NumberOf(e) \in Nat \cup {NoFrame}
  BY EntryKinds DEF NumberOf
<1> QED BY <1>1, <1>2, <1>3 DEF ContinueEntry

LEMMA Appended ==
  ASSUME NEW s \in Seq(Entries), NEW e \in Entries
  PROVE  /\ Append(s, e) \in Seq(Entries) /\ Append(s, e) # <<>>
         /\ Len(s) \in Nat /\ Len(Append(s, e)) = Len(s) + 1
         /\ \A i \in 1 .. Len(s) : Append(s, e)[i] = s[i]
         /\ Append(s, e)[Len(s) + 1] = e
OBVIOUS

LEMMA Suffix ==
  ASSUME NEW s \in Seq(Entries), NEW n \in Nat \ {0}
  PROVE  LET r == SubSeq(s, n, Len(s)) IN
         /\ r \in Seq(Entries)
         /\ n = 1 => r = s
         /\ n > Len(s) => r = <<>>
         /\ n <= Len(s) => /\ Len(r) = Len(s) - n + 1
                           /\ \A i \in 1 .. Len(r) : r[i] = s[n + i - 1] /\ n + i - 1 \in 1 .. Len(s)
<1>1. Len(s) \in Nat /\ \A i \in 1 .. Len(s) : s[i] \in Entries
  OBVIOUS
<1> QED BY <1>1

(* The type of the lists.                                                    *)
LEMMA AheadTypes ==
  ASSUME TypeOK, cursor \in Nat \ {0}
  PROVE  /\ Rest \in Seq(Entries) /\ Filling \in Seq(Entries)
         /\ Last \in Nat \ {0} /\ Len(queue) \in Nat
         /\ \A j \in 0 .. Last : AheadAt(j) \in Seq(Entries)
         /\ AheadAt(0) = Rest /\ AheadAt(Last) = Filling
         /\ \A j \in 1 .. Len(queue) : AheadAt(j) = queue[j].blocks
<1>1. /\ batch \in Seq(Entries) /\ Len(queue) \in Nat
      /\ \A i \in 1 .. Len(queue) : queue[i] \in Batch
      /\ CurrentBatch \in Batch \cup {NoBatch}
      /\ process_state \in ProcessBlockStates /\ pos.frame_number \in Nat
  BY DEF TypeOK, CurrentBatch, Positions
<1>2. \A c \in Batch : c.blocks \in Seq(Entries)
  BY DEF Batch
<1>3. Rest \in Seq(Entries)
  <2>1. CASE dispatch_pc \in {"launch", "pop"} \/ AtEndOfQueue
    BY <2>1 DEF Rest
  <2>2. CASE ~(dispatch_pc \in {"launch", "pop"} \/ AtEndOfQueue)
    <3>1. CurrentBatch.blocks \in Seq(Entries)
      BY <1>1, <1>2, <2>2 DEF AtEndOfQueue
    <3> QED BY <2>2, <3>1, Suffix DEF Rest
  <2> QED BY <2>1, <2>2
<1>4. Filling \in Seq(Entries)
  BY <1>1, EntryTypes, Appended DEF Filling
<1>5. \A j \in 1 .. Len(queue) : queue[j].blocks \in Seq(Entries)
  BY <1>1, <1>2
<1>6. Last = Len(queue) + 1
  BY DEF Last
<1> HIDE DEF Last
<1> QED BY <1>1, <1>3, <1>4, <1>5, <1>6 DEF AheadAt

-----------------------------------------------------------------------------
(* What a step of the producer does to what is ahead.                        *)

Reading == {"read", "read_into_new_batch"}

(* A block, and the end of a frame with it, or the end of the stream.        *)
ReadsOn ==
  /\ async_pc \in Reading /\ async_pc' \in Reading
  /\ Filling' = Append(Filling, BlockEntry(pos.block_index + 1, pos.frame_number, policy))
  /\ pos'.frame_number = pos.frame_number
EndsFrame ==
  /\ async_pc \in Reading /\ async_pc' = "result" /\ process_state' = "kFrameBoundary"
  /\ Filling' = Append(Append(Filling, BlockEntry(pos.block_index + 1, pos.frame_number, policy)),
                       FrameEnd(pos'.frame_number))
  /\ \/ pos'.frame_number = pos.frame_number + 1
     \/ pos'.frame_number = 1 /\ pos.frame_number = 1
EndsStream ==
  /\ async_pc \in Reading /\ async_pc' = "result"
  /\ ~ContinueProcessing(process_state') /\ process_state' \in ProcessBlockStates
  /\ Filling' = Append(Filling, ResultEntry(process_state', pos.frame_number))
  /\ pos' = pos

Holds == queue' = queue /\ Filling' = Filling /\ UNCHANGED <<pos, process_state>>
Sends(b) ==
  /\ queue' = Append(queue, [tag |-> enqueued_batch_index + 1, blocks |-> b])
  /\ Filling' = <<>> /\ UNCHANGED <<pos, process_state>>
  /\ \/ b = Filling /\ Filling # <<>>
     \/ b = <<ContinueEntry>> /\ Filling = <<>>

(* The others: nothing moves, or a batch is sent.                             *)
LEMMA FlushMoves ==
  ASSUME TypeOK, UNCHANGED <<pos, process_state>>, async_pc' # "result",
         Flush(Filling) \/ Keep(Filling)
           \/ (Filling = <<>> /\ Flush(Append(Filling, ContinueEntry)))
  PROVE  /\ Holds \/ \E b : Sends(b)
         /\ got' = got
<1>1. Filling' = batch'
  BY DEF Filling
<1>2. CASE Flush(Filling)
  BY <1>1, <1>2 DEF Flush, Holds, Sends, Queue!Push, queue_vars
<1>3. CASE Keep(Filling)
  BY <1>1, <1>3 DEF Keep, Holds, queue_vars
<1>4. CASE Filling = <<>> /\ Flush(Append(Filling, ContinueEntry))
  <2>1. Append(Filling, ContinueEntry) = <<ContinueEntry>> /\ <<ContinueEntry>> # <<>>
    BY <1>4
  <2>2. Flush(<<ContinueEntry>>) /\ Filling = <<>>
    BY <1>4, <2>1
  <2> QED BY <1>1, <2>1, <2>2 DEF Flush, Sends, Queue!Push, queue_vars
<1> QED BY <1>2, <1>3, <1>4

LEMMA ProducerMoves ==
  ASSUME EveryStutterIsEarly, BatchesInv, AsyncStep \/ SpuriousWakeup
  PROVE  /\ UNCHANGED <<input, got, dispatch_pc, keep_alive, last_dequeued_batch>>
         /\ \/ Holds \/ (\E b : Sends(b))
            \/ (ReadsOn \/ EndsFrame \/ EndsStream) /\ queue' = queue
<1>0. TypeOK
  BY DEF BatchesInv, IInv
<1>1. UNCHANGED <<input, dispatch_pc, keep_alive, last_dequeued_batch>>
  BY DEF AsyncStep, StartThread, TopOfLoop, MakeRoom, ReadBlock, StopReading,
     AddResult, Fence, ReadPending, LowWater, HighWater, BetweenWaters, WaitDone,
     NotYet, Block, Reacquire, WaitStep, BottomOfLoop, LastFlush, CloseQueue, SpuriousWakeup,
     dispatch_vars
<1>2. CASE ReadBlock
  <2> DEFINE kind == NextKind(input.capture, pos)
             blk == BlockEntry(pos.block_index + 1, pos.frame_number, policy)
  <2>1. /\ async_pc \in Reading
        /\ Keep(Append(batch, blk))
        /\ pos' = AfterBlock(pos, kind) /\ process_state' = BlockState(pos, kind)
        /\ async_pc' = IF IsFrameDelimiter(pos, kind) THEN "result" ELSE "read"
    BY <1>2 DEF ReadBlock, Reading, GoAsync
  <2>2. LET q == AfterBlock(pos, kind) IN
        IF IsFrameDelimiter(pos, kind)
          THEN \/ q.frame_number = pos.frame_number + 1
               \/ q.frame_number = 1 /\ pos.frame_number = 1
          ELSE q.frame_number = pos.frame_number
    <3>1. /\ input.capture \in Captures /\ pos \in Positions
          /\ pos.block_index + 1 <= Len(input.capture.blocks)
      BY <1>0, <1>2, BlockIsThere
    <3>2. CountsPresents(input.capture, pos) /\ FirstMarkerIsEarly(input.capture)
      BY <1>0 DEF BatchesInv, FramesArePresents, EveryStutterIsEarly, TypeOK
    <3> QED BY <3>1, <3>2, NextFrameNumber
  <2>3. Filling = batch /\ batch' = Append(batch, blk) /\ queue' = queue /\ got' = got
    BY <2>1 DEF Filling, Keep, Reading, queue_vars
  <2> HIDE DEF kind, blk
  <2>4. CASE IsFrameDelimiter(pos, kind)
    <3>1. process_state' = "kFrameBoundary"
      BY <2>1, <2>4 DEF BlockState
    <3>2. Filling' = Append(Append(batch, blk), FrameEnd(pos'.frame_number))
      BY <2>1, <2>3, <2>4, <3>1 DEF Filling, FrameEnd
    <3> QED BY <1>1, <2>1, <2>2, <2>3, <2>4, <3>1, <3>2 DEF EndsFrame, blk
  <2>5. CASE ~IsFrameDelimiter(pos, kind)
    <3>1. Filling' = Append(batch, blk)
      BY <2>1, <2>3, <2>5 DEF Filling
    <3> QED BY <1>1, <2>1, <2>2, <2>3, <2>5, <3>1 DEF ReadsOn, Reading, blk
  <2> QED BY <2>4, <2>5
<1>3. CASE StopReading
  <2>1. /\ async_pc \in Reading /\ async_pc' = "result" /\ Keep(batch) /\ pos' = pos
        /\ process_state' = StopState(input.capture, input.block_limit, pos)
        /\ Stops(input.capture, input.block_limit, pos)
    BY <1>3 DEF StopReading, Reading, GoAsync
  <2>2. ~ContinueProcessing(process_state') /\ process_state' \in ProcessBlockStates
    <3>1. process_state' # "kContinue" /\ process_state' # "kFrameBoundary"
      BY <2>1, StopStateType DEF Stops
    <3> QED BY <2>1, <3>1, StopStateType DEF ContinueProcessing
  <2>3. /\ Filling = batch /\ batch' = batch /\ queue' = queue /\ got' = got
        /\ Filling' = Append(batch, ResultEntry(process_state', pos.frame_number))
    BY <2>1 DEF Filling, Keep, Reading, queue_vars
  <2> QED BY <1>1, <2>1, <2>2, <2>3 DEF EndsStream
<1>4. CASE StartThread \/ Fence
  <2>1. batch = <<>>
    BY <1>4 DEF BatchesInv, PreloadInv, StartThread, Fence
  <2>2. /\ Filling = batch /\ UNCHANGED <<pos, process_state>> /\ async_pc' # "result"
        /\ Flush(Append(batch, ContinueEntry))
    BY <1>4 DEF StartThread, Fence, Filling, GoAsync
  <2> QED BY <1>0, <1>1, <2>1, <2>2, FlushMoves
<1>5. CASE AddResult
  <2>1. /\ Filling = Append(batch, ResultEntry(process_state, pos.frame_number))
        /\ UNCHANGED <<pos, process_state>> /\ async_pc' # "result"
        /\ Flush(Filling) \/ Keep(Filling)
    BY <1>5 DEF AddResult, Filling, GoAsync
  <2> QED BY <1>0, <1>1, <2>1, FlushMoves
<1>6. CASE \/ TopOfLoop \/ MakeRoom \/ LowWater \/ BetweenWaters \/ WaitDone \/ LastFlush
  <2>1. /\ Filling = batch /\ UNCHANGED <<pos, process_state>> /\ async_pc' # "result"
        /\ Flush(batch) \/ Keep(batch)
    BY <1>6 DEF TopOfLoop, MakeRoom, LowWater, BetweenWaters, WaitDone, LastFlush, Filling,
       GoAsync
  <2> QED BY <1>0, <1>1, <2>1, FlushMoves
<1>7. CASE \/ ReadPending \/ HighWater \/ NotYet \/ Block \/ Reacquire \/ SpuriousWakeup
           \/ BottomOfLoop \/ CloseQueue
  <2>1. UNCHANGED <<pos, process_state, batch, queue, got>>
    BY <1>7 DEF ReadPending, HighWater, NotYet, Block, Reacquire, SpuriousWakeup, WaitStep,
       BottomOfLoop, CloseQueue, Queue!Close, reader_vars, queue_vars
  <2>2. async_pc # "result" /\ async_pc' # "result"
    BY <1>7 DEF ReadPending, HighWater, NotYet, Block, Reacquire, SpuriousWakeup, WaitStep,
       BottomOfLoop, CloseQueue, GoAsync
  <2> QED BY <1>1, <2>1, <2>2 DEF Holds, Filling
<1> QED BY <1>2, <1>3, <1>4, <1>5, <1>6, <1>7 DEF AsyncStep

LEMMA RestStays ==
  ASSUME UNCHANGED <<got, dispatch_pc, cursor>>
  PROVE  Rest' = Rest /\ (AtEndOfQueue' <=> AtEndOfQueue) /\ CurrentBatch' = CurrentBatch
BY DEF Rest, AtEndOfQueue, CurrentBatch

Grows == ReadsOn \/ EndsFrame \/ EndsStream

LEMMA AheadMoves ==
  ASSUME EveryStutterIsEarly, BatchesInv, BatchesInv', AsyncStep \/ SpuriousWakeup,
         cursor \in Nat \ {0}, cursor' = cursor
  PROVE  /\ Last' \in {Last, Last + 1}
         /\ pos.frame_number \in Nat /\ pos'.frame_number \in Nat
         /\ pos.frame_number <= pos'.frame_number
         /\ \A j \in 0 .. Last :
              AheadAt(j)' = AheadAt(j) \/ (j = Last /\ (Grows \/ AheadAt(j) = <<>>))
         /\ Grows => Last' = Last /\ queue' = queue
         /\ \A j \in 0 .. Last' : \A i \in 1 .. Len(AheadAt(j)') :
              \/ j \in 0 .. Last /\ i \in 1 .. Len(AheadAt(j)) /\ AheadAt(j)'[i] = AheadAt(j)[i]
              \/ AheadAt(j)'[i] = ContinueEntry
              \/ /\ Grows /\ j = Last
                 /\ pos.frame_number <= NumberOf(AheadAt(j)'[i])
                 /\ NumberOf(AheadAt(j)'[i]) <= pos'.frame_number
<1>0. TypeOK /\ TypeOK'
  BY DEF BatchesInv, IInv
<1>1. /\ UNCHANGED <<got, dispatch_pc, cursor>>
      /\ \/ Holds \/ (\E b : Sends(b))
         \/ Grows /\ queue' = queue
  BY ProducerMoves DEF Grows
<1>2. Rest' = Rest /\ cursor' \in Nat \ {0}
  BY <1>1, RestStays
<1>3. /\ Rest \in Seq(Entries) /\ Filling \in Seq(Entries) /\ Filling' \in Seq(Entries)
      /\ Last \in Nat \ {0} /\ Len(queue) \in Nat /\ Last = Len(queue) + 1
      /\ Last' \in Nat \ {0} /\ Last' = Len(queue') + 1
      /\ AheadAt(0) = Rest /\ AheadAt(Last) = Filling
      /\ AheadAt(0)' = Rest
      /\ \A j \in 1 .. Len(queue) : AheadAt(j) = queue[j].blocks
      /\ \A j : j = Last' => AheadAt(j)' = Filling'
      /\ \A j \in 1 .. Len(queue') : AheadAt(j)' = queue'[j].blocks
      /\ queue \in Seq(Batch)
  <2>1. \A j : j = Last' /\ Last' # 0 => AheadAt(j)' = Filling'
    BY DEF AheadAt
  <2>2. \A j \in 1 .. Len(queue') : AheadAt(j)' = queue'[j].blocks
    BY <1>0, <1>2, AheadTypes DEF AheadAt, Last
  <2>3. Last' \in Nat \ {0} /\ Filling' \in Seq(Entries)
    <3>1. /\ batch' \in Seq(Entries) /\ queue' \in Seq(Batch)
          /\ process_state' \in ProcessBlockStates /\ pos'.frame_number \in Nat
      BY <1>0 DEF TypeOK, Positions
    <3>2. ResultEntry(process_state', pos'.frame_number) \in Entries
      BY <3>1, EntryTypes
    <3> QED BY <3>1, <3>2, Appended DEF Filling, Last
  <2>4. AheadAt(0)' = Rest
    BY <1>2 DEF AheadAt
  <2> QED BY <1>0, <2>1, <2>2, <2>3, <2>4, AheadTypes DEF Last, TypeOK
<1>4. pos.frame_number \in Nat /\ pos'.frame_number \in Nat
  BY <1>0 DEF TypeOK, Positions
<1>5. CASE Holds
  <2>1. Last' = Last /\ queue' = queue /\ Filling' = Filling /\ pos' = pos
    BY <1>5 DEF Holds, Last
  <2>2. \A j \in 0 .. Last : AheadAt(j)' = AheadAt(j)
    BY <1>3, <2>1
  <2>3. \A j \in 0 .. Last' : \A i \in 1 .. Len(AheadAt(j)') :
           j \in 0 .. Last /\ i \in 1 .. Len(AheadAt(j)) /\ AheadAt(j)'[i] = AheadAt(j)[i]
    BY <2>1, <2>2
  <2> QED BY <1>3, <1>4, <2>1, <2>2, <2>3
<1>6. ASSUME NEW b, Sends(b)
      PROVE  /\ Last' = Last + 1 /\ pos' = pos
             /\ \A j \in 0 .. Last :
                  AheadAt(j)' = AheadAt(j) \/ (j = Last /\ AheadAt(j) = <<>>)
             /\ \A j \in 0 .. Last' : \A i \in 1 .. Len(AheadAt(j)') :
                  \/ j \in 0 .. Last /\ i \in 1 .. Len(AheadAt(j)) /\ AheadAt(j)'[i] = AheadAt(j)[i]
                  \/ AheadAt(j)'[i] = ContinueEntry
  <2> DEFINE sent == [tag |-> enqueued_batch_index + 1, blocks |-> b]
  <2>1. queue' = Append(queue, sent) /\ sent.blocks = b /\ Filling' = <<>> /\ pos' = pos
    BY <1>6 DEF Sends
  <2> HIDE DEF sent
  <2>2. /\ Len(queue') = Len(queue) + 1 /\ queue'[Last] = sent
        /\ \A j \in 1 .. Len(queue) : queue'[j] = queue[j]
    BY <1>3, <2>1
  <2>3. Last' = Last + 1
    BY <1>3, <2>2
  <2>4. /\ \A j \in 0 .. Last - 1 : AheadAt(j)' = AheadAt(j)
        /\ \A j : j = Last => AheadAt(j)' = b
        /\ \A j : j = Last + 1 => AheadAt(j)' = <<>>
    <3>1. /\ Last = Len(queue) + 1 /\ Len(queue') = Last /\ Last \in Nat \ {0}
          /\ AheadAt(0)' = AheadAt(0)
      BY <1>3, <2>2
    <3>2. ASSUME NEW j \in 0 .. Last - 1 PROVE AheadAt(j)' = AheadAt(j)
      <4>1. CASE j = 0
        BY <3>1, <4>1
      <4>2. CASE j \in 1 .. Len(queue)
        <5>1. j \in 1 .. Len(queue') /\ queue'[j] = queue[j]
          BY <2>2, <3>1, <4>2
        <5> QED BY <1>3, <4>2, <5>1
      <4> QED BY <3>1, <3>2, <4>1, <4>2
    <3>3. ASSUME NEW j, j = Last PROVE AheadAt(j)' = b
      <4>1. j \in 1 .. Len(queue') /\ queue'[j] = sent
        BY <2>2, <3>1, <3>3
      <4> QED BY <1>3, <2>1, <4>1
    <3>4. ASSUME NEW j, j = Last + 1 PROVE AheadAt(j)' = <<>>
      BY <1>3, <2>1, <2>3, <3>4
    <3> QED BY <3>2, <3>3, <3>4
  <2>5. \/ b = AheadAt(Last)
        \/ b = <<ContinueEntry>> /\ AheadAt(Last) = <<>>
    BY <1>3, <1>6 DEF Sends
  <2>6. \A j \in 0 .. Last :
           AheadAt(j)' = AheadAt(j) \/ (j = Last /\ AheadAt(j) = <<>>)
    <3>1. \A j \in 0 .. Last : j \in 0 .. Last - 1 \/ j = Last
      BY <1>3
    <3> QED BY <2>4, <2>5, <3>1
  <2>7. ASSUME NEW j \in 0 .. Last', NEW i \in 1 .. Len(AheadAt(j)')
        PROVE  \/ j \in 0 .. Last /\ i \in 1 .. Len(AheadAt(j)) /\ AheadAt(j)'[i] = AheadAt(j)[i]
               \/ AheadAt(j)'[i] = ContinueEntry
    <3>1. CASE j \in 0 .. Last /\ AheadAt(j)' = AheadAt(j)
      BY <2>7, <3>1
    <3>2. CASE j = Last /\ b = <<ContinueEntry>>
      <4>1. AheadAt(j)' = <<ContinueEntry>> /\ i = 1
        <5>1. AheadAt(j)' = <<ContinueEntry>>
          BY <2>4, <3>2
        <5> QED BY <2>7, <5>1
      <4> QED BY <4>1
    <3>3. CASE j = Last + 1
      <4>1. Len(AheadAt(j)') = 0
        BY <2>4, <3>3
      <4> QED BY <2>7, <4>1
    <3>4. j \in 0 .. Last \/ j = Last + 1
      BY <1>3, <2>3
    <3> QED BY <1>3, <2>4, <2>5, <2>6, <3>1, <3>2, <3>3, <3>4
  <2> QED BY <2>1, <2>3, <2>6, <2>7
<1>7. ASSUME Grows, queue' = queue
      PROVE  /\ Last' = Last
             /\ pos.frame_number <= pos'.frame_number
             /\ \A j \in 0 .. Last : AheadAt(j)' = AheadAt(j) \/ j = Last
             /\ \A j \in 0 .. Last' : \A i \in 1 .. Len(AheadAt(j)') :
                  \/ j \in 0 .. Last /\ i \in 1 .. Len(AheadAt(j)) /\ AheadAt(j)'[i] = AheadAt(j)[i]
                  \/ /\ j = Last
                     /\ pos.frame_number <= NumberOf(AheadAt(j)'[i])
                     /\ NumberOf(AheadAt(j)'[i]) <= pos'.frame_number
  <2> DEFINE blk == BlockEntry(pos.block_index + 1, pos.frame_number, policy)
             n == Len(Filling)
             w == pos'.frame_number
             f == Filling'
  <2>1. Last' = Last /\ \A j \in 0 .. Last : AheadAt(j)' = AheadAt(j) \/ j = Last
    BY <1>3, <1>7
  <2>2. \A j : j = Last => AheadAt(j)' = f /\ AheadAt(j) = Filling
    BY <1>3, <2>1
  <2>3. blk \in Entries /\ NumberOf(blk) = pos.frame_number
    <3>1. pos.block_index + 1 \in Nat /\ pos.frame_number \in Nat /\ policy \in Policies
      BY <1>0 DEF TypeOK, Positions
    <3> QED BY <3>1, EntryTypes, Numbers
  <2>4. pos.frame_number <= w /\ w \in Nat
    BY <1>4, <1>7 DEF Grows, ReadsOn, EndsFrame, EndsStream
  <2>5. /\ n \in Nat
        /\ \A i \in 1 .. Len(f) :
             \/ i \in 1 .. n /\ f[i] = Filling[i]
             \/ pos.frame_number <= NumberOf(f[i]) /\ NumberOf(f[i]) <= w
    <3>0. n \in Nat
      BY <1>3
    <3> USE <1>4, <2>3, <2>4, <3>0
    <3>1. CASE ReadsOn
      <4>1. f = Append(Filling, blk)
        BY <3>1 DEF ReadsOn
      <4>2. \A i \in 1 .. Len(f) : (i \in 1 .. n /\ f[i] = Filling[i]) \/ f[i] = blk
        <5> HIDE DEF blk, f
        <5> QED BY <1>3, <2>3, <4>1, Appended
      <4> HIDE DEF f, w, n, blk
      <4> QED BY <4>2
    <3>2. CASE EndsFrame
      <4> DEFINE g == Append(Filling, blk)
                 e == FrameEnd(w)
      <4>1. f = Append(g, e) /\ e \in Entries /\ NumberOf(e) = w
        BY <1>4, <3>2, EntryTypes, Numbers DEF EndsFrame, FrameEnd, ProcessBlockStates
      <4>2. g \in Seq(Entries) /\ Len(g) = n + 1 /\ (\A i \in 1 .. n : g[i] = Filling[i]) /\ g[n + 1] = blk
        <5> HIDE DEF blk
        <5> QED BY <1>3, <2>3, Appended
      <4>3. \A i \in 1 .. Len(f) : (i \in 1 .. n /\ f[i] = Filling[i]) \/ f[i] = blk \/ f[i] = e
        <5> HIDE DEF blk, f, e, g
        <5>1. Len(f) = n + 2 /\ (\A i \in 1 .. n + 1 : f[i] = g[i]) /\ f[n + 2] = e
          BY <3>0, <4>1, <4>2, Appended
        <5> QED BY <3>0, <4>2, <5>1
      <4>4. NumberOf(e) = w
        BY <4>1
      <4> HIDE DEF f, w, n, blk, e
      <4> QED BY <4>3, <4>4
    <3>3. CASE EndsStream
      <4> DEFINE e == ResultEntry(process_state', pos.frame_number)
      <4>1. f = Append(Filling, e) /\ e \in Entries /\ NumberOf(e) = pos.frame_number
        BY <1>4, <3>3, EntryTypes, Numbers DEF EndsStream
      <4>2. \A i \in 1 .. Len(f) : (i \in 1 .. n /\ f[i] = Filling[i]) \/ f[i] = e
        <5> HIDE DEF e, f
        <5> QED BY <1>3, <4>1, Appended
      <4>3. NumberOf(e) = pos.frame_number
        BY <4>1
      <4> HIDE DEF f, w, n, blk, e
      <4> QED BY <4>2, <4>3
    <3> QED BY <1>7, <3>1, <3>2, <3>3 DEF Grows
  <2> HIDE DEF f, w, n
  <2>6. ASSUME NEW j \in 0 .. Last', NEW i \in 1 .. Len(AheadAt(j)')
        PROVE  \/ j \in 0 .. Last /\ i \in 1 .. Len(AheadAt(j)) /\ AheadAt(j)'[i] = AheadAt(j)[i]
               \/ /\ j = Last
                  /\ pos.frame_number <= NumberOf(AheadAt(j)'[i])
                  /\ NumberOf(AheadAt(j)'[i]) <= pos'.frame_number
    BY <2>1, <2>2, <2>5, <2>6 DEF n, w
  <2> QED BY <2>1, <2>4, <2>6 DEF w
<1> QED
  <2>1. \/ Holds \/ (\E b : Sends(b)) \/ (Grows /\ queue' = queue)
    BY <1>1
  <2>2. Grows => queue' = queue
    <3>1. Grows => Filling' # <<>>
      <4>1. \A p, g : BlockEntry(pos.block_index + 1, pos.frame_number, policy) \in Entries
              /\ (p \in Nat => FrameEnd(p) \in Entries)
              /\ (g \in ProcessBlockStates => ResultEntry(g, pos.frame_number) \in Entries)
        BY <1>0, EntryTypes DEF TypeOK, Positions, FrameEnd, ProcessBlockStates
      <4> QED BY <1>3, <1>4, <4>1, Appended DEF Grows, ReadsOn, EndsFrame, EndsStream
    <3> QED BY <2>1, <3>1 DEF Holds, Sends
  <2> QED BY <1>3, <1>4, <1>5, <1>6, <1>7, <2>1, <2>2

-----------------------------------------------------------------------------
AllFrom(k, t) == \A j \in k .. Last : FromFrame(AheadAt(j), t)

NotReached(t) ==
  /\ pos.frame_number < t
  /\ \A j \in 0 .. Last : BelowFrame(AheadAt(j), t)

CrossedAt(c, t) ==
  /\ \A j \in 0 .. c - 1 : BelowFrame(AheadAt(j), t)
  /\ EndsBefore(AheadAt(c), t)
  /\ \A j \in c + 1 .. Last : FromFrame(AheadAt(j), t)
  /\ pos.frame_number >= t

RangeBegin == input.preload_begin
RangeEnd == input.preload_end

(* The processing thread is behind the end of the range by so many batches.   *)
Held(c) ==
  /\ preloading
  /\ \/ async_pc = "result" /\ c = Last
     \/ async_pc = "fence" /\ c = Last - 1
     \/ async_pc \in WaitLabels /\ c = Last - 2 /\ throttle_wait_target = enqueued_batch_index

BeginAhead == NotReached(RangeBegin) \/ \E c \in 0 .. Last : CrossedAt(c, RangeBegin)
EndAhead ==
  NotReached(RangeEnd) \/ \E c \in 0 .. Last : CrossedAt(c, RangeEnd) /\ Held(c)

ProducerStep ==
  /\ EveryStutterIsEarly /\ BatchesInv /\ BatchesInv'
  /\ AsyncStep \/ SpuriousWakeup
  /\ cursor \in Nat \ {0} /\ cursor' = cursor

LEMMA ProducerIsThere ==
  ASSUME ProducerStep
  PROVE  /\ async_pc # "exited"
         /\ Last \in Nat \ {0} /\ Last' \in Nat \ {0}
         /\ \A j \in 0 .. Last' : AheadAt(j)' \in Seq(Entries)
         /\ \A j \in 0 .. Last : AheadAt(j) \in Seq(Entries)
<1>0. TypeOK /\ TypeOK' /\ cursor \in Nat \ {0} /\ cursor' \in Nat \ {0}
  BY DEF ProducerStep, BatchesInv, IInv
<1>1. async_pc # "exited"
  BY DEF ProducerStep, AsyncStep, StartThread, TopOfLoop, MakeRoom, ReadBlock, StopReading,
     AddResult, Fence, ReadPending, LowWater, HighWater, BetweenWaters, WaitDone,
     NotYet, Block, Reacquire, WaitStep, BottomOfLoop, LastFlush, CloseQueue, SpuriousWakeup
<1>2. \A j \in 0 .. Last' : AheadAt(j)' \in Seq(Entries)
  <2>1. /\ batch' \in Seq(Entries) /\ Len(queue') \in Nat
        /\ \A i \in 1 .. Len(queue') : queue'[i] \in Batch
        /\ process_state' \in ProcessBlockStates /\ pos'.frame_number \in Nat
    BY <1>0 DEF TypeOK, Positions
  <2>2. \A c \in Batch : c.blocks \in Seq(Entries)
    BY DEF Batch
  <2>3. Filling' \in Seq(Entries)
    BY <2>1, EntryTypes, Appended DEF Filling
  <2>4. Rest' \in Seq(Entries)
    BY <1>0, AheadTypes, ProducerMoves, RestStays DEF ProducerStep
  <2>5. Last' = Len(queue') + 1
    BY DEF Last
  <2> QED BY <2>1, <2>2, <2>3, <2>4, <2>5 DEF AheadAt
<1> QED BY <1>0, <1>1, <1>2, AheadTypes DEF Last, TypeOK

LEMMA FromStep ==
  ASSUME ProducerStep, NEW t \in Nat, NEW k \in {0, 1}, AllFrom(k, t),
         pos.frame_number >= t \/ async_pc = "exited"
  PROVE  AllFrom(k, t)' /\ pos'.frame_number >= t
<1>1. pos.frame_number >= t
  BY ProducerIsThere
<1>2. pos.frame_number \in Nat /\ pos'.frame_number \in Nat /\ pos.frame_number <= pos'.frame_number
  BY AheadMoves DEF ProducerStep
<1>3. ASSUME NEW j \in k .. Last', NEW i \in 1 .. Len(AheadAt(j)')
      PROVE  AheadAt(j)'[i] = ContinueEntry \/ NumberOf(AheadAt(j)'[i]) >= t
  <2>0. j \in 0 .. Last' /\ Last \in Nat /\ Last' \in Nat
    BY ProducerIsThere
  <2>1. AheadAt(j)'[i] \in Entries
    BY <2>0, ProducerIsThere
  <2>2. NumberOf(AheadAt(j)'[i]) \in Nat \cup {NoFrame}
    BY <2>1, Numbers
  <2>3. \/ j \in 0 .. Last /\ i \in 1 .. Len(AheadAt(j)) /\ AheadAt(j)'[i] = AheadAt(j)[i]
        \/ AheadAt(j)'[i] = ContinueEntry
        \/ pos.frame_number <= NumberOf(AheadAt(j)'[i])
    BY <2>0, AheadMoves DEF ProducerStep
  <2>4. CASE j \in 0 .. Last /\ i \in 1 .. Len(AheadAt(j)) /\ AheadAt(j)'[i] = AheadAt(j)[i]
    <3>1. j \in k .. Last
      BY <2>0, <2>4
    <3> QED BY <2>4, <3>1 DEF AllFrom, FromFrame
  <2> QED BY <1>1, <1>2, <2>2, <2>3, <2>4 DEF NoFrame
<1> QED BY <1>1, <1>2, <1>3 DEF AllFrom, FromFrame

LEMMA CrossedStep ==
  ASSUME ProducerStep, NEW t \in Nat, NEW c \in 0 .. Last, CrossedAt(c, t), c # Last \/ ~Grows
  PROVE  CrossedAt(c, t)' /\ c \in 0 .. Last'
<1>0. /\ Last \in Nat \ {0} /\ Last' \in {Last, Last + 1} /\ c \in 0 .. Last'
      /\ pos.frame_number \in Nat /\ pos'.frame_number \in Nat
      /\ pos.frame_number <= pos'.frame_number
  BY ProducerIsThere, AheadMoves DEF ProducerStep
<1>1. AheadAt(c) # <<>>
  BY DEF CrossedAt, EndsBefore
<1>2. \A j \in 0 .. c : AheadAt(j)' = AheadAt(j)
  <2>1. \A j \in 0 .. Last :
          AheadAt(j)' = AheadAt(j) \/ (j = Last /\ (Grows \/ AheadAt(j) = <<>>))
    BY AheadMoves DEF ProducerStep
  <2>2. \A j \in 0 .. c : j \in 0 .. Last /\ (j = Last => c = Last)
    BY <1>0
  <2> QED BY <1>1, <2>1, <2>2
<1>3. ASSUME NEW j \in c + 1 .. Last', NEW i \in 1 .. Len(AheadAt(j)')
      PROVE  AheadAt(j)'[i] = ContinueEntry \/ NumberOf(AheadAt(j)'[i]) >= t
  <2>0. j \in 0 .. Last'
    BY <1>0
  <2>1. AheadAt(j)'[i] \in Entries
    BY <2>0, ProducerIsThere
  <2>2. NumberOf(AheadAt(j)'[i]) \in Nat \cup {NoFrame}
    BY <2>1, Numbers
  <2>3. \/ j \in 0 .. Last /\ i \in 1 .. Len(AheadAt(j)) /\ AheadAt(j)'[i] = AheadAt(j)[i]
        \/ AheadAt(j)'[i] = ContinueEntry
        \/ pos.frame_number <= NumberOf(AheadAt(j)'[i])
    BY <2>0, AheadMoves DEF ProducerStep
  <2>4. CASE j \in 0 .. Last /\ i \in 1 .. Len(AheadAt(j)) /\ AheadAt(j)'[i] = AheadAt(j)[i]
    <3>1. j \in c + 1 .. Last
      BY <1>0, <2>4
    <3> QED BY <2>4, <3>1 DEF CrossedAt, FromFrame
  <2>5. pos.frame_number >= t
    BY DEF CrossedAt
  <2> QED BY <1>0, <2>2, <2>3, <2>4, <2>5 DEF NoFrame
<1>4. /\ \A j \in 0 .. c - 1 : BelowFrame(AheadAt(j), t)'
      /\ EndsBefore(AheadAt(c), t)'
      /\ \A j \in c + 1 .. Last' : FromFrame(AheadAt(j), t)'
  <2>1. \A j \in 0 .. c - 1 : BelowFrame(AheadAt(j), t)'
    <3>1. \A j \in 0 .. c - 1 : j \in 0 .. c
      BY <1>0
    <3> QED BY <1>2, <3>1 DEF CrossedAt, BelowFrame
  <2>2. EndsBefore(AheadAt(c), t)'
    <3>1. c \in 0 .. c
      BY <1>0
    <3> QED BY <1>2, <3>1 DEF CrossedAt, EndsBefore
  <2>3. \A j \in c + 1 .. Last' : FromFrame(AheadAt(j), t)'
    BY <1>3 DEF FromFrame
  <2> QED BY <2>1, <2>2, <2>3
<1>5. pos'.frame_number >= t
  BY <1>0 DEF CrossedAt
<1> QED BY <1>0, <1>4, <1>5 DEF CrossedAt

(* The range is entered, and left, at the end of a frame.                     *)
LEMMA NotReachedStep ==
  ASSUME ProducerStep, NEW t \in Nat, NotReached(t)
  PROVE  \/ NotReached(t)'
         \/ /\ EndsFrame /\ pos.frame_number + 1 = t /\ Last' = Last /\ queue' = queue
            /\ \A c : c = Last => CrossedAt(c, t)'
<1>0. /\ Last \in Nat \ {0} /\ Last' \in {Last, Last + 1}
      /\ pos.frame_number \in Nat /\ pos'.frame_number \in Nat
      /\ pos.frame_number <= pos'.frame_number /\ pos.frame_number < t
      /\ TypeOK
  BY ProducerIsThere, AheadMoves DEF ProducerStep, NotReached, BatchesInv, IInv
<1>1. ASSUME NEW j \in 0 .. Last, NEW i \in 1 .. Len(AheadAt(j))
      PROVE  NumberOf(AheadAt(j)[i]) < t
  BY DEF NotReached, BelowFrame
<1>2. ASSUME NEW j \in 0 .. Last', NEW i \in 1 .. Len(AheadAt(j)'),
             pos'.frame_number < t \/ j # Last \/ ~Grows
      PROVE  NumberOf(AheadAt(j)'[i]) < t
  <2>1. AheadAt(j)'[i] \in Entries
    BY ProducerIsThere
  <2>2. NumberOf(AheadAt(j)'[i]) \in Nat \cup {NoFrame}
    BY <2>1, Numbers
  <2>3. \/ j \in 0 .. Last /\ i \in 1 .. Len(AheadAt(j)) /\ AheadAt(j)'[i] = AheadAt(j)[i]
        \/ AheadAt(j)'[i] = ContinueEntry
        \/ Grows /\ j = Last /\ NumberOf(AheadAt(j)'[i]) <= pos'.frame_number
    BY AheadMoves DEF ProducerStep
  <2>4. NumberOf(ContinueEntry) < t
    BY Numbers DEF NoFrame
  <2> QED BY <1>0, <1>1, <1>2, <2>2, <2>3, <2>4 DEF NoFrame
<1>3. CASE pos'.frame_number < t
  BY <1>2, <1>3 DEF NotReached, BelowFrame
<1>4. CASE ~(pos'.frame_number < t)
  <2>1. EndsFrame /\ pos'.frame_number = t /\ pos.frame_number + 1 = t
        /\ queue' = queue /\ Last' = Last
    <3>1. Holds \/ (\E b : Sends(b)) \/ ReadsOn \/ EndsStream =>
            pos'.frame_number = pos.frame_number
      BY DEF Holds, Sends, ReadsOn, EndsStream
    <3>2. EndsFrame /\ queue' = queue /\ Last' = Last
      <4>1. EndsFrame
        BY <1>0, <1>4, <3>1, ProducerMoves DEF ProducerStep
      <4> QED BY <4>1, AheadMoves DEF ProducerStep, Grows
    <3> QED BY <1>0, <1>4, <3>2 DEF EndsFrame
  <2>2. \A j \in 0 .. Last - 1 : BelowFrame(AheadAt(j), t)'
    <3>1. \A j \in 0 .. Last - 1 : j \in 0 .. Last' /\ j # Last
      BY <1>0, <2>1
    <3> QED BY <1>2, <3>1 DEF BelowFrame
  <2>3. EndsBefore(Filling', t)
    <3> DEFINE blk == BlockEntry(pos.block_index + 1, pos.frame_number, policy)
               g == Append(Filling, blk)
               f == Filling'
    <3>1. blk \in Entries /\ NumberOf(blk) = pos.frame_number
      <4>1. pos.block_index + 1 \in Nat /\ pos.frame_number \in Nat /\ policy \in Policies
        BY <1>0 DEF TypeOK, Positions
      <4> QED BY <4>1, EntryTypes, Numbers
    <3>2. f = Append(g, FrameEnd(t)) /\ FrameEnd(t) \in Entries
      BY <2>1, EntryTypes DEF EndsFrame, FrameEnd, ProcessBlockStates
    <3>3. Filling \in Seq(Entries) /\ \A i \in 1 .. Len(Filling) : NumberOf(Filling[i]) < t
      <4>1. Filling = AheadAt(Last) /\ Last \in 0 .. Last /\ Filling \in Seq(Entries)
        BY <1>0, AheadTypes DEF ProducerStep
      <4> QED BY <1>1, <4>1
    <3> HIDE DEF blk, f
    <3>4. /\ g \in Seq(Entries) /\ Len(g) \in Nat
          /\ \A i \in 1 .. Len(g) : NumberOf(g[i]) < t
      <4>1. /\ g \in Seq(Entries) /\ Len(g) = Len(Filling) + 1 /\ g[Len(Filling) + 1] = blk
            /\ \A i \in 1 .. Len(Filling) : g[i] = Filling[i]
            /\ Len(Filling) \in Nat
        BY <3>1, <3>3, Appended
      <4>2. NumberOf(blk) < t
        BY <1>0, <3>1
      <4> HIDE DEF g
      <4>3. \A i \in 1 .. Len(g) : i \in 1 .. Len(Filling) \/ i = Len(Filling) + 1
        BY <4>1
      <4> QED BY <3>3, <4>1, <4>2, <4>3
    <3> HIDE DEF g
    <3>5. /\ Len(f) = Len(g) + 1 /\ f[Len(g) + 1] = FrameEnd(t) /\ f # <<>>
          /\ \A i \in 1 .. Len(g) : f[i] = g[i]
      BY <3>2, <3>4, Appended
    <3>6. EndsBefore(f, t)
      <4>1. Len(f) - 1 = Len(g) /\ f[Len(f)] = FrameEnd(t)
        BY <3>4, <3>5
      <4> QED BY <3>4, <3>5, <4>1 DEF EndsBefore
    <3> QED BY <3>6 DEF f
  <2>4. ASSUME NEW c, c = Last PROVE CrossedAt(c, t)'
    <3>1. c = Last' /\ Last' # 0
      BY <1>0, <2>1, <2>4
    <3>2. EndsBefore(AheadAt(c), t)'
      BY <2>3, <3>1 DEF AheadAt, EndsBefore
    <3>3. \A j \in c + 1 .. Last' : FALSE
      BY <1>0, <2>1, <3>1
    <3> QED BY <1>0, <2>1, <2>2, <2>4, <3>2, <3>3 DEF CrossedAt
  <2> QED BY <2>1, <2>4
<1> QED BY <1>3, <1>4

-----------------------------------------------------------------------------
(* The producer at the two ends of the range.                                *)

(* The preload range of the inputs.                                          *)
LEMMA RangeTypes ==
  ASSUME input \in Inputs
  PROVE  RangeBegin \in Nat /\ RangeEnd \in Nat
BY InputAssumption DEF RangeBegin, RangeEnd

(* Behind the range it flushes, and waits.                                    *)
LEMMA HeldStep ==
  ASSUME ProducerStep, keep_alive \/ dispatch_pc = "launch",
         NEW c \in 0 .. Last, Held(c), pos.frame_number >= RangeEnd
  PROVE  Held(c)' /\ ~Grows
<1>0. /\ TypeOK /\ TagsAccountForBatches /\ LaunchStartsIt
      /\ Len(queue) \in Nat /\ Last = Len(queue) + 1 /\ Last' = Len(queue') + 1
      /\ AsyncStep \/ SpuriousWakeup
      /\ input \in Inputs /\ pos.frame_number \in Nat
  BY DEF ProducerStep, BatchesInv, IInv, TypeOK, Last, Positions
<1>1. ~Grows
  BY DEF Held, Grows, ReadsOn, EndsFrame, EndsStream, Reading, WaitLabels
<1>2. \A b \in Seq(Entries) : b # <<>> /\ Flush(b) => Last' = Last + 1 /\ enqueued_batch_index' = enqueued_batch_index + 1
  <2>1. ASSUME NEW b \in Seq(Entries), b # <<>>, Flush(b)
        PROVE  Last' = Last + 1 /\ enqueued_batch_index' = enqueued_batch_index + 1
    <3>1. /\ queue' = Append(queue, [tag |-> enqueued_batch_index + 1, blocks |-> b])
          /\ enqueued_batch_index' = enqueued_batch_index + 1
      BY <2>1 DEF Flush, Queue!Push
    <3>2. Len(queue') = Len(queue) + 1
      BY <1>0, <3>1 DEF TypeOK
    <3> QED BY <1>0, <3>1, <3>2
  <2> QED BY <2>1
<1>3. CASE async_pc = "result" /\ c = Last
  <2>1. AddResult
    BY <1>0, <1>3 DEF AsyncStep, StartThread, TopOfLoop, MakeRoom, ReadBlock, StopReading,
      Fence, ReadPending, LowWater, HighWater, BetweenWaters, WaitDone,
      NotYet, Block, Reacquire, WaitStep, BottomOfLoop, LastFlush, CloseQueue, SpuriousWakeup
  <2>2. preloading /\ ~InPreloadRange(pos.frame_number)
    BY <1>0, RangeTypes DEF Held, InPreloadRange, RangeEnd
  <2>3. /\ Flush(Append(batch, ResultEntry(process_state, pos.frame_number)))
        /\ async_pc' = "fence" /\ preloading'
    BY <2>1, <2>2 DEF AddResult, GoAsync
  <2>4. /\ Append(batch, ResultEntry(process_state, pos.frame_number)) \in Seq(Entries)
        /\ Append(batch, ResultEntry(process_state, pos.frame_number)) # <<>>
    BY <1>0, EntryTypes, Appended DEF TypeOK
  <2>5. Last' = Last + 1
    BY <1>2, <2>3, <2>4
  <2>6. c = Last' - 1
    BY <1>0, <1>3, <2>5
  <2> QED BY <1>1, <2>3, <2>6 DEF Held
<1>4. CASE async_pc = "fence" /\ c = Last - 1
  <2>1. Fence
    BY <1>0, <1>4 DEF AsyncStep, StartThread, TopOfLoop, MakeRoom, ReadBlock, StopReading,
      AddResult, ReadPending, LowWater, HighWater, BetweenWaters, WaitDone,
      NotYet, Block, Reacquire, WaitStep, BottomOfLoop, LastFlush, CloseQueue, SpuriousWakeup
  <2>2. /\ Flush(Append(batch, ContinueEntry)) /\ throttle_wait_target' = enqueued_batch_index'
        /\ async_pc' = "wait_test" /\ preloading' = preloading
    BY <2>1 DEF Fence, GoAsync
  <2>3. Append(batch, ContinueEntry) \in Seq(Entries) /\ Append(batch, ContinueEntry) # <<>>
    BY <1>0, EntryTypes, Appended DEF TypeOK
  <2>4. Last' = Last + 1
    BY <1>2, <2>2, <2>3
  <2>5. c = Last' - 2
    BY <1>0, <1>4, <2>4
  <2> QED BY <1>1, <2>2, <2>5 DEF Held, WaitLabels
<1>5. CASE async_pc \in WaitLabels /\ c = Last - 2 /\ throttle_wait_target = enqueued_batch_index
  <2>1. Len(queue) >= 1
    BY <1>0, <1>5
  <2>2. last_dequeued_batch < throttle_wait_target
    BY <1>0, <1>5, <2>1 DEF TagsAccountForBatches, InFlight, TypeOK
  <2>3. ~CaughtUp
    <3>1. last_dequeued_batch \in Nat /\ throttle_wait_target \in Nat
      BY <1>0 DEF TypeOK
    <3>2. dispatch_pc # "launch"
      BY <1>0, <1>5 DEF LaunchStartsIt, WaitLabels
    <3> QED BY <2>2, <3>1, <3>2 DEF CaughtUp
  <2>4. NotYet \/ Block \/ Reacquire \/ SpuriousWakeup
    BY <1>0, <1>5, <2>3 DEF WaitLabels, AsyncStep, StartThread, TopOfLoop, MakeRoom, ReadBlock,
      StopReading, AddResult, Fence, ReadPending, LowWater, HighWater, BetweenWaters, WaitDone,
      BottomOfLoop, LastFlush, CloseQueue
  <2>5. /\ async_pc' \in WaitLabels
        /\ UNCHANGED <<queue, preloading, throttle_wait_target, enqueued_batch_index>>
    BY <2>4 DEF NotYet, Block, Reacquire, SpuriousWakeup, WaitStep, GoAsync, WaitLabels, queue_vars
  <2>6. Last' = Last
    BY <2>5 DEF Last
  <2> QED BY <1>1, <1>5, <2>5, <2>6 DEF Held
<1> QED BY <1>3, <1>4, <1>5 DEF Held

(* The end of the range: the frame that ends there was preloaded, and the     *)
(* processing thread comes to the fence with it.                              *)
LEMMA EndAheadStep ==
  ASSUME ProducerStep, keep_alive \/ dispatch_pc = "launch", RangeBegin < RangeEnd, EndAhead
  PROVE  EndAhead'
<1>0. /\ TypeOK /\ PreloadInv /\ input \in Inputs /\ RangeBegin \in Nat /\ RangeEnd \in Nat
      /\ pos.frame_number \in Nat
      /\ AsyncStep \/ SpuriousWakeup
      /\ RangeEnd' = RangeEnd /\ Last \in Nat \ {0}
  <2>1. /\ TypeOK /\ PreloadInv /\ input \in Inputs /\ pos.frame_number \in Nat
        /\ AsyncStep \/ SpuriousWakeup
    BY DEF ProducerStep, BatchesInv, IInv, TypeOK, Positions
  <2>2. input' = input
    BY ProducerMoves DEF ProducerStep
  <2> QED BY <2>1, <2>2, RangeTypes, ProducerIsThere DEF RangeEnd
<1>1. CASE NotReached(RangeEnd)
  <2>1. NotReached(RangeEnd)' \/ (EndsFrame /\ pos.frame_number + 1 = RangeEnd /\ Last' = Last
           /\ \A c : c = Last => CrossedAt(c, RangeEnd)')
    <3>1. \A t \in Nat : NotReached(t) => 
             \/ NotReached(t)'
             \/ /\ EndsFrame /\ pos.frame_number + 1 = t /\ Last' = Last /\ queue' = queue
                /\ \A c : c = Last => CrossedAt(c, t)'
      BY NotReachedStep
    <3> QED BY <1>0, <1>1, <3>1
  <2>2. CASE NotReached(RangeEnd)'
    BY <2>2 DEF EndAhead
  <2>3. ASSUME EndsFrame, pos.frame_number + 1 = RangeEnd, Last' = Last,
               NEW c, c = Last, CrossedAt(c, RangeEnd)'
        PROVE  EndAhead'
    <3>1. async_pc \in Reading /\ async_pc' = "result" /\ ReadBlock
      BY <1>0, <2>3 DEF EndsFrame, Reading, AsyncStep, StartThread, TopOfLoop, MakeRoom,
        StopReading, AddResult, Fence, ReadPending, LowWater, HighWater, BetweenWaters, WaitDone,
        NotYet, Block, Reacquire, WaitStep, BottomOfLoop, LastFlush, CloseQueue, SpuriousWakeup,
        GoAsync, StopState, Stops
    <3>2. preloading <=> AtPreloaded
      BY <1>0, <3>1 DEF PreloadInv, Reading
    <3>3. AtPreloaded
      <4>1. RangeBegin <= pos.frame_number /\ pos.frame_number < RangeEnd
        BY <1>0, <2>3
      <4> QED BY <4>1 DEF AtPreloaded, InPreloadRange, RangeBegin, RangeEnd
    <3>4. preloading'
      BY <3>1, <3>2, <3>3 DEF ReadBlock
    <3>5. Held(c)' /\ c \in 0 .. Last'
      BY <1>0, <2>3, <3>1, <3>4 DEF Held
    <3> QED BY <2>3, <3>5 DEF EndAhead
  <2> QED BY <2>1, <2>2, <2>3
<1>2. ASSUME NEW c \in 0 .. Last, CrossedAt(c, RangeEnd), Held(c) PROVE EndAhead'
  <2>1. pos.frame_number >= RangeEnd
    BY <1>2 DEF CrossedAt
  <2>2. Held(c)' /\ ~Grows
    BY <1>2, <2>1, HeldStep
  <2>3. CrossedAt(c, RangeEnd)' /\ c \in 0 .. Last'
    <3>1. \A t \in Nat : CrossedAt(c, t) => CrossedAt(c, t)' /\ c \in 0 .. Last'
      BY <1>2, <2>2, CrossedStep
    <3> QED BY <1>0, <1>2, <3>1
  <2> QED BY <2>2, <2>3 DEF EndAhead
<1> QED BY <1>1, <1>2 DEF EndAhead

-----------------------------------------------------------------------------
(* The entries of the batches.                                               *)

(* Reading is over.                                                          *)
AfterResult == {"fence", "throttle", "act", "bottom"} \cup WaitLabels
NoMoreFrames ==
  \/ async_pc \in {"last_flush", "close", "exited"}
  \/ /\ async_pc \in AfterResult
     /\ \/ ~ContinueProcessing(process_state)
        \/ pos.frame_number >= input.quit_before_frame
        \/ ~keep_alive

EndsReading(e) ==
  /\ IsResult(e)
  /\ \/ ~ContinueProcessing(e.state)
     \/ e.state = "kFrameBoundary" /\ e.next_frame >= input.quit_before_frame

EndsAreLast ==
  \A b \in LiveBatches : \A i \in 1 .. Len(b) : EndsReading(b[i]) => NoMoreFrames

Frames == Len(input.capture.blocks)
FramesCounted ==
  /\ pos.frame_number <= pos.block_index
  /\ \A b \in LiveBatches : \A i \in 1 .. Len(b) : NumberOf(b[i]) <= Frames

(* The number of the first frame of the range is at the tail of its batch.    *)
BeginEndsBatch ==
  /\ \A b \in LiveBatches : \A i \in 1 .. Len(b) - 1 : b[i] # FrameEnd(RangeBegin)
  /\ async_pc \in Reading \cup {"result"} /\ batch # <<>> =>
       batch[Len(batch)] # FrameEnd(RangeBegin)
  /\ \A n : batch # <<>> /\ batch[Len(batch)] = FrameEnd(n) => n = pos.frame_number

(* What a step of the producer does to its batch: nothing, or one entry is    *)
(* added, and what is there may be sent.                                      *)
NothingAdded(s) ==
  /\ s = batch /\ pos' = pos
  /\ async_pc' \in Reading \cup {"result"} /\ batch' # <<>> =>
       \/ async_pc \in Reading
       \/ async_pc = "top" /\ ~(pos.frame_number = RangeBegin /\ AtPreloaded)
SignalAdded(s) ==
  /\ batch = <<>> /\ s = Append(batch, ContinueEntry) /\ batch' = <<>> /\ pos' = pos
BlockAdded(s) ==
  /\ ReadBlock /\ batch' = s
  /\ s = Append(batch, BlockEntry(pos.block_index + 1, pos.frame_number, policy))
ResultAdded(s) ==
  /\ async_pc = "result" /\ async_pc' \in {"fence", "bottom", "throttle"}
  /\ UNCHANGED <<pos, process_state>>
  /\ s = Append(batch, ResultEntry(process_state, pos.frame_number))

LEMMA BatchChange ==
  ASSUME BatchesInv, AsyncStep \/ SpuriousWakeup
  PROVE  \E s \in Seq(Entries) :
           /\ batch' \in {s, <<>>}
           /\ \A b \in LiveBatches' : b \in LiveBatches \/ b = s \/ b = <<>>
           /\ NothingAdded(s) \/ SignalAdded(s) \/ BlockAdded(s) \/ ResultAdded(s)
<1>0. /\ TypeOK /\ PreloadInv /\ batch \in Seq(Entries)
      /\ Append(batch, ContinueEntry) \in Seq(Entries)
      /\ Append(batch, ResultEntry(process_state, pos.frame_number)) \in Seq(Entries)
      /\ Append(batch, BlockEntry(pos.block_index + 1, pos.frame_number, policy)) \in Seq(Entries)
  BY AppendTypes DEF BatchesInv, IInv, TypeOK
<1>1. \A s \in Seq(Entries) : Flush(s) \/ Keep(s) =>
        /\ batch' \in {s, <<>>}
        /\ \A b \in LiveBatches' : b \in LiveBatches \/ b = s \/ b = <<>>
  BY <1>0, FlushedBatches
<1>2. CASE ReadBlock
  <2> DEFINE s == Append(batch, BlockEntry(pos.block_index + 1, pos.frame_number, policy))
  <2>1. Keep(s) /\ batch' = s
    BY <1>2 DEF ReadBlock, Keep
  <2>2. BlockAdded(s)
    BY <1>2, <2>1 DEF BlockAdded
  <2> QED BY <1>0, <1>1, <2>1, <2>2
<1>3. CASE StartThread \/ Fence
  <2> DEFINE s == Append(batch, ContinueEntry)
  <2>1. batch = <<>> /\ Flush(s) /\ pos' = pos
    BY <1>0, <1>3 DEF PreloadInv, StartThread, Fence
  <2>2. batch' = <<>>
    BY <2>1 DEF Flush
  <2>3. SignalAdded(s)
    BY <2>1, <2>2 DEF SignalAdded
  <2> QED BY <1>0, <1>1, <2>1, <2>3
<1>4. CASE AddResult
  <2> DEFINE s == Append(batch, ResultEntry(process_state, pos.frame_number))
  <2>1. (Flush(s) \/ Keep(s)) /\ ResultAdded(s)
    BY <1>4 DEF AddResult, ResultAdded, GoAsync
  <2> QED BY <1>0, <1>1, <2>1
<1>5. CASE \/ TopOfLoop \/ MakeRoom \/ StopReading \/ LowWater \/ BetweenWaters
           \/ WaitDone \/ LastFlush
  <2>1. (Flush(batch) \/ Keep(batch)) /\ pos' = pos
    BY <1>5 DEF TopOfLoop, MakeRoom, StopReading, LowWater, BetweenWaters, WaitDone, LastFlush
  <2>2. CASE TopOfLoop
    <3>1. pos.frame_number = RangeBegin /\ AtPreloaded => batch' = <<>>
      BY <2>2 DEF TopOfLoop, RangeBegin, AtPreloaded, Flush
    <3> QED BY <1>0, <1>1, <2>1, <2>2, <3>1 DEF NothingAdded, TopOfLoop
  <2>3. CASE MakeRoom \/ StopReading
    BY <1>0, <1>1, <2>1, <2>3 DEF NothingAdded, MakeRoom, StopReading, Reading
  <2>4. CASE LowWater \/ BetweenWaters \/ WaitDone \/ LastFlush
    <3>1. async_pc' \notin Reading \cup {"result"}
      BY <2>4 DEF LowWater, BetweenWaters, WaitDone, LastFlush, GoAsync, Reading
    <3> QED BY <1>0, <1>1, <2>1, <3>1 DEF NothingAdded
  <2> QED BY <1>5, <2>2, <2>3, <2>4
<1>6. CASE \/ ReadPending \/ HighWater \/ NotYet \/ Block \/ Reacquire \/ SpuriousWakeup
           \/ BottomOfLoop \/ CloseQueue
  <2>1. UNCHANGED <<batch, queue, got, pos>>
    BY <1>6 DEF ReadPending, HighWater, NotYet, Block, Reacquire, SpuriousWakeup, WaitStep,
       BottomOfLoop, CloseQueue, Queue!Close, reader_vars, queue_vars
  <2>2. async_pc' \notin Reading \cup {"result"}
    BY <1>6 DEF ReadPending, HighWater, NotYet, Block, Reacquire, SpuriousWakeup, WaitStep,
       BottomOfLoop, CloseQueue, GoAsync, Reading
  <2>3. \A b \in LiveBatches' : b \in LiveBatches
    BY <2>1 DEF LiveBatches
  <2> QED BY <1>0, <2>1, <2>2, <2>3 DEF NothingAdded
<1> QED BY <1>2, <1>3, <1>4, <1>5, <1>6 DEF AsyncStep

LEMMA ReadingIsOver ==
  ASSUME BatchesInv, NoMoreFrames, Next
  PROVE  NoMoreFrames'
<1>0. /\ LaunchStartsIt /\ input' = input
  BY PositionMoves DEF BatchesInv
<1> USE DEF WaitLabels, AfterResult
<1>1. CASE AsyncStep \/ SpuriousWakeup
  <2>1. CASE async_pc \in {"last_flush", "close", "exited"}
    <3>1. LastFlush \/ CloseQueue
      BY <1>1, <2>1 DEF AsyncStep, StartThread, TopOfLoop, MakeRoom, ReadBlock,
        StopReading, AddResult, Fence, ReadPending, LowWater, HighWater, BetweenWaters, WaitDone,
        NotYet, Block, Reacquire, WaitStep, BottomOfLoop, SpuriousWakeup
    <3> QED BY <3>1 DEF LastFlush, CloseQueue, GoAsync, NoMoreFrames
  <2>2. CASE BottomOfLoop
    <3>1. async_pc' = "last_flush"
      <4>1. pos.frame_number \in Nat /\ input.quit_before_frame \in Nat
        BY InputAssumption DEF BatchesInv, IInv, TypeOK, Positions
      <4> QED BY <2>2, <4>1 DEF BottomOfLoop, NoMoreFrames, GoAsync
    <3> QED BY <3>1 DEF NoMoreFrames
  <2>3. CASE async_pc \in AfterResult /\ ~BottomOfLoop
    <3>1. \/ Fence \/ ReadPending \/ LowWater \/ HighWater \/ BetweenWaters \/ WaitDone
          \/ NotYet \/ Block \/ Reacquire \/ SpuriousWakeup
      BY <1>1, <2>3 DEF AsyncStep, StartThread, TopOfLoop, MakeRoom, ReadBlock,
        StopReading, AddResult, LastFlush, CloseQueue
    <3>2. async_pc' \in AfterResult /\ UNCHANGED <<pos, process_state, keep_alive>>
      BY <3>1 DEF Fence, ReadPending, LowWater, HighWater, BetweenWaters, WaitDone,
        NotYet, Block, Reacquire, WaitStep, SpuriousWakeup, GoAsync, dispatch_vars, reader_vars
    <3>3. NoMoreFrames => ~ContinueProcessing(process_state)
            \/ pos.frame_number >= input.quit_before_frame \/ ~keep_alive
      BY <2>3 DEF NoMoreFrames
    <3> QED BY <1>0, <3>2, <3>3 DEF NoMoreFrames
  <2> QED BY <2>1, <2>2, <2>3 DEF NoMoreFrames
<1>2. CASE DispatchStep \/ Advance \/ Destroy \/ UNCHANGED vars
  <2>1. UNCHANGED <<pos, process_state>>
    BY <1>2 DEF DispatchStep, LaunchAsyncThread, Advance, PopBatch, PopEnd, StoreDequeued,
      NotifyDequeued, Destroy, DestroyNotify, Join, vars, reader_vars, async_vars
  <2>2. keep_alive' = keep_alive \/ keep_alive' = FALSE
    BY <1>0, <1>2 DEF NoMoreFrames, LaunchStartsIt, DispatchStep, LaunchAsyncThread, Advance,
      PopBatch, PopEnd, StoreDequeued, NotifyDequeued, Destroy, DestroyNotify, Join, vars,
      dispatch_vars
  <2>3. async_pc' = async_pc \/ (async_pc = "waiting" /\ async_pc' = "woken")
    BY <1>0, <1>2 DEF NoMoreFrames, LaunchStartsIt, DispatchStep, LaunchAsyncThread, Advance,
      PopBatch, PopEnd, StoreDequeued, NotifyDequeued, Destroy, DestroyNotify, Join, vars,
      NotifyThrottle
  <2> QED BY <1>0, <2>1, <2>2, <2>3 DEF NoMoreFrames
<1> QED BY <1>1, <1>2 DEF Next, Finished

(* The entries of the batches after a step: old ones, and one that is new.    *)
LEMMA EntriesChange ==
  ASSUME BatchesInv, AsyncStep \/ SpuriousWakeup,
         NEW b \in LiveBatches', NEW i \in 1 .. Len(b)
  PROVE  \/ \E d \in LiveBatches : \E k \in 1 .. Len(d) : b[i] = d[k]
         \/ b[i] = ContinueEntry
         \/ ReadBlock /\ b[i] = BlockEntry(pos.block_index + 1, pos.frame_number, policy)
         \/ /\ ResultAdded(Append(batch, b[i]))
            /\ b[i] = ResultEntry(process_state, pos.frame_number)
<1>0. batch \in LiveBatches /\ TypeOK /\ batch \in Seq(Entries)
  BY DEF LiveBatches, BatchesInv, IInv, TypeOK
<1>1. PICK s \in Seq(Entries) :
           /\ batch' \in {s, <<>>}
           /\ \A d \in LiveBatches' : d \in LiveBatches \/ d = s \/ d = <<>>
           /\ NothingAdded(s) \/ SignalAdded(s) \/ BlockAdded(s) \/ ResultAdded(s)
  BY BatchChange
<1>2. b # <<>>
  OBVIOUS
<1>3. ASSUME NEW e \in Entries, s = Append(batch, e), b = s
      PROVE  (\E d \in LiveBatches : \E k \in 1 .. Len(d) : b[i] = d[k]) \/ b[i] = e
  <2>1. /\ Len(s) = Len(batch) + 1 /\ s[Len(batch) + 1] = e /\ Len(batch) \in Nat
        /\ \A k \in 1 .. Len(batch) : s[k] = batch[k]
    BY <1>0, <1>3, Appended
  <2>2. i \in 1 .. Len(batch) \/ i = Len(batch) + 1
    BY <1>3, <2>1
  <2> QED BY <1>0, <1>3, <2>1, <2>2
<1>4. CASE b \in LiveBatches
  BY <1>4
<1>5. CASE b = s
  <2>1. CASE NothingAdded(s)
    BY <1>0, <1>5, <2>1 DEF NothingAdded
  <2>2. CASE SignalAdded(s)
    BY <1>3, <1>5, <2>2, EntryTypes DEF SignalAdded
  <2>3. CASE BlockAdded(s)
    <3>1. BlockEntry(pos.block_index + 1, pos.frame_number, policy) \in Entries
      BY <1>0, EntryTypes DEF TypeOK, Positions
    <3> QED BY <1>3, <1>5, <2>3, <3>1 DEF BlockAdded
  <2>4. CASE ResultAdded(s)
    <3>1. ResultEntry(process_state, pos.frame_number) \in Entries
      BY <1>0, EntryTypes DEF TypeOK, Positions
    <3>2. (\E d \in LiveBatches : \E k \in 1 .. Len(d) : b[i] = d[k])
             \/ b[i] = ResultEntry(process_state, pos.frame_number)
      BY <1>3, <1>5, <2>4, <3>1 DEF ResultAdded
    <3> QED BY <2>4, <3>2 DEF ResultAdded
  <2> QED BY <1>1, <2>1, <2>2, <2>3, <2>4
<1> QED BY <1>1, <1>2, <1>4, <1>5

LEMMA EndsAreLastStep ==
  ASSUME BatchesInv, EndsAreLast, Next
  PROVE  EndsAreLast'
<1>0. /\ TypeOK /\ input' = input
  BY PositionMoves DEF BatchesInv, IInv
<1>1. \A e : EndsReading(e)' <=> EndsReading(e)
  BY <1>0 DEF EndsReading
<1>2. CASE AsyncStep \/ SpuriousWakeup
  <2> SUFFICES ASSUME NEW b \in LiveBatches', NEW i \in 1 .. Len(b), EndsReading(b[i])
               PROVE  NoMoreFrames'
    BY <1>1 DEF EndsAreLast
  <2>1. CASE \E d \in LiveBatches : \E k \in 1 .. Len(d) : b[i] = d[k]
    BY <2>1, ReadingIsOver DEF EndsAreLast
  <2>2. ~(b[i] = ContinueEntry)
    BY EntryKinds DEF EndsReading, ContinueEntry, ContinueProcessing
  <2>3. ~(b[i] = BlockEntry(pos.block_index + 1, pos.frame_number, policy))
    BY EntryKinds DEF EndsReading
  <2>4. CASE /\ ResultAdded(Append(batch, b[i]))
             /\ b[i] = ResultEntry(process_state, pos.frame_number)
    <3>1. /\ async_pc' \in AfterResult /\ UNCHANGED <<pos, process_state>>
      BY <2>4 DEF ResultAdded, AfterResult
    <3>2. b[i].state = process_state /\ b[i].next_frame = pos.frame_number
      BY <2>4, EntryKinds
    <3>3. ~ContinueProcessing(process_state) \/ pos.frame_number >= input.quit_before_frame
      BY <3>2 DEF EndsReading
    <3> QED BY <1>0, <3>1, <3>3 DEF NoMoreFrames
  <2> QED BY <1>2, <2>1, <2>2, <2>3, <2>4, EntriesChange
<1>3. CASE DispatchStep \/ Advance \/ Destroy \/ UNCHANGED vars
  <2>1. \A b \in LiveBatches' : b \in LiveBatches
    BY <1>0, <1>3, DispatchedBatches
  <2>2. NoMoreFrames => NoMoreFrames'
    BY ReadingIsOver
  <2> QED BY <1>1, <2>1, <2>2 DEF EndsAreLast
<1> QED BY <1>2, <1>3 DEF Next, Finished

LEMMA FramesCountedStep ==
  ASSUME EveryStutterIsEarly, BatchesInv, FramesCounted, Next
  PROVE  FramesCounted' /\ Frames' = Frames /\ pos.frame_number <= Frames
<1>0. /\ TypeOK /\ input' = input /\ CountsPresents(input.capture, pos)
      /\ input.capture \in Captures /\ FirstMarkerIsEarly(input.capture)
  BY PositionMoves, InputAssumption DEF BatchesInv, IInv, FramesArePresents, TypeOK, EveryStutterIsEarly
<1>1. /\ pos.frame_number \in Nat /\ pos.block_index \in Nat /\ Frames \in Nat
      /\ pos.block_index <= Frames
      /\ pos.frame_number <= Frames
  <2>1. pos.frame_number \in Nat /\ pos.block_index \in Nat /\ Frames \in Nat
    BY <1>0 DEF TypeOK, Positions, Captures, Frames
  <2>2. pos.block_index <= Frames /\ pos.frame_number <= pos.block_index
    BY <1>0 DEF CountsPresents, FramesCounted, Frames
  <2> QED BY <2>1, <2>2
<1>2. Frames' = Frames
  BY <1>0 DEF Frames
<1>3. pos'.frame_number <= pos'.block_index
  <2>1. CASE pos' = pos
    BY <2>1 DEF FramesCounted
  <2>2. CASE ReadBlock
    <3> DEFINE kind == NextKind(input.capture, pos)
               q == AfterBlock(pos, kind)
    <3>1. pos' = q
      BY <2>2 DEF ReadBlock
    <3>2. pos \in Positions /\ pos.block_index + 1 <= Len(input.capture.blocks)
      BY <1>0, <2>2, BlockIsThere
    <3>3. q.frame_number \in {pos.frame_number, pos.frame_number + 1, 1}
      <4>1. IF IsFrameDelimiter(pos, kind)
              THEN \/ q.frame_number = pos.frame_number + 1
                   \/ q.frame_number = 1 /\ (FirstMarkerIsEarly(input.capture) => pos.frame_number = 1)
              ELSE q.frame_number = pos.frame_number
        BY <1>0, <3>2, NextFrameNumber
      <4> QED BY <4>1
    <3>4. q.block_index = pos.block_index + 1
      BY <3>2, AfterBlockFields
    <3> HIDE DEF q
    <3> QED BY <1>1, <3>1, <3>3, <3>4 DEF FramesCounted
  <2> QED BY <2>1, <2>2, PositionMoves
<1>4. ASSUME NEW b \in LiveBatches', NEW i \in 1 .. Len(b)
      PROVE  NumberOf(b[i]) <= Frames
  <2>1. CASE \E d \in LiveBatches : \E k \in 1 .. Len(d) : b[i] = d[k]
    BY <2>1 DEF FramesCounted
  <2>2. CASE b[i] = ContinueEntry
    BY <1>1, <2>2, Numbers DEF NoFrame
  <2>3. CASE b[i] = BlockEntry(pos.block_index + 1, pos.frame_number, policy)
    BY <1>1, <2>3, Numbers
  <2>4. CASE b[i] = ResultEntry(process_state, pos.frame_number)
    BY <1>1, <2>4, Numbers
  <2>5. CASE AsyncStep \/ SpuriousWakeup
    BY <2>1, <2>2, <2>3, <2>4, <2>5, EntriesChange
  <2>6. CASE DispatchStep \/ Advance \/ Destroy \/ UNCHANGED vars
    BY <1>0, <2>1, <2>6, DispatchedBatches
  <2> QED BY <2>5, <2>6 DEF Next, Finished
<1> QED BY <1>1, <1>2, <1>3, <1>4 DEF FramesCounted

LEMMA BeginEndsBatchStep ==
  ASSUME BatchesInv, BeginEndsBatch, Next, RangeBegin < RangeEnd
  PROVE  BeginEndsBatch'
<1>0. /\ TypeOK /\ input' = input /\ batch \in Seq(Entries) /\ PreloadInv
      /\ RangeBegin' = RangeBegin /\ RangeBegin \in Nat /\ RangeEnd \in Nat
      /\ batch \in LiveBatches /\ pos.frame_number \in Nat
  BY PositionMoves, RangeTypes DEF BatchesInv, IInv, TypeOK, RangeBegin, LiveBatches, Positions
<1> DEFINE t == FrameEnd(RangeBegin)
           Inner(b) == \A i \in 1 .. Len(b) - 1 : b[i] # t
<1>1. t' = t
  BY <1>0 DEF FrameEnd, ResultEntry
<1>2. \A b \in LiveBatches : Inner(b)
  BY DEF BeginEndsBatch
<1>3. CASE AsyncStep \/ SpuriousWakeup
  <2>1. PICK s \in Seq(Entries) :
           /\ batch' \in {s, <<>>}
           /\ \A d \in LiveBatches' : d \in LiveBatches \/ d = s \/ d = <<>>
           /\ NothingAdded(s) \/ SignalAdded(s) \/ BlockAdded(s) \/ ResultAdded(s)
    BY <1>3, BatchChange
  <2>2. SUFFICES /\ Inner(s)
                 /\ async_pc' \in Reading \cup {"result"} /\ batch' # <<>> => s[Len(s)] # t
                 /\ \A n : batch' # <<>> /\ s[Len(s)] = FrameEnd(n) => n = pos'.frame_number
    <3>1. Inner(<<>>)
      OBVIOUS
    <3> HIDE DEF Inner
    <3>2. \A b \in LiveBatches' : Inner(b)
      BY <1>2, <2>1, <2>2, <3>1
    <3>3. batch' # <<>> => batch' = s
      BY <2>1
    <3> HIDE DEF t
    <3>4. \A n : FrameEnd(n)' = FrameEnd(n)
      BY DEF FrameEnd, ResultEntry
    <3> QED BY <1>0, <2>2, <3>2, <3>3, <3>4 DEF BeginEndsBatch, Inner, t
  <2>3. ASSUME NEW e \in Entries, s = Append(batch, e),
               batch # <<>> => batch[Len(batch)] # t
        PROVE  Inner(s) /\ s[Len(s)] = e
    <3>1. /\ Len(s) = Len(batch) + 1 /\ s[Len(batch) + 1] = e /\ Len(batch) \in Nat
          /\ \A k \in 1 .. Len(batch) : s[k] = batch[k]
      BY <1>0, <2>3, Appended
    <3>2. \A k \in 1 .. Len(batch) : batch[k] # t
      <4>1. \A k \in 1 .. Len(batch) : k \in 1 .. Len(batch) - 1 \/ k = Len(batch)
        BY <3>1
      <4>2. Len(batch) \in 1 .. Len(batch) => batch # <<>>
        OBVIOUS
      <4> QED BY <1>0, <1>2, <2>3, <4>1, <4>2
    <3> HIDE DEF t
    <3> QED BY <3>1, <3>2
  <2>4. CASE NothingAdded(s)
    <3>1. s = batch /\ Inner(s) /\ pos' = pos
      BY <1>0, <1>2, <2>4 DEF NothingAdded
    <3>2. \A n : batch' # <<>> /\ s[Len(s)] = FrameEnd(n) => n = pos'.frame_number
      BY <2>1, <3>1 DEF BeginEndsBatch
    <3>3. ASSUME async_pc' \in Reading \cup {"result"}, batch' # <<>> PROVE s[Len(s)] # t
      <4>1. CASE async_pc \in Reading
        BY <2>1, <3>1, <3>3, <4>1 DEF BeginEndsBatch
      <4>2. CASE ~(pos.frame_number = RangeBegin /\ AtPreloaded)
        <5>1. ~(pos.frame_number = RangeBegin)
          BY <1>0, <4>2 DEF AtPreloaded, InPreloadRange, RangeBegin, RangeEnd
        <5>2. batch # <<>>
          BY <2>1, <3>1, <3>3
        <5> QED BY <3>1, <5>1, <5>2 DEF BeginEndsBatch
      <4> QED BY <2>4, <3>3, <4>1, <4>2 DEF NothingAdded
    <3> QED BY <3>1, <3>2, <3>3
  <2>5. CASE SignalAdded(s)
    <3>1. batch = <<>> /\ batch' = <<>> /\ s = Append(batch, ContinueEntry)
      BY <2>5 DEF SignalAdded
    <3>2. Inner(s)
      BY <2>3, <3>1, EntryTypes
    <3> HIDE DEF Inner, t
    <3> QED BY <3>1, <3>2
  <2>6. CASE BlockAdded(s)
    <3> DEFINE e == BlockEntry(pos.block_index + 1, pos.frame_number, policy)
    <3>1. e \in Entries /\ s = Append(batch, e) /\ \A n : e # FrameEnd(n)
      <4>1. e \in Entries
        BY <1>0, EntryTypes DEF TypeOK, Positions
      <4>2. \A n : e # FrameEnd(n)
        BY EntryKinds DEF FrameEnd
      <4> QED BY <2>6, <4>1, <4>2 DEF BlockAdded
    <3>2. batch # <<>> => batch[Len(batch)] # t
      BY <2>6 DEF BlockAdded, ReadBlock, BeginEndsBatch, Reading
    <3> HIDE DEF e
    <3>3. Inner(s) /\ s[Len(s)] = e
      BY <2>3, <3>1, <3>2
    <3> HIDE DEF Inner
    <3> QED BY <3>1, <3>3
  <2>7. CASE ResultAdded(s)
    <3> DEFINE e == ResultEntry(process_state, pos.frame_number)
    <3>1. /\ e \in Entries /\ s = Append(batch, e) /\ pos' = pos
          /\ \A n : e = FrameEnd(n) => n = pos.frame_number
          /\ async_pc' \notin Reading \cup {"result"}
      <4>1. e \in Entries
        BY <1>0, EntryTypes DEF TypeOK, Positions
      <4>2. \A n : e = FrameEnd(n) => n = pos.frame_number
        <5>1. \A n : FrameEnd(n).next_frame = n /\ e.next_frame = pos.frame_number
          BY EntryKinds DEF FrameEnd
        <5> QED BY <5>1
      <4> QED BY <2>7, <4>1, <4>2 DEF ResultAdded, Reading
    <3>2. batch # <<>> => batch[Len(batch)] # t
      BY <2>7 DEF ResultAdded, BeginEndsBatch
    <3> HIDE DEF e
    <3>3. Inner(s) /\ s[Len(s)] = e
      BY <2>3, <3>1, <3>2
    <3> HIDE DEF Inner
    <3> QED BY <3>1, <3>3
  <2> QED BY <2>1, <2>4, <2>5, <2>6, <2>7
<1>4. CASE DispatchStep \/ Advance \/ Destroy \/ UNCHANGED vars
  <2>1. /\ UNCHANGED <<pos, batch>>
        /\ \A b \in LiveBatches' : b \in LiveBatches
    BY <1>0, <1>4, DispatchedBatches
  <2>2. async_pc' \in Reading \cup {"result"} => async_pc' = async_pc
    BY <1>4 DEF DispatchStep, LaunchAsyncThread, Advance, PopBatch, PopEnd, StoreDequeued,
      NotifyDequeued, Destroy, DestroyNotify, Join, NotifyThrottle, vars, Reading, GoAsync
  <2>3. \A n : FrameEnd(n)' = FrameEnd(n)
    BY DEF FrameEnd, ResultEntry
  <2> QED BY <1>0, <1>2, <2>1, <2>2, <2>3 DEF BeginEndsBatch
<1> QED BY <1>3, <1>4 DEF Next, Finished

(* The beginning of the range: the frame before it ends with the batch.       *)
LEMMA BeginAheadStep ==
  ASSUME ProducerStep, BeginEndsBatch, BeginAhead
  PROVE  BeginAhead'
<1>0. /\ RangeBegin' = RangeBegin /\ RangeBegin \in Nat /\ Last \in Nat \ {0}
      /\ AheadAt(Last) = Filling
      /\ Last' \in {Last, Last + 1}
  <2>1. TypeOK /\ input' = input /\ cursor \in Nat \ {0}
    BY ProducerMoves DEF ProducerStep, BatchesInv, IInv
  <2>2. Last' \in {Last, Last + 1}
    BY AheadMoves DEF ProducerStep
  <2> QED BY <2>1, <2>2, RangeTypes, AheadTypes, ProducerIsThere DEF RangeBegin, TypeOK
<1>1. CASE NotReached(RangeBegin)
  <2>1. NotReached(RangeBegin)' \/ (Last' = Last /\ \A c : c = Last => CrossedAt(c, RangeBegin)')
    <3>1. \A t \in Nat : NotReached(t) =>
             \/ NotReached(t)'
             \/ /\ EndsFrame /\ pos.frame_number + 1 = t /\ Last' = Last /\ queue' = queue
                /\ \A c : c = Last => CrossedAt(c, t)'
      BY NotReachedStep
    <3> QED BY <1>0, <1>1, <3>1
  <2>2. CASE NotReached(RangeBegin)'
    BY <2>2 DEF BeginAhead
  <2>3. ASSUME Last' = Last, NEW c, c = Last, CrossedAt(c, RangeBegin)'
        PROVE  BeginAhead'
    BY <1>0, <2>3 DEF BeginAhead
  <2> QED BY <2>1, <2>2, <2>3
<1>2. ASSUME NEW c \in 0 .. Last, CrossedAt(c, RangeBegin) PROVE BeginAhead'
  <2>1. c # Last \/ ~Grows
    <3> SUFFICES ASSUME c = Last, Grows PROVE FALSE
      OBVIOUS
    <3>1. async_pc \in Reading /\ Filling = batch
      BY DEF Grows, ReadsOn, EndsFrame, EndsStream, Filling, Reading
    <3>2. EndsBefore(batch, RangeBegin)
      BY <1>0, <1>2, <3>1 DEF CrossedAt
    <3> QED BY <3>1, <3>2 DEF EndsBefore, BeginEndsBatch
  <2>2. CrossedAt(c, RangeBegin)' /\ c \in 0 .. Last'
    <3>1. \A t \in Nat : CrossedAt(c, t) => CrossedAt(c, t)' /\ c \in 0 .. Last'
      BY <1>2, <2>1, CrossedStep
    <3> QED BY <1>0, <1>2, <3>1
  <2> QED BY <2>2 DEF BeginAhead
<1> QED BY <1>1, <1>2 DEF BeginAhead

-----------------------------------------------------------------------------
(* What the dispatching thread does to what is ahead: it takes the next batch, *)
(* or leaves everything in its place.                                        *)

DispatchLabelsAhead == {"launch", "pop", "store", "notify"}
AtHead == dispatch_pc \in DispatchLabelsAhead => cursor = 1

Stays == Last' = Last /\ \A j \in 0 .. Last : AheadAt(j)' = AheadAt(j)
Shifts ==
  /\ Last' = Last - 1 /\ Last' \in Nat \ {0} /\ Rest = <<>>
  /\ \A j \in 0 .. Last' : AheadAt(j)' = AheadAt(j + 1)

DispatcherStep ==
  /\ BatchesInv /\ BatchesInv' /\ DispatchStep
  /\ cursor \in Nat \ {0} /\ cursor' = cursor /\ AtHead

LEMMA DispatchMoves ==
  ASSUME DispatcherStep
  PROVE  /\ UNCHANGED <<input, pos, process_state, preloading, enqueued_batch_index,
                        throttle_wait_target>>
         /\ \/ async_pc' = async_pc
            \/ async_pc \in WaitLabels /\ async_pc' \in WaitLabels
            \/ async_pc = "not_started" /\ async_pc' = "start"
         /\ Last \in Nat \ {0}
         /\ Stays \/ Shifts
<1>0. /\ TypeOK /\ LaunchStartsIt /\ cursor \in Nat \ {0} /\ cursor' = cursor /\ DispatchStep
      /\ AtHead
      /\ queue \in Seq(Batch) /\ Len(queue) \in Nat
      /\ Last = Len(queue) + 1 /\ Last' = Len(queue') + 1
  BY DEF DispatcherStep, BatchesInv, IInv, TypeOK, Last
<1>1. UNCHANGED <<input, pos, process_state, preloading, enqueued_batch_index,
                  throttle_wait_target, batch>>
  BY <1>0 DEF DispatchStep, LaunchAsyncThread, PopBatch, PopEnd, StoreDequeued,
     NotifyDequeued, DestroyNotify, Join, reader_vars, async_vars
<1>2. \/ async_pc' = async_pc
      \/ async_pc \in WaitLabels /\ async_pc' \in WaitLabels
      \/ async_pc = "not_started" /\ async_pc' = "start"
  BY <1>0 DEF DispatchStep, LaunchAsyncThread, PopBatch, PopEnd, StoreDequeued, LaunchStartsIt,
     NotifyDequeued, DestroyNotify, Join, NotifyThrottle, GoAsync, WaitLabels
<1>3. Filling' = Filling
  BY <1>1, <1>2 DEF Filling, WaitLabels
<1>4. CASE PopBatch
  <2>1. /\ queue # <<>> /\ queue' = Tail(queue) /\ dispatch_pc = "pop" /\ dispatch_pc' = "store"
        /\ got' = [got EXCEPT ![Dispatcher] = Head(queue)]
    BY <1>4 DEF PopBatch, Queue!Pop, GoDispatch
  <2>2. /\ Len(queue') = Len(queue) - 1 /\ Len(queue) >= 1 /\ Head(queue) = queue[1]
        /\ \A i \in 1 .. Len(queue') : queue'[i] = queue[i + 1]
        /\ queue[1] \in Batch
    BY <1>0, <2>1
  <2>3. Last' = Last - 1 /\ Last' \in Nat \ {0} /\ Last' = Len(queue)
    BY <1>0, <2>2
  <2>4. Rest = <<>>
    BY <2>1 DEF Rest
  <2>5. Rest' = queue[1].blocks
    <3>1. got'[Dispatcher] = queue[1] /\ queue[1] # NoBatch
      BY <1>0, <2>1, <2>2, SentinelAssumption DEF TypeOK
    <3>2. cursor' = 1
      BY <1>0, <2>1 DEF AtHead, DispatchLabelsAhead
    <3>3. queue[1].blocks \in Seq(Entries)
      BY <2>2 DEF Batch
    <3>4. SubSeq(queue[1].blocks, 1, Len(queue[1].blocks)) = queue[1].blocks
      BY <3>3
    <3> QED BY <2>1, <3>1, <3>2, <3>4 DEF Rest, AtEndOfQueue, CurrentBatch
  <2>6. ASSUME NEW j \in 0 .. Last' PROVE AheadAt(j)' = AheadAt(j + 1)
    <3>1. CASE j = 0
      <4>1. AheadAt(j)' = queue[1].blocks
        BY <2>5, <3>1 DEF AheadAt
      <4>2. AheadAt(j + 1) = queue[1].blocks
        BY <1>0, <2>2, <3>1 DEF AheadAt
      <4> QED BY <4>1, <4>2
    <3>2. CASE j = Last'
      <4>1. AheadAt(j)' = Filling'
        BY <2>3, <3>2 DEF AheadAt
      <4>2. j + 1 = Last /\ j + 1 # 0
        BY <1>0, <2>3, <3>2
      <4>3. AheadAt(j + 1) = Filling
        BY <4>2 DEF AheadAt
      <4> QED BY <1>3, <4>1, <4>3
    <3>3. CASE j # 0 /\ j # Last'
      <4>1. j \in 1 .. Len(queue') /\ j + 1 # 0 /\ j + 1 # Last
        BY <1>0, <2>2, <2>3, <3>3
      <4>2. AheadAt(j)' = queue'[j].blocks
        BY <3>3 DEF AheadAt
      <4>3. AheadAt(j + 1) = queue[j + 1].blocks
        BY <4>1 DEF AheadAt
      <4> QED BY <2>2, <4>1, <4>2, <4>3
    <3> QED BY <3>1, <3>2, <3>3
  <2> QED BY <1>0, <1>1, <1>2, <2>3, <2>4, <2>6 DEF Shifts
<1>5. CASE ~PopBatch
  <2>1. queue' = queue /\ (PopEnd \/ got' = got)
    BY <1>0, <1>5 DEF DispatchStep, LaunchAsyncThread, PopEnd, StoreDequeued,
       NotifyDequeued, DestroyNotify, Join, queue_vars, Queue!PopClosed, Queue!TryPopEmpty
  <2>2. Last' = Last
    BY <2>1 DEF Last
  <2>3. Rest' = Rest
    <3>1. CASE PopEnd
      <4>1. dispatch_pc = "pop" /\ got'[Dispatcher] = NoBatch
        BY <1>0, <3>1 DEF PopEnd, Queue!PopClosed, Queue!TryPopEmpty, TypeOK
      <4> QED BY <4>1 DEF Rest, AtEndOfQueue, CurrentBatch
    <3>2. CASE LaunchAsyncThread
      BY <3>2 DEF LaunchAsyncThread, Rest, GoDispatch
    <3>3. CASE StoreDequeued \/ NotifyDequeued \/ DestroyNotify \/ Join
      <4>1. got' = got /\ dispatch_pc \notin {"launch", "pop"} /\ dispatch_pc' \notin {"launch", "pop"}
        BY <3>3 DEF StoreDequeued, NotifyDequeued, DestroyNotify, Join, GoDispatch, queue_vars
      <4> QED BY <1>0, <4>1 DEF Rest, AtEndOfQueue, CurrentBatch
    <3> QED BY <1>0, <1>5, <3>1, <3>2, <3>3 DEF DispatchStep
  <2>4. \A j \in 0 .. Last : AheadAt(j)' = AheadAt(j)
    BY <1>3, <2>1, <2>2, <2>3 DEF AheadAt
  <2> QED BY <1>0, <1>1, <1>2, <2>2, <2>4 DEF Stays
<1> QED BY <1>4, <1>5

LEMMA FromDispatch ==
  ASSUME DispatcherStep, NEW t, NEW k \in {0, 1}, AllFrom(k, t)
  PROVE  AllFrom(k, t)'
<1>0. Last \in Nat \ {0} /\ (Stays \/ Shifts)
  BY DispatchMoves
<1>1. CASE Stays
  <2>1. \A j \in k .. Last : j \in 0 .. Last
    BY <1>0
  <2> QED BY <1>1, <2>1 DEF Stays, AllFrom, FromFrame
<1>2. CASE Shifts
  <2>1. \A j \in k .. Last' : j \in 0 .. Last' /\ j + 1 \in k .. Last
    BY <1>0, <1>2 DEF Shifts
  <2> QED BY <1>2, <2>1 DEF Shifts, AllFrom, FromFrame
<1> QED BY <1>0, <1>1, <1>2

LEMMA NotReachedDispatch ==
  ASSUME DispatcherStep, NEW t, NotReached(t)
  PROVE  NotReached(t)'
<1>0. Last \in Nat \ {0} /\ (Stays \/ Shifts) /\ pos' = pos
  BY DispatchMoves
<1>1. CASE Stays
  BY <1>0, <1>1 DEF Stays, NotReached, BelowFrame
<1>2. CASE Shifts
  <2>1. \A j \in 0 .. Last' : j + 1 \in 0 .. Last
    BY <1>0, <1>2 DEF Shifts
  <2> QED BY <1>0, <1>2, <2>1 DEF Shifts, NotReached, BelowFrame
<1> QED BY <1>0, <1>1, <1>2

LEMMA CrossedDispatch ==
  ASSUME DispatcherStep, NEW t, NEW c \in 0 .. Last, CrossedAt(c, t)
  PROVE  \E d \in 0 .. Last' : CrossedAt(d, t)' /\ (Held(c) => Held(d)')
<1>0. /\ Last \in Nat \ {0} /\ (Stays \/ Shifts)
      /\ UNCHANGED <<pos, preloading, enqueued_batch_index, throttle_wait_target>>
      /\ \/ async_pc' = async_pc
         \/ async_pc \in WaitLabels /\ async_pc' \in WaitLabels
         \/ async_pc = "not_started" /\ async_pc' = "start"
  BY DispatchMoves
<1>1. CASE Stays
  <2>1. CrossedAt(c, t)'
    <3>1. (\A j \in 0 .. c - 1 : j \in 0 .. Last) /\ (\A j \in c + 1 .. Last : j \in 0 .. Last)
      BY <1>0
    <3> QED BY <1>0, <1>1, <3>1 DEF Stays, CrossedAt, BelowFrame, FromFrame, EndsBefore
  <2>2. Held(c) => Held(c)'
    BY <1>0, <1>1 DEF Stays, Held, WaitLabels
  <2> QED BY <1>1, <2>1, <2>2 DEF Stays
<1>2. CASE Shifts
  <2>1. c # 0
    BY <1>2 DEF Shifts, CrossedAt, EndsBefore, AheadAt
  <2>2. c - 1 \in 0 .. Last' /\ Last' = Last - 1
    BY <1>0, <1>2, <2>1 DEF Shifts
  <2> DEFINE d == c - 1
  <2>3. CrossedAt(d, t)'
    <3>1. /\ \A j \in 0 .. d - 1 : j \in 0 .. Last' /\ j + 1 \in 0 .. c - 1
          /\ \A j \in d + 1 .. Last' : j \in 0 .. Last' /\ j + 1 \in c + 1 .. Last
          /\ d + 1 = c /\ d \in 0 .. Last'
      BY <1>0, <2>1, <2>2
    <3>2. \A j \in 0 .. Last' : AheadAt(j)' = AheadAt(j + 1)
      BY <1>2 DEF Shifts
    <3> HIDE DEF d
    <3>3. \A j \in 0 .. d - 1 : BelowFrame(AheadAt(j)', t)
      BY <3>1, <3>2 DEF CrossedAt
    <3>4. \A j \in d + 1 .. Last' : FromFrame(AheadAt(j)', t)
      BY <3>1, <3>2 DEF CrossedAt
    <3>5. EndsBefore(AheadAt(d)', t)
      BY <3>1, <3>2 DEF CrossedAt
    <3> QED BY <1>0, <3>3, <3>4, <3>5 DEF CrossedAt, BelowFrame, FromFrame, EndsBefore
  <2>4. Held(c) => Held(d)'
    <3>1. /\ c = Last => d = Last'
          /\ c = Last - 1 => d = Last' - 1
          /\ c = Last - 2 => d = Last' - 2
      BY <1>0, <2>2
    <3> HIDE DEF d
    <3> QED BY <1>0, <3>1 DEF Held, WaitLabels
  <2> QED BY <2>2, <2>3, <2>4
<1> QED BY <1>0, <1>1, <1>2

-----------------------------------------------------------------------------
(* The limits of the application and those of the producer are the same.     *)

LEMMA OptionTypes ==
  ASSUME input \in Inputs
  PROVE  LET o == input.options IN
         /\ input.capture = o.capture
         /\ RangeBegin = IF o.preload THEN DecrementFrame(o.range_begin) ELSE 0
         /\ RangeEnd = IF o.preload THEN DecrementFrame(o.range_end) ELSE 0
         /\ o.loop_frame # 0 => input.quit_before_frame = DecrementFrame(o.loop_frame)
         /\ o.range_begin \in Nat \ {0} /\ o.range_end \in Nat \ {0, 1} /\ o.loop_frame \in Nat
         /\ o.range_begin < o.range_end
         /\ o.preload => o.loop_frame = 0
         /\ o.preload \in BOOLEAN
         /\ Frames \in Nat /\ kMaxFrame \in Nat /\ Frames + 1 < kMaxFrame
<1> DEFINE o == input.options
<1>1. /\ ValidOptions(o) /\ input = FrameProcessingParams(o)
      /\ Frames \in Nat /\ kMaxFrame \in Nat /\ Frames + 1 < kMaxFrame
  <2>1. input.capture.blocks \in Seq(Kinds)
    BY InputAssumption DEF Captures
  <2> QED BY <2>1, ReplayAssumption, MaxFrameAssumption DEF IsReplay, Frames
<1> HIDE DEF o
<1>2. /\ input.capture = o.capture
      /\ RangeBegin = IF o.preload THEN DecrementFrame(o.range_begin) ELSE 0
      /\ RangeEnd = IF o.preload THEN DecrementFrame(o.range_end) ELSE 0
      /\ o.loop_frame # 0 => input.quit_before_frame = DecrementFrame(o.loop_frame)
  BY <1>1 DEF FrameProcessingParams, RangeBegin, RangeEnd
<1> QED BY <1>1, <1>2 DEF ValidOptions, Options, o

LEMMA RangeLimits ==
  ASSUME input \in Inputs, input.options.preload
  PROVE  LET o == input.options IN
         /\ \A f \in 0 .. Frames : f + 1 = o.range_begin => f = RangeBegin /\ RangeBegin < RangeEnd
         /\ RangeBegin <= Frames =>
              /\ RangeBegin + 1 = o.range_begin
              /\ o.range_end - o.range_begin > 0
              /\ RangeBegin + (o.range_end - o.range_begin) <= RangeEnd
              /\ \A n \in 0 .. Frames :
                   ~(n < RangeBegin + (o.range_end - o.range_begin)) => n >= RangeEnd
         /\ RangeBegin \in Nat /\ RangeEnd \in Nat
<1> DEFINE o == input.options
           b == o.range_begin
           e == o.range_end
<1>1. /\ RangeBegin = DecrementFrame(b) /\ RangeEnd = DecrementFrame(e)
      /\ b \in Nat \ {0} /\ e \in Nat \ {0, 1} /\ b < e
      /\ Frames \in Nat /\ kMaxFrame \in Nat /\ Frames + 1 < kMaxFrame
  BY OptionTypes
<1> HIDE DEF b, e
<1>2. /\ RangeBegin = IF b = kMaxFrame THEN b ELSE b - 1
      /\ RangeEnd = IF e = kMaxFrame THEN e ELSE e - 1
  BY <1>1 DEF DecrementFrame
<1>3. /\ \A f \in 0 .. Frames : f + 1 = b => f = RangeBegin /\ RangeBegin < RangeEnd
      /\ RangeBegin <= Frames =>
              /\ RangeBegin + 1 = b
              /\ e - b > 0
              /\ RangeBegin + (e - b) <= RangeEnd
              /\ \A n \in 0 .. Frames : ~(n < RangeBegin + (e - b)) => n >= RangeEnd
      /\ RangeBegin \in Nat /\ RangeEnd \in Nat
  BY <1>1, <1>2
<1> QED BY <1>3 DEF b, e

(* A loop frame ends the reading.                                            *)
LEMMA LoopLimits ==
  ASSUME input \in Inputs, input.options.loop_frame # 0, NEW n \in Nat,
         n >= input.options.loop_frame
  PROVE  n >= input.quit_before_frame
<1> DEFINE l == input.options.loop_frame
<1>1. input.quit_before_frame = DecrementFrame(l) /\ l \in Nat /\ l # 0 /\ kMaxFrame \in Nat
  BY OptionTypes
<1> HIDE DEF l
<1>2. n >= l
  BY DEF l
<1> QED BY <1>1, <1>2 DEF DecrementFrame

-----------------------------------------------------------------------------
(* What the application can rely on.                                         *)

(* No batch is empty.                                                        *)
Flushed ==
  /\ \A i \in 1 .. Len(queue) : queue[i].blocks # <<>>
  /\ CurrentBatch # NoBatch => CurrentBatch.blocks # <<>>

(* Behind the end of the queue there is nothing.                             *)
Closing ==
  /\ ~queue_open => async_pc = "exited"
  /\ async_pc \in {"close", "exited"} => batch = <<>>
  /\ dispatch_pc \notin {"launch", "pop"} /\ AtEndOfQueue => async_pc = "exited" /\ queue = <<>>

LEMMA FlushedStep ==
  ASSUME EveryStutterIsEarly, BatchesInv, Flushed, Next
  PROVE  Flushed'
<1>0. TypeOK /\ queue \in Seq(Batch)
  BY DEF BatchesInv, IInv, TypeOK
<1>1. CASE AsyncStep \/ SpuriousWakeup
  <2>1. got' = got /\ (Holds \/ (\E b : Sends(b)) \/ queue' = queue)
    BY <1>1, ProducerMoves
  <2>2. CASE queue' = queue
    BY <2>1, <2>2 DEF Flushed, CurrentBatch
  <2>3. ASSUME NEW b, Sends(b) PROVE Flushed'
    <3> DEFINE sent == [tag |-> enqueued_batch_index + 1, blocks |-> b]
    <3>1. queue' = Append(queue, sent) /\ b # <<>> /\ sent.blocks = b
      BY <2>3 DEF Sends
    <3> HIDE DEF sent
    <3>2. /\ Len(queue') = Len(queue) + 1 /\ Len(queue) \in Nat /\ queue'[Len(queue) + 1] = sent
          /\ \A i \in 1 .. Len(queue) : queue'[i] = queue[i]
      BY <1>0, <3>1
    <3>3. \A i \in 1 .. Len(queue') : i \in 1 .. Len(queue) \/ i = Len(queue) + 1
      BY <3>2
    <3> QED BY <2>1, <3>1, <3>2, <3>3 DEF Flushed, CurrentBatch
  <2> QED BY <2>1, <2>2, <2>3 DEF Holds
<1>2. CASE PopBatch
  <2>1. /\ queue # <<>> /\ queue' = Tail(queue)
        /\ got'[Dispatcher] = Head(queue)
    BY <1>0, <1>2 DEF PopBatch, Queue!Pop, TypeOK
  <2>2. /\ \A i \in 1 .. Len(queue') : i + 1 \in 1 .. Len(queue) /\ queue'[i] = queue[i + 1]
        /\ Head(queue) = queue[1] /\ 1 \in 1 .. Len(queue)
    BY <1>0, <2>1
  <2> QED BY <2>1, <2>2 DEF Flushed, CurrentBatch
<1>3. CASE PopEnd
  <2>1. queue' = queue /\ got'[Dispatcher] = NoBatch
    BY <1>0, <1>3 DEF PopEnd, Queue!PopClosed, Queue!TryPopEmpty, TypeOK
  <2> QED BY <2>1 DEF Flushed, CurrentBatch
<1>4. CASE (DispatchStep \/ Advance \/ Destroy \/ UNCHANGED vars) /\ ~PopBatch /\ ~PopEnd
  <2>1. queue' = queue /\ got' = got
    BY <1>4 DEF DispatchStep, LaunchAsyncThread, Advance, StoreDequeued,
       NotifyDequeued, Destroy, DestroyNotify, Join, vars, queue_vars
  <2> QED BY <2>1 DEF Flushed, CurrentBatch
<1> QED BY <1>1, <1>2, <1>3, <1>4 DEF Next, Finished

LEMMA ClosingStep ==
  ASSUME BatchesInv, Closing, Next
  PROVE  Closing'
<1>0. TypeOK /\ LaunchStartsIt
  BY DEF BatchesInv, IInv
<1>1. CASE AsyncStep \/ SpuriousWakeup
  <2>1. async_pc # "exited" /\ UNCHANGED <<dispatch_pc>> /\ got' = got
    BY <1>1 DEF AsyncStep, StartThread, TopOfLoop, MakeRoom, ReadBlock, StopReading,
      AddResult, Fence, ReadPending, LowWater, HighWater, BetweenWaters, WaitDone,
      NotYet, Block, Reacquire, WaitStep, BottomOfLoop, LastFlush, CloseQueue, SpuriousWakeup,
      dispatch_vars, Flush, Keep, queue_vars, Queue!Push, Queue!Close
  <2>2. queue_open
    BY <2>1 DEF Closing
  <2>3. CASE CloseQueue
    <3>1. async_pc' = "exited" /\ batch' = batch /\ async_pc = "close"
      BY <2>3 DEF CloseQueue, GoAsync, reader_vars
    <3> QED BY <2>1, <3>1 DEF Closing, AtEndOfQueue, CurrentBatch
  <2>4. CASE LastFlush
    <3>1. async_pc' = "close" /\ batch' = <<>> /\ queue_open' = queue_open
      BY <2>4 DEF LastFlush, GoAsync, Flush, queue_vars, Queue!Push
    <3> QED BY <2>1, <2>2, <3>1 DEF Closing, AtEndOfQueue, CurrentBatch
  <2>5. CASE ~CloseQueue /\ ~LastFlush
    <3>1. queue_open' = queue_open
      BY <1>1, <2>5 DEF AsyncStep, StartThread, TopOfLoop, MakeRoom, ReadBlock, StopReading,
        AddResult, Fence, ReadPending, LowWater, HighWater, BetweenWaters, WaitDone,
        NotYet, Block, Reacquire, WaitStep, BottomOfLoop, SpuriousWakeup,
        Flush, Keep, queue_vars, Queue!Push
    <3>2. async_pc' \notin {"close", "exited"}
      BY <1>1, <2>5 DEF AsyncStep, StartThread, TopOfLoop, MakeRoom, ReadBlock, StopReading,
        AddResult, Fence, ReadPending, LowWater, HighWater, BetweenWaters, WaitDone,
        NotYet, Block, Reacquire, WaitStep, BottomOfLoop, SpuriousWakeup, GoAsync
    <3> QED BY <2>1, <2>2, <3>1, <3>2 DEF Closing, AtEndOfQueue, CurrentBatch
  <2> QED BY <2>3, <2>4, <2>5
<1>2. CASE DispatchStep \/ Advance \/ Destroy \/ UNCHANGED vars
  <2>1. /\ batch' = batch /\ queue_open' = queue_open
        /\ async_pc' \in {"close", "exited"} => async_pc' = async_pc
        /\ async_pc = "exited" => async_pc' = "exited"
    BY <1>0, <1>2 DEF DispatchStep, LaunchAsyncThread, Advance, PopBatch, PopEnd, StoreDequeued,
      NotifyDequeued, Destroy, DestroyNotify, Join, NotifyThrottle, GoAsync, LaunchStartsIt,
      vars, reader_vars, async_vars, queue_vars, Queue!Pop, Queue!PopClosed, Queue!TryPopEmpty
  <2>2. ASSUME dispatch_pc' \notin {"launch", "pop"}, AtEndOfQueue'
        PROVE  async_pc' = "exited" /\ queue' = <<>>
    <3>1. CASE PopEnd
      <4>1. ~queue_open /\ queue' = <<>>
        BY <3>1 DEF PopEnd, Queue!PopClosed, Queue!TryPopEmpty
      <4> QED BY <2>1, <4>1 DEF Closing
    <3>2. CASE PopBatch
      <4>1. got'[Dispatcher] = Head(queue) /\ Head(queue) \in Batch
        BY <1>0, <3>2 DEF PopBatch, Queue!Pop, TypeOK
      <4> QED BY <2>2, <4>1, SentinelAssumption DEF AtEndOfQueue, CurrentBatch
    <3>3. CASE ~PopEnd /\ ~PopBatch
      <4>1. /\ queue' = queue /\ got' = got
            /\ dispatch_pc \notin {"launch", "pop"} \/ dispatch_pc' \in {"launch", "pop"}
        BY <1>2, <3>3 DEF DispatchStep, LaunchAsyncThread, Advance, StoreDequeued,
          NotifyDequeued, Destroy, DestroyNotify, Join, vars, queue_vars, dispatch_vars, GoDispatch
      <4> QED BY <2>1, <2>2, <4>1 DEF Closing, AtEndOfQueue, CurrentBatch
    <3> QED BY <3>1, <3>2, <3>3
  <2> QED BY <2>1, <2>2 DEF Closing
<1> QED BY <1>1, <1>2 DEF Next, Finished

-----------------------------------------------------------------------------
(* Where the application is, with respect to the range.                      *)

Active == input.options.preload /\ RangeBegin < RangeEnd

(* The processing thread waits behind the range for the application, which is *)
(* in the last batch of the range.                                           *)
HeldAtFence ==
  /\ dispatch_pc = "idle" /\ keep_alive
  /\ Held(0) /\ pos.frame_number >= RangeEnd

(* The application goes on with the frame, or with the next one.              *)
Going == app_pc \in {"events", "limits", "preload_loop", "preload_range", "play"}
           \/ (app_pc = "end_frame" /\ success)

InRange(s) == \A i \in 1 .. Len(s) :
  /\ ~IsResult(s[i]) => InPreloadRange(s[i].frame)
  /\ IsResult(s[i]) /\ s[i].state = "kFrameBoundary" => s[i].next_frame > RangeBegin

Quiet == preload_queue = <<>> /\ ~replay_from_queue
BetweenFrames == {"events", "limits", "end_frame"}

BeforeRange ==
  /\ Quiet /\ app_pc \in BetweenFrames \cup {"play"}
  /\ dispatch_frame_number < RangeBegin
  /\ BeginAhead /\ EndAhead

AtRange ==
  /\ ~replay_from_queue /\ dispatch_frame_number = RangeBegin
  /\ app_pc \in BetweenFrames \cup {"preload_range"}
  /\ app_pc # "preload_range" => preload_queue = <<>>
  /\ cursor = 1
  /\ AllFrom(0, RangeBegin) /\ pos.frame_number >= RangeBegin
  /\ EndAhead
  /\ InRange(preload_queue)

BehindRange(k) ==
  /\ AllFrom(k, RangeBegin + 1)
  /\ pos.frame_number >= RangeBegin + 1 \/ async_pc = "exited"

EndsTheReplay(s) ==
  s # <<>> /\ IsResult(s[Len(s)]) /\ ~ContinueProcessing(s[Len(s)].state)

InMeasurement ==
  /\ preload_queue # <<>> /\ app_pc \in BetweenFrames \cup {"play"}
  /\ app_pc # "play" => dispatch_frame_number > RangeBegin
  /\ InRange(preload_queue)
  /\ BehindRange(1) \/ (replay_from_queue /\ EndsTheReplay(preload_queue))

AfterRange ==
  /\ Quiet /\ app_pc \in BetweenFrames \cup {"play"}
  /\ app_pc # "play" => dispatch_frame_number > RangeBegin
  /\ BehindRange(0)

Phases == Active /\ Going => BeforeRange \/ AtRange \/ InMeasurement \/ AfterRange

Alive ==
  app_pc \notin {"quit", "ended"} =>
       /\ keep_alive \/ dispatch_pc = "launch"
       /\ dispatch_pc \in DispatchLabelsAhead \cup {"idle"}

ClientCounted ==
  /\ preload_queue \in Seq(Entries) /\ cursor \in Nat \ {0}
  /\ \A i \in 1 .. Len(preload_queue) : NumberOf(preload_queue[i]) <= Frames
  /\ ~looping => dispatch_frame_number \in 0 .. Frames /\ preload_at \in Nat \ {0}

Measured ==
  /\ replay_from_queue =>
       /\ dispatch_pc \notin DispatchLabelsAhead
       /\ NoMoreFrames \/ HeldAtFence
       /\ IF input.options.preload THEN InRange(preload_queue) ELSE looping
  /\ input.options.preload => ~looping /\ app_pc # "preload_loop"
  /\ app_pc = "preload_loop" => FrameNumber = input.options.loop_frame
                                  /\ input.options.loop_frame # 0
  /\ app_pc = "preload_range" => Active
  /\ Preloading => ~replay_from_queue /\ ~looping

ProcessorInv ==
  /\ BatchesInv /\ EndsAreLast /\ FramesCounted /\ (RangeBegin < RangeEnd => BeginEndsBatch)
  /\ Flushed /\ Closing
ReplayInv ==
  /\ ProcessorInv
  /\ Alive /\ AtHead /\ ClientCounted /\ Measured /\ Phases

-----------------------------------------------------------------------------
(* The steps of the processor leave the application where it is.             *)

LEMMA ProcessorInvStep ==
  ASSUME EveryStutterIsEarly, ProcessorInv, Next
  PROVE  ProcessorInv' /\ Frames' = Frames /\ input' = input /\ pos.frame_number <= Frames
<1>1. OnlyTheFirstFrameStutters
  BY DEF OnlyTheFirstFrameStutters, EveryStutterIsEarly
<1>2. BatchesInv' /\ EndsAreLast' /\ FramesCounted' /\ Flushed' /\ Closing'
  BY <1>1, NextBatchesInv, EndsAreLastStep, FramesCountedStep, FlushedStep, ClosingStep
     DEF ProcessorInv
<1>3. input' = input /\ Frames' = Frames /\ pos.frame_number <= Frames
  BY PositionMoves, FramesCountedStep DEF ProcessorInv
<1>4. (RangeBegin < RangeEnd => BeginEndsBatch)'
  BY <1>3, BeginEndsBatchStep DEF ProcessorInv, RangeBegin, RangeEnd
<1> QED BY <1>2, <1>3, <1>4 DEF ProcessorInv

LEMMA ProducerReplayStep ==
  ASSUME EveryStutterIsEarly, ReplayInv, InProcessor(AsyncStep \/ SpuriousWakeup)
  PROVE  ReplayInv'
<1>0. Next /\ (AsyncStep \/ SpuriousWakeup)
  BY DEF InProcessor, Next
<1>1. /\ ProcessorInv' /\ Frames' = Frames /\ input' = input
      /\ RangeBegin' = RangeBegin /\ RangeEnd' = RangeEnd
  BY <1>0, ProcessorInvStep DEF ReplayInv, RangeBegin, RangeEnd
<1>2. /\ UNCHANGED <<app_pc, success, dispatch_frame_number, preload_queue, preload_at,
                     replay_from_queue, looping, cursor>>
      /\ UNCHANGED <<got, dispatch_pc, keep_alive>>
  BY <1>0, ProducerMoves DEF InProcessor, client_vars, preload_vars, loop_vars, ReplayInv, ProcessorInv
<1>3. ProducerStep
  <2>1. BatchesInv /\ BatchesInv' /\ cursor \in Nat \ {0} /\ cursor' = cursor
    BY <1>1, <1>2 DEF ReplayInv, ProcessorInv, ClientCounted
  <2> QED BY <1>0, <2>1 DEF ProducerStep
<1>4. Alive' /\ AtHead' /\ ClientCounted'
  BY <1>1, <1>2 DEF ReplayInv, Alive, AtHead, ClientCounted
<1>5. RangeBegin \in Nat /\ RangeEnd \in Nat /\ pos.frame_number \in Nat /\ pos'.frame_number \in Nat
      /\ pos.frame_number <= pos'.frame_number /\ Last \in Nat \ {0}
  <2>1. input \in Inputs
    BY DEF ReplayInv, ProcessorInv, BatchesInv, IInv, TypeOK
  <2>2. pos.frame_number \in Nat /\ pos'.frame_number \in Nat /\ pos.frame_number <= pos'.frame_number
    BY <1>3, AheadMoves DEF ProducerStep
  <2> QED BY <1>3, <2>1, <2>2, RangeTypes, ProducerIsThere
<1>6. \A s : InRange(s)' <=> InRange(s)
  BY <1>1 DEF InRange, InPreloadRange, RangeBegin
<1>7. Measured'
  <2>1. NoMoreFrames => NoMoreFrames'
    BY <1>0, ReadingIsOver DEF ReplayInv, ProcessorInv
  <2>2. HeldAtFence => HeldAtFence'
    <3>1. ASSUME HeldAtFence PROVE Held(0)'
      <4>1. Held(0) /\ 0 \in 0 .. Last /\ pos.frame_number >= RangeEnd /\ keep_alive
        BY <1>5, <3>1 DEF HeldAtFence
      <4> QED BY <1>3, <4>1, HeldStep
    <3>2. pos.frame_number >= RangeEnd => pos'.frame_number >= RangeEnd'
      BY <1>1, <1>5
    <3> QED BY <1>2, <3>1, <3>2 DEF HeldAtFence
  <2>3. InRange(preload_queue)' <=> InRange(preload_queue)
    BY <1>1, <1>2 DEF InRange, InPreloadRange, RangeBegin
  <2>4. Active' <=> Active
    BY <1>1 DEF Active
  <2> HIDE DEF NoMoreFrames, HeldAtFence, InRange, Active
  <2> QED BY <1>1, <1>2, <2>1, <2>2, <2>3, <2>4 DEF ReplayInv, Measured, Preloading, FrameNumber
<1>8. Phases'
  <2>1. (Active' <=> Active) /\ (Going' <=> Going)
    BY <1>1, <1>2 DEF Active, Going
  <2>2. SUFFICES ASSUME Active, Going
                 PROVE  (BeforeRange \/ AtRange \/ InMeasurement \/ AfterRange)'
    BY <2>1 DEF Phases
  <2>3. BeforeRange \/ AtRange \/ InMeasurement \/ AfterRange
    BY <2>2 DEF ReplayInv, Phases
  <2>4. keep_alive \/ dispatch_pc = "launch"
    BY <2>2 DEF ReplayInv, Alive, Going
  <2>5. EndAhead => EndAhead'
    BY <1>3, <2>2, <2>4, EndAheadStep DEF Active
  <2>6. InRange(preload_queue)' <=> InRange(preload_queue)
    BY <1>1, <1>2 DEF InRange, InPreloadRange, RangeBegin
  <2>7. \A k \in {0, 1}, t \in Nat :
          AllFrom(k, t) /\ (pos.frame_number >= t \/ async_pc = "exited") =>
             AllFrom(k, t)' /\ pos'.frame_number >= t
    BY <1>3, FromStep
  <2>8. CASE BeforeRange
    <3>1. BeginAhead'
      BY <1>3, <2>2, <2>8, BeginAheadStep DEF BeforeRange, ReplayInv, ProcessorInv, Active
    <3> QED BY <1>1, <1>2, <2>5, <2>8, <3>1 DEF BeforeRange, Quiet
  <2>9. CASE AtRange
    <3>1. AllFrom(0, RangeBegin)' /\ pos'.frame_number >= RangeBegin
      <4>1. \A t \in Nat : t = RangeBegin => AllFrom(0, t)' /\ pos'.frame_number >= t
        BY <2>7, <2>9 DEF AtRange
      <4> QED BY <1>1, <1>5, <4>1
    <3> QED BY <1>1, <1>2, <2>5, <2>6, <2>9, <3>1 DEF AtRange
  <2>10. ASSUME NEW k \in {0, 1}, BehindRange(k) PROVE BehindRange(k)'
    <3>1. \A t \in Nat : t = RangeBegin + 1 => AllFrom(k, t)' /\ pos'.frame_number >= t
      BY <2>7, <2>10 DEF BehindRange
    <3>2. RangeBegin + 1 \in Nat /\ (RangeBegin + 1)' = RangeBegin + 1
      BY <1>1, <1>5
    <3>3. AllFrom(k, RangeBegin + 1)' /\ pos'.frame_number >= RangeBegin + 1
      BY <3>1, <3>2
    <3> QED BY <3>2, <3>3 DEF BehindRange
  <2>11. CASE InMeasurement
    <3>1. BehindRange(1) => BehindRange(1)'
      BY <2>10
    <3> QED BY <1>1, <1>2, <2>6, <2>11, <3>1 DEF InMeasurement, EndsTheReplay
  <2>12. CASE AfterRange
    <3>1. BehindRange(0) => BehindRange(0)'
      BY <2>10
    <3> QED BY <1>1, <1>2, <2>12, <3>1 DEF AfterRange, Quiet
  <2> QED BY <2>3, <2>8, <2>9, <2>11, <2>12
<1> QED BY <1>1, <1>4, <1>7, <1>8 DEF ReplayInv

LEMMA DispatchReplayStep ==
  ASSUME EveryStutterIsEarly, ReplayInv, InProcessor(DispatchStep)
  PROVE  ReplayInv'
<1>0. Next /\ DispatchStep
  BY DEF InProcessor, Next
<1>1. /\ ProcessorInv' /\ Frames' = Frames /\ input' = input
      /\ RangeBegin' = RangeBegin /\ RangeEnd' = RangeEnd
  BY <1>0, ProcessorInvStep DEF ReplayInv, RangeBegin, RangeEnd
<1>2. UNCHANGED <<app_pc, success, dispatch_frame_number, preload_queue, preload_at,
                  replay_from_queue, looping, cursor>>
  BY DEF InProcessor, client_vars, preload_vars, loop_vars
<1>3. DispatcherStep
  <2>1. BatchesInv /\ BatchesInv' /\ cursor \in Nat \ {0} /\ cursor' = cursor /\ AtHead
    BY <1>1, <1>2 DEF ReplayInv, ProcessorInv, ClientCounted
  <2> QED BY <1>0, <2>1 DEF DispatcherStep
<1>4. Alive' /\ AtHead' /\ ClientCounted'
  <2>1. \/ dispatch_pc \in DispatchLabelsAhead /\ dispatch_pc' \in DispatchLabelsAhead \cup {"idle"}
             /\ (keep_alive' = keep_alive \/ keep_alive' = TRUE)
             /\ dispatch_pc' # "launch"
        \/ dispatch_pc \in {"destroy_notify", "join"} /\ dispatch_pc' \in {"join", "joined"}
    BY <1>0 DEF DispatchStep, LaunchAsyncThread, PopBatch, PopEnd, StoreDequeued, GoDispatch,
       NotifyDequeued, DestroyNotify, Join, DispatchLabelsAhead
  <2>2. dispatch_pc = "launch" => keep_alive'
    BY <1>0 DEF DispatchStep, LaunchAsyncThread, PopBatch, PopEnd, StoreDequeued,
       NotifyDequeued, DestroyNotify, Join
  <2>3. Alive'
    BY <1>2, <2>1, <2>2 DEF ReplayInv, Alive, DispatchLabelsAhead
  <2>4. AtHead'
    BY <1>2, <2>1 DEF ReplayInv, AtHead, DispatchLabelsAhead
  <2> QED BY <1>1, <1>2, <2>3, <2>4 DEF ReplayInv, ClientCounted
<1>5. /\ RangeBegin \in Nat /\ RangeEnd \in Nat
      /\ UNCHANGED <<pos, process_state>>
      /\ async_pc = "exited" => async_pc' = "exited"
  <2>1. input \in Inputs
    BY DEF ReplayInv, ProcessorInv, BatchesInv, IInv, TypeOK
  <2> QED BY <1>3, <2>1, RangeTypes, DispatchMoves DEF WaitLabels
<1>6. /\ InRange(preload_queue)' <=> InRange(preload_queue)
      /\ Active' <=> Active
  BY <1>1, <1>2 DEF InRange, InPreloadRange, RangeBegin, Active
<1>7. Measured'
  <2>1. NoMoreFrames => NoMoreFrames'
    BY <1>0, ReadingIsOver DEF ReplayInv, ProcessorInv
  <2>2. ASSUME dispatch_pc \notin DispatchLabelsAhead
        PROVE  dispatch_pc' \notin DispatchLabelsAhead /\ ~HeldAtFence
    BY <1>0, <2>2 DEF DispatchStep, LaunchAsyncThread, PopBatch, PopEnd, StoreDequeued, GoDispatch,
       NotifyDequeued, DestroyNotify, Join, DispatchLabelsAhead, HeldAtFence
  <2> HIDE DEF NoMoreFrames, HeldAtFence, InRange, Active, DispatchLabelsAhead
  <2> QED BY <1>1, <1>2, <1>6, <2>1, <2>2 DEF ReplayInv, Measured, Preloading, FrameNumber
<1>8. Phases'
  <2>1. (Active' <=> Active) /\ (Going' <=> Going)
    BY <1>1, <1>2 DEF Active, Going
  <2>2. SUFFICES ASSUME Active, Going
                 PROVE  (BeforeRange \/ AtRange \/ InMeasurement \/ AfterRange)'
    BY <2>1 DEF Phases
  <2>3. BeforeRange \/ AtRange \/ InMeasurement \/ AfterRange
    BY <2>2 DEF ReplayInv, Phases
  <2>4. \A t \in Nat : /\ NotReached(t) => NotReached(t)'
                       /\ \A c \in 0 .. Last : CrossedAt(c, t) =>
                            \E d \in 0 .. Last' : CrossedAt(d, t)' /\ (Held(c) => Held(d)')
    BY <1>3, NotReachedDispatch, CrossedDispatch
  <2>5. EndAhead => EndAhead'
    <3>1. NotReached(RangeEnd) => NotReached(RangeEnd)'
      BY <1>1, <1>5, <2>4 DEF NotReached
    <3>2. ASSUME NEW c \in 0 .. Last, CrossedAt(c, RangeEnd), Held(c) PROVE EndAhead'
      <4>1. \A t \in Nat : t = RangeEnd => \E d \in 0 .. Last' : CrossedAt(d, t)' /\ Held(d)'
        BY <2>4, <3>2
      <4>2. PICK d \in 0 .. Last' : CrossedAt(d, RangeEnd)' /\ Held(d)'
        BY <1>1, <1>5, <4>1
      <4> QED BY <4>2 DEF EndAhead
    <3> QED BY <3>1, <3>2 DEF EndAhead
  <2>6. BeginAhead => BeginAhead'
    <3>1. NotReached(RangeBegin) => NotReached(RangeBegin)'
      BY <1>1, <1>5, <2>4 DEF NotReached
    <3>2. ASSUME NEW c \in 0 .. Last, CrossedAt(c, RangeBegin) PROVE BeginAhead'
      <4>1. \A t \in Nat : t = RangeBegin => \E d \in 0 .. Last' : CrossedAt(d, t)'
        BY <2>4, <3>2
      <4>2. PICK d \in 0 .. Last' : CrossedAt(d, RangeBegin)'
        BY <1>1, <1>5, <4>1
      <4> QED BY <4>2 DEF BeginAhead
    <3> QED BY <3>1, <3>2 DEF BeginAhead
  <2>7. \A k \in {0, 1}, t \in Nat : AllFrom(k, t) => AllFrom(k, t)'
    BY <1>3, FromDispatch
  <2>8. CASE BeforeRange
    BY <1>1, <1>2, <2>5, <2>6, <2>8 DEF BeforeRange, Quiet
  <2>9. CASE AtRange
    <3>1. AllFrom(0, RangeBegin)'
      <4>1. \A t \in Nat : t = RangeBegin => AllFrom(0, t)'
        BY <2>7, <2>9 DEF AtRange
      <4> QED BY <1>1, <1>5, <4>1
    <3> QED BY <1>1, <1>2, <1>5, <1>6, <2>5, <2>9, <3>1 DEF AtRange
  <2>10. ASSUME NEW k \in {0, 1}, BehindRange(k) PROVE BehindRange(k)'
    <3>1. \A t \in Nat : t = RangeBegin + 1 => AllFrom(k, t)'
      BY <2>7, <2>10 DEF BehindRange
    <3>2. RangeBegin + 1 \in Nat /\ (RangeBegin + 1)' = RangeBegin + 1
      BY <1>1, <1>5
    <3>3. AllFrom(k, RangeBegin + 1)'
      BY <3>1, <3>2
    <3> QED BY <1>5, <2>10, <3>2, <3>3 DEF BehindRange
  <2>11. CASE InMeasurement
    <3>1. BehindRange(1) => BehindRange(1)'
      BY <2>10
    <3> QED BY <1>1, <1>2, <1>6, <2>11, <3>1 DEF InMeasurement, EndsTheReplay
  <2>12. CASE AfterRange
    <3>1. BehindRange(0) => BehindRange(0)'
      BY <2>10
    <3> QED BY <1>1, <1>2, <2>12, <3>1 DEF AfterRange, Quiet
  <2> QED BY <2>3, <2>8, <2>9, <2>11, <2>12
<1> QED BY <1>1, <1>4, <1>7, <1>8 DEF ReplayInv

-----------------------------------------------------------------------------
(* What a step of the application does to what is ahead: it moves in its      *)
(* batch, or leaves it.                                                      *)

AppStep ==
  /\ EveryStutterIsEarly /\ ReplayInv
  /\ dispatch_pc = "idle"
  /\ Advance \/ UNCHANGED vars

LEMMA AppMoves ==
  ASSUME AppStep
  PROVE  /\ ProcessorInv'
         /\ UNCHANGED <<input, pos, process_state, async_pc, keep_alive, got, Last>>
         /\ UNCHANGED <<Frames, RangeBegin, RangeEnd>>
         /\ RangeBegin \in Nat /\ RangeEnd \in Nat /\ pos.frame_number \in Nat
         /\ Last \in Nat \ {0} /\ Rest \in Seq(Entries)
         /\ (Active' <=> Active) /\ (NoMoreFrames' <=> NoMoreFrames)
         /\ \A s : InRange(s)' <=> InRange(s)
         /\ \A c : Held(c)' <=> Held(c)
         /\ \A j \in 1 .. Last : AheadAt(j)' = AheadAt(j)
         /\ AheadAt(0) = Rest /\ AheadAt(0)' = Rest'
         /\ Advance => Rest' = <<>> /\ dispatch_pc' = "pop"
         /\ UNCHANGED vars => /\ dispatch_pc' = dispatch_pc
                              /\ (HeldAtFence' <=> HeldAtFence)
                              /\ (cursor' = cursor => Rest' = Rest)
<1>0. ProcessorInv /\ TypeOK /\ cursor \in Nat \ {0} /\ input \in Inputs
  BY DEF AppStep, ReplayInv, ProcessorInv, ClientCounted, BatchesInv, IInv, TypeOK
<1>1. UNCHANGED <<input, pos, process_state, async_pc, keep_alive, got, queue, batch, queue_open,
                  preloading, throttle_wait_target, enqueued_batch_index>>
  BY DEF AppStep, Advance, vars, reader_vars, async_vars, queue_vars, dispatch_vars
<1>2. ProcessorInv'
  <2>1. CASE Advance
    BY <1>0, <2>1, ProcessorInvStep DEF AppStep, Next
  <2>2. CASE UNCHANGED vars
    <3>1. BatchesInv'
      BY <1>0, <2>2, StutterBatchesInv DEF ProcessorInv
    <3>2. /\ UNCHANGED <<LiveBatches, NoMoreFrames, Frames, RangeBegin, RangeEnd>>
          /\ \A e : EndsReading(e)' <=> EndsReading(e)
      BY <1>1 DEF LiveBatches, NoMoreFrames, EndsReading, Frames, RangeBegin, RangeEnd
    <3>3. EndsAreLast' /\ FramesCounted'
      BY <1>0, <1>1, <3>2 DEF ProcessorInv, EndsAreLast, FramesCounted
    <3>4. RangeBegin < RangeEnd => BeginEndsBatch'
      <4>1. \A n : FrameEnd(n)' = FrameEnd(n)
        BY DEF FrameEnd, ResultEntry
      <4>2. FrameEnd(RangeBegin)' = FrameEnd(RangeBegin)
        BY <3>2 DEF FrameEnd, ResultEntry
      <4> QED BY <1>0, <1>1, <3>2, <4>1, <4>2 DEF ProcessorInv, BeginEndsBatch
    <3>5. Flushed' /\ Closing'
      <4>1. dispatch_pc' = dispatch_pc
        BY <2>2 DEF vars, dispatch_vars
      <4> QED BY <1>0, <1>1, <4>1 DEF ProcessorInv, Flushed, Closing, CurrentBatch, AtEndOfQueue
    <3> QED BY <3>1, <3>2, <3>3, <3>4, <3>5 DEF ProcessorInv
  <2> QED BY <2>1, <2>2 DEF AppStep
<1>3. /\ UNCHANGED <<Last, Filling, Frames, RangeBegin, RangeEnd>>
      /\ NoMoreFrames' <=> NoMoreFrames
      /\ Active' <=> Active
      /\ \A s : InRange(s)' <=> InRange(s)
  <2>1. UNCHANGED <<Last, Filling, Frames, RangeBegin, RangeEnd>>
    BY <1>1 DEF Last, Filling, Frames, RangeBegin, RangeEnd
  <2>2. (NoMoreFrames' <=> NoMoreFrames) /\ (Active' <=> Active)
    BY <1>1, <2>1 DEF NoMoreFrames, Active
  <2>3. \A s : InRange(s)' <=> InRange(s)
    BY <1>1, <2>1 DEF InRange, InPreloadRange
  <2> QED BY <2>1, <2>2, <2>3
<1>4. \A c : Held(c)' <=> Held(c)
  BY <1>1, <1>3 DEF Held
<1>5. /\ RangeBegin \in Nat /\ RangeEnd \in Nat /\ pos.frame_number \in Nat
      /\ Last \in Nat \ {0} /\ Rest \in Seq(Entries) /\ AheadAt(0) = Rest
  BY <1>0, RangeTypes, AheadTypes DEF TypeOK, Positions
<1>6. /\ \A j \in 1 .. Last : AheadAt(j)' = AheadAt(j)
      /\ AheadAt(0)' = Rest'
  BY <1>1, <1>3 DEF AheadAt
<1>7. Advance => Rest' = <<>> /\ dispatch_pc' = "pop"
  BY DEF Advance, GoDispatch, Rest
<1>8. ASSUME UNCHANGED vars
      PROVE  /\ dispatch_pc' = dispatch_pc
             /\ (HeldAtFence' <=> HeldAtFence)
             /\ (cursor' = cursor => Rest' = Rest)
  <2>1. dispatch_pc' = dispatch_pc
    BY <1>8 DEF vars, dispatch_vars
  <2>2. HeldAtFence' <=> HeldAtFence
    BY <1>1, <1>3, <1>4, <2>1 DEF HeldAtFence
  <2>3. cursor' = cursor => Rest' = Rest
    BY <1>1, <2>1 DEF Rest, CurrentBatch, AtEndOfQueue
  <2> QED BY <2>1, <2>2, <2>3
<1> QED BY <1>1, <1>2, <1>3, <1>4, <1>5, <1>6, <1>7, <1>8

LEMMA AppAhead ==
  ASSUME AppStep, NEW t \in Nat
  PROVE  /\ AllFrom(1, t) => AllFrom(1, t)'
         /\ AllFrom(1, t) /\ FromFrame(Rest', t) => AllFrom(0, t)'
         /\ AllFrom(0, t) => AllFrom(1, t) /\ FromFrame(Rest, t)
         /\ NotReached(t) => BelowFrame(Rest, t)
         /\ NotReached(t) /\ BelowFrame(Rest', t) => NotReached(t)'
         /\ \A c \in 0 .. Last : CrossedAt(c, t) =>
              /\ c # 0 => BelowFrame(Rest, t)
              /\ c = 0 => EndsBefore(Rest, t) /\ AllFrom(1, t)
              /\ c # 0 /\ BelowFrame(Rest', t) => CrossedAt(c, t)'
              /\ c = 0 /\ EndsBefore(Rest', t) => CrossedAt(c, t)'
<1>0. /\ Last' = Last /\ Last \in Nat \ {0} /\ pos' = pos
      /\ \A j \in 1 .. Last : AheadAt(j)' = AheadAt(j)
      /\ AheadAt(0) = Rest /\ AheadAt(0)' = Rest'
  BY AppMoves
<1>1. AllFrom(1, t) => AllFrom(1, t)'
  BY <1>0 DEF AllFrom, FromFrame
<1>2. AllFrom(1, t) /\ FromFrame(Rest', t) => AllFrom(0, t)'
  <2>1. \A j \in 0 .. Last : j = 0 \/ j \in 1 .. Last
    BY <1>0
  <2> QED BY <1>0, <2>1 DEF AllFrom, FromFrame
<1>3. AllFrom(0, t) => AllFrom(1, t) /\ FromFrame(Rest, t)
  <2>1. 0 \in 0 .. Last /\ \A j \in 1 .. Last : j \in 0 .. Last
    BY <1>0
  <2> QED BY <1>0, <2>1 DEF AllFrom
<1>4. NotReached(t) => BelowFrame(Rest, t)
  <2>1. 0 \in 0 .. Last
    BY <1>0
  <2> QED BY <1>0, <2>1 DEF NotReached
<1>5. NotReached(t) /\ BelowFrame(Rest', t) => NotReached(t)'
  <2>1. \A j \in 0 .. Last : j = 0 \/ j \in 1 .. Last
    BY <1>0
  <2> QED BY <1>0, <2>1 DEF NotReached, BelowFrame
<1>6. ASSUME NEW c \in 0 .. Last, CrossedAt(c, t)
      PROVE  /\ c # 0 => BelowFrame(Rest, t)
             /\ c = 0 => EndsBefore(Rest, t) /\ AllFrom(1, t)
             /\ c # 0 /\ BelowFrame(Rest', t) => CrossedAt(c, t)'
             /\ c = 0 /\ EndsBefore(Rest', t) => CrossedAt(c, t)'
  <2>1. c # 0 => BelowFrame(Rest, t)
    <3>1. c # 0 => 0 \in 0 .. c - 1
      BY <1>0
    <3> QED BY <1>0, <1>6, <3>1 DEF CrossedAt
  <2>2. c = 0 => EndsBefore(Rest, t) /\ AllFrom(1, t)
    BY <1>0, <1>6 DEF CrossedAt, AllFrom
  <2>3. \A j \in c + 1 .. Last : FromFrame(AheadAt(j), t)'
    <3>1. \A j \in c + 1 .. Last : j \in 1 .. Last
      BY <1>0
    <3> QED BY <1>0, <1>6, <3>1 DEF CrossedAt, FromFrame
  <2>4. ASSUME c # 0, BelowFrame(Rest', t) PROVE CrossedAt(c, t)'
    <3>1. \A j \in 0 .. c - 1 : BelowFrame(AheadAt(j), t)'
      <4>1. \A j \in 0 .. c - 1 : j = 0 \/ (j \in 1 .. Last /\ j # 0)
        BY <1>0, <2>4
      <4> QED BY <1>0, <1>6, <2>4, <4>1 DEF CrossedAt, BelowFrame
    <3>2. EndsBefore(AheadAt(c), t)'
      <4>1. c \in 1 .. Last
        BY <1>0, <2>4
      <4> QED BY <1>0, <1>6, <4>1 DEF CrossedAt, EndsBefore
    <3> QED BY <1>0, <1>6, <2>3, <3>1, <3>2 DEF CrossedAt
  <2>5. ASSUME c = 0, EndsBefore(Rest', t) PROVE CrossedAt(c, t)'
    <3>1. \A j \in 0 .. c - 1 : FALSE
      BY <2>5
    <3>2. EndsBefore(AheadAt(c), t)'
      BY <1>0, <2>5 DEF EndsBefore
    <3> QED BY <1>0, <1>6, <2>3, <3>1, <3>2 DEF CrossedAt
  <2> QED BY <2>1, <2>2, <2>4, <2>5
<1> QED BY <1>1, <1>2, <1>3, <1>4, <1>5, <1>6

LEMMA StayKeeps ==
  ASSUME AppStep, UNCHANGED vars, cursor' = cursor
  PROVE  /\ BeginAhead => BeginAhead'
         /\ EndAhead => EndAhead'
         /\ \A k \in {0, 1} : BehindRange(k) => BehindRange(k)'
         /\ AllFrom(0, RangeBegin) => AllFrom(0, RangeBegin)'
<1>0. /\ Rest' = Rest /\ Last' = Last /\ RangeBegin' = RangeBegin /\ RangeEnd' = RangeEnd
      /\ RangeBegin \in Nat /\ RangeEnd \in Nat /\ pos' = pos /\ async_pc' = async_pc
      /\ \A c : Held(c)' <=> Held(c)
  BY AppMoves
<1>1. \A t \in Nat :
         /\ AllFrom(1, t) => AllFrom(1, t)'
         /\ AllFrom(0, t) => AllFrom(0, t)'
         /\ NotReached(t) => NotReached(t)'
         /\ \A c \in 0 .. Last : CrossedAt(c, t) => CrossedAt(c, t)'
  BY <1>0, AppAhead
<1>2. BeginAhead => BeginAhead'
  <2>1. NotReached(RangeBegin) => NotReached(RangeBegin)'
    BY <1>0, <1>1
  <2>2. \A c \in 0 .. Last : CrossedAt(c, RangeBegin) => CrossedAt(c, RangeBegin)'
    BY <1>0, <1>1
  <2> QED BY <1>0, <2>1, <2>2 DEF BeginAhead
<1>3. EndAhead => EndAhead'
  <2>1. NotReached(RangeEnd) => NotReached(RangeEnd)'
    BY <1>0, <1>1
  <2>2. \A c \in 0 .. Last : CrossedAt(c, RangeEnd) => CrossedAt(c, RangeEnd)'
    BY <1>0, <1>1
  <2> QED BY <1>0, <2>1, <2>2 DEF EndAhead
<1>4. ASSUME NEW k \in {0, 1}, BehindRange(k) PROVE BehindRange(k)'
  <2>1. RangeBegin + 1 \in Nat /\ (RangeBegin + 1)' = RangeBegin + 1
    BY <1>0
  <2>2. \A t \in Nat : AllFrom(k, t) => AllFrom(k, t)'
    BY <1>1
  <2>3. AllFrom(k, RangeBegin + 1)'
    BY <1>4, <2>1, <2>2 DEF BehindRange
  <2> QED BY <1>0, <1>4, <2>1, <2>3 DEF BehindRange
<1>5. AllFrom(0, RangeBegin) => AllFrom(0, RangeBegin)'
  BY <1>0, <1>1
<1> QED BY <1>2, <1>3, <1>4, <1>5

(* What the application did not touch stays as it was.                       *)
LEMMA StayPhases ==
  ASSUME AppStep, UNCHANGED vars, cursor' = cursor,
         UNCHANGED <<preload_queue, replay_from_queue, dispatch_frame_number>>
  PROVE  /\ BeforeRange /\ app_pc' \in BetweenFrames \cup {"play"} => BeforeRange'
         /\ AtRange /\ app_pc' \in BetweenFrames \cup {"preload_range"}
              /\ (app_pc # "preload_range" \/ app_pc' = "preload_range") => AtRange'
         /\ /\ InMeasurement /\ app_pc' \in BetweenFrames \cup {"play"}
            /\ app_pc' # "play" => app_pc # "play"
            => InMeasurement'
         /\ /\ AfterRange /\ app_pc' \in BetweenFrames \cup {"play"}
            /\ app_pc' # "play" => app_pc # "play"
            => AfterRange'
<1>0. /\ RangeBegin' = RangeBegin /\ RangeEnd' = RangeEnd /\ pos' = pos
      /\ InRange(preload_queue)' <=> InRange(preload_queue)
  <2>1. /\ \A s : InRange(s)' <=> InRange(s)
        /\ RangeBegin' = RangeBegin /\ RangeEnd' = RangeEnd /\ pos' = pos /\ input' = input
    BY AppMoves
  <2> QED BY <2>1 DEF InRange, InPreloadRange
<1>1. /\ BeginAhead => BeginAhead'
      /\ EndAhead => EndAhead'
      /\ BehindRange(0) => BehindRange(0)'
      /\ BehindRange(1) => BehindRange(1)'
      /\ AllFrom(0, RangeBegin) => AllFrom(0, RangeBegin)'
  BY StayKeeps
<1>2. BeforeRange /\ app_pc' \in BetweenFrames \cup {"play"} => BeforeRange'
  BY <1>0, <1>1 DEF BeforeRange, Quiet, BetweenFrames
<1>3. AtRange /\ app_pc' \in BetweenFrames \cup {"preload_range"}
              /\ (app_pc # "preload_range" \/ app_pc' = "preload_range") => AtRange'
  BY <1>0, <1>1 DEF AtRange, BetweenFrames
<1>4. /\ InMeasurement /\ app_pc' \in BetweenFrames \cup {"play"}
      /\ app_pc' # "play" => app_pc # "play"
      => InMeasurement'
  BY <1>0, <1>1 DEF InMeasurement, BetweenFrames, EndsTheReplay
<1>5. /\ AfterRange /\ app_pc' \in BetweenFrames \cup {"play"}
      /\ app_pc' # "play" => app_pc # "play"
      => AfterRange'
  BY <1>0, <1>1 DEF AfterRange, Quiet, BetweenFrames
<1> QED BY <1>2, <1>3, <1>4, <1>5

(* Where only the place of the application and what it preloads may change.  *)
LEMMA StayInv ==
  ASSUME AppStep, UNCHANGED vars, cursor' = cursor,
         UNCHANGED <<looping, dispatch_frame_number>>,
         ClientCounted', Measured', Phases', app_pc' \notin {"quit", "ended"} => app_pc \notin {"quit", "ended"}
  PROVE  ReplayInv'
<1>1. ProcessorInv' /\ keep_alive' = keep_alive /\ dispatch_pc' = dispatch_pc
  BY AppMoves
<1>2. Alive' /\ AtHead'
  BY <1>1 DEF AppStep, ReplayInv, Alive, AtHead
<1> QED BY <1>1, <1>2 DEF ReplayInv

-----------------------------------------------------------------------------
(* The steps of the application that do not touch the queue.                 *)

LEMMA CountedStays ==
  ASSUME AppStep, cursor' \in Nat \ {0},
         UNCHANGED <<looping, dispatch_frame_number, preload_at>>,
         preload_queue' = preload_queue \/ preload_queue' = <<>>
  PROVE  ClientCounted'
<1>1. Frames' = Frames /\ ClientCounted
  BY AppMoves DEF AppStep, ReplayInv
<1>2. CASE preload_queue' = preload_queue
  BY <1>1, <1>2 DEF ClientCounted
<1>3. CASE preload_queue' = <<>>
  <2>1. preload_queue' \in Seq(Entries) /\ \A i \in 1 .. Len(preload_queue') : FALSE
    BY <1>3
  <2> QED BY <1>1, <2>1 DEF ClientCounted
<1> QED BY <1>2, <1>3

LEMMA NoEventStep ==
  ASSUME AppStep, UNCHANGED vars, cursor' = cursor, NoEvent(input.options)
  PROVE  ReplayInv'
<1>0. /\ app_pc = "events"
      /\ UNCHANGED <<looping, dispatch_frame_number, success, preload_at, replay_from_queue>>
      /\ \/ /\ AtLoopFrame(input.options, FrameNumber) /\ ~looping
            /\ app_pc' = "preload_loop" /\ preload_queue' = <<>>
         \/ app_pc' = "limits" /\ preload_queue' = preload_queue
  BY DEF NoEvent, StartPreload, GoApp, preload_vars, loop_vars
<1>1. /\ input' = input /\ Frames' = Frames /\ (Active' <=> Active)
      /\ NoMoreFrames' <=> NoMoreFrames
      /\ HeldAtFence' <=> HeldAtFence
      /\ \A s : InRange(s)' <=> InRange(s)
      /\ dispatch_pc' = dispatch_pc /\ input \in Inputs
  BY AppMoves DEF AppStep, ReplayInv, ProcessorInv, BatchesInv, IInv, TypeOK
<1>2. ClientCounted'
  <2>1. cursor' \in Nat \ {0}
    BY DEF AppStep, ReplayInv, ClientCounted
  <2> QED BY <1>0, <2>1, CountedStays
<1>3. CASE app_pc' = "preload_loop"
  <2>1. ~input.options.preload /\ ~replay_from_queue
    <3>1. ~input.options.preload
      BY <1>0, <1>1, <1>3, OptionTypes DEF AtLoopFrame
    <3> QED BY <1>0, <1>3, <3>1 DEF AppStep, ReplayInv, Measured
  <2>2. Measured'
    BY <1>0, <1>1, <1>3, <2>1 DEF Measured, FrameNumber, AtLoopFrame, Preloading
  <2>3. Phases'
    BY <1>1, <2>1 DEF Phases, Active
  <2> QED BY <1>0, <1>2, <2>2, <2>3, StayInv
<1>4. CASE app_pc' = "limits" /\ preload_queue' = preload_queue
  <2>1. Measured'
    <3>1. InRange(preload_queue)' <=> InRange(preload_queue)
      BY <1>1, <1>4 DEF InRange, InPreloadRange, RangeBegin
    <3> HIDE DEF InRange, HeldAtFence, NoMoreFrames
    <3> QED BY <1>0, <1>1, <1>4, <3>1 DEF AppStep, ReplayInv, Measured, Preloading
  <2>2. Phases'
    <3>1. Active /\ Going' => BeforeRange \/ AtRange \/ InMeasurement \/ AfterRange
      BY <1>0 DEF AppStep, ReplayInv, Phases, Going
    <3> QED BY <1>0, <1>1, <1>4, <3>1, StayPhases DEF Phases, BetweenFrames
  <2> QED BY <1>0, <1>2, <1>4, <2>1, <2>2, StayInv
<1> QED BY <1>0, <1>3, <1>4

LEMMA CheckLimitsStep ==
  ASSUME AppStep, UNCHANGED vars, cursor' = cursor, CheckLimits(input.options)
  PROVE  ReplayInv'
<1> DEFINE o == input.options
           quits == ShouldQuit(o, FrameNumber)
           preloads == o.preload /\ dispatch_frame_number + 1 = o.range_begin
<1>1. /\ input' = input /\ Frames' = Frames /\ (Active' <=> Active)
      /\ NoMoreFrames' <=> NoMoreFrames
      /\ HeldAtFence' <=> HeldAtFence
      /\ \A s : InRange(s)' <=> InRange(s)
      /\ RangeBegin \in Nat /\ RangeEnd \in Nat
      /\ dispatch_pc' = dispatch_pc /\ input \in Inputs
  BY AppMoves DEF AppStep, ReplayInv, ProcessorInv, BatchesInv, IInv, TypeOK
<1>2. /\ app_pc = "limits"
      /\ UNCHANGED <<looping, dispatch_frame_number, success, preload_at, replay_from_queue>>
      /\ \/ ~quits /\ preloads /\ app_pc' = "preload_range" /\ preload_queue' = <<>>
         \/ /\ app_pc' \in {"ended", "play"} /\ preload_queue' = preload_queue
            /\ app_pc' = "play" => ~preloads
  <2>1. /\ o.range_begin \in Nat /\ o.range_end \in Nat /\ o.range_begin < o.range_end
        /\ o.range_end - o.range_begin > 0
    <3>1. o.range_begin \in Nat /\ o.range_end \in Nat /\ o.range_begin < o.range_end
      BY <1>1, OptionTypes
    <3> HIDE DEF o
    <3> QED BY <3>1
  <2>2. ShouldPreloadFrames(o, FrameNumber) > 0 <=> preloads
    BY <2>1 DEF ShouldPreloadFrames, FrameNumber
  <2> HIDE DEF quits, preloads
  <2> QED BY <2>2 DEF CheckLimits, StartPreload, GoApp, preload_vars, loop_vars, quits
<1>3. ClientCounted'
  <2>1. cursor' \in Nat \ {0}
    BY DEF AppStep, ReplayInv, ClientCounted
  <2> QED BY <1>2, <2>1, CountedStays
<1>4. /\ o.preload => ~looping
      /\ o.preload => dispatch_frame_number \in 0 .. Frames /\ Frames \in Nat
  BY <1>1, OptionTypes DEF AppStep, ReplayInv, Measured, ClientCounted
<1>5. Active => BeforeRange \/ AtRange \/ InMeasurement \/ AfterRange
  BY <1>2 DEF AppStep, ReplayInv, Phases, Going
<1>6. CASE ~quits /\ preloads /\ app_pc' = "preload_range" /\ preload_queue' = <<>>
  <2>1. dispatch_frame_number = RangeBegin /\ Active
    <3>1. o.preload /\ dispatch_frame_number + 1 = o.range_begin
      BY <1>6
    <3>2. \A f \in 0 .. Frames : f + 1 = o.range_begin => f = RangeBegin /\ RangeBegin < RangeEnd
      BY <1>1, <3>1, RangeLimits
    <3> QED BY <1>4, <3>1, <3>2 DEF Active
  <2>2. AtRange
    BY <1>1, <1>2, <1>5, <2>1 DEF BeforeRange, InMeasurement, AfterRange
  <2>3. InRange(<<>>)'
    BY DEF InRange
  <2>4. AtRange'
    <3>1. /\ EndAhead' /\ AllFrom(0, RangeBegin)'
          /\ RangeBegin' = RangeBegin /\ pos' = pos
      BY <2>2, StayKeeps, AppMoves DEF AtRange
    <3>2. InRange(preload_queue)'
      BY <1>6 DEF InRange
    <3> HIDE DEF InRange
    <3> QED BY <1>2, <1>6, <2>2, <3>1, <3>2 DEF AtRange
  <2>5. Measured'
    <3>1. ~replay_from_queue' /\ ~looping' /\ Active'
      BY <1>1, <1>2, <1>4, <2>1, <2>2 DEF AtRange, Active
    <3> QED BY <1>6, <3>1 DEF Measured
  <2> QED BY <1>2, <1>3, <1>6, <2>4, <2>5, StayInv DEF Phases
<1>7. CASE /\ app_pc' \in {"ended", "play"} /\ preload_queue' = preload_queue
           /\ app_pc' = "play" => ~preloads
  <2>1. Measured'
    <3>1. InRange(preload_queue)' <=> InRange(preload_queue)
      BY <1>1, <1>7 DEF InRange, InPreloadRange, RangeBegin
    <3> HIDE DEF InRange, HeldAtFence, NoMoreFrames
    <3> QED BY <1>1, <1>2, <1>7, <3>1 DEF AppStep, ReplayInv, Measured, Preloading
  <2>2. Phases'
    <3>1. SUFFICES ASSUME Active, app_pc' = "play"
                   PROVE  (BeforeRange \/ AtRange \/ InMeasurement \/ AfterRange)'
      BY <1>1, <1>7 DEF Phases, Going
    <3>2. ~AtRange
      <4>1. SUFFICES ASSUME dispatch_frame_number = RangeBegin PROVE preloads
        BY <1>7, <3>1 DEF AtRange
      <4>2. o.preload /\ RangeBegin <= Frames
        BY <1>1, <1>4, <3>1, <4>1 DEF Active
      <4> QED BY <1>1, <4>1, <4>2, RangeLimits
    <3> QED BY <1>2, <1>5, <1>7, <3>1, <3>2, StayPhases
  <2>3. app_pc' \notin {"quit", "ended"} => app_pc \notin {"quit", "ended"}
    BY <1>2
  <2> QED BY <1>2, <1>3, <2>1, <2>2, <2>3, StayInv
<1> QED BY <1>2, <1>6, <1>7

LEMMA EndFrameStep ==
  ASSUME AppStep, UNCHANGED vars, cursor' = cursor, EndFrame
  PROVE  ReplayInv'
<1>0. /\ app_pc = "end_frame"
      /\ UNCHANGED <<looping, dispatch_frame_number, success, preload_at, replay_from_queue,
                     preload_queue>>
      /\ app_pc' \in {"ended", "events"}
      /\ app_pc' = "events" => success
  BY DEF EndFrame, GoApp, preload_vars, loop_vars
<1>1. /\ input' = input /\ Frames' = Frames /\ (Active' <=> Active)
      /\ NoMoreFrames' <=> NoMoreFrames
      /\ HeldAtFence' <=> HeldAtFence
      /\ \A s : InRange(s)' <=> InRange(s)
      /\ dispatch_pc' = dispatch_pc
  BY AppMoves
<1>2. ClientCounted'
  <2>1. cursor' \in Nat \ {0}
    BY DEF AppStep, ReplayInv, ClientCounted
  <2> QED BY <1>0, <2>1, CountedStays
<1>3. Measured'
  <2>1. InRange(preload_queue)' <=> InRange(preload_queue)
    <3>1. \A s : InRange(s)' <=> InRange(s)
      BY <1>1
    <3>2. RangeBegin' = RangeBegin
      BY AppMoves
    <3> QED BY <1>0, <1>1, <3>2 DEF InRange, InPreloadRange
  <2> HIDE DEF InRange, HeldAtFence, NoMoreFrames
  <2> QED BY <1>0, <1>1, <2>1 DEF AppStep, ReplayInv, Measured, Preloading
<1>4. Phases'
  <2>1. Active /\ Going' => BeforeRange \/ AtRange \/ InMeasurement \/ AfterRange
    BY <1>0 DEF AppStep, ReplayInv, Phases, Going
  <2> QED BY <1>0, <1>1, <2>1, StayPhases DEF Phases, BetweenFrames, Going
<1>5. app_pc' \notin {"quit", "ended"} => app_pc \notin {"quit", "ended"}
  BY <1>0
<1> QED BY <1>0, <1>2, <1>3, <1>4, <1>5, StayInv

(* A frame of what was preloaded is replayed.                                *)
LEMMA PlayFromQueueStep ==
  ASSUME AppStep, UNCHANGED vars, cursor' = cursor, PlayFromQueue
  PROVE  ReplayInv'
<1> DEFINE rest == SubSeq(preload_queue, preload_at, Len(preload_queue))
           n == EntriesOfFrame(rest)
<1>0. /\ app_pc = "play" /\ replay_from_queue
      /\ UNCHANGED <<looping, preload_queue>>
      /\ IF HasTerminator(rest)
           THEN /\ HandleReplayResult(rest[n])
                /\ app_pc' = "end_frame"
                /\ IF looping THEN replay_from_queue' = replay_from_queue
                   ELSE /\ preload_at' = preload_at + n
                        /\ success' = ContinueProcessing(rest[n].state)
                        /\ replay_from_queue' = (preload_at + n <= Len(preload_queue))
           ELSE app_pc' = "aborted"
                /\ UNCHANGED <<dispatch_frame_number, preload_at, replay_from_queue>>
  BY DEF PlayFromQueue, GoApp, loop_vars
<1>1. /\ input' = input /\ Frames' = Frames /\ (Active' <=> Active)
      /\ NoMoreFrames' <=> NoMoreFrames
      /\ HeldAtFence' <=> HeldAtFence
      /\ \A s : InRange(s)' <=> InRange(s)
      /\ RangeBegin \in Nat /\ RangeBegin' = RangeBegin
      /\ dispatch_pc' = dispatch_pc /\ input \in Inputs
      /\ ProcessorInv' /\ keep_alive' = keep_alive
  BY AppMoves DEF AppStep, ReplayInv, ProcessorInv, BatchesInv, IInv, TypeOK
<1>2. /\ ClientCounted /\ Measured /\ Alive /\ AtHead
      /\ preload_queue \in Seq(Entries) /\ Len(preload_queue) \in Nat /\ Frames \in Nat
  BY <1>1, OptionTypes DEF AppStep, ReplayInv, ClientCounted
<1>3. Alive' /\ AtHead'
  BY <1>0, <1>1, <1>2 DEF Alive, AtHead
<1>4. Measured'
  <2>1. InRange(preload_queue)' <=> InRange(preload_queue)
    BY <1>0, <1>1 DEF InRange, InPreloadRange
  <2>2. replay_from_queue' => replay_from_queue
    BY <1>0
  <2> HIDE DEF InRange, HeldAtFence, NoMoreFrames, n, rest
  <2> QED BY <1>0, <1>1, <1>2, <2>1, <2>2 DEF Measured, Preloading
<1>5. CASE ~HasTerminator(rest)
  <2>1. ClientCounted'
    BY <1>0, <1>1, <1>2, <1>5 DEF ClientCounted, AppStep
  <2>2. Phases'
    BY <1>0, <1>5 DEF Phases, Going
  <2> QED BY <1>1, <1>3, <1>4, <2>1, <2>2 DEF ReplayInv
<1>6. CASE looping
  <2>1. ClientCounted'
    BY <1>0, <1>1, <1>2, <1>6 DEF ClientCounted, AppStep
  <2>2. Phases'
    <3>1. ~input.options.preload
      BY <1>2, <1>6 DEF Measured
    <3> QED BY <1>1, <3>1 DEF Phases, Active
  <2> QED BY <1>1, <1>3, <1>4, <2>1, <2>2 DEF ReplayInv
<1>7. CASE HasTerminator(rest) /\ ~looping
  <2>1. preload_at \in Nat \ {0} /\ dispatch_frame_number \in 0 .. Frames
    BY <1>2, <1>7 DEF ClientCounted
  <2>2. /\ rest \in Seq(Entries)
        /\ preload_at > Len(preload_queue) => rest = <<>>
        /\ preload_at <= Len(preload_queue) =>
              /\ Len(rest) = Len(preload_queue) - preload_at + 1
              /\ \A i \in 1 .. Len(rest) : /\ rest[i] = preload_queue[preload_at + i - 1]
                                           /\ preload_at + i - 1 \in 1 .. Len(preload_queue)
    BY <1>2, <2>1, Suffix
  <2> HIDE DEF rest
  <2>3. n \in 1 .. Len(rest) /\ IsTerminator(rest[n])
    BY <1>7, <2>2, FrameIsTaken
  <2>4. /\ preload_at <= Len(preload_queue)
        /\ rest[n] = preload_queue[preload_at + n - 1]
        /\ preload_at + n - 1 \in 1 .. Len(preload_queue)
        /\ n \in Nat \ {0} /\ preload_at + n \in Nat \ {0}
    <3>1. rest # <<>>
      BY <2>3
    <3> HIDE DEF n
    <3>2. preload_at <= Len(preload_queue)
      BY <1>2, <2>1, <2>2, <3>1
    <3> QED BY <1>2, <2>1, <2>2, <2>3, <3>2
  <2> DEFINE e == rest[n]
  <2>5. /\ e \in Entries /\ IsResult(e) /\ e.state # "kContinue"
        /\ e.next_frame \in Nat \cup {NoFrame} /\ e.next_frame <= Frames
    <3>1. e \in Entries /\ NumberOf(e) <= Frames
      BY <1>2, <2>4 DEF ClientCounted
    <3>2. IsResult(e) /\ e.state # "kContinue"
      BY <2>3 DEF IsTerminator
    <3> QED BY <3>1, <3>2, EntryKinds DEF NumberOf
  <2>6. /\ dispatch_frame_number' = IF e.next_frame = NoFrame THEN dispatch_frame_number
                                                              ELSE e.next_frame
        /\ success' = ContinueProcessing(e.state)
        /\ app_pc' = "end_frame" /\ preload_at' = preload_at + n
        /\ replay_from_queue' = (preload_at + n <= Len(preload_queue))
    BY <1>0, <1>7 DEF HandleReplayResult
  <2>7. e = preload_queue[preload_at + n - 1]
    BY <2>4
  <2> HIDE DEF e, n
  <2>8. ClientCounted'
    <3>1. dispatch_frame_number' \in 0 .. Frames
      BY <1>2, <2>1, <2>5, <2>6 DEF NoFrame
    <3>2. cursor' \in Nat \ {0} /\ preload_at' \in Nat \ {0}
      BY <1>2, <2>4, <2>6 DEF ClientCounted
    <3> QED BY <1>0, <1>1, <1>2, <3>1, <3>2 DEF ClientCounted
  <2>9. Phases'
    <3> SUFFICES ASSUME Active, success' PROVE InMeasurement'
      BY <1>1, <2>6 DEF Phases, Going
    <3>1. InMeasurement
      BY <1>0 DEF AppStep, ReplayInv, Phases, Going, BeforeRange, AtRange, AfterRange, Quiet
    <3>2. e.state = "kFrameBoundary"
      BY <2>5, <2>6 DEF ContinueProcessing
    <3>3. dispatch_frame_number' > RangeBegin
      <4>1. e.next_frame > RangeBegin
        BY <2>4, <2>5, <2>7, <3>1, <3>2 DEF InMeasurement, InRange
      <4> QED BY <1>1, <2>6, <4>1 DEF NoFrame
    <3>4. (BehindRange(1) \/ (replay_from_queue /\ EndsTheReplay(preload_queue)))'
      <4>1. CASE BehindRange(1)
        <5>1. BehindRange(1)'
          BY <4>1, StayKeeps
        <5> QED BY <5>1
      <4>2. CASE EndsTheReplay(preload_queue)
        <5>1. preload_at + n - 1 # Len(preload_queue)
          BY <2>7, <3>2, <4>2 DEF EndsTheReplay, ContinueProcessing
        <5>2. replay_from_queue'
          <6>1. preload_at + n <= Len(preload_queue)
            <7>1. n \in Nat /\ preload_at \in Nat
              BY <2>1, <2>4
            <7> QED BY <1>2, <2>4, <5>1, <7>1
          <6> QED BY <2>6, <6>1
        <5>3. EndsTheReplay(preload_queue)'
          BY <1>0, <4>2 DEF EndsTheReplay
        <5> QED BY <5>2, <5>3
      <4> QED BY <3>1, <4>1, <4>2 DEF InMeasurement
    <3>5. InRange(preload_queue)'
      <4>1. InRange(preload_queue)' <=> InRange(preload_queue)
        BY <1>0, <1>1 DEF InRange, InPreloadRange
      <4> QED BY <3>1, <4>1 DEF InMeasurement
    <3> HIDE DEF InRange
    <3> QED BY <1>0, <1>1, <2>6, <3>1, <3>3, <3>4, <3>5 DEF InMeasurement, BetweenFrames
  <2> QED BY <1>1, <1>3, <1>4, <2>8, <2>9 DEF ReplayInv
<1> QED BY <1>5, <1>6, <1>7

LEMMA ClientStep ==
  ASSUME EveryStutterIsEarly, ReplayInv, Client
  PROVE  ReplayInv'
<1>1. AppStep /\ UNCHANGED vars /\ cursor' = cursor
  BY DEF AppStep, Client, StayAt, Idle, processor_vars
<1> QED BY <1>1, NoEventStep, CheckLimitsStep, PlayFromQueueStep, EndFrameStep DEF Client

-----------------------------------------------------------------------------
(* Preloading                                                                *)

LEMMA AppAlive ==
  ASSUME AppStep, app_pc' \notin {"quit", "ended"} => app_pc \notin {"quit", "ended"},
         (Advance /\ cursor' = 1) \/ UNCHANGED vars
  PROVE  Alive' /\ AtHead'
<1>1. Alive /\ AtHead /\ keep_alive' = keep_alive /\ dispatch_pc = "idle"
      /\ (Advance => dispatch_pc' = "pop") /\ (UNCHANGED vars => dispatch_pc' = dispatch_pc)
  BY AppMoves DEF AppStep, ReplayInv
<1> QED BY <1>1 DEF Alive, AtHead, DispatchLabelsAhead

LEMMA Concatenated ==
  ASSUME NEW s \in Seq(Entries), NEW t \in Seq(Entries), t # <<>>
  PROVE  LET u == s \o t IN
         /\ u \in Seq(Entries) /\ u # <<>> /\ u[Len(u)] = t[Len(t)]
         /\ Len(t) \in 1 .. Len(t)
         /\ \A i \in 1 .. Len(u) : \/ \E k \in 1 .. Len(s) : u[i] = s[k]
                                   \/ \E k \in 1 .. Len(t) : u[i] = t[k]
<1> DEFINE u == s \o t
<1>1. /\ Len(s) \in Nat /\ Len(t) \in Nat /\ Len(t) # 0 /\ u \in Seq(Entries)
      /\ Len(u) = Len(s) + Len(t)
      /\ \A i \in 1 .. Len(u) : u[i] = IF i <= Len(s) THEN s[i] ELSE t[i - Len(s)]
  OBVIOUS
<1> HIDE DEF u
<1>2. u # <<>> /\ Len(u) \in 1 .. Len(u) /\ Len(u) - Len(s) = Len(t) /\ ~(Len(u) <= Len(s))
  BY <1>1
<1>3. \A i \in 1 .. Len(u) : i \in 1 .. Len(s) \/ (i - Len(s) \in 1 .. Len(t) /\ ~(i <= Len(s)))
  BY <1>1
<1>4. u[Len(u)] = t[Len(t)]
  BY <1>1, <1>2
<1>5. \A i \in 1 .. Len(u) : \/ \E k \in 1 .. Len(s) : u[i] = s[k]
                             \/ \E k \in 1 .. Len(t) : u[i] = t[k]
  BY <1>1, <1>3
<1>6. Len(t) \in 1 .. Len(t)
  BY <1>1
<1> QED BY <1>1, <1>2, <1>4, <1>5, <1>6 DEF u

(* The batch the application is at.                                          *)
LEMMA BatchAt ==
  ASSUME AppStep, ~AtEndOfQueue
  PROVE  LET b == CurrentBatch.blocks IN
         /\ b \in Seq(Entries) /\ b # <<>> /\ b \in LiveBatches
         /\ Rest = SubSeq(b, cursor, Len(b))
         /\ cursor = 1 => Rest = b
         /\ Len(b) \in 1 .. Len(b)
         /\ \A i \in 1 .. Len(b) : b[i] \in Entries /\ NumberOf(b[i]) <= Frames
<1>1. /\ TypeOK /\ Flushed /\ FramesCounted /\ cursor \in Nat \ {0} /\ dispatch_pc = "idle"
  BY DEF AppStep, ReplayInv, ProcessorInv, ClientCounted, BatchesInv, IInv
<1>2. CurrentBatch \in Batch /\ CurrentBatch # NoBatch
  BY <1>1 DEF TypeOK, CurrentBatch, AtEndOfQueue
<1>3. CurrentBatch.blocks \in Seq(Entries) /\ CurrentBatch.blocks # <<>>
  BY <1>1, <1>2 DEF Batch, Flushed
<1>4. CurrentBatch.blocks \in LiveBatches
  BY <1>2 DEF LiveBatches, CurrentBatch
<1>5. Rest = SubSeq(CurrentBatch.blocks, cursor, Len(CurrentBatch.blocks))
  BY <1>1 DEF Rest
<1>6. cursor = 1 => Rest = CurrentBatch.blocks
  BY <1>3, <1>5, Suffix
<1>7. Len(CurrentBatch.blocks) \in 1 .. Len(CurrentBatch.blocks)
  BY <1>3
<1>8. \A i \in 1 .. Len(CurrentBatch.blocks) : CurrentBatch.blocks[i] \in Entries
                                        /\ NumberOf(CurrentBatch.blocks[i]) <= Frames
  BY <1>1, <1>3, <1>4 DEF FramesCounted
<1> QED BY <1>3, <1>4, <1>5, <1>6, <1>7, <1>8

(* The result that carries a number is the end of its frame.                  *)
LEMMA FrameEnds ==
  ASSUME NEW e \in Entries, IsResult(e), e.state = "kFrameBoundary"
  PROVE  e = FrameEnd(e.next_frame) /\ NumberOf(e) = e.next_frame /\ e # ContinueEntry
<1>1. e \in ResultEntries
  BY DEF Entries, BlockEntries, IsResult
<1>2. e = [state |-> e.state, next_frame |-> e.next_frame]
  BY <1>1 DEF ResultEntries
<1>3. ContinueEntry.state = "kContinue"
  BY EntryKinds DEF ContinueEntry
<1> QED BY <1>2, <1>3 DEF FrameEnd, ResultEntry, NumberOf

(* What there is of the range in a batch that is preloaded.                   *)
LEMMA BatchIsOfRange ==
  ASSUME AppStep, ~AtEndOfQueue, Active, AtRange
  PROVE  LET b == CurrentBatch.blocks IN
         /\ \A i \in 1 .. Len(b) :
              /\ ~IsResult(b[i]) => InPreloadRange(b[i].frame)
              /\ IsResult(b[i]) /\ b[i].state = "kFrameBoundary" =>
                   /\ b[i].next_frame >= RangeBegin
                   /\ i # Len(b) => b[i].next_frame > RangeBegin
<1> DEFINE b == CurrentBatch.blocks
<1>1. /\ b \in Seq(Entries) /\ b # <<>> /\ b \in LiveBatches /\ Len(b) \in 1 .. Len(b)
      /\ Rest = b /\ \A i \in 1 .. Len(b) : b[i] \in Entries
  BY BatchAt DEF AtRange
<1>2. /\ RangeBegin \in Nat /\ RangeEnd \in Nat /\ RangeBegin < RangeEnd
  BY AppMoves DEF Active
<1>3. FromFrame(b, RangeBegin)
  BY <1>1, <1>2, AppAhead DEF AtRange
<1>4. \A i \in 1 .. Len(b) : i # Len(b) => b[i] # FrameEnd(RangeBegin)
  BY <1>1, <1>2 DEF AppStep, ReplayInv, ProcessorInv, BeginEndsBatch
<1>5. BelowFrame(b, RangeEnd) \/ EndsBefore(b, RangeEnd)
  BY <1>1, <1>2, AppAhead DEF AtRange, EndAhead
<1> HIDE DEF b
<1>6. ASSUME NEW i \in 1 .. Len(b), ~IsResult(b[i]) PROVE InPreloadRange(b[i].frame)
  <2>1. NumberOf(b[i]) = b[i].frame /\ b[i].frame \in Nat /\ b[i] # ContinueEntry
    BY <1>1, <1>6, EntryKinds DEF NumberOf, ContinueEntry
  <2>2. b[i].frame >= RangeBegin
    BY <1>3, <1>6, <2>1 DEF FromFrame
  <2>3. b[i].frame < RangeEnd
    <3>1. CASE BelowFrame(b, RangeEnd)
      BY <1>6, <2>1, <3>1 DEF BelowFrame
    <3>2. CASE EndsBefore(b, RangeEnd)
      <4>1. i # Len(b)
        BY <1>6, <3>2, EntryKinds DEF EndsBefore, FrameEnd
      <4>2. i \in 1 .. Len(b) - 1
        BY <1>1, <4>1
      <4> QED BY <2>1, <3>2, <4>2 DEF EndsBefore
    <3> QED BY <1>5, <3>1, <3>2
  <2> QED BY <1>2, <2>1, <2>2, <2>3 DEF InPreloadRange, RangeBegin, RangeEnd
<1>7. ASSUME NEW i \in 1 .. Len(b), IsResult(b[i]), b[i].state = "kFrameBoundary"
      PROVE  /\ b[i].next_frame >= RangeBegin
             /\ i # Len(b) => b[i].next_frame > RangeBegin
  <2>1. b[i] = FrameEnd(b[i].next_frame) /\ NumberOf(b[i]) = b[i].next_frame /\ b[i] # ContinueEntry
    BY <1>1, <1>7, FrameEnds
  <2>2. b[i].next_frame >= RangeBegin
    BY <1>3, <2>1 DEF FromFrame
  <2>3. b[i].next_frame \in Nat \cup {NoFrame}
    BY <1>1, <1>7, EntryKinds
  <2> QED BY <1>2, <1>4, <2>1, <2>2, <2>3 DEF NoFrame
<1> QED BY <1>6, <1>7 DEF b

(* What a batch adds to what is preloaded.                                   *)
PreloadsBatch(taken, tail, kept) ==
  /\ taken \in Seq(Entries) /\ tail \in Entries /\ kept \in {<<>>, taken}
  /\ taken # <<>> /\ tail = taken[Len(taken)]
  /\ tail = CurrentBatch.blocks[Len(CurrentBatch.blocks)]
  /\ \A i \in 1 .. Len(taken) :
       \/ \E k \in 1 .. Len(preload_queue) : taken[i] = preload_queue[k]
       \/ \E k \in 1 .. Len(CurrentBatch.blocks) : taken[i] = CurrentBatch.blocks[k]
  /\ kept = <<>> <=> IsTerminator(tail) /\ IsLeadingStutter(tail)
  /\ preload_queue' = kept
  /\ UNCHANGED dispatch_frame_number
  /\ \/ /\ IsTerminator(tail) => MorePreload(input.options, tail)
        /\ Advance /\ cursor' = 1
        /\ UNCHANGED <<app_pc, preload_at, replay_from_queue, looping>>
     \/ /\ IsTerminator(tail) /\ ~MorePreload(input.options, tail)
        /\ FinishPreload(input.capture, kept)
        /\ UNCHANGED vars /\ cursor' = cursor

LEMMA PreloadTakes ==
  ASSUME AppStep, PreloadBatch
  PROVE  \E taken, tail, kept : PreloadsBatch(taken, tail, kept)
<1> DEFINE b == CurrentBatch.blocks
           taken == preload_queue \o b
           tail == taken[Len(taken)]
           stutter == IsTerminator(tail) /\ IsLeadingStutter(tail)
           kept == IF stutter THEN <<>> ELSE taken
<1>1. ~AtEndOfQueue /\ preload_queue \in Seq(Entries)
  BY DEF PreloadBatch, AppStep, ReplayInv, ClientCounted
<1>2. b \in Seq(Entries) /\ b # <<>>
  BY <1>1, BatchAt
<1>3. /\ taken \in Seq(Entries) /\ taken # <<>> /\ tail = b[Len(b)] /\ Len(b) \in 1 .. Len(b)
      /\ \A i \in 1 .. Len(taken) :
           \/ \E k \in 1 .. Len(preload_queue) : taken[i] = preload_queue[k]
           \/ \E k \in 1 .. Len(b) : taken[i] = b[k]
  <2> HIDE DEF b
  <2> QED BY <1>1, <1>2, Concatenated
<1>4. tail \in Entries
  <2> HIDE DEF b, taken, tail
  <2> QED BY <1>2, <1>3
<1>5. /\ preload_queue' = kept
      /\ UNCHANGED dispatch_frame_number
      /\ \/ /\ IsTerminator(tail) => MorePreload(input.options, tail)
            /\ Advance /\ cursor' = 1
            /\ UNCHANGED <<app_pc, preload_at, replay_from_queue, looping>>
         \/ /\ IsTerminator(tail) /\ ~MorePreload(input.options, tail)
            /\ FinishPreload(input.capture, kept)
            /\ UNCHANGED vars /\ cursor' = cursor
  BY DEF PreloadBatch, NextBatch, StayAt, processor_vars, loop_vars, FinishPreload
<1>6. kept \in {<<>>, taken} /\ (kept = <<>> <=> stutter)
  <2> HIDE DEF taken, stutter
  <2> QED BY <1>3
<1> HIDE DEF taken, tail, kept
<1> QED BY <1>3, <1>4, <1>5, <1>6 DEF tail, b, PreloadsBatch

(* What is preloaded stays within the capture.                               *)
LEMMA PreloadCounted ==
  ASSUME AppStep, PreloadBatch, NEW taken, NEW tail, NEW kept, PreloadsBatch(taken, tail, kept)
  PROVE  /\ preload_queue' \in Seq(Entries)
         /\ \A i \in 1 .. Len(preload_queue') : NumberOf(preload_queue'[i]) <= Frames
<1>1. /\ taken \in Seq(Entries) /\ kept \in {<<>>, taken} /\ preload_queue' = kept
      /\ \A i \in 1 .. Len(taken) :
           \/ \E k \in 1 .. Len(preload_queue) : taken[i] = preload_queue[k]
           \/ \E k \in 1 .. Len(CurrentBatch.blocks) : taken[i] = CurrentBatch.blocks[k]
  BY DEF PreloadsBatch
<1>2. \A k \in 1 .. Len(CurrentBatch.blocks) : NumberOf(CurrentBatch.blocks[k]) <= Frames
  BY BatchAt DEF PreloadBatch
<1>3. \A k \in 1 .. Len(preload_queue) : NumberOf(preload_queue[k]) <= Frames
  BY DEF AppStep, ReplayInv, ClientCounted
<1>4. \A i \in 1 .. Len(taken) : NumberOf(taken[i]) <= Frames
  BY <1>1, <1>2, <1>3
<1>5. CASE kept = taken
  BY <1>1, <1>4, <1>5
<1>6. CASE kept = <<>>
  <2>1. preload_queue' = <<>> /\ <<>> \in Seq(Entries) /\ Len(preload_queue') = 0
    BY <1>1, <1>6
  <2> QED BY <2>1
<1> QED BY <1>1, <1>5, <1>6

(* A batch of the frame that is repeated.                                    *)
LEMMA PreloadLoopStep ==
  ASSUME AppStep, PreloadBatch, app_pc = "preload_loop"
  PROVE  ReplayInv'
<1>0. PICK taken, tail, kept : PreloadsBatch(taken, tail, kept)
  BY PreloadTakes
<1>1. /\ taken \in Seq(Entries) /\ tail \in Entries /\ kept \in {<<>>, taken}
      /\ taken # <<>> /\ tail = taken[Len(taken)]
      /\ tail = CurrentBatch.blocks[Len(CurrentBatch.blocks)]
      /\ \A i \in 1 .. Len(taken) :
           \/ \E k \in 1 .. Len(preload_queue) : taken[i] = preload_queue[k]
           \/ \E k \in 1 .. Len(CurrentBatch.blocks) : taken[i] = CurrentBatch.blocks[k]
      /\ kept = <<>> <=> IsTerminator(tail) /\ IsLeadingStutter(tail)
      /\ preload_queue' = kept
      /\ UNCHANGED dispatch_frame_number
      /\ \/ /\ IsTerminator(tail) => MorePreload(input.options, tail)
            /\ Advance /\ cursor' = 1
            /\ UNCHANGED <<app_pc, preload_at, replay_from_queue, looping>>
         \/ /\ IsTerminator(tail) /\ ~MorePreload(input.options, tail)
            /\ FinishPreload(input.capture, kept)
            /\ UNCHANGED vars /\ cursor' = cursor
  BY <1>0 DEF PreloadsBatch
<1>2. /\ ProcessorInv' /\ input' = input /\ Frames' = Frames
      /\ (NoMoreFrames' <=> NoMoreFrames) /\ (Active' <=> Active)
      /\ input \in Inputs /\ dispatch_pc = "idle"
      /\ UNCHANGED vars => dispatch_pc' = dispatch_pc
  BY AppMoves DEF AppStep, ReplayInv, ProcessorInv, BatchesInv, IInv, TypeOK
<1>3. /\ ~input.options.preload /\ ~replay_from_queue /\ ~looping
      /\ FrameNumber = input.options.loop_frame /\ input.options.loop_frame # 0
      /\ ~Active
  BY DEF AppStep, ReplayInv, Measured, Preloading, Active
<1>4. app_pc' \notin {"quit", "ended"} => app_pc \notin {"quit", "ended"}
  OBVIOUS
<1>5. Alive' /\ AtHead'
  BY <1>1, <1>4, AppAlive
<1>6. Phases'
  BY <1>2, <1>3 DEF Phases
<1>7. /\ preload_queue' \in Seq(Entries)
      /\ \A i \in 1 .. Len(preload_queue') : NumberOf(preload_queue'[i]) <= Frames
  BY <1>0, PreloadCounted
<1>8. CASE /\ Advance /\ cursor' = 1
           /\ UNCHANGED <<app_pc, preload_at, replay_from_queue, looping>>
  <2>1. ClientCounted'
    BY <1>1, <1>2, <1>7, <1>8 DEF AppStep, ReplayInv, ClientCounted
  <2>2. Measured'
    BY <1>1, <1>2, <1>3, <1>8 DEF Measured, FrameNumber, Preloading
  <2> QED BY <1>2, <1>5, <1>6, <2>1, <2>2 DEF ReplayInv
<1>9. CASE /\ IsTerminator(tail) /\ ~MorePreload(input.options, tail)
           /\ FinishPreload(input.capture, kept)
           /\ UNCHANGED vars /\ cursor' = cursor
  <2>1. looping' /\ app_pc' = "limits" /\ dispatch_pc' = "idle"
    BY <1>2, <1>9 DEF FinishPreload, GoApp
  <2>2. NoMoreFrames
    <3>1. /\ ~AtEndOfQueue /\ CurrentBatch.blocks \in LiveBatches
          /\ Len(CurrentBatch.blocks) \in 1 .. Len(CurrentBatch.blocks)
          /\ EndsAreLast
      BY BatchAt DEF PreloadBatch, AppStep, ReplayInv, ProcessorInv
    <3>2. EndsReading(tail)
      <4>1. CASE tail.state = "kFrameBoundary"
        <5>1. ~(tail.next_frame < dispatch_frame_number + 1)
          BY <1>9, <4>1 DEF MorePreload, PreloadLimit
        <5>2. tail.next_frame \in Nat \cup {NoFrame} /\ IsResult(tail)
          BY <1>1, <1>9, EntryKinds DEF IsTerminator
        <5>3. /\ dispatch_frame_number \in Nat
              /\ dispatch_frame_number + 1 = input.options.loop_frame
          <6>1. dispatch_frame_number \in 0 .. Frames /\ Frames \in Nat
            BY <1>2, <1>3, OptionTypes DEF AppStep, ReplayInv, ClientCounted
          <6> QED BY <1>3, <6>1 DEF FrameNumber
        <5>4. tail.next_frame \in Nat /\ tail.next_frame >= input.options.loop_frame
          BY <5>1, <5>2, <5>3 DEF NoFrame
        <5>5. tail.next_frame >= input.quit_before_frame
          BY <1>2, <1>3, <5>4, LoopLimits
        <5> QED BY <4>1, <5>2, <5>5 DEF EndsReading
      <4>2. CASE tail.state # "kFrameBoundary"
        BY <1>9, <4>2 DEF IsTerminator, EndsReading, ContinueProcessing
      <4> QED BY <4>1, <4>2
    <3> QED BY <1>1, <3>1, <3>2 DEF EndsAreLast
  <2>3. ClientCounted'
    <3>1. cursor' \in Nat \ {0}
      BY <1>9 DEF AppStep, ReplayInv, ClientCounted
    <3> QED BY <1>2, <1>7, <2>1, <3>1 DEF ClientCounted
  <2>4. Measured'
    BY <1>2, <1>3, <2>1, <2>2 DEF Measured, Preloading, DispatchLabelsAhead
  <2> QED BY <1>2, <1>5, <1>6, <2>3, <2>4 DEF ReplayInv
<1> QED BY <1>1, <1>8, <1>9

(* Later is behind, too.                                                     *)
LEMMA FromLater ==
  ASSUME AppStep, NEW k \in {0, 1}, NEW t \in Nat, NEW u \in Nat, u <= t, AllFrom(k, t)
  PROVE  AllFrom(k, u)
<1>1. TypeOK /\ cursor \in Nat \ {0}
  BY DEF AppStep, ReplayInv, ProcessorInv, ClientCounted, BatchesInv, IInv
<1>2. /\ Last \in Nat /\ \A j \in 0 .. Last : AheadAt(j) \in Seq(Entries)
  BY <1>1, AheadTypes
<1>3. ASSUME NEW j \in k .. Last PROVE FromFrame(AheadAt(j), u)
  <2>1. j \in 0 .. Last
    BY <1>2
  <2>2. AheadAt(j) \in Seq(Entries) /\ FromFrame(AheadAt(j), t)
    BY <1>2, <1>3, <2>1 DEF AllFrom
  <2>3. \A i \in 1 .. Len(AheadAt(j)) : NumberOf(AheadAt(j)[i]) \in Int
    <3>1. \A i \in 1 .. Len(AheadAt(j)) : AheadAt(j)[i] \in Entries
      BY <2>2
    <3>2. NoFrame \in Int
      BY DEF NoFrame
    <3> QED BY <3>1, <3>2, Numbers
  <2> QED BY <2>2, <2>3 DEF FromFrame
<1> QED BY <1>3 DEF AllFrom

(* A batch of the range: what is kept of it is in the range, and the batch    *)
(* that ends the range is the last of the preloading.                        *)
LEMMA PreloadInRange ==
  ASSUME AppStep, PreloadBatch, app_pc = "preload_range",
         NEW taken, NEW tail, NEW kept, PreloadsBatch(taken, tail, kept)
  PROVE  /\ Active /\ AtRange /\ ~looping /\ InRange(kept)
         /\ RangeBegin < PreloadLimit(input.options)
         /\ PreloadLimit(input.options) <= RangeEnd /\ PreloadLimit(input.options) \in Nat
         /\ \A n \in 0 .. Frames : ~(n < PreloadLimit(input.options)) => n >= RangeEnd
<1>1. /\ taken \in Seq(Entries) /\ tail \in Entries /\ kept \in {<<>>, taken}
      /\ tail = CurrentBatch.blocks[Len(CurrentBatch.blocks)]
      /\ \A i \in 1 .. Len(taken) :
           \/ \E k \in 1 .. Len(preload_queue) : taken[i] = preload_queue[k]
           \/ \E k \in 1 .. Len(CurrentBatch.blocks) : taken[i] = CurrentBatch.blocks[k]
      /\ kept = <<>> <=> IsTerminator(tail) /\ IsLeadingStutter(tail)
      /\ taken # <<>>
  BY DEF PreloadsBatch
<1>2. /\ Active /\ AtRange /\ ~looping /\ input \in Inputs
      /\ dispatch_frame_number = RangeBegin /\ RangeBegin \in 0 .. Frames
  BY DEF AppStep, ReplayInv, ProcessorInv, BatchesInv, IInv, TypeOK, Measured, Preloading,
     Phases, Going, BeforeRange, AtRange, InMeasurement, AfterRange, BetweenFrames, ClientCounted
<1>3. /\ RangeBegin < PreloadLimit(input.options)
      /\ PreloadLimit(input.options) <= RangeEnd /\ PreloadLimit(input.options) \in Nat
      /\ \A n \in 0 .. Frames : ~(n < PreloadLimit(input.options)) => n >= RangeEnd
  <2> DEFINE o == input.options
             d == o.range_end - o.range_begin
  <2>1. o.range_begin \in Nat /\ o.range_end \in Nat /\ Frames \in Nat /\ o.preload
    BY <1>2, OptionTypes DEF Active
  <2>2. /\ RangeBegin + 1 = o.range_begin /\ d > 0 /\ RangeBegin + d <= RangeEnd
        /\ \A n \in 0 .. Frames : ~(n < RangeBegin + d) => n >= RangeEnd
        /\ RangeBegin \in Nat
    <3>1. RangeBegin <= Frames
      BY <1>2, <2>1
    <3> QED BY <1>2, <2>1, <3>1, RangeLimits
  <2>3. d \in Nat
    <3>1. d \in Int
      BY <2>1
    <3> QED BY <2>2, <3>1
  <2>4. PreloadLimit(o) = RangeBegin + d
    BY <1>2, <2>1, <2>2 DEF PreloadLimit, ShouldPreloadFrames, FrameNumber
  <2> HIDE DEF d, o
  <2>5. RangeBegin < RangeBegin + d /\ RangeBegin + d \in Nat
    BY <2>2, <2>3
  <2> QED BY <2>2, <2>4, <2>5 DEF o
<1>4. InRange(kept)
  <2>1. CASE kept = <<>>
    <3>1. Len(kept) = 0
      BY <2>1
    <3> QED BY <3>1 DEF InRange
  <2>2. CASE kept = taken /\ kept # <<>>
    <3> DEFINE b == CurrentBatch.blocks
    <3>1. /\ Len(b) \in 1 .. Len(b) /\ ~AtEndOfQueue /\ \A i \in 1 .. Len(b) : b[i] \in Entries
      BY BatchAt DEF PreloadBatch
    <3>2. \A i \in 1 .. Len(b) :
              /\ ~IsResult(b[i]) => InPreloadRange(b[i].frame)
              /\ IsResult(b[i]) /\ b[i].state = "kFrameBoundary" =>
                   /\ b[i].next_frame >= RangeBegin
                   /\ i # Len(b) => b[i].next_frame > RangeBegin
      BY <1>2, <3>1, BatchIsOfRange
    <3>3. InRange(preload_queue)
      BY <1>2 DEF AtRange
    <3>4. ASSUME NEW k \in 1 .. Len(b), IsResult(b[k]), b[k].state = "kFrameBoundary"
          PROVE  b[k].next_frame > RangeBegin
      <4>1. CASE k # Len(b)
        BY <3>2, <3>4, <4>1
      <4>2. CASE k = Len(b)
        <5>1. b[k] = tail /\ IsTerminator(tail)
          BY <1>1, <3>4, <4>2 DEF IsTerminator
        <5>2. b[k].next_frame # RangeBegin
          BY <1>1, <1>2, <2>2, <3>4, <5>1 DEF IsLeadingStutter
        <5>3. b[k].next_frame >= RangeBegin
          BY <3>2, <3>4
        <5>4. b[k].next_frame \in Nat \cup {NoFrame} /\ RangeBegin \in Nat
          BY <1>2, <3>1, <3>4, EntryKinds, RangeTypes
        <5> HIDE DEF b
        <5> QED BY <5>2, <5>3, <5>4 DEF NoFrame
      <4> QED BY <4>1, <4>2
    <3>5. \A k \in 1 .. Len(b) :
              /\ ~IsResult(b[k]) => InPreloadRange(b[k].frame)
              /\ IsResult(b[k]) /\ b[k].state = "kFrameBoundary" => b[k].next_frame > RangeBegin
      BY <3>2, <3>4
    <3>6. \A i \in 1 .. Len(taken) :
              /\ ~IsResult(taken[i]) => InPreloadRange(taken[i].frame)
              /\ IsResult(taken[i]) /\ taken[i].state = "kFrameBoundary" =>
                   taken[i].next_frame > RangeBegin
      <4> HIDE DEF b
      <4>1. \A i \in 1 .. Len(taken) :
           \/ \E k \in 1 .. Len(preload_queue) : taken[i] = preload_queue[k]
           \/ \E k \in 1 .. Len(b) : taken[i] = b[k]
        BY <1>1 DEF b
      <4> QED BY <3>3, <3>5, <4>1 DEF InRange
    <3> QED BY <2>2, <3>6 DEF InRange
  <2> QED BY <1>1, <2>1, <2>2
<1> QED BY <1>2, <1>3, <1>4

(* The batch that ends the range, or the capture before it ends: what was     *)
(* preloaded is replayed, while the producer waits or is done.               *)
LEMMA RangeIsPreloaded ==
  ASSUME AppStep, PreloadBatch, app_pc = "preload_range",
         NEW taken, NEW tail, NEW kept, PreloadsBatch(taken, tail, kept),
         IsTerminator(tail), ~MorePreload(input.options, tail)
  PROVE  /\ kept = taken
         /\ \/ HeldAtFence /\ BehindRange(1)
            \/ NoMoreFrames /\ EndsTheReplay(kept)
<1> DEFINE b == CurrentBatch.blocks
           limit == PreloadLimit(input.options)
<1>1. /\ taken # <<>> /\ kept \in {<<>>, taken} /\ tail \in Entries
      /\ tail = taken[Len(taken)] /\ tail = b[Len(b)]
      /\ kept = <<>> => IsLeadingStutter(tail)
      /\ IsResult(tail) /\ tail.state # "kContinue"
  BY DEF PreloadsBatch, IsTerminator
<1>2. /\ Active /\ AtRange /\ RangeBegin < limit /\ limit \in Nat /\ limit <= RangeEnd
      /\ \A n \in 0 .. Frames : ~(n < limit) => n >= RangeEnd
  BY PreloadInRange
<1>3. /\ Len(b) \in 1 .. Len(b) /\ b \in LiveBatches /\ NumberOf(tail) <= Frames /\ Rest = b
      /\ b # <<>>
  BY <1>1, <1>2, BatchAt DEF PreloadBatch, AtRange
<1>4. /\ RangeBegin \in Nat /\ RangeEnd \in Nat /\ RangeBegin < RangeEnd /\ Frames \in Nat
      /\ pos.frame_number \in Nat
  <2>1. input \in Inputs
    BY DEF AppStep, ReplayInv, ProcessorInv, BatchesInv, IInv, TypeOK
  <2> QED BY <1>2, <2>1, AppMoves, OptionTypes DEF Active
<1>5. tail.state = "kFrameBoundary" => ~(tail.next_frame < limit)
  BY <1>1 DEF MorePreload
<1>6. tail.next_frame \in Nat \cup {NoFrame} /\ NumberOf(tail) = tail.next_frame
  BY <1>1, EntryKinds DEF NumberOf
<1> HIDE DEF b, limit
<1>7. kept = taken
  <2>1. ASSUME IsLeadingStutter(tail) PROVE FALSE
    <3>1. tail.state = "kFrameBoundary" /\ tail.next_frame = RangeBegin
      BY <1>2, <2>1 DEF IsLeadingStutter, AtRange
    <3> QED BY <1>2, <1>5, <3>1
  <2> QED BY <1>1, <2>1
<1>8. CASE tail.state = "kFrameBoundary"
  <2>1. tail.next_frame >= RangeEnd
    <3>1. tail.next_frame \in 0 .. Frames
      BY <1>2, <1>3, <1>4, <1>5, <1>6, <1>8 DEF NoFrame
    <3> QED BY <1>2, <1>5, <1>8, <3>1
  <2>2. ~BelowFrame(Rest, RangeEnd)
    <3>1. ~(NumberOf(tail) < RangeEnd)
      BY <1>4, <1>6, <2>1 DEF NoFrame
    <3> QED BY <1>1, <1>3, <3>1 DEF BelowFrame
  <2>3. PICK c \in 0 .. Last : CrossedAt(c, RangeEnd) /\ Held(c)
    BY <1>2, <1>4, <2>2, AppAhead DEF AtRange, EndAhead
  <2>4. c = 0 /\ AllFrom(1, RangeEnd) /\ pos.frame_number >= RangeEnd
    <3>1. c = 0
      BY <1>4, <2>2, <2>3, AppAhead
    <3> QED BY <1>4, <2>3, <3>1, AppAhead DEF CrossedAt
  <2>5. HeldAtFence
    <3>1. keep_alive /\ dispatch_pc = "idle"
      BY DEF AppStep, ReplayInv, Alive
    <3> QED BY <2>3, <2>4, <3>1 DEF HeldAtFence
  <2>6. BehindRange(1)
    <3>1. RangeBegin + 1 \in Nat /\ RangeBegin + 1 <= RangeEnd
      BY <1>4
    <3>2. AllFrom(1, RangeBegin + 1)
      BY <1>4, <2>4, <3>1, FromLater
    <3> QED BY <1>4, <2>4, <3>2 DEF BehindRange
  <2> QED BY <1>7, <2>5, <2>6
<1>9. CASE tail.state # "kFrameBoundary"
  <2>1. ~ContinueProcessing(tail.state)
    BY <1>1, <1>9 DEF ContinueProcessing
  <2>2. NoMoreFrames
    BY <1>1, <1>3, <2>1 DEF AppStep, ReplayInv, ProcessorInv, EndsAreLast, EndsReading
  <2>3. EndsTheReplay(kept)
    BY <1>1, <1>7, <2>1 DEF EndsTheReplay
  <2> QED BY <1>7, <2>2, <2>3
<1> QED BY <1>8, <1>9

(* A batch of the range.                                                     *)
LEMMA PreloadRangeStep ==
  ASSUME AppStep, PreloadBatch, app_pc = "preload_range"
  PROVE  ReplayInv'
<1>0. PICK taken, tail, kept : PreloadsBatch(taken, tail, kept)
  BY PreloadTakes
<1>1. /\ kept \in {<<>>, taken} /\ taken # <<>>
      /\ preload_queue' = kept
      /\ UNCHANGED dispatch_frame_number
      /\ \/ /\ IsTerminator(tail) => MorePreload(input.options, tail)
            /\ Advance /\ cursor' = 1
            /\ UNCHANGED <<app_pc, preload_at, replay_from_queue, looping>>
         \/ /\ IsTerminator(tail) /\ ~MorePreload(input.options, tail)
            /\ FinishPreload(input.capture, kept)
            /\ UNCHANGED vars /\ cursor' = cursor
      /\ tail \in Entries /\ tail = CurrentBatch.blocks[Len(CurrentBatch.blocks)]
  BY <1>0 DEF PreloadsBatch
<1>2. /\ ProcessorInv' /\ input' = input /\ Frames' = Frames /\ RangeBegin' = RangeBegin
      /\ RangeEnd' = RangeEnd /\ RangeBegin \in Nat /\ RangeEnd \in Nat /\ pos' = pos
      /\ Last' = Last
      /\ (NoMoreFrames' <=> NoMoreFrames) /\ (Active' <=> Active)
      /\ \A c : Held(c)' <=> Held(c)
      /\ dispatch_pc = "idle"
      /\ UNCHANGED vars => dispatch_pc' = dispatch_pc /\ (HeldAtFence' <=> HeldAtFence)
      /\ Advance => Rest' = <<>>
  BY AppMoves DEF AppStep
<1>3. /\ Active /\ AtRange /\ ~looping /\ InRange(kept)
      /\ PreloadLimit(input.options) <= RangeEnd /\ PreloadLimit(input.options) \in Nat
  BY <1>0, PreloadInRange
<1>4. /\ input.options.preload /\ ~replay_from_queue
      /\ dispatch_frame_number \in 0 .. Frames /\ preload_at \in Nat \ {0} /\ cursor \in Nat \ {0}
  BY <1>3 DEF Active, AtRange, AppStep, ReplayInv, ClientCounted
<1>5. Alive' /\ AtHead'
  <2>1. app_pc' \notin {"quit", "ended"} => app_pc \notin {"quit", "ended"}
    OBVIOUS
  <2> QED BY <1>1, <2>1, AppAlive
<1>6. /\ preload_queue' \in Seq(Entries)
      /\ \A i \in 1 .. Len(preload_queue') : NumberOf(preload_queue'[i]) <= Frames
  BY <1>0, PreloadCounted
<1>7. InRange(preload_queue)'
  BY <1>1, <1>2, <1>3 DEF InRange, InPreloadRange
<1>8. CASE /\ IsTerminator(tail) => MorePreload(input.options, tail)
           /\ Advance /\ cursor' = 1
           /\ UNCHANGED <<app_pc, preload_at, replay_from_queue, looping>>
  <2>1. ClientCounted'
    BY <1>1, <1>2, <1>4, <1>6, <1>8 DEF ClientCounted
  <2>2. Measured'
    BY <1>2, <1>3, <1>4, <1>8 DEF Measured, FrameNumber, Preloading
  <2>3. AllFrom(0, RangeBegin)'
    <3>1. AllFrom(1, RangeBegin) /\ Rest' = <<>>
      BY <1>2, <1>3, <1>8, AppAhead DEF AtRange
    <3>2. FromFrame(Rest', RangeBegin)
      BY <3>1 DEF FromFrame
    <3>3. \A t \in Nat : AllFrom(1, t) /\ FromFrame(Rest', t) => AllFrom(0, t)'
      BY AppAhead
    <3> QED BY <1>2, <3>1, <3>2, <3>3
  <2>4. EndAhead'
    <3>1. BelowFrame(Rest', RangeEnd)
      BY <1>2, <1>8 DEF BelowFrame
    <3>2. CASE NotReached(RangeEnd)
      <4>1. \A t \in Nat : NotReached(t) /\ BelowFrame(Rest', t) => NotReached(t)'
        BY AppAhead
      <4> QED BY <1>2, <3>1, <3>2, <4>1 DEF EndAhead
    <3>3. ASSUME NEW c \in 0 .. Last, CrossedAt(c, RangeEnd), Held(c) PROVE EndAhead'
      <4>1. c # 0
        <5>1. SUFFICES ASSUME EndsBefore(Rest, RangeEnd) PROVE FALSE
          BY <1>2, <3>3, AppAhead
        <5>2. Rest = CurrentBatch.blocks
          BY <1>3, BatchAt DEF PreloadBatch, AtRange
        <5>3. tail = FrameEnd(RangeEnd)
          BY <1>1, <5>1, <5>2 DEF EndsBefore
        <5>4. IsTerminator(tail) /\ tail.next_frame = RangeEnd
          BY <5>3, EntryKinds DEF IsTerminator, FrameEnd
        <5>5. RangeEnd < PreloadLimit(input.options)
          BY <1>8, <5>4 DEF MorePreload
        <5> QED BY <1>2, <1>3, <5>5
      <4>2. \A t \in Nat : CrossedAt(c, t) /\ BelowFrame(Rest', t) => CrossedAt(c, t)'
        BY <4>1, AppAhead
      <4>3. CrossedAt(c, RangeEnd)' /\ Held(c)'
        BY <1>2, <3>1, <3>3, <4>2
      <4> QED BY <1>2, <4>3 DEF EndAhead
    <3> QED BY <1>3, <3>2, <3>3 DEF AtRange, EndAhead
  <2>5. AtRange'
    BY <1>1, <1>2, <1>3, <1>4, <1>7, <1>8, <2>3, <2>4 DEF AtRange
  <2>6. Phases'
    BY <2>5 DEF Phases
  <2> QED BY <1>2, <1>5, <2>1, <2>2, <2>6 DEF ReplayInv
<1>9. CASE /\ IsTerminator(tail) /\ ~MorePreload(input.options, tail)
           /\ FinishPreload(input.capture, kept)
           /\ UNCHANGED vars /\ cursor' = cursor
  <2>1. /\ kept = taken
        /\ \/ HeldAtFence /\ BehindRange(1)
           \/ NoMoreFrames /\ EndsTheReplay(kept)
    BY <1>0, <1>9, RangeIsPreloaded
  <2>2. /\ preload_queue' = kept /\ kept # <<>> /\ replay_from_queue' /\ preload_at' = 1
        /\ app_pc' = "play" /\ looping' = looping
    BY <1>1, <1>9, <2>1 DEF FinishPreload, GoApp, loop_vars
  <2>3. ClientCounted'
    BY <1>2, <1>4, <1>6, <1>9, <2>2, <1>1 DEF ClientCounted
  <2>4. Measured'
    BY <1>2, <1>3, <1>4, <1>7, <1>9, <2>1, <2>2 DEF Measured, Preloading, DispatchLabelsAhead
  <2>5. BehindRange(1) => BehindRange(1)'
    BY <1>9, StayKeeps
  <2>6. EndsTheReplay(kept) => EndsTheReplay(preload_queue)'
    BY <2>2 DEF EndsTheReplay
  <2>7. InMeasurement'
    BY <1>7, <2>1, <2>2, <2>5, <2>6 DEF InMeasurement, BetweenFrames
  <2>8. Phases'
    BY <2>7 DEF Phases
  <2> QED BY <1>2, <1>5, <2>3, <2>4, <2>8 DEF ReplayInv
<1> QED BY <1>1, <1>8, <1>9

(* The queue ended while its frames were preloaded: nothing is behind them.  *)
LEMMA QueueIsOver ==
  ASSUME AppStep, AtEndOfQueue
  PROVE  NoMoreFrames /\ BehindRange(0) /\ BehindRange(1)
<1>1. async_pc = "exited" /\ queue = <<>> /\ batch = <<>>
  BY DEF AppStep, ReplayInv, ProcessorInv, Closing
<1>2. Rest = <<>> /\ Filling = <<>> /\ Last = 1
  BY <1>1 DEF Rest, Filling, Last
<1>3. \A j \in 0 .. Last : AheadAt(j) = <<>>
  BY <1>2 DEF AheadAt
<1>4. \A j \in 0 .. Last : FromFrame(AheadAt(j), RangeBegin + 1)
  BY <1>3 DEF FromFrame
<1>5. AllFrom(0, RangeBegin + 1) /\ AllFrom(1, RangeBegin + 1)
  BY <1>2, <1>4 DEF AllFrom
<1> QED BY <1>1, <1>5 DEF NoMoreFrames, BehindRange

LEMMA PreloadEndStep ==
  ASSUME AppStep, PreloadEnd
  PROVE  ReplayInv'
<1>1. /\ Preloading /\ AtEndOfQueue /\ FinishPreload(input.capture, preload_queue)
      /\ UNCHANGED vars /\ cursor' = cursor /\ UNCHANGED dispatch_frame_number
  BY DEF PreloadEnd, StayAt, processor_vars
<1>2. /\ input' = input /\ Frames' = Frames
      /\ (NoMoreFrames' <=> NoMoreFrames) /\ (Active' <=> Active)
      /\ dispatch_pc' = "idle" /\ keep_alive' = keep_alive /\ ProcessorInv'
      /\ \A s : InRange(s)' <=> InRange(s)
  BY <1>1, AppMoves DEF AppStep
<1>3. /\ ~replay_from_queue /\ ~looping /\ Measured /\ ClientCounted /\ Phases
  BY <1>1 DEF AppStep, ReplayInv, Measured
<1>4. NoMoreFrames /\ BehindRange(0)' /\ BehindRange(1)'
  BY <1>1, QueueIsOver, StayKeeps
<1>5. Alive' /\ AtHead'
  <2>1. app_pc' \notin {"quit", "ended"} => app_pc \notin {"quit", "ended"}
    BY <1>1 DEF Preloading
  <2> QED BY <1>1, <2>1, AppAlive
<1>6. /\ preload_queue' = preload_queue
      /\ IF preload_queue # <<>> THEN replay_from_queue' /\ preload_at' = 1
                                 ELSE ~replay_from_queue' /\ preload_at' = preload_at
  BY <1>1, <1>3 DEF FinishPreload
<1>7. ClientCounted'
  <2>1. \/ looping'
        \/ looping' = looping
    BY <1>1 DEF FinishPreload, loop_vars
  <2> QED BY <1>1, <1>2, <1>3, <1>6, <2>1 DEF ClientCounted
<1>8. CASE app_pc = "preload_loop"
  <2>1. looping' /\ app_pc' = "limits" /\ ~input.options.preload
    BY <1>1, <1>3, <1>8 DEF FinishPreload, GoApp, Measured
  <2>2. Measured'
    BY <1>2, <1>4, <2>1 DEF Measured, Preloading, DispatchLabelsAhead
  <2>3. Phases'
    BY <1>2, <2>1 DEF Phases, Active
  <2> QED BY <1>2, <1>5, <1>7, <2>2, <2>3 DEF ReplayInv
<1>9. CASE app_pc = "preload_range"
  <2>1. looping' = looping /\ app_pc' = "play"
    BY <1>1, <1>9 DEF FinishPreload, GoApp, loop_vars
  <2>2. Active /\ input.options.preload
    BY <1>3, <1>9 DEF Measured, Active
  <2>3. InRange(preload_queue)
    BY <1>3, <1>9, <2>2 DEF Phases, Going, BeforeRange, AtRange, InMeasurement, AfterRange,
       BetweenFrames
  <2>4. InRange(preload_queue)'
    BY <1>2, <1>6, <2>3 DEF InRange, InPreloadRange
  <2>5. Measured'
    BY <1>2, <1>3, <1>4, <2>1, <2>2, <2>4 DEF Measured, Preloading, DispatchLabelsAhead
  <2>6. CASE preload_queue = <<>>
    <3>1. AfterRange'
      BY <1>4, <1>6, <2>1, <2>6 DEF AfterRange, Quiet, BetweenFrames
    <3> QED BY <1>2, <1>5, <1>7, <2>5, <3>1 DEF ReplayInv, Phases
  <2>7. CASE preload_queue # <<>>
    <3>1. InMeasurement'
      BY <1>4, <1>6, <2>1, <2>4, <2>7 DEF InMeasurement, BetweenFrames
    <3> QED BY <1>2, <1>5, <1>7, <2>5, <3>1 DEF ReplayInv, Phases
  <2> QED BY <2>6, <2>7
<1> QED BY <1>1, <1>8, <1>9 DEF Preloading

(* What was preloaded is left behind.                                        *)
LEMMA ClearPreloadedStep ==
  ASSUME AppStep, ClearPreloaded
  PROVE  ReplayInv'
<1>1. /\ app_pc = "play" /\ ~replay_from_queue /\ preload_queue # <<>> /\ preload_queue' = <<>>
      /\ Advance /\ cursor' = 1
      /\ UNCHANGED <<app_pc, dispatch_frame_number, preload_at, replay_from_queue, looping>>
  BY DEF ClearPreloaded, NextBatch, loop_vars
<1>2. /\ input' = input /\ (Active' <=> Active) /\ ProcessorInv'
      /\ RangeBegin' = RangeBegin /\ RangeBegin \in Nat /\ pos' = pos /\ async_pc' = async_pc
      /\ Rest' = <<>>
  BY <1>1, AppMoves
<1>3. Alive' /\ AtHead'
  BY <1>1, AppAlive
<1>4. ClientCounted'
  BY <1>1, CountedStays
<1>5. Measured'
  BY <1>1, <1>2 DEF AppStep, ReplayInv, Measured, Preloading
<1>6. Phases'
  <2>1. SUFFICES ASSUME Active PROVE AfterRange'
    BY <1>2 DEF Phases
  <2>2. BehindRange(1)
    BY <1>1, <2>1 DEF AppStep, ReplayInv, Phases, Going, BeforeRange, AtRange, InMeasurement,
       AfterRange, Quiet, BetweenFrames
  <2>3. \A t \in Nat : AllFrom(1, t) => AllFrom(0, t)'
    <3>1. \A t : FromFrame(Rest', t)
      BY <1>2 DEF FromFrame
    <3> QED BY <3>1, AppAhead
  <2>4. BehindRange(0)'
    <3>1. RangeBegin + 1 \in Nat
      BY <1>2
    <3>2. AllFrom(0, RangeBegin + 1)'
      BY <1>2, <2>2, <2>3, <3>1 DEF BehindRange
    <3> QED BY <1>2, <2>2, <3>2 DEF BehindRange
  <2> QED BY <1>1, <2>4 DEF AfterRange, Quiet, BetweenFrames
<1> QED BY <1>2, <1>3, <1>4, <1>5, <1>6 DEF ReplayInv

-----------------------------------------------------------------------------
(* Frames that are not preloaded                                             *)

(* Without a result all entries are taken.                                   *)
LEMMA AllIsTaken ==
  ASSUME NEW s \in Seq(Entries), ~HasTerminator(s)
  PROVE  EntriesOfFrame(s) = Len(s) /\ \A i \in 1 .. Len(s) : ~IsTerminator(s[i])
<1> DEFINE Ends(n) == /\ \A i \in 1 .. n - 1 : ~IsTerminator(s[i])
                      /\ n = Len(s) \/ (n > 0 /\ IsTerminator(s[n]))
<1>1. Len(s) \in Nat /\ \A i \in 1 .. Len(s) : ~IsTerminator(s[i])
  BY DEF HasTerminator
<1>2. EntriesOfFrame(s) = CHOOSE n \in 0 .. Len(s) : Ends(n)
  BY DEF EntriesOfFrame
<1>3. \E n \in 0 .. Len(s) : Ends(n)
  <2>1. Len(s) \in 0 .. Len(s) /\ \A i \in 1 .. Len(s) - 1 : i \in 1 .. Len(s)
    BY <1>1
  <2>2. Ends(Len(s))
    BY <1>1, <2>1
  <2> QED BY <2>1, <2>2
<1>4. \A n \in 0 .. Len(s) : Ends(n) => n = Len(s)
  <2>1. \A n \in 0 .. Len(s) : n > 0 => n \in 1 .. Len(s)
    BY <1>1
  <2> QED BY <1>1, <2>1
<1> HIDE DEF Ends
<1> QED BY <1>1, <1>2, <1>3, <1>4

(* What a part of the rest inherits.                                         *)
LEMMA Behind ==
  ASSUME NEW s \in Seq(Entries), NEW n \in 0 .. Len(s), NEW r \in Seq(Entries),
         Len(r) = Len(s) - n, \A i \in 1 .. Len(r) : r[i] = s[n + i], NEW t
  PROVE  /\ FromFrame(s, t) => FromFrame(r, t)
         /\ BelowFrame(s, t) => BelowFrame(r, t)
         /\ n < Len(s) /\ EndsBefore(s, t) => EndsBefore(r, t)
<1>1. /\ Len(s) \in Nat /\ Len(r) \in Nat
      /\ \A i \in 1 .. Len(r) : r[i] = s[n + i] /\ n + i \in 1 .. Len(s)
  OBVIOUS
<1>2. FromFrame(s, t) => FromFrame(r, t)
  BY <1>1 DEF FromFrame
<1>3. BelowFrame(s, t) => BelowFrame(r, t)
  BY <1>1 DEF BelowFrame
<1>4. ASSUME n < Len(s), EndsBefore(s, t) PROVE EndsBefore(r, t)
  <2>1. Len(r) \in 1 .. Len(r) /\ n + Len(r) = Len(s) /\ r # <<>>
    BY <1>1, <1>4
  <2>2. r[Len(r)] = FrameEnd(t)
    BY <1>1, <1>4, <2>1 DEF EndsBefore
  <2>3. \A i \in 1 .. Len(r) - 1 : NumberOf(r[i]) < t
    <3>1. \A i \in 1 .. Len(r) - 1 : i \in 1 .. Len(r) /\ n + i \in 1 .. Len(s) - 1
      BY <1>1, <2>1
    <3> QED BY <1>1, <1>4, <3>1 DEF EndsBefore
  <2> QED BY <2>1, <2>2, <2>3 DEF EndsBefore
<1> QED BY <1>2, <1>3, <1>4

(* The application takes n entries of its batch.                             *)
PlaysEntries(n) ==
  /\ n \in 0 .. Len(Rest)
  /\ Rest' \in Seq(Entries) /\ Len(Rest') = Len(Rest) - n
  /\ \A i \in 1 .. Len(Rest') : Rest'[i] = Rest[n + i]
  /\ \/ Advance /\ cursor' = 1
     \/ n < Len(Rest) /\ UNCHANGED vars /\ cursor' \in Nat \ {0}
  /\ \/ /\ n \in 1 .. Len(Rest) /\ IsTerminator(Rest[n])
        /\ HandleReplayResult(Rest[n])
        /\ success' = ContinueProcessing(Rest[n].state) /\ app_pc' = "end_frame"
     \/ /\ \A i \in 1 .. Len(Rest) : ~IsTerminator(Rest[i])
        /\ n = Len(Rest)
        /\ UNCHANGED <<dispatch_frame_number, app_pc>>

LEMMA PlayTakes ==
  ASSUME AppStep, PlayBatch
  PROVE  \E n : PlaysEntries(n)
<1> DEFINE b == CurrentBatch.blocks
           n == EntriesOfFrame(Rest)
<1>1. /\ ~AtEndOfQueue /\ b \in Seq(Entries) /\ Rest = SubSeq(b, cursor, Len(b))
      /\ cursor \in Nat \ {0} /\ Rest \in Seq(Entries) /\ dispatch_pc = "idle"
  BY BatchAt, AppMoves DEF PlayBatch, AppStep, ReplayInv, ClientCounted
<1>2. /\ IF HasTerminator(Rest)
           THEN /\ HandleReplayResult(Rest[n])
                /\ success' = ContinueProcessing(Rest[n].state)
                /\ app_pc' = "end_frame"
           ELSE UNCHANGED <<dispatch_frame_number, app_pc>>
      /\ IF n < Len(Rest) THEN cursor' = cursor + n /\ UNCHANGED vars ELSE Advance /\ cursor' = 1
  BY <1>1 DEF PlayBatch, StayAt, NextBatch, processor_vars, GoApp
<1>3. /\ n \in 0 .. Len(Rest)
      /\ IF HasTerminator(Rest) THEN n \in 1 .. Len(Rest) /\ IsTerminator(Rest[n])
           ELSE n = Len(Rest) /\ \A i \in 1 .. Len(Rest) : ~IsTerminator(Rest[i])
  <2>1. Rest \in Seq(Entries) /\ Len(Rest) \in Nat
    <3>1. Rest \in Seq(Entries)
      BY <1>1
    <3> QED BY <3>1
  <2>2. CASE HasTerminator(Rest)
    <3>1. n \in 1 .. Len(Rest) /\ IsTerminator(Rest[n])
      BY <2>1, <2>2, FrameIsTaken
    <3> HIDE DEF n
    <3> QED BY <2>1, <2>2, <3>1
  <2>3. CASE ~HasTerminator(Rest)
    <3>1. n = Len(Rest) /\ \A i \in 1 .. Len(Rest) : ~IsTerminator(Rest[i])
      BY <2>1, <2>3, AllIsTaken
    <3> HIDE DEF n
    <3> QED BY <2>1, <2>3, <3>1
  <2> QED BY <2>2, <2>3
<1> HIDE DEF n
<1>4. /\ Rest' \in Seq(Entries) /\ Len(Rest') = Len(Rest) - n
      /\ \A i \in 1 .. Len(Rest') : Rest'[i] = Rest[n + i]
      /\ \/ Advance /\ cursor' = 1
         \/ n < Len(Rest) /\ UNCHANGED vars /\ cursor' \in Nat \ {0}
  <2>1. CASE n < Len(Rest)
    <3>1. cursor' = cursor + n /\ UNCHANGED vars /\ cursor' \in Nat \ {0}
      BY <1>1, <1>2, <1>3, <2>1
    <3>2. Rest' = SubSeq(b, cursor + n, Len(b))
      <4>1. UNCHANGED <<dispatch_pc, got>>
        BY <3>1 DEF vars, dispatch_vars, queue_vars
      <4> QED BY <1>1, <3>1, <4>1 DEF Rest, CurrentBatch, AtEndOfQueue
    <3> HIDE DEF b
    <3>3. cursor <= Len(b) /\ cursor + n <= Len(b) /\ Len(Rest) = Len(b) - cursor + 1
      <4>1. Len(b) \in Nat
        BY <1>1
      <4>2. cursor > Len(b) => Len(Rest) = 0
        BY <1>1, <4>1, Suffix
      <4>3. cursor <= Len(b) => Len(Rest) = Len(b) - cursor + 1
        BY <1>1, <4>1, Suffix
      <4> QED BY <1>1, <1>3, <2>1, <4>1, <4>2, <4>3
    <3>4. /\ Rest' \in Seq(Entries) /\ Len(Rest') = Len(b) - (cursor + n) + 1
          /\ \A i \in 1 .. Len(Rest') : Rest'[i] = b[cursor + n + i - 1]
      BY <1>1, <3>1, <3>2, <3>3, Suffix
    <3>5. \A i \in 1 .. Len(Rest) : Rest[i] = b[cursor + i - 1]
      BY <1>1, <3>3, Suffix
    <3>6. Len(b) \in Nat /\ n \in Nat
      BY <1>1, <1>3
    <3>7. Len(Rest') = Len(Rest) - n
      BY <1>1, <3>3, <3>4, <3>6
    <3>8. ASSUME NEW i \in 1 .. Len(Rest') PROVE Rest'[i] = Rest[n + i]
      <4>1. n + i \in 1 .. Len(Rest) /\ cursor + n + i - 1 = cursor + (n + i) - 1
        BY <1>1, <3>3, <3>4, <3>6
      <4> QED BY <3>4, <3>5, <4>1
    <3> QED BY <2>1, <3>1, <3>4, <3>7, <3>8
  <2>2. CASE ~(n < Len(Rest))
    <3>1. Advance /\ cursor' = 1 /\ Rest' = <<>>
      BY <1>2, <2>2, AppMoves
    <3>2. n = Len(Rest) /\ Len(Rest) \in Nat
      <4>1. Rest \in Seq(Entries)
        BY <1>1
      <4>2. Len(Rest) \in Nat /\ n \in 0 .. Len(Rest)
        BY <1>3, <4>1
      <4> QED BY <2>2, <4>2
    <3>3. <<>> \in Seq(Entries) /\ Len(<<>>) = 0 /\ Len(Rest) - n = 0
      BY <3>2
    <3> QED BY <3>1, <3>3
  <2> QED BY <2>1, <2>2
<1>5. PlaysEntries(n)
  BY <1>2, <1>3, <1>4 DEF PlaysEntries
<1> QED BY <1>5

(* The number that comes with the end of a frame.                            *)
LEMMA FrameShown ==
  ASSUME AppStep, PlayBatch, NEW n, PlaysEntries(n), n \in 1 .. Len(Rest), IsTerminator(Rest[n])
  PROVE  LET e == Rest[n] IN
         /\ e \in Entries /\ IsResult(e) /\ NumberOf(e) <= Frames
         /\ dispatch_frame_number' = IF e.next_frame = NoFrame THEN dispatch_frame_number
                                                               ELSE e.next_frame
         /\ e.next_frame \in Nat \cup {NoFrame} /\ NumberOf(e) = e.next_frame
         /\ app_pc' = "end_frame"
         /\ success' => e.state = "kFrameBoundary" /\ e # ContinueEntry
<1> DEFINE e == Rest[n]
<1>1. /\ HandleReplayResult(e) /\ success' = ContinueProcessing(e.state) /\ app_pc' = "end_frame"
  BY DEF PlaysEntries
<1>2. e \in Entries /\ NumberOf(e) <= Frames
  <2> DEFINE b == CurrentBatch.blocks
  <2>1. /\ b \in Seq(Entries) /\ Rest = SubSeq(b, cursor, Len(b)) /\ cursor \in Nat \ {0}
        /\ \A i \in 1 .. Len(b) : b[i] \in Entries /\ NumberOf(b[i]) <= Frames
    BY BatchAt DEF PlayBatch, AppStep, ReplayInv, ClientCounted
  <2> HIDE DEF b
  <2>2. Len(b) \in Nat
    BY <2>1
  <2>3. cursor <= Len(b)
    <3>1. cursor > Len(b) => Len(Rest) = 0
      BY <2>1, Suffix
    <3> QED BY <2>1, <2>2, <3>1
  <2>4. Rest[n] = b[cursor + n - 1] /\ cursor + n - 1 \in 1 .. Len(b)
    BY <2>1, <2>3, Suffix
  <2> QED BY <2>1, <2>4
<1>3. IsResult(e) /\ e.state # "kContinue"
  BY DEF IsTerminator
<1> HIDE DEF e
<1>4. e.next_frame \in Nat \cup {NoFrame} /\ NumberOf(e) = e.next_frame
  BY <1>2, <1>3, EntryKinds DEF NumberOf
<1>5. success' => e.state = "kFrameBoundary" /\ e # ContinueEntry
  <2>1. success' => e.state = "kFrameBoundary"
    BY <1>1, <1>3 DEF ContinueProcessing
  <2> QED BY <1>2, <1>3, <2>1, FrameEnds
<1> QED BY <1>1, <1>2, <1>3, <1>4, <1>5 DEF HandleReplayResult, e

(* Ahead of the range: up to the end of the frame before it.                 *)
LEMMA PlayBeforeRange ==
  ASSUME AppStep, PlayBatch, NEW n, PlaysEntries(n), Active, BeforeRange
  PROVE  /\ preload_queue' = preload_queue /\ replay_from_queue' = replay_from_queue
         /\ BeforeRange' \/ AtRange' \/ ~Going'
<1>1. /\ RangeBegin \in Nat /\ RangeEnd \in Nat /\ RangeBegin < RangeEnd /\ pos.frame_number \in Nat
      /\ RangeBegin' = RangeBegin /\ RangeEnd' = RangeEnd /\ pos' = pos /\ Last' = Last
      /\ Rest \in Seq(Entries)
      /\ \A c : Held(c)' <=> Held(c)
  BY AppMoves DEF Active
<1>2. /\ preload_queue' = preload_queue /\ replay_from_queue' = replay_from_queue
      /\ preload_queue = <<>> /\ ~replay_from_queue /\ app_pc = "play"
      /\ dispatch_frame_number < RangeBegin /\ BeginAhead /\ EndAhead
  BY DEF PlayBatch, BeforeRange, Quiet, preload_vars
<1>3. /\ n \in 0 .. Len(Rest) /\ Len(Rest) \in Nat /\ Len(Rest') = Len(Rest) - n
      /\ \A t : /\ FromFrame(Rest, t) => FromFrame(Rest', t)
                /\ BelowFrame(Rest, t) => BelowFrame(Rest', t)
                /\ n < Len(Rest) /\ EndsBefore(Rest, t) => EndsBefore(Rest', t)
  <2>1. /\ n \in 0 .. Len(Rest) /\ Rest' \in Seq(Entries) /\ Len(Rest') = Len(Rest) - n
        /\ \A i \in 1 .. Len(Rest') : Rest'[i] = Rest[n + i]
    BY DEF PlaysEntries
  <2>2. Len(Rest) \in Nat
    BY <1>1
  <2> QED BY <1>1, <2>1, <2>2, Behind
<1>4. BelowFrame(Rest, RangeBegin) \/ (EndsBefore(Rest, RangeBegin) /\ CrossedAt(0, RangeBegin))
  BY <1>1, <1>2, AppAhead DEF BeginAhead
<1>5. EndAhead'
  <2>1. ~EndsBefore(Rest, RangeEnd)
    <3>1. ASSUME EndsBefore(Rest, RangeEnd) PROVE FALSE
      <4>1. /\ Len(Rest) \in 1 .. Len(Rest) /\ Rest[Len(Rest)] = FrameEnd(RangeEnd)
            /\ NumberOf(FrameEnd(RangeEnd)) = RangeEnd
        BY <1>1, <3>1, Numbers DEF EndsBefore, FrameEnd
      <4>2. CASE BelowFrame(Rest, RangeBegin)
        BY <1>1, <4>1, <4>2 DEF BelowFrame
      <4>3. CASE EndsBefore(Rest, RangeBegin)
        <5>1. NumberOf(FrameEnd(RangeBegin)) = RangeBegin
          BY Numbers DEF FrameEnd
        <5> QED BY <1>1, <4>1, <4>3, <5>1 DEF EndsBefore
      <4> QED BY <1>4, <4>2, <4>3
    <3> QED BY <3>1
  <2>2. CASE NotReached(RangeEnd)
    <3>1. \A t \in Nat : NotReached(t) => NotReached(t)'
      BY <1>3, AppAhead
    <3> QED BY <1>1, <2>2, <3>1 DEF EndAhead
  <2>3. ASSUME NEW c \in 0 .. Last, CrossedAt(c, RangeEnd), Held(c) PROVE EndAhead'
    <3>1. c # 0
      BY <1>1, <2>1, <2>3, AppAhead
    <3>2. \A t \in Nat : CrossedAt(c, t) => CrossedAt(c, t)'
      BY <1>3, <3>1, AppAhead
    <3> QED BY <1>1, <2>3, <3>2 DEF EndAhead
  <2> QED BY <1>2, <2>2, <2>3 DEF EndAhead
<1>6. ASSUME n \in 1 .. Len(Rest), IsTerminator(Rest[n]), NumberOf(Rest[n]) < RangeBegin
      PROVE  dispatch_frame_number' < RangeBegin /\ app_pc' = "end_frame"
  BY <1>2, <1>6, FrameShown
<1>7. CASE BelowFrame(Rest, RangeBegin)
  <2>1. BeginAhead'
    <3>1. \A t \in Nat : /\ NotReached(t) /\ BelowFrame(Rest, t) => NotReached(t)'
                         /\ \A c \in 0 .. Last :
                              c # 0 /\ CrossedAt(c, t) /\ BelowFrame(Rest, t) => CrossedAt(c, t)'
      BY <1>3, AppAhead
    <3>2. ~CrossedAt(0, RangeBegin)
      <4>1. SUFFICES ASSUME EndsBefore(Rest, RangeBegin) PROVE FALSE
        <5>1. 0 \in 0 .. Last
          BY AppMoves
        <5>2. \A t \in Nat : CrossedAt(0, t) => EndsBefore(Rest, t)
          BY <5>1, AppAhead
        <5> QED BY <1>1, <5>2
      <4>2. Len(Rest) \in 1 .. Len(Rest) /\ Rest[Len(Rest)] = FrameEnd(RangeBegin)
            /\ NumberOf(FrameEnd(RangeBegin)) = RangeBegin
        BY <1>1, <4>1, Numbers DEF EndsBefore, FrameEnd
      <4> QED BY <1>1, <1>7, <4>2 DEF BelowFrame
    <3> QED BY <1>1, <1>2, <1>7, <3>1, <3>2 DEF BeginAhead
  <2>2. dispatch_frame_number' < RangeBegin /\ app_pc' \in BetweenFrames \cup {"play"}
    <3>1. CASE n \in 1 .. Len(Rest) /\ IsTerminator(Rest[n])
      BY <1>6, <1>7, <3>1 DEF BelowFrame, BetweenFrames
    <3>2. CASE UNCHANGED <<dispatch_frame_number, app_pc>>
      BY <1>2, <3>2
    <3> QED BY <3>1, <3>2 DEF PlaysEntries
  <2>3. BeforeRange'
    BY <1>1, <1>2, <1>5, <2>1, <2>2 DEF BeforeRange, Quiet, BetweenFrames
  <2> QED BY <1>2, <2>3
<1>8. CASE EndsBefore(Rest, RangeBegin) /\ CrossedAt(0, RangeBegin)
  <2>1. /\ Len(Rest) \in 1 .. Len(Rest) /\ Rest[Len(Rest)] = FrameEnd(RangeBegin)
        /\ \A i \in 1 .. Len(Rest) - 1 : NumberOf(Rest[i]) < RangeBegin
    BY <1>1, <1>8 DEF EndsBefore
  <2>2. IsTerminator(FrameEnd(RangeBegin)) /\ FrameEnd(RangeBegin).next_frame = RangeBegin
    BY EntryKinds DEF IsTerminator, FrameEnd
  <2>3. n \in 1 .. Len(Rest) /\ IsTerminator(Rest[n])
    BY <2>1, <2>2 DEF PlaysEntries
  <2>4. CASE n < Len(Rest)
    <3>1. dispatch_frame_number' < RangeBegin /\ app_pc' = "end_frame"
      <4>1. n \in 1 .. Len(Rest) - 1
        BY <1>3, <2>3, <2>4
      <4> QED BY <1>6, <2>1, <2>3, <4>1
    <3>2. BeginAhead'
      <4>1. \A t \in Nat : CrossedAt(0, t) /\ EndsBefore(Rest, t) => CrossedAt(0, t)'
        <5>1. 0 \in 0 .. Last
          BY AppMoves
        <5> QED BY <1>3, <2>4, <5>1, AppAhead
      <4>2. CrossedAt(0, RangeBegin)' /\ 0 \in 0 .. Last'
        BY <1>1, <1>8, <4>1, AppMoves
      <4> QED BY <4>2 DEF BeginAhead
    <3>3. BeforeRange'
      BY <1>1, <1>2, <1>5, <3>1, <3>2 DEF BeforeRange, Quiet, BetweenFrames
    <3> QED BY <1>2, <3>3
  <2>5. CASE ~(n < Len(Rest))
    <3>1. n = Len(Rest) /\ cursor' = 1 /\ Rest' = <<>>
      <4>1. n = Len(Rest)
        BY <1>3, <2>5
      <4>2. Advance /\ cursor' = 1
        BY <2>5 DEF PlaysEntries
      <4> QED BY <4>1, <4>2, AppMoves
    <3>2. dispatch_frame_number' = RangeBegin /\ app_pc' = "end_frame"
      <4>1. RangeBegin # NoFrame
        BY <1>1 DEF NoFrame
      <4> QED BY <2>1, <2>2, <2>3, <3>1, <4>1, FrameShown
    <3>3. AllFrom(0, RangeBegin)' /\ pos'.frame_number >= RangeBegin
      <4>1. 0 \in 0 .. Last
        BY AppMoves
      <4>2. \A t \in Nat : CrossedAt(0, t) => AllFrom(0, t)'
        <5>1. \A t : FromFrame(Rest', t)
          BY <3>1 DEF FromFrame
        <5> QED BY <4>1, <5>1, AppAhead
      <4> QED BY <1>1, <1>8, <4>2 DEF CrossedAt
    <3>4. InRange(preload_queue)'
      <4>1. preload_queue' = <<>> /\ Len(preload_queue') = 0
        BY <1>2
      <4> QED BY <4>1 DEF InRange
    <3>5. AtRange'
      BY <1>1, <1>2, <1>5, <3>1, <3>2, <3>3, <3>4 DEF AtRange, BetweenFrames
    <3> QED BY <1>2, <3>5
  <2> QED BY <2>4, <2>5
<1> QED BY <1>4, <1>7, <1>8

(* Behind the range.                                                         *)
LEMMA PlayAfterRange ==
  ASSUME AppStep, PlayBatch, NEW n, PlaysEntries(n), AfterRange
  PROVE  AfterRange' \/ ~Going'
<1>1. /\ RangeBegin \in Nat /\ RangeBegin' = RangeBegin /\ pos' = pos /\ async_pc' = async_pc
      /\ Rest \in Seq(Entries)
  BY AppMoves
<1>2. /\ preload_queue' = <<>> /\ ~replay_from_queue' /\ app_pc = "play" /\ BehindRange(0)
  BY DEF PlayBatch, AfterRange, Quiet, preload_vars
<1>3. \A t \in Nat : AllFrom(0, t) => AllFrom(0, t)' /\ FromFrame(Rest, t)
  <2>1. /\ n \in 0 .. Len(Rest) /\ Rest' \in Seq(Entries) /\ Len(Rest') = Len(Rest) - n
        /\ \A i \in 1 .. Len(Rest') : Rest'[i] = Rest[n + i]
    BY DEF PlaysEntries
  <2>2. \A t : FromFrame(Rest, t) => FromFrame(Rest', t)
    BY <1>1, <2>1, Behind
  <2> QED BY <2>2, AppAhead
<1>4. RangeBegin + 1 \in Nat
  BY <1>1
<1>5. BehindRange(0)' /\ FromFrame(Rest, RangeBegin + 1)
  <2>1. AllFrom(0, RangeBegin + 1)' /\ FromFrame(Rest, RangeBegin + 1)
    BY <1>1, <1>2, <1>3, <1>4 DEF BehindRange
  <2> QED BY <1>1, <1>2, <2>1 DEF BehindRange
<1>6. CASE n \in 1 .. Len(Rest) /\ IsTerminator(Rest[n])
  <2>1. success' => dispatch_frame_number' > RangeBegin
    <3>1. SUFFICES ASSUME success' PROVE dispatch_frame_number' > RangeBegin
      OBVIOUS
    <3>2. /\ Rest[n] # ContinueEntry /\ NumberOf(Rest[n]) = Rest[n].next_frame
          /\ Rest[n].next_frame \in Nat \cup {NoFrame}
          /\ dispatch_frame_number' = IF Rest[n].next_frame = NoFrame THEN dispatch_frame_number
                                                                      ELSE Rest[n].next_frame
      BY <1>6, <3>1, FrameShown
    <3>3. Rest[n].next_frame >= RangeBegin + 1
      BY <1>5, <1>6, <3>2 DEF FromFrame
    <3> QED BY <1>1, <3>2, <3>3 DEF NoFrame
  <2>2. app_pc' = "end_frame"
    BY <1>6, FrameShown
  <2>3. CASE success'
    <3>1. dispatch_frame_number' > RangeBegin'
      BY <1>1, <2>1, <2>3
    <3> QED BY <1>2, <1>5, <2>2, <3>1 DEF AfterRange, Quiet, BetweenFrames
  <2>4. CASE ~success'
    BY <2>2, <2>4 DEF Going
  <2> QED BY <2>3, <2>4
<1>7. CASE UNCHANGED <<dispatch_frame_number, app_pc>>
  BY <1>2, <1>5, <1>7 DEF AfterRange, Quiet, BetweenFrames
<1> QED BY <1>6, <1>7 DEF PlaysEntries

LEMMA PlayBatchStep ==
  ASSUME AppStep, PlayBatch
  PROVE  ReplayInv'
<1>0. PICK n : PlaysEntries(n)
  BY PlayTakes
<1>1. /\ app_pc = "play" /\ ~replay_from_queue /\ preload_queue = <<>>
      /\ UNCHANGED <<preload_queue, preload_at, replay_from_queue, looping>>
      /\ cursor' \in Nat \ {0} /\ ((Advance /\ cursor' = 1) \/ UNCHANGED vars)
      /\ app_pc' \in {"play", "end_frame"}
  BY <1>0 DEF PlayBatch, PlaysEntries, preload_vars, loop_vars
<1>2. /\ ProcessorInv' /\ input' = input /\ Frames' = Frames /\ (Active' <=> Active)
      /\ input \in Inputs
  BY AppMoves DEF AppStep, ReplayInv, ProcessorInv, BatchesInv, IInv, TypeOK
<1>3. Alive' /\ AtHead'
  BY <1>1, AppAlive
<1>4. ClientCounted'
  <2>1. ClientCounted
    BY DEF AppStep, ReplayInv
  <2>2. ~looping => dispatch_frame_number' \in 0 .. Frames
    <3>1. SUFFICES ASSUME ~looping PROVE dispatch_frame_number' \in 0 .. Frames
      OBVIOUS
    <3>2. dispatch_frame_number \in 0 .. Frames /\ Frames \in Nat
      BY <1>2, <2>1, <3>1, OptionTypes DEF ClientCounted
    <3>3. CASE n \in 1 .. Len(Rest) /\ IsTerminator(Rest[n])
      <4>1. /\ Rest[n].next_frame \in Nat \cup {NoFrame} /\ Rest[n].next_frame <= Frames
            /\ dispatch_frame_number' = IF Rest[n].next_frame = NoFrame THEN dispatch_frame_number
                                                                       ELSE Rest[n].next_frame
        BY <1>0, <3>3, FrameShown
      <4> QED BY <3>2, <4>1
    <3>4. CASE UNCHANGED dispatch_frame_number
      BY <3>2, <3>4
    <3> QED BY <1>0, <3>3, <3>4 DEF PlaysEntries
  <2> QED BY <1>1, <1>2, <2>1, <2>2 DEF ClientCounted
<1>5. Measured'
  BY <1>1, <1>2 DEF AppStep, ReplayInv, Measured, Preloading
<1>6. Phases'
  <2>1. SUFFICES ASSUME Active, Going' PROVE BeforeRange' \/ AtRange' \/ AfterRange'
    BY <1>2 DEF Phases
  <2>2. BeforeRange \/ AfterRange
    BY <1>1, <2>1 DEF AppStep, ReplayInv, Phases, Going, AtRange, InMeasurement, BetweenFrames
  <2>3. CASE BeforeRange
    BY <1>0, <2>1, <2>3, PlayBeforeRange
  <2>4. CASE AfterRange
    BY <1>0, <2>1, <2>4, PlayAfterRange
  <2> QED BY <2>2, <2>3, <2>4
<1> QED BY <1>2, <1>3, <1>4, <1>5, <1>6 DEF ReplayInv

(* The application gives up.                                                 *)
LEMMA GivesUpStep ==
  ASSUME AppStep, UNCHANGED vars, cursor' = cursor,
         UNCHANGED <<dispatch_frame_number, preload_vars, looping>>,
         \/ app_pc = "play" /\ app_pc' = "aborted"
         \/ app_pc = "events" /\ app_pc' = "quit"
  PROVE  ReplayInv'
<1>1. /\ input' = input /\ (Active' <=> Active) /\ (NoMoreFrames' <=> NoMoreFrames)
      /\ (HeldAtFence' <=> HeldAtFence) /\ dispatch_pc' = dispatch_pc
      /\ UNCHANGED <<preload_queue, preload_at, replay_from_queue>>
  BY AppMoves DEF preload_vars
<1>2. ClientCounted'
  BY <1>1, CountedStays DEF AppStep, ReplayInv, ClientCounted
<1>3. InRange(preload_queue)' <=> InRange(preload_queue)
  BY <1>1 DEF InRange, InPreloadRange, RangeBegin
<1>4. Measured'
  BY <1>1, <1>3 DEF AppStep, ReplayInv, Measured, Preloading
<1>5. Phases'
  BY DEF Phases, Going
<1>6. app_pc' \notin {"quit", "ended"} => app_pc \notin {"quit", "ended"}
  OBVIOUS
<1> QED BY <1>2, <1>4, <1>5, <1>6, StayInv

(* The file processor is destroyed: the producer reads no more.              *)
LEMMA DestroyStep ==
  ASSUME EveryStutterIsEarly, ReplayInv, DestroyProcessor
  PROVE  ReplayInv'
<1>1. /\ app_pc \in {"quit", "ended"} /\ app_pc' = app_pc
      /\ UNCHANGED <<preload_queue, preload_at, replay_from_queue, looping,
                     dispatch_frame_number, cursor>>
      /\ ~keep_alive' /\ dispatch_pc' = "destroy_notify" /\ Next
      /\ UNCHANGED <<input, async_pc, pos, process_state>>
  BY DEF DestroyProcessor, Destroy, GoDispatch, client_vars, preload_vars, loop_vars, Next,
     async_vars, reader_vars
<1>2. ProcessorInv /\ BatchesInv /\ TypeOK /\ cursor \in Nat \ {0}
  BY DEF ReplayInv, ProcessorInv, BatchesInv, IInv, ClientCounted
<1>3. ProcessorInv' /\ Frames' = Frames
  BY <1>1, <1>2, ProcessorInvStep
<1>4. Alive' /\ AtHead' /\ Phases'
  BY <1>1 DEF Alive, AtHead, DispatchLabelsAhead, Phases, Going
<1>5. ClientCounted'
  BY <1>1, <1>3 DEF ReplayInv, ClientCounted
<1>6. NoMoreFrames \/ HeldAtFence => NoMoreFrames'
  <2>1. CASE NoMoreFrames
    BY <1>1, <1>2, <2>1, ReadingIsOver
  <2>2. CASE HeldAtFence
    <3>1. Last \in Nat \ {0}
      BY <1>2, AheadTypes
    <3>2. async_pc \in {"fence"} \cup WaitLabels
      BY <2>2, <3>1 DEF HeldAtFence, Held
    <3> QED BY <1>1, <3>2 DEF NoMoreFrames, AfterResult
  <2> QED BY <2>1, <2>2
<1>7. InRange(preload_queue)' <=> InRange(preload_queue)
  BY <1>1 DEF InRange, InPreloadRange, RangeBegin
<1>8. Measured'
  BY <1>1, <1>6, <1>7 DEF ReplayInv, Measured, Preloading, DispatchLabelsAhead
<1> QED BY <1>3, <1>4, <1>5, <1>8 DEF ReplayInv

LEMMA StutterReplayInv == ReplayInv /\ UNCHANGED replay_vars => ReplayInv'
<1> SUFFICES ASSUME ReplayInv, UNCHANGED replay_vars PROVE ReplayInv'
  OBVIOUS
<1>1. /\ UNCHANGED <<input, pos, process_state, batch, enqueued_batch_index, preloading,
                     async_pc, queue, queue_open, got, throttle_wait_target, keep_alive,
                     dispatch_pc>>
      /\ UNCHANGED <<app_pc, success, dispatch_frame_number, preload_queue, preload_at,
                     replay_from_queue, looping, cursor>>
      /\ UNCHANGED vars
  BY DEF replay_vars, processor_vars, vars, reader_vars, queue_vars, dispatch_vars, client_vars,
     preload_vars, loop_vars
<1>2. /\ UNCHANGED <<LiveBatches, NoMoreFrames, Frames, RangeBegin, RangeEnd, Last, CurrentBatch,
                     AtEndOfQueue>>
      /\ \A e : EndsReading(e)' <=> EndsReading(e)
      /\ \A s : InRange(s)' <=> InRange(s)
      /\ \A c : Held(c)' <=> Held(c)
  <2>1. UNCHANGED <<LiveBatches, NoMoreFrames, Frames, RangeBegin, RangeEnd, Last, CurrentBatch>>
    BY <1>1 DEF LiveBatches, NoMoreFrames, Frames, RangeBegin, RangeEnd, Last, CurrentBatch
  <2>2. UNCHANGED AtEndOfQueue
    BY <2>1 DEF AtEndOfQueue
  <2> QED BY <1>1, <2>1, <2>2 DEF EndsReading, InRange, InPreloadRange, Held
<1>3. Rest' = Rest /\ Filling' = Filling
  BY <1>1, <1>2 DEF Rest, Filling
<1>4. \A j : AheadAt(j)' = AheadAt(j)
  BY <1>1, <1>2, <1>3 DEF AheadAt
<1>5. ProcessorInv'
  <2>1. BatchesInv'
    BY <1>1, StutterBatchesInv DEF ReplayInv, ProcessorInv
  <2>2. EndsAreLast' /\ FramesCounted'
    BY <1>1, <1>2 DEF ReplayInv, ProcessorInv, EndsAreLast, FramesCounted
  <2>3. RangeBegin < RangeEnd => BeginEndsBatch'
    <3>1. FrameEnd(RangeBegin)' = FrameEnd(RangeBegin)
      BY <1>2 DEF FrameEnd, ResultEntry
    <3> QED BY <1>1, <1>2, <3>1 DEF ReplayInv, ProcessorInv, BeginEndsBatch
  <2>4. Flushed' /\ Closing'
    BY <1>1, <1>2 DEF ReplayInv, ProcessorInv, Flushed, Closing
  <2> QED BY <1>2, <2>1, <2>2, <2>3, <2>4 DEF ProcessorInv
<1>6. HeldAtFence' <=> HeldAtFence
  BY <1>1, <1>2 DEF HeldAtFence
<1>7. Alive' /\ AtHead' /\ ClientCounted'
  BY <1>1, <1>2 DEF ReplayInv, Alive, AtHead, ClientCounted
<1>8. InRange(preload_queue)' <=> InRange(preload_queue)
  BY <1>1, <1>2 DEF InRange, InPreloadRange
<1>9. Measured'
  BY <1>1, <1>2, <1>6, <1>8 DEF ReplayInv, Measured, Preloading, FrameNumber, Active
<1>10. /\ \A t : NotReached(t)' <=> NotReached(t)
       /\ \A c, t : CrossedAt(c, t)' <=> CrossedAt(c, t)
       /\ \A k, t : AllFrom(k, t)' <=> AllFrom(k, t)
  <2>1. \A t : NotReached(t)' <=> NotReached(t)
    BY <1>1, <1>2, <1>4 DEF NotReached, BelowFrame
  <2>2. \A c, t : CrossedAt(c, t)' <=> CrossedAt(c, t)
    BY <1>1, <1>2, <1>4 DEF CrossedAt, BelowFrame, EndsBefore, FromFrame
  <2>3. \A k, t : AllFrom(k, t)' <=> AllFrom(k, t)
    BY <1>2, <1>4 DEF AllFrom, FromFrame
  <2> QED BY <2>1, <2>2, <2>3
<1>11. (BeginAhead' <=> BeginAhead) /\ (EndAhead' <=> EndAhead)
  <2>1. NotReached(RangeBegin)' <=> NotReached(RangeBegin)
    BY <1>2, <1>10
  <2>2. NotReached(RangeEnd)' <=> NotReached(RangeEnd)
    BY <1>2, <1>10
  <2>3. \A c : /\ CrossedAt(c, RangeBegin)' <=> CrossedAt(c, RangeBegin)
               /\ CrossedAt(c, RangeEnd)' <=> CrossedAt(c, RangeEnd)
    BY <1>2, <1>10
  <2> QED BY <1>2, <2>1, <2>2, <2>3 DEF BeginAhead, EndAhead
<1>12. \A k : BehindRange(k)' <=> BehindRange(k)
  <2>1. (RangeBegin + 1)' = RangeBegin + 1
    BY <1>2
  <2>2. \A k : AllFrom(k, RangeBegin + 1)' <=> AllFrom(k, RangeBegin + 1)
    BY <1>10, <2>1
  <2> QED BY <1>1, <2>1, <2>2 DEF BehindRange
<1>13. Phases'
  <2>1. AllFrom(0, RangeBegin)' <=> AllFrom(0, RangeBegin)
    BY <1>2, <1>10
  <2>2. (BeforeRange' <=> BeforeRange) /\ (AtRange' <=> AtRange)
    BY <1>1, <1>2, <1>8, <1>11, <2>1 DEF BeforeRange, AtRange, Quiet, BetweenFrames
  <2>3. (InMeasurement' <=> InMeasurement) /\ (AfterRange' <=> AfterRange)
    BY <1>1, <1>2, <1>8, <1>12 DEF InMeasurement, AfterRange, Quiet, BetweenFrames, EndsTheReplay
  <2>4. (Active' <=> Active) /\ (Going' <=> Going)
    BY <1>1, <1>2 DEF Active, Going
  <2> QED BY <2>2, <2>3, <2>4 DEF ReplayInv, Phases
<1> QED BY <1>5, <1>7, <1>9, <1>13 DEF ReplayInv

-----------------------------------------------------------------------------
(* Every replay                                                              *)

LEMMA InitReplayInv == ReplayInit => ReplayInv
<1> SUFFICES ASSUME ReplayInit PROVE ReplayInv
  OBVIOUS
<1>1. /\ batch = <<>> /\ queue = <<>> /\ queue_open = TRUE /\ got[Dispatcher] = NoBatch
      /\ async_pc = "not_started" /\ pos = StartOf(input.capture) /\ dispatch_pc = "launch"
      /\ input \in Inputs /\ ~preloading
      /\ app_pc = "events" /\ dispatch_frame_number = 0 /\ preload_queue = <<>>
      /\ preload_at = 1 /\ replay_from_queue = FALSE /\ looping = FALSE /\ cursor = 1
  BY DEF ReplayInit, ClientInit, Init, Queue!Init
<1>2. /\ pos.frame_number = 0 /\ pos.block_index = 0
      /\ RangeBegin \in Nat /\ RangeEnd \in Nat /\ Frames \in Nat
  BY <1>1, RangeTypes, OptionTypes DEF StartOf
<1>3. BatchesInv
  BY InitBatchesInv DEF ReplayInit
<1>4. LiveBatches = {<<>>}
  <2>1. DOMAIN queue = {}
    BY <1>1
  <2> QED BY <1>1, <2>1 DEF LiveBatches
<1>5. \A b \in LiveBatches : Len(b) = 0
  BY <1>4
<1>6. EndsAreLast /\ FramesCounted /\ BeginEndsBatch
  <2>1. \A b \in LiveBatches : \A i : i \notin 1 .. Len(b) /\ i \notin 1 .. Len(b) - 1
    BY <1>5
  <2> QED BY <1>1, <1>2, <2>1 DEF EndsAreLast, FramesCounted, BeginEndsBatch
<1>7. Flushed /\ Closing
  <2>1. \A i : i \notin 1 .. Len(queue)
    BY <1>1
  <2> QED BY <1>1, <2>1 DEF Flushed, Closing, CurrentBatch, AtEndOfQueue
<1>8. Alive /\ AtHead
  BY <1>1 DEF Alive, AtHead, DispatchLabelsAhead
<1>9. ClientCounted
  <2>1. <<>> \in Seq(Entries) /\ Len(<<>>) = 0
    OBVIOUS
  <2> QED BY <1>1, <1>2, <2>1 DEF ClientCounted
<1>10. Measured
  BY <1>1 DEF Measured, Preloading
<1>11. Phases
  <2>1. SUFFICES ASSUME RangeBegin < RangeEnd PROVE BeforeRange \/ AtRange
    BY DEF Phases, Active
  <2>2. Rest = <<>> /\ Filling = <<>> /\ Last = 1
    BY <1>1 DEF Rest, Filling, Last
  <2>3. \A j \in 0 .. Last : AheadAt(j) = <<>>
    BY <2>2 DEF AheadAt
  <2>4. \A j \in 0 .. Last : \A i : i \notin 1 .. Len(AheadAt(j))
    <3>1. \A i : i \notin 1 .. Len(<<>>)
      OBVIOUS
    <3> QED BY <2>3, <3>1
  <2>5. EndAhead
    BY <1>2, <2>1, <2>4 DEF EndAhead, NotReached, BelowFrame
  <2>6. CASE RangeBegin = 0
    <3>1. AllFrom(0, RangeBegin)
      BY <2>4 DEF AllFrom, FromFrame
    <3>2. InRange(preload_queue)
      <4>1. Len(preload_queue) = 0
        BY <1>1
      <4> QED BY <4>1 DEF InRange
    <3> QED BY <1>1, <1>2, <2>5, <2>6, <3>1, <3>2 DEF AtRange, BetweenFrames
  <2>7. CASE RangeBegin # 0
    <3>1. 0 < RangeBegin
      BY <1>2, <2>7
    <3>2. BeginAhead
      BY <1>2, <2>4, <3>1 DEF BeginAhead, NotReached, BelowFrame
    <3> QED BY <1>1, <2>5, <3>1, <3>2 DEF BeforeRange, Quiet, BetweenFrames
  <2> QED BY <2>6, <2>7
<1> QED BY <1>3, <1>6, <1>7, <1>8, <1>9, <1>10, <1>11 DEF ReplayInv, ProcessorInv

LEMMA NextReplayInv ==
  ASSUME EveryStutterIsEarly, ReplayInv, ReplayNext
  PROVE  ReplayInv'
<1>1. CASE InProcessor(AsyncStep) \/ InProcessor(SpuriousWakeup)
  <2>1. InProcessor(AsyncStep \/ SpuriousWakeup)
    BY <1>1 DEF InProcessor
  <2> QED BY <2>1, ProducerReplayStep
<1>2. CASE InProcessor(DispatchStep)
  BY <1>2, DispatchReplayStep
<1>3. CASE Client
  BY <1>3, ClientStep
<1>4. CASE PreloadBatch \/ PreloadEnd \/ ClearPreloaded \/ PlayBatch \/ PlayPastTheEnd \/ UserQuits
  <2>1. Advance \/ UNCHANGED vars
    BY <1>4, ReplayStepIsDispatch DEF ReplayStep
  <2>2. dispatch_pc = "idle"
    BY <1>4 DEF Idle, PreloadBatch, PreloadEnd, ClearPreloaded, PlayBatch, PlayPastTheEnd, UserQuits
  <2>3. AppStep
    BY <2>1, <2>2 DEF AppStep
  <2>4. CASE PreloadBatch
    <3>1. app_pc \in {"preload_loop", "preload_range"}
      BY <2>4 DEF PreloadBatch, Preloading
    <3> QED BY <2>3, <2>4, <3>1, PreloadLoopStep, PreloadRangeStep
  <2>5. CASE PreloadEnd
    BY <2>3, <2>5, PreloadEndStep
  <2>6. CASE ClearPreloaded
    BY <2>3, <2>6, ClearPreloadedStep
  <2>7. CASE PlayBatch
    BY <2>3, <2>7, PlayBatchStep
  <2>8. CASE PlayPastTheEnd
    <3>1. /\ UNCHANGED vars /\ cursor' = cursor
          /\ UNCHANGED <<dispatch_frame_number, preload_vars, looping>>
          /\ app_pc = "play" /\ app_pc' = "aborted"
      BY <2>8 DEF PlayPastTheEnd, StayAt, processor_vars, GoApp, loop_vars
    <3> QED BY <2>3, <3>1, GivesUpStep
  <2>9. CASE UserQuits
    <3>1. /\ UNCHANGED vars /\ cursor' = cursor
          /\ UNCHANGED <<dispatch_frame_number, preload_vars, looping>>
          /\ app_pc = "events" /\ app_pc' = "quit"
      BY <2>9 DEF UserQuits, QuitEvent, StayAt, processor_vars, GoApp, loop_vars
    <3> QED BY <2>3, <3>1, GivesUpStep
  <2> QED BY <1>4, <2>4, <2>5, <2>6, <2>7, <2>8, <2>9
<1>5. CASE DestroyProcessor
  BY <1>5, DestroyStep
<1>6. CASE Terminated
  BY <1>6, StutterReplayInv DEF Terminated
<1> QED BY <1>1, <1>2, <1>3, <1>4, <1>5, <1>6 DEF ReplayNext, ReplayStep

(* In every replay of captures whose markers are early, with any options and  *)
(* any cut into batches, the application and the processing thread agree on   *)
(* where the range begins and ends in what is between them.                   *)
THEOREM ReplayInvariance ==
  ASSUME EveryStutterIsEarly
  PROVE  ReplaySpec => []ReplayInv
<1>1. ReplayInv /\ [ReplayNext]_replay_vars => ReplayInv'
  BY NextReplayInv, StutterReplayInv
<1> QED BY <1>1, InitReplayInv, PTL DEF ReplaySpec

(* While preloaded frames are replayed the processing thread neither reads    *)
(* nor parses: it is done, or it waits behind the fence that follows the last *)
(* preloaded frame (preload_file_processor.cpp:306-308).                      *)
THEOREM NoReadingWhileMeasuredCorrect ==
  ASSUME EveryStutterIsEarly
  PROVE  ReplaySpec => []NoReadingWhileMeasured
<1>1. ReplayInv => NoReadingWhileMeasured
  <2> SUFFICES ASSUME ReplayInv, replay_from_queue
               PROVE  async_pc \notin {"top", "read", "read_into_new_batch", "result"}
    BY DEF NoReadingWhileMeasured
  <2>1. Last \in Nat \ {0}
    BY AheadTypes DEF ReplayInv, ProcessorInv, BatchesInv, IInv, ClientCounted
  <2>2. NoMoreFrames \/ HeldAtFence
    BY DEF ReplayInv, Measured
  <2> QED BY <2>1, <2>2 DEF NoMoreFrames, HeldAtFence, Held, AfterResult, WaitLabels
<1> QED BY <1>1, ReplayInvariance, PTL

(* What is preloaded of a range, and measured, are frames of that range: the  *)
(* frames behind it are not among them, in whatever batches they come         *)
(* (PreloadNextFramesAsync).                                                  *)
THEOREM PreloadedFramesAreTheRangeCorrect ==
  ASSUME EveryStutterIsEarly
  PROVE  ReplaySpec => []PreloadedFramesAreTheRange
<1>1. ReplayInv => PreloadedFramesAreTheRange
  <2> SUFFICES ASSUME ReplayInv, replay_from_queue, ~looping,
                      NEW i \in DOMAIN preload_queue, ~IsResult(preload_queue[i])
               PROVE  /\ input.preload_begin <= preload_queue[i].frame
                      /\ preload_queue[i].frame < input.preload_end
    BY DEF PreloadedFramesAreTheRange
  <2>1. i \in 1 .. Len(preload_queue)
    BY DEF ReplayInv, ClientCounted
  <2> QED BY <2>1 DEF ReplayInv, Measured, InRange, InPreloadRange
<1> QED BY <1>1, ReplayInvariance, PTL


-----------------------------------------------------------------------------
(***************************************************************************)
(* Where the limit of the producer leaves room for all that is preloaded   *)
(* or looped, replay never asks for a frame that is not read.  Once the    *)
(* producer will read no more, the result that says so is on its way to    *)
(* the application, at the tail of one of the batches ahead of it, or the  *)
(* application has it: in what it preloaded, or in the frame it replayed.  *)
(* The two do not meet at a frame by chance: LimitsAgree is what relates   *)
(* the number the producer stops at to the one replay ends at.             *)
(***************************************************************************)
EndsBatch(s) == s # <<>> /\ EndsReading(s[Len(s)])

(* The result the producer is about to add is that of a call.                *)
ResultIsMade ==
  async_pc = "result" =>
    /\ process_state # "kContinue"
    /\ process_state = "kFrameBoundary" => pos.frame_number >= 1

FramesAreNumbered ==
  \A b \in LiveBatches : \A i \in 1 .. Len(b) :
    IsResult(b[i]) /\ b[i].state = "kFrameBoundary" => b[i].next_frame >= 1

(* The application stays in the last batch it preloaded until that is played. *)
HasPreloaded == preload_queue # <<>> /\ ~Preloading
FirstAhead == IF HasPreloaded THEN 1 ELSE 0
TakenIsBehind == HasPreloaded => dispatch_pc \notin DispatchLabelsAhead

EndIsAhead == \E j \in FirstAhead .. Last : EndsBatch(AheadAt(j))
EndIsTaken ==
  \/ looping
  \/ replay_from_queue /\ EndsBatch(preload_queue)
  \/ app_pc = "end_frame" /\ ~success
  \/ /\ app_pc \in BetweenFrames /\ input.options.loop_frame = 0
     /\ dispatch_frame_number >= input.quit_before_frame
EndIsKnown == app_pc \notin {"quit", "ended"} /\ NoMoreFrames => EndIsAhead \/ EndIsTaken

(* What is played from memory ends with a result.                            *)
QueueEnds ==
  /\ replay_from_queue =>
       /\ preload_queue # <<>> /\ preload_at \in 1 .. Len(preload_queue)
       /\ IsTerminator(preload_queue[Len(preload_queue)])
  /\ looping => replay_from_queue /\ loop_bookmark \in 1 .. Len(preload_queue)

(* Only the first frame is looped.                                           *)
LoopsAtOnce ==
  input.options.loop_frame # 0 /\ ~looping =>
    \/ app_pc \in {"quit", "ended", "preload_loop"}
    \/ app_pc = "events" /\ dispatch_frame_number = 0

EndInv ==
  /\ ResultIsMade /\ FramesAreNumbered
  /\ LimitsAgree(input.options) =>
       /\ QueueEnds /\ LoopsAtOnce /\ TakenIsBehind
       /\ EndIsKnown
       /\ app_pc # "aborted"


LEMMA ResultIsMadeStep ==
  ASSUME BatchesInv, ResultIsMade, Next \/ UNCHANGED vars
  PROVE  ResultIsMade'
<1>0. TypeOK /\ pos \in Positions
  BY DEF BatchesInv, IInv, TypeOK
<1> SUFFICES ASSUME async_pc' = "result"
             PROVE  /\ process_state' # "kContinue"
                    /\ process_state' = "kFrameBoundary" => pos'.frame_number >= 1
  BY DEF ResultIsMade
<1>1. CASE ReadBlock
  <2> DEFINE kind == NextKind(input.capture, pos)
             q == AfterBlock(pos, kind)
  <2>1. IsFrameDelimiter(pos, kind) /\ pos' = q /\ process_state' = BlockState(pos, kind)
    BY <1>1 DEF ReadBlock, GoAsync
  <2>2. q.frame_number = 1 \/ q.frame_number = pos.frame_number + 1
    BY <1>0, <2>1, AfterBlockFields
  <2>3. pos.frame_number \in Nat
    BY <1>0 DEF Positions
  <2> HIDE DEF q
  <2> QED BY <2>1, <2>2, <2>3 DEF BlockState
<1>2. CASE StopReading
  <2>1. process_state' = StopState(input.capture, input.block_limit, pos)
        /\ Stops(input.capture, input.block_limit, pos)
    BY <1>2 DEF StopReading
  <2> QED BY <2>1, StopStateType DEF Stops
<1>3. CASE ~ReadBlock /\ ~StopReading
  <2>1. async_pc = "result" /\ UNCHANGED <<pos, process_state>>
    <3>1. CASE AsyncStep \/ SpuriousWakeup
      BY <1>3, <3>1 DEF AsyncStep, StartThread, TopOfLoop, MakeRoom, AddResult, Fence,
         ReadPending, LowWater, HighWater, BetweenWaters, WaitDone, NotYet, Block, Reacquire,
         WaitStep, BottomOfLoop, LastFlush, CloseQueue, SpuriousWakeup, GoAsync
    <3>2. CASE DispatchStep \/ Advance \/ Destroy \/ UNCHANGED vars
      BY <3>2 DEF DispatchStep, LaunchAsyncThread, Advance, PopBatch, PopEnd, StoreDequeued,
        NotifyDequeued, Destroy, DestroyNotify, Join, vars, reader_vars, async_vars,
        NotifyThrottle, GoAsync
    <3> QED BY <3>1, <3>2 DEF Next, Finished
  <2> QED BY <2>1 DEF ResultIsMade
<1> QED BY <1>1, <1>2, <1>3

LEMMA FramesNumberedStep ==
  ASSUME BatchesInv, ResultIsMade, FramesAreNumbered, Next \/ UNCHANGED vars
  PROVE  FramesAreNumbered'
<1> SUFFICES ASSUME NEW b \in LiveBatches', NEW i \in 1 .. Len(b),
                    IsResult(b[i]), b[i].state = "kFrameBoundary"
             PROVE  b[i].next_frame >= 1
  BY DEF FramesAreNumbered
<1>1. CASE AsyncStep \/ SpuriousWakeup
  <2>1. CASE \E d \in LiveBatches : \E k \in 1 .. Len(d) : b[i] = d[k]
    BY <2>1 DEF FramesAreNumbered
  <2>2. b[i] # ContinueEntry
    BY EntryKinds DEF ContinueEntry
  <2>3. b[i] # BlockEntry(pos.block_index + 1, pos.frame_number, policy)
    BY EntryKinds
  <2>4. CASE /\ ResultAdded(Append(batch, b[i]))
             /\ b[i] = ResultEntry(process_state, pos.frame_number)
    <3>1. b[i].state = process_state /\ b[i].next_frame = pos.frame_number
      BY <2>4, EntryKinds
    <3> QED BY <2>4, <3>1 DEF ResultAdded, ResultIsMade
  <2> QED BY <1>1, <2>1, <2>2, <2>3, <2>4, EntriesChange
<1>2. CASE DispatchStep \/ Advance \/ Destroy \/ UNCHANGED vars
  BY <1>2, DispatchedBatches DEF FramesAreNumbered, BatchesInv, IInv
<1> QED BY <1>1, <1>2 DEF Next, Finished

-----------------------------------------------------------------------------
(* The steps of the processor leave the end where it is.                     *)

(* The state between two steps, and what is common to all of them.           *)
EndStep ==
  /\ EveryStutterIsEarly /\ ReplayInv /\ ReplayInv' /\ EndInv /\ input' = input
  /\ LimitsAgree(input.options)

LEMMA EndsStay ==
  ASSUME input' = input
  PROVE  \A s : EndsBatch(s)' <=> EndsBatch(s)
BY DEF EndsBatch, EndsReading

(* The last frame is read: its result is what is added.                      *)
LEMMA LastResult ==
  ASSUME EndStep, AsyncStep \/ SpuriousWakeup, ~NoMoreFrames, NoMoreFrames',
         app_pc \notin {"quit", "ended"}, keep_alive' = keep_alive
  PROVE  async_pc = "result" /\ EndsBatch(Filling)
<1>0. /\ TypeOK /\ LaunchStartsIt /\ Alive /\ ResultIsMade /\ input' = input
      /\ batch \in Seq(Entries) /\ pos \in Positions /\ process_state \in ProcessBlockStates
      /\ pos.frame_number \in Nat /\ input.quit_before_frame \in Nat
  <2>1. TypeOK
    BY DEF EndStep, ReplayInv, ProcessorInv, BatchesInv, IInv
  <2> QED BY <2>1, InputAssumption DEF EndStep, ReplayInv, ProcessorInv, BatchesInv, EndInv, TypeOK, Positions
<1>1. async_pc = "result" /\ UNCHANGED <<pos, process_state>> /\ async_pc' \in AfterResult
  <2> USE DEF WaitLabels, AfterResult
  <2>1. CASE BottomOfLoop
    BY <1>0, <2>1 DEF BottomOfLoop, NoMoreFrames, GoAsync, reader_vars
  <2>2. CASE AddResult
    BY <2>2 DEF AddResult, GoAsync
  <2>3. CASE \/ Fence \/ ReadPending \/ LowWater \/ HighWater \/ BetweenWaters \/ WaitDone
             \/ NotYet \/ Block \/ Reacquire \/ SpuriousWakeup
    <3>1. async_pc \in AfterResult /\ async_pc' \in AfterResult /\ UNCHANGED <<pos, process_state>>
      BY <2>3 DEF Fence, ReadPending, LowWater, HighWater, BetweenWaters, WaitDone,
        NotYet, Block, Reacquire, WaitStep, SpuriousWakeup, GoAsync, dispatch_vars, reader_vars
    <3> QED BY <1>0, <3>1 DEF NoMoreFrames
  <2>4. CASE \/ StartThread \/ TopOfLoop \/ MakeRoom \/ ReadBlock \/ StopReading \/ LastFlush
             \/ CloseQueue
    BY <2>4 DEF StartThread, TopOfLoop, MakeRoom, ReadBlock, StopReading, LastFlush,
       CloseQueue, NoMoreFrames, GoAsync
  <2> QED BY <2>1, <2>2, <2>3, <2>4 DEF AsyncStep
<1> DEFINE e == ResultEntry(process_state, pos.frame_number)
<1>2. Filling = Append(batch, e) /\ e \in Entries
  BY <1>0, <1>1, EntryTypes DEF Filling
<1>3. keep_alive'
  BY <1>0, <1>1 DEF Alive, LaunchStartsIt
<1>4. ~ContinueProcessing(process_state) \/ pos.frame_number >= input.quit_before_frame
  BY <1>0, <1>1, <1>3 DEF NoMoreFrames, AfterResult, WaitLabels
<1>5. IsResult(e) /\ e.state = process_state /\ e.next_frame = pos.frame_number
  BY EntryKinds
<1>6. process_state # "kContinue"
  BY <1>0, <1>1 DEF ResultIsMade
<1>7. EndsReading(e)
  BY <1>4, <1>5, <1>6 DEF EndsReading, ContinueProcessing
<1> HIDE DEF e
<1>8. Filling # <<>> /\ Filling[Len(Filling)] = e
  BY <1>0, <1>2, Appended
<1> QED BY <1>1, <1>7, <1>8 DEF EndsBatch

LEMMA ProducerEndStep ==
  ASSUME EndStep, InProcessor(AsyncStep \/ SpuriousWakeup)
  PROVE  EndInv'
<1>0. /\ Next /\ (AsyncStep \/ SpuriousWakeup)
      /\ UNCHANGED client_vars /\ cursor' = cursor /\ cursor \in Nat \ {0}
      /\ BatchesInv /\ BatchesInv' /\ EveryStutterIsEarly
      /\ UNCHANGED <<dispatch_pc, keep_alive, input>>
  <2>1. Next /\ (AsyncStep \/ SpuriousWakeup) /\ UNCHANGED client_vars /\ cursor' = cursor
    BY DEF InProcessor, Next
  <2>2. /\ cursor \in Nat \ {0} /\ BatchesInv /\ BatchesInv' /\ EveryStutterIsEarly
    BY DEF EndStep, ReplayInv, ProcessorInv, ClientCounted
  <2> QED BY <2>1, <2>2, ProducerMoves
<1>1. ResultIsMade' /\ FramesAreNumbered'
  BY <1>0, ResultIsMadeStep, FramesNumberedStep DEF EndInv, EndStep
<1>2. UNCHANGED <<app_pc, success, dispatch_frame_number, preload_queue, preload_at,
                  replay_from_queue, looping, loop_bookmark>>
  BY <1>0 DEF client_vars, preload_vars, loop_vars
<1>3. QueueEnds' /\ LoopsAtOnce' /\ TakenIsBehind' /\ app_pc' # "aborted"
  BY <1>0, <1>2 DEF EndStep, EndInv, QueueEnds, LoopsAtOnce, TakenIsBehind, HasPreloaded, Preloading
<1>4. FirstAhead' = FirstAhead /\ FirstAhead \in {0, 1} /\ (EndIsTaken => EndIsTaken')
  BY <1>0, <1>2, EndsStay DEF FirstAhead, HasPreloaded, Preloading, EndIsTaken
<1>5. ASSUME ~Grows, EndIsAhead PROVE EndIsAhead'
  <2>1. PICK j \in FirstAhead .. Last : EndsBatch(AheadAt(j))
    BY <1>5 DEF EndIsAhead
  <2>2. Last \in Nat \ {0} /\ Last' \in {Last, Last + 1}
    BY <1>0, AheadMoves, AheadTypes DEF BatchesInv, IInv
  <2>3. j \in 0 .. Last /\ j \in FirstAhead' .. Last'
    BY <1>4, <2>1, <2>2
  <2>4. AheadAt(j)' = AheadAt(j)
    BY <1>0, <1>5, <2>1, <2>3, AheadMoves DEF EndsBatch
  <2>5. EndsBatch(AheadAt(j))'
    BY <1>0, <2>1, <2>4, EndsStay
  <2> QED BY <2>3, <2>5 DEF EndIsAhead
<1>6. EndIsKnown'
  <2> SUFFICES ASSUME app_pc \notin {"quit", "ended"}, NoMoreFrames'
               PROVE  EndIsAhead' \/ EndIsTaken'
    BY <1>2 DEF EndIsKnown
  <2>1. CASE NoMoreFrames
    <3>1. EndIsAhead \/ EndIsTaken
      BY <2>1 DEF EndStep, EndInv, EndIsKnown
    <3>2. ~Grows
      BY <2>1 DEF NoMoreFrames, AfterResult, WaitLabels, Grows, ReadsOn, EndsFrame, EndsStream, Reading
    <3> QED BY <1>4, <1>5, <3>1, <3>2
  <2>2. CASE ~NoMoreFrames
    <3>1. async_pc = "result" /\ EndsBatch(Filling)
      BY <1>0, <2>2, LastResult
    <3>2. AheadAt(Last) = Filling /\ Last \in Nat \ {0}
      BY <1>0, AheadTypes DEF BatchesInv, IInv
    <3>3. Last \in FirstAhead .. Last
      BY <1>4, <3>2
    <3>4. EndIsAhead
      BY <3>1, <3>2, <3>3 DEF EndIsAhead
    <3>5. ~Grows
      BY <3>1 DEF Grows, ReadsOn, EndsFrame, EndsStream, Reading
    <3> QED BY <1>5, <3>4, <3>5
  <2> QED BY <2>1, <2>2
<1> QED BY <1>1, <1>3, <1>6 DEF EndInv


LEMMA DispatchEndStep ==
  ASSUME EndStep, InProcessor(DispatchStep)
  PROVE  EndInv'
<1>0. /\ Next /\ DispatchStep /\ UNCHANGED client_vars /\ cursor' = cursor
      /\ BatchesInv /\ LaunchStartsIt /\ Alive /\ TypeOK /\ TypeOK'
      /\ cursor \in Nat \ {0} /\ cursor' \in Nat \ {0}
  <2>1. Next /\ DispatchStep /\ UNCHANGED client_vars /\ cursor' = cursor
    BY DEF InProcessor, Next
  <2> QED BY <2>1 DEF EndStep, ReplayInv, ProcessorInv, ClientCounted, BatchesInv, IInv
<1>1. DispatcherStep
  BY <1>0 DEF EndStep, ReplayInv, ProcessorInv, ClientCounted, DispatcherStep
<1>2. ResultIsMade' /\ FramesAreNumbered'
  BY <1>0, ResultIsMadeStep, FramesNumberedStep DEF EndInv, EndStep
<1>3. UNCHANGED <<app_pc, success, dispatch_frame_number, preload_queue, preload_at,
                  replay_from_queue, looping, loop_bookmark, input>>
  BY <1>0 DEF client_vars, preload_vars, loop_vars, EndStep
<1>4. QueueEnds' /\ LoopsAtOnce' /\ app_pc' # "aborted"
  BY <1>3 DEF EndStep, EndInv, QueueEnds, LoopsAtOnce
<1>5. dispatch_pc \notin DispatchLabelsAhead =>
        dispatch_pc' \notin DispatchLabelsAhead /\ queue' = queue
  BY <1>0 DEF DispatchStep, LaunchAsyncThread, PopBatch, PopEnd, StoreDequeued,
     NotifyDequeued, DestroyNotify, Join, DispatchLabelsAhead, GoDispatch, queue_vars
<1>6. TakenIsBehind' /\ FirstAhead' = FirstAhead /\ (HasPreloaded => queue' = queue)
  BY <1>3, <1>5 DEF EndStep, EndInv, TakenIsBehind, HasPreloaded, Preloading, FirstAhead
<1>7. EndIsAhead => EndIsAhead'
  <2> SUFFICES ASSUME EndIsAhead PROVE EndIsAhead'
    OBVIOUS
  <2>1. PICK j \in FirstAhead .. Last : EndsBatch(AheadAt(j))
    BY DEF EndIsAhead
  <2>2. FirstAhead \in {0, 1} /\ j \in 0 .. Last /\ Last \in Nat \ {0} /\ AheadAt(0) = Rest
    <3>1. FirstAhead \in {0, 1}
      BY DEF FirstAhead
    <3> QED BY <1>0, <2>1, <3>1, AheadTypes
  <2>3. CASE Stays
    <3>1. AheadAt(j)' = AheadAt(j) /\ j \in FirstAhead' .. Last'
      BY <1>6, <2>1, <2>2, <2>3 DEF Stays
    <3>2. EndsBatch(AheadAt(j))'
      BY <1>3, <2>1, <3>1, EndsStay
    <3> QED BY <3>1, <3>2 DEF EndIsAhead
  <2>4. CASE Shifts
    <3>1. ~HasPreloaded
      BY <1>6, <2>2, <2>4 DEF Shifts, Last
    <3>2. FirstAhead = 0 /\ FirstAhead' = 0
      BY <1>6, <3>1 DEF FirstAhead
    <3>3. j # 0
      BY <2>1, <2>2, <2>4 DEF Shifts, EndsBatch
    <3> DEFINE i == j - 1
    <3>4. i \in 0 .. Last' /\ i + 1 = j /\ i \in FirstAhead' .. Last'
      BY <2>2, <2>4, <3>2, <3>3 DEF Shifts
    <3>5. AheadAt(i)' = AheadAt(j)
      <4>1. AheadAt(i)' = AheadAt(i + 1)
        <5> HIDE DEF i
        <5> QED BY <2>4, <3>4 DEF Shifts
      <4> QED BY <3>4, <4>1
    <3> HIDE DEF i
    <3>6. EndsBatch(AheadAt(i))'
      BY <1>3, <2>1, <3>5, EndsStay
    <3> QED BY <3>4, <3>6 DEF EndIsAhead
  <2> QED BY <1>1, <2>3, <2>4, DispatchMoves
<1>8. EndIsTaken => EndIsTaken'
  BY <1>3, EndsStay DEF EndIsTaken
<1>9. app_pc \notin {"quit", "ended"} /\ NoMoreFrames' => NoMoreFrames
  <2> SUFFICES ASSUME app_pc \notin {"quit", "ended"}, NoMoreFrames' PROVE NoMoreFrames
    OBVIOUS
  <2>1. UNCHANGED <<pos, process_state>> /\ async_pc' # "start"
        /\ (async_pc' = async_pc \/ (async_pc \in WaitLabels /\ async_pc' \in WaitLabels))
    <3>1. async_pc' # "start"
      BY DEF NoMoreFrames, AfterResult, WaitLabels
    <3> QED BY <1>1, <3>1, DispatchMoves
  <2>2. keep_alive' = keep_alive
    BY <1>0, <2>1 DEF DispatchStep, LaunchAsyncThread, PopBatch, PopEnd, StoreDequeued,
       NotifyDequeued, DestroyNotify, Join, GoAsync
  <2> QED BY <1>3, <2>1, <2>2 DEF NoMoreFrames, AfterResult, WaitLabels
<1>10. EndIsKnown'
  BY <1>3, <1>7, <1>8, <1>9 DEF EndStep, EndInv, EndIsKnown
<1> QED BY <1>2, <1>4, <1>6, <1>10 DEF EndInv

-----------------------------------------------------------------------------
(* What the limits have to do with each other.                               *)

LEMMA QuitBeforeFrame ==
  ASSUME input \in Inputs, input.options.loop_frame = 0
  PROVE  LET o == input.options
             g == GetQuitBeforeFrame(o)
         IN /\ input.quit_before_frame = DecrementFrame(g)
            /\ g \in Nat \ {0}
            /\ o.quit_after_frame \in Nat
            /\ \/ g = kMaxFrame
               \/ o.quit_after_range /\ g = o.range_end
               \/ o.quit_after_frame # 0 /\ g = o.quit_after_frame + 1
<1> DEFINE o == input.options
           limits == {kMaxFrame}
                       \cup (IF o.quit_after_range THEN {o.range_end} ELSE {})
                       \cup (IF o.quit_after_frame # 0 THEN {o.quit_after_frame + 1} ELSE {})
           g == CHOOSE f \in limits : \A h \in limits : f <= h
<1>1. /\ ValidOptions(o) /\ input = FrameProcessingParams(o)
  BY ReplayAssumption DEF IsReplay
<1>2. kMaxFrame \in Nat \ {0} /\ o.range_end \in Nat \ {0, 1}
  BY OptionTypes
<1>3. o.quit_after_frame \in Nat
  BY <1>1 DEF ValidOptions, Options
<1>4. GetQuitBeforeFrame(o) = g
  BY DEF GetQuitBeforeFrame
<1>5. input.quit_before_frame = DecrementFrame(GetQuitBeforeFrame(o))
  <2> HIDE DEF g
  <2> QED BY <1>1 DEF FrameProcessingParams
<1>6. limits \subseteq Nat \ {0} /\ limits # {}
  BY <1>2, <1>3
<1>7. g \in limits
  <2> HIDE DEF limits
  <2>1. \E f \in limits : \A h \in limits : f <= h
    BY <1>6, LeastExists
  <2> QED BY <2>1
<1> HIDE DEF g
<1>8. /\ g \in Nat \ {0}
      /\ \/ g = kMaxFrame
         \/ o.quit_after_range /\ g = o.range_end
         \/ o.quit_after_frame # 0 /\ g = o.quit_after_frame + 1
  BY <1>6, <1>7
<1> QED BY <1>3, <1>4, <1>5, <1>8

(* A frame the producer would not have read ends the replay.                 *)
LEMMA QuitLimits ==
  ASSUME input \in Inputs, input.options.loop_frame = 0, NEW n \in 0 .. Frames,
         n >= input.quit_before_frame
  PROVE  ShouldQuit(input.options, n + 1)
<1> DEFINE o == input.options
           g == GetQuitBeforeFrame(o)
           q == o.quit_after_frame
           e == o.range_end
<1>1. /\ input.quit_before_frame = DecrementFrame(g) /\ g \in Nat \ {0} /\ q \in Nat
      /\ g = kMaxFrame \/ (o.quit_after_range /\ g = e) \/ (q # 0 /\ g = q + 1)
  BY QuitBeforeFrame
<1>2. Frames \in Nat /\ kMaxFrame \in Nat /\ Frames + 1 < kMaxFrame /\ e \in Nat \ {0, 1}
  BY OptionTypes
<1> HIDE DEF g, q, e
<1>3. g # kMaxFrame /\ n >= g - 1
  BY <1>1, <1>2 DEF DecrementFrame
<1>4. (o.quit_after_range /\ n + 1 >= e) \/ (q # 0 /\ n + 1 > q)
  BY <1>1, <1>2, <1>3
<1> QED BY <1>4 DEF ShouldQuit, q, e

(* Nor is it one that is preloaded.                                          *)
LEMMA PreloadLimits ==
  ASSUME input \in Inputs, input.options.preload, LimitsAgree(input.options),
         NEW n \in 0 .. Frames, n >= input.quit_before_frame
  PROVE  n >= RangeEnd
<1> DEFINE o == input.options
           g == GetQuitBeforeFrame(o)
           q == o.quit_after_frame
           e == o.range_end
<1>1. Frames \in Nat /\ kMaxFrame \in Nat /\ Frames + 1 < kMaxFrame /\ e \in Nat \ {0, 1}
      /\ RangeEnd = DecrementFrame(e) /\ o.loop_frame = 0
  BY OptionTypes
<1>2. /\ input.quit_before_frame = DecrementFrame(g) /\ g \in Nat \ {0} /\ q \in Nat
      /\ g = kMaxFrame \/ (o.quit_after_range /\ g = e) \/ (q # 0 /\ g = q + 1)
  BY <1>1, QuitBeforeFrame
<1>3. q # 0 => e <= q + 1
  BY DEF LimitsAgree
<1> HIDE DEF g, q, e
<1>4. g # kMaxFrame /\ n >= g - 1 /\ e <= g
  BY <1>1, <1>2, <1>3 DEF DecrementFrame
<1>5. e # kMaxFrame
  BY <1>1, <1>2, <1>4
<1> QED BY <1>1, <1>2, <1>4, <1>5 DEF DecrementFrame


-----------------------------------------------------------------------------
(* The steps of the application.                                             *)

AppEnds ==
  /\ AppStep /\ EndStep
  /\ app_pc \notin {"quit", "ended", "aborted"}

LEMMA AppEndFacts ==
  ASSUME AppEnds
  PROVE  /\ ResultIsMade' /\ FramesAreNumbered'
         /\ (NoMoreFrames' <=> NoMoreFrames)
         /\ QueueEnds /\ LoopsAtOnce /\ TakenIsBehind /\ EndIsKnown
         /\ Measured /\ Measured' /\ ClientCounted /\ ClientCounted'
         /\ input \in Inputs /\ input' = input
         /\ FirstAhead \in {0, 1} /\ FirstAhead' \in {0, 1}
         /\ Frames \in Nat /\ input.quit_before_frame \in Nat
         /\ input.options.loop_frame \in {0, 1}
         /\ (input.options.preload => input.options.loop_frame = 0)
         /\ (UNCHANGED vars => dispatch_pc' = "idle")
         /\ "idle" \notin DispatchLabelsAhead
<1>1. Next \/ UNCHANGED vars
  BY DEF AppEnds, AppStep, Next
<1>2. ResultIsMade' /\ FramesAreNumbered'
  BY <1>1, ResultIsMadeStep, FramesNumberedStep
     DEF AppEnds, EndStep, EndInv, ReplayInv, ProcessorInv
<1>3. (NoMoreFrames' <=> NoMoreFrames)
  BY AppMoves DEF AppEnds
<1>4. input \in Inputs /\ input.quit_before_frame \in Nat
  BY InputAssumption DEF AppEnds, EndStep, ReplayInv, ProcessorInv, BatchesInv, IInv, TypeOK
<1>5. /\ Frames \in Nat /\ input.options.loop_frame \in {0, 1}
      /\ (input.options.preload => input.options.loop_frame = 0)
  BY <1>4, OptionTypes DEF AppEnds, EndStep, LimitsAgree
<1>6. FirstAhead \in {0, 1} /\ FirstAhead' \in {0, 1}
  BY DEF FirstAhead
<1>7. dispatch_pc = "idle" /\ (UNCHANGED vars => dispatch_pc' = dispatch_pc)
  BY AppMoves DEF AppEnds, AppStep
<1> QED BY <1>2, <1>3, <1>4, <1>5, <1>6, <1>7
        DEF AppEnds, EndStep, EndInv, ReplayInv, DispatchLabelsAhead

(* What is ahead of the application stays there, but for the batch it is in.  *)
LEMMA AheadStays ==
  ASSUME AppEnds, NEW j \in 0 .. Last, EndsBatch(AheadAt(j)), j # 0 \/ Rest' = Rest,
         FirstAhead' <= j
  PROVE  EndIsAhead'
<1>1. /\ Last' = Last /\ Last \in Nat \ {0} /\ AheadAt(0) = Rest /\ AheadAt(0)' = Rest'
      /\ \A i \in 1 .. Last : AheadAt(i)' = AheadAt(i)
  BY AppMoves DEF AppEnds
<1>2. FirstAhead' \in {0, 1} /\ input' = input
  BY AppEndFacts
<1>3. AheadAt(j)' = AheadAt(j)
  <2>1. CASE j = 0
    BY <1>1, <2>1
  <2>2. CASE j # 0
    <3>1. j \in 1 .. Last
      BY <1>1, <2>2
    <3> QED BY <1>1, <3>1
  <2> QED BY <2>1, <2>2
<1>4. EndsBatch(AheadAt(j))'
  BY <1>2, <1>3, EndsStay
<1>5. j \in FirstAhead' .. Last'
  BY <1>1, <1>2
<1> QED BY <1>4, <1>5 DEF EndIsAhead

LEMMA AllStaysAhead ==
  ASSUME AppEnds, EndIsAhead, FirstAhead' <= FirstAhead, FirstAhead = 1 \/ Rest' = Rest
  PROVE  EndIsAhead'
<1>1. PICK j \in FirstAhead .. Last : EndsBatch(AheadAt(j))
  BY DEF EndIsAhead
<1>2. Last \in Nat \ {0} /\ FirstAhead \in {0, 1} /\ FirstAhead' \in {0, 1}
  BY AppMoves, AppEndFacts DEF AppEnds
<1>3. j \in 0 .. Last /\ FirstAhead' <= j /\ (j # 0 \/ Rest' = Rest)
  BY <1>1, <1>2
<1> QED BY <1>1, <1>3, AheadStays

LEMMA NoEventEnds ==
  ASSUME AppEnds, UNCHANGED vars, cursor' = cursor, NoEvent(input.options)
  PROVE  EndInv'
<1>0. /\ app_pc = "events"
      /\ UNCHANGED <<looping, dispatch_frame_number, success, preload_at, replay_from_queue,
                     loop_bookmark>>
      /\ \/ /\ AtLoopFrame(input.options, FrameNumber) /\ ~looping
            /\ app_pc' = "preload_loop" /\ preload_queue' = <<>>
         \/ /\ app_pc' = "limits" /\ preload_queue' = preload_queue
            /\ ~(AtLoopFrame(input.options, FrameNumber) /\ ~looping)
  BY DEF NoEvent, StartPreload, GoApp, preload_vars, loop_vars
<1>1. /\ ResultIsMade' /\ FramesAreNumbered' /\ (NoMoreFrames' <=> NoMoreFrames)
      /\ QueueEnds /\ LoopsAtOnce /\ EndIsKnown /\ Measured /\ Measured' /\ ClientCounted
      /\ input' = input /\ dispatch_pc' = "idle" /\ "idle" \notin DispatchLabelsAhead
      /\ input.options.loop_frame \in {0, 1}
      /\ (input.options.preload => input.options.loop_frame = 0)
      /\ FirstAhead \in {0, 1}
  BY AppEndFacts
<1>2. Rest' = Rest
  BY AppMoves DEF AppEnds
<1>3. TakenIsBehind' /\ app_pc' # "aborted"
  BY <1>0, <1>1 DEF TakenIsBehind
<1>4. CASE /\ AtLoopFrame(input.options, FrameNumber) /\ ~looping
           /\ app_pc' = "preload_loop" /\ preload_queue' = <<>>
  <2>1. input.options.loop_frame = 1
    BY <1>1, <1>4 DEF AtLoopFrame
  <2>2. ~looping /\ ~replay_from_queue
    BY <1>1, <1>4, <2>1 DEF Measured
  <2>3. QueueEnds' /\ LoopsAtOnce'
    BY <1>0, <1>4, <2>2 DEF QueueEnds, LoopsAtOnce
  <2>4. FirstAhead' = 0
    BY <1>4 DEF FirstAhead, HasPreloaded
  <2>5. NoMoreFrames => EndIsAhead
    BY <1>0, <1>1, <2>1, <2>2 DEF EndIsKnown, EndIsTaken
  <2>6. EndIsKnown'
    BY <1>1, <1>2, <2>4, <2>5, AllStaysAhead DEF EndIsKnown
  <2> QED BY <1>1, <1>3, <2>3, <2>6 DEF EndInv
<1>5. CASE /\ app_pc' = "limits" /\ preload_queue' = preload_queue
           /\ ~(AtLoopFrame(input.options, FrameNumber) /\ ~looping)
  <2>1. FirstAhead' = FirstAhead
    BY <1>0, <1>5 DEF FirstAhead, HasPreloaded, Preloading
  <2>2. QueueEnds'
    BY <1>0, <1>1, <1>5 DEF QueueEnds
  <2>3. LoopsAtOnce'
    <3>1. dispatch_frame_number = 0 => FrameNumber = 1
      BY DEF FrameNumber
    <3> QED BY <1>0, <1>1, <1>5, <3>1 DEF LoopsAtOnce, AtLoopFrame
  <2>4. EndIsAhead => EndIsAhead'
    BY <1>1, <1>2, <2>1, AllStaysAhead
  <2>5. EndIsTaken => EndIsTaken'
    BY <1>0, <1>1, <1>5, EndsStay DEF EndIsTaken, BetweenFrames
  <2>6. EndIsKnown'
    BY <1>0, <1>1, <2>4, <2>5 DEF EndIsKnown
  <2> QED BY <1>1, <1>3, <2>2, <2>3, <2>6 DEF EndInv
<1> QED BY <1>0, <1>4, <1>5

LEMMA CheckLimitsEnds ==
  ASSUME AppEnds, UNCHANGED vars, cursor' = cursor, CheckLimits(input.options)
  PROVE  EndInv'
<1>0. /\ app_pc = "limits"
      /\ UNCHANGED <<looping, dispatch_frame_number, success, preload_at, replay_from_queue,
                     loop_bookmark>>
      /\ \/ /\ ~ShouldQuit(input.options, FrameNumber)
            /\ ShouldPreloadFrames(input.options, FrameNumber) > 0
            /\ app_pc' = "preload_range" /\ preload_queue' = <<>>
         \/ /\ ~ShouldQuit(input.options, FrameNumber)
            /\ app_pc' = "play" /\ preload_queue' = preload_queue
         \/ app_pc' = "ended" /\ preload_queue' = preload_queue
  BY DEF CheckLimits, StartPreload, GoApp, preload_vars, loop_vars
<1>1. /\ ResultIsMade' /\ FramesAreNumbered' /\ (NoMoreFrames' <=> NoMoreFrames)
      /\ QueueEnds /\ LoopsAtOnce /\ EndIsKnown /\ Measured /\ Measured' /\ ClientCounted
      /\ input' = input /\ dispatch_pc' = "idle" /\ "idle" \notin DispatchLabelsAhead
      /\ input \in Inputs
      /\ FirstAhead \in {0, 1}
  BY AppEndFacts
<1>2. Rest' = Rest
  BY AppMoves DEF AppEnds
<1>3. TakenIsBehind' /\ app_pc' # "aborted"
  BY <1>0, <1>1 DEF TakenIsBehind
<1>4. LoopsAtOnce'
  BY <1>0, <1>1 DEF LoopsAtOnce
<1>5. ~ShouldQuit(input.options, FrameNumber) /\ ~looping =>
        ~(input.options.loop_frame = 0 /\ dispatch_frame_number >= input.quit_before_frame)
  <2>1. ~looping => dispatch_frame_number \in 0 .. Frames
    BY <1>1 DEF ClientCounted
  <2> QED BY <1>1, <2>1, QuitLimits DEF FrameNumber
<1>6. CASE /\ ~ShouldQuit(input.options, FrameNumber)
           /\ ShouldPreloadFrames(input.options, FrameNumber) > 0
           /\ app_pc' = "preload_range" /\ preload_queue' = <<>>
  <2>1. ~looping /\ ~replay_from_queue
    BY <1>0, <1>1, <1>6 DEF Measured, Preloading
  <2>2. QueueEnds'
    BY <1>0, <2>1 DEF QueueEnds
  <2>3. NoMoreFrames => EndIsAhead
    BY <1>0, <1>1, <1>5, <1>6, <2>1 DEF EndIsKnown, EndIsTaken
  <2>4. FirstAhead' = 0
    BY <1>6 DEF FirstAhead, HasPreloaded
  <2>5. EndIsKnown'
    BY <1>1, <1>2, <2>3, <2>4, AllStaysAhead DEF EndIsKnown
  <2> QED BY <1>1, <1>3, <1>4, <2>2, <2>5 DEF EndInv
<1>7. CASE /\ ~ShouldQuit(input.options, FrameNumber)
           /\ app_pc' = "play" /\ preload_queue' = preload_queue
  <2>1. QueueEnds'
    BY <1>0, <1>1, <1>7 DEF QueueEnds
  <2>2. FirstAhead' = FirstAhead
    BY <1>0, <1>7 DEF FirstAhead, HasPreloaded, Preloading
  <2>3. EndIsAhead => EndIsAhead'
    BY <1>1, <1>2, <2>2, AllStaysAhead
  <2>4. EndIsTaken => EndIsTaken'
    BY <1>0, <1>1, <1>5, <1>7, EndsStay DEF EndIsTaken
  <2>5. EndIsKnown'
    BY <1>0, <1>1, <2>3, <2>4 DEF EndIsKnown
  <2> QED BY <1>1, <1>3, <1>4, <2>1, <2>5 DEF EndInv
<1>8. CASE app_pc' = "ended" /\ preload_queue' = preload_queue
  <2>1. QueueEnds'
    BY <1>0, <1>1, <1>8 DEF QueueEnds
  <2>2. EndIsKnown'
    BY <1>8 DEF EndIsKnown
  <2> QED BY <1>1, <1>3, <1>4, <2>1, <2>2 DEF EndInv
<1> QED BY <1>0, <1>6, <1>7, <1>8

(* The frame is over, or the replay, or the user ends it.                    *)
LEMMA FrameOverEnds ==
  ASSUME AppEnds, UNCHANGED vars, cursor' = cursor, EndFrame \/ QuitEvent
  PROVE  EndInv'
<1>0. /\ UNCHANGED <<looping, dispatch_frame_number, success, preload_at, replay_from_queue,
                     loop_bookmark, preload_queue>>
      /\ \/ app_pc = "end_frame" /\ app_pc' = "events" /\ success
         \/ app_pc' \in {"quit", "ended"} /\ app_pc \in {"end_frame", "events"}
  BY DEF EndFrame, QuitEvent, GoApp, preload_vars, loop_vars
<1>1. /\ ResultIsMade' /\ FramesAreNumbered' /\ (NoMoreFrames' <=> NoMoreFrames)
      /\ QueueEnds /\ LoopsAtOnce /\ EndIsKnown
      /\ input' = input /\ dispatch_pc' = "idle" /\ "idle" \notin DispatchLabelsAhead
      /\ FirstAhead \in {0, 1}
  BY AppEndFacts
<1>2. Rest' = Rest
  BY AppMoves DEF AppEnds
<1>3. TakenIsBehind' /\ app_pc' # "aborted" /\ QueueEnds'
  BY <1>0, <1>1 DEF TakenIsBehind, QueueEnds
<1>4. LoopsAtOnce'
  BY <1>0, <1>1 DEF LoopsAtOnce
<1>5. EndIsKnown'
  <2>1. CASE app_pc = "end_frame" /\ app_pc' = "events" /\ success
    <3>1. FirstAhead' = FirstAhead
      BY <1>0, <2>1 DEF FirstAhead, HasPreloaded, Preloading
    <3>2. EndIsAhead => EndIsAhead'
      BY <1>1, <1>2, <3>1, AllStaysAhead
    <3>3. EndIsTaken => EndIsTaken'
      BY <1>0, <1>1, <2>1, EndsStay DEF EndIsTaken, BetweenFrames
    <3> QED BY <1>1, <2>1, <3>2, <3>3 DEF EndIsKnown
  <2>2. CASE app_pc' \in {"quit", "ended"}
    BY <2>2 DEF EndIsKnown
  <2> QED BY <1>0, <2>1, <2>2
<1> QED BY <1>1, <1>3, <1>4, <1>5 DEF EndInv

(* A frame that was preloaded: the last one has the end in it, if the end was *)
(* preloaded.                                                                *)
LEMMA PlayFromQueueEnds ==
  ASSUME AppEnds, UNCHANGED vars, cursor' = cursor, PlayFromQueue
  PROVE  EndInv'
<1> DEFINE q == preload_queue
           rest == SubSeq(q, preload_at, Len(q))
           n == EntriesOfFrame(rest)
           last == (preload_at + n) - 1
<1>1. /\ ResultIsMade' /\ FramesAreNumbered' /\ (NoMoreFrames' <=> NoMoreFrames)
      /\ QueueEnds /\ LoopsAtOnce /\ EndIsKnown /\ ClientCounted /\ Measured
      /\ input' = input /\ dispatch_pc' = "idle" /\ "idle" \notin DispatchLabelsAhead
      /\ FirstAhead \in {0, 1} /\ input.quit_before_frame \in Nat
      /\ (input.options.preload => input.options.loop_frame = 0)
      /\ app_pc = "play" /\ replay_from_queue
  BY AppEndFacts DEF PlayFromQueue
<1>2. /\ q \in Seq(Entries) /\ q # <<>> /\ Len(q) \in Nat /\ DOMAIN q = 1 .. Len(q)
      /\ preload_at \in Nat \ {0} /\ preload_at <= Len(q) /\ IsTerminator(q[Len(q)])
  <2>1. q \in Seq(Entries) /\ Len(q) \in Nat /\ DOMAIN q = 1 .. Len(q)
    BY <1>1 DEF ClientCounted
  <2> QED BY <1>1, <2>1 DEF QueueEnds
<1>3. /\ HasTerminator(rest) /\ n \in Nat \ {0} /\ last \in DOMAIN q
      /\ rest[n] = q[last] /\ IsTerminator(rest[n]) /\ rest[n] \in Entries
  <2> HIDE DEF q
  <2> QED BY <1>2, FrameFromQueue
<1>4. /\ app_pc' = "end_frame"
      /\ UNCHANGED <<preload_queue, looping, loop_bookmark>>
      /\ dispatch_frame_number' = IF rest[n].next_frame = NoFrame THEN dispatch_frame_number
                                                               ELSE rest[n].next_frame
      /\ looping => preload_at' = loop_bookmark /\ UNCHANGED replay_from_queue
      /\ ~looping => /\ preload_at' = preload_at + n
                     /\ success' = ContinueProcessing(rest[n].state)
                     /\ replay_from_queue' = (preload_at + n <= Len(q))
  BY <1>3 DEF PlayFromQueue, HandleReplayResult, GoApp, loop_vars
<1> HIDE DEF rest, n
<1>5. QueueEnds'
  <2>1. CASE looping
    BY <1>1, <1>4, <2>1 DEF QueueEnds
  <2>2. CASE ~looping
    <3>1. replay_from_queue' => preload_at + n <= Len(q)
      BY <1>4, <2>2
    <3>2. preload_at + n <= Len(q) => preload_at + n \in 1 .. Len(q)
      <4> HIDE DEF q
      <4> QED BY <1>2, <1>3
    <3>3. replay_from_queue' => preload_at' \in 1 .. Len(q)
      BY <1>4, <2>2, <3>1, <3>2
    <3> QED BY <1>2, <1>4, <2>2, <3>3 DEF QueueEnds
  <2> QED BY <2>1, <2>2
<1>6. LoopsAtOnce' /\ TakenIsBehind' /\ app_pc' # "aborted"
  BY <1>1, <1>4 DEF LoopsAtOnce, TakenIsBehind
<1>7. EndIsAhead => EndIsAhead'
  <2>1. FirstAhead' = FirstAhead /\ Rest' = Rest
    BY <1>1, <1>4, AppMoves DEF FirstAhead, HasPreloaded, Preloading, AppEnds
  <2> QED BY <1>1, <2>1, AllStaysAhead
<1>8. EndIsTaken => EndIsTaken'
  <2>1. CASE looping
    BY <1>4, <2>1 DEF EndIsTaken
  <2>2. ASSUME ~looping, EndsBatch(q) PROVE EndIsTaken'
    <3>1. CASE preload_at + n <= Len(q)
      <4>1. replay_from_queue' /\ EndsBatch(preload_queue)'
        BY <1>1, <1>4, <2>2, <3>1, EndsStay
      <4> QED BY <4>1 DEF EndIsTaken
    <3>2. CASE ~(preload_at + n <= Len(q))
      <4>1. last = Len(q)
        BY <1>2, <1>3, <3>2
      <4>2. EndsReading(rest[n])
        BY <1>3, <2>2, <4>1 DEF EndsBatch
      <4>3. input.options.loop_frame = 0
        BY <1>1, <2>2 DEF Measured
      <4>4. CASE ~ContinueProcessing(rest[n].state)
        BY <1>4, <2>2, <4>4 DEF EndIsTaken
      <4>5. CASE rest[n].next_frame >= input.quit_before_frame
        <5>1. rest[n].next_frame \in Nat \cup {NoFrame}
          BY <1>3, <4>2, EntryKinds DEF EndsReading
        <5>2. dispatch_frame_number' >= input.quit_before_frame
          BY <1>1, <1>4, <4>5, <5>1 DEF NoFrame
        <5> QED BY <1>1, <1>4, <4>3, <5>2 DEF EndIsTaken, BetweenFrames
      <4> QED BY <4>2, <4>4, <4>5 DEF EndsReading
    <3> QED BY <3>1, <3>2
  <2> QED BY <1>1, <2>1, <2>2 DEF EndIsTaken, BetweenFrames
<1>9. EndIsKnown'
  BY <1>1, <1>7, <1>8 DEF EndIsKnown
<1> QED BY <1>1, <1>5, <1>6, <1>9 DEF EndInv


(* At the end of the queue nothing is ahead, and nothing will be.            *)
LEMMA NothingAhead ==
  ASSUME AppEnds, AtEndOfQueue
  PROVE  EndIsTaken
<1>1. async_pc = "exited" /\ queue = <<>> /\ batch = <<>> /\ dispatch_pc = "idle"
  BY DEF AppEnds, AppStep, ReplayInv, ProcessorInv, Closing
<1>2. Rest = <<>> /\ Filling = <<>> /\ Last = 1
  BY <1>1 DEF Rest, Filling, Last
<1>3. \A j \in 0 .. Last : AheadAt(j) = <<>>
  BY <1>2 DEF AheadAt
<1>4. FirstAhead \in {0, 1} /\ EndIsKnown /\ NoMoreFrames
  BY <1>1, AppEndFacts DEF NoMoreFrames
<1>5. ~EndIsAhead
  <2>1. \A j \in FirstAhead .. Last : j \in 0 .. Last
    BY <1>2, <1>4
  <2> QED BY <1>3, <2>1 DEF EndIsAhead, EndsBatch
<1> QED BY <1>4, <1>5 DEF EndIsKnown, AppEnds

(* Preloading does not come to the end of the queue.                         *)
LEMMA PreloadEndEnds ==
  ASSUME AppEnds, Preloading
  PROVE  ~AtEndOfQueue
<1>1. ~replay_from_queue /\ ~looping /\ app_pc \in {"preload_loop", "preload_range"}
  BY AppEndFacts DEF Measured, Preloading
<1> QED BY <1>1, NothingAhead DEF EndIsTaken, BetweenFrames

(* Nor does replay.                                                          *)
LEMMA PlayPastEnds ==
  ASSUME AppEnds, app_pc = "play", ~replay_from_queue
  PROVE  ~AtEndOfQueue
<1>1. ~looping
  BY AppEndFacts DEF QueueEnds
<1> QED BY <1>1, NothingAhead DEF EndIsTaken, BetweenFrames

LEMMA ClearPreloadedEnds ==
  ASSUME AppEnds, ClearPreloaded
  PROVE  EndInv'
<1>0. /\ app_pc = "play" /\ ~replay_from_queue /\ preload_queue # <<>> /\ preload_queue' = <<>>
      /\ Advance /\ cursor' = 1
      /\ UNCHANGED <<app_pc, success, dispatch_frame_number, preload_at, replay_from_queue,
                     looping, loop_bookmark>>
  BY DEF ClearPreloaded, NextBatch, loop_vars
<1>1. /\ ResultIsMade' /\ FramesAreNumbered' /\ (NoMoreFrames' <=> NoMoreFrames)
      /\ QueueEnds /\ LoopsAtOnce /\ EndIsKnown /\ input' = input
  BY AppEndFacts
<1>2. TakenIsBehind' /\ app_pc' # "aborted" /\ FirstAhead = 1 /\ FirstAhead' = 0
  BY <1>0 DEF TakenIsBehind, FirstAhead, HasPreloaded, Preloading
<1>3. QueueEnds' /\ LoopsAtOnce'
  BY <1>0, <1>1 DEF QueueEnds, LoopsAtOnce
<1>4. ~EndIsTaken
  BY <1>0, <1>1 DEF EndIsTaken, BetweenFrames, QueueEnds
<1>5. EndIsAhead => EndIsAhead'
  BY <1>2, AllStaysAhead
<1>6. EndIsKnown'
  BY <1>0, <1>1, <1>4, <1>5 DEF EndIsKnown
<1> QED BY <1>1, <1>2, <1>3, <1>6 DEF EndInv

(* Where what is preloaded begins leaves room for a frame.                   *)
LEMMA PreloadHasRoom ==
  ASSUME AppEnds, Preloading
  PROVE  LET o == input.options IN
         /\ dispatch_frame_number \in 0 .. Frames
         /\ PreloadLimit(o) \in Nat /\ dispatch_frame_number < PreloadLimit(o)
         /\ app_pc = "preload_loop" => dispatch_frame_number = 0 /\ PreloadLimit(o) = 1
         /\ app_pc = "preload_range" =>
              \A n \in 0 .. Frames : n >= input.quit_before_frame => ~(n < PreloadLimit(o))
<1> DEFINE o == input.options
<1>1. /\ Measured /\ ClientCounted /\ Phases /\ input \in Inputs /\ Frames \in Nat
      /\ o.loop_frame \in {0, 1}
      /\ LimitsAgree(o)
      /\ app_pc \in {"preload_loop", "preload_range"}
  BY AppEndFacts DEF Preloading, AppEnds, EndStep, ReplayInv
<1>2. ~looping /\ dispatch_frame_number \in 0 .. Frames
  BY <1>1 DEF Measured, Preloading, ClientCounted
<1>3. CASE app_pc = "preload_loop"
  <2>1. dispatch_frame_number + 1 = 1
    BY <1>1, <1>3 DEF Measured, FrameNumber
  <2>2. dispatch_frame_number = 0 /\ PreloadLimit(o) = dispatch_frame_number + 1
    BY <1>2, <1>3, <2>1 DEF PreloadLimit
  <2> QED BY <1>2, <1>3, <2>2
<1>4. CASE app_pc = "preload_range"
  <2>1. Active /\ AtRange
    BY <1>1, <1>4 DEF Measured, Phases, Going, BeforeRange, AtRange, InMeasurement, AfterRange,
       BetweenFrames
  <2>2. o.preload /\ dispatch_frame_number = RangeBegin /\ RangeBegin <= Frames
    BY <1>2, <2>1 DEF Active, AtRange
  <2>3. /\ RangeBegin + 1 = o.range_begin /\ o.range_end - o.range_begin > 0
        /\ RangeBegin + (o.range_end - o.range_begin) <= RangeEnd
        /\ RangeBegin \in Nat /\ RangeEnd \in Nat
    BY <1>1, <2>2, RangeLimits
  <2>4. o.range_begin \in Nat /\ o.range_end \in Nat
    BY <1>1, OptionTypes
  <2>5. PreloadLimit(o) = RangeBegin + (o.range_end - o.range_begin)
    BY <1>4, <2>2, <2>3 DEF PreloadLimit, ShouldPreloadFrames, FrameNumber
  <2>6. PreloadLimit(o) \in Nat /\ RangeBegin < PreloadLimit(o) /\ PreloadLimit(o) <= RangeEnd
    BY <2>3, <2>4, <2>5
  <2>7. ASSUME NEW n \in 0 .. Frames, n >= input.quit_before_frame
        PROVE  ~(n < PreloadLimit(o))
    <3>1. n >= RangeEnd
      BY <1>1, <2>2, <2>7, PreloadLimits
    <3> HIDE DEF o
    <3> QED BY <2>3, <2>6, <3>1
  <2> QED BY <1>2, <1>4, <2>2, <2>6, <2>7
<1> QED BY <1>1, <1>3, <1>4

LEMMA PreloadBatchEnds ==
  ASSUME AppEnds, PreloadBatch
  PROVE  EndInv'
<1> DEFINE o == input.options
           b == CurrentBatch.blocks
<1>0. PICK taken, tail, kept : PreloadsBatch(taken, tail, kept)
  BY PreloadTakes DEF AppEnds
<1>1. /\ ResultIsMade' /\ FramesAreNumbered' /\ FramesAreNumbered
      /\ (NoMoreFrames' <=> NoMoreFrames)
      /\ QueueEnds /\ LoopsAtOnce /\ EndIsKnown /\ Measured /\ input' = input
      /\ dispatch_pc = "idle" /\ "idle" \notin DispatchLabelsAhead
      /\ (UNCHANGED vars => dispatch_pc' = "idle")
      /\ (o.preload => o.loop_frame = 0) /\ input.quit_before_frame \in Nat
  BY AppEndFacts DEF AppEnds, AppStep, EndStep, EndInv
<1>2. Preloading /\ ~AtEndOfQueue /\ ~replay_from_queue /\ ~looping
      /\ app_pc \in {"preload_loop", "preload_range"}
  BY <1>1 DEF PreloadBatch, Preloading, Measured
<1>3. /\ b \in Seq(Entries) /\ b # <<>> /\ b \in LiveBatches
      /\ Rest = SubSeq(b, cursor, Len(b)) /\ Len(b) \in 1 .. Len(b)
      /\ \A i \in 1 .. Len(b) : b[i] \in Entries /\ NumberOf(b[i]) <= Frames
  BY <1>2, BatchAt DEF AppEnds
<1>4. /\ tail = b[Len(b)] /\ kept \in {<<>>, taken} /\ taken # <<>> /\ taken \in Seq(Entries)
      /\ tail = taken[Len(taken)]
      /\ (kept = <<>> <=> IsTerminator(tail) /\ IsLeadingStutter(tail))
      /\ preload_queue' = kept /\ dispatch_frame_number' = dispatch_frame_number
      /\ \/ /\ IsTerminator(tail) => MorePreload(o, tail)
            /\ Advance /\ cursor' = 1
            /\ UNCHANGED <<app_pc, preload_at, replay_from_queue, looping>>
         \/ /\ IsTerminator(tail) /\ ~MorePreload(o, tail)
            /\ FinishPreload(input.capture, kept)
            /\ UNCHANGED vars /\ cursor' = cursor
  BY <1>0 DEF PreloadsBatch
<1>5. /\ dispatch_frame_number \in 0 .. Frames
      /\ PreloadLimit(o) \in Nat /\ dispatch_frame_number < PreloadLimit(o)
      /\ app_pc = "preload_loop" => dispatch_frame_number = 0 /\ PreloadLimit(o) = 1
      /\ app_pc = "preload_range" =>
              \A n \in 0 .. Frames : n >= input.quit_before_frame => ~(n < PreloadLimit(o))
      /\ Frames \in Nat
  BY <1>2, PreloadHasRoom, AppEndFacts
<1>6. FirstAhead = 0 /\ ~EndIsTaken /\ (NoMoreFrames => EndIsAhead)
  <2>1. FirstAhead = 0 /\ ~EndIsTaken
    BY <1>2 DEF FirstAhead, HasPreloaded, EndIsTaken, BetweenFrames
  <2> QED BY <1>1, <2>1 DEF EndIsKnown, AppEnds
<1>7. EndsBatch(Rest) => EndsReading(tail) /\ IsTerminator(tail)
  <2> SUFFICES ASSUME EndsBatch(Rest) PROVE EndsReading(tail) /\ IsTerminator(tail)
    OBVIOUS
  <2>1. Rest[Len(Rest)] = b[Len(b)]
    <3>1. cursor \in Nat \ {0} /\ Rest # <<>>
      BY AppEndFacts DEF ClientCounted, EndsBatch
    <3> HIDE DEF b
    <3>2. cursor <= Len(b) /\ Len(b) \in Nat
      BY <1>3, <3>1, Suffix
    <3>3. /\ Len(Rest) = (Len(b) - cursor) + 1
          /\ \A i \in 1 .. Len(Rest) : Rest[i] = b[(cursor + i) - 1]
      BY <1>3, <3>1, <3>2
    <3>4. Len(Rest) \in 1 .. Len(Rest) /\ (cursor + Len(Rest)) - 1 = Len(b)
      BY <3>1, <3>2, <3>3
    <3> QED BY <3>3, <3>4
  <2> QED BY <1>4, <2>1 DEF EndsBatch, EndsReading, IsTerminator, ContinueProcessing
<1>8. IsTerminator(tail) /\ tail.state = "kFrameBoundary" =>
        tail.next_frame \in 0 .. Frames /\ tail.next_frame >= 1
  <2> SUFFICES ASSUME IsTerminator(tail), tail.state = "kFrameBoundary"
               PROVE  tail.next_frame \in 0 .. Frames /\ tail.next_frame >= 1
    OBVIOUS
  <2>1. tail \in Entries /\ NumberOf(tail) <= Frames /\ IsResult(tail)
    BY <1>3, <1>4 DEF IsTerminator
  <2>2. tail.next_frame >= 1
    BY <1>1, <1>3, <1>4, <2>1 DEF FramesAreNumbered
  <2>3. tail.next_frame \in Nat \cup {NoFrame} /\ NumberOf(tail) = tail.next_frame
    BY <2>1, EntryKinds, FrameEnds
  <2> QED BY <1>5, <2>1, <2>2, <2>3 DEF NoFrame
<1>9. EndsReading(tail) /\ IsTerminator(tail) => ~MorePreload(o, tail)
  <2> SUFFICES ASSUME EndsReading(tail), IsTerminator(tail), MorePreload(o, tail) PROVE FALSE
    OBVIOUS
  <2>1. /\ tail.state = "kFrameBoundary" /\ tail.next_frame < PreloadLimit(o)
        /\ tail.next_frame >= input.quit_before_frame
    BY DEF MorePreload, EndsReading, ContinueProcessing
  <2>2. tail.next_frame \in 0 .. Frames /\ tail.next_frame >= 1
    BY <1>8, <2>1
  <2>3. CASE app_pc = "preload_loop"
    BY <1>5, <2>1, <2>2, <2>3
  <2>4. CASE app_pc = "preload_range"
    BY <1>5, <2>1, <2>2, <2>4
  <2> QED BY <1>2, <2>3, <2>4
<1>10. CASE /\ IsTerminator(tail) => MorePreload(o, tail)
            /\ Advance /\ cursor' = 1
            /\ UNCHANGED <<app_pc, preload_at, replay_from_queue, looping>>
  <2>1. TakenIsBehind' /\ QueueEnds' /\ FirstAhead' = 0 /\ app_pc' # "aborted"
    BY <1>2, <1>10 DEF TakenIsBehind, HasPreloaded, Preloading, FirstAhead, QueueEnds
  <2>2. LoopsAtOnce'
    BY <1>1, <1>2, <1>4, <1>10 DEF LoopsAtOnce
  <2>3. ASSUME EndIsAhead PROVE EndIsAhead'
    <3>1. PICK j \in FirstAhead .. Last : EndsBatch(AheadAt(j))
      BY <2>3 DEF EndIsAhead
    <3>2. AheadAt(0) = Rest /\ Last \in Nat \ {0}
      BY AppMoves DEF AppEnds
    <3>3. j # 0
      BY <1>7, <1>9, <1>10, <3>1, <3>2
    <3>4. j \in 0 .. Last /\ FirstAhead' <= j
      BY <1>6, <2>1, <3>1, <3>2
    <3> QED BY <3>1, <3>3, <3>4, AheadStays
  <2>4. EndIsKnown'
    BY <1>1, <1>6, <2>3 DEF EndIsKnown
  <2> QED BY <1>1, <2>1, <2>2, <2>4 DEF EndInv
<1>11. CASE /\ IsTerminator(tail) /\ ~MorePreload(o, tail)
            /\ FinishPreload(input.capture, kept)
            /\ UNCHANGED vars /\ cursor' = cursor
  <2>1. ~IsLeadingStutter(tail)
    BY <1>5, <1>11 DEF IsLeadingStutter, MorePreload
  <2>2. kept = taken /\ preload_queue' = taken
    BY <1>4, <2>1
  <2>3. /\ replay_from_queue' = TRUE /\ preload_at' = 1 /\ preload_queue' # <<>>
        /\ preload_queue'[Len(preload_queue')] = tail
        /\ app_pc' \in {"limits", "play"}
        /\ \/ /\ looping' = TRUE
              /\ loop_bookmark' = SkipStateBlocks(input.capture, taken)
           \/ app_pc = "preload_range" /\ UNCHANGED loop_vars
    <3>1. preload_queue' # <<>> /\ preload_queue'[Len(preload_queue')] = tail
      BY <1>4, <2>2
    <3>2. kept # <<>>
      BY <1>4, <2>2
    <3> QED BY <1>2, <1>11, <2>2, <3>1, <3>2 DEF FinishPreload, GoApp
  <2>4. Len(taken) \in Nat /\ Len(taken) # 0 /\ 1 \in 1 .. Len(taken)
    BY <1>4
  <2>5. looping' => loop_bookmark' \in 1 .. Len(taken)
    <3>1. looping' => loop_bookmark' = SkipStateBlocks(input.capture, taken)
      BY <1>2, <2>3 DEF loop_vars
    <3>2. /\ SkipStateBlocks(input.capture, taken) \in Nat \ {0}
          /\ SkipStateBlocks(input.capture, taken) <= Len(taken)
      BY <1>4, <1>11, BookmarkIsInside
    <3> QED BY <2>4, <3>1, <3>2
  <2>6. QueueEnds'
    BY <1>11, <2>2, <2>3, <2>4, <2>5 DEF QueueEnds
  <2>7. TakenIsBehind' /\ app_pc' # "aborted"
    BY <1>1, <1>11, <2>3 DEF TakenIsBehind
  <2>8. LoopsAtOnce'
    <3>1. app_pc = "preload_range" => o.loop_frame = 0
      BY <1>1 DEF Measured, Active
    <3> QED BY <1>1, <2>3, <3>1 DEF LoopsAtOnce
  <2>9. ASSUME EndIsAhead PROVE EndIsAhead' \/ EndIsTaken'
    <3>1. PICK j \in FirstAhead .. Last : EndsBatch(AheadAt(j))
      BY <2>9 DEF EndIsAhead
    <3>2. AheadAt(0) = Rest /\ Last \in Nat \ {0} /\ FirstAhead' \in {0, 1} /\ j \in 0 .. Last
      BY <1>6, <3>1, AppMoves, AppEndFacts DEF AppEnds
    <3>3. CASE j = 0
      <4>1. EndsReading(tail)
        BY <1>7, <3>1, <3>2, <3>3
      <4>2. EndsBatch(preload_queue')
        BY <2>3, <4>1 DEF EndsBatch
      <4>3. EndsBatch(preload_queue)'
        BY <1>1, <4>2 DEF EndsBatch, EndsReading
      <4> QED BY <2>3, <4>3 DEF EndIsTaken
    <3>4. CASE j # 0
      <4>1. FirstAhead' <= j
        BY <3>2, <3>4
      <4> QED BY <3>1, <3>2, <3>4, <4>1, AheadStays
    <3> QED BY <3>3, <3>4
  <2>10. EndIsKnown'
    BY <1>1, <1>6, <2>9 DEF EndIsKnown
  <2> QED BY <1>1, <2>6, <2>7, <2>8, <2>10 DEF EndInv
<1> QED BY <1>4, <1>10, <1>11


(* A frame that is not preloaded: the end of the capture comes with its       *)
(* result, or is still ahead.                                                *)
LEMMA PlayBatchEnds ==
  ASSUME AppEnds, PlayBatch
  PROVE  EndInv'
<1>0. PICK n : PlaysEntries(n)
  BY PlayTakes DEF AppEnds
<1>1. /\ ResultIsMade' /\ FramesAreNumbered' /\ (NoMoreFrames' <=> NoMoreFrames)
      /\ QueueEnds /\ LoopsAtOnce /\ EndIsKnown /\ input' = input
      /\ input.quit_before_frame \in Nat
  BY AppEndFacts
<1>2. /\ app_pc = "play" /\ ~replay_from_queue /\ preload_queue = <<>>
      /\ UNCHANGED <<preload_queue, preload_at, replay_from_queue, looping, loop_bookmark>>
  BY DEF PlayBatch, preload_vars, loop_vars
<1>3. ~looping /\ input.options.loop_frame = 0 /\ FirstAhead = 0 /\ FirstAhead' = 0
  BY <1>1, <1>2 DEF QueueEnds, LoopsAtOnce, FirstAhead, HasPreloaded
<1>4. ~EndIsTaken /\ (NoMoreFrames => EndIsAhead)
  BY <1>1, <1>2, <1>3 DEF EndIsKnown, EndIsTaken, BetweenFrames
<1>5. app_pc' \in {"play", "end_frame"}
  BY <1>0, <1>2 DEF PlaysEntries
<1>6. QueueEnds' /\ LoopsAtOnce' /\ TakenIsBehind' /\ app_pc' # "aborted"
  BY <1>1, <1>2, <1>3, <1>5 DEF QueueEnds, LoopsAtOnce, TakenIsBehind, HasPreloaded
<1>7. /\ AheadAt(0) = Rest /\ AheadAt(0)' = Rest' /\ Last \in Nat \ {0} /\ Last' = Last
      /\ Rest \in Seq(Entries)
  BY AppMoves DEF AppEnds
<1>8. ASSUME EndsBatch(Rest) PROVE EndIsAhead' \/ EndIsTaken'
  <2> DEFINE m == Len(Rest)
  <2>1. m \in Nat /\ m # 0 /\ EndsReading(Rest[m])
    BY <1>7, <1>8 DEF EndsBatch
  <2>2. IsTerminator(Rest[m]) /\ m \in 1 .. Len(Rest)
    BY <2>1 DEF EndsReading, IsTerminator, ContinueProcessing
  <2>3. n \in 1 .. m /\ IsTerminator(Rest[n])
    BY <1>0, <2>2 DEF PlaysEntries
  <2>4. CASE n = m
    <3> DEFINE e == Rest[n]
    <3>1. /\ app_pc' = "end_frame" /\ success' = ContinueProcessing(e.state)
          /\ HandleReplayResult(e) /\ EndsReading(e)
      <4>1. \E i \in 1 .. Len(Rest) : IsTerminator(Rest[i])
        BY <2>3
      <4> QED BY <1>0, <2>1, <2>4, <4>1 DEF PlaysEntries
    <3>2. CASE ~ContinueProcessing(e.state)
      BY <3>1, <3>2 DEF EndIsTaken
    <3>3. CASE e.next_frame >= input.quit_before_frame
      <4>1. e \in Entries
        BY <1>7, <2>3
      <4> HIDE DEF e
      <4>2. e.next_frame \in Nat \cup {NoFrame}
        BY <3>1, <4>1, EntryKinds DEF EndsReading
      <4>3. dispatch_frame_number' >= input.quit_before_frame
        BY <1>1, <3>1, <3>3, <4>2 DEF NoFrame, HandleReplayResult
      <4> QED BY <1>1, <1>3, <3>1, <4>3 DEF EndIsTaken, BetweenFrames
    <3> QED BY <3>1, <3>2, <3>3 DEF EndsReading
  <2>5. CASE n # m
    <3>1. /\ Rest' \in Seq(Entries) /\ Len(Rest') = m - n
          /\ \A i \in 1 .. Len(Rest') : Rest'[i] = Rest[n + i]
      BY <1>0 DEF PlaysEntries
    <3>2. Len(Rest') \in 1 .. Len(Rest') /\ n + Len(Rest') = m
      <4> HIDE DEF m
      <4> QED BY <2>1, <2>3, <2>5, <3>1
    <3>3. Rest' # <<>> /\ Rest'[Len(Rest')] = Rest[m]
      BY <3>1, <3>2
    <3>4. EndsBatch(AheadAt(0))'
      <4>1. EndsBatch(Rest')
        BY <2>1, <3>3 DEF EndsBatch
      <4> QED BY <1>1, <1>7, <4>1 DEF EndsBatch, EndsReading
    <3>5. 0 \in FirstAhead' .. Last'
      BY <1>3, <1>7
    <3> QED BY <3>4, <3>5 DEF EndIsAhead
  <2> QED BY <2>4, <2>5
<1>9. ASSUME EndIsAhead PROVE EndIsAhead' \/ EndIsTaken'
  <2>1. PICK j \in FirstAhead .. Last : EndsBatch(AheadAt(j))
    BY <1>9 DEF EndIsAhead
  <2>2. j \in 0 .. Last
    BY <1>3, <1>7, <2>1
  <2>3. CASE j = 0
    BY <1>7, <1>8, <2>1, <2>3
  <2>4. CASE j # 0
    <3>1. FirstAhead' <= j
      BY <1>3, <1>7, <2>2
    <3> QED BY <2>1, <2>2, <2>4, <3>1, AheadStays
  <2> QED BY <2>3, <2>4
<1>10. EndIsKnown'
  BY <1>1, <1>4, <1>9 DEF EndIsKnown
<1> QED BY <1>1, <1>6, <1>10 DEF EndInv

LEMMA DestroyEnds ==
  ASSUME EndStep, DestroyProcessor
  PROVE  EndInv'
<1>1. /\ app_pc \in {"quit", "ended"} /\ Next /\ dispatch_pc' = "destroy_notify"
      /\ UNCHANGED <<app_pc, success, dispatch_frame_number, preload_queue, preload_at,
                     replay_from_queue, looping, loop_bookmark>>
  BY DEF DestroyProcessor, Destroy, Next, GoDispatch, client_vars, preload_vars, loop_vars
<1>2. ResultIsMade' /\ FramesAreNumbered'
  BY <1>1, ResultIsMadeStep, FramesNumberedStep
     DEF EndStep, EndInv, ReplayInv, ProcessorInv
<1>3. QueueEnds' /\ LoopsAtOnce' /\ app_pc' # "aborted"
  BY <1>1 DEF EndStep, EndInv, QueueEnds, LoopsAtOnce
<1>4. TakenIsBehind' /\ EndIsKnown'
  BY <1>1 DEF TakenIsBehind, DispatchLabelsAhead, EndIsKnown
<1> QED BY <1>2, <1>3, <1>4 DEF EndInv

LEMMA StutterEndInv ==
  ASSUME EndStep, UNCHANGED replay_vars
  PROVE  EndInv'
<1>1. /\ UNCHANGED <<input, pos, process_state, batch, async_pc, queue, got, keep_alive,
                     dispatch_pc>>
      /\ UNCHANGED <<app_pc, success, dispatch_frame_number, preload_queue, preload_at,
                     replay_from_queue, looping, loop_bookmark, cursor>>
      /\ UNCHANGED vars
  BY DEF replay_vars, processor_vars, vars, reader_vars, queue_vars, dispatch_vars, client_vars,
     preload_vars, loop_vars
<1>2. UNCHANGED <<NoMoreFrames, Last, CurrentBatch, AtEndOfQueue, HasPreloaded, FirstAhead>>
  <2>1. UNCHANGED <<NoMoreFrames, Last, CurrentBatch, HasPreloaded>>
    BY <1>1 DEF NoMoreFrames, Last, CurrentBatch, HasPreloaded, Preloading
  <2> QED BY <1>1, <2>1 DEF AtEndOfQueue, FirstAhead
<1>3. \A j : AheadAt(j)' = AheadAt(j)
  <2>1. Rest' = Rest /\ Filling' = Filling
    BY <1>1, <1>2 DEF Rest, Filling
  <2> QED BY <1>1, <1>2, <2>1 DEF AheadAt
<1>4. EndIsAhead => EndIsAhead'
  BY <1>1, <1>2, <1>3, EndsStay DEF EndIsAhead
<1>5. EndIsTaken => EndIsTaken'
  BY <1>1, EndsStay DEF EndIsTaken
<1>6. EndIsKnown' /\ TakenIsBehind' /\ QueueEnds' /\ LoopsAtOnce' /\ app_pc' # "aborted"
  BY <1>1, <1>2, <1>4, <1>5
     DEF EndStep, EndInv, EndIsKnown, TakenIsBehind, QueueEnds, LoopsAtOnce
<1>7. ResultIsMade' /\ FramesAreNumbered'
  BY <1>1, ResultIsMadeStep, FramesNumberedStep
     DEF EndStep, EndInv, ReplayInv, ProcessorInv
<1> QED BY <1>6, <1>7 DEF EndInv

LEMMA InitEndInv == ReplayInit => EndInv
<1> SUFFICES ASSUME ReplayInit PROVE EndInv
  OBVIOUS
<1>1. /\ batch = <<>> /\ queue = <<>> /\ got[Dispatcher] = NoBatch
      /\ async_pc = "not_started"
      /\ app_pc = "events" /\ dispatch_frame_number = 0 /\ preload_queue = <<>>
      /\ replay_from_queue = FALSE /\ looping = FALSE
  BY DEF ReplayInit, ClientInit, Init, Queue!Init
<1>2. FramesAreNumbered
  <2>1. DOMAIN queue = {}
    BY <1>1
  <2>2. LiveBatches = {<<>>}
    BY <1>1, <2>1 DEF LiveBatches
  <2>3. \A b \in LiveBatches : \A i : i \notin 1 .. Len(b)
    BY <2>2
  <2> QED BY <2>3 DEF FramesAreNumbered
<1>3. ResultIsMade /\ ~NoMoreFrames
  BY <1>1 DEF ResultIsMade, NoMoreFrames, AfterResult, WaitLabels
<1>4. QueueEnds /\ LoopsAtOnce /\ TakenIsBehind /\ EndIsKnown
  BY <1>1, <1>3 DEF QueueEnds, LoopsAtOnce, TakenIsBehind, HasPreloaded, EndIsKnown
<1> QED BY <1>1, <1>2, <1>3, <1>4 DEF EndInv

(* The steps of the application.                                             *)
LEMMA AppEndStep ==
  ASSUME EndStep, ReplayStep \/ UserQuits
  PROVE  EndInv'
<1>1. Advance \/ UNCHANGED vars
  BY ReplayStepIsDispatch
<1>2. dispatch_pc = "idle" /\ app_pc \notin {"quit", "ended", "aborted"}
  BY DEF ReplayStep, UserQuits, Client, Idle, PreloadBatch, PreloadEnd, ClearPreloaded, PlayBatch,
     PlayPastTheEnd, Preloading, NoEvent, CheckLimits, PlayFromQueue, EndFrame, QuitEvent
<1>3. AppEnds
  BY <1>1, <1>2 DEF EndStep, AppStep, AppEnds
<1>4. CASE Client \/ UserQuits
  <2>1. UNCHANGED vars /\ cursor' = cursor
    BY <1>4 DEF Client, UserQuits, StayAt, processor_vars
  <2>2. \/ NoEvent(input.options) \/ CheckLimits(input.options) \/ PlayFromQueue
        \/ EndFrame \/ QuitEvent
    BY <1>4 DEF Client, UserQuits
  <2> QED BY <1>3, <2>1, <2>2, NoEventEnds, CheckLimitsEnds, PlayFromQueueEnds, FrameOverEnds
<1>5. CASE PreloadBatch
  BY <1>3, <1>5, PreloadBatchEnds
<1>6. ~PreloadEnd
  BY <1>3, PreloadEndEnds DEF PreloadEnd
<1>7. CASE ClearPreloaded
  BY <1>3, <1>7, ClearPreloadedEnds
<1>8. CASE PlayBatch
  BY <1>3, <1>8, PlayBatchEnds
<1>9. ~PlayPastTheEnd
  BY <1>3, PlayPastEnds DEF PlayPastTheEnd
<1> QED BY <1>4, <1>5, <1>6, <1>7, <1>8, <1>9 DEF ReplayStep

LEMMA NextEndInv ==
  ASSUME EveryStutterIsEarly, ReplayInv, EndInv, [ReplayNext]_replay_vars
  PROVE  EndInv'
<1>1. ReplayInv' /\ input' = input
  <2>1. ReplayInv'
    BY NextReplayInv, StutterReplayInv
  <2>2. input' = input
    BY PositionMoves, ReplayStepIsDispatch, ProducerMoves
    DEF ReplayNext, InProcessor, DestroyProcessor, Destroy, DispatchStep, LaunchAsyncThread,
    PopBatch, PopEnd, StoreDequeued, NotifyDequeued, DestroyNotify, Join, Advance, vars,
    Terminated, replay_vars, processor_vars, ReplayInv, ProcessorInv, reader_vars
  <2> QED BY <2>1, <2>2
<1>2. CASE LimitsAgree(input.options)
  <2>1. EndStep
    BY <1>1, <1>2 DEF EndStep
  <2>2. CASE InProcessor(AsyncStep) \/ InProcessor(SpuriousWakeup)
    <3>1. InProcessor(AsyncStep \/ SpuriousWakeup)
      BY <2>2 DEF InProcessor
    <3> QED BY <2>1, <3>1, ProducerEndStep
  <2>3. CASE InProcessor(DispatchStep)
    BY <2>1, <2>3, DispatchEndStep
  <2>4. CASE ReplayStep \/ UserQuits
    BY <2>1, <2>4, AppEndStep
  <2>5. CASE DestroyProcessor
    BY <2>1, <2>5, DestroyEnds
  <2>6. CASE Terminated \/ UNCHANGED replay_vars
    <3>1. UNCHANGED replay_vars
      BY <2>6 DEF Terminated
    <3> QED BY <2>1, <3>1, StutterEndInv
  <2> QED BY <2>2, <2>3, <2>4, <2>5, <2>6 DEF ReplayNext
<1>3. CASE ~LimitsAgree(input.options)
  <2>1. Next \/ UNCHANGED vars
    BY ReplayStepIsDispatch DEF ReplayNext, InProcessor, DestroyProcessor, Terminated, Next,
       replay_vars, processor_vars
  <2>2. ResultIsMade' /\ FramesAreNumbered'
    BY <2>1, ResultIsMadeStep, FramesNumberedStep DEF EndInv, ReplayInv, ProcessorInv
  <2> QED BY <1>1, <1>3, <2>2 DEF EndInv
<1> QED BY <1>2, <1>3

(* Where the producer's limit leaves room for what is preloaded and looped,   *)
(* replay, and preloading, never come to the end of the queue: there is always *)
(* a result ahead that ends the reading for the application as it did for the  *)
(* producer (the assertions at file_processor.cpp:304 and                    *)
(* preload_file_processor.cpp:231), for every capture whose markers are early, *)
(* all such limits and any cut into batches.                                 *)
THEOREM NeverPastTheEndWithinLimitsCorrect ==
  ASSUME EveryStutterIsEarly
  PROVE  ReplaySpec => []NeverPastTheEndWithinLimits
<1>1. ReplayInit => EndInv
  BY InitEndInv
<1>2. EndInv /\ ReplayInv /\ [ReplayNext]_replay_vars => EndInv'
  BY NextEndInv
<1>3. ReplayInv /\ EndInv => NeverPastTheEndWithinLimits
  <2> SUFFICES ASSUME ReplayInv, EndInv, LimitsAgree(input.options)
               PROVE  NeverPastTheEnd /\ PreloadNeverPastTheEnd
    BY DEF NeverPastTheEndWithinLimits
  <2>1. NeverPastTheEnd
    BY DEF EndInv, NeverPastTheEnd
  <2>2. ASSUME Preloading, Idle, AtEndOfQueue PROVE FALSE
    <3>1. async_pc = "exited" /\ queue = <<>> /\ batch = <<>>
      BY <2>2 DEF Idle, ReplayInv, ProcessorInv, Closing
    <3>2. Rest = <<>> /\ Filling = <<>> /\ Last = 1 /\ NoMoreFrames
      BY <2>2, <3>1 DEF Rest, Filling, Last, NoMoreFrames
    <3>3. \A j \in 0 .. Last : AheadAt(j) = <<>>
      BY <3>2 DEF AheadAt
    <3>4. ~EndIsAhead
      <4>1. \A j \in FirstAhead .. Last : j \in 0 .. Last
        BY <3>2 DEF FirstAhead
      <4> QED BY <3>3, <4>1 DEF EndIsAhead, EndsBatch
    <3>5. EndIsTaken
      BY <2>2, <3>2, <3>4 DEF EndInv, EndIsKnown, Preloading
    <3>6. ~replay_from_queue /\ ~looping
      BY <2>2 DEF ReplayInv, Measured
    <3> QED BY <2>2, <3>5, <3>6 DEF EndIsTaken, BetweenFrames, Preloading
  <2> QED BY <2>1, <2>2 DEF PreloadNeverPastTheEnd
<1> QED BY <1>1, <1>2, <1>3, ReplayInvariance, PTL DEF ReplaySpec

-----------------------------------------------------------------------------
(***************************************************************************)
(* What is in the stream.  The reference is recursive over the capture and *)
(* the content of the queue over its batches: both have their values, and  *)
(* what a block or a batch adds to them.                                   *)
(***************************************************************************)
Flattens(f, batches) ==
  /\ f \in [0 .. Len(batches) -> Seq(Entries)]
  /\ f[0] = <<>>
  /\ \A n \in 1 .. Len(batches) : f[n] = f[n - 1] \o batches[n].blocks

LEMMA BatchBlocks ==
  ASSUME NEW q \in Seq(Batch), NEW n \in 1 .. Len(q)
  PROVE  q[n] \in Batch /\ q[n].blocks \in Seq(Entries)
<1>1. q[n] \in Batch
  OBVIOUS
<1>2. \A b \in Batch : b.blocks \in Seq(Entries)
  BY DEF Batch
<1> QED BY <1>1, <1>2

LEMMA FlattenedSteps ==
  ASSUME NEW q \in Seq(Batch)
  PROVE  \E f : Flattens(f, q) /\ Flattened(q) = f[Len(q)]
<1> DEFINE Equation(f) ==
      f = [n \in 0 .. Len(q) |-> IF n = 0 THEN <<>> ELSE f[n - 1] \o q[n].blocks]
<1> HIDE DEF Equation
<1>1. Len(q) \in Nat /\ <<>> \in Seq(Entries)
  OBVIOUS
<1>2. PICK step : step = [n \in 1 .. Len(q) |-> [s \in Seq(Entries) |-> s \o q[n].blocks]]
  OBVIOUS
<1>3. step \in [1 .. Len(q) -> [Seq(Entries) -> Seq(Entries)]]
  <2>1. ASSUME NEW n \in 1 .. Len(q), NEW s \in Seq(Entries)
        PROVE  s \o q[n].blocks \in Seq(Entries)
    <3>1. q[n].blocks \in Seq(Entries)
      BY BatchBlocks
    <3> QED BY <3>1
  <2> QED BY <1>2, <2>1
<1>4. PICK f \in [0 .. Len(q) -> Seq(Entries)] :
        f[0] = <<>> /\ \A n \in 1 .. Len(q) : f[n] = step[n][f[n - 1]]
  <2>1. step \in Steps(Len(q), Seq(Entries))
    BY <1>3 DEF Steps
  <2>2. \E f : IsRecursion(f, Len(q), Seq(Entries), <<>>, step)
    BY <1>1, <2>1, RecursionExists
  <2> QED BY <2>2 DEF IsRecursion
<1>5. \A n \in 1 .. Len(q) : n - 1 \in 0 .. Len(q) /\ f[n - 1] \in Seq(Entries)
  BY <1>1, <1>4
<1>6. \A n \in 1 .. Len(q) : f[n] = f[n - 1] \o q[n].blocks
  BY <1>2, <1>4, <1>5
<1>7. Equation(f)
  <2>1. \A n \in 0 .. Len(q) : n = 0 \/ n \in 1 .. Len(q)
    BY <1>1
  <2> QED BY <1>4, <1>6, <2>1 DEF Equation
<1>8. PICK g : g = (CHOOSE h : Equation(h)) /\ Equation(g)
  BY <1>7
<1>9. Flattened(q) = g[Len(q)]
  BY <1>8 DEF Flattened, Equation
<1>10. g[0] = <<>> /\ DOMAIN g = 0 .. Len(q)
       /\ \A n \in 1 .. Len(q) : g[n] = g[n - 1] \o q[n].blocks
  <2>1. g = [n \in 0 .. Len(q) |-> IF n = 0 THEN <<>> ELSE g[n - 1] \o q[n].blocks]
    BY <1>8 DEF Equation
  <2>2. 0 \in 0 .. Len(q) /\ \A n \in 1 .. Len(q) : n \in 0 .. Len(q) /\ n # 0
    BY <1>1
  <2> QED BY <2>1, <2>2, Zenon
<1>11. {n \in 0 .. Len(q) : g[n] # f[n]} = {}
  <2> DEFINE differ == {n \in 0 .. Len(q) : g[n] # f[n]}
  <2> SUFFICES ASSUME differ # {} PROVE FALSE
    OBVIOUS
  <2>1. PICK m \in differ : \A k \in differ : m <= k
    <3>1. differ \subseteq Nat
      OBVIOUS
    <3> HIDE DEF differ
    <3> QED BY <3>1, LeastExists
  <2>2. m # 0
    BY <1>4, <1>10, <2>1
  <2>3. m \in 1 .. Len(q) /\ m - 1 \in 0 .. Len(q) /\ ~(m <= m - 1)
    BY <1>1, <2>1, <2>2
  <2>4. g[m - 1] = f[m - 1]
    BY <2>1, <2>3
  <2> QED BY <1>6, <1>10, <2>1, <2>3, <2>4
<1>12. \A n \in 0 .. Len(q) : g[n] = f[n]
  BY <1>11
<1>13. Len(q) \in 0 .. Len(q)
  BY <1>1
<1> QED BY <1>1, <1>4, <1>6, <1>9, <1>12, <1>13 DEF Flattens

(* What is enqueued is at the end ...                                        *)
LEMMA FlattenedAppend ==
  ASSUME NEW q \in Seq(Batch), NEW b \in Batch
  PROVE  /\ Flattened(q) \in Seq(Entries)
         /\ Flattened(Append(q, b)) = Flattened(q) \o b.blocks
<1> DEFINE r == Append(q, b)
<1>1. /\ r \in Seq(Batch) /\ Len(r) = Len(q) + 1 /\ Len(q) \in Nat
      /\ \A n \in 1 .. Len(q) : r[n] = q[n]
      /\ r[Len(q) + 1] = b
  OBVIOUS
<1> HIDE DEF r
<1>2. PICK f : Flattens(f, q) /\ Flattened(q) = f[Len(q)]
  BY FlattenedSteps
<1>3. PICK g : Flattens(g, r) /\ Flattened(r) = g[Len(r)]
  BY <1>1, FlattenedSteps
<1> DEFINE differ == {n \in 0 .. Len(q) : g[n] # f[n]}
<1>4. ASSUME differ # {} PROVE FALSE
  <2>1. PICK m \in differ : \A k \in differ : m <= k
    <3>1. differ \subseteq Nat
      OBVIOUS
    <3> HIDE DEF differ
    <3> QED BY <1>4, <3>1, LeastExists
  <2>2. m # 0
    BY <1>2, <1>3, <2>1 DEF Flattens
  <2>3. m \in 1 .. Len(q) /\ m \in 1 .. Len(r) /\ m - 1 \in 0 .. Len(q) /\ ~(m <= m - 1)
    BY <1>1, <2>1, <2>2
  <2>4. g[m - 1] = f[m - 1]
    BY <2>1, <2>3
  <2>5. g[m] = g[m - 1] \o r[m].blocks /\ f[m] = f[m - 1] \o q[m].blocks
    BY <1>2, <1>3, <2>3 DEF Flattens
  <2> QED BY <1>1, <2>1, <2>3, <2>4, <2>5
<1>5. g[Len(q)] = f[Len(q)] /\ f[Len(q)] \in Seq(Entries)
  <2>1. Len(q) \in 0 .. Len(q) /\ Len(q) \notin differ
    BY <1>1, <1>4
  <2> QED BY <1>2, <2>1 DEF Flattens
<1>6. g[Len(q) + 1] = g[Len(q)] \o r[Len(q) + 1].blocks
  <2>1. Len(q) + 1 \in 1 .. Len(r) /\ (Len(q) + 1) - 1 = Len(q)
    BY <1>1
  <2> QED BY <1>3, <2>1 DEF Flattens
<1> HIDE DEF differ
<1>7. Flattened(q) \in Seq(Entries) /\ Flattened(r) = Flattened(q) \o b.blocks
  <2>1. Flattened(r) = g[Len(q) + 1]
    BY <1>1, <1>3
  <2>2. g[Len(q) + 1] = f[Len(q)] \o b.blocks
    BY <1>1, <1>5, <1>6
  <2> QED BY <1>2, <1>5, <2>1, <2>2
<1> QED BY <1>7 DEF r

(* Streams that are joined.                                                 *)
LEMMA JoinedStreams ==
  /\ \A s \in Seq(Entries) : s \o <<>> = s
  /\ \A s, t, u \in Seq(Entries) : (s \o t) \o u = s \o (t \o u)
  /\ \A s, t \in Seq(Entries), e \in Entries : s \o Append(t, e) = Append(s \o t, e)
<1>1. \A s \in Seq(Entries) : s \o <<>> = s
  BY ConcatEmptySeq
<1>2. \A s, t, u \in Seq(Entries) : (s \o t) \o u = s \o (t \o u)
  <2> TAKE s, t, u \in Seq(Entries)
  <2> QED BY ConcatAssociative
<1>3. \A s, t \in Seq(Entries), e \in Entries : s \o Append(t, e) = Append(s \o t, e)
  OBVIOUS
<1> QED BY <1>1, <1>2, <1>3

(* ... and what is dequeued comes from the front.                            *)
LEMMA FlattenedTail ==
  ASSUME NEW q \in Seq(Batch), q # <<>>
  PROVE  Flattened(q) = Head(q).blocks \o Flattened(Tail(q))
<1> DEFINE r == Tail(q)
           head == Head(q).blocks
<1>1. /\ r \in Seq(Batch) /\ Len(q) = Len(r) + 1 /\ Len(r) \in Nat
      /\ \A n \in 1 .. Len(r) : r[n] = q[n + 1]
      /\ q[1] \in Batch /\ head = q[1].blocks
  OBVIOUS
<1>2. head \in Seq(Entries) /\ \A n \in 1 .. Len(r) : r[n].blocks \in Seq(Entries)
  <2>1. 1 \in 1 .. Len(q)
    BY <1>1
  <2>2. q[1].blocks \in Seq(Entries)
    BY <2>1, BatchBlocks
  <2>3. \A n \in 1 .. Len(r) : r[n].blocks \in Seq(Entries)
    BY <1>1, BatchBlocks
  <2> QED BY <1>1, <2>2, <2>3
<1> HIDE DEF r, head
<1>3. PICK f : Flattens(f, q) /\ Flattened(q) = f[Len(q)]
  BY FlattenedSteps
<1>4. PICK g : Flattens(g, r) /\ Flattened(r) = g[Len(r)]
  BY <1>1, FlattenedSteps
<1> DEFINE differ == {n \in 0 .. Len(r) : f[n + 1] # head \o g[n]}
<1>5. ASSUME differ # {} PROVE FALSE
  <2>1. PICK m \in differ : \A k \in differ : m <= k
    <3>1. differ \subseteq Nat
      OBVIOUS
    <3> HIDE DEF differ
    <3> QED BY <1>5, <3>1, LeastExists
  <2>2. m # 0
    <3>1. f[1] = f[0] \o q[1].blocks
      <4>1. 1 \in 1 .. Len(q) /\ 1 - 1 = 0
        BY <1>1
      <4> QED BY <1>3, <4>1 DEF Flattens
    <3>2. <<>> \o head = head /\ head \o <<>> = head
      BY <1>2, ConcatEmptySeq
    <3>3. f[0 + 1] = head \o g[0]
      <4>1. f[0] = <<>> /\ g[0] = <<>>
        BY <1>3, <1>4 DEF Flattens
      <4>2. f[1] = <<>> \o head
        <5>1. head = q[1].blocks
          BY <1>1
        <5> QED BY <3>1, <4>1, <5>1
      <4> QED BY <3>2, <4>1, <4>2
    <3> QED BY <2>1, <3>3
  <2>3. m \in 1 .. Len(r) /\ m - 1 \in 0 .. Len(r) /\ ~(m <= m - 1)
        /\ m + 1 \in 1 .. Len(q) /\ (m + 1) - 1 = m /\ (m - 1) + 1 = m
    BY <1>1, <2>1, <2>2
  <2>4. f[m] = head \o g[m - 1]
    BY <2>1, <2>3
  <2>5. g[m] = g[m - 1] \o r[m].blocks /\ f[m + 1] = f[m] \o q[m + 1].blocks
    BY <1>3, <1>4, <2>3 DEF Flattens
  <2>6. g[m - 1] \in Seq(Entries)
    BY <1>4, <2>3 DEF Flattens
  <2>7. (head \o g[m - 1]) \o r[m].blocks = head \o (g[m - 1] \o r[m].blocks)
    BY <1>2, <2>3, <2>6, JoinedStreams
  <2> QED BY <1>1, <2>1, <2>3, <2>4, <2>5, <2>7
<1>6. f[Len(r) + 1] = head \o g[Len(r)]
  <2>1. Len(r) \in 0 .. Len(r)
    BY <1>1
  <2>2. Len(r) \notin differ
    BY <1>5
  <2> QED BY <2>1, <2>2
<1>7. Len(q) = Len(r) + 1
  BY <1>1
<1> HIDE DEF differ
<1>8. Flattened(q) = head \o Flattened(r)
  BY <1>3, <1>4, <1>6, <1>7
<1> QED BY <1>8 DEF r, head

(* What has been read after so many blocks.                                  *)
Reads == [pos : Positions, out : Seq(Entries), stopped : BOOLEAN]

BlockRead(read, n) == BlockEntry(n, read.pos.frame_number, "kAlways")
ResultRead(capture, read, n) ==
  ResultEntry("kFrameBoundary", AfterBlock(read.pos, capture.blocks[n]).frame_number)
AddsTo(capture, read, n) ==
  IF IsFrameDelimiter(read.pos, capture.blocks[n])
    THEN <<BlockRead(read, n), ResultRead(capture, read, n)>> ELSE <<BlockRead(read, n)>>

ReadFacts(c, limit, r, n) ==
  /\ ReadFurther(c, limit, r, n) \in Reads
  /\ (r.stopped \/ Stops(c, limit, r.pos)) =>
       /\ ReadFurther(c, limit, r, n).stopped = TRUE
       /\ ReadFurther(c, limit, r, n).pos = r.pos
       /\ ReadFurther(c, limit, r, n).out = r.out
  /\ ~(r.stopped \/ Stops(c, limit, r.pos)) =>
       /\ ReadFurther(c, limit, r, n).stopped = FALSE
       /\ ReadFurther(c, limit, r, n).pos = AfterBlock(r.pos, c.blocks[n])
       /\ ReadFurther(c, limit, r, n).out = r.out \o AddsTo(c, r, n)
  /\ AddsTo(c, r, n) \in Seq(Entries)
  /\ AddsTo(c, r, n)[1] = BlockRead(r, n)
  /\ IsFrameDelimiter(r.pos, c.blocks[n]) =>
       /\ Len(AddsTo(c, r, n)) = 2
       /\ AddsTo(c, r, n)[2] = ResultRead(c, r, n)
  /\ ~IsFrameDelimiter(r.pos, c.blocks[n]) => Len(AddsTo(c, r, n)) = 1

LEMMA ReadFurtherFields ==
  ASSUME NEW c \in Captures, NEW limit \in Nat, NEW r \in Reads, NEW n \in Nat
  PROVE  ReadFacts(c, limit, r, n)
<1> DEFINE next == AfterBlock(r.pos, c.blocks[n])
           block == BlockRead(r, n)
           result == ResultRead(c, r, n)
           adds == AddsTo(c, r, n)
<1>1. /\ r.pos \in Positions /\ r.out \in Seq(Entries) /\ r.stopped \in BOOLEAN
      /\ r = [pos |-> r.pos, out |-> r.out, stopped |-> r.stopped]
  BY DEF Reads
<1>2. next \in Positions /\ next.frame_number \in Nat /\ r.pos.frame_number \in Nat
  <2>1. next \in Positions
    BY <1>1, AfterBlockType
  <2> QED BY <1>1, <2>1 DEF Positions
<1> HIDE DEF next
<1>3. block \in Entries
  BY <1>2, EntryTypes DEF BlockRead, Policies
<1>4. result \in Entries
  BY <1>2, EntryTypes DEF ProcessBlockStates, ResultRead, next
<1>5. adds = IF IsFrameDelimiter(r.pos, c.blocks[n]) THEN <<block, result>> ELSE <<block>>
  BY DEF AddsTo
<1> HIDE DEF block, result, adds
<1>6. <<block, result>> \in Seq(Entries) /\ <<block>> \in Seq(Entries)
  BY <1>3, <1>4
<1>7. /\ adds \in Seq(Entries) /\ adds[1] = block
      /\ IsFrameDelimiter(r.pos, c.blocks[n]) => Len(adds) = 2 /\ adds[2] = result
      /\ ~IsFrameDelimiter(r.pos, c.blocks[n]) => Len(adds) = 1
  <2>1. Len(<<block, result>>) = 2 /\ <<block, result>>[1] = block /\ <<block, result>>[2] = result
        /\ Len(<<block>>) = 1 /\ <<block>>[1] = block
    OBVIOUS
  <2>2. CASE IsFrameDelimiter(r.pos, c.blocks[n])
    <3>1. adds = <<block, result>>
      BY <1>5, <1>6, <2>2
    <3> QED BY <1>6, <2>1, <2>2, <3>1
  <2>3. CASE ~IsFrameDelimiter(r.pos, c.blocks[n])
    <3>1. adds = <<block>>
      BY <1>5, <1>6, <2>3
    <3> QED BY <1>6, <2>1, <2>3, <3>1
  <2> QED BY <2>2, <2>3
<1>8. CASE r.stopped \/ Stops(c, limit, r.pos)
  <2>1. ReadFurther(c, limit, r, n) = [r EXCEPT !.stopped = TRUE]
    BY <1>8 DEF ReadFurther
  <2>3. /\ [r EXCEPT !.stopped = TRUE] \in Reads
        /\ [r EXCEPT !.stopped = TRUE].stopped = TRUE
        /\ [r EXCEPT !.stopped = TRUE].pos = r.pos /\ [r EXCEPT !.stopped = TRUE].out = r.out
    BY DEF Reads
  <2> QED BY <1>7, <1>8, <2>1, <2>3 DEF adds, block, result, next, ReadFacts
<1>9. CASE ~(r.stopped \/ Stops(c, limit, r.pos))
  <2>1. ReadFurther(c, limit, r, n) = [pos |-> next, out |-> r.out \o adds, stopped |-> FALSE]
    BY <1>9 DEF ReadFurther, adds, AddsTo, BlockRead, ResultRead, next
  <2>2. r.out \o adds \in Seq(Entries)
    BY <1>1, <1>7
  <2>3. ReadFurther(c, limit, r, n) \in Reads
    BY <1>2, <2>1, <2>2 DEF Reads
  <2>4. /\ ReadFurther(c, limit, r, n).stopped = FALSE
        /\ ReadFurther(c, limit, r, n).pos = next
        /\ ReadFurther(c, limit, r, n).out = r.out \o adds
    BY <2>1
  <2> QED BY <1>7, <1>9, <2>3, <2>4 DEF adds, block, result, next, ReadFacts
<1> QED BY <1>8, <1>9

LEMMA ReadFurtherType ==
  \A c \in Captures, limit \in Nat, r \in Reads, n \in Nat : ReadFurther(c, limit, r, n) \in Reads
BY ReadFurtherFields DEF ReadFacts

LEMMA ReadSteps ==
  ASSUME NEW c \in Captures, NEW limit \in Nat
  PROVE  LET f == ReadUpTo(c, limit) IN
         /\ \A n \in 0 .. Len(c.blocks) : f[n] \in Reads
         /\ f[0] = [pos |-> StartOf(c), out |-> <<>>, stopped |-> FALSE]
         /\ \A n \in 1 .. Len(c.blocks) : f[n] = ReadFurther(c, limit, f[n - 1], n)
<1> DEFINE N == Len(c.blocks)
           start == [pos |-> StartOf(c), out |-> <<>>, stopped |-> FALSE]
           Equation(f) ==
             f = [n \in 0 .. N |-> IF n = 0 THEN start ELSE ReadFurther(c, limit, f[n - 1], n)]
<1> HIDE DEF Equation
<1>1. N \in Nat
  BY DEF Captures
<1>2. start \in Reads
  BY StartType DEF Reads
<1> HIDE DEF N, start
<1>3. PICK step : step = [n \in 1 .. N |-> [r \in Reads |-> ReadFurther(c, limit, r, n)]]
  OBVIOUS
<1>4. step \in Steps(N, Reads)
  <2>1. \A n \in 1 .. N, r \in Reads : ReadFurther(c, limit, r, n) \in Reads
    <3>1. \A n \in 1 .. N : n \in Nat
      BY <1>1
    <3> QED BY <3>1, ReadFurtherType, Zenon
  <2> QED BY <1>3, <2>1 DEF Steps
<1>5. PICK f : IsRecursion(f, N, Reads, start, step)
  BY <1>1, <1>2, <1>4, RecursionExists
<1>6. f \in [0 .. N -> Reads] /\ f[0] = start /\ \A n \in 1 .. N : f[n] = step[n][f[n - 1]]
  BY <1>5 DEF IsRecursion
<1>7. \A n \in 1 .. N : n - 1 \in 0 .. N /\ f[n - 1] \in Reads
  BY <1>1, <1>6
<1>8. \A n \in 1 .. N : f[n] = ReadFurther(c, limit, f[n - 1], n)
  BY <1>3, <1>6, <1>7
<1>9. Equation(f)
  <2>1. \A n \in 0 .. N : n = 0 \/ n \in 1 .. N
    BY <1>1
  <2> QED BY <1>6, <1>8, <2>1 DEF Equation
<1>10. PICK g : g = (CHOOSE h : Equation(h)) /\ Equation(g)
  BY <1>9
<1>11. ReadUpTo(c, limit) = g
  BY <1>10 DEF ReadUpTo, Equation, N, start
<1>12. g[0] = start /\ \A n \in 1 .. N : g[n] = ReadFurther(c, limit, g[n - 1], n)
  <2>1. g = [n \in 0 .. N |-> IF n = 0 THEN start ELSE ReadFurther(c, limit, g[n - 1], n)]
    BY <1>10 DEF Equation
  <2>2. 0 \in 0 .. N /\ \A n \in 1 .. N : n \in 0 .. N /\ n # 0
    BY <1>1
  <2> QED BY <2>1, <2>2, Zenon
<1> DEFINE untyped == {n \in 0 .. N : g[n] \notin Reads}
<1>13. ASSUME untyped # {} PROVE FALSE
  <2>1. PICK m \in untyped : \A k \in untyped : m <= k
    <3>1. untyped \subseteq Nat
      OBVIOUS
    <3> HIDE DEF untyped
    <3> QED BY <1>13, <3>1, LeastExists
  <2>2. m # 0
    BY <1>2, <1>12, <2>1
  <2>3. m \in 1 .. N /\ m - 1 \in 0 .. N /\ ~(m <= m - 1) /\ m \in Nat
    BY <1>1, <2>1, <2>2
  <2>4. g[m - 1] \in Reads
    BY <2>1, <2>3
  <2>5. g[m] = ReadFurther(c, limit, g[m - 1], m)
    BY <1>12, <2>3
  <2>6. g[m] \in Reads
    BY <2>3, <2>4, <2>5, ReadFurtherType, Zenon
  <2> QED BY <2>1, <2>6
<1>14. \A n \in 0 .. N : g[n] \in Reads
  BY <1>13
<1> QED BY <1>11, <1>12, <1>14 DEF N, start

(* What was read stays, and is all there is once there is nothing to read.   *)
IsKept(c, limit, h, g) ==
  /\ Len(h.out) <= Len(g.out)
  /\ \A i \in 1 .. Len(h.out) : g.out[i] = h.out[i]
  /\ Stops(c, limit, h.pos) => g.pos = h.pos /\ g.out = h.out

LEMMA ReadOn ==
  ASSUME NEW c \in Captures, NEW limit \in Nat, NEW k \in 0 .. Len(c.blocks)
  PROVE  \A n \in k .. Len(c.blocks) :
           IsKept(c, limit, ReadUpTo(c, limit)[k], ReadUpTo(c, limit)[n])
<1> DEFINE f == ReadUpTo(c, limit)
           N == Len(c.blocks)
           Ends == Stops(c, limit, f[k].pos)
           Keeps(n) == /\ Len(f[k].out) <= Len(f[n].out)
                       /\ \A i \in 1 .. Len(f[k].out) : f[n].out[i] = f[k].out[i]
                       /\ Ends => f[n].pos = f[k].pos /\ f[n].out = f[k].out
           rest == {n \in k .. N : ~Keeps(n)}
<1>1. N \in Nat /\ k \in Nat
  BY DEF Captures
<1>2. /\ \A n \in 0 .. N : f[n] \in Reads
      /\ \A n \in 1 .. N : f[n] = ReadFurther(c, limit, f[n - 1], n)
  BY ReadSteps
<1> SUFFICES rest = {}
  BY DEF IsKept
<1> HIDE DEF f, N
<1> SUFFICES ASSUME rest # {} PROVE FALSE
  OBVIOUS
<1>3. PICK m \in rest : \A n \in rest : m <= n
  <2>1. rest \subseteq Nat
    BY <1>1
  <2> HIDE DEF rest
  <2> QED BY <2>1, LeastExists
<1>4. f[k].out \in Seq(Entries) /\ Len(f[k].out) \in Nat
  <2>1. \A r \in Reads : r.out \in Seq(Entries) /\ Len(r.out) \in Nat
    BY DEF Reads
  <2>2. k \in 0 .. N
    BY DEF N
  <2> QED BY <1>2, <2>1, <2>2
<1>5. m # k
  BY <1>3, <1>4
<1>6. /\ m \in 1 .. N /\ m - 1 \in k .. N /\ m - 1 \in 0 .. N /\ ~(m <= m - 1) /\ m \in Nat
  BY <1>1, <1>3, <1>5
<1>7. Keeps(m - 1)
  BY <1>3, <1>6
<1>8. PICK r \in Reads : r = f[m - 1]
  BY <1>2, <1>6
<1>9. PICK s : s = f[m] /\ s = ReadFurther(c, limit, r, m)
  BY <1>2, <1>6, <1>8
<1>10. /\ s \in Reads
       /\ (r.stopped \/ Stops(c, limit, r.pos)) => s.pos = r.pos /\ s.out = r.out
       /\ ~(r.stopped \/ Stops(c, limit, r.pos)) =>
            s.out = r.out \o AddsTo(c, r, m) /\ AddsTo(c, r, m) \in Seq(Entries)
  <2>1. m \in Nat
    BY <1>6
  <2>2. ReadFacts(c, limit, r, m)
    BY <2>1, ReadFurtherFields
  <2> QED BY <1>9, <2>2 DEF ReadFacts
<1>11. r.out \in Seq(Entries)
  BY DEF Reads
<1>12. /\ Len(r.out) <= Len(s.out)
       /\ \A i \in 1 .. Len(r.out) : s.out[i] = r.out[i]
  <2>1. CASE r.stopped \/ Stops(c, limit, r.pos)
    BY <1>10, <1>11, <2>1
  <2>2. CASE ~(r.stopped \/ Stops(c, limit, r.pos))
    <3>1. PICK t \in Seq(Entries) : s.out = r.out \o t
      BY <1>10, <2>2
    <3> QED BY <1>11, <3>1
  <2> QED BY <2>1, <2>2
<1>13. Len(s.out) \in Nat /\ Len(r.out) \in Nat
  BY <1>10, <1>11 DEF Reads
<1>14. Len(f[k].out) <= Len(r.out) /\ \A i \in 1 .. Len(f[k].out) : r.out[i] = f[k].out[i]
  BY <1>7, <1>8
<1>15. Len(f[k].out) <= Len(s.out) /\ \A i \in 1 .. Len(f[k].out) : s.out[i] = f[k].out[i]
  <2>1. \A i \in 1 .. Len(f[k].out) : i \in 1 .. Len(r.out)
    BY <1>4, <1>13, <1>14
  <2> QED BY <1>4, <1>12, <1>13, <1>14, <2>1
<1>16. ASSUME Ends PROVE s.pos = f[k].pos /\ s.out = f[k].out
  <2>1. r.pos = f[k].pos /\ r.out = f[k].out
    BY <1>7, <1>8, <1>16
  <2>2. Stops(c, limit, r.pos)
    BY <1>16, <2>1
  <2> QED BY <1>10, <2>1, <2>2
<1>17. Keeps(m)
  BY <1>9, <1>15, <1>16
<1> QED BY <1>3, <1>17

(* Where the reference is after k blocks, and what it has from there on.     *)
ReadAt(c, limit, k) == ReadUpTo(c, limit)[k]
Leads(c, limit, h, ref) ==
  /\ h.out \in Seq(Entries) /\ Len(h.out) \in Nat
  /\ Len(ref) \in Nat /\ Len(h.out) < Len(ref)
  /\ \A i \in 1 .. Len(h.out) : ref[i] = h.out[i]
  /\ Stops(c, limit, h.pos) =>
       ref[Len(h.out) + 1] = ResultEntry(StopState(c, limit, h.pos), h.pos.frame_number)

LEMMA ReferenceLeads ==
  ASSUME NEW c \in Captures, NEW limit \in Nat, NEW k \in 0 .. Len(c.blocks)
  PROVE  /\ ReadAt(c, limit, k) \in Reads
         /\ Leads(c, limit, ReadAt(c, limit, k), SequentialStream(c, limit))
<1> DEFINE f == ReadUpTo(c, limit)
           N == Len(c.blocks)
           h == f[k]
           last == f[N]
           end == ResultEntry(StopState(c, limit, last.pos), last.pos.frame_number)
<1>1. N \in Nat /\ N \in 0 .. N /\ N \in k .. N
  BY DEF Captures
<1>2. h \in Reads /\ last \in Reads
  BY <1>1, ReadSteps
<1>3. /\ Len(h.out) <= Len(last.out)
      /\ \A i \in 1 .. Len(h.out) : last.out[i] = h.out[i]
      /\ Stops(c, limit, h.pos) => last.pos = h.pos /\ last.out = h.out
  <2>1. \A n \in k .. N : IsKept(c, limit, h, f[n])
    BY ReadOn
  <2>2. IsKept(c, limit, h, last)
    BY <1>1, <2>1
  <2> QED BY <2>2 DEF IsKept
<1>4. SequentialStream(c, limit) = Append(last.out, end)
  BY DEF SequentialStream
<1>5. h = ReadAt(c, limit, k)
  BY DEF ReadAt
<1> HIDE DEF f, h, last, N
<1>6. /\ h.out \in Seq(Entries) /\ last.out \in Seq(Entries)
      /\ last.pos \in Positions /\ last.pos.frame_number \in Nat
  BY <1>2 DEF Reads, Positions
<1>7. end \in Entries
  <2>1. StopState(c, limit, last.pos) \in ProcessBlockStates
    BY <1>6, StopStateType
  <2> QED BY <1>6, <2>1, EntryTypes
<1> HIDE DEF end
<1>8. /\ Len(last.out) \in Nat /\ Len(h.out) \in Nat
      /\ Len(Append(last.out, end)) = Len(last.out) + 1
      /\ \A i \in 1 .. Len(last.out) : Append(last.out, end)[i] = last.out[i]
      /\ Append(last.out, end)[Len(last.out) + 1] = end
  BY <1>6, <1>7
<1>9. Leads(c, limit, h, Append(last.out, end))
  <2>1. \A i \in 1 .. Len(h.out) : i \in 1 .. Len(last.out)
    BY <1>3, <1>8
  <2>2. ASSUME Stops(c, limit, h.pos)
        PROVE  Append(last.out, end)[Len(h.out) + 1]
                 = ResultEntry(StopState(c, limit, h.pos), h.pos.frame_number)
    BY <1>3, <1>8, <2>2 DEF end
  <2>3. Len(Append(last.out, end)) \in Nat /\ Len(h.out) < Len(Append(last.out, end))
    BY <1>3, <1>8
  <2> QED BY <1>3, <1>6, <1>8, <2>1, <2>2, <2>3 DEF Leads
<1> QED BY <1>2, <1>4, <1>5, <1>9

(* The next block.                                                           *)
LEMMA ReadNext ==
  ASSUME NEW c \in Captures, NEW limit \in Nat, NEW k \in Nat, k + 1 <= Len(c.blocks),
         ~ReadAt(c, limit, k).stopped, ~Stops(c, limit, ReadAt(c, limit, k).pos)
  PROVE  LET h == ReadAt(c, limit, k)
             g == ReadAt(c, limit, k + 1)
         IN /\ g.stopped = FALSE /\ g.pos = AfterBlock(h.pos, c.blocks[k + 1])
            /\ g.out = h.out \o AddsTo(c, h, k + 1)
            /\ ReadFacts(c, limit, h, k + 1)
<1>1. Len(c.blocks) \in Nat /\ k + 1 \in 1 .. Len(c.blocks) /\ k \in 0 .. Len(c.blocks)
      /\ (k + 1) - 1 = k /\ k + 1 \in Nat
  BY DEF Captures
<1>2. ReadUpTo(c, limit)[k] \in Reads
      /\ ReadUpTo(c, limit)[k + 1] = ReadFurther(c, limit, ReadUpTo(c, limit)[k], k + 1)
  BY <1>1, ReadSteps
<1>3. PICK h \in Reads : h = ReadAt(c, limit, k)
  BY <1>2 DEF ReadAt
<1>4. PICK n \in Nat : n = k + 1
  BY <1>1
<1>5. ReadAt(c, limit, n) = ReadFurther(c, limit, h, n)
  BY <1>2, <1>3, <1>4 DEF ReadAt
<1>6. ReadFacts(c, limit, h, n)
  BY ReadFurtherFields
<1>7. ~(h.stopped \/ Stops(c, limit, h.pos))
  BY <1>3
<1>8. /\ ReadAt(c, limit, n).stopped = FALSE
      /\ ReadAt(c, limit, n).pos = AfterBlock(h.pos, c.blocks[n])
      /\ ReadAt(c, limit, n).out = h.out \o AddsTo(c, h, n)
  BY <1>5, <1>6, <1>7 DEF ReadFacts
<1> QED BY <1>3, <1>4, <1>6, <1>8

(* The first is where the capture starts.                                    *)
LEMMA ReadFirst ==
  ASSUME NEW c \in Captures, NEW limit \in Nat
  PROVE  LET h == ReadAt(c, limit, 0) IN h.pos = StartOf(c) /\ h.out = <<>> /\ h.stopped = FALSE
<1>1. ReadUpTo(c, limit)[0] = [pos |-> StartOf(c), out |-> <<>>, stopped |-> FALSE]
  BY ReadSteps
<1> QED BY <1>1 DEF ReadAt

(* The entries that are no signals, counted.                                 *)
LEMMA Counted ==
  ASSUME NEW s \in Seq(Entries), NEW e \in Entries
  PROVE  /\ \A n \in 0 .. Len(s) : CountIn(s, n) \in Nat /\ CountIn(Append(s, e), n) = CountIn(s, n)
         /\ IsSignal(e) => CountIn(Append(s, e), Len(s) + 1) = CountIn(s, Len(s))
         /\ ~IsSignal(e) => CountIn(Append(s, e), Len(s) + 1) = CountIn(s, Len(s)) + 1
<1> DEFINE t == Append(s, e)
           In(u, n) == {i \in 1 .. n : ~IsSignal(u[i])}
<1>1. /\ Len(s) \in Nat /\ t[Len(s) + 1] = e
      /\ \A i \in 1 .. Len(s) : t[i] = s[i]
  OBVIOUS
<1> HIDE DEF t
<1>2. \A u, n : CountIn(u, n) = Cardinality(In(u, n))
  BY DEF CountIn
<1>3. ASSUME NEW u, NEW n \in Nat PROVE IsFiniteSet(In(u, n)) /\ Cardinality(In(u, n)) \in Nat
  <2>1. IsFiniteSet(1 .. n)
    BY FS_Interval
  <2>2. In(u, n) \subseteq 1 .. n
    OBVIOUS
  <2>3. IsFiniteSet(In(u, n))
    BY <2>1, <2>2, FS_Subset
  <2> QED BY <2>3, FS_CardinalityType
<1>4. \A n \in 0 .. Len(s) : In(t, n) = In(s, n) /\ n \in Nat
  BY <1>1
<1>5. Len(s) \in 0 .. Len(s) /\ Len(s) + 1 \notin In(s, Len(s))
  BY <1>1
<1>6. IsSignal(e) => In(t, Len(s) + 1) = In(s, Len(s))
  BY <1>1
<1>7. ~IsSignal(e) => In(t, Len(s) + 1) = In(s, Len(s)) \cup {Len(s) + 1}
  BY <1>1
<1>8. Cardinality(In(s, Len(s)) \cup {Len(s) + 1}) = Cardinality(In(s, Len(s))) + 1
  BY <1>1, <1>3, <1>5, FS_AddElement
<1> HIDE DEF In
<1> QED BY <1>2, <1>3, <1>4, <1>6, <1>7, <1>8 DEF t

(* A stream agrees with the reference; what it has been extended by.         *)
Agrees(s, ref) ==
  \A i \in 1 .. Len(s) :
    ~IsSignal(s[i]) => CountIn(s, i) <= Len(ref) /\ Plain(s[i]) = ref[CountIn(s, i)]
Total(s) == CountIn(s, Len(s))

LEMMA AgreesOnAppend ==
  ASSUME NEW s \in Seq(Entries), NEW e \in Entries, NEW ref
  PROVE  /\ Total(s) \in Nat
         /\ Agrees(Append(s, e), ref) => Agrees(s, ref)
         /\ IsSignal(e) /\ Agrees(s, ref) =>
              Agrees(Append(s, e), ref) /\ Total(Append(s, e)) = Total(s)
         /\ ~IsSignal(e) => Total(Append(s, e)) = Total(s) + 1
         /\ /\ ~IsSignal(e) /\ Agrees(s, ref)
            /\ Total(s) + 1 <= Len(ref) /\ Plain(e) = ref[Total(s) + 1]
            => Agrees(Append(s, e), ref)
<1> DEFINE t == Append(s, e)
<1>1. /\ Len(s) \in Nat /\ Len(t) = Len(s) + 1 /\ t[Len(s) + 1] = e
      /\ \A i \in 1 .. Len(s) : t[i] = s[i]
  OBVIOUS
<1>2. /\ \A n \in 0 .. Len(s) : CountIn(s, n) \in Nat /\ CountIn(t, n) = CountIn(s, n)
      /\ IsSignal(e) => CountIn(t, Len(s) + 1) = CountIn(s, Len(s))
      /\ ~IsSignal(e) => CountIn(t, Len(s) + 1) = CountIn(s, Len(s)) + 1
  BY Counted
<1> HIDE DEF t
<1>3. /\ Len(s) \in 0 .. Len(s)
      /\ \A i \in 1 .. Len(s) : i \in 0 .. Len(s) /\ i \in 1 .. Len(t)
      /\ \A i \in 1 .. Len(t) : i \in 1 .. Len(s) \/ i = Len(s) + 1
  BY <1>1
<1>4. Agrees(t, ref) => Agrees(s, ref)
  BY <1>1, <1>2, <1>3 DEF Agrees
<1>5. ASSUME Agrees(s, ref),
             ~IsSignal(e) => CountIn(t, Len(s) + 1) <= Len(ref) /\ Plain(e) = ref[CountIn(t, Len(s) + 1)]
      PROVE  Agrees(t, ref)
  BY <1>1, <1>2, <1>3, <1>5 DEF Agrees
<1> QED BY <1>1, <1>2, <1>3, <1>4, <1>5 DEF Total, t

-----------------------------------------------------------------------------
(* All there is to replay: the stream, with the result the processing thread *)
(* is about to add.  A step of the processing thread adds a signal, a block, *)
(* a block and the result of its frame, or the terminal result, to its end;  *)
(* everything else only moves entries between the batches and the other      *)
(* thread.                                                                   *)
Content == (delivered \o Flattened(queue)) \o Filling

NewBlock == BlockEntry(pos.block_index + 1, pos.frame_number, policy)
EndsWithBlock == IsFrameDelimiter(pos, NextKind(input.capture, pos))

Unmoved == UNCHANGED <<input, pos, process_state>>
ReadsBlock ==
  /\ ReadBlock /\ input' = input
  /\ ~EndsWithBlock => Content' = Append(Content, NewBlock)
  /\ EndsWithBlock =>
       Content' = Append(Append(Content, NewBlock), FrameEnd(pos'.frame_number))
ReadsNoMore ==
  /\ StopReading /\ UNCHANGED <<input, pos>>
  /\ Content' = Append(Content, ResultEntry(process_state', pos.frame_number))

LEMMA FillingType ==
  ASSUME TypeOK
  PROVE  /\ Filling \in Seq(Entries) /\ batch \in Seq(Entries) /\ NewBlock \in Entries
         /\ queue \in Seq(Batch) /\ delivered \in Seq(Entries)
         /\ Flattened(queue) \in Seq(Entries)
         /\ delivered \o Flattened(queue) \in Seq(Entries)
         /\ Content \in Seq(Entries)
<1>1. /\ Filling \in Seq(Entries) /\ batch \in Seq(Entries)
      /\ queue \in Seq(Batch) /\ delivered \in Seq(Entries)
  BY AppendTypes DEF TypeOK, Filling
<1>2. NewBlock \in Entries
  BY EntryTypes DEF TypeOK, Positions, NewBlock
<1>3. [tag |-> 0, blocks |-> <<>>] \in Batch
  BY DEF Batch
<1>4. Flattened(queue) \in Seq(Entries)
  BY <1>1, <1>3, FlattenedAppend
<1> HIDE DEF Filling
<1>5. delivered \o Flattened(queue) \in Seq(Entries)
  BY <1>1, <1>4
<1>6. \A s, t \in Seq(Entries) : s \o t \in Seq(Entries)
  OBVIOUS
<1> QED BY <1>1, <1>2, <1>4, <1>5, <1>6 DEF Content

(* A flush and a batch that is kept make no difference.                      *)
LEMMA FlushedContent ==
  ASSUME TypeOK, NEW b \in Seq(Entries), Flush(b) \/ Keep(b), delivered' = delivered,
         async_pc' # "result"
  PROVE  Content' = (delivered \o Flattened(queue)) \o b
<1>0. /\ queue \in Seq(Batch) /\ delivered \in Seq(Entries) /\ Flattened(queue) \in Seq(Entries)
      /\ delivered \o Flattened(queue) \in Seq(Entries)
  BY FillingType
<1>1. Filling' = batch'
  BY DEF Filling
<1>2. Content' = (delivered \o Flattened(queue')) \o batch'
  BY <1>1 DEF Content
<1>3. CASE queue' = queue /\ batch' = b
  BY <1>2, <1>3
<1>4. CASE /\ batch' = <<>>
           /\ queue' = Append(queue, [tag |-> enqueued_batch_index + 1, blocks |-> b])
  <2>1. PICK t \in Batch : t.blocks = b /\ queue' = Append(queue, t)
    <3>1. [tag |-> enqueued_batch_index + 1, blocks |-> b] \in Batch
      BY DEF TypeOK, Batch
    <3> QED BY <1>4, <3>1
  <2>2. Flattened(queue') = Flattened(queue) \o b
    BY <1>0, <2>1, FlattenedAppend
  <2>3. Flattened(queue) \o b \in Seq(Entries)
    BY <1>0
  <2>4. delivered \o (Flattened(queue) \o b) \in Seq(Entries)
    BY <1>0, <2>3
  <2>5. Content' = (delivered \o (Flattened(queue) \o b)) \o <<>>
    BY <1>2, <1>4, <2>2
  <2>6. (delivered \o (Flattened(queue) \o b)) \o <<>> = delivered \o (Flattened(queue) \o b)
    BY <2>4, JoinedStreams
  <2>7. delivered \o (Flattened(queue) \o b) = (delivered \o Flattened(queue)) \o b
    BY <1>0, JoinedStreams
  <2> QED BY <2>5, <2>6, <2>7
<1> QED BY <1>3, <1>4 DEF Flush, Keep, Queue!Push, queue_vars

LEMMA ProducerContent ==
  ASSUME TypeOK, AsyncStep \/ SpuriousWakeup
  PROVE  \/ Unmoved /\ Content' \in {Content, Append(Content, ContinueEntry)}
         \/ ReadsBlock
         \/ ReadsNoMore
<1> DEFINE front == delivered \o Flattened(queue)
<1>0. /\ Filling \in Seq(Entries) /\ batch \in Seq(Entries) /\ front \in Seq(Entries)
      /\ ContinueEntry \in Entries /\ NewBlock \in Entries
      /\ Append(batch, ContinueEntry) \in Seq(Entries)
      /\ Append(batch, ResultEntry(process_state, pos.frame_number)) \in Seq(Entries)
      /\ Append(batch, NewBlock) \in Seq(Entries)
  BY FillingType, AppendTypes, EntryTypes DEF NewBlock
<1>1. Content = front \o Filling
  BY DEF Content
<1>2. delivered' = delivered /\ input' = input
  BY DEF AsyncStep, StartThread, TopOfLoop, MakeRoom, ReadBlock, StopReading,
     AddResult, Fence, ReadPending, LowWater, HighWater, BetweenWaters, WaitDone,
     NotYet, Block, Reacquire, WaitStep, BottomOfLoop, LastFlush, CloseQueue, SpuriousWakeup,
     dispatch_vars
<1>3. \A b \in Seq(Entries) : (Flush(b) \/ Keep(b)) /\ async_pc' # "result" =>
        Content' = front \o b
  BY <1>2, FlushedContent
<1> HIDE DEF front
<1>4. CASE ReadBlock
  <2>1. /\ Filling = batch /\ queue' = queue /\ batch' = Append(batch, NewBlock)
        /\ process_state' = BlockState(pos, NextKind(input.capture, pos))
        /\ async_pc' = IF EndsWithBlock THEN "result" ELSE "read"
    BY <1>4 DEF ReadBlock, Filling, Keep, GoAsync, queue_vars, NewBlock, EndsWithBlock
  <2>2. Content' = front \o Filling'
    BY <1>2, <2>1 DEF Content, front
  <2>3. CASE ~EndsWithBlock
    <3>1. Filling' = Append(batch, NewBlock)
      BY <2>1, <2>3 DEF Filling
    <3>2. Content' = Append(Content, NewBlock)
      BY <1>0, <1>1, <2>1, <2>2, <3>1, JoinedStreams
    <3> QED BY <1>2, <1>4, <2>3, <3>2 DEF ReadsBlock
  <2>4. CASE EndsWithBlock
    <3>1. Filling' = Append(Append(batch, NewBlock), FrameEnd(pos'.frame_number))
      BY <2>1, <2>4 DEF Filling, BlockState, EndsWithBlock, FrameEnd
    <3>2. FrameEnd(pos'.frame_number) \in Entries
      <4>1. /\ input.capture \in Captures /\ pos \in Positions /\ pos.block_index \in Nat
            /\ pos' = AfterBlock(pos, NextKind(input.capture, pos))
        BY <1>4, BlockIsThere DEF ReadBlock
      <4>2. pos' \in Positions
        BY <4>1, AfterBlockType
      <4> QED BY <4>2, EntryTypes DEF Positions, FrameEnd, ProcessBlockStates
    <3>3. Content' = Append(front \o Append(batch, NewBlock), FrameEnd(pos'.frame_number))
      <4>1. PICK t \in Seq(Entries) : t = Append(batch, NewBlock)
        BY <1>0
      <4>2. PICK e \in Entries : e = FrameEnd(pos'.frame_number)
        BY <3>2
      <4>3. front \o Append(t, e) = Append(front \o t, e)
        BY <1>0, JoinedStreams
      <4> QED BY <2>2, <3>1, <4>1, <4>2, <4>3
    <3>4. front \o Append(batch, NewBlock) = Append(Content, NewBlock)
      BY <1>0, <1>1, <2>1, JoinedStreams
    <3>5. Content' = Append(Append(Content, NewBlock), FrameEnd(pos'.frame_number))
      BY <3>3, <3>4
    <3> QED BY <1>2, <1>4, <2>4, <3>5 DEF ReadsBlock
  <2> QED BY <2>3, <2>4
<1>5. CASE StopReading
  <2>1. /\ Filling = batch /\ queue' = queue /\ batch' = batch /\ pos' = pos
        /\ process_state' = StopState(input.capture, input.block_limit, pos)
        /\ async_pc' = "result"
    BY <1>5 DEF StopReading, Filling, Keep, GoAsync, queue_vars
  <2>2. Filling' = Append(batch, ResultEntry(process_state', pos.frame_number))
    BY <2>1 DEF Filling
  <2>3. ResultEntry(process_state', pos.frame_number) \in Entries
    <3>1. process_state' \in ProcessBlockStates
      BY <2>1, InputAssumption, StopStateType DEF TypeOK
    <3> QED BY <3>1, EntryTypes DEF TypeOK, Positions
  <2>4. Content' = front \o Filling'
    BY <1>2, <2>1 DEF Content, front
  <2>5. Content' = Append(Content, ResultEntry(process_state', pos.frame_number))
    BY <1>0, <1>1, <2>1, <2>2, <2>3, <2>4, JoinedStreams
  <2> QED BY <1>2, <1>5, <2>1, <2>5 DEF ReadsNoMore
<1>6. CASE StartThread \/ Fence
  <2>1. /\ Filling = batch /\ UNCHANGED <<pos, process_state>> /\ async_pc' # "result"
        /\ Flush(Append(batch, ContinueEntry))
    BY <1>6 DEF StartThread, Fence, Filling, GoAsync
  <2>2. Content' = front \o Append(batch, ContinueEntry)
    BY <1>0, <1>3, <2>1
  <2>3. Content' = Append(Content, ContinueEntry)
    BY <1>0, <1>1, <2>1, <2>2, JoinedStreams
  <2> QED BY <1>2, <2>1, <2>3 DEF Unmoved
<1>7. CASE \/ AddResult \/ TopOfLoop \/ MakeRoom \/ LowWater \/ BetweenWaters \/ WaitDone
           \/ LastFlush
  <2>1. /\ UNCHANGED <<pos, process_state>> /\ async_pc' # "result"
        /\ Flush(Filling) \/ Keep(Filling)
    <3>1. CASE AddResult
      BY <3>1 DEF AddResult, Filling, GoAsync
    <3>2. CASE ~AddResult
      BY <1>7, <3>2 DEF TopOfLoop, MakeRoom, LowWater, BetweenWaters, WaitDone, LastFlush,
         Filling, GoAsync
    <3> QED BY <3>1, <3>2
  <2> QED BY <1>0, <1>1, <1>2, <1>3, <2>1 DEF Unmoved
<1>8. CASE \/ ReadPending \/ HighWater \/ NotYet \/ Block \/ Reacquire \/ SpuriousWakeup
           \/ BottomOfLoop \/ CloseQueue
  <2>1. UNCHANGED <<pos, process_state, batch, queue>>
    BY <1>8 DEF ReadPending, HighWater, NotYet, Block, Reacquire, SpuriousWakeup, WaitStep,
       BottomOfLoop, CloseQueue, Queue!Close, reader_vars, queue_vars
  <2>2. async_pc # "result" /\ async_pc' # "result"
    BY <1>8 DEF ReadPending, HighWater, NotYet, Block, Reacquire, SpuriousWakeup, WaitStep,
       BottomOfLoop, CloseQueue, GoAsync
  <2>3. Content' = Content
    BY <1>2, <2>1, <2>2 DEF Content, Filling
  <2> QED BY <1>2, <2>1, <2>3 DEF Unmoved
<1> QED BY <1>4, <1>5, <1>6, <1>7, <1>8 DEF AsyncStep

LEMMA DispatcherContent ==
  ASSUME TypeOK, LaunchStartsIt, DispatchStep \/ Advance \/ Destroy \/ UNCHANGED vars
  PROVE  /\ Unmoved /\ Content' = Content
         /\ \/ async_pc' = async_pc
            \/ async_pc = "not_started" /\ async_pc' = "start"
            \/ async_pc' = "woken"
<1>1. /\ UNCHANGED <<input, pos, process_state, batch>>
      /\ \/ async_pc' = async_pc
         \/ async_pc = "not_started" /\ async_pc' = "start"
         \/ async_pc = "waiting" /\ async_pc' = "woken"
  BY DEF LaunchStartsIt, DispatchStep, LaunchAsyncThread, Advance, PopBatch, PopEnd,
     StoreDequeued, NotifyDequeued, Destroy, DestroyNotify, Join, vars, async_vars, reader_vars,
     NotifyThrottle, GoAsync
<1>2. Filling' = Filling
  BY <1>1 DEF Filling
<1>3. CASE PopBatch
  <2> DEFINE head == Head(queue).blocks
             rest == Flattened(Tail(queue))
  <2>1. /\ queue # <<>> /\ queue' = Tail(queue) /\ delivered' = delivered \o head
    BY <1>3 DEF PopBatch, Queue!Pop
  <2>2. /\ queue \in Seq(Batch) /\ delivered \in Seq(Entries) /\ Filling \in Seq(Entries)
        /\ Tail(queue) \in Seq(Batch)
    BY <2>1, FillingType
  <2>3. Flattened(queue) = head \o rest
    BY <2>1, <2>2, FlattenedTail
  <2>4. head \in Seq(Entries) /\ rest \in Seq(Entries)
    <3>1. 1 \in 1 .. Len(queue) /\ Head(queue) = queue[1]
      BY <2>1, <2>2
    <3>2. head \in Seq(Entries)
      BY <2>2, <3>1, BatchBlocks
    <3>3. [tag |-> 0, blocks |-> <<>>] \in Batch
      BY DEF Batch
    <3>4. rest \in Seq(Entries)
      BY <2>2, <3>3, FlattenedAppend
    <3> QED BY <3>2, <3>4
  <2>5. Content' = (delivered' \o Flattened(queue')) \o Filling'
    BY DEF Content
  <2>6. Content' = ((delivered \o head) \o rest) \o Filling
    BY <1>2, <2>1, <2>5
  <2> HIDE DEF head, rest
  <2>7. (delivered \o head) \o rest = delivered \o Flattened(queue)
    BY <2>2, <2>3, <2>4, JoinedStreams
  <2> QED BY <1>1, <2>6, <2>7 DEF Content, Unmoved
<1>4. CASE ~PopBatch
  <2>1. queue' = queue /\ delivered' = delivered
    BY <1>4 DEF DispatchStep, LaunchAsyncThread, Advance, PopEnd,
       StoreDequeued, NotifyDequeued, Destroy, DestroyNotify, Join, vars, queue_vars,
       dispatch_vars, Queue!PopClosed, Queue!TryPopEmpty
  <2>2. Content' = Content
    BY <1>2, <2>1 DEF Content
  <2> QED BY <1>1, <2>2 DEF Unmoved
<1> QED BY <1>3, <1>4

-----------------------------------------------------------------------------
(* Here is what one thread has read when it is where the processing thread   *)
(* is.                                                                       *)
Here == ReadAt(input.capture, input.block_limit, pos.block_index)
BeforeResult == {"not_started", "start", "top"} \cup Reading

StreamInv ==
  /\ LaunchStartsIt
  /\ pos.block_index <= Len(input.capture.blocks)
  /\ Here.pos = pos /\ Here.stopped = FALSE
  /\ Agrees(Content, Reference)
  /\ ContinueProcessing(process_state) => Total(Content) = Len(Here.out)
  /\ async_pc \in BeforeResult => ContinueProcessing(process_state)

(* What the next block adds is what the reference has next.                  *)
NextFacts(c, k, h, g, ref) ==
  /\ Len(h.out) \in Nat /\ Len(ref) \in Nat /\ Len(h.out) + 1 <= Len(ref)
  /\ g.stopped = FALSE /\ g.pos = AfterBlock(h.pos, c.blocks[k + 1])
  /\ ref[Len(h.out) + 1] = BlockRead(h, k + 1)
  /\ ~IsFrameDelimiter(h.pos, c.blocks[k + 1]) => Len(g.out) = Len(h.out) + 1
  /\ IsFrameDelimiter(h.pos, c.blocks[k + 1]) =>
       /\ Len(g.out) = Len(h.out) + 2 /\ Len(h.out) + 2 <= Len(ref)
       /\ ref[Len(h.out) + 2] = ResultRead(c, h, k + 1)

LEMMA ReferenceNext ==
  ASSUME NEW c \in Captures, NEW limit \in Nat, NEW k \in Nat, k + 1 <= Len(c.blocks),
         NEW h, h = ReadAt(c, limit, k), NEW g, g = ReadAt(c, limit, k + 1),
         h.stopped = FALSE, ~Stops(c, limit, h.pos), NEW ref, ref = SequentialStream(c, limit)
  PROVE  NextFacts(c, k, h, g, ref)
<1>1. /\ Len(c.blocks) \in Nat /\ k \in 0 .. Len(c.blocks) /\ k + 1 \in 0 .. Len(c.blocks)
  BY DEF Captures
<1>2. h \in Reads /\ g \in Reads /\ Leads(c, limit, h, ref) /\ Leads(c, limit, g, ref)
  BY <1>1, ReferenceLeads
<1> DEFINE adds == AddsTo(c, h, k + 1)
           ends == IsFrameDelimiter(h.pos, c.blocks[k + 1])
<1>3. /\ g.stopped = FALSE /\ g.pos = AfterBlock(h.pos, c.blocks[k + 1])
      /\ g.out = h.out \o adds
      /\ ReadFacts(c, limit, h, k + 1)
  BY ReadNext
<1>4. /\ adds \in Seq(Entries) /\ adds[1] = BlockRead(h, k + 1)
      /\ ends => Len(adds) = 2 /\ adds[2] = ResultRead(c, h, k + 1)
      /\ ~ends => Len(adds) = 1
  BY <1>3 DEF ReadFacts
<1> HIDE DEF adds, ends
<1>5. /\ h.out \in Seq(Entries) /\ Len(h.out) \in Nat /\ Len(ref) \in Nat
      /\ Len(g.out) \in Nat /\ Len(g.out) < Len(ref)
      /\ \A i \in 1 .. Len(g.out) : ref[i] = g.out[i]
  BY <1>2 DEF Leads
<1>6. /\ Len(g.out) = Len(h.out) + Len(adds) /\ Len(adds) \in Nat
      /\ \A i \in 1 .. Len(adds) : g.out[Len(h.out) + i] = adds[i]
  <2>1. \A s, t \in Seq(Entries) :
          /\ Len(s \o t) = Len(s) + Len(t) /\ Len(t) \in Nat
          /\ \A i \in 1 .. Len(t) : (s \o t)[Len(s) + i] = t[i]
    OBVIOUS
  <2>2. /\ Len(h.out \o adds) = Len(h.out) + Len(adds) /\ Len(adds) \in Nat
        /\ \A i \in 1 .. Len(adds) : (h.out \o adds)[Len(h.out) + i] = adds[i]
    <3>1. h.out \in Seq(Entries) /\ adds \in Seq(Entries)
      BY <1>4, <1>5
    <3> QED BY <2>1, <3>1
  <2>3. g.out = h.out \o adds
    BY <1>3
  <2> QED BY <2>2, <2>3
<1>7. 1 \in 1 .. Len(adds) /\ Len(h.out) + 1 \in 1 .. Len(g.out) /\ Len(h.out) + 1 <= Len(ref)
  <2>1. Len(adds) = 1 \/ Len(adds) = 2
    BY <1>4
  <2>2. /\ Len(h.out) \in Nat /\ Len(g.out) \in Nat /\ Len(ref) \in Nat /\ Len(adds) \in Nat
        /\ Len(g.out) = Len(h.out) + Len(adds) /\ Len(g.out) < Len(ref)
    BY <1>5, <1>6
  <2>3. \A a, b, n, r \in Nat :
          (n = 1 \/ n = 2) /\ b = a + n /\ b < r =>
            1 \in 1 .. n /\ a + 1 \in 1 .. b /\ a + 1 <= r
    OBVIOUS
  <2> QED BY <2>1, <2>2, <2>3
<1>8. ref[Len(h.out) + 1] = BlockRead(h, k + 1)
  BY <1>4, <1>5, <1>6, <1>7
<1>9. ASSUME ends
      PROVE  /\ Len(g.out) = Len(h.out) + 2 /\ Len(h.out) + 2 <= Len(ref)
             /\ ref[Len(h.out) + 2] = ResultRead(c, h, k + 1)
  <2>1. Len(adds) = 2 /\ adds[2] = ResultRead(c, h, k + 1)
    BY <1>4, <1>9
  <2>2. Len(g.out) = Len(h.out) + 2
    BY <1>6, <2>1
  <2>3. 2 \in 1 .. Len(adds) /\ Len(h.out) + 2 \in 1 .. Len(g.out) /\ Len(h.out) + 2 <= Len(ref)
    BY <1>5, <2>1, <2>2
  <2>4. ref[Len(h.out) + 2] = g.out[Len(h.out) + 2] /\ g.out[Len(h.out) + 2] = adds[2]
    BY <1>5, <1>6, <2>3
  <2> QED BY <2>1, <2>2, <2>3, <2>4
<1>10. ASSUME ~ends PROVE Len(g.out) = Len(h.out) + 1
  <2>1. Len(adds) = 1
    BY <1>4, <1>10
  <2> QED BY <1>6, <2>1
<1> QED BY <1>3, <1>5, <1>7, <1>8, <1>9, <1>10 DEF ends, NextFacts

LEMMA PlainEntries ==
  /\ \A n, f, p : /\ Plain(BlockEntry(n, f, p)) = BlockEntry(n, f, "kAlways")
                  /\ ~IsSignal(BlockEntry(n, f, p))
  /\ \A s, f : Plain(ResultEntry(s, f)) = ResultEntry(s, f)
  /\ \A s : \A f \in Nat : ~IsSignal(ResultEntry(s, f))
  /\ IsSignal(ContinueEntry)
<1>1. \A n, f, p : IsBlock(BlockEntry(n, f, p)) /\ ~IsSignal(BlockEntry(n, f, p))
  BY DEF IsBlock, BlockEntry, IsSignal, ContinueEntry, ResultEntry
<1>2. \A n, f, p : Plain(BlockEntry(n, f, p)) = BlockEntry(n, f, "kAlways")
  BY <1>1 DEF Plain, BlockEntry
<1>3. \A s, f : ~IsBlock(ResultEntry(s, f))
  BY DEF IsBlock, ResultEntry
<1>4. \A s : \A f \in Nat : ~IsSignal(ResultEntry(s, f))
  BY DEF IsSignal, ContinueEntry, ResultEntry, NoFrame
<1> QED BY <1>1, <1>2, <1>3, <1>4 DEF Plain, IsSignal

LEMMA StreamTypes ==
  ASSUME TypeOK
  PROVE  /\ input.capture \in Captures /\ input.block_limit \in Nat
         /\ pos \in Positions /\ pos.block_index \in Nat /\ pos.frame_number \in Nat
         /\ Len(input.capture.blocks) \in Nat
         /\ Content \in Seq(Entries)
BY FillingType, InputAssumption DEF TypeOK, Positions, Captures

LEMMA InitStreamInv == Init => StreamInv
<1> SUFFICES ASSUME Init PROVE StreamInv
  OBVIOUS
<1>1. TypeOK /\ LaunchStartsIt
  BY InitIInv DEF IInv, LaunchStartsIt, Init
<1>2. /\ pos = StartOf(input.capture) /\ pos.block_index = 0
      /\ process_state = "kContinue" /\ batch = <<>> /\ queue = <<>> /\ delivered = <<>>
      /\ async_pc = "not_started"
  BY DEF Init, Queue!Init, StartOf
<1>3. Here.pos = pos /\ Here.out = <<>> /\ Here.stopped = FALSE
  BY <1>1, <1>2, StreamTypes, ReadFirst DEF Here
<1>4. Content = <<>>
  <2>1. Flattened(<<>>) = <<>>
    <3>1. <<>> \in Seq(Batch) /\ Len(<<>>) = 0
      OBVIOUS
    <3>2. PICK f : Flattens(f, <<>>) /\ Flattened(<<>>) = f[Len(<<>>)]
      BY <3>1, FlattenedSteps
    <3> QED BY <3>1, <3>2 DEF Flattens
  <2>2. Filling = <<>>
    BY <1>2 DEF Filling
  <2>3. <<>> \o <<>> = <<>>
    BY ConcatEmptySeq
  <2> QED BY <1>2, <2>1, <2>2, <2>3 DEF Content
<1>5. Total(Content) = 0 /\ Agrees(Content, Reference)
  <2>1. Len(<<>>) = 0 /\ {i \in 1 .. 0 : ~IsSignal(<<>>[i])} = {}
    OBVIOUS
  <2>2. CountIn(<<>>, 0) = 0
    BY <2>1, FS_EmptySet DEF CountIn
  <2> QED BY <1>4, <2>1, <2>2 DEF Total, Agrees
<1>6. Len(Here.out) = 0
  BY <1>3
<1> QED BY <1>1, <1>2, <1>3, <1>5, <1>6, StreamTypes DEF StreamInv, ContinueProcessing

(* Where the processing thread may be when it reads on.                      *)
LEMMA ContinuesStep ==
  ASSUME StreamInv, Next
  PROVE  async_pc' \in BeforeResult => ContinueProcessing(process_state')
<1>1. CASE AsyncStep \/ SpuriousWakeup
  <2>1. CASE StartThread \/ TopOfLoop \/ MakeRoom
    BY <2>1 DEF StartThread, TopOfLoop, MakeRoom, StreamInv, BeforeResult, Reading
  <2>2. CASE ReadBlock
    BY <2>2 DEF ReadBlock, BlockState, ContinueProcessing
  <2>3. CASE BottomOfLoop
    BY <2>3 DEF BottomOfLoop, GoAsync, reader_vars, BeforeResult, Reading
  <2>4. CASE ~(StartThread \/ TopOfLoop \/ MakeRoom \/ ReadBlock \/ BottomOfLoop)
    <3>1. async_pc' \notin BeforeResult
      BY <1>1, <2>4 DEF AsyncStep, StopReading, AddResult, Fence, ReadPending, LowWater,
         HighWater, BetweenWaters, WaitDone, NotYet, Block, Reacquire, WaitStep, LastFlush,
         CloseQueue, SpuriousWakeup, GoAsync, BeforeResult, Reading
    <3> QED BY <3>1
  <2> QED BY <2>1, <2>2, <2>3, <2>4
<1>2. CASE DispatchStep \/ Advance \/ Destroy \/ UNCHANGED vars
  <2>1. /\ process_state' = process_state
        /\ \/ async_pc' = async_pc
           \/ async_pc = "not_started" /\ async_pc' = "start"
           \/ async_pc' = "woken"
    BY <1>2 DEF StreamInv, LaunchStartsIt, DispatchStep, LaunchAsyncThread, Advance, PopBatch,
       PopEnd, StoreDequeued, NotifyDequeued, Destroy, DestroyNotify, Join, vars, async_vars,
       reader_vars, NotifyThrottle, GoAsync
  <2> QED BY <2>1 DEF StreamInv, BeforeResult, Reading
<1> QED BY <1>1, <1>2 DEF Next, Finished

LEMMA NextStreamInv == TypeOK /\ TypeOK' /\ StreamInv /\ [Next]_vars => StreamInv'
<1> SUFFICES ASSUME TypeOK, TypeOK', StreamInv, [Next]_vars PROVE StreamInv'
  OBVIOUS
<1>0. /\ input.capture \in Captures /\ input.block_limit \in Nat
      /\ pos \in Positions /\ pos.block_index \in Nat /\ pos.frame_number \in Nat
      /\ Len(input.capture.blocks) \in Nat /\ Content \in Seq(Entries)
      /\ ContinueEntry \in Entries /\ NewBlock \in Entries
  BY StreamTypes, EntryTypes, FillingType
<1>1. Next \/ UNCHANGED vars
  OBVIOUS
<1>2. LaunchStartsIt'
  <2>1. CASE Next
    BY <2>1, LaunchStep DEF StreamInv
  <2>2. CASE UNCHANGED vars
    BY <2>2 DEF StreamInv, LaunchStartsIt, vars, dispatch_vars
  <2> QED BY <1>1, <2>1, <2>2
<1>3. async_pc' \in BeforeResult => ContinueProcessing(process_state')
  <2>1. CASE Next
    BY <2>1, ContinuesStep
  <2>2. CASE UNCHANGED vars
    BY <2>2 DEF StreamInv, vars, reader_vars
  <2> QED BY <1>1, <2>1, <2>2
<1>4. \/ Unmoved /\ Content' \in {Content, Append(Content, ContinueEntry)}
      \/ ReadsBlock
      \/ ReadsNoMore
  <2>1. CASE AsyncStep \/ SpuriousWakeup
    BY <2>1, ProducerContent
  <2>2. CASE DispatchStep \/ Advance \/ Destroy \/ UNCHANGED vars
    BY <2>2, DispatcherContent DEF StreamInv
  <2> QED BY <1>1, <2>1, <2>2 DEF Next, Finished
<1>5. CASE Unmoved /\ Content' \in {Content, Append(Content, ContinueEntry)}
  <2>1. Here' = Here /\ Reference' = Reference /\ UNCHANGED <<input, pos, process_state>>
    BY <1>5 DEF Unmoved, Here, Reference
  <2>2. PICK s : s = Content'
    OBVIOUS
  <2>3. Agrees(s, Reference) /\ Total(s) = Total(Content)
    <3>1. IsSignal(ContinueEntry) /\ Agrees(Content, Reference)
      BY PlainEntries DEF StreamInv
    <3>2. /\ Agrees(Append(Content, ContinueEntry), Reference)
          /\ Total(Append(Content, ContinueEntry)) = Total(Content)
      BY <1>0, <3>1, AgreesOnAppend
    <3> QED BY <1>5, <2>2, <3>1, <3>2
  <2>4. Agrees(Content', Reference') /\ Total(Content') = Total(Content)
    BY <2>1, <2>2, <2>3
  <2> QED BY <1>2, <1>3, <2>1, <2>4 DEF StreamInv
<1>6. CASE ReadsBlock
  <2> DEFINE k == pos.block_index
             c == input.capture
             limit == input.block_limit
             kind == c.blocks[k + 1]
  <2>1. /\ ReadBlock /\ input' = input /\ k + 1 <= Len(c.blocks)
        /\ ~Stops(c, limit, pos) /\ pos' = AfterBlock(pos, kind)
        /\ async_pc \in BeforeResult /\ ContinueProcessing(process_state)
    BY <1>6, BlockIsThere DEF ReadsBlock, ReadBlock, NextKind, StreamInv, BeforeResult, Reading
  <2>2. pos'.block_index = k + 1
    BY <1>0, <2>1, AfterBlockFields
  <2>3. PICK h : h = Here
    OBVIOUS
  <2>4. PICK g : g = ReadAt(c, limit, k + 1)
    OBVIOUS
  <2>5. PICK ref : ref = Reference
    OBVIOUS
  <2>6. /\ Reference' = ref /\ Here' = g
    BY <2>1, <2>2, <2>4, <2>5 DEF Reference, Here
  <2>7. /\ h.pos = pos /\ h.stopped = FALSE /\ Agrees(Content, ref)
        /\ Total(Content) = Len(h.out)
    BY <2>1, <2>3, <2>5 DEF StreamInv
  <2>8. /\ Len(h.out) \in Nat /\ Len(ref) \in Nat /\ Len(h.out) + 1 <= Len(ref)
        /\ g.stopped = FALSE /\ g.pos = AfterBlock(h.pos, kind)
        /\ ref[Len(h.out) + 1] = BlockRead(h, k + 1)
        /\ ~IsFrameDelimiter(h.pos, kind) => Len(g.out) = Len(h.out) + 1
        /\ IsFrameDelimiter(h.pos, kind) =>
             /\ Len(g.out) = Len(h.out) + 2 /\ Len(h.out) + 2 <= Len(ref)
             /\ ref[Len(h.out) + 2] = ResultRead(c, h, k + 1)
    <3>1. h = ReadAt(c, limit, k) /\ ref = SequentialStream(c, limit) /\ ~Stops(c, limit, h.pos)
      BY <2>1, <2>3, <2>5, <2>7 DEF Here, Reference
    <3>2. NextFacts(c, k, h, g, ref)
      BY <1>0, <2>1, <2>4, <2>7, <3>1, ReferenceNext
    <3> QED BY <3>2 DEF NextFacts
  <2>9. ref[Len(h.out) + 1] = Plain(NewBlock) /\ ~IsSignal(NewBlock)
    BY <2>7, <2>8, PlainEntries DEF NewBlock, BlockRead
  <2>10. PICK s : s = Append(Content, NewBlock)
    OBVIOUS
  <2>11. s \in Seq(Entries) /\ Agrees(s, ref) /\ Total(s) = Len(h.out) + 1
    <3>1. s \in Seq(Entries)
      BY <1>0, <2>10
    <3>2. Total(s) = Total(Content) + 1
      BY <1>0, <2>9, <2>10, AgreesOnAppend
    <3>3. Total(Content) + 1 <= Len(ref) /\ Plain(NewBlock) = ref[Total(Content) + 1]
      BY <2>7, <2>8, <2>9
    <3>4. Agrees(s, ref)
      BY <1>0, <2>7, <2>9, <2>10, <3>3, AgreesOnAppend
    <3> QED BY <2>7, <3>1, <3>2, <3>4
  <2>12. PICK t : t = Content'
    OBVIOUS
  <2>13. Agrees(t, ref) /\ Total(t) = Len(g.out)
    <3>1. EndsWithBlock <=> IsFrameDelimiter(h.pos, kind)
      BY <2>7 DEF EndsWithBlock, NextKind
    <3>2. CASE ~EndsWithBlock
      <4>1. t = s
        BY <1>6, <2>10, <2>12, <3>2 DEF ReadsBlock
      <4> QED BY <2>8, <2>11, <3>1, <3>2, <4>1
    <3>3. CASE EndsWithBlock
      <4>1. PICK e : e = FrameEnd(pos'.frame_number)
        OBVIOUS
      <4>2. t = Append(s, e)
        BY <1>6, <2>10, <2>12, <3>3, <4>1 DEF ReadsBlock
      <4>3. pos'.frame_number \in Nat
        BY DEF TypeOK, Positions
      <4>4. e \in Entries /\ ~IsSignal(e) /\ Plain(e) = e
        <5>1. ResultEntry("kFrameBoundary", pos'.frame_number) \in Entries
          BY <4>3, EntryTypes DEF ProcessBlockStates
        <5> QED BY <4>1, <4>3, <5>1, PlainEntries DEF FrameEnd
      <4>5. e = ref[Len(h.out) + 2]
        BY <2>1, <2>7, <2>8, <3>1, <3>3, <4>1 DEF FrameEnd, ResultRead
      <4>6. Total(s) + 1 = Len(h.out) + 2 /\ Total(s) + 1 <= Len(ref)
        BY <2>8, <2>11, <3>1, <3>3
      <4>7. Plain(e) = ref[Total(s) + 1]
        BY <4>4, <4>5, <4>6
      <4>8. Agrees(t, ref)
        BY <2>11, <4>2, <4>4, <4>6, <4>7, AgreesOnAppend
      <4>9. Total(t) = Total(s) + 1
        BY <2>11, <4>2, <4>4, AgreesOnAppend
      <4> QED BY <2>8, <3>1, <3>3, <4>6, <4>8, <4>9
    <3> QED BY <3>2, <3>3
  <2>14. Agrees(Content', Reference') /\ Total(Content') = Len(Here'.out)
    BY <2>6, <2>12, <2>13
  <2>15. Here'.pos = pos' /\ Here'.stopped = FALSE /\ pos'.block_index <= Len(input'.capture.blocks)
    BY <2>1, <2>2, <2>6, <2>7, <2>8
  <2> QED BY <1>2, <1>3, <2>14, <2>15 DEF StreamInv
<1>7. CASE ReadsNoMore
  <2>1. /\ StopReading /\ UNCHANGED <<input, pos>>
        /\ Stops(input.capture, input.block_limit, pos)
        /\ process_state' = StopState(input.capture, input.block_limit, pos)
        /\ async_pc \in BeforeResult
    BY <1>7 DEF ReadsNoMore, StopReading, BeforeResult, Reading
  <2>2. ~ContinueProcessing(process_state') /\ process_state' \in ProcessBlockStates
    BY <2>1, StopStateType DEF Stops, ContinueProcessing
  <2>3. Here' = Here /\ Reference' = Reference
    BY <2>1 DEF Here, Reference
  <2>4. PICK h : h = Here
    OBVIOUS
  <2>5. PICK ref : ref = Reference
    OBVIOUS
  <2>6. /\ h.pos = pos /\ Agrees(Content, ref) /\ Total(Content) = Len(h.out)
    BY <2>1, <2>4, <2>5 DEF StreamInv
  <2>7. Leads(input.capture, input.block_limit, h, ref)
    <3>1. pos.block_index \in 0 .. Len(input.capture.blocks)
      BY <1>0 DEF StreamInv
    <3> QED BY <1>0, <2>4, <2>5, <3>1, ReferenceLeads DEF Here, Reference
  <2>8. PICK e : e = ResultEntry(process_state', pos.frame_number)
    OBVIOUS
  <2>9. e \in Entries /\ ~IsSignal(e) /\ Plain(e) = e
    BY <1>0, <2>2, <2>8, EntryTypes, PlainEntries
  <2>10. Total(Content) + 1 <= Len(ref) /\ Plain(e) = ref[Total(Content) + 1]
    BY <2>1, <2>6, <2>7, <2>8, <2>9 DEF Leads
  <2>11. Agrees(Append(Content, e), ref)
    BY <1>0, <2>6, <2>9, <2>10, AgreesOnAppend
  <2>12. Agrees(Content', Reference')
    BY <1>7, <2>3, <2>5, <2>8, <2>11 DEF ReadsNoMore
  <2> QED BY <1>2, <1>3, <2>1, <2>2, <2>3, <2>12 DEF StreamInv
<1> QED BY <1>4, <1>5, <1>6, <1>7

(* Whatever the threads, the flushes, the fence and the throttle do, and      *)
(* wherever the batches are cut, the entries that were handed over, those on  *)
(* the queue and those being collected are a beginning of what one thread     *)
(* reads of the capture, with the frame numbers that one thread gives them.   *)
THEOREM StreamIsSequentialCorrect == Spec => []StreamIsSequential
<1>1. IInv => TypeOK
  BY DEF IInv
<1>2. TypeOK /\ TypeOK' /\ StreamInv /\ [Next]_vars => StreamInv'
  BY NextStreamInv
<1>3. TypeOK /\ StreamInv => StreamIsSequential
  <2> SUFFICES ASSUME TypeOK, StreamInv PROVE StreamIsSequential
    OBVIOUS
  <2>1. /\ batch \in Seq(Entries) /\ delivered \o Flattened(queue) \in Seq(Entries)
        /\ ResultEntry(process_state, pos.frame_number) \in Entries
    BY FillingType, StreamTypes, EntryTypes DEF TypeOK
  <2>2. Stream = (delivered \o Flattened(queue)) \o batch
    BY DEF Stream
  <2>3. Stream \in Seq(Entries)
    BY <2>1, <2>2
  <2>4. Agrees(Stream, Reference)
    <3>1. CASE async_pc # "result"
      BY <2>2, <3>1 DEF StreamInv, Content, Filling
    <3>2. CASE async_pc = "result"
      <4>1. Content = Append(Stream, ResultEntry(process_state, pos.frame_number))
        BY <2>1, <2>2, <3>2, JoinedStreams DEF Content, Filling
      <4> QED BY <2>1, <2>3, <4>1, AgreesOnAppend DEF StreamInv
    <3> QED BY <3>1, <3>2
  <2>5. DOMAIN Stream = 1 .. Len(Stream)
    BY <2>3
  <2> QED BY <2>4, <2>5 DEF Agrees, StreamIsSequential
<1> QED BY <1>1, <1>2, <1>3, InitStreamInv, Invariance, PTL DEF Spec

(* In every replay, too.                                                      *)
THEOREM ReplayStreamIsSequential == ReplaySpec => []StreamIsSequential
BY ReplayRunsTheProcessor, StreamIsSequentialCorrect, PTL
=============================================================================
