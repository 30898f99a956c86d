----------------------------- MODULE AsyncReplay -----------------------------
(***************************************************************************)
(* Replay in two threads: the replay application of FileProcessor as the   *)
(* dispatching thread of AsyncProcessor.  FileProcessor::                  *)
(* ProcessNextFrameAsync (framework/decode/file_processor.cpp) and         *)
(* PreloadNextFramesAsync (framework/decode/preload_file_processor.cpp)    *)
(* walk the batches of the queue through one block iterator.               *)
(*                                                                         *)
(* A step of the application takes what it needs from the current batch;   *)
(* where the iterator leaves the batch it advances, and the application    *)
(* goes on when AsyncProcessor has got the next one.                       *)
(***************************************************************************)
EXTENDS AsyncProcessor, FileProcessor, FrameScript

ASSUME ReplayAssumption == \A i \in Inputs : IsReplay(i)

(* kMaxFrame is UINT32_MAX; blocks are counted in 64 bits, but no capture ends *)
(* that many frames.                                                          *)
ASSUME MaxFrameAssumption ==
  /\ kMaxFrame \in Nat
  /\ \A i \in Inputs : Len(i.capture.blocks) + 1 < kMaxFrame

VARIABLE cursor   (* async_block_iterator_: its place in the current batch    *)

processor_vars == vars
replay_vars == <<processor_vars, client_vars, cursor>>

ReplayInit ==
  /\ Init
  /\ ClientInit(input.options)
  /\ cursor = 1

CurrentBatch == got[Dispatcher]
AtEndOfQueue == CurrentBatch = NoBatch

(* The iterator leaves the batch, or stays in it.                             *)
NextBatch == Advance /\ cursor' = 1
StayAt(place) == cursor' = place /\ UNCHANGED processor_vars

Idle == dispatch_pc = "idle"

-----------------------------------------------------------------------------
(* PreloadNextFramesAsync takes a batch.  Only a result at its tail tells how *)
(* far the producer is.                                                       *)
PreloadBatch ==
  /\ Preloading /\ Idle
  /\ ~AtEndOfQueue
  /\ LET taken == preload_queue \o CurrentBatch.blocks
         tail == taken[Len(taken)]
         stutter == IsTerminator(tail) /\ IsLeadingStutter(tail)
         kept == IF stutter THEN <<>> ELSE taken
     IN /\ IF stutter THEN ShowStutterFrame(taken) ELSE UNCHANGED replayed
        /\ IF IsTerminator(tail) => MorePreload(input.options, tail)
             THEN /\ preload_queue' = kept
                  /\ NextBatch
                  /\ UNCHANGED <<app_pc, preload_at, replay_from_queue, loop_vars>>
             ELSE /\ FinishPreload(input.capture, kept)
                  /\ StayAt(cursor)
  /\ UNCHANGED <<success, dispatch_frame_number, loop_iterations>>

(* The null batch: an assertion in debug builds; others go on with what there *)
(* is.                                                                        *)
PreloadEnd ==
  /\ Preloading /\ Idle
  /\ AtEndOfQueue
  /\ FinishPreload(input.capture, preload_queue)
  /\ StayAt(cursor)
  /\ UNCHANGED <<success, dispatch_frame_number, loop_iterations, replayed>>

(* Mutant: the iterator stays in the last preloaded batch.                    *)
ClearPreloaded_NoNextBatch ==
  /\ app_pc = "play" /\ ~replay_from_queue /\ Idle
  /\ preload_queue # <<>>
  /\ preload_queue' = <<>>
  /\ StayAt(cursor)
  /\ UNCHANGED <<app_pc, success, dispatch_frame_number, preload_at, replay_from_queue,
                 loop_vars, loop_iterations, replayed>>

(* The first frame that is not preloaded: what was preloaded is cleared, and  *)
(* the iterator moves to the batch behind it, which the producer waits for.   *)
ClearPreloaded ==
  /\ app_pc = "play" /\ ~replay_from_queue /\ Idle
  /\ preload_queue # <<>>
  /\ preload_queue' = <<>>
  /\ NextBatch
  /\ UNCHANGED <<app_pc, success, dispatch_frame_number, preload_at, replay_from_queue,
                 loop_vars, loop_iterations, replayed>>

(* ReplayOneFrame over the batches of the queue: up to the result of the      *)
(* frame, or to the end of the batch.                                         *)
PlayBatch ==
  /\ app_pc = "play" /\ ~replay_from_queue /\ Idle
  /\ preload_queue = <<>>
  /\ ~AtEndOfQueue
  /\ LET blocks == CurrentBatch.blocks
         rest == SubSeq(blocks, cursor, Len(blocks))
         n == EntriesOfFrame(rest)
     IN /\ Show(SubSeq(rest, 1, n))
        /\ IF HasTerminator(rest)
             THEN /\ HandleReplayResult(rest[n])
                  /\ success' = ContinueProcessing(rest[n].state)
                  /\ GoApp("end_frame")
             ELSE UNCHANGED <<dispatch_frame_number, success, app_pc>>
        /\ IF n < Len(rest) THEN StayAt(cursor + n) ELSE NextBatch
  /\ UNCHANGED <<preload_vars, loop_vars, loop_iterations>>

(* The queue ends within a frame: LOG_FATAL ends the program.                 *)
PlayPastTheEnd ==
  /\ app_pc = "play" /\ ~replay_from_queue /\ Idle
  /\ preload_queue = <<>>
  /\ AtEndOfQueue
  /\ GoApp("aborted")
  /\ StayAt(cursor)
  /\ UNCHANGED <<success, dispatch_frame_number, preload_vars, loop_vars,
                 loop_iterations, replayed>>

(* The steps of the application that do not touch the queue.                  *)
Client ==
  /\ Idle
  /\ \/ NoEvent(input.options) \/ CheckLimits(input.options) \/ PlayFromQueue \/ EndFrame
  /\ StayAt(cursor)

UserQuits == Idle /\ QuitEvent /\ StayAt(cursor)

ReplayStep ==
  \/ Client \/ PreloadBatch \/ PreloadEnd
  \/ ClearPreloaded \/ PlayBatch \/ PlayPastTheEnd

(* The file processor is destroyed when the application is done.              *)
DestroyProcessor ==
  /\ app_pc \in {"quit", "ended"}
  /\ Destroy
  /\ UNCHANGED <<client_vars, cursor>>

InProcessor(step) == step /\ UNCHANGED <<client_vars, cursor>>

Terminated == (dispatch_pc = "joined" \/ app_pc = "aborted") /\ UNCHANGED replay_vars

ReplayNext ==
  \/ InProcessor(AsyncStep) \/ InProcessor(SpuriousWakeup) \/ InProcessor(DispatchStep)
  \/ ReplayStep \/ UserQuits \/ DestroyProcessor
  \/ Terminated

ReplaySpec == ReplayInit /\ [][ReplayNext]_replay_vars

(* As in AsyncProcessor; the application goes on whenever it can.             *)
FairReplaySpec ==
  /\ ReplaySpec
  /\ WF_replay_vars(InProcessor(AsyncStep))
  /\ WF_replay_vars(InProcessor(DispatchStep))
  /\ SF_replay_vars(InProcessor(NotifyDequeued))
  /\ WF_replay_vars(ReplayStep \/ DestroyProcessor)

-----------------------------------------------------------------------------
(* "Should never encounter end of queue without a terminating                 *)
(* ProcessBlocksResult ahead of it." (file_processor.cpp:304): replay never   *)
(* asks for a frame the producer has not read, because of its own limits.     *)
NeverPastTheEnd == app_pc # "aborted"

(* The same of preloading (preload_file_processor.cpp:231).                   *)
PreloadNeverPastTheEnd == Preloading /\ Idle => ~AtEndOfQueue

(* Both, of the replays for which the limit the producer is given at the      *)
(* start (InitializeFrameProcessing) goes as far as what is preloaded and     *)
(* looped: then it and the application agree on every end of a capture.       *)
NeverPastTheEndWithinLimits ==
  LimitsAgree(input.options) => NeverPastTheEnd /\ PreloadNeverPastTheEnd

(* While preloaded frames are replayed, and measured, "the async thread ...   *)
(* was blocked during preload replay" (preload_file_processor.cpp:306-308):   *)
(* the producer neither reads nor parses.                                     *)
NoReadingWhileMeasured ==
  replay_from_queue => async_pc \notin {"top", "read", "read_into_new_batch", "result"}

(* What is replayed from memory are frames of the range that was asked for:   *)
(* preloading does not run on into the frames behind it, whatever batches     *)
(* they come in (PreloadNextFramesAsync).                                     *)
PreloadedFramesAreTheRange ==
  replay_from_queue =>
    \A i \in DOMAIN preload_queue :
      ~IsResult(preload_queue[i]) =>
        looping \/ (input.preload_begin <= preload_queue[i].frame
                      /\ preload_queue[i].frame < input.preload_end)

(* What is replayed, and when replay ends, is what FrameReplay says, as       *)
(* though one thread had read the capture.                                    *)
Contract == INSTANCE FrameReplay WITH Played <- Played, outcome <- Outcome
ImplementsFrameReplay == Contract!Spec

(* Replay ends, or is ended: with its limits, its loops, the end of the       *)
(* capture or an error.                                                       *)
ReplayEnds == <>(app_pc \in {"quit", "ended", "aborted"})
=============================================================================
