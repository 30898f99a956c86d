------------------------------ MODULE SyncReplay ------------------------------
(***************************************************************************)
(* Replay in one thread: FileProcessor::ProcessNextFrameSync               *)
(* (framework/decode/file_processor.cpp) and PreloadNextFramesSync         *)
(* (framework/decode/preload_file_processor.cpp) over a BlockProcessor.    *)
(***************************************************************************)
EXTENDS FileProcessor, FrameScript

CONSTANT Inputs   (* what may be replayed                                     *)

ASSUME ReplayAssumption == \A input \in Inputs : IsReplay(input)

VARIABLES
  input,   (* what is replayed; never changes                                *)
  pos      (* the position of the BlockProcessor                             *)

vars == <<input, pos, client_vars>>

Init ==
  /\ input \in Inputs
  /\ pos = StartOf(input.capture)
  /\ ClientInit(input.options)

Read == ProcessBlocks(input.capture, input.block_limit, pos)
ResultOf(read) == ResultEntry(read.state, read.pos.frame_number)

(* Mutant: preloading does not look for a repeated frame number.              *)
Preload_NoStutter ==
  /\ Preloading
  /\ LET result == ResultOf(Read)
         queue == preload_queue \o Append(Read.out, result)
     IN /\ pos' = Read.pos
        /\ UNCHANGED replayed
        /\ IF MorePreload(input.options, result)
             THEN /\ preload_queue' = queue
                  /\ UNCHANGED <<app_pc, preload_at, replay_from_queue, loop_vars>>
             ELSE FinishPreload(input.capture, queue)
  /\ UNCHANGED <<input, success, dispatch_frame_number, loop_iterations>>

(* PreloadNextFramesSync reads the next frame.                                *)
Preload ==
  /\ Preloading
  /\ LET result == ResultOf(Read)
         queue == preload_queue \o Append(Read.out, result)
         stutter == IsLeadingStutter(result)
         kept == IF stutter THEN <<>> ELSE queue
     IN /\ pos' = Read.pos
        /\ IF stutter THEN ShowStutterFrame(queue) ELSE UNCHANGED replayed
        /\ IF MorePreload(input.options, result)
             THEN /\ preload_queue' = kept
                  /\ UNCHANGED <<app_pc, preload_at, replay_from_queue, loop_vars>>
             ELSE FinishPreload(input.capture, kept)
  /\ UNCHANGED <<input, success, dispatch_frame_number, loop_iterations>>

(* ProcessNextFrameSync: each block is dispatched as it is read.  What was    *)
(* preloaded is cleared first.                                                *)
ProcessNextFrame ==
  /\ app_pc = "play" /\ ~replay_from_queue
  /\ pos' = Read.pos
  /\ Show(Read.out)
  /\ HandleReplayResult(ResultOf(Read))
  /\ success' = ContinueProcessing(Read.state)
  /\ preload_queue' = <<>>
  /\ GoApp("end_frame")
  /\ UNCHANGED <<input, preload_at, replay_from_queue, loop_vars, loop_iterations>>

Client ==
  /\ \/ QuitEvent \/ NoEvent(input.options) \/ CheckLimits(input.options)
     \/ PlayFromQueue \/ EndFrame
  /\ UNCHANGED <<input, pos>>

Finished == app_pc \in {"quit", "ended"} /\ UNCHANGED vars

Next == Client \/ Preload \/ ProcessNextFrame \/ Finished

Spec == Init /\ [][Next]_vars
-----------------------------------------------------------------------------
TypeOK ==
  /\ pos \in Positions
  /\ ClientTypeOK

(* "GFXRECON_ASSERT(dispatch_frame_number_ ==                                 *)
(* block_processor_->GetProcessFrameNumber())" (file_processor.cpp:192): a    *)
(* frame that is read has the number replay says it is at, also after frames  *)
(* were preloaded, replayed and numbered twice.                               *)
NextFrameIsNextToRead ==
  app_pc = "play" /\ ~replay_from_queue => dispatch_frame_number = pos.frame_number

(* What is replayed, and when replay ends, is what FrameReplay says.          *)
Contract == INSTANCE FrameReplay WITH Played <- Played, outcome <- Outcome
ImplementsFrameReplay == Contract!Spec

=============================================================================
