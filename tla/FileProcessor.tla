---------------------------- MODULE FileProcessor ----------------------------
(***************************************************************************)
(* What replay does however the capture is read: the loop of               *)
(* Application::Run (framework/application/application.cpp), the replay of *)
(* one frame (framework/decode/file_processor.cpp) and the queue of        *)
(* preloaded blocks (framework/decode/preload_file_processor.cpp).         *)
(* SyncReplay and AsyncReplay add where the blocks come from.              *)
(*                                                                         *)
(* The queue of preloaded batches is the sequence of their entries, which  *)
(* is how PreloadBatchIterator walks it; an iterator or a bookmark is an   *)
(* index into it.  Pausing, and decoders that ask for the end of the       *)
(* replay, are left out.                                                   *)
(***************************************************************************)
EXTENDS ReplayOptions

VARIABLES
  app_pc,                 (* where Application::Run is                       *)
  success,                (* what ProcessNextFrame returned last             *)
  dispatch_frame_number,
  preload_queue, preload_at,     (* preload_block_iterator_                  *)
  replay_from_queue,
  looping,                (* loop_replay_ and FrameLoopInfo's is_looping_    *)
  loop_bookmark, loop_iterations,
  replayed                (* history: the blocks decoders were given, each   *)
                          (* with the frame number they were told            *)

preload_vars == <<preload_queue, preload_at, replay_from_queue>>
loop_vars == <<looping, loop_bookmark>>
client_vars == <<app_pc, success, dispatch_frame_number, preload_vars, loop_vars,
                 loop_iterations, replayed>>

ClientInit(o) ==
  /\ app_pc = "events"
  /\ success = FALSE
  /\ dispatch_frame_number = 0
  /\ preload_queue = <<>> /\ preload_at = 1 /\ replay_from_queue = FALSE
  /\ looping = FALSE /\ loop_bookmark = 1
  /\ loop_iterations = o.loop_count
  /\ replayed = <<>>

ClientTypeOK ==
  /\ app_pc \in {"events", "limits", "preload_loop", "preload_range", "play",
                 "end_frame", "quit", "ended", "aborted"}
  /\ success \in BOOLEAN
  /\ dispatch_frame_number \in Nat
  /\ preload_queue \in Seq(Entries)
  /\ preload_at \in Nat \ {0} /\ replay_from_queue \in BOOLEAN
  /\ looping \in BOOLEAN /\ loop_bookmark \in Nat \ {0}
  /\ loop_iterations \in Nat
  /\ replayed \in Seq([block : Nat, frame : Nat])

GoApp(label) == app_pc' = label

(* The abstract state: how the replay went.                                   *)
Outcome == IF app_pc \in {"quit", "ended"} THEN app_pc ELSE "running"

-----------------------------------------------------------------------------
(* Application::Run, from one frame to the next                              *)

(* Frame numbers of the application start with one.                           *)
FrameNumber == dispatch_frame_number + 1

Preloading == app_pc \in {"preload_loop", "preload_range"}

(* PreloadNextFrames up to ResetPreload.                                      *)
StartPreload(label) ==
  /\ preload_queue' = <<>>
  /\ GoApp(label)
  /\ UNCHANGED <<preload_at, replay_from_queue>>

(* The user asks for the end of the replay.                                   *)
QuitEvent ==
  /\ app_pc = "events"
  /\ GoApp("quit")
  /\ UNCHANGED <<success, dispatch_frame_number, preload_vars, loop_vars,
                 loop_iterations, replayed>>

NoEvent(o) ==
  /\ app_pc = "events"
  /\ IF AtLoopFrame(o, FrameNumber) /\ ~looping
       THEN StartPreload("preload_loop")
       ELSE GoApp("limits") /\ UNCHANGED preload_vars
  /\ UNCHANGED <<success, dispatch_frame_number, loop_vars, loop_iterations, replayed>>

CheckLimits(o) ==
  /\ app_pc = "limits"
  /\ IF ~ShouldQuit(o, FrameNumber) /\ ShouldPreloadFrames(o, FrameNumber) > 0
       THEN StartPreload("preload_range")
       ELSE /\ GoApp(IF ShouldQuit(o, FrameNumber) THEN "ended" ELSE "play")
            /\ UNCHANGED preload_vars
  /\ UNCHANGED <<success, dispatch_frame_number, loop_vars, loop_iterations, replayed>>

(* Mutant: the iterations are not tested.                                    *)
EndFrame_NoZeroTest ==
  /\ app_pc = "end_frame"
  /\ loop_iterations' = IF looping THEN loop_iterations - 1 ELSE loop_iterations
  /\ GoApp(IF ~success THEN "ended" ELSE "events")
  /\ UNCHANGED <<success, dispatch_frame_number, preload_vars, loop_vars, replayed>>

(* What follows PlaySingleFrame.                                              *)
EndFrame ==
  /\ app_pc = "end_frame"
  /\ loop_iterations' = IF looping THEN loop_iterations - 1 ELSE loop_iterations
  /\ GoApp(IF ~success \/ loop_iterations' = 0 THEN "ended" ELSE "events")
  /\ UNCHANGED <<success, dispatch_frame_number, preload_vars, loop_vars, replayed>>

-----------------------------------------------------------------------------
(* The replay of entries                                                     *)

(* DispatchVisitor goes on until a result that is not kContinue.              *)
IsTerminator(entry) == IsResult(entry) /\ entry.state # "kContinue"

(* How many entries ReplayOneFrame takes: up to the first such result, or all.*)
EntriesOfFrame(entries) ==
  CHOOSE n \in 0 .. Len(entries) :
    /\ \A i \in 1 .. n - 1 : ~IsTerminator(entries[i])
    /\ n = Len(entries) \/ (n > 0 /\ IsTerminator(entries[n]))

HasTerminator(entries) == \E i \in DOMAIN entries : IsTerminator(entries[i])

(* What decoders see of these entries: the blocks, each under the number they *)
(* were told ahead of the frame.                                              *)
Shown(entries, frame) ==
  LET f[n \in 0 .. Len(entries)] ==
        IF n = 0 THEN <<>>
        ELSE IF IsResult(entries[n]) THEN f[n - 1]
        ELSE Append(f[n - 1], [block |-> entries[n].block, frame |-> frame])
  IN f[Len(entries)]

Show(entries) == replayed' = replayed \o Shown(entries, dispatch_frame_number)

(* Mutant: frames are counted instead of taking the number of the result.     *)
HandleReplayResult_Counts(result) ==
  dispatch_frame_number' =
    IF ContinueProcessing(result.state) THEN dispatch_frame_number + 1
                                        ELSE dispatch_frame_number

(* The number of the next frame comes with the result of this one.            *)
HandleReplayResult(result) ==
  dispatch_frame_number' =
    IF result.next_frame = NoFrame THEN dispatch_frame_number ELSE result.next_frame

-----------------------------------------------------------------------------
(* The preload queue                                                         *)

(* The frames to preload, ending before this one.                             *)
PreloadLimit(o) ==
  dispatch_frame_number
    + (IF app_pc = "preload_loop" THEN 1 ELSE ShouldPreloadFrames(o, FrameNumber))

(* A result that repeats the number of the first preloaded frame: what was    *)
(* preloaded belongs to the frame before, and is replayed at once             *)
(* (ReplayAndClearStutterFrame).                                              *)
IsLeadingStutter(result) ==
  result.state = "kFrameBoundary" /\ result.next_frame = dispatch_frame_number

MorePreload(o, result) ==
  result.state = "kFrameBoundary" /\ result.next_frame < PreloadLimit(o)

ShowStutterFrame(queue) == Show(SubSeq(queue, 1, EntriesOfFrame(queue)))

(* SkipStateBlocks: the bookmark is behind the first state end marker.        *)
SkipStateBlocks(capture, queue) ==
  LET markers == {i \in DOMAIN queue :
                    ~IsResult(queue[i]) /\ capture.blocks[queue[i].block] = "state_end"}
  IN IF markers = {} THEN 1
     ELSE 1 + (CHOOSE i \in markers : \A j \in markers : i <= j)

(* The end of PreloadNextFrames and, for a loop frame, of PreloadLoopFrame.   *)
FinishPreload(capture, queue) ==
  /\ preload_queue' = queue
  /\ IF queue # <<>>
       THEN replay_from_queue' = TRUE /\ preload_at' = 1
       ELSE UNCHANGED <<replay_from_queue, preload_at>>
  /\ IF app_pc = "preload_loop"
       THEN /\ looping' = TRUE
            /\ loop_bookmark' = SkipStateBlocks(capture, queue)
            /\ GoApp("limits")
       ELSE UNCHANGED loop_vars /\ GoApp("play")

(* ProcessNextFrame of a preloaded frame.  What is preloaded ends with a      *)
(* result; a loop goes back to its bookmark whatever it is, short of an error.*)
PlayFromQueue ==
  /\ app_pc = "play" /\ replay_from_queue
  /\ LET rest == SubSeq(preload_queue, preload_at, Len(preload_queue))
         n == EntriesOfFrame(rest)
     IN IF HasTerminator(rest)
          THEN /\ Show(SubSeq(rest, 1, n))
               /\ HandleReplayResult(rest[n])
               /\ IF looping
                    THEN /\ preload_at' = loop_bookmark
                         /\ success' = (rest[n].state # "kError")
                         /\ UNCHANGED replay_from_queue
                    ELSE /\ preload_at' = preload_at + n
                         /\ success' = ContinueProcessing(rest[n].state)
                         /\ replay_from_queue' = (preload_at + n <= Len(preload_queue))
               /\ GoApp("end_frame")
          ELSE /\ GoApp("aborted")
               /\ UNCHANGED <<success, dispatch_frame_number, preload_at,
                              replay_from_queue, replayed>>
  /\ UNCHANGED <<preload_queue, loop_vars, loop_iterations>>
=============================================================================
