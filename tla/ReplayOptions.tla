---------------------------- MODULE ReplayOptions ----------------------------
(***************************************************************************)
(* How the limits a user asks of a replay (framework/graphics/fps_info.cpp *)
(* and frame_loop_info.h), which number frames from one, become the frame  *)
(* processing parameters of the file processor, which number them from     *)
(* zero (framework/application/application.cpp, SetFpsInfo and             *)
(* SetFrameLoopInfo).                                                      *)
(*                                                                         *)
(* The options of a replay are a record of                                 *)
(*   capture, block_limit           what is replayed, and --block-limit    *)
(*   range_begin, range_end         --measurement-frame-range, end         *)
(*                                  exclusive                              *)
(*   preload, quit_after_range      whether the range is preloaded, and    *)
(*                                  ends the replay                        *)
(*   quit_after_frame               --quit-after-frame, 0 for none         *)
(*   loop_frame, loop_count         --loop-frame, 0 for none, --loop-count *)
(***************************************************************************)
EXTENDS BlockStream

CONSTANT kMaxFrame   (* no upper bound; larger than any number of frames      *)

Options ==
  [capture : Captures, block_limit : Nat,
   range_begin : Nat \ {0}, range_end : Nat \ {0, 1},
   preload : BOOLEAN, quit_after_range : BOOLEAN, quit_after_frame : Nat,
   loop_frame : Nat, loop_count : Nat \ {0}]

(* DecrementFrame: zero and kMaxFrame are kept.                               *)
DecrementFrame(frame) == IF frame \in {0, kMaxFrame} THEN frame ELSE frame - 1

(* Mutant: both ends are taken one frame early.                               *)
GetQuitBeforeFrame_OneEarly(o) ==
  LET limits == {kMaxFrame}
                  \cup (IF o.quit_after_range THEN {o.range_end - 1} ELSE {})
                  \cup (IF o.quit_after_frame # 0 THEN {o.quit_after_frame} ELSE {})
  IN CHOOSE f \in limits : \A g \in limits : f <= g

(* FpsInfo::GetQuitBeforeFrame, exclusive.                                    *)
GetQuitBeforeFrame(o) ==
  LET limits == {kMaxFrame}
                  \cup (IF o.quit_after_range THEN {o.range_end} ELSE {})
                  \cup (IF o.quit_after_frame # 0 THEN {o.quit_after_frame + 1} ELSE {})
  IN CHOOSE f \in limits : \A g \in limits : f <= g

(* What is replayed: the parameters as SetFrameLoopInfo and SetFpsInfo leave   *)
(* them (the loop frame takes priority), with the options they come from.     *)
FrameProcessingParams(o) ==
  [capture |-> o.capture,
   block_limit |-> o.block_limit,
   preload_begin |-> IF o.preload THEN DecrementFrame(o.range_begin) ELSE 0,
   preload_end |-> IF o.preload THEN DecrementFrame(o.range_end) ELSE 0,
   quit_before_frame |->
     DecrementFrame(IF o.loop_frame # 0 THEN o.loop_frame ELSE GetQuitBeforeFrame(o)),
   options |-> o]

(* FpsInfo::ShouldQuit and ShouldPreloadFrames, and FrameLoopInfo::AtLoopFrame,*)
(* of a frame numbered from one.                                              *)
ShouldQuit(o, frame) ==
  \/ o.quit_after_range /\ frame >= o.range_end
  \/ o.quit_after_frame # 0 /\ frame > o.quit_after_frame

ShouldPreloadFrames(o, frame) ==
  IF o.preload /\ frame = o.range_begin THEN o.range_end - o.range_begin ELSE 0

AtLoopFrame(o, frame) == o.loop_frame # 0 /\ frame = o.loop_frame

(* The reader's limit leaves room for all that is preloaded or looped.  The    *)
(* command line does not ask for that.                                        *)
LimitsAgree(o) ==
  /\ o.loop_frame <= 1
  /\ o.preload /\ o.quit_after_frame # 0 => o.range_end <= o.quit_after_frame + 1

(* What the command line rejects; that loop frames "should not be used with   *)
(* preload" (application.cpp:192), and that they come before the quit frame.  *)
ValidOptions(o) ==
  /\ o \in Options
  /\ o.range_begin < o.range_end
  /\ o.loop_frame # 0 => ~o.preload /\ ~ShouldQuit(o, o.loop_frame)

(* A replay of valid options.                                                 *)
IsReplay(input) ==
  ValidOptions(input.options) /\ input = FrameProcessingParams(input.options)
=============================================================================
