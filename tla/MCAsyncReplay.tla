---------------------------- MODULE MCAsyncReplay ----------------------------
(* AsyncReplay for TLC: a few captures that show each way frames are cut,    *)
(* preloaded, repeated and ended.                                            *)
EXTENDS AsyncReplay

NoLimits == [block_limit |-> 0, range_begin |-> 1, range_end |-> 2,
             preload |-> FALSE, quit_after_range |-> FALSE, quit_after_frame |-> 0,
             loop_frame |-> 0, loop_count |-> 1]

Replay(markers, blocks, limits) ==
  FrameProcessingParams(
    [capture |-> [markers |-> markers, blocks |-> blocks],
     block_limit |-> limits.block_limit,
     range_begin |-> limits.range_begin, range_end |-> limits.range_end,
     preload |-> limits.preload, quit_after_range |-> limits.quit_after_range,
     quit_after_frame |-> limits.quit_after_frame,
     loop_frame |-> limits.loop_frame, loop_count |-> limits.loop_count])

Range(begin, end, quit) ==
  [NoLimits EXCEPT !.preload = TRUE, !.range_begin = begin, !.range_end = end,
                   !.quit_after_range = quit]

Stutter == <<"call", "present", "marker", "present", "marker">>
Trimmed == <<"call", "state_end", "call", "marker", "call">>

(* Options under which the producer stops ahead of what replay asks for.     *)
MCQuitInsideRange ==
  { Replay(FALSE, <<"present", "present", "present", "present">>,
           [Range(2, 4, FALSE) EXCEPT !.quit_after_frame = 2]) }
MCLoopFrame ==
  { Replay(TRUE, <<"marker", "call", "marker">>,
           [NoLimits EXCEPT !.loop_frame = 2, !.loop_count = 2]) }

MCInputs ==
  {Replay(FALSE, blocks, limits) :
     blocks \in {Stutter, <<"present", "present", "present", "present">>,
                 <<"annotation", "present", "marker", "marker", "damaged">>},
     limits \in {Range(1, 2, FALSE), Range(1, 3, TRUE), Range(2, 3, FALSE),
                 [Range(2, 4, FALSE) EXCEPT !.block_limit = 3],
                 [NoLimits EXCEPT !.quit_after_frame = 2]}}
  \cup {Replay(TRUE, Trimmed, [NoLimits EXCEPT !.loop_frame = 1, !.loop_count = n]) : n \in 1 .. 2}
  \cup MCQuitInsideRange \cup MCLoopFrame

=============================================================================
