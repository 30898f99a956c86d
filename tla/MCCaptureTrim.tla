---------------------------- MODULE MCCaptureTrim ----------------------------
(* CaptureTrim for TLC: one thread that presents and submits, one that calls. *)
EXTENDS CaptureTrim, TLC

CONSTANTS presenter, caller

Settings(boundary, ranges) ==
  [boundary |-> boundary, ranges |-> ranges, trim_key_frames |-> 0, trigger_active |-> FALSE,
   force_command_serialization |-> FALSE, quit_after_frame_ranges |-> TRUE,
   files_can_fail |-> FALSE]
R(first, last) == [first |-> first, last |-> last]

Triggered(frames, active) ==
  [Settings("frames", <<>>) EXCEPT !.trim_key_frames = frames, !.trigger_active = active]

MCInputs ==
  {Settings("frames", <<R(1, 1)>>), Settings("frames", <<R(1, 1), R(3, 3)>>),
   Settings("frames", <<R(2, 2), R(3, 4)>>),
   Settings("submits", <<R(0, 0), R(2, 2)>>),
   [Settings("submits", <<R(1, 2)>>) EXCEPT !.quit_after_frame_ranges = FALSE],
   [Settings("frames", <<R(2, 2), R(3, 3)>>) EXCEPT !.force_command_serialization = TRUE],
   [Settings("frames", <<R(2, 2), R(3, 3)>>) EXCEPT !.files_can_fail = TRUE],
   Triggered(1, TRUE), Triggered(0, FALSE),
   [Triggered(2, FALSE) EXCEPT !.boundary = "submits"]}

MCThreads == {presenter, caller}
MCCallLimit == [t \in MCThreads |-> IF t = presenter THEN 4 ELSE 2]
=============================================================================
