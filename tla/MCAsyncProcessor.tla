-------------------------- MODULE MCAsyncProcessor --------------------------
(* AsyncProcessor for TLC: small captures and small throttle boundaries.     *)
EXTENDS AsyncProcessor

Max == 99   (* kMaxFrame: no frame of a small capture has this number        *)

Input(markers, blocks, begin, end, quit) ==
  [capture |-> [markers |-> markers, blocks |-> blocks], block_limit |-> 0,
   preload_begin |-> begin, preload_end |-> end, quit_before_frame |-> quit]

(* Many small frames: the throttle goes through all its branches.            *)
Presents(n) == [i \in 1 .. n |-> "present"]

MCThrottleInputs == {Input(FALSE, Presents(6), 0, 0, Max)}

(* A capture of a version without markers that has some: the frame number    *)
(* stutters after the first present.                                         *)
Stutter == <<"call", "present", "marker", "call", "present", "marker", "present", "marker">>

(* Frames that are preloaded, with and without a stutter, a quit frame, a    *)
(* block limit, and each way a capture can end.                              *)
MCPreloadInputs ==
  { Input(FALSE, Stutter, 1, 2, Max),
    Input(FALSE, Stutter, 0, 2, 2),
    Input(TRUE, <<"call", "marker", "present", "marker", "damaged">>, 1, 3, Max),
    Input(FALSE, <<"annotation", "present", "marker", "present", "marker">>, 1, 2, 2),
    [Input(FALSE, <<"call", "present", "call", "call">>, 0, 1, Max)
       EXCEPT !.block_limit = 2] }

MCInputs == MCThrottleInputs \cup MCPreloadInputs
=============================================================================
