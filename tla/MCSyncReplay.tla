---------------------------- MODULE MCSyncReplay ----------------------------
(* SyncReplay for TLC: all small captures, and some longer ones, under all   *)
(* small options.                                                            *)
EXTENDS SyncReplay

CONSTANT MaxBlocks   (* the length of the captures that are all tried         *)

(* No limit.                                                                 *)
NoLimits == [block_limit |-> 0, range_begin |-> 1, range_end |-> 2,
             preload |-> FALSE, quit_after_range |-> FALSE, quit_after_frame |-> 0,
             loop_frame |-> 0, loop_count |-> 1]

MCLimits ==
  {NoLimits}
  \cup {[NoLimits EXCEPT !.quit_after_frame = f] : f \in 1 .. 2}
  \cup {[NoLimits EXCEPT !.block_limit = 2, !.loop_frame = l, !.loop_count = 2] : l \in 0 .. 2}
  \cup {[NoLimits EXCEPT !.preload = TRUE, !.range_begin = b, !.range_end = b + n,
                         !.quit_after_range = q] : b, n \in 1 .. 2, q \in BOOLEAN}
  \cup {[NoLimits EXCEPT !.loop_frame = l, !.loop_count = c, !.quit_after_frame = q]
          : l, c \in 1 .. 2, q \in {0, 2, 3}}

(* A capture whose header does not tell of its markers may only surprise with *)
(* the first of them within its first two frames, as the code assumes; the    *)
(* others lose blocks when their second frame is preloaded.                   *)
Delimits(capture, n) == capture.blocks[n] \in {"present", "marker"}
FirstMarkerIsEarly(capture) ==
  \A n \in DOMAIN capture.blocks :
    capture.blocks[n] = "marker" =>
      \/ capture.markers
      \/ \E m \in 1 .. n - 1 : capture.blocks[m] \in {"marker", "annotation"}
      \/ \A i, j \in 1 .. n - 1 : Delimits(capture, i) /\ Delimits(capture, j) => i = j

MCCaptures ==
  LET short(n) == [markers : BOOLEAN, blocks : [1 .. n -> Kinds]]
      blocks == <<"state_end", "present", "call", "marker", "state_end", "marker", "call">>
  IN {c \in UNION {short(n) : n \in 0 .. MaxBlocks} : FirstMarkerIsEarly(c)}
       \cup {[markers |-> m, blocks |-> blocks] : m \in BOOLEAN}

Replay(capture, limits) ==
  FrameProcessingParams(
    [capture |-> capture, block_limit |-> limits.block_limit,
     range_begin |-> limits.range_begin, range_end |-> limits.range_end,
     preload |-> limits.preload, quit_after_range |-> limits.quit_after_range,
     quit_after_frame |-> limits.quit_after_frame,
     loop_frame |-> limits.loop_frame, loop_count |-> limits.loop_count])

MCInputs == {Replay(c, l) : c \in MCCaptures, l \in MCLimits}

=============================================================================
