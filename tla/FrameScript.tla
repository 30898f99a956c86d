----------------------------- MODULE FrameScript -----------------------------
(***************************************************************************)
(* What decoders are to be shown of a capture under the limits of a        *)
(* replay, frame by frame, whichever thread reads it and whatever is       *)
(* preloaded: the blocks of the capture once, in order, each under the     *)
(* number of its frame, until a limit is reached; a loop frame is repeated *)
(* without the blocks that set up the state of a trimmed capture.          *)
(***************************************************************************)
EXTENDS ReplayOptions

(* A frame that is read from a position: its number, its blocks, its result   *)
(* and the position behind it.                                                *)
FrameAt(replay, p) ==
  LET read == ProcessBlocks(replay.capture, replay.block_limit, p)
  IN [number |-> p.frame_number,
      blocks |-> [i \in DOMAIN read.out |-> read.out[i].block],
      result |-> ResultEntry(read.state, read.pos.frame_number),
      next |-> read.pos]

(* The frames of the capture, from the first; it has no more than blocks, and *)
(* one that ends with the file.                                               *)
CaptureFrames(replay) ==
  LET f[k \in 0 .. Len(replay.capture.blocks)] ==
        FrameAt(replay, IF k = 0 THEN StartOf(replay.capture) ELSE f[k - 1].next)
  IN f

(* Of two frames with one number, where the number stutters, the later one is *)
(* the loop frame.                                                            *)
IsLoopFrame(o, frame) ==
  /\ AtLoopFrame(o, frame.number + 1)
  /\ frame.result # ResultEntry("kFrameBoundary", frame.number)

BeyondLimits(o, frame) == ShouldQuit(o, frame.result.next_frame + 1)

(* Replay goes no further than this frame.                                    *)
IsLast(o, frame) ==
  \/ frame.result.state # "kFrameBoundary"
  \/ IsLoopFrame(o, frame)
  \/ BeyondLimits(o, frame)

LastFrame(replay) ==
  CHOOSE k \in DOMAIN CaptureFrames(replay) :
    /\ IsLast(replay.options, CaptureFrames(replay)[k])
    /\ \A j \in 0 .. k - 1 : ~IsLast(replay.options, CaptureFrames(replay)[j])

Repetitions(o, frame) ==
  IF IsLoopFrame(o, frame) /\ ~BeyondLimits(o, frame) /\ frame.result.state # "kError"
    THEN o.loop_count - 1 ELSE 0

(* Repetitions leave out what comes before the first state end marker.        *)
WithoutStateBlocks(capture, blocks) ==
  LET after == {n \in 1 .. Len(blocks) + 1 :
                  /\ n > 1
                  /\ capture.blocks[blocks[n - 1]] = "state_end"
                  /\ \A m \in 1 .. n - 2 : capture.blocks[blocks[m]] # "state_end"}
  IN IF after = {} THEN blocks
     ELSE SubSeq(blocks, CHOOSE n \in after : TRUE, Len(blocks))

Told(blocks, number) == [i \in DOMAIN blocks |-> [block |-> blocks[i], frame |-> number]]

(* What the decoders are given, frame by frame, unless the user quits.  When  *)
(* the loop frame is repeated they are told the number of the frame behind it.*)
Script(replay) ==
  LET frames == CaptureFrames(replay)
      last == LastFrame(replay)
      final == frames[last]
      Repeated == WithoutStateBlocks(replay.capture, final.blocks)
  IN [k \in 1 .. last + 1 + Repetitions(replay.options, final) |->
        IF k <= last + 1
          THEN Told(frames[k - 1].blocks, frames[k - 1].number)
          ELSE Told(Repeated, final.result.next_frame)]

(* The script up to its k-th frame.                                           *)
Played(replay) ==
  LET script == Script(replay)
      f[k \in 0 .. Len(script)] == IF k = 0 THEN <<>> ELSE f[k - 1] \o script[k]
  IN f
=============================================================================
