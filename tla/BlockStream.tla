----------------------------- MODULE BlockStream -----------------------------
(***************************************************************************)
(* How BlockProcessor cuts a capture file into frames                      *)
(* (framework/decode/block_processor.cpp), and what the processing side of *)
(* a file puts out: blocks, and one result after the last block of every   *)
(* ProcessBlocks call.                                                     *)
(*                                                                         *)
(* A capture is [markers, blocks]: whether its header says that it has     *)
(* explicit frame markers, and the kinds of its blocks.  The kinds are the *)
(* ones the cutting tells apart:                                           *)
(*   "call"        any block that ends no frame                            *)
(*   "present"     a call that ends a frame of a capture without markers   *)
(*   "marker"      an explicit end-of-frame marker                         *)
(*   "annotation"  the operation annotation of a capture tool that writes  *)
(*                 markers; it comes before the first frame ends           *)
(*   "state_end"   the marker behind the state blocks of a trimmed capture *)
(*   "damaged"     a block that cannot be read                             *)
(***************************************************************************)
EXTENDS Integers, Sequences

Kinds == {"call", "present", "marker", "annotation", "state_end", "damaged"}
Captures == [markers : BOOLEAN, blocks : Seq(Kinds)]

(* ProcessBlockState *)
ProcessBlockStates ==
  {"kFrameBoundary", "kContinue", "kEndProcessing", "kError", "kEndOfFile"}

(* ContinueProcessing: the states below kContinue are terminal.               *)
ContinueProcessing(state) == state \in {"kFrameBoundary", "kContinue"}

-----------------------------------------------------------------------------
(* The processing position of BlockProcessor: block_index_, frame_number_ and *)
(* capture_uses_frame_markers_.                                               *)
Positions == [block_index : Nat, frame_number : Nat, uses_markers : BOOLEAN]

StartOf(capture) ==
  [block_index |-> 0, frame_number |-> 0, uses_markers |-> capture.markers]

(* The kind of the block that is read next.                                   *)
NextKind(capture, pos) == capture.blocks[pos.block_index + 1]

(* IsFrameDelimiter: a marker always ends a frame, a present only as long as  *)
(* the capture is not known to have markers.                                  *)
IsFrameDelimiter(pos, kind) ==
  kind = "marker" \/ (kind = "present" /\ ~pos.uses_markers)

(* The first marker of a capture that was not known to have any.              *)
FirstMarker(pos, kind) == kind = "marker" /\ ~pos.uses_markers

(* ProcessVisitor and the end of ProcessBlock: what one block does to the     *)
(* position.  (A first marker is left pending for the end of its frame, which *)
(* is the end of this block: see UpdateEndFrameState.)                        *)
Visit(pos, kind) ==
  [pos EXCEPT !.block_index = @ + 1,
              !.uses_markers = @ \/ kind = "annotation"]

(* UpdateEndFrameState: with a first marker the frame counter starts again at *)
(* kFirstFrame.  The number that was given to the frame after the first       *)
(* present, taken for a delimiter until then, is given out once more: the     *)
(* stutter.                                                                   *)
UpdateEndFrameState(pos, first_marker) ==
  [pos EXCEPT !.frame_number = IF first_marker THEN 1 ELSE @ + 1,
              !.uses_markers = @ \/ first_marker]

(* What ProcessBlock returns when there is no block to parse at this position *)
(* (kContinue: there is one).  The limit is compared with the index of the    *)
(* block; zero means no limit.                                                *)
OverLimit(pos, limit) == limit # 0 /\ pos.block_index > limit
AtEndOfFile(capture, pos) == pos.block_index >= Len(capture.blocks)

StopState(capture, limit, pos) ==
  IF OverLimit(pos, limit) THEN "kEndProcessing"
  ELSE IF AtEndOfFile(capture, pos) THEN "kEndOfFile"
  ELSE IF NextKind(capture, pos) = "damaged" THEN "kError"
  ELSE "kContinue"

Stops(capture, limit, pos) == StopState(capture, limit, pos) # "kContinue"

(* The process state a block that was read leads to.                          *)
BlockState(pos, kind) ==
  IF IsFrameDelimiter(pos, kind) THEN "kFrameBoundary" ELSE "kContinue"

(* ProcessBlock followed, at a frame's end, by the tail of ProcessBlocks.     *)
AfterBlock(pos, kind) ==
  IF IsFrameDelimiter(pos, kind)
    THEN UpdateEndFrameState(Visit(pos, kind), FirstMarker(pos, kind))
    ELSE Visit(pos, kind)

-----------------------------------------------------------------------------
(* What goes down the stream.  A block carries its index, the frame number it *)
(* was parsed under and the decompression policy in force.  A result carries  *)
(* the process state and the number of the frame that comes next; one that is *)
(* a signal only has no frame number.                                         *)
NoFrame == -1
Policies == {"kAlways", "kQueueOptimized", "kNever"}

BlockEntry(n, frame, policy) == [block |-> n, frame |-> frame, policy |-> policy]
ResultEntry(state, frame) == [state |-> state, next_frame |-> frame]
ContinueEntry == ResultEntry("kContinue", NoFrame)

BlockEntries == [block : Nat, frame : Nat, policy : Policies]
ResultEntries == [state : ProcessBlockStates, next_frame : Nat \cup {NoFrame}]
Entries == BlockEntries \cup ResultEntries

IsResult(entry) == "state" \in DOMAIN entry

(* The position behind n blocks that end no frame.                            *)
AfterCalls(capture, from, n) ==
  [from EXCEPT
     !.block_index = @ + n,
     !.uses_markers = \/ @
                      \/ \E i \in 1 .. n :
                           capture.blocks[from.block_index + i] = "annotation"]

(* The loop of ProcessBlocks is left at this position: there is no block to   *)
(* parse, or the one that is ends the frame.                                  *)
EndsLoop(capture, limit, pos) ==
  Stops(capture, limit, pos) \/ IsFrameDelimiter(pos, NextKind(capture, pos))

(* How many blocks ahead of the last it reads.                                *)
CallsRead(capture, limit, from) ==
  CHOOSE n \in 0 .. Len(capture.blocks) - from.block_index :
    /\ EndsLoop(capture, limit, AfterCalls(capture, from, n))
    /\ \A m \in 0 .. n - 1 : ~EndsLoop(capture, limit, AfterCalls(capture, from, m))

(* ProcessBlocks from a position: the blocks it reads, the result it returns  *)
(* and the position it leaves behind.                                         *)
ProcessBlocks(capture, limit, from) ==
  LET n == CallsRead(capture, limit, from)
      last == AfterCalls(capture, from, n)
      Blocks(k) == [i \in 1 .. k |->
                      BlockEntry(from.block_index + i, from.frame_number, "kAlways")]
  IN IF Stops(capture, limit, last)
       THEN [out |-> Blocks(n), state |-> StopState(capture, limit, last), pos |-> last]
       ELSE [out |-> Blocks(n + 1), state |-> "kFrameBoundary",
             pos |-> AfterBlock(last, NextKind(capture, last))]

(* The reference: what processing the capture from its start to its end in    *)
(* one thread reads, in order.  ReadUpTo[n] is the position after n blocks    *)
(* and the stream up to there; the stream then ends with the terminal result. *)
ReadFurther(capture, limit, read, n) ==
  LET kind == capture.blocks[n]
      next == AfterBlock(read.pos, kind)
      block == BlockEntry(n, read.pos.frame_number, "kAlways")
      result == ResultEntry("kFrameBoundary", next.frame_number)
  IN IF read.stopped \/ Stops(capture, limit, read.pos)
       THEN [read EXCEPT !.stopped = TRUE]
       ELSE [pos |-> next, stopped |-> FALSE,
             out |-> read.out \o IF IsFrameDelimiter(read.pos, kind)
                                   THEN <<block, result>> ELSE <<block>>]

ReadUpTo(capture, limit) ==
  LET f[n \in 0 .. Len(capture.blocks)] ==
        IF n = 0 THEN [pos |-> StartOf(capture), out |-> <<>>, stopped |-> FALSE]
        ELSE ReadFurther(capture, limit, f[n - 1], n)
  IN f

SequentialStream(capture, limit) ==
  LET last == ReadUpTo(capture, limit)[Len(capture.blocks)]
  IN Append(last.out,
            ResultEntry(StopState(capture, limit, last.pos), last.pos.frame_number))
=============================================================================
