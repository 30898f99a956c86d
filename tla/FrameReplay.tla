----------------------------- MODULE FrameReplay -----------------------------
(***************************************************************************)
(* What a replay promises: decoders see one frame after the other of what  *)
(* they are to be shown, and replay ends behind the last unless the user   *)
(* quits before.  What they are to be shown of a capture is its Script     *)
(* (FrameScript).                                                          *)
(*                                                                         *)
(* This is the contract of FileProcessor::ProcessNextFrame and the loop    *)
(* around it; SyncReplay and AsyncReplay implement it.                     *)
(***************************************************************************)
EXTENDS Integers, Sequences

CONSTANT Played(_)   (* Played(input)[k]: what decoders have seen of an input *)
                     (* after k frames                                        *)

VARIABLES
  input,      (* what is replayed; never changes                             *)
  replayed,   (* the blocks decoders have seen, each with the frame number   *)
              (* they were told                                              *)
  outcome     (* "running", "quit" by the user, or "ended"                   *)

Init ==
  /\ replayed = <<>>
  /\ outcome = "running"

(* Some more blocks, of one frame.                                            *)
ReplayBlocks(played) ==
  /\ outcome = "running"
  /\ \E k \in DOMAIN played \ {0} :
       /\ Len(played[k - 1]) <= Len(replayed)
       /\ \E n \in Len(replayed) + 1 .. Len(played[k]) :
            replayed' = SubSeq(played[k], 1, n)
  /\ UNCHANGED outcome

(* The user may quit between frames.                                          *)
Quit(played) ==
  /\ outcome = "running"
  /\ \E k \in DOMAIN played : replayed = played[k]
  /\ outcome' = "quit"
  /\ UNCHANGED replayed

(* Replay ends by itself behind the last frame.                               *)
End(played) ==
  /\ outcome = "running"
  /\ \A k \in DOMAIN played : Len(played[k]) <= Len(replayed)
  /\ outcome' = "ended"
  /\ UNCHANGED replayed

Next ==
  /\ LET played == Played(input)
     IN ReplayBlocks(played) \/ Quit(played) \/ End(played)
  /\ UNCHANGED input

Spec == Init /\ [][Next]_<<input, replayed, outcome>>
=============================================================================
