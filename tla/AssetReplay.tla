---------------------------- MODULE AssetReplay ----------------------------
(***************************************************************************)
(* A capture with an asset file and its replay: AssetFile writes the files *)
(* and at any time, the writer being idle, FileStack reads one of them.    *)
(* What the blocks do to the state is Vulkan's and is told by restored.    *)
(***************************************************************************)
EXTENDS AssetFile, FileStack

VARIABLES
  given,      (* the files the replay finds                                  *)
  replayed,   (* the capture file that is replayed, 0 before                 *)
  executed,   (* history: what was dispatched for each block of that file    *)
  restored    (* what the dispatched blocks have made, see Apply             *)

replay_vars == <<stack_vars, given, replayed, executed, restored>>
vars == <<asset_vars, replay_vars>>

NoFiles == [f \in {} |-> <<>>]
Nothing == [buffers |-> <<>>, sets |-> <<>>, valid |-> TRUE]

Init ==
  /\ AssetInit /\ NoFile
  /\ given = NoFiles /\ replayed = 0 /\ executed = <<>> /\ restored = Nothing

(* The files as they were written; without the asset file; with an asset     *)
(* file that was cut short; or a capture that executes all of the asset file.*)
FilesGiven(c) ==
  {content} \cup
  IF c < captured THEN {}
  ELSE {[f \in Captures |-> content[f]],
        [content EXCEPT ![Asset] = SubSeq(@, 1, Len(@) - 1)],
        [content EXCEPT ![c] = <<Execute(1, 0)>>]}

TrackerGone ==
  /\ live' = {} /\ created' = {} /\ bound_to' = {} /\ dirty' = {}
  /\ submitted' = {} /\ destroyed' = {}
  /\ contents' = [b \in Buffers |-> 0]
  /\ descriptors' = [s \in Sets |-> Unbound(s)]
  /\ asset_file_offsets' = [h \in Handles |-> 0]

(* The process that made the captures is gone, and its state with it.        *)
StartReplay(c) ==
  /\ Tracking /\ replayed = 0 /\ captured + dumps = MaxWrites
  /\ given' \in FilesGiven(c)
  /\ replayed' = c
  /\ Open(c, DOMAIN given')
  /\ TrackerGone
  /\ UNCHANGED <<content, writer, captured, dumps, at_capture, executed, restored>>

(* What the replay makes of a block.  A call that needs an object there is   *)
(* not, or makes one there is, is an error of Vulkan.                        *)
Uninitialized == 0 - 1
Applicable(b) ==
  \/ b.kind = "create"
  \/ b.kind = "init" /\ b.buffer \in DOMAIN restored.buffers
  \/ b.kind = "allocate" /\ b.sets \cap DOMAIN restored.sets = {}
  \/ b.kind = "update" /\ b.set \in DOMAIN restored.sets /\ b.buffer \in DOMAIN restored.buffers
BuffersAfter(b) ==
  IF b.kind = "create" THEN [x \in b.buffers |-> Uninitialized]
  ELSE IF b.kind = "init" THEN [restored.buffers EXCEPT ![b.buffer] = b.contents]
  ELSE restored.buffers
SetsAfter(b) ==
  IF b.kind = "allocate"
    THEN [s \in DOMAIN restored.sets \cup b.sets |->
           IF s \in b.sets THEN Unbound(s) ELSE restored.sets[s]]
  ELSE IF b.kind = "update" THEN [restored.sets EXCEPT ![b.set][b.binding] = b.buffer]
  ELSE restored.sets
Apply(b) ==
  restored' = IF Applicable(b)
                THEN [buffers |-> BuffersAfter(b), sets |-> SetsAfter(b), valid |-> restored.valid]
                ELSE [restored EXCEPT !.valid = FALSE]

(* A block of the capture file begins an entry of its own.                   *)
InCapture == Len(file_stack) = 1
ReplayStep ==
  /\ replayed # 0
  /\ \/ /\ ProcessOwnBlock(given)
        /\ executed' =
             IF InCapture THEN Append(executed, <<NextBlock(given)>>)
             ELSE [executed EXCEPT ![Len(executed)] = Append(@, NextBlock(given))]
        /\ Apply(NextBlock(given))
     \/ /\ ProcessExecuteBlocksFromFile(given)
        /\ executed' = IF InCapture THEN Append(executed, <<>>) ELSE executed
        /\ UNCHANGED restored
     \/ HandleBlockEof(given) /\ UNCHANGED <<executed, restored>>
  /\ UNCHANGED <<asset_vars, given, replayed>>

(* Bound: the application does nothing any more behind the last snapshot.    *)
CaptureStep ==
  /\ replayed = 0
  /\ captured + dumps < MaxWrites \/ ~Tracking
  /\ AssetNext
  /\ UNCHANGED replay_vars

Next == CaptureStep \/ (\E c \in 1..captured : StartReplay(c)) \/ ReplayStep

Spec == Init /\ [][Next]_vars

-----------------------------------------------------------------------------
TypeOK ==
  /\ AssetTypeOK
  /\ DOMAIN given \subseteq DOMAIN content
  /\ replayed \in Captures \cup {0}
  /\ executed \in Seq(Seq(Blocks)) /\ restored.valid \in BOOLEAN
  /\ \A k \in DOMAIN file_stack : file_stack[k].file \in DOMAIN given
  /\ \A k \in DOMAIN file_stack : ~file_stack[k].execute_till_eof => file_stack[k].remaining_commands > 0
  /\ \A f \in DOMAIN position : position[f] \in 1..(Len(given[f]) + 1)
  /\ read_state \in {"none", "continue", "error", "end_of_file", "end_processing"}

(* A capture restores the state it was started in: the buffers with their    *)
(* contents and the sets with their descriptors, whichever of them were      *)
(* dumped for this capture and whichever long before, with what changed in   *)
(* between.  (A set that was freed alone comes back with its group.)         *)
SnapshotIsRestored ==
  read_state = "end_of_file" /\ given = content =>
    /\ restored.valid
    /\ restored.buffers = at_capture[replayed].buffers
    /\ LET sets == at_capture[replayed].sets
       IN /\ DOMAIN sets \subseteq DOMAIN restored.sets
          /\ \A s \in DOMAIN sets : restored.sets[s] = sets[s]

(* "Check for handles that may no longer exist, which indicates that this    *)
(* descriptor is stale and should be ignored" (vulkan_state_writer.cpp:4843): *)
(* no descriptor set of a capture is written with a buffer that was destroyed *)
(* before the capture.                                                       *)
StaleDescriptorsAreIgnored ==
  given = content =>
    \A k \in DOMAIN executed : \A j \in DOMAIN executed[k] :
      LET b == executed[k][j]
      IN b.kind = "update" => b.buffer \in DOMAIN at_capture[replayed].buffers

(* The blocks a block of the capture file stands for.                        *)
Referenced(b) ==
  IF b.kind # "execute" THEN <<b>>
  ELSE LET file == given[b.file]
       IN SubSeq(file, b.offset, IF b.n_blocks = 0 THEN Len(file) ELSE b.offset + b.n_blocks - 1)

(* A block that executes others stands for exactly those.  A replay that ends *)
(* before, on a file that is missing or cut short, has executed a part.      *)
ExecutesWhatIsReferenced ==
  /\ read_state = "end_of_file" =>
       /\ Len(executed) = Len(given[replayed])
       /\ \A k \in DOMAIN executed : executed[k] = Referenced(given[replayed][k])
  /\ read_state = "error" => Asset \notin DOMAIN given
  /\ read_state = "end_processing" => given # content
=============================================================================
