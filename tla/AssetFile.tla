------------------------------ MODULE AssetFile ------------------------------
(***************************************************************************)
(* Trimmed captures with an asset file (framework/encode: VulkanState-     *)
(* Tracker and VulkanStateWriter).  A capture file begins with the state   *)
(* at its start.  The contents of buffers and the descriptor sets are not  *)
(* written to it: those that changed since they were last dumped go to the *)
(* asset file, which all captures share, and the capture file refers to    *)
(* the blocks of the asset file, by offset and number, for these and for   *)
(* those dumped before.                                                    *)
(*                                                                         *)
(* A buffer stands for whatever descriptors refer to and has contents.     *)
(* Offsets are numbers of blocks.  Handle ids are never used again.  Sets  *)
(* that one vkAllocateDescriptorSets has allocated share the parameters of *)
(* that call and make up a group.                                          *)
(*                                                                         *)
(* A submission is tracked before the driver gets it: what it writes is    *)
(* marked first and changes later.  Writes through mapped memory, which    *)
(* are marked and saved by a later submission or unmapping, are left out.  *)
(***************************************************************************)
EXTENDS Integers, Sequences, FiniteSets

CONSTANTS
  Buffers,       (* handle ids                                               *)
  Sets,          (* handle ids, in the order of the state table              *)
  Groups,        (* the sets of each vkAllocateDescriptorSets                *)
  Freed,         (* the sets of each vkFreeDescriptorSets or pool reset      *)
  LastBinding,   (* the bindings of each set s are 1..LastBinding[s]         *)
  UpdateKinds,   (* "write" (vkUpdateDescriptorSets) and "template"          *)
  TrimBoundary,  (* where captures begin: between "frames", or in the tracking *)
                 (* of a submission when ranges are given as "submits"       *)
  DumpsBesideCalls, (* whether assets are dumped while calls and submissions *)
                 (* are on their way; the application can avoid it           *)
  MaxContent,    (* bound on the writes of a buffer                          *)
  MaxWrites      (* bound on the captures and asset dumps together           *)

Bindings(s) == 1..LastBinding[s]
Captures == 1..MaxWrites      (* the names of capture files                  *)
Asset == 0                    (* the name of the asset file                  *)
NoBuffer == 0
GroupOf(s) == CHOOSE g \in Groups : s \in g

ASSUME AssetFileAssumption ==
  /\ (Buffers \cup Sets) \subseteq Nat \ {NoBuffer} /\ Buffers \cap Sets = {}
  /\ \A g \in Groups : g \subseteq Sets /\ \E s \in g : \A t \in g : s <= t
  /\ \A s \in Sets : \E g \in Groups : s \in g
  /\ \A g, h \in Groups : g # h => g \cap h = {}
  /\ Freed \subseteq SUBSET Sets
  /\ UpdateKinds \subseteq {"write", "template"}
  /\ TrimBoundary \in {"frames", "submits"} /\ DumpsBesideCalls \in BOOLEAN
  /\ LastBinding \in [Sets -> Nat] /\ MaxContent \in Nat /\ MaxWrites \in Nat

VARIABLES
  live,          (* the handles in the state table                           *)
  created,       (* history: the handles that have been in it                *)
  contents,      (* how often each buffer was written                        *)
  descriptors,   (* handle_ids of the bindings of each set                   *)
  bound_to,      (* descriptor_sets_bound_to of the buffers                  *)
  submitted,     (* the buffers a submission writes that was tracked and has *)
                 (* not been carried out, one submission of each at a time   *)
  destroyed,     (* the buffers out of the table, DestroyState not yet done  *)
  dirty,         (* the handles whose wrapper is dirty                       *)
  asset_file_offsets,
  content,       (* the blocks of each file                                  *)
  writer,        (* the state writer, see NoWriter                           *)
  captured,      (* the number of capture files                              *)
  dumps,         (* the number of asset dumps                                *)
  at_capture     (* history: the state that each capture file begins with    *)

app_vars == <<live, created, contents, descriptors, bound_to, submitted, destroyed>>
writer_vars == <<asset_file_offsets, content, writer, captured, dumps, at_capture>>
asset_vars == <<app_vars, dirty, writer_vars>>

Handles == Buffers \cup Sets

(* output_stream_ is the capture file, or none; `last' is the last handle    *)
(* visited, `processed' the groups whose parameters have been met.           *)
NoWriter == [pc |-> "idle", output_stream |-> Asset, last |-> 0, processed |-> {}]

LiveBuffers == live \cap Buffers
LiveSets == live \cap Sets

(* CheckDescriptorStatus: a descriptor whose buffer no longer exists is      *)
(* stale.                                                                    *)
IsActive(s, i) == descriptors[s][i] \in live

State == [buffers |-> [b \in LiveBuffers |-> contents[b]],
          sets |-> [s \in LiveSets |->
                     [i \in Bindings(s) |-> IF IsActive(s, i) THEN descriptors[s][i] ELSE NoBuffer]]]

(* The bindings of a set nothing has been written to, and of none at all.    *)
Unbound(s) == [i \in Bindings(s) |-> NoBuffer]

AssetInit ==
  /\ live = {} /\ created = {}
  /\ contents = [b \in Buffers |-> 0]
  /\ descriptors = [s \in Sets |-> Unbound(s)]
  /\ bound_to = {} /\ submitted = {} /\ destroyed = {}
  /\ dirty = {}
  /\ asset_file_offsets = [h \in Handles |-> 0]
  /\ content = [f \in Captures \cup {Asset} |-> <<>>]
  /\ writer = NoWriter /\ captured = 0 /\ dumps = 0
  /\ at_capture = [c \in Captures |-> State]

(* The writer holds state_table_mutex_, from where it begins to its end.     *)
Tracking == writer = NoWriter

(* A capture holds the API lock exclusively, a dump shares it with calls.    *)
CallsMayRun == Tracking \/ (DumpsBesideCalls /\ writer.output_stream = Asset)

(* A mark that comes between the tests of a set's flag and its clearing is   *)
(* lost: without the mutex it may be that of the set just visited.           *)
LostMarks == IF writer.pc = "sets" THEN {{}, {writer.last}} ELSE {{}}

-----------------------------------------------------------------------------
(* The application, in track mode.                                           *)
CreateBuffer(b) ==
  /\ Tracking /\ b \notin created /\ \A c \in Buffers : c < b => c \in created
  /\ live' = live \cup {b} /\ created' = created \cup {b}
  /\ dirty' = dirty \cup {b}
  /\ UNCHANGED <<contents, descriptors, bound_to, submitted, destroyed, writer_vars>>

(* MarkReferencedAssetsAsDirty, without the mutex.                           *)
TrackAssetsInSubmission(b) ==
  /\ CallsMayRun /\ b \in live \ submitted /\ contents[b] < MaxContent
  /\ submitted' = submitted \cup {b}
  /\ dirty' = dirty \cup {b}
  /\ UNCHANGED <<live, created, contents, descriptors, bound_to, destroyed, writer_vars>>

(* By the driver and the device; nothing marks the buffer any more.          *)
CarryOut(b) ==
  /\ CallsMayRun /\ b \in submitted
  /\ contents' = [contents EXCEPT ![b] = @ + 1]
  /\ submitted' = submitted \ {b}
  /\ UNCHANGED <<live, created, descriptors, bound_to, destroyed, dirty, writer_vars>>

(* A buffer in use must not be destroyed.                                    *)
RemoveEntry(b) ==
  /\ Tracking /\ b \in live \ submitted
  /\ live' = live \ {b}
  /\ contents' = [contents EXCEPT ![b] = 0]
  /\ destroyed' = destroyed \cup {b}
  /\ dirty' = dirty \ {b}
  /\ UNCHANGED <<created, descriptors, bound_to, submitted, writer_vars>>

(* Mutant: the sets a buffer is bound to are not marked.                     *)
DestroyState_LeavesSets(b) ==
  /\ CallsMayRun /\ b \in destroyed
  /\ bound_to' = {e \in bound_to : e[1] # b}
  /\ destroyed' = destroyed \ {b}
  /\ UNCHANGED <<live, created, contents, descriptors, submitted, dirty, writer_vars>>

(* Behind RemoveEntry in the same call, without the mutex.  A set that has   *)
(* been freed may be among those it is bound to, see FreeSets; the write to  *)
(* its wrapper is not modelled.                                              *)
DestroyState(b) ==
  /\ CallsMayRun /\ b \in destroyed
  /\ bound_to' = {e \in bound_to : e[1] # b}
  /\ destroyed' = destroyed \ {b}
  /\ \E lost \in LostMarks :
       dirty' = dirty \cup ({s \in LiveSets : <<b, s>> \in bound_to} \ lost)
  /\ UNCHANGED <<live, created, contents, descriptors, submitted, writer_vars>>

AllocateSets(g) ==
  /\ Tracking /\ g \cap created = {}
  /\ live' = live \cup g /\ created' = created \cup g
  /\ dirty' = dirty \cup g
  /\ UNCHANGED <<contents, descriptors, bound_to, submitted, destroyed, writer_vars>>

(* Only TrackUpdateDescriptorSets tells the buffer which set it is bound to, *)
(* and takes the mutex.                                                      *)
UpdateSet(s, i, b, kind) ==
  /\ CallsMayRun /\ (kind = "write" => Tracking) /\ {s, b} \subseteq live
  /\ descriptors' = [descriptors EXCEPT ![s][i] = b]
  /\ bound_to' = IF kind = "write" THEN bound_to \cup {<<b, s>>} ELSE bound_to
  /\ \E lost \in LostMarks : dirty' = dirty \cup ({s} \ lost)
  /\ UNCHANGED <<live, created, contents, submitted, destroyed, writer_vars>>

(* Mutant: a set that is freed stays dirty.                                  *)
FreeSets_LeavesDirty(f) ==
  /\ Tracking /\ f \cap live # {}
  /\ live' = live \ f
  /\ descriptors' = [s \in Sets |-> IF s \in f THEN Unbound(s) ELSE descriptors[s]]
  /\ UNCHANGED <<created, contents, bound_to, submitted, destroyed, dirty, writer_vars>>

(* The set leaves the buffers it refers to, not those it has referred to.    *)
FreeSets(f) ==
  /\ Tracking /\ f \cap live # {}
  /\ live' = live \ f
  /\ descriptors' = [s \in Sets |-> IF s \in f THEN Unbound(s) ELSE descriptors[s]]
  /\ bound_to' = {e \in bound_to :
       ~(e[2] \in f /\ \E i \in Bindings(e[2]) : descriptors[e[2]][i] = e[1])}
  /\ dirty' = dirty \ f
  /\ UNCHANGED <<created, contents, submitted, destroyed, writer_vars>>

-----------------------------------------------------------------------------
(* The state writer.                                                         *)
Execute(offset, n_blocks) ==
  [kind |-> "execute", file |-> Asset, offset |-> offset, n_blocks |-> n_blocks]

(* Mutant: calls are not excluded and the device is not waited for.          *)
Quiet_Never(boundary) == TRUE

(* No call is half way and no submission outstanding, but that in which a    *)
(* range of submits begins: PreQueueSubmit is behind TrackAssetsInSubmission. *)
Quiet(boundary) == destroyed = {} /\ (boundary = "frames" => submitted = {})

(* ActivateTrimming has the API lock exclusively and the device is idle      *)
(* (WriteDeviceState).  The objects themselves are created by blocks of the  *)
(* capture file.                                                             *)
WriteState ==
  /\ Tracking /\ Quiet(TrimBoundary) /\ captured + dumps < MaxWrites
  /\ captured' = captured + 1
  /\ content' = [content EXCEPT ![captured'] = <<[kind |-> "create", buffers |-> LiveBuffers]>>]
  /\ writer' = [NoWriter EXCEPT !.pc = "buffers", !.output_stream = captured']
  /\ at_capture' = [at_capture EXCEPT ![captured'] = State]
  /\ UNCHANGED <<app_vars, dirty, asset_file_offsets, dumps>>

(* On request, outside of a capture, the API lock being shared and the device *)
(* not waited for.                                                           *)
WriteAssets ==
  /\ Tracking /\ (DumpsBesideCalls \/ Quiet("frames")) /\ captured + dumps < MaxWrites
  /\ dumps' = dumps + 1
  /\ writer' = [NoWriter EXCEPT !.pc = "buffers"]
  /\ UNCHANGED <<app_vars, dirty, asset_file_offsets, content, captured, at_capture>>

(* The blocks that are new go to the asset file, a reference to the n_blocks *)
(* blocks at the offset to the capture file, if there is one.  No reference  *)
(* is made to 0 blocks, which would mean all up to the end of the file.      *)
Write(new, offset, n_blocks) ==
  content' = [f \in DOMAIN content |->
    IF f = Asset THEN content[f] \o new
    ELSE IF f = writer.output_stream /\ n_blocks > 0
      THEN Append(content[f], Execute(offset, n_blocks))
    ELSE content[f]]

NextVisited(table, h) ==
  h \in table /\ h > writer.last /\ \A k \in table : k > writer.last => h <= k
AllVisited(table) == \A h \in table : h <= writer.last

(* What a wrapper needs in its place: its blocks are written if it is dirty, *)
(* and else expected where they were written.                                *)
Dump(h, blocks) ==
  LET offset == IF h \in dirty THEN Len(content[Asset]) + 1 ELSE asset_file_offsets[h]
  IN /\ Write(IF h \in dirty THEN blocks ELSE <<>>, offset, Len(blocks))
     /\ dirty' = dirty \ {h}
     /\ asset_file_offsets' = [asset_file_offsets EXCEPT ![h] = offset]

ProcessBufferMemory(b) ==
  /\ writer.pc = "buffers" /\ NextVisited(LiveBuffers, b)
  /\ Dump(b, <<[kind |-> "init", buffer |-> b, contents |-> contents[b]]>>)
  /\ writer' = [writer EXCEPT !.last = b]
  /\ UNCHANGED <<app_vars, captured, dumps, at_capture>>

BuffersDone ==
  /\ writer.pc = "buffers" /\ AllVisited(LiveBuffers)
  /\ writer' = [writer EXCEPT !.pc = "sets", !.last = 0]
  /\ UNCHANGED <<app_vars, dirty, asset_file_offsets, content, captured, dumps, at_capture>>

(* The call that allocates a set comes before the first set of its group.    *)
Allocation(s) ==
  IF GroupOf(s) \in writer.processed THEN <<>>
  ELSE <<[kind |-> "allocate", sets |-> GroupOf(s)]>>
Updates(s) ==
  LET active == {i \in Bindings(s) : IsActive(s, i)}
      Nth(k) == CHOOSE i \in active : Cardinality({j \in active : j <= i}) = k
  IN [k \in 1..Cardinality(active) |->
       [kind |-> "update", set |-> s, binding |-> Nth(k), buffer |-> descriptors[s][Nth(k)]]]

WriteDescriptorSet(s) ==
  /\ writer.pc = "sets" /\ NextVisited(LiveSets, s)
  /\ Dump(s, Allocation(s) \o Updates(s))
  /\ writer' = [writer EXCEPT !.last = s, !.processed = @ \cup {GroupOf(s)}]
  /\ UNCHANGED <<app_vars, captured, dumps, at_capture>>

SetsDone ==
  /\ writer.pc = "sets" /\ AllVisited(LiveSets)
  /\ writer' = NoWriter
  /\ UNCHANGED <<app_vars, dirty, asset_file_offsets, content, captured, dumps, at_capture>>

-----------------------------------------------------------------------------
AppStep ==
  \/ \E b \in Buffers : \/ CreateBuffer(b) \/ RemoveEntry(b) \/ DestroyState(b)
                        \/ TrackAssetsInSubmission(b) \/ CarryOut(b)
  \/ \E g \in Groups : AllocateSets(g)
  \/ \E s \in Sets, b \in Buffers, kind \in UpdateKinds :
       \E i \in Bindings(s) : UpdateSet(s, i, b, kind)
  \/ \E f \in Freed : FreeSets(f)

WriterStep ==
  \/ WriteState
  \/ WriteAssets
  \/ \E b \in Buffers : ProcessBufferMemory(b)
  \/ BuffersDone
  \/ \E s \in Sets : WriteDescriptorSet(s)
  \/ SetsDone

AssetNext == AppStep \/ WriterStep
AssetSpec == AssetInit /\ [][AssetNext]_asset_vars

-----------------------------------------------------------------------------
Blocks ==
  [kind : {"create"}, buffers : SUBSET Buffers]
    \cup [kind : {"init"}, buffer : Buffers, contents : Nat]
    \cup [kind : {"allocate"}, sets : Groups]
    \cup [kind : {"update"}, set : Sets, binding : Nat, buffer : Buffers]
    \cup [kind : {"execute"}, file : {Asset}, offset : Nat, n_blocks : Nat]

AssetTypeOK ==
  /\ live \subseteq created /\ created \subseteq Handles
  /\ contents \in [Buffers -> Nat]
  /\ DOMAIN descriptors = Sets
  /\ \A s \in Sets : descriptors[s] \in [Bindings(s) -> Buffers \cup {NoBuffer}]
  /\ bound_to \subseteq Buffers \X Sets
  /\ dirty \subseteq live /\ submitted \subseteq LiveBuffers
  /\ destroyed \subseteq (created \cap Buffers) \ live
  /\ asset_file_offsets \in [Handles -> Nat]
  /\ content \in [Captures \cup {Asset} -> Seq(Blocks)]
  /\ writer \in [pc : {"idle", "buffers", "sets"}, output_stream : Captures \cup {Asset},
                  last : Handles \cup {0}, processed : SUBSET Groups]
  /\ captured \in Nat /\ dumps \in Nat /\ captured + dumps <= MaxWrites

(* A buffer that is not dirty is not dumped again, so its contents have to   *)
(* be those in the asset file where the state writer will refer to.          *)
CleanBuffersAreInTheFile ==
  \A b \in LiveBuffers \ dirty :
    /\ asset_file_offsets[b] \in DOMAIN content[Asset]
    /\ content[Asset][asset_file_offsets[b]] =
         [kind |-> "init", buffer |-> b, contents |-> contents[b]]
=============================================================================
