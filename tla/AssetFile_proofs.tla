--------------------------- MODULE AssetFile_proofs ---------------------------
(***************************************************************************)
(* What holds of AssetFile and AssetReplay for any number of buffers, sets *)
(* and captures: types; that the contents of a buffer that is not dirty    *)
(* are in the asset file where the state writer refers to; and that the    *)
(* replay of a capture executes what it refers to and restores the state   *)
(* the capture began in.                                                   *)
(*                                                                         *)
(* The asset file only grows, so that what an offset refers to stays, and  *)
(* an object is marked by whatever changes it.  SnapshotInv says this of   *)
(* buffers and sets and of the captures that refer to them; StackInv says  *)
(* where in which file the replay is and what it has executed, RestoredInv *)
(* what that has made.                                                     *)
(***************************************************************************)
EXTENDS AssetReplay, FiniteSetTheorems, FunctionTheorems, SequenceTheorems, TLAPS

(***************************************************************************)
(* What is marked changes later, and a dump in between takes the mark      *)
(* back.  Two conditions exclude this: captures do not begin within a      *)
(* submission, and assets are dumped while nothing else is on its way.     *)
(***************************************************************************)
RangesOfFrames == TrimBoundary = "frames"
DumpsAreAlone == ~DumpsBesideCalls
Undisturbed == RangesOfFrames /\ DumpsAreAlone

QuietInv ==
  /\ submitted \subseteq dirty
  /\ writer # NoWriter => submitted = {} /\ destroyed = {}

IInv == AssetTypeOK /\ (Undisturbed => QuietInv /\ CleanBuffersAreInTheFile)

-----------------------------------------------------------------------------
(* What a wrapper is dumped with                                             *)

Rank(T, i) == Cardinality({j \in T : j <= i})

(* The elements of a set of numbers have different ranks.                    *)
LEMMA RanksDiffer ==
  ASSUME NEW n \in Nat, NEW T \in SUBSET (1..n)
  PROVE  /\ \A i \in T : Rank(T, i) \in 1..Cardinality(T)
         /\ \A i, k \in T : Rank(T, i) = Rank(T, k) => i = k
<1> DEFINE UpTo(i) == {j \in T : j <= i}
<1>1. IsFiniteSet(T) /\ Cardinality(T) \in Nat
  <2>1. IsFiniteSet(1..n)
    BY FS_Interval
  <2> QED BY <2>1, FS_Subset, FS_CardinalityType
<1>2. ASSUME NEW i \in T
      PROVE  IsFiniteSet(UpTo(i)) /\ Cardinality(UpTo(i)) \in 1..Cardinality(T)
  <2>1. UpTo(i) \in SUBSET T /\ i \in UpTo(i)
    OBVIOUS
  <2>2. IsFiniteSet(UpTo(i)) /\ Cardinality(UpTo(i)) <= Cardinality(T)
    BY <1>1, <2>1, FS_Subset
  <2>3. Cardinality(UpTo(i)) \in Nat /\ Cardinality(UpTo(i)) # 0
    BY <2>1, <2>2, FS_CardinalityType, FS_EmptySet
  <2> QED BY <1>1, <2>2, <2>3
<1>3. ASSUME NEW i \in T, NEW j \in T, i < j
      PROVE  Cardinality(UpTo(i)) # Cardinality(UpTo(j))
  <2>1. UpTo(i) \in SUBSET UpTo(j)
    <3>1. \A x \in 1..n, y \in 1..n, z \in 1..n : x <= y /\ y < z => x <= z
      OBVIOUS
    <3> QED BY <1>3, <3>1
  <2>2. j \in UpTo(j) /\ j \notin UpTo(i)
    BY <1>3
  <2>3. Cardinality(UpTo(j)) = Cardinality(UpTo(i)) => UpTo(j) = UpTo(i)
    BY <1>2, <2>1, FS_Subset
  <2> QED BY <2>2, <2>3
<1>4. \A i, k \in T : Cardinality(UpTo(i)) = Cardinality(UpTo(k)) => i = k
  BY <1>3
<1> QED BY <1>2, <1>4 DEF Rank

(* They are counted without a gap: there is a k-th one for each k up to their *)
(* number.                                                                   *)
LEMMA Counted ==
  ASSUME NEW n \in Nat, NEW T \in SUBSET (1..n), NEW k \in 1..Cardinality(T)
  PROVE  \E i \in T : Rank(T, i) = k
<1> DEFINE rank == [i \in T |-> Rank(T, i)]
<1>1. IsFiniteSet(T) /\ Cardinality(T) \in Nat
  <2>1. IsFiniteSet(1..n)
    BY FS_Interval
  <2> QED BY <2>1, FS_Subset, FS_CardinalityType
<1>2. rank \in Injection(T, 1..Cardinality(T))
  <2>1. rank \in [T -> 1..Cardinality(T)]
    BY RanksDiffer
  <2>2. ASSUME NEW i \in T, NEW j \in T, rank[i] = rank[j]
        PROVE  i = j
    <3>1. Rank(T, i) = Rank(T, j)
      BY <2>2
    <3> QED BY <3>1, RanksDiffer
  <2> QED BY <2>1, <2>2, Fun_IsInj
<1>3. IsFiniteSet(1..Cardinality(T)) /\ Cardinality(1..Cardinality(T)) = Cardinality(T)
  BY <1>1, FS_Interval
<1>4. rank \in Surjection(T, 1..Cardinality(T))
  BY <1>1, <1>2, <1>3, FS_Injection
<1>5. \E i \in T : rank[i] = k
  BY <1>4 DEF Surjection
<1> QED BY <1>5

LEMMA GroupOfType ==
  ASSUME NEW s \in Sets
  PROVE  GroupOf(s) \in Groups /\ s \in GroupOf(s)
BY AssetFileAssumption DEF GroupOf

LEMMA AllocationType ==
  ASSUME NEW s \in Sets
  PROVE  Allocation(s) \in Seq(Blocks) /\ Len(Allocation(s)) \in Nat
<1>1. [kind |-> "allocate", sets |-> GroupOf(s)] \in Blocks
  BY GroupOfType DEF Blocks
<1> DEFINE b == [kind |-> "allocate", sets |-> GroupOf(s)]
<1>2. <<b>> \in Seq(Blocks) /\ <<>> \in Seq(Blocks)
  BY <1>1
<1> QED BY <1>2 DEF Allocation

LEMMA UpdatesType ==
  ASSUME AssetTypeOK, NEW s \in Sets
  PROVE  Updates(s) \in Seq(Blocks)
<1> DEFINE active == {i \in Bindings(s) : IsActive(s, i)}
           Nth(k) == CHOOSE i \in active : Cardinality({j \in active : j <= i}) = k
           update(k) == [kind |-> "update", set |-> s, binding |-> Nth(k), buffer |-> descriptors[s][Nth(k)]]
<1>1. LastBinding[s] \in Nat /\ active \in SUBSET (1..LastBinding[s])
  BY AssetFileAssumption DEF Bindings
<1>2. Cardinality(active) \in Nat
  <2>1. IsFiniteSet(1..LastBinding[s])
    BY <1>1, FS_Interval
  <2> QED BY <1>1, <2>1, FS_Subset, FS_CardinalityType
<1>3. ASSUME NEW k \in 1..Cardinality(active)
      PROVE  update(k) \in Blocks
  <2>1. \E i \in active : Cardinality({j \in active : j <= i}) = k
    BY <1>1, Counted DEF Rank
  <2>2. Nth(k) \in active
    BY <2>1
  <2> HIDE DEF Nth
  <2>3. Nth(k) \in Nat
    BY <1>1, <2>2
  <2>4. descriptors[s][Nth(k)] \in Buffers \cup {NoBuffer}
    BY <2>2 DEF AssetTypeOK
  <2>5. descriptors[s][Nth(k)] \in live
    BY <2>2 DEF IsActive
  <2>6. NoBuffer \notin live
    BY AssetFileAssumption DEF AssetTypeOK, Handles
  <2>7. descriptors[s][Nth(k)] \in Buffers
    BY <2>4, <2>5, <2>6
  <2> QED BY <2>3, <2>7 DEF Blocks
<1> HIDE DEF update
<1>4. [k \in 1..Cardinality(active) |-> update(k)] \in Seq(Blocks)
  BY <1>2, <1>3, IsASeq
<1> QED BY <1>4 DEF Updates, update

-----------------------------------------------------------------------------
(* What a dump does to the files                                             *)

LEMMA WriteExtends ==
  ASSUME AssetTypeOK, NEW new \in Seq(Blocks), NEW offset \in Nat, NEW n \in Nat,
         Write(new, offset, n)
  PROVE  /\ content' \in [Captures \cup {Asset} -> Seq(Blocks)]
         /\ content'[Asset] = content[Asset] \o new
<1>1. content \in [Captures \cup {Asset} -> Seq(Blocks)]
  BY DEF AssetTypeOK
<1>2. Execute(offset, n) \in Blocks
  BY DEF Execute, Blocks
<1>3. ASSUME NEW f \in Captures \cup {Asset}
      PROVE  /\ content[f] \o new \in Seq(Blocks)
             /\ Append(content[f], Execute(offset, n)) \in Seq(Blocks)
  <2>1. content[f] \in Seq(Blocks)
    BY <1>1
  <2>2. content[f] \o new \in Seq(Blocks)
    BY <2>1, ConcatProperties
  <2>3. Append(content[f], Execute(offset, n)) \in Seq(Blocks)
    BY <1>2, <2>1
  <2> QED BY <2>2, <2>3
<1>4. \A f \in Captures \cup {Asset} : content'[f] \in Seq(Blocks)
  BY <1>1, <1>3 DEF Write
<1> QED BY <1>1, <1>4 DEF Write

(* The blocks that are there stay, and so do the offsets of others; what is  *)
(* new begins where the file ended.                                          *)
LEMMA DumpExtends ==
  ASSUME AssetTypeOK, NEW h \in Handles, NEW blocks \in Seq(Blocks), Dump(h, blocks)
  PROVE  /\ content' \in [Captures \cup {Asset} -> Seq(Blocks)]
         /\ asset_file_offsets' \in [Handles -> Nat]
         /\ dirty' = dirty \ {h}
         /\ \A k \in DOMAIN content[Asset] :
              k \in DOMAIN content'[Asset] /\ content'[Asset][k] = content[Asset][k]
         /\ \A g \in Handles :
              g # h \/ h \notin dirty => asset_file_offsets'[g] = asset_file_offsets[g]
         /\ h \in dirty /\ blocks # <<>> =>
              /\ asset_file_offsets'[h] \in DOMAIN content'[Asset]
              /\ content'[Asset][asset_file_offsets'[h]] = blocks[1]
<1> DEFINE file == content[Asset]
           offset == IF h \in dirty THEN Len(file) + 1 ELSE asset_file_offsets[h]
           new == IF h \in dirty THEN blocks ELSE <<>>
<1>1. /\ file \in Seq(Blocks) /\ Len(file) \in Nat /\ DOMAIN file = 1..Len(file)
      /\ asset_file_offsets \in [Handles -> Nat]
  <2>1. file \in Seq(Blocks) /\ asset_file_offsets \in [Handles -> Nat]
    BY DEF AssetTypeOK
  <2> QED BY <2>1, LenProperties
<1>2. offset \in Nat /\ new \in Seq(Blocks) /\ Len(blocks) \in Nat
  <2>1. <<>> \in Seq(Blocks) /\ Len(blocks) \in Nat
    BY EmptySeq, LenProperties
  <2> QED BY <1>1, <2>1
<1>3. Write(new, offset, Len(blocks))
  BY DEF Dump
<1>4. content' \in [Captures \cup {Asset} -> Seq(Blocks)] /\ content'[Asset] = file \o new
  BY <1>2, <1>3, WriteExtends
<1>5. /\ file \o new \in Seq(Blocks)
      /\ Len(file \o new) = Len(file) + Len(new)
      /\ \A i \in 1..(Len(file) + Len(new)) :
           (file \o new)[i] = IF i <= Len(file) THEN file[i] ELSE new[i - Len(file)]
  BY <1>1, <1>2, ConcatProperties
<1>6. DOMAIN content'[Asset] = 1..(Len(file) + Len(new)) /\ Len(new) \in Nat
  BY <1>2, <1>4, <1>5, LenProperties
<1>7. asset_file_offsets' = [asset_file_offsets EXCEPT ![h] = offset] /\ dirty' = dirty \ {h}
  BY DEF Dump
<1>8. asset_file_offsets' \in [Handles -> Nat]
  BY <1>1, <1>2, <1>7
<1>9. ASSUME NEW k \in DOMAIN file
      PROVE  k \in DOMAIN content'[Asset] /\ content'[Asset][k] = file[k]
  <2>1. \A a \in Nat, n \in Nat : \A i \in 1..a : i \in 1..(a + n) /\ i <= a
    OBVIOUS
  <2>2. k \in 1..(Len(file) + Len(new)) /\ k <= Len(file)
    BY <1>1, <1>6, <2>1
  <2> QED BY <1>4, <1>5, <1>6, <2>2
<1>10. ASSUME NEW g \in Handles, g # h \/ h \notin dirty
       PROVE  asset_file_offsets'[g] = asset_file_offsets[g]
  BY <1>1, <1>7, <1>10
<1>11. ASSUME h \in dirty, blocks # <<>>
       PROVE  /\ asset_file_offsets'[h] \in DOMAIN content'[Asset]
              /\ content'[Asset][asset_file_offsets'[h]] = blocks[1]
  <2>1. new = blocks /\ offset = Len(file) + 1 /\ asset_file_offsets'[h] = offset
    BY <1>1, <1>7, <1>11
  <2>2. Len(blocks) \in Nat \ {0} /\ Len(new) = Len(blocks)
    BY <1>11, <2>1, EmptySeq
  <2>3. \A a \in Nat, n \in Nat \ {0} :
          a + 1 \in 1..(a + n) /\ ~(a + 1 <= a) /\ a + 1 - a = 1
    OBVIOUS
  <2>4. /\ offset \in 1..(Len(file) + Len(new))
        /\ ~(offset <= Len(file)) /\ offset - Len(file) = 1
    <3> HIDE DEF offset, new, file
    <3> QED BY <1>1, <2>1, <2>2, <2>3
  <2> QED BY <1>4, <1>5, <1>6, <2>1, <2>4
<1> QED BY <1>4, <1>7, <1>8, <1>9, <1>10, <1>11

-----------------------------------------------------------------------------
(* Initially                                                                 *)

LEMMA InitImpliesIInv == AssetInit => IInv
<1> SUFFICES ASSUME AssetInit PROVE IInv
  OBVIOUS
<1>1. AssetTypeOK
  <2>1. MaxWrites \in Nat /\ LastBinding \in [Sets -> Nat]
    BY AssetFileAssumption
  <2>2. content \in [Captures \cup {Asset} -> Seq(Blocks)]
    <3>1. <<>> \in Seq(Blocks)
      BY EmptySeq
    <3> QED BY <3>1 DEF AssetInit
  <2>3. writer \in [pc : {"idle", "buffers", "sets"}, output_stream : Captures \cup {Asset},
                    last : Handles \cup {0}, processed : SUBSET Groups]
    BY DEF AssetInit, NoWriter
  <2>4. /\ DOMAIN descriptors = Sets
        /\ \A s \in Sets : descriptors[s] \in [Bindings(s) -> Buffers \cup {NoBuffer}]
    BY DEF AssetInit, Unbound
  <2>5. contents \in [Buffers -> Nat] /\ asset_file_offsets \in [Handles -> Nat]
    BY DEF AssetInit
  <2>6. captured \in Nat /\ dumps \in Nat /\ captured + dumps <= MaxWrites
    BY <2>1 DEF AssetInit
  <2> QED BY <2>2, <2>3, <2>4, <2>5, <2>6 DEF AssetInit, AssetTypeOK
<1>2. QuietInv /\ CleanBuffersAreInTheFile
  BY DEF AssetInit, QuietInv, CleanBuffersAreInTheFile, LiveBuffers
<1> QED BY <1>1, <1>2 DEF IInv

-----------------------------------------------------------------------------
(* The application                                                           *)

(* A step that leaves the files alone only has to mark what it changes.      *)
LEMMA MarkedKeepsClean ==
  ASSUME CleanBuffersAreInTheFile,
         UNCHANGED <<asset_file_offsets, content>>,
         \A b \in LiveBuffers' \ dirty' :
           b \in LiveBuffers \ dirty /\ contents'[b] = contents[b]
  PROVE  CleanBuffersAreInTheFile'
BY DEF CleanBuffersAreInTheFile

LEMMA TrackingIsAlone ==
  ASSUME DumpsAreAlone, CallsMayRun
  PROVE  writer = NoWriter /\ LostMarks = {{}}
<1>1. writer = NoWriter
  BY DEF DumpsAreAlone, CallsMayRun, Tracking
<1> QED BY <1>1 DEF LostMarks, NoWriter

LEMMA AppStepKeepsTypes ==
  ASSUME AssetTypeOK, AppStep
  PROVE  AssetTypeOK'
<1>1. ASSUME NEW b \in Buffers, CreateBuffer(b)
      PROVE  AssetTypeOK'
  <2>1. live' \subseteq created' /\ created' \subseteq Handles /\ dirty' \subseteq live'
    BY <1>1 DEF AssetTypeOK, CreateBuffer, Handles
  <2>2. submitted' \subseteq LiveBuffers' /\ destroyed' \subseteq (created' \cap Buffers) \ live'
    BY <1>1 DEF AssetTypeOK, CreateBuffer, LiveBuffers
  <2> QED BY <1>1, <2>1, <2>2 DEF AssetTypeOK, CreateBuffer, writer_vars
<1>2. ASSUME NEW b \in Buffers, TrackAssetsInSubmission(b)
      PROVE  AssetTypeOK'
  <2>1. dirty' \subseteq live' /\ submitted' \subseteq LiveBuffers' /\ destroyed' \subseteq (created' \cap Buffers) \ live'
    BY <1>2 DEF AssetTypeOK, TrackAssetsInSubmission, LiveBuffers
  <2> QED BY <1>2, <2>1 DEF AssetTypeOK, TrackAssetsInSubmission, writer_vars
<1>3. ASSUME NEW b \in Buffers, CarryOut(b)
      PROVE  AssetTypeOK'
  <2>1. contents' \in [Buffers -> Nat]
    BY <1>3 DEF AssetTypeOK, CarryOut
  <2>2. submitted' \subseteq LiveBuffers'
    BY <1>3 DEF AssetTypeOK, CarryOut, LiveBuffers
  <2> QED BY <1>3, <2>1, <2>2 DEF AssetTypeOK, CarryOut, writer_vars
<1>4. ASSUME NEW b \in Buffers, RemoveEntry(b)
      PROVE  AssetTypeOK'
  <2>1. contents' \in [Buffers -> Nat]
    BY <1>4 DEF AssetTypeOK, RemoveEntry
  <2>2. /\ live' \subseteq created' /\ dirty' \subseteq live'
        /\ submitted' \subseteq LiveBuffers' /\ destroyed' \subseteq (created' \cap Buffers) \ live'
    BY <1>4 DEF AssetTypeOK, RemoveEntry, LiveBuffers
  <2> QED BY <1>4, <2>1, <2>2 DEF AssetTypeOK, RemoveEntry, writer_vars
<1>5. ASSUME NEW b \in Buffers, DestroyState(b)
      PROVE  AssetTypeOK'
  <2>1. dirty' \subseteq live'
    BY <1>5 DEF AssetTypeOK, DestroyState, LiveSets
  <2>2. /\ bound_to' \subseteq Buffers \X Sets /\ submitted' \subseteq LiveBuffers'
        /\ destroyed' \subseteq (created' \cap Buffers) \ live'
    BY <1>5 DEF AssetTypeOK, DestroyState, LiveBuffers
  <2> QED BY <1>5, <2>1, <2>2 DEF AssetTypeOK, DestroyState, writer_vars
<1>6. ASSUME NEW g \in Groups, AllocateSets(g)
      PROVE  AssetTypeOK'
  <2>1. g \subseteq Handles /\ g \cap Buffers = {}
    BY AssetFileAssumption DEF Handles
  <2>2. /\ live' \subseteq created' /\ created' \subseteq Handles /\ dirty' \subseteq live'
        /\ submitted' \subseteq LiveBuffers' /\ destroyed' \subseteq (created' \cap Buffers) \ live'
    BY <1>6, <2>1 DEF AssetTypeOK, AllocateSets, LiveBuffers
  <2> QED BY <1>6, <2>2 DEF AssetTypeOK, AllocateSets, writer_vars
<1>7. ASSUME NEW s \in Sets, NEW b \in Buffers, NEW kind \in UpdateKinds,
             NEW i \in Bindings(s), UpdateSet(s, i, b, kind)
      PROVE  AssetTypeOK'
  <2>1. /\ DOMAIN descriptors' = Sets
        /\ \A t \in Sets : descriptors'[t] \in [Bindings(t) -> Buffers \cup {NoBuffer}]
    BY <1>7 DEF AssetTypeOK, UpdateSet
  <2>2. bound_to' \subseteq Buffers \X Sets
    BY <1>7 DEF AssetTypeOK, UpdateSet
  <2>3. dirty' \subseteq live' /\ submitted' \subseteq LiveBuffers'
    BY <1>7 DEF AssetTypeOK, UpdateSet, LiveBuffers
  <2> QED BY <1>7, <2>1, <2>2, <2>3 DEF AssetTypeOK, UpdateSet, writer_vars
<1>8. ASSUME NEW f \in Freed, FreeSets(f)
      PROVE  AssetTypeOK'
  <2>1. /\ DOMAIN descriptors' = Sets
        /\ \A s \in Sets : descriptors'[s] \in [Bindings(s) -> Buffers \cup {NoBuffer}]
    BY <1>8 DEF AssetTypeOK, FreeSets, Unbound
  <2>2. bound_to' \subseteq Buffers \X Sets
    BY <1>8 DEF AssetTypeOK, FreeSets
  <2>3. f \cap Buffers = {}
    BY AssetFileAssumption
  <2>4. /\ live' \subseteq created' /\ dirty' \subseteq live'
        /\ submitted' \subseteq LiveBuffers' /\ destroyed' \subseteq (created' \cap Buffers) \ live'
    BY <1>8, <2>3 DEF AssetTypeOK, FreeSets, LiveBuffers
  <2> QED BY <1>8, <2>1, <2>2, <2>4 DEF AssetTypeOK, FreeSets, writer_vars
<1> QED BY <1>1, <1>2, <1>3, <1>4, <1>5, <1>6, <1>7, <1>8 DEF AppStep

(* Nothing is dumped beside the application, and what is submitted is marked. *)
LEMMA AppStepIsAlone ==
  ASSUME DumpsAreAlone, AppStep
  PROVE  UNCHANGED writer_vars /\ writer = NoWriter
BY TrackingIsAlone DEF AppStep, CreateBuffer, TrackAssetsInSubmission, CarryOut, RemoveEntry,
   DestroyState, AllocateSets, UpdateSet, FreeSets, Tracking

LEMMA AppStepKeepsClean ==
  ASSUME AssetTypeOK, DumpsAreAlone, submitted \subseteq dirty, CleanBuffersAreInTheFile, AppStep
  PROVE  submitted' \subseteq dirty' /\ CleanBuffersAreInTheFile'
<1> DEFINE Marks ==
      /\ submitted' \subseteq dirty'
      /\ \A c \in LiveBuffers' \ dirty' : c \in LiveBuffers \ dirty /\ contents'[c] = contents[c]
<1>1. ASSUME NEW b \in Buffers, CreateBuffer(b)
      PROVE  Marks
  BY <1>1 DEF CreateBuffer, LiveBuffers
<1>2. ASSUME NEW b \in Buffers, TrackAssetsInSubmission(b)
      PROVE  Marks
  BY <1>2 DEF TrackAssetsInSubmission, LiveBuffers
<1>3. ASSUME NEW b \in Buffers, CarryOut(b)
      PROVE  Marks
  <2>1. b \in dirty /\ submitted' \subseteq dirty'
    BY <1>3 DEF CarryOut
  <2> QED BY <1>3, <2>1 DEF CarryOut, LiveBuffers, AssetTypeOK
<1>4. ASSUME NEW b \in Buffers, RemoveEntry(b)
      PROVE  Marks
  BY <1>4 DEF RemoveEntry, LiveBuffers, AssetTypeOK
<1>5. ASSUME NEW b \in Buffers, DestroyState(b)
      PROVE  Marks
  BY <1>5 DEF DestroyState, LiveBuffers
<1>6. ASSUME NEW g \in Groups, AllocateSets(g)
      PROVE  Marks
  BY <1>6, AssetFileAssumption DEF AllocateSets, LiveBuffers
<1>7. ASSUME NEW s \in Sets, NEW b \in Buffers, NEW kind \in UpdateKinds,
             NEW i \in Bindings(s), UpdateSet(s, i, b, kind)
      PROVE  Marks
  BY <1>7 DEF UpdateSet, LiveBuffers
<1>8. ASSUME NEW f \in Freed, FreeSets(f)
      PROVE  Marks
  <2>1. f \cap Buffers = {}
    BY AssetFileAssumption
  <2> QED BY <1>8, <2>1 DEF FreeSets, LiveBuffers, AssetTypeOK
<1>9. Marks
  BY <1>1, <1>2, <1>3, <1>4, <1>5, <1>6, <1>7, <1>8 DEF AppStep
<1>10. UNCHANGED <<asset_file_offsets, content>>
  BY AppStepIsAlone DEF writer_vars
<1> QED BY <1>9, <1>10, MarkedKeepsClean

LEMMA AppStepKeepsIInv ==
  ASSUME IInv, AppStep
  PROVE  IInv'
<1>1. AssetTypeOK'
  BY AppStepKeepsTypes DEF IInv
<1>2. ASSUME Undisturbed
      PROVE  QuietInv' /\ CleanBuffersAreInTheFile'
  <2>1. submitted' \subseteq dirty' /\ CleanBuffersAreInTheFile'
    BY <1>2, AppStepKeepsClean DEF IInv, QuietInv, Undisturbed
  <2>2. writer' = NoWriter
    BY <1>2, AppStepIsAlone DEF writer_vars, Undisturbed
  <2> QED BY <2>1, <2>2 DEF QuietInv
<1> QED BY <1>1, <1>2 DEF IInv, Undisturbed, RangesOfFrames, DumpsAreAlone

-----------------------------------------------------------------------------
(* The state writer                                                          *)

LEMMA WriteStateKeepsIInv ==
  ASSUME IInv, WriteState
  PROVE  IInv'
<1> DEFINE block == [kind |-> "create", buffers |-> LiveBuffers]
<1>1. captured' \in Captures /\ captured' # Asset
  BY AssetFileAssumption DEF IInv, AssetTypeOK, WriteState, Captures, Asset
<1>2. block \in Blocks
  BY DEF Blocks, LiveBuffers
<1>3. /\ content' = [content EXCEPT ![captured'] = <<block>>]
      /\ content \in [Captures \cup {Asset} -> Seq(Blocks)]
  BY DEF IInv, AssetTypeOK, WriteState
<1>4. content' \in [Captures \cup {Asset} -> Seq(Blocks)] /\ content'[Asset] = content[Asset]
  <2>1. <<block>> \in Seq(Blocks)
    BY <1>2
  <2> HIDE DEF block
  <2> QED BY <1>1, <1>3, <2>1
<1>5. writer' \in [pc : {"idle", "buffers", "sets"}, output_stream : Captures \cup {Asset},
                   last : Handles \cup {0}, processed : SUBSET Groups]
  BY <1>1 DEF WriteState, NoWriter
<1>6. AssetTypeOK'
  <2>1. captured' \in Nat /\ dumps' \in Nat /\ captured' + dumps' <= MaxWrites
    BY AssetFileAssumption DEF IInv, AssetTypeOK, WriteState
  <2> QED BY <1>4, <1>5, <2>1 DEF IInv, AssetTypeOK, WriteState, app_vars, LiveBuffers
<1>7. ASSUME Undisturbed
      PROVE  QuietInv' /\ CleanBuffersAreInTheFile'
  <2>1. CleanBuffersAreInTheFile'
    BY <1>4, <1>7 DEF IInv, CleanBuffersAreInTheFile, WriteState, app_vars, LiveBuffers
  <2>2. submitted' = {} /\ destroyed' = {}
    BY <1>7 DEF WriteState, Quiet, Undisturbed, RangesOfFrames, app_vars
  <2> QED BY <2>1, <2>2 DEF QuietInv
<1> QED BY <1>6, <1>7 DEF IInv, Undisturbed, RangesOfFrames, DumpsAreAlone

(* The steps that begin and end a pass over the table.                       *)
LEMMA PassKeepsIInv ==
  ASSUME IInv, WriteAssets \/ BuffersDone \/ SetsDone
  PROVE  IInv'
<1>1. writer' \in [pc : {"idle", "buffers", "sets"}, output_stream : Captures \cup {Asset},
                   last : Handles \cup {0}, processed : SUBSET Groups]
  <2>1. NoWriter \in [pc : {"idle", "buffers", "sets"}, output_stream : Captures \cup {Asset},
                      last : Handles \cup {0}, processed : SUBSET Groups]
    BY DEF NoWriter
  <2>2. /\ WriteAssets => writer' = [NoWriter EXCEPT !.pc = "buffers"]
        /\ BuffersDone => writer' = [writer EXCEPT !.pc = "sets", !.last = 0]
        /\ SetsDone => writer' = NoWriter
    BY DEF WriteAssets, BuffersDone, SetsDone
  <2> QED BY <2>1, <2>2 DEF IInv, AssetTypeOK
<1>2. captured' \in Nat /\ dumps' \in Nat /\ captured' + dumps' <= MaxWrites
  BY AssetFileAssumption DEF IInv, AssetTypeOK, WriteAssets, BuffersDone, SetsDone
<1>3. AssetTypeOK'
  BY <1>1, <1>2 DEF IInv, AssetTypeOK, WriteAssets, BuffersDone, SetsDone, app_vars, LiveBuffers
<1>4. ASSUME Undisturbed
      PROVE  QuietInv' /\ CleanBuffersAreInTheFile'
  <2>1. CleanBuffersAreInTheFile'
    BY <1>4 DEF IInv, CleanBuffersAreInTheFile, WriteAssets, BuffersDone, SetsDone, app_vars, LiveBuffers
  <2>2. WriteAssets => submitted = {} /\ destroyed = {}
    BY <1>4 DEF WriteAssets, Quiet, Undisturbed, DumpsAreAlone
  <2>3. BuffersDone \/ SetsDone => writer # NoWriter
    BY DEF BuffersDone, SetsDone, NoWriter
  <2>4. submitted' = {} /\ destroyed' = {}
    BY <1>4, <2>2, <2>3 DEF IInv, QuietInv, WriteAssets, BuffersDone, SetsDone, app_vars
  <2> QED BY <2>1, <2>4 DEF QuietInv
<1> QED BY <1>3, <1>4 DEF IInv, Undisturbed, RangesOfFrames, DumpsAreAlone

(* While the writer is at work nothing is submitted.                         *)
LEMMA DumpIsQuiet ==
  ASSUME IInv, Undisturbed, writer.pc # "idle"
  PROVE  /\ submitted = {} /\ destroyed = {} /\ CleanBuffersAreInTheFile
         /\ UNCHANGED app_vars => QuietInv'
<1>1. writer # NoWriter
  BY DEF NoWriter
<1>2. submitted = {} /\ destroyed = {} /\ CleanBuffersAreInTheFile
  BY <1>1 DEF IInv, QuietInv
<1> QED BY <1>2 DEF QuietInv, app_vars

LEMMA DumpStepKeepsTypes ==
  ASSUME AssetTypeOK, NEW h \in Handles, NEW blocks \in Seq(Blocks), Dump(h, blocks),
         UNCHANGED <<app_vars, captured, dumps, at_capture>>,
         writer' \in [pc : {"idle", "buffers", "sets"}, output_stream : Captures \cup {Asset},
                      last : Handles \cup {0}, processed : SUBSET Groups]
  PROVE  AssetTypeOK'
<1>1. /\ content' \in [Captures \cup {Asset} -> Seq(Blocks)]
      /\ asset_file_offsets' \in [Handles -> Nat]
      /\ dirty' = dirty \ {h}
  BY DumpExtends
<1> QED BY <1>1 DEF AssetTypeOK, app_vars, LiveBuffers

LEMMA ProcessBufferMemoryKeepsIInv ==
  ASSUME IInv, NEW b \in Buffers, ProcessBufferMemory(b)
  PROVE  IInv'
<1> DEFINE block == [kind |-> "init", buffer |-> b, contents |-> contents[b]]
           blocks == <<block>>
<1>1. b \in Handles /\ b \in LiveBuffers
  BY DEF ProcessBufferMemory, NextVisited, Handles
<1>2. block \in Blocks
  BY DEF Blocks, IInv, AssetTypeOK
<1>3. blocks \in Seq(Blocks) /\ blocks # <<>> /\ blocks[1] = block
  BY <1>2
<1>4. Dump(b, blocks) /\ UNCHANGED <<app_vars, captured, dumps, at_capture>>
  BY DEF ProcessBufferMemory
<1>5. writer' \in [pc : {"idle", "buffers", "sets"}, output_stream : Captures \cup {Asset},
                   last : Handles \cup {0}, processed : SUBSET Groups]
  BY <1>1 DEF ProcessBufferMemory, IInv, AssetTypeOK
<1> HIDE DEF blocks
<1>6. AssetTypeOK'
  BY <1>1, <1>3, <1>4, <1>5, DumpStepKeepsTypes DEF IInv
<1>7. ASSUME Undisturbed, NEW c \in LiveBuffers \ (dirty \ {b})
      PROVE  /\ asset_file_offsets'[c] \in DOMAIN content'[Asset]
             /\ content'[Asset][asset_file_offsets'[c]] =
                  [kind |-> "init", buffer |-> c, contents |-> contents[c]]
  <2>1. CASE c = b /\ b \in dirty
    BY <1>1, <1>3, <1>4, <2>1, DumpExtends DEF IInv
  <2>2. CASE c # b \/ b \notin dirty
    <3>1. c \in LiveBuffers \ dirty /\ c \in Handles
      BY <2>2 DEF LiveBuffers, Handles
    <3>2. /\ asset_file_offsets[c] \in DOMAIN content[Asset]
          /\ content[Asset][asset_file_offsets[c]] =
               [kind |-> "init", buffer |-> c, contents |-> contents[c]]
      BY <1>7, <3>1 DEF IInv, CleanBuffersAreInTheFile
    <3>3. asset_file_offsets'[c] = asset_file_offsets[c]
      BY <1>1, <1>3, <1>4, <2>2, <3>1, DumpExtends DEF IInv
    <3> QED BY <1>1, <1>3, <1>4, <3>2, <3>3, DumpExtends DEF IInv
  <2> QED BY <2>1, <2>2
<1>8. ASSUME Undisturbed
      PROVE  QuietInv' /\ CleanBuffersAreInTheFile'
  <2>1. dirty' = dirty \ {b}
    BY <1>1, <1>3, <1>4, DumpExtends DEF IInv
  <2>2. LiveBuffers' = LiveBuffers /\ contents' = contents
    BY <1>4 DEF app_vars, LiveBuffers
  <2>3. CleanBuffersAreInTheFile'
    BY <1>7, <1>8, <2>1, <2>2 DEF CleanBuffersAreInTheFile
  <2>4. writer.pc # "idle"
    BY DEF ProcessBufferMemory
  <2> QED BY <1>4, <1>8, <2>3, <2>4, DumpIsQuiet
<1> QED BY <1>6, <1>8 DEF IInv, Undisturbed, RangesOfFrames, DumpsAreAlone

LEMMA WriteDescriptorSetKeepsIInv ==
  ASSUME IInv, NEW s \in Sets, WriteDescriptorSet(s)
  PROVE  IInv'
<1> DEFINE blocks == Allocation(s) \o Updates(s)
<1>1. s \in Handles /\ s \notin Buffers
  BY AssetFileAssumption DEF Handles
<1>2. blocks \in Seq(Blocks)
  BY AllocationType, UpdatesType, ConcatProperties DEF IInv
<1>3. Dump(s, blocks) /\ UNCHANGED <<app_vars, captured, dumps, at_capture>>
  BY DEF WriteDescriptorSet
<1>4. writer' \in [pc : {"idle", "buffers", "sets"}, output_stream : Captures \cup {Asset},
                   last : Handles \cup {0}, processed : SUBSET Groups]
  BY <1>1, GroupOfType DEF WriteDescriptorSet, IInv, AssetTypeOK
<1> HIDE DEF blocks
<1>5. AssetTypeOK'
  BY <1>1, <1>2, <1>3, <1>4, DumpStepKeepsTypes DEF IInv
<1>6. ASSUME Undisturbed, NEW c \in LiveBuffers \ (dirty \ {s})
      PROVE  /\ asset_file_offsets'[c] \in DOMAIN content'[Asset]
             /\ content'[Asset][asset_file_offsets'[c]] =
                  [kind |-> "init", buffer |-> c, contents |-> contents[c]]
  <2>1. c \in LiveBuffers \ dirty /\ c \in Handles /\ c # s
    BY <1>1 DEF LiveBuffers, Handles
  <2>2. /\ asset_file_offsets[c] \in DOMAIN content[Asset]
        /\ content[Asset][asset_file_offsets[c]] =
             [kind |-> "init", buffer |-> c, contents |-> contents[c]]
    BY <1>6, <2>1 DEF IInv, CleanBuffersAreInTheFile
  <2>3. asset_file_offsets'[c] = asset_file_offsets[c]
    BY <1>1, <1>2, <1>3, <2>1, DumpExtends DEF IInv
  <2> QED BY <1>1, <1>2, <1>3, <2>2, <2>3, DumpExtends DEF IInv
<1>7. ASSUME Undisturbed
      PROVE  QuietInv' /\ CleanBuffersAreInTheFile'
  <2>1. dirty' = dirty \ {s}
    BY <1>1, <1>2, <1>3, DumpExtends DEF IInv
  <2>2. LiveBuffers' = LiveBuffers /\ contents' = contents
    BY <1>3 DEF app_vars, LiveBuffers
  <2>3. CleanBuffersAreInTheFile'
    BY <1>6, <1>7, <2>1, <2>2 DEF CleanBuffersAreInTheFile
  <2>4. writer.pc # "idle"
    BY DEF WriteDescriptorSet
  <2> QED BY <1>3, <1>7, <2>3, <2>4, DumpIsQuiet
<1> QED BY <1>5, <1>7 DEF IInv, Undisturbed, RangesOfFrames, DumpsAreAlone

-----------------------------------------------------------------------------
LEMMA StepKeepsIInv == IInv /\ [AssetNext]_asset_vars => IInv'
<1> SUFFICES ASSUME IInv, [AssetNext]_asset_vars PROVE IInv'
  OBVIOUS
<1>1. CASE AppStep
  BY <1>1, AppStepKeepsIInv
<1>2. CASE WriterStep
  BY <1>2, WriteStateKeepsIInv, PassKeepsIInv, ProcessBufferMemoryKeepsIInv,
     WriteDescriptorSetKeepsIInv DEF WriterStep
<1>3. CASE UNCHANGED asset_vars
  BY <1>3 DEF IInv, AssetTypeOK, QuietInv, CleanBuffersAreInTheFile, asset_vars, app_vars,
              writer_vars, LiveBuffers, Undisturbed, RangesOfFrames, DumpsAreAlone
<1> QED BY <1>1, <1>2, <1>3 DEF AssetNext

LEMMA AssetIInv == AssetSpec => []IInv
<1>1. AssetInit => IInv
  BY InitImpliesIInv
<1>2. IInv /\ [AssetNext]_asset_vars => IInv'
  BY StepKeepsIInv
<1> QED BY <1>1, <1>2, PTL DEF AssetSpec

(* The state table, the offsets, the files and the writer have their types;  *)
(* only what is in the table is dirty.                                       *)
THEOREM AssetTypeCorrect == AssetSpec => []AssetTypeOK
<1>1. IInv => AssetTypeOK
  BY DEF IInv
<1> QED BY <1>1, AssetIInv, PTL

(* Whatever is submitted, updated, freed or destroyed between however many   *)
(* captures and dumps: where a capture refers to for a buffer that it does   *)
(* not dump again are the contents the buffer has.  Captures begin between   *)
(* frames, and assets are dumped while nothing else is on its way.           *)
THEOREM CleanBuffersCorrect ==
  ASSUME RangesOfFrames, DumpsAreAlone
  PROVE  AssetSpec => []CleanBuffersAreInTheFile
<1>1. IInv => CleanBuffersAreInTheFile
  BY DEF IInv, Undisturbed
<1> QED BY <1>1, AssetIInv, PTL
-----------------------------------------------------------------------------
(***************************************************************************)
(* That a capture restores what it was started in.  Two more conditions    *)
(* are needed, and the code does not hold without them: descriptor sets    *)
(* are not updated with templates, and the first set of an allocation is   *)
(* not freed before the others.                                            *)
(***************************************************************************)
UpdatesAreTracked == UpdateKinds \subseteq {"write"}

IsFirst(s) == \A t \in GroupOf(s) : s <= t
FirstIsFreedLast == \A f \in Freed : \A s \in f : IsFirst(s) => GroupOf(s) \subseteq f

(* The objects that are tracked: a handle is not used again; which sets      *)
(* refer to a buffer is known as long as both live; and of the sets that     *)
(* were allocated together the first one lives longest.                      *)
TableInv ==
  /\ \A s \in Sets : \A i \in Bindings(s) : descriptors[s][i] \in created \cup {NoBuffer}
  /\ \A s \in Sets \ live : descriptors[s] = Unbound(s)
  /\ \A s \in LiveSets : \A i \in Bindings(s) :
       descriptors[s][i] \in live => <<descriptors[s][i], s>> \in bound_to
  /\ \A s \in LiveSets : \A t \in GroupOf(s) : IsFirst(t) => t \in live

(* The blocks of a file from an offset on.                                   *)
Has(file, offset, blocks) ==
  /\ offset \in Nat \ {0}
  /\ offset + Len(blocks) <= Len(file) + 1
  /\ \A j \in 1..Len(blocks) : file[offset + j - 1] = blocks[j]

(* What a set needs, whichever sets are visited before it.                   *)
Needs(s) ==
  (IF IsFirst(s) THEN <<[kind |-> "allocate", sets |-> GroupOf(s)]>> ELSE <<>>) \o Updates(s)

(* The sets that are dirty, or will be when calls that have begun end.       *)
Marked == dirty \cup {s \in LiveSets : \E b \in destroyed : <<b, s>> \in bound_to}

CleanSetsAreInTheFile ==
  \A s \in LiveSets \ Marked : Has(content[Asset], asset_file_offsets[s], Needs(s))

(* The references of a capture file, and the blocks they stand for.          *)
Refs(c) == 2..Len(content[c])
Places(c, k) == 1..content[c][k].n_blocks
RefBlock(c, k, j) == content[Asset][content[c][k].offset + j - 1]

RefersTo(c, k) ==
  /\ content[c][k] = Execute(content[c][k].offset, content[c][k].n_blocks)
  /\ content[c][k].offset \in Nat \ {0} /\ content[c][k].n_blocks \in Nat \ {0}
  /\ content[c][k].offset + content[c][k].n_blocks <= Len(content[Asset]) + 1

Allocates(b, s) == b.kind = "allocate" /\ b.sets = GroupOf(s)

(* A place in a capture is that of a reference in it and in what it refers   *)
(* to.                                                                       *)
AllocatedBefore(c, s, k, j) ==
  \E m \in Refs(c) : \E n \in Places(c, m) :
    (m < k \/ (m = k /\ n < j)) /\ Allocates(RefBlock(c, m, n), s)

(* Each block has its place in the state the capture began in.               *)
Belongs(c, k, j) ==
  LET b == RefBlock(c, k, j)
      state == at_capture[c]
  IN \/ /\ b.kind = "init" /\ b.buffer \in DOMAIN state.buffers
        /\ b.contents = state.buffers[b.buffer]
     \/ /\ b.kind = "allocate" /\ b.sets \in Groups
     \/ /\ b.kind = "update" /\ b.set \in DOMAIN state.sets /\ b.binding \in Bindings(b.set)
        /\ b.buffer \in DOMAIN state.buffers
        /\ b.buffer = state.sets[b.set][b.binding]
        /\ AllocatedBefore(c, b.set, k, j)

AllocatedOnce(c) ==
  \A k, m \in Refs(c) : \A j \in Places(c, k), n \in Places(c, m) :
    /\ RefBlock(c, k, j).kind = "allocate" /\ RefBlock(c, m, n).kind = "allocate"
    /\ RefBlock(c, k, j).sets = RefBlock(c, m, n).sets
    => k = m /\ j = n

IsSound(c) ==
  /\ content[c] # <<>>
  /\ content[c][1] = [kind |-> "create", buffers |-> DOMAIN at_capture[c].buffers]
  /\ \A k \in Refs(c) : RefersTo(c, k)
  /\ \A k \in Refs(c) : \A j \in Places(c, k) : Belongs(c, k, j)
  /\ AllocatedOnce(c)

InitializesBuffer(c, b) ==
  \E k \in Refs(c) : \E j \in Places(c, k) :
    RefBlock(c, k, j).kind = "init" /\ RefBlock(c, k, j).buffer = b
AllocatesSet(c, s) ==
  \E k \in Refs(c) : \E j \in Places(c, k) : Allocates(RefBlock(c, k, j), s)
UpdatesSet(c, s, i) ==
  \E k \in Refs(c) : \E j \in Places(c, k) :
    RefBlock(c, k, j).kind = "update" /\ RefBlock(c, k, j).set = s /\ RefBlock(c, k, j).binding = i
RestoresSet(c, s) ==
  /\ AllocatesSet(c, s)
  /\ \A i \in Bindings(s) : at_capture[c].sets[s][i] # NoBuffer => UpdatesSet(c, s, i)

(* Nothing of the state is left out.                                         *)
IsComplete(c) ==
  /\ \A b \in DOMAIN at_capture[c].buffers : InitializesBuffer(c, b)
  /\ \A s \in DOMAIN at_capture[c].sets : RestoresSet(c, s)

AssetHasNoReferences ==
  \A k \in DOMAIN content[Asset] : content[Asset][k].kind \in {"init", "allocate", "update"}

StateType(state) ==
  /\ DOMAIN state.buffers \subseteq Buffers /\ state.buffers \in [DOMAIN state.buffers -> Nat]
  /\ DOMAIN state.sets \subseteq Sets
  /\ \A s \in DOMAIN state.sets : state.sets[s] \in [Bindings(s) -> Buffers \cup {NoBuffer}]

(* The capture that is being written has what was visited.                   *)
WriterInv ==
  /\ writer.output_stream \in {Asset, captured}
  /\ writer.pc = "idle" => writer = NoWriter
  /\ writer.processed =
       IF writer.pc = "sets" THEN {GroupOf(s) : s \in {t \in LiveSets : t <= writer.last}} ELSE {}
  /\ writer.output_stream # Asset =>
       LET c == writer.output_stream
       IN /\ at_capture[c] = State
          /\ \A b \in LiveBuffers :
               writer.pc = "sets" \/ b <= writer.last => InitializesBuffer(c, b)
          /\ \A s \in LiveSets :
               writer.pc = "sets" /\ s <= writer.last => RestoresSet(c, s)
          /\ \A k \in Refs(c) : \A j \in Places(c, k) :
               RefBlock(c, k, j).kind = "allocate" => RefBlock(c, k, j).sets \in writer.processed

CapturesInv ==
  /\ DOMAIN at_capture = Captures
  /\ \A c \in 1..captured :
       /\ IsSound(c) /\ StateType(at_capture[c])
       /\ c # writer.output_stream => IsComplete(c)

FileInv ==
  /\ TableInv
  /\ CleanSetsAreInTheFile
  /\ AssetHasNoReferences
  /\ WriterInv
  /\ CapturesInv

SnapshotInv == IInv /\ FileInv

-----------------------------------------------------------------------------
(* The replay of capture `replayed'.  Each entry of `executed' is what is    *)
(* referred to, the last one as far as the asset file is read.               *)
InAsset == Len(file_stack) = 2
Main == ActiveFileContext(replayed, TRUE, 0)
EntriesDone == IF InAsset \/ read_state = "error" THEN Len(executed) - 1 ELSE Len(executed)

Ended == file_stack = <<>> /\ read_state = "end_of_file" /\ Len(executed) = Len(given[replayed])
InMain == file_stack = <<Main>> /\ read_state = "continue"
AssetMissing ==
  /\ file_stack = <<Main>> /\ read_state = "error"
  /\ Asset \notin DOMAIN given /\ executed # <<>> /\ executed[Len(executed)] = <<>>
InAssetFile ==
  LET b == given[replayed][Len(executed)]
      done == executed[Len(executed)]
  IN /\ read_state \in {"continue", "end_processing"}
     /\ Asset \in DOMAIN given /\ executed # <<>> /\ b.kind = "execute"
     /\ file_stack = <<Main, ActiveFileContext(Asset, b.n_blocks = 0,
                          IF b.n_blocks = 0 THEN 1 ELSE b.n_blocks - Len(done))>>
     /\ b.n_blocks # 0 => Len(done) < b.n_blocks
     /\ position[Asset] = b.offset + Len(done)
     /\ done = SubSeq(given[Asset], b.offset, position[Asset] - 1)
     /\ read_state = "end_processing" => given # content

StackInv ==
  /\ position \in [DOMAIN given -> Nat]
  /\ \A f \in DOMAIN given : position[f] \in 1..(Len(given[f]) + 1)
  /\ executed \in Seq(Seq(Blocks))
  /\ position[replayed] = Len(executed) + 1
  /\ \A k \in 1..EntriesDone : executed[k] = Referenced(given[replayed][k])
  /\ Ended \/ InMain \/ AssetMissing \/ InAssetFile

(* What has been made is what has been executed.                             *)
Executed ==
  {b \in Blocks : \E k \in DOMAIN executed : \E j \in DOMAIN executed[k] : b = executed[k][j]}

RestoredInv ==
  LET state == at_capture[replayed]
  IN /\ restored = [buffers |-> restored.buffers, sets |-> restored.sets, valid |-> TRUE]
     /\ executed = <<>> => restored = Nothing
     /\ restored.buffers \in [DOMAIN restored.buffers -> Int]
     /\ executed # <<>> => DOMAIN restored.buffers = DOMAIN state.buffers
     /\ \A s \in DOMAIN restored.sets :
          /\ s \in Sets /\ restored.sets[s] \in [Bindings(s) -> Buffers \cup {NoBuffer}]
          /\ \E b \in Executed : Allocates(b, s)
          /\ \A i \in Bindings(s) :
               restored.sets[s][i] # NoBuffer =>
                 s \in DOMAIN state.sets /\ restored.sets[s][i] = state.sets[s][i]
     /\ \A b \in Executed :
          /\ b.kind = "init" => restored.buffers[b.buffer] = state.buffers[b.buffer]
          /\ b.kind = "allocate" => b.sets \subseteq DOMAIN restored.sets
          /\ b.kind = "update" =>
               b.set \in DOMAIN restored.sets /\ restored.sets[b.set][b.binding] = state.sets[b.set][b.binding]

NotReplaying ==
  /\ NoFile /\ given = NoFiles /\ replayed = 0 /\ executed = <<>> /\ restored = Nothing

Replaying ==
  /\ replayed \in 1..captured /\ writer = NoWriter /\ live = {}
  /\ given \in FilesGiven(replayed)
  /\ StackInv
  /\ restored.valid \in BOOLEAN
  /\ given = content => RestoredInv

ReplayInv == SnapshotInv /\ (NotReplaying \/ Replaying)

-----------------------------------------------------------------------------
(* Groups, and what a set needs                                              *)

LEMMA GroupFacts ==
  ASSUME NEW s \in Sets
  PROVE  /\ GroupOf(s) \in Groups /\ s \in GroupOf(s) /\ GroupOf(s) \subseteq Sets
         /\ \A t \in GroupOf(s) : GroupOf(t) = GroupOf(s)
         /\ \E t \in GroupOf(s) : IsFirst(t)
         /\ \A g \in Groups : s \in g => g = GroupOf(s)
<1>1. GroupOf(s) \in Groups /\ s \in GroupOf(s)
  BY GroupOfType
<1>2. GroupOf(s) \subseteq Sets
  BY <1>1, AssetFileAssumption
<1>3. ASSUME NEW t \in GroupOf(s)
      PROVE  GroupOf(t) = GroupOf(s)
  <2>1. t \in Sets /\ GroupOf(t) \in Groups /\ t \in GroupOf(t)
    BY <1>2, GroupOfType
  <2> QED BY <1>1, <2>1, AssetFileAssumption
<1>4. \E t \in GroupOf(s) : IsFirst(t)
  <2>1. PICK t \in GroupOf(s) : \A u \in GroupOf(s) : t <= u
    BY <1>1, AssetFileAssumption
  <2> QED BY <1>3, <2>1 DEF IsFirst
<1>5. \A g \in Groups : s \in g => g = GroupOf(s)
  BY <1>1, AssetFileAssumption
<1> QED BY <1>1, <1>2, <1>3, <1>4, <1>5

LEMMA BindingsAreNumbers ==
  ASSUME NEW s \in Sets
  PROVE  /\ LastBinding[s] \in Nat /\ Bindings(s) = 1..LastBinding[s]
         /\ \A T \in SUBSET Bindings(s) : Cardinality(T) \in Nat
<1>1. LastBinding[s] \in Nat /\ Bindings(s) = 1..LastBinding[s]
  BY AssetFileAssumption DEF Bindings
<1>2. IsFiniteSet(Bindings(s))
  BY <1>1, FS_Interval
<1> QED BY <1>1, <1>2, FS_Subset, FS_CardinalityType

(* Each active binding of a set is written once, and nothing else.           *)
LEMMA UpdatesFacts ==
  ASSUME AssetTypeOK, NEW s \in Sets
  PROVE  /\ Updates(s) \in Seq(Blocks) /\ Len(Updates(s)) \in Nat
         /\ \A j \in 1..Len(Updates(s)) :
              /\ Updates(s)[j].kind = "update" /\ Updates(s)[j].set = s
              /\ Updates(s)[j].binding \in Bindings(s) /\ IsActive(s, Updates(s)[j].binding)
              /\ Updates(s)[j].buffer = descriptors[s][Updates(s)[j].binding]
         /\ \A i \in Bindings(s) :
              IsActive(s, i) => \E j \in 1..Len(Updates(s)) : Updates(s)[j].binding = i
<1> DEFINE active == {i \in Bindings(s) : IsActive(s, i)}
           Nth(k) == CHOOSE i \in active : Rank(active, i) = k
<1>1. Updates(s) = [k \in 1..Cardinality(active) |->
                     [kind |-> "update", set |-> s, binding |-> Nth(k), buffer |-> descriptors[s][Nth(k)]]]
  BY DEF Updates, Rank
<1>2. /\ LastBinding[s] \in Nat /\ active \in SUBSET (1..LastBinding[s])
      /\ Cardinality(active) \in Nat
  BY BindingsAreNumbers
<1>3. ASSUME NEW k \in 1..Cardinality(active)
      PROVE  Nth(k) \in active /\ Rank(active, Nth(k)) = k
  <2>1. \E i \in active : Rank(active, i) = k
    BY <1>2, Counted
  <2> QED BY <2>1
<1>4. \A i \in active : Rank(active, i) \in 1..Cardinality(active)
  BY <1>2, RanksDiffer
<1>5. \A i, j \in active : Rank(active, i) = Rank(active, j) => i = j
  BY <1>2, RanksDiffer
<1>6. \A i \in active : Nth(Rank(active, i)) = i
  BY <1>3, <1>4, <1>5
<1>7. Updates(s) \in Seq(Blocks) /\ Len(Updates(s)) \in Nat
  BY UpdatesType, LenProperties
<1> HIDE DEF Nth
<1>8. Len(Updates(s)) = Cardinality(active)
  <2> HIDE DEF active
  <2>1. DOMAIN Updates(s) = 1..Cardinality(active)
    BY <1>1
  <2>2. DOMAIN Updates(s) = 1..Len(Updates(s))
    BY <1>7, LenProperties
  <2>3. \A m, n \in Nat : 1..m = 1..n => m = n
    <3> SUFFICES ASSUME NEW m \in Nat, NEW n \in Nat, 1..m = 1..n PROVE m = n
      OBVIOUS
    <3>1. m \in 1..m <=> m \in 1..n
      OBVIOUS
    <3>2. n \in 1..m <=> n \in 1..n
      OBVIOUS
    <3> QED BY <3>1, <3>2
  <2> QED BY <1>2, <1>7, <2>1, <2>2, <2>3
<1>9. \A j \in 1..Len(Updates(s)) :
         Updates(s)[j] = [kind |-> "update", set |-> s, binding |-> Nth(j), buffer |-> descriptors[s][Nth(j)]]
  <2> DEFINE new(k) == [kind |-> "update", set |-> s, binding |-> Nth(k), buffer |-> descriptors[s][Nth(k)]]
  <2>1. Updates(s) = [k \in 1..Cardinality(active) |-> new(k)]
    BY <1>1
  <2> HIDE DEF new, active
  <2>2. \A j \in 1..Len(Updates(s)) : Updates(s)[j] = new(j)
    BY <1>8, <2>1
  <2> QED BY <2>2 DEF new
<1>10. \A j \in 1..Len(Updates(s)) :
        /\ Updates(s)[j].kind = "update" /\ Updates(s)[j].set = s
        /\ Updates(s)[j].binding \in Bindings(s) /\ IsActive(s, Updates(s)[j].binding)
        /\ Updates(s)[j].buffer = descriptors[s][Updates(s)[j].binding]
  <2> SUFFICES ASSUME NEW j \in 1..Len(Updates(s))
               PROVE  /\ Updates(s)[j].kind = "update" /\ Updates(s)[j].set = s
                      /\ Updates(s)[j].binding \in Bindings(s) /\ IsActive(s, Updates(s)[j].binding)
                      /\ Updates(s)[j].buffer = descriptors[s][Updates(s)[j].binding]
    OBVIOUS
  <2>1. Nth(j) \in active
    BY <1>3, <1>8
  <2>2. Updates(s)[j] = [kind |-> "update", set |-> s, binding |-> Nth(j), buffer |-> descriptors[s][Nth(j)]]
    BY <1>9
  <2>3. Nth(j) \in Bindings(s) /\ IsActive(s, Nth(j))
    BY <2>1
  <2> HIDE DEF active
  <2> QED BY <2>2, <2>3
<1>11. \A i \in Bindings(s) :
         IsActive(s, i) => \E j \in 1..Len(Updates(s)) : Updates(s)[j].binding = i
  <2> SUFFICES ASSUME NEW i \in Bindings(s), IsActive(s, i)
               PROVE  \E j \in 1..Len(Updates(s)) : Updates(s)[j].binding = i
    OBVIOUS
  <2>1. i \in active
    OBVIOUS
  <2> HIDE DEF active
  <2>2. Rank(active, i) \in 1..Len(Updates(s)) /\ Nth(Rank(active, i)) = i
    BY <1>4, <1>6, <1>8, <2>1
  <2>3. Updates(s)[Rank(active, i)].binding = Nth(Rank(active, i))
    <3> DEFINE k == Rank(active, i)
    <3>1. k \in 1..Len(Updates(s))
      BY <2>2
    <3> HIDE DEF k
    <3>2. Updates(s)[k] = [kind |-> "update", set |-> s, binding |-> Nth(k), buffer |-> descriptors[s][Nth(k)]]
      BY <1>9, <3>1
    <3>3. Updates(s)[k].binding = Nth(k)
      BY <3>2
    <3> QED BY <3>3 DEF k
  <2> QED BY <2>2, <2>3
<1> QED BY <1>7, <1>10, <1>11

(* The same descriptors, the same ones of them active: the same blocks.      *)
LEMMA NeedsStay ==
  ASSUME NEW s \in Sets, descriptors'[s] = descriptors[s],
         \A i \in Bindings(s) : descriptors[s][i] \in live' <=> descriptors[s][i] \in live
  PROVE  Needs(s)' = Needs(s)
<1>1. {i \in Bindings(s) : IsActive(s, i)}' = {i \in Bindings(s) : IsActive(s, i)}
  BY DEF IsActive
<1>2. Updates(s)' = Updates(s)
  BY <1>1 DEF Updates
<1> QED BY <1>2 DEF Needs

LEMMA NeedsFacts ==
  ASSUME AssetTypeOK, NEW s \in Sets
  PROVE  /\ Needs(s) \in Seq(Blocks) /\ Len(Needs(s)) \in Nat
         /\ IsFirst(s) => /\ Len(Needs(s)) # 0
                          /\ Needs(s)[1] = [kind |-> "allocate", sets |-> GroupOf(s)]
         /\ \A j \in 1..Len(Needs(s)) : ~(IsFirst(s) /\ j = 1) =>
              /\ Needs(s)[j].kind = "update" /\ Needs(s)[j].set = s
              /\ Needs(s)[j].binding \in Bindings(s) /\ IsActive(s, Needs(s)[j].binding)
              /\ Needs(s)[j].buffer = descriptors[s][Needs(s)[j].binding]
         /\ \A i \in Bindings(s) : IsActive(s, i) =>
              \E j \in 1..Len(Needs(s)) : Needs(s)[j].kind = "update" /\ Needs(s)[j].binding = i
<1> DEFINE u == Updates(s)
           a == [kind |-> "allocate", sets |-> GroupOf(s)]
           e == IF IsFirst(s) THEN <<a>> ELSE <<>>
<1>1. a \in Blocks
  BY GroupOfType DEF Blocks
<1> HIDE DEF a
<1>2. e \in Seq(Blocks) /\ Len(e) = (IF IsFirst(s) THEN 1 ELSE 0) /\ (IsFirst(s) => e[1] = a)
  BY <1>1
<1> HIDE DEF e
<1>3. u \in Seq(Blocks) /\ Len(u) \in Nat
  BY UpdatesFacts
<1>4. Needs(s) = e \o u
  BY DEF Needs, e, a
<1>5. /\ Needs(s) \in Seq(Blocks) /\ Len(Needs(s)) = Len(e) + Len(u)
      /\ \A i \in 1..(Len(e) + Len(u)) :
           Needs(s)[i] = IF i <= Len(e) THEN e[i] ELSE u[i - Len(e)]
  <2> HIDE DEF u
  <2>1. /\ e \o u \in Seq(Blocks) /\ Len(e \o u) = Len(e) + Len(u)
        /\ \A i \in 1..(Len(e) + Len(u)) :
             (e \o u)[i] = IF i <= Len(e) THEN e[i] ELSE u[i - Len(e)]
    BY <1>2, <1>3, ConcatProperties
  <2> QED BY <1>4, <2>1, Zenon
<1>6. CASE IsFirst(s)
  <2>1. /\ Len(Needs(s)) = 1 + Len(u) /\ Needs(s)[1] = a
        /\ \A j \in 1..Len(Needs(s)) : j # 1 => j - 1 \in 1..Len(u) /\ Needs(s)[j] = u[j - 1]
        /\ \A j \in 1..Len(u) : j + 1 \in 1..Len(Needs(s)) /\ Needs(s)[j + 1] = u[j]
    BY <1>2, <1>3, <1>5, <1>6
  <2> HIDE DEF u
  <2>2. \A j \in 1..Len(Needs(s)) : j # 1 =>
          /\ Needs(s)[j].kind = "update" /\ Needs(s)[j].set = s
          /\ Needs(s)[j].binding \in Bindings(s) /\ IsActive(s, Needs(s)[j].binding)
          /\ Needs(s)[j].buffer = descriptors[s][Needs(s)[j].binding]
    BY <2>1, UpdatesFacts DEF u
  <2>3. \A i \in Bindings(s) : IsActive(s, i) =>
          \E j \in 1..Len(Needs(s)) : Needs(s)[j].kind = "update" /\ Needs(s)[j].binding = i
    BY <2>1, UpdatesFacts DEF u
  <2>4. Len(Needs(s)) \in Nat /\ Len(Needs(s)) # 0
    BY <1>3, <2>1
  <2> QED BY <1>5, <1>6, <2>1, <2>2, <2>3, <2>4 DEF a
<1>7. CASE ~IsFirst(s)
  <2>1. /\ Len(Needs(s)) = Len(u)
        /\ \A j \in 1..Len(Needs(s)) : Needs(s)[j] = u[j]
    BY <1>2, <1>3, <1>5, <1>7
  <2>2. Needs(s) \in Seq(Blocks) /\ Len(Needs(s)) \in Nat
    BY <1>3, <1>5, <2>1
  <2> QED BY <1>7, <2>1, <2>2, UpdatesFacts
<1> QED BY <1>6, <1>7

-----------------------------------------------------------------------------
(* The application                                                           *)

LEMMA LiveIsTyped ==
  ASSUME AssetTypeOK
  PROVE  /\ live \subseteq created /\ created \subseteq Buffers \cup Sets
         /\ LiveSets \subseteq Sets /\ LiveBuffers \subseteq Buffers
         /\ NoBuffer \notin created /\ Buffers \cap Sets = {}
         /\ \A h \in Handles : h \in Nat \ {0}
BY AssetFileAssumption DEF AssetTypeOK, Handles, LiveSets, LiveBuffers, NoBuffer

(* A set that is clean behind a step needs what it needed before.            *)
CleanSetsStay ==
  \A s \in LiveSets' \ Marked' : s \in LiveSets \ Marked /\ Needs(s)' = Needs(s)

LEMMA CreateBufferKeepsTable ==
  ASSUME AssetTypeOK, TableInv, NEW b \in Buffers, CreateBuffer(b)
  PROVE  TableInv' /\ CleanSetsStay
<1>1. /\ live' = live \cup {b} /\ created' = created \cup {b} /\ b \notin created
      /\ dirty' = dirty \cup {b} /\ descriptors' = descriptors /\ bound_to' = bound_to
      /\ LiveSets' = LiveSets /\ b \notin Sets /\ destroyed' = destroyed
  BY LiveIsTyped DEF CreateBuffer, LiveSets
<1>2. ASSUME NEW s \in Sets, NEW i \in Bindings(s)
      PROVE  descriptors[s][i] \in live' <=> descriptors[s][i] \in live
  <2>1. descriptors[s][i] \in created \cup {NoBuffer}
    BY DEF TableInv
  <2>2. b # NoBuffer
    BY AssetFileAssumption
  <2> QED BY <1>1, <2>1, <2>2
<1>3. TableInv'
  BY <1>1, <1>2, LiveIsTyped, GroupFacts DEF TableInv
<1>4. CleanSetsStay
  BY <1>1, <1>2, LiveIsTyped, NeedsStay DEF CleanSetsStay, Marked
<1> QED BY <1>3, <1>4

LEMMA SubmissionKeepsTable ==
  ASSUME AssetTypeOK, TableInv, NEW b \in Buffers, TrackAssetsInSubmission(b) \/ CarryOut(b)
  PROVE  TableInv' /\ CleanSetsStay
<1>1. /\ live' = live /\ created' = created /\ dirty' \in {dirty, dirty \cup {b}}
      /\ descriptors' = descriptors /\ bound_to' = bound_to /\ LiveSets' = LiveSets
      /\ destroyed' = destroyed
  BY DEF TrackAssetsInSubmission, CarryOut, LiveSets
<1>2. TableInv'
  BY <1>1 DEF TableInv
<1>3. CleanSetsStay
  BY <1>1, LiveIsTyped, NeedsStay DEF CleanSetsStay, Marked
<1> QED BY <1>2, <1>3

(* The sets that refer to it are known, and will be marked.                  *)
LEMMA RemoveEntryKeepsTable ==
  ASSUME AssetTypeOK, TableInv, NEW b \in Buffers, RemoveEntry(b)
  PROVE  TableInv' /\ CleanSetsStay
<1>1. /\ live' = live \ {b} /\ created' = created /\ b \in live
      /\ descriptors' = descriptors /\ bound_to' = bound_to
      /\ dirty' = dirty \ {b} /\ destroyed' = destroyed \cup {b}
      /\ LiveSets' = LiveSets /\ b \notin Sets
  BY LiveIsTyped DEF RemoveEntry, LiveSets
<1>2. TableInv'
  <2>1. \A s \in Sets \ live' : descriptors'[s] = Unbound(s)
    BY <1>1 DEF TableInv
  <2>2. ASSUME NEW s \in LiveSets, NEW i \in Bindings(s), descriptors[s][i] \in live'
        PROVE  <<descriptors[s][i], s>> \in bound_to'
    BY <1>1, <2>2 DEF TableInv
  <2>3. \A s \in LiveSets : \A t \in GroupOf(s) : IsFirst(t) => t \in live'
    BY <1>1, LiveIsTyped, GroupFacts DEF TableInv
  <2> QED BY <1>1, <2>1, <2>2, <2>3 DEF TableInv
<1>3. ASSUME NEW s \in LiveSets' \ Marked'
      PROVE  s \in LiveSets \ Marked /\ Needs(s)' = Needs(s)
  <2>1. s \in LiveSets \ Marked /\ s \in Sets /\ <<b, s>> \notin bound_to
    BY <1>1, LiveIsTyped DEF Marked
  <2>2. ASSUME NEW i \in Bindings(s)
        PROVE  descriptors[s][i] \in live' <=> descriptors[s][i] \in live
    BY <1>1, <2>1 DEF TableInv
  <2> QED BY <1>1, <2>1, <2>2, NeedsStay
<1> QED BY <1>2, <1>3 DEF CleanSetsStay

LEMMA DestroyStateKeepsTable ==
  ASSUME AssetTypeOK, TableInv, DumpsAreAlone, NEW b \in Buffers, DestroyState(b)
  PROVE  TableInv' /\ CleanSetsStay
<1>1. LostMarks = {{}}
  BY TrackingIsAlone DEF DestroyState
<1>2. /\ live' = live /\ created' = created /\ b \notin live
      /\ descriptors' = descriptors /\ bound_to' = {e \in bound_to : e[1] # b}
      /\ dirty' = dirty \cup {s \in LiveSets : <<b, s>> \in bound_to}
      /\ destroyed' = destroyed \ {b} /\ LiveSets' = LiveSets
  BY <1>1 DEF DestroyState, LiveSets, AssetTypeOK
<1>3. TableInv'
  <2>1. ASSUME NEW s \in LiveSets, NEW i \in Bindings(s), descriptors[s][i] \in live
        PROVE  <<descriptors[s][i], s>> \in bound_to'
    <3>1. <<descriptors[s][i], s>> \in bound_to /\ descriptors[s][i] # b
      BY <1>2, <2>1 DEF TableInv
    <3> QED BY <1>2, <3>1
  <2> QED BY <1>2, <2>1 DEF TableInv
<1>4. ASSUME NEW s \in LiveSets' \ Marked'
      PROVE  s \in LiveSets \ Marked /\ Needs(s)' = Needs(s)
  <2>1. s \in LiveSets /\ s \notin dirty /\ <<b, s>> \notin bound_to /\ s \in Sets
    BY <1>2, LiveIsTyped DEF Marked
  <2>2. ASSUME NEW c \in destroyed
        PROVE  <<c, s>> \notin bound_to
    <3>1. c # b /\ <<c, s>> \in bound_to => <<c, s>> \in bound_to' /\ c \in destroyed'
      BY <1>2
    <3> QED BY <1>2, <2>1, <3>1 DEF Marked
  <2>3. s \notin Marked
    BY <2>1, <2>2 DEF Marked
  <2> QED BY <1>2, <2>1, <2>3, NeedsStay
<1> QED BY <1>3, <1>4 DEF CleanSetsStay

LEMMA AllocateSetsKeepsTable ==
  ASSUME AssetTypeOK, TableInv, NEW g \in Groups, AllocateSets(g)
  PROVE  TableInv' /\ CleanSetsStay
<1>1. /\ live' = live \cup g /\ created' = created \cup g /\ g \cap created = {}
      /\ dirty' = dirty \cup g /\ descriptors' = descriptors /\ bound_to' = bound_to
      /\ g \subseteq Sets /\ LiveSets' = LiveSets \cup g /\ destroyed' = destroyed
  BY AssetFileAssumption DEF AllocateSets, LiveSets
<1>2. ASSUME NEW s \in Sets, NEW i \in Bindings(s)
      PROVE  descriptors[s][i] \in live' <=> descriptors[s][i] \in live
  <2>1. descriptors[s][i] \in created \cup {NoBuffer}
    BY DEF TableInv
  <2>2. NoBuffer \notin g
    BY <1>1, AssetFileAssumption
  <2> QED BY <1>1, <2>1, <2>2
<1>3. TableInv'
  <2>1. ASSUME NEW s \in g, NEW i \in Bindings(s)
        PROVE  descriptors[s][i] \notin live
    <3>1. s \in Sets \ live
      BY <1>1, LiveIsTyped
    <3>2. descriptors[s] = Unbound(s)
      BY <3>1 DEF TableInv
    <3>3. descriptors[s][i] = NoBuffer
      BY <3>2 DEF Unbound
    <3> QED BY <3>3, LiveIsTyped
  <2>2. ASSUME NEW s \in LiveSets', NEW i \in Bindings(s), descriptors[s][i] \in live'
        PROVE  <<descriptors[s][i], s>> \in bound_to'
    BY <1>1, <1>2, <2>1, <2>2, LiveIsTyped DEF TableInv
  <2>3. ASSUME NEW s \in LiveSets', NEW t \in GroupOf(s), IsFirst(t)
        PROVE  t \in live'
    <3>1. CASE s \in g
      BY <1>1, <3>1, GroupFacts
    <3>2. CASE s \in LiveSets
      BY <1>1, <2>3, <3>2 DEF TableInv
    <3> QED BY <1>1, <3>1, <3>2
  <2>4. \A s \in Sets : \A i \in Bindings(s) : descriptors'[s][i] \in created' \cup {NoBuffer}
    BY <1>1 DEF TableInv
  <2>5. \A s \in Sets \ live' : descriptors'[s] = Unbound(s)
    BY <1>1 DEF TableInv
  <2> QED BY <1>1, <2>2, <2>3, <2>4, <2>5 DEF TableInv
<1>4. CleanSetsStay
  <2>1. \A s \in LiveSets' \ Marked' : s \in LiveSets \ Marked /\ s \in Sets
    BY <1>1, LiveIsTyped DEF Marked
  <2> QED BY <1>1, <1>2, <2>1, NeedsStay DEF CleanSetsStay
<1> QED BY <1>3, <1>4

(* The buffer learns which set refers to it.                                 *)
LEMMA UpdateSetKeepsTable ==
  ASSUME AssetTypeOK, TableInv, DumpsAreAlone,
         NEW s \in Sets, NEW b \in Buffers, NEW i \in Bindings(s), UpdateSet(s, i, b, "write")
  PROVE  TableInv' /\ CleanSetsStay
<1>0. LostMarks = {{}}
  BY TrackingIsAlone DEF UpdateSet
<1>1. /\ live' = live /\ created' = created /\ dirty' = dirty \cup {s}
      /\ descriptors' = [descriptors EXCEPT ![s][i] = b]
      /\ bound_to' = bound_to \cup {<<b, s>>} /\ LiveSets' = LiveSets
      /\ s \in live /\ b \in live /\ destroyed' = destroyed
  BY <1>0 DEF UpdateSet, LiveSets
<1>2. /\ DOMAIN descriptors = Sets /\ DOMAIN descriptors[s] = Bindings(s)
  BY DEF AssetTypeOK
<1>3. /\ \A t \in Sets : t # s => descriptors'[t] = descriptors[t]
      /\ \A j \in Bindings(s) : descriptors'[s][j] = IF j = i THEN b ELSE descriptors[s][j]
  BY <1>1, <1>2
<1>4. TableInv'
  <2>1. \A t \in Sets : \A j \in Bindings(t) : descriptors'[t][j] \in created' \cup {NoBuffer}
    BY <1>1, <1>3, LiveIsTyped DEF TableInv
  <2>2. \A t \in Sets \ live' : descriptors'[t] = Unbound(t)
    BY <1>1, <1>3 DEF TableInv
  <2>3. ASSUME NEW t \in LiveSets', NEW j \in Bindings(t), descriptors'[t][j] \in live'
        PROVE  <<descriptors'[t][j], t>> \in bound_to'
    <3>1. t \in Sets /\ t \in LiveSets
      BY <1>1, LiveIsTyped
    <3> QED BY <1>1, <1>3, <2>3, <3>1 DEF TableInv
  <2>4. \A t \in LiveSets' : \A u \in GroupOf(t) : IsFirst(u) => u \in live'
    BY <1>1 DEF TableInv
  <2> QED BY <2>1, <2>2, <2>3, <2>4 DEF TableInv
<1>5. CleanSetsStay
  <2>1. \A t \in LiveSets' \ Marked' : t \in LiveSets \ Marked /\ t \in Sets /\ t # s
    BY <1>1, LiveIsTyped DEF Marked
  <2>2. \A t \in LiveSets' \ Marked' : descriptors'[t] = descriptors[t]
    BY <1>3, <2>1
  <2> QED BY <1>1, <2>1, <2>2, NeedsStay DEF CleanSetsStay
<1> QED BY <1>4, <1>5

LEMMA FreeSetsKeepsTable ==
  ASSUME AssetTypeOK, TableInv, FirstIsFreedLast, NEW f \in Freed, FreeSets(f)
  PROVE  TableInv' /\ CleanSetsStay
<1>1. /\ live' = live \ f /\ created' = created /\ dirty' = dirty \ f
      /\ descriptors' = [s \in Sets |-> IF s \in f THEN Unbound(s) ELSE descriptors[s]]
      /\ bound_to' = {e \in bound_to :
           ~(e[2] \in f /\ \E i \in Bindings(e[2]) : descriptors[e[2]][i] = e[1])}
      /\ f \subseteq Sets /\ LiveSets' = LiveSets \ f /\ destroyed' = destroyed
  BY AssetFileAssumption DEF FreeSets, LiveSets
<1>2. ASSUME NEW s \in Sets \ f, NEW i \in Bindings(s)
      PROVE  descriptors[s][i] \in live' <=> descriptors[s][i] \in live
  BY <1>1, LiveIsTyped DEF TableInv, AssetTypeOK
<1>3. TableInv'
  <2>1. \A s \in Sets : \A i \in Bindings(s) : descriptors'[s][i] \in created' \cup {NoBuffer}
    BY <1>1 DEF TableInv, Unbound
  <2>2. \A s \in Sets \ live' : descriptors'[s] = Unbound(s)
    BY <1>1 DEF TableInv
  <2>3. ASSUME NEW s \in LiveSets', NEW i \in Bindings(s), descriptors'[s][i] \in live'
        PROVE  <<descriptors'[s][i], s>> \in bound_to'
    <3>1. s \in LiveSets /\ s \in Sets \ f /\ descriptors'[s] = descriptors[s]
      BY <1>1, LiveIsTyped
    <3>2. <<descriptors[s][i], s>> \in bound_to
      BY <1>2, <2>3, <3>1 DEF TableInv
    <3> QED BY <1>1, <3>1, <3>2
  <2>4. ASSUME NEW s \in LiveSets', NEW t \in GroupOf(s), IsFirst(t)
        PROVE  t \in live'
    <3>1. s \in LiveSets /\ s \in Sets \ f
      BY <1>1, LiveIsTyped
    <3>2. t \in live /\ GroupOf(t) = GroupOf(s) /\ s \in GroupOf(s)
      BY <2>4, <3>1, GroupFacts DEF TableInv
    <3>3. t \notin f
      BY <2>4, <3>1, <3>2 DEF FirstIsFreedLast
    <3> QED BY <1>1, <3>2, <3>3
  <2> QED BY <2>1, <2>2, <2>3, <2>4 DEF TableInv
<1>4. CleanSetsStay
  <2>1. ASSUME NEW s \in LiveSets' \ Marked'
        PROVE  s \in LiveSets \ Marked /\ s \in Sets \ f
    <3>1. s \in LiveSets \ dirty /\ s \in Sets \ f
      BY <1>1, LiveIsTyped DEF Marked
    <3>2. ASSUME NEW b \in destroyed
          PROVE  <<b, s>> \notin bound_to
      <4>1. <<b, s>>[2] = s
        OBVIOUS
      <4>2. <<b, s>> \in bound_to => <<b, s>> \in bound_to'
        BY <1>1, <3>1, <4>1
      <4> QED BY <1>1, <4>2 DEF Marked
    <3> QED BY <3>1, <3>2 DEF Marked
  <2>2. \A s \in LiveSets' \ Marked' : descriptors'[s] = descriptors[s]
    BY <1>1, <2>1
  <2> QED BY <1>2, <2>1, <2>2, NeedsStay DEF CleanSetsStay
<1> QED BY <1>3, <1>4

LEMMA AppKeepsTable ==
  ASSUME AssetTypeOK, TableInv, UpdatesAreTracked, FirstIsFreedLast, DumpsAreAlone, AppStep
  PROVE  TableInv' /\ CleanSetsStay
<1>1. CASE \E b \in Buffers : \/ CreateBuffer(b) \/ RemoveEntry(b) \/ DestroyState(b)
                             \/ TrackAssetsInSubmission(b) \/ CarryOut(b)
  BY <1>1, CreateBufferKeepsTable, RemoveEntryKeepsTable, DestroyStateKeepsTable, SubmissionKeepsTable
<1>2. CASE \E g \in Groups : AllocateSets(g)
  BY <1>2, AllocateSetsKeepsTable
<1>3. CASE \E s \in Sets, b \in Buffers, kind \in UpdateKinds :
             \E i \in Bindings(s) : UpdateSet(s, i, b, kind)
  <2>1. PICK s \in Sets, b \in Buffers, kind \in UpdateKinds :
          \E i \in Bindings(s) : UpdateSet(s, i, b, kind)
    BY <1>3
  <2>2. kind = "write"
    BY DEF UpdatesAreTracked
  <2> QED BY <2>1, <2>2, UpdateSetKeepsTable
<1>4. CASE \E f \in Freed : FreeSets(f)
  BY <1>4, FreeSetsKeepsTable
<1> QED BY <1>1, <1>2, <1>3, <1>4 DEF AppStep

-----------------------------------------------------------------------------
(* The files                                                                 *)

AssetGrows ==
  \A i \in DOMAIN content[Asset] :
    i \in DOMAIN content'[Asset] /\ content'[Asset][i] = content[Asset][i]

CaptureGrows(c) ==
  /\ at_capture'[c] = at_capture[c]
  /\ \A k \in DOMAIN content[c] : k \in DOMAIN content'[c] /\ content'[c][k] = content[c][k]

LEMMA FileFacts ==
  ASSUME AssetTypeOK, NEW f \in Captures \cup {Asset}
  PROVE  content[f] \in Seq(Blocks) /\ Len(content[f]) \in Nat /\ DOMAIN content[f] = 1..Len(content[f])
<1>1. content[f] \in Seq(Blocks)
  BY DEF AssetTypeOK
<1> QED BY <1>1, LenProperties

LEMMA FileFactsNext ==
  ASSUME AssetTypeOK', NEW f \in Captures \cup {Asset}
  PROVE  /\ content'[f] \in Seq(Blocks) /\ Len(content'[f]) \in Nat
         /\ DOMAIN content'[f] = 1..Len(content'[f])
<1>1. content'[f] \in Seq(Blocks)
  BY DEF AssetTypeOK
<1> QED BY <1>1, LenProperties

LEMMA GrowsLonger ==
  ASSUME NEW m \in Nat, NEW n \in Nat, \A i \in 1..m : i \in 1..n
  PROVE  m <= n
<1>1. CASE m = 0
  BY <1>1
<1>2. CASE m # 0
  <2>1. m \in 1..m
    BY <1>2
  <2> QED BY <2>1
<1> QED BY <1>1, <1>2

(* What was there from an offset on is there still.                          *)
LEMMA HasStays ==
  ASSUME AssetTypeOK, AssetTypeOK', AssetGrows, NEW offset, NEW blocks \in Seq(Blocks),
         Has(content[Asset], offset, blocks)
  PROVE  Has(content'[Asset], offset, blocks)
<1> DEFINE file == content[Asset]
           file2 == content'[Asset]
<1>1. /\ Len(file) \in Nat /\ DOMAIN file = 1..Len(file)
      /\ Len(file2) \in Nat /\ DOMAIN file2 = 1..Len(file2)
  BY FileFacts, FileFactsNext
<1>2. \A i \in 1..Len(file) : i \in 1..Len(file2) /\ file2[i] = file[i]
  BY <1>1 DEF AssetGrows
<1>3. Len(file) <= Len(file2)
  <2> HIDE DEF file, file2
  <2> QED BY <1>1, <1>2, GrowsLonger
<1>4. Len(blocks) \in Nat
  BY LenProperties
<1> HIDE DEF file, file2
<1>5. Has(file, offset, blocks)
  BY DEF file
<1>6. ASSUME NEW j \in 1..Len(blocks)
      PROVE  file2[offset + j - 1] = blocks[j]
  <2>1. offset + j - 1 \in 1..Len(file)
    BY <1>1, <1>4, <1>5 DEF Has
  <2> QED BY <1>2, <1>5, <2>1 DEF Has
<1>7. Has(file2, offset, blocks)
  <2>1. \A l, m, n, o \in Nat : m <= n /\ o + l <= m + 1 => o + l <= n + 1
    OBVIOUS
  <2>2. offset \in Nat \ {0} /\ offset + Len(blocks) <= Len(file) + 1
    BY <1>5 DEF Has
  <2>3. offset + Len(blocks) <= Len(file2) + 1
    BY <1>1, <1>3, <1>4, <2>1, <2>2
  <2> QED BY <1>6, <2>2, <2>3 DEF Has
<1> QED BY <1>7 DEF file2

(* A reference to what a file has.                                           *)
LEMMA ReferencesStay ==
  ASSUME AssetTypeOK, AssetTypeOK', AssetGrows, NEW c \in Captures, CaptureGrows(c),
         NEW k \in Refs(c), RefersTo(c, k)
  PROVE  /\ k \in Refs(c)' /\ content'[c][k] = content[c][k] /\ RefersTo(c, k)'
         /\ Places(c, k)' = Places(c, k)
         /\ \A j \in Places(c, k) : RefBlock(c, k, j)' = RefBlock(c, k, j)
<1> DEFINE r == content[c][k]
           file == content[Asset]
           file2 == content'[Asset]
<1>1. /\ Len(content[c]) \in Nat /\ DOMAIN content[c] = 1..Len(content[c])
      /\ Len(content'[c]) \in Nat /\ DOMAIN content'[c] = 1..Len(content'[c])
  BY FileFacts, FileFactsNext
<1>2. k \in DOMAIN content[c]
  BY <1>1 DEF Refs
<1>3. content'[c][k] = r /\ k \in Refs(c)'
  <2>1. content'[c][k] = r /\ k \in DOMAIN content'[c]
    BY <1>2 DEF CaptureGrows
  <2> QED BY <1>1, <2>1 DEF Refs
<1>4. /\ Len(file) \in Nat /\ DOMAIN file = 1..Len(file)
      /\ Len(file2) \in Nat /\ DOMAIN file2 = 1..Len(file2)
  BY FileFacts, FileFactsNext
<1>5. \A i \in 1..Len(file) : i \in 1..Len(file2) /\ file2[i] = file[i]
  BY <1>4 DEF AssetGrows
<1>6. /\ r = Execute(r.offset, r.n_blocks) /\ r.offset \in Nat \ {0} /\ r.n_blocks \in Nat \ {0}
      /\ r.offset + r.n_blocks <= Len(file) + 1
  BY DEF RefersTo
<1> HIDE DEF r, file, file2
<1>7. Len(file) <= Len(file2)
  BY <1>4, <1>5, GrowsLonger
<1>8. RefersTo(c, k)'
  <2>1. r.offset + r.n_blocks <= Len(file2) + 1
    BY <1>4, <1>6, <1>7
  <2> QED BY <1>3, <1>6, <2>1 DEF RefersTo, file2
<1>9. Places(c, k)' = Places(c, k)
  BY <1>3 DEF Places, r
<1>10. ASSUME NEW j \in 1..r.n_blocks
       PROVE  file2[r.offset + j - 1] = file[r.offset + j - 1]
  BY <1>4, <1>5, <1>6
<1>11. \A j \in Places(c, k) : RefBlock(c, k, j)' = RefBlock(c, k, j)
  BY <1>3, <1>10 DEF RefBlock, Places, file, file2, r
<1> QED BY <1>3, <1>8, <1>9, <1>11 DEF r

LEMMA RestoresStays ==
  ASSUME AssetTypeOK, AssetTypeOK', AssetGrows, NEW c \in Captures, CaptureGrows(c),
         \A k \in Refs(c) : RefersTo(c, k)
  PROVE  /\ \A b : InitializesBuffer(c, b) => InitializesBuffer(c, b)'
         /\ \A s : RestoresSet(c, s) => RestoresSet(c, s)'
         /\ \A s : AllocatesSet(c, s) => AllocatesSet(c, s)'
         /\ \A k \in Refs(c) : \A j \in Places(c, k) : Belongs(c, k, j) => Belongs(c, k, j)'
<1>1. \A k \in Refs(c) : k \in Refs(c)' /\ Places(c, k)' = Places(c, k)
                         /\ \A j \in Places(c, k) : RefBlock(c, k, j)' = RefBlock(c, k, j)
  BY ReferencesStay
<1>2. ASSUME NEW b, InitializesBuffer(c, b)
      PROVE  InitializesBuffer(c, b)'
  BY <1>1, <1>2 DEF InitializesBuffer
<1>3. ASSUME NEW s, AllocatesSet(c, s)
      PROVE  AllocatesSet(c, s)'
  BY <1>1, <1>3 DEF AllocatesSet, Allocates
<1>4. ASSUME NEW s, NEW i, UpdatesSet(c, s, i)
      PROVE  UpdatesSet(c, s, i)'
  BY <1>1, <1>4 DEF UpdatesSet
<1>5. at_capture'[c] = at_capture[c]
  BY DEF CaptureGrows
<1>6. ASSUME NEW s, RestoresSet(c, s)
      PROVE  RestoresSet(c, s)'
  BY <1>3, <1>4, <1>5, <1>6 DEF RestoresSet
<1>7. ASSUME NEW s, NEW k \in Refs(c), NEW j \in Places(c, k), AllocatedBefore(c, s, k, j)
      PROVE  AllocatedBefore(c, s, k, j)'
  BY <1>1, <1>7 DEF AllocatedBefore, Allocates
<1>8. ASSUME NEW k \in Refs(c), NEW j \in Places(c, k), Belongs(c, k, j)
      PROVE  Belongs(c, k, j)'
  <2>1. RefBlock(c, k, j)' = RefBlock(c, k, j)
    BY <1>1
  <2>2. \A s : AllocatedBefore(c, s, k, j) => AllocatedBefore(c, s, k, j)'
    BY <1>7
  <2>3. AllocatedBefore(c, RefBlock(c, k, j).set, k, j) => AllocatedBefore(c, RefBlock(c, k, j).set, k, j)'
    <3>1. PICK s : s = RefBlock(c, k, j).set
      OBVIOUS
    <3>2. AllocatedBefore(c, s, k, j) => AllocatedBefore(c, s, k, j)'
      BY <2>2
    <3>3. s = RefBlock(c, k, j)'.set
      BY <2>1, <3>1
    <3>4. AllocatedBefore(c, RefBlock(c, k, j).set, k, j) = AllocatedBefore(c, s, k, j)
      BY <3>1
    <3>5. AllocatedBefore(c, RefBlock(c, k, j).set, k, j)' = AllocatedBefore(c, s, k, j)'
      BY <3>3
    <3> QED BY <3>2, <3>4, <3>5
  <2> QED BY <1>5, <1>8, <2>1, <2>3 DEF Belongs
<1> QED BY <1>2, <1>3, <1>6, <1>8

(* A capture nothing is appended to stays what it is.                        *)
LEMMA CaptureStays ==
  ASSUME AssetTypeOK, AssetTypeOK', AssetGrows, NEW c \in Captures,
         content'[c] = content[c], at_capture'[c] = at_capture[c], IsSound(c)
  PROVE  IsSound(c)' /\ (IsComplete(c) => IsComplete(c)')
<1>1. CaptureGrows(c)
  BY DEF CaptureGrows
<1>2. \A k \in Refs(c) : RefersTo(c, k)
  BY DEF IsSound
<1>3. /\ Refs(c)' = Refs(c)
      /\ \A k \in Refs(c) :
           /\ RefersTo(c, k)' /\ Places(c, k)' = Places(c, k)
           /\ \A j \in Places(c, k) : RefBlock(c, k, j)' = RefBlock(c, k, j)
  BY <1>1, <1>2, ReferencesStay DEF Refs
<1>4. AllocatedOnce(c)'
  BY <1>3 DEF AllocatedOnce, IsSound
<1>5. IsSound(c)'
  <2>1. \A k \in Refs(c)' : \A j \in Places(c, k)' : Belongs(c, k, j)'
    BY <1>1, <1>2, <1>3, RestoresStays DEF IsSound
  <2>2. content'[c] # <<>> /\ content'[c][1] = [kind |-> "create", buffers |-> DOMAIN at_capture'[c].buffers]
    BY DEF IsSound
  <2> QED BY <1>3, <1>4, <2>1, <2>2 DEF IsSound
<1>6. ASSUME IsComplete(c)
      PROVE  IsComplete(c)'
  BY <1>1, <1>2, <1>6, RestoresStays DEF IsComplete
<1> QED BY <1>5, <1>6

(* What a dump leaves in the files, the wrapper having been dirty or not.    *)
LEMMA DumpFacts ==
  ASSUME AssetTypeOK, AssetHasNoReferences, NEW h \in Handles, NEW blocks \in Seq(Blocks),
         Dump(h, blocks), h \notin dirty => Has(content[Asset], asset_file_offsets[h], blocks),
         \A j \in 1..Len(blocks) : blocks[j].kind \in {"init", "allocate", "update"}
  PROVE  /\ AssetGrows /\ AssetHasNoReferences'
         /\ Has(content'[Asset], asset_file_offsets'[h], blocks)
         /\ dirty' = dirty \ {h}
         /\ \A g \in Handles : g # h => asset_file_offsets'[g] = asset_file_offsets[g]
         /\ \A c \in Captures :
              content'[c] = IF c = writer.output_stream /\ Len(blocks) > 0
                              THEN Append(content[c], Execute(asset_file_offsets'[h], Len(blocks)))
                              ELSE content[c]
<1> DEFINE file == content[Asset]
           offset == IF h \in dirty THEN Len(file) + 1 ELSE asset_file_offsets[h]
           new == IF h \in dirty THEN blocks ELSE <<>>
<1>1. AssetGrows /\ dirty' = dirty \ {h}
  BY DumpExtends DEF AssetGrows
<1>2. \A g \in Handles : g # h => asset_file_offsets'[g] = asset_file_offsets[g]
  BY DumpExtends
<1>3. /\ file \in Seq(Blocks) /\ Len(file) \in Nat /\ DOMAIN file = 1..Len(file)
      /\ Len(blocks) \in Nat /\ Len(blocks) >= 0
  BY FileFacts, LenProperties
<1>4. /\ asset_file_offsets \in [Handles -> Nat]
      /\ asset_file_offsets' = [asset_file_offsets EXCEPT ![h] = offset]
      /\ Write(new, offset, Len(blocks))
  BY DEF Dump, AssetTypeOK
<1>5. asset_file_offsets'[h] = offset
  BY <1>4
<1>6. content'[Asset] = file \o new /\ new \in Seq(Blocks) /\ Len(new) \in Nat
  <2>1. new \in Seq(Blocks)
    BY EmptySeq
  <2>2. Len(new) \in Nat
    BY <2>1, LenProperties
  <2>3. offset \in Nat
    BY <1>3, <1>4
  <2>4. content'[Asset] = file \o new
    BY <1>3, <1>4, <2>1, <2>3, WriteExtends
  <2> QED BY <2>1, <2>2, <2>4
<1>7. /\ file \o new \in Seq(Blocks)
      /\ Len(file \o new) = Len(file) + Len(new)
      /\ \A i \in 1..(Len(file) + Len(new)) :
           (file \o new)[i] = IF i <= Len(file) THEN file[i] ELSE new[i - Len(file)]
  BY <1>3, <1>6, ConcatProperties
<1>8. Has(file \o new, offset, blocks)
  <2>1. CASE h \in dirty
    <3>1. new = blocks /\ offset = Len(file) + 1
      BY <2>1
    <3> HIDE DEF new, offset, file
    <3>2. ASSUME NEW j \in 1..Len(blocks)
          PROVE  (file \o new)[offset + j - 1] = blocks[j]
      <4>1. /\ offset + j - 1 \in 1..(Len(file) + Len(new)) /\ ~(offset + j - 1 <= Len(file))
            /\ offset + j - 1 - Len(file) = j
        BY <1>3, <3>1
      <4> QED BY <1>7, <3>1, <4>1
    <3>3. offset \in Nat \ {0} /\ offset + Len(blocks) <= Len(file) + Len(new) + 1
      BY <1>3, <3>1
    <3> QED BY <1>7, <3>2, <3>3 DEF Has
  <2>2. CASE h \notin dirty
    <3>1. new = <<>> /\ offset = asset_file_offsets[h]
      BY <2>2
    <3>2. file \o new = file
      BY <1>3, <3>1, ConcatEmptySeq
    <3> QED BY <2>2, <3>1, <3>2
  <2> QED BY <2>1, <2>2
<1>9. AssetHasNoReferences'
  <2>1. DOMAIN (file \o new) = 1..(Len(file) + Len(new))
    BY <1>7, LenProperties
  <2>2. \A j \in 1..Len(file) : file[j].kind \in {"init", "allocate", "update"}
    BY <1>3 DEF AssetHasNoReferences
  <2>3. \A j \in 1..Len(new) : new[j].kind \in {"init", "allocate", "update"}
    OBVIOUS
  <2> HIDE DEF file, new
  <2>4. ASSUME NEW i \in 1..(Len(file) + Len(new))
        PROVE  (file \o new)[i].kind \in {"init", "allocate", "update"}
    <3>1. CASE i <= Len(file)
      BY <1>3, <1>7, <2>2, <3>1
    <3>2. CASE ~(i <= Len(file))
      <4>1. i - Len(file) \in 1..Len(new)
        BY <1>3, <1>6, <3>2
      <4> QED BY <1>7, <2>3, <3>2, <4>1
    <3> QED BY <3>1, <3>2
  <2> QED BY <1>6, <2>1, <2>4 DEF AssetHasNoReferences
<1>10. ASSUME NEW c \in Captures
       PROVE  content'[c] = IF c = writer.output_stream /\ Len(blocks) > 0
                              THEN Append(content[c], Execute(offset, Len(blocks)))
                              ELSE content[c]
  <2>1. c # Asset /\ c \in DOMAIN content
    BY DEF Captures, Asset, AssetTypeOK
  <2> QED BY <1>4, <2>1 DEF Write
<1> QED BY <1>1, <1>2, <1>5, <1>6, <1>8, <1>9, <1>10

(* The reference that is appended stands for the blocks.                     *)
LEMMA ReferenceAdded ==
  ASSUME AssetTypeOK, AssetTypeOK', NEW c \in Captures, content[c] # <<>>,
         at_capture'[c] = at_capture[c],
         NEW offset, NEW blocks \in Seq(Blocks), Len(blocks) > 0,
         Has(content'[Asset], offset, blocks),
         content'[c] = Append(content[c], Execute(offset, Len(blocks)))
  PROVE  /\ CaptureGrows(c)
         /\ \E m \in Refs(c)' :
              /\ Refs(c)' = Refs(c) \cup {m}
              /\ \A k \in Refs(c) : k \in Nat /\ k < m
              /\ RefersTo(c, m)' /\ Places(c, m)' = 1..Len(blocks)
              /\ \A j \in 1..Len(blocks) : RefBlock(c, m, j)' = blocks[j]
<1>1. PICK m : m = Len(content[c]) + 1
  OBVIOUS
<1>2. content[c] \in Seq(Blocks) /\ Len(content[c]) \in Nat /\ DOMAIN content[c] = 1..Len(content[c])
  BY FileFacts
<1>3. Len(content[c]) # 0
  BY <1>2, EmptySeq
<1>4. /\ Len(content'[c]) = m /\ DOMAIN content'[c] = 1..m /\ content'[c][m] = Execute(offset, Len(blocks))
      /\ \A k \in 1..Len(content[c]) : content'[c][k] = content[c][k]
  <2>1. Execute(offset, Len(blocks)) \in Blocks
    BY LenProperties DEF Execute, Blocks, Has
  <2>2. /\ Len(content'[c]) = m /\ content'[c][m] = Execute(offset, Len(blocks))
        /\ \A k \in 1..Len(content[c]) : content'[c][k] = content[c][k]
    BY <1>1, <1>2, <2>1, AppendProperties
  <2> QED BY <2>2, FileFactsNext
<1>5. CaptureGrows(c)
  BY <1>2, <1>4 DEF CaptureGrows
<1>6. m \in Refs(c)' /\ Refs(c)' = Refs(c) \cup {m} /\ \A k \in Refs(c) : k \in Nat /\ k < m
  BY <1>1, <1>2, <1>3, <1>4 DEF Refs
<1>7. content'[c][m].offset = offset /\ content'[c][m].n_blocks = Len(blocks)
  BY <1>4 DEF Execute
<1>8. Len(blocks) \in Nat
  BY LenProperties
<1>9. RefersTo(c, m)'
  BY <1>4, <1>7, <1>8 DEF RefersTo, Has
<1>10. Places(c, m)' = 1..Len(blocks) /\ \A j \in 1..Len(blocks) : RefBlock(c, m, j)' = blocks[j]
  BY <1>7 DEF Places, RefBlock, Has
<1> QED BY <1>5, <1>6, <1>9, <1>10

-----------------------------------------------------------------------------
(* Steps that write nothing behind what is written                           *)

LEMMA CapturedAreCaptures ==
  ASSUME AssetTypeOK, NEW c \in 1..captured
  PROVE  c \in Captures
<1>1. captured \in Nat /\ dumps \in Nat /\ captured + dumps <= MaxWrites /\ MaxWrites \in Nat
  BY AssetFileAssumption DEF AssetTypeOK
<1> QED BY <1>1 DEF Captures

LEMMA LiveNumbers ==
  /\ \A b \in LiveBuffers : b \in Nat /\ ~(b <= 0)
  /\ \A s \in LiveSets : s \in Nat /\ ~(s <= 0)
<1>1. \A h \in Buffers \cup Sets : h \in Nat /\ h # 0
  BY AssetFileAssumption DEF NoBuffer
<1>2. \A n \in Nat : n # 0 => ~(n <= 0)
  OBVIOUS
<1> QED BY <1>1, <1>2 DEF LiveBuffers, LiveSets

LEMMA CapturesStay ==
  ASSUME AssetTypeOK, AssetTypeOK', CapturesInv, AssetGrows,
         NEW c \in 1..captured, c # writer.output_stream,
         content'[c] = content[c], at_capture'[c] = at_capture[c]
  PROVE  IsSound(c)' /\ StateType(at_capture'[c]) /\ IsComplete(c)'
<1>1. c \in Captures /\ IsSound(c) /\ IsComplete(c) /\ StateType(at_capture[c])
  BY CapturedAreCaptures DEF CapturesInv
<1> QED BY <1>1, CaptureStays

LEMMA SameFilesSameCaptures ==
  ASSUME UNCHANGED <<content, at_capture>>, NEW c
  PROVE  /\ IsSound(c)' = IsSound(c)
         /\ IsComplete(c)' = IsComplete(c)
         /\ \A b : InitializesBuffer(c, b)' = InitializesBuffer(c, b)
         /\ \A s : RestoresSet(c, s)' = RestoresSet(c, s)
         /\ Refs(c)' = Refs(c)
         /\ \A k : Places(c, k)' = Places(c, k)
         /\ \A k, j : RefBlock(c, k, j)' = RefBlock(c, k, j)
<1>1. /\ Refs(c)' = Refs(c)
      /\ \A k : Places(c, k)' = Places(c, k)
      /\ \A k, j : RefBlock(c, k, j)' = RefBlock(c, k, j)
      /\ \A k : RefersTo(c, k)' = RefersTo(c, k)
  BY DEF Refs, Places, RefBlock, RefersTo
<1>2. \A s, k, j : AllocatedBefore(c, s, k, j)' = AllocatedBefore(c, s, k, j)
  BY DEF AllocatedBefore, Refs, Places, RefBlock
<1>3. \A k, j : Belongs(c, k, j)' = Belongs(c, k, j)
  BY DEF Belongs, AllocatedBefore, Refs, Places, RefBlock
<1>4. AllocatedOnce(c)' = AllocatedOnce(c)
  BY DEF AllocatedOnce, Refs, Places, RefBlock
<1>5. IsSound(c)' = IsSound(c)
  BY <1>1, <1>3, <1>4 DEF IsSound
<1>6. \A b : InitializesBuffer(c, b)' = InitializesBuffer(c, b)
  BY DEF InitializesBuffer, Refs, Places, RefBlock
<1>7. \A s : RestoresSet(c, s)' = RestoresSet(c, s)
  BY DEF RestoresSet, AllocatesSet, UpdatesSet, Refs, Places, RefBlock
<1>8. IsComplete(c)' = IsComplete(c)
  BY <1>6, <1>7 DEF IsComplete
<1> QED BY <1>1, <1>5, <1>6, <1>7, <1>8

LEMMA NothingWrittenKeepsAsset ==
  ASSUME AssetTypeOK, CleanSetsAreInTheFile, AssetHasNoReferences, CleanSetsStay,
         UNCHANGED <<content, asset_file_offsets>>
  PROVE  CleanSetsAreInTheFile' /\ AssetHasNoReferences'
<1>1. AssetHasNoReferences'
  BY DEF AssetHasNoReferences
<1>2. ASSUME NEW s \in LiveSets' \ Marked'
      PROVE  Has(content'[Asset], asset_file_offsets'[s], Needs(s)')
  BY DEF CleanSetsStay, CleanSetsAreInTheFile
<1> QED BY <1>1, <1>2 DEF CleanSetsAreInTheFile

LEMMA NoWriterFields ==
  /\ NoWriter.pc = "idle" /\ NoWriter.output_stream = Asset /\ NoWriter.last = 0
  /\ NoWriter.processed = {}
BY DEF NoWriter

LEMMA AppKeepsFiles ==
  ASSUME SnapshotInv, UpdatesAreTracked, FirstIsFreedLast, DumpsAreAlone, AppStep
  PROVE  SnapshotInv'
<1>1. IInv' /\ TableInv' /\ CleanSetsStay
  BY AppStepKeepsIInv, AppKeepsTable DEF SnapshotInv, FileInv, IInv
<1>2. UNCHANGED writer_vars /\ writer = NoWriter
  BY AppStepIsAlone
<1>3. CleanSetsAreInTheFile' /\ AssetHasNoReferences'
  BY <1>1, <1>2, NothingWrittenKeepsAsset DEF SnapshotInv, FileInv, IInv, writer_vars
<1>4. WriterInv'
  BY <1>2, NoWriterFields DEF WriterInv, writer_vars
<1>5. CapturesInv'
  BY <1>2, SameFilesSameCaptures DEF CapturesInv, SnapshotInv, FileInv, writer_vars
<1> QED BY <1>1, <1>3, <1>4, <1>5 DEF SnapshotInv, FileInv

LEMMA SameTable ==
  ASSUME TableInv, UNCHANGED app_vars
  PROVE  /\ TableInv' /\ LiveSets' = LiveSets /\ LiveBuffers' = LiveBuffers /\ State' = State
         /\ \A s : Needs(s)' = Needs(s)
         /\ dirty' = dirty => Marked' = Marked
<1>1. UNCHANGED <<live, created, contents, descriptors, bound_to, destroyed>>
  BY DEF app_vars
<1>2. LiveSets' = LiveSets /\ LiveBuffers' = LiveBuffers
  BY <1>1 DEF LiveSets, LiveBuffers
<1>3. TableInv'
  BY <1>1, <1>2 DEF TableInv
<1>4. State' = State
  BY <1>1, <1>2 DEF State, IsActive
<1>5. \A s : Needs(s)' = Needs(s)
  BY <1>1 DEF Needs, Updates, IsActive
<1>6. dirty' = dirty => Marked' = Marked
  BY <1>1, <1>2 DEF Marked
<1> QED BY <1>2, <1>3, <1>4, <1>5, <1>6

LEMMA PassKeepsFiles ==
  ASSUME SnapshotInv, WriteAssets \/ BuffersDone \/ SetsDone
  PROVE  SnapshotInv'
<1>1. IInv' /\ AssetTypeOK'
  BY PassKeepsIInv DEF SnapshotInv, IInv
<1>2. UNCHANGED <<app_vars, dirty, asset_file_offsets, content, captured, at_capture>>
  BY DEF WriteAssets, BuffersDone, SetsDone
<1>3. /\ TableInv' /\ LiveSets' = LiveSets /\ LiveBuffers' = LiveBuffers /\ State' = State
      /\ \A s : Needs(s)' = Needs(s)
      /\ Marked' = Marked
  BY <1>2, SameTable DEF SnapshotInv, FileInv
<1>4. CleanSetsAreInTheFile' /\ AssetHasNoReferences'
  BY <1>2, <1>3, NothingWrittenKeepsAsset DEF CleanSetsStay, SnapshotInv, FileInv, IInv
<1>5. CASE WriteAssets
  <2>1. writer = NoWriter /\ writer' = [NoWriter EXCEPT !.pc = "buffers"]
    BY <1>5 DEF WriteAssets, Tracking
  <2>2. /\ writer'.pc = "buffers" /\ writer'.output_stream = Asset /\ writer'.processed = {}
        /\ writer.output_stream = Asset
    BY <2>1 DEF NoWriter
  <2>3. WriterInv'
    BY <2>2 DEF WriterInv
  <2>4. CapturesInv'
    BY <1>2, <2>2, SameFilesSameCaptures DEF CapturesInv, SnapshotInv, FileInv
  <2> QED BY <1>1, <1>3, <1>4, <2>3, <2>4 DEF SnapshotInv, FileInv
<1>6. CASE BuffersDone
  <2>1. /\ writer.pc = "buffers" /\ AllVisited(LiveBuffers)
        /\ writer' = [writer EXCEPT !.pc = "sets", !.last = 0]
    BY <1>6 DEF BuffersDone
  <2>2. /\ writer'.pc = "sets" /\ writer'.output_stream = writer.output_stream
        /\ writer'.processed = writer.processed /\ writer'.last = 0
    <3>1. writer \in [pc : {"idle", "buffers", "sets"}, output_stream : Captures \cup {Asset},
                      last : Handles \cup {0}, processed : SUBSET Groups]
      BY DEF SnapshotInv, IInv, AssetTypeOK
    <3> QED BY <2>1, <3>1
  <2>3. \A s \in LiveSets : ~(s <= 0)
    BY LiveNumbers
  <2>4. writer.processed = {} /\ writer'.processed = {GroupOf(s) : s \in {t \in LiveSets' : t <= writer'.last}}
    BY <1>3, <2>1, <2>2, <2>3 DEF SnapshotInv, FileInv, WriterInv
  <2>5. ASSUME NEW c, c = writer.output_stream, c # Asset
        PROVE  /\ at_capture'[c] = State'
               /\ \A b \in LiveBuffers' : InitializesBuffer(c, b)'
               /\ \A s \in LiveSets' : ~(s <= writer'.last)
               /\ \A k \in Refs(c)' : \A j \in Places(c, k)' :
                    RefBlock(c, k, j)'.kind = "allocate" => RefBlock(c, k, j)'.sets \in writer'.processed
    <3>1. \A b \in LiveBuffers : InitializesBuffer(c, b)
      BY <2>1, <2>5 DEF SnapshotInv, FileInv, WriterInv, AllVisited
    <3>2. at_capture[c] = State
      BY <2>5 DEF SnapshotInv, FileInv, WriterInv
    <3>3. \A k \in Refs(c) : \A j \in Places(c, k) :
            RefBlock(c, k, j).kind = "allocate" => RefBlock(c, k, j).sets \in writer.processed
      BY <2>5 DEF SnapshotInv, FileInv, WriterInv
    <3> QED BY <1>2, <1>3, <2>2, <2>3, <3>1, <3>2, <3>3, SameFilesSameCaptures
  <2>6. WriterInv'
    <3>1. writer'.output_stream \in {Asset, captured'} /\ writer'.pc # "idle"
      BY <1>2, <2>2 DEF SnapshotInv, FileInv, WriterInv
    <3> QED BY <2>2, <2>4, <2>5, <3>1 DEF WriterInv
  <2>7. CapturesInv'
    BY <1>2, <2>2, SameFilesSameCaptures DEF CapturesInv, SnapshotInv, FileInv
  <2> QED BY <1>1, <1>3, <1>4, <2>6, <2>7 DEF SnapshotInv, FileInv
<1>7. CASE SetsDone
  <2>1. writer.pc = "sets" /\ AllVisited(LiveSets) /\ writer' = NoWriter
    BY <1>7 DEF SetsDone
  <2>2. WriterInv'
    BY <2>1, NoWriterFields DEF WriterInv
  <2>3. ASSUME NEW c \in 1..captured
        PROVE  IsComplete(c)
    <3>1. CASE c = writer.output_stream
      <4>1. c # Asset
        BY DEF Asset
      <4>2. at_capture[c] = State
        BY <3>1, <4>1 DEF SnapshotInv, FileInv, WriterInv
      <4>3. DOMAIN at_capture[c].buffers = LiveBuffers /\ DOMAIN at_capture[c].sets = LiveSets
        BY <4>2 DEF State
      <4>4. \A b \in LiveBuffers : InitializesBuffer(c, b)
        BY <2>1, <3>1, <4>1 DEF SnapshotInv, FileInv, WriterInv
      <4>5. \A s \in LiveSets : RestoresSet(c, s)
        BY <2>1, <3>1, <4>1 DEF SnapshotInv, FileInv, WriterInv, AllVisited
      <4> QED BY <4>3, <4>4, <4>5 DEF IsComplete
    <3>2. CASE c # writer.output_stream
      BY <3>2 DEF SnapshotInv, FileInv, CapturesInv
    <3> QED BY <3>1, <3>2
  <2>4. CapturesInv'
    BY <1>2, <2>3, SameFilesSameCaptures DEF CapturesInv, SnapshotInv, FileInv
  <2> QED BY <1>1, <1>3, <1>4, <2>2, <2>4 DEF SnapshotInv, FileInv
<1> QED BY <1>5, <1>6, <1>7

(* A capture begins with the handles of its objects.                         *)
LEMMA StateIsTyped == AssetTypeOK => StateType(State)
<1> SUFFICES ASSUME AssetTypeOK PROVE StateType(State)
  OBVIOUS
<1> DEFINE sets == [s \in LiveSets |->
                     [i \in Bindings(s) |-> IF IsActive(s, i) THEN descriptors[s][i] ELSE NoBuffer]]
           buffers == [b \in LiveBuffers |-> contents[b]]
<1>1. State.buffers = buffers /\ State.sets = sets
  BY DEF State
<1>2. DOMAIN buffers \subseteq Buffers /\ DOMAIN sets \subseteq Sets
  BY LiveIsTyped
<1>3. ASSUME NEW s \in DOMAIN sets
      PROVE  sets[s] \in [Bindings(s) -> Buffers \cup {NoBuffer}]
  BY <1>2 DEF AssetTypeOK
<1>4. buffers \in [DOMAIN buffers -> Nat]
  BY <1>2 DEF AssetTypeOK
<1> QED BY <1>1, <1>2, <1>3, <1>4 DEF StateType

LEMMA WriteStateKeepsFiles ==
  ASSUME SnapshotInv, WriteState
  PROVE  SnapshotInv'
<1> DEFINE create == [kind |-> "create", buffers |-> LiveBuffers]
<1>1. IInv' /\ AssetTypeOK' /\ AssetTypeOK
  BY WriteStateKeepsIInv DEF SnapshotInv, IInv
<1>2. /\ UNCHANGED <<app_vars, dirty, asset_file_offsets>>
      /\ captured' = captured + 1 /\ captured \in Nat
      /\ content' = [content EXCEPT ![captured'] = <<create>>]
      /\ at_capture' = [at_capture EXCEPT ![captured'] = State]
      /\ writer' = [NoWriter EXCEPT !.pc = "buffers", !.output_stream = captured']
      /\ writer = NoWriter
  BY DEF WriteState, Tracking, SnapshotInv, IInv, AssetTypeOK
<1>3. PICK c : c = captured'
  OBVIOUS
<1>4. c \in 1..captured' /\ c # Asset /\ c \notin 1..captured
  BY <1>2, <1>3 DEF Asset
<1>5. c \in Captures
  <2>1. captured' \in Nat /\ dumps' \in Nat /\ captured' + dumps' <= MaxWrites /\ MaxWrites \in Nat
    BY <1>1, AssetFileAssumption DEF AssetTypeOK
  <2>2. captured' \in 1..MaxWrites
    BY <1>2, <2>1
  <2> QED BY <1>3, <2>2 DEF Captures
<1>6. DOMAIN content = Captures \cup {Asset} /\ DOMAIN at_capture = Captures
  BY <1>1 DEF AssetTypeOK, SnapshotInv, FileInv, CapturesInv
<1>7. /\ content'[c] = <<create>> /\ at_capture'[c] = State /\ DOMAIN at_capture' = Captures
      /\ content'[Asset] = content[Asset]
      /\ \A f \in Captures : f # c => content'[f] = content[f] /\ at_capture'[f] = at_capture[f]
  BY <1>2, <1>3, <1>4, <1>5, <1>6
<1>8. /\ TableInv' /\ LiveSets' = LiveSets /\ LiveBuffers' = LiveBuffers /\ State' = State
      /\ \A s : Needs(s)' = Needs(s)
      /\ Marked' = Marked
  BY <1>2, SameTable DEF SnapshotInv, FileInv
<1>9. CleanSetsAreInTheFile' /\ AssetHasNoReferences'
  <2>1. AssetHasNoReferences'
    BY <1>7 DEF SnapshotInv, FileInv, AssetHasNoReferences
  <2>2. ASSUME NEW s \in LiveSets' \ Marked'
        PROVE  Has(content'[Asset], asset_file_offsets'[s], Needs(s)')
    BY <1>2, <1>7, <1>8 DEF SnapshotInv, FileInv, CleanSetsAreInTheFile
  <2> QED BY <2>1, <2>2 DEF CleanSetsAreInTheFile
<1>10. Refs(c)' = {} /\ content'[c] # <<>> /\ content'[c][1] = create
  <2>1. Len(content'[c]) = 1
    BY <1>7
  <2> QED BY <1>7, <2>1 DEF Refs
<1>11. DOMAIN State.buffers = LiveBuffers
  BY DEF State
<1>12. IsSound(c)' /\ StateType(at_capture'[c])
  BY <1>1, <1>7, <1>10, <1>11, StateIsTyped DEF IsSound, AllocatedOnce
<1>13. /\ writer'.pc = "buffers" /\ writer'.output_stream = c /\ writer'.processed = {}
       /\ writer'.last = 0 /\ writer.output_stream = Asset
  BY <1>2, <1>3 DEF NoWriter
<1>14. WriterInv'
  <2>1. \A b \in LiveBuffers : ~(b <= 0)
    BY LiveNumbers
  <2>2. \A d : d = writer'.output_stream =>
          /\ at_capture'[d] = State'
          /\ \A b \in LiveBuffers' : ~(writer'.pc = "sets" \/ b <= writer'.last)
          /\ Refs(d)' = {}
    BY <1>7, <1>8, <1>10, <1>13, <2>1
  <2> QED BY <1>3, <1>7, <1>8, <1>10, <1>13, <2>1 DEF WriterInv
<1>15. ASSUME NEW d \in 1..captured'
       PROVE  IsSound(d)' /\ StateType(at_capture'[d]) /\ (d # writer'.output_stream => IsComplete(d)')
  <2>1. CASE d = c
    BY <1>12, <1>13, <2>1
  <2>2. CASE d # c
    <3>1. d \in 1..captured
      BY <1>2, <1>3, <2>2
    <3>2. d \in Captures /\ d # writer.output_stream
      BY <1>1, <1>13, <3>1, CapturedAreCaptures DEF Asset
    <3>3. AssetGrows
      BY <1>7 DEF AssetGrows
    <3> QED BY <1>1, <1>7, <2>2, <3>1, <3>2, <3>3, CapturesStay DEF SnapshotInv, FileInv
  <2> QED BY <2>1, <2>2
<1>16. CapturesInv'
  BY <1>7, <1>15 DEF CapturesInv
<1> QED BY <1>1, <1>8, <1>9, <1>14, <1>16 DEF SnapshotInv, FileInv

-----------------------------------------------------------------------------
(* Dumps                                                                     *)

(* What a dump leaves alone.                                                 *)
LEMMA DumpKeepsOthers ==
  ASSUME SnapshotInv, AssetTypeOK', NEW h \in Handles, AssetGrows, dirty' = dirty \ {h},
         UNCHANGED <<app_vars, captured, at_capture>>,
         writer'.output_stream = writer.output_stream,
         \A g \in Handles : g # h => asset_file_offsets'[g] = asset_file_offsets[g],
         h \in LiveSets => Has(content'[Asset], asset_file_offsets'[h], Needs(h)),
         \A c \in Captures : c # writer.output_stream => content'[c] = content[c],
         \A c \in Captures : c = writer.output_stream => IsSound(c)'
  PROVE  CleanSetsAreInTheFile' /\ CapturesInv'
<1>1. /\ AssetTypeOK /\ TableInv /\ CleanSetsAreInTheFile /\ CapturesInv
  BY DEF SnapshotInv, IInv, FileInv
<1>2. /\ LiveSets' = LiveSets /\ \A s : Needs(s)' = Needs(s)
  BY <1>1, SameTable
<1>3. ASSUME NEW s \in LiveSets' \ Marked'
      PROVE  Has(content'[Asset], asset_file_offsets'[s], Needs(s)')
  <2>1. CASE s = h
    BY <1>2, <2>1
  <2>2. CASE s # h
    <3>1. s \in LiveSets \ Marked /\ s \in Handles /\ s \in Sets
      BY <1>2, <2>2 DEF LiveSets, Handles, Marked, app_vars
    <3>2. Has(content[Asset], asset_file_offsets[s], Needs(s))
      BY <1>1, <3>1 DEF CleanSetsAreInTheFile
    <3>3. Needs(s) \in Seq(Blocks)
      BY <1>1, <3>1, NeedsFacts
    <3>4. Has(content'[Asset], asset_file_offsets[s], Needs(s))
      BY <1>1, <3>2, <3>3, HasStays
    <3> QED BY <1>2, <2>2, <3>1, <3>4
  <2> QED BY <2>1, <2>2
<1>4. CleanSetsAreInTheFile'
  BY <1>3 DEF CleanSetsAreInTheFile
<1>5. ASSUME NEW c \in 1..captured
      PROVE  /\ IsSound(c)' /\ StateType(at_capture'[c])
             /\ c # writer.output_stream => IsComplete(c)'
  <2>1. c \in Captures
    BY <1>1, CapturedAreCaptures
  <2>2. CASE c = writer.output_stream
    BY <1>1, <2>1, <2>2 DEF CapturesInv
  <2>3. CASE c # writer.output_stream
    BY <1>1, <2>1, <2>3, CapturesStay
  <2> QED BY <2>2, <2>3
<1>6. CapturesInv'
  BY <1>1, <1>5 DEF CapturesInv
<1> QED BY <1>4, <1>6

(* The capture that is written.                                              *)
LEMMA OutputFacts ==
  ASSUME SnapshotInv, NEW c, c = writer.output_stream, c # Asset
  PROVE  /\ c \in 1..captured /\ c \in Captures /\ IsSound(c) /\ at_capture[c] = State
         /\ content[c] # <<>> /\ \A k \in Refs(c) : RefersTo(c, k)
         /\ DOMAIN at_capture[c].buffers = LiveBuffers /\ DOMAIN at_capture[c].sets = LiveSets
<1>1. AssetTypeOK /\ WriterInv /\ CapturesInv
  BY DEF SnapshotInv, IInv, FileInv
<1>2. c \in Captures /\ c = captured /\ captured \in Nat
  BY <1>1 DEF WriterInv, AssetTypeOK
<1>3. c \in 1..captured
  BY <1>2 DEF Captures
<1>4. IsSound(c) /\ at_capture[c] = State
  BY <1>1, <1>3 DEF WriterInv, CapturesInv
<1>5. DOMAIN State.buffers = LiveBuffers /\ DOMAIN State.sets = LiveSets
  BY DEF State
<1> QED BY <1>2, <1>3, <1>4, <1>5 DEF IsSound

LEMMA ProcessBufferMemoryKeepsFiles ==
  ASSUME Undisturbed, SnapshotInv, NEW b \in Buffers, ProcessBufferMemory(b)
  PROVE  SnapshotInv'
<1> DEFINE block == [kind |-> "init", buffer |-> b, contents |-> contents[b]]
           blocks == <<block>>
<1>1. IInv' /\ AssetTypeOK' /\ AssetTypeOK
  BY ProcessBufferMemoryKeepsIInv DEF SnapshotInv, IInv
<1>2. /\ writer.pc = "buffers" /\ NextVisited(LiveBuffers, b) /\ Dump(b, blocks)
      /\ writer' = [writer EXCEPT !.last = b]
      /\ UNCHANGED <<app_vars, captured, dumps, at_capture>>
  BY DEF ProcessBufferMemory
<1>3. b \in LiveBuffers /\ b \in Handles /\ b \notin LiveSets
  BY <1>2, LiveIsTyped, <1>1 DEF NextVisited, Handles, LiveSets
<1>4. blocks \in Seq(Blocks) /\ Len(blocks) = 1 /\ blocks[1] = block /\ block.kind = "init"
      /\ block.buffer = b /\ block.contents = contents[b]
  <2>1. block \in Blocks
    BY <1>1 DEF Blocks, AssetTypeOK
  <2> QED BY <2>1
<1> HIDE DEF block, blocks
<1>5. b \notin dirty => Has(content[Asset], asset_file_offsets[b], blocks)
  <2> SUFFICES ASSUME b \notin dirty PROVE Has(content[Asset], asset_file_offsets[b], blocks)
    OBVIOUS
  <2>1. /\ asset_file_offsets[b] \in DOMAIN content[Asset]
        /\ content[Asset][asset_file_offsets[b]] = block
    BY <1>3 DEF SnapshotInv, IInv, CleanBuffersAreInTheFile, block, Undisturbed
  <2>2. Len(content[Asset]) \in Nat /\ DOMAIN content[Asset] = 1..Len(content[Asset])
    BY <1>1, FileFacts
  <2>3. asset_file_offsets[b] + 1 - 1 = asset_file_offsets[b]
    BY <2>1, <2>2
  <2> QED BY <1>4, <2>1, <2>2, <2>3 DEF Has
<1>6. /\ AssetGrows /\ AssetHasNoReferences'
      /\ Has(content'[Asset], asset_file_offsets'[b], blocks)
      /\ dirty' = dirty \ {b}
      /\ \A g \in Handles : g # b => asset_file_offsets'[g] = asset_file_offsets[g]
      /\ \A c \in Captures :
           content'[c] = IF c = writer.output_stream
                           THEN Append(content[c], Execute(asset_file_offsets'[b], 1))
                           ELSE content[c]
  <2>1. \A j \in 1..Len(blocks) : blocks[j].kind \in {"init", "allocate", "update"}
    BY <1>4
  <2>2. AssetHasNoReferences
    BY DEF SnapshotInv, FileInv
  <2>3. Len(blocks) > 0
    BY <1>4
  <2> QED BY <1>1, <1>2, <1>3, <1>4, <1>5, <2>1, <2>2, <2>3, DumpFacts
<1>7. /\ TableInv' /\ LiveSets' = LiveSets /\ LiveBuffers' = LiveBuffers /\ State' = State
  BY <1>2, SameTable DEF SnapshotInv, FileInv
<1>8. /\ writer'.pc = "buffers" /\ writer'.output_stream = writer.output_stream
      /\ writer'.processed = writer.processed /\ writer'.last = b /\ writer.processed = {}
  <2>1. writer \in [pc : {"idle", "buffers", "sets"}, output_stream : Captures \cup {Asset},
                    last : Handles \cup {0}, processed : SUBSET Groups]
    BY <1>1 DEF AssetTypeOK
  <2>2. writer.processed = {}
    BY <1>2 DEF SnapshotInv, FileInv, WriterInv
  <2> QED BY <1>2, <2>1, <2>2
<1>9. ASSUME NEW c \in Captures, c = writer.output_stream
      PROVE  /\ IsSound(c)' /\ at_capture'[c] = State'
             /\ \A d \in LiveBuffers' : d <= b => InitializesBuffer(c, d)'
             /\ \A k \in Refs(c)' : \A j \in Places(c, k)' : RefBlock(c, k, j)'.kind # "allocate"
  <2>1. c # Asset
    BY DEF Captures, Asset
  <2>2. /\ IsSound(c) /\ at_capture[c] = State /\ content[c] # <<>>
        /\ \A k \in Refs(c) : RefersTo(c, k)
        /\ DOMAIN at_capture[c].buffers = LiveBuffers
    BY <1>9, <2>1, OutputFacts
  <2>3. PICK o : o = asset_file_offsets'[b]
    OBVIOUS
  <2>4. Has(content'[Asset], o, blocks) /\ content'[c] = Append(content[c], Execute(o, Len(blocks)))
    BY <1>4, <1>6, <1>9, <2>3
  <2>5. at_capture'[c] = at_capture[c] /\ Len(blocks) > 0
    BY <1>2, <1>4
  <2>6. CaptureGrows(c)
    BY <1>1, <1>4, <2>2, <2>4, <2>5, ReferenceAdded
  <2>7. PICK m \in Refs(c)' :
          /\ Refs(c)' = Refs(c) \cup {m}
          /\ \A k \in Refs(c) : k \in Nat /\ k < m
          /\ RefersTo(c, m)' /\ Places(c, m)' = 1..Len(blocks)
          /\ \A j \in 1..Len(blocks) : RefBlock(c, m, j)' = blocks[j]
    BY <1>1, <1>4, <2>2, <2>4, <2>5, ReferenceAdded
  <2>8. 1 \in Places(c, m)' /\ \A j \in Places(c, m)' : j = 1 /\ RefBlock(c, m, j)' = block
    BY <1>4, <2>7
  <2>9. \A k \in Refs(c) : /\ Places(c, k)' = Places(c, k) /\ RefersTo(c, k)'
                           /\ \A j \in Places(c, k) : RefBlock(c, k, j)' = RefBlock(c, k, j)
    BY <1>1, <1>6, <2>2, <2>6, ReferencesStay
  <2>10. /\ \A d : InitializesBuffer(c, d) => InitializesBuffer(c, d)'
        /\ \A k \in Refs(c) : \A j \in Places(c, k) : Belongs(c, k, j) => Belongs(c, k, j)'
    BY <1>1, <1>6, <2>2, <2>6, RestoresStays
  <2>11. InitializesBuffer(c, b)'
    BY <1>4, <2>7, <2>8 DEF InitializesBuffer
  <2>12. ASSUME NEW d \in LiveBuffers', d <= b
         PROVE  InitializesBuffer(c, d)'
    <3>1. CASE d = b
      BY <2>11, <3>1
    <3>2. CASE d # b
      <4>1. d <= writer.last
        <5>1. d \in LiveBuffers /\ d \in Nat /\ b \in Nat
          BY <1>3, <1>7, LiveNumbers
        <5>2. ~(d > writer.last)
          BY <1>2, <2>12, <3>2, <5>1 DEF NextVisited
        <5>3. writer.last \in Nat
          <6>1. writer.last \in Handles \cup {0}
            BY <1>1 DEF AssetTypeOK
          <6>2. \A h \in Handles : h \in Nat
            BY <1>1, LiveIsTyped
          <6> QED BY <6>1, <6>2
        <5> QED BY <5>1, <5>2, <5>3
      <4>2. InitializesBuffer(c, d)
        BY <1>7, <1>9, <2>1, <4>1 DEF SnapshotInv, FileInv, WriterInv
      <4> QED BY <2>10, <4>2
    <3> QED BY <3>1, <3>2
  <2>13. ASSUME NEW k \in Refs(c)', NEW j \in Places(c, k)'
         PROVE  RefBlock(c, k, j)'.kind # "allocate" /\ Belongs(c, k, j)' /\ RefersTo(c, k)'
    <3>1. CASE k \in Refs(c)
      <4>1. RefBlock(c, k, j).kind # "allocate"
        BY <1>8, <1>9, <2>1, <2>9, <3>1 DEF SnapshotInv, FileInv, WriterInv
      <4>2. Belongs(c, k, j)
        BY <2>2, <2>9, <3>1 DEF IsSound
      <4> QED BY <2>9, <2>10, <3>1, <4>1, <4>2
    <3>2. CASE k = m
      <4>1. RefBlock(c, k, j)' = block
        BY <2>8, <3>2
      <4>2. at_capture'[c] = State
        BY <1>2, <2>2
      <4>3. b \in DOMAIN State.buffers /\ State.buffers[b] = contents[b]
        BY <1>3 DEF State
      <4> QED BY <1>4, <2>7, <3>2, <4>1, <4>2, <4>3 DEF Belongs
    <3> QED BY <2>7, <3>1, <3>2
  <2>14. \A k \in Refs(c)' : RefersTo(c, k)'
    BY <2>7, <2>9
  <2>15. /\ content'[c] # <<>>
         /\ content'[c][1] = [kind |-> "create", buffers |-> DOMAIN at_capture'[c].buffers]
    <3>1. Len(content[c]) \in Nat /\ DOMAIN content[c] = 1..Len(content[c]) /\ content[c] \in Seq(Blocks)
      BY <1>1, FileFacts
    <3>2. 1 \in DOMAIN content[c]
      BY <2>2, <3>1, EmptySeq
    <3>3. 1 \in DOMAIN content'[c] /\ content'[c][1] = content[c][1] /\ at_capture'[c] = at_capture[c]
      BY <2>6, <3>2 DEF CaptureGrows
    <3>4. content'[c] # <<>>
      BY <3>3
    <3> QED BY <2>2, <3>3, <3>4 DEF IsSound
  <2>16. AllocatedOnce(c)'
    BY <2>13 DEF AllocatedOnce
  <2>17. IsSound(c)'
    BY <2>13, <2>14, <2>15, <2>16 DEF IsSound
  <2>18. at_capture'[c] = State'
    BY <1>2, <1>7, <2>2
  <2> QED BY <2>12, <2>13, <2>17, <2>18
<1>10. CleanSetsAreInTheFile' /\ CapturesInv'
  BY <1>1, <1>2, <1>3, <1>6, <1>8, <1>9, DumpKeepsOthers
<1>11. WriterInv'
  <2>1. writer'.output_stream \in {Asset, captured'}
    BY <1>2, <1>8 DEF SnapshotInv, FileInv, WriterInv
  <2>2. writer'.output_stream # Asset => writer'.output_stream \in Captures
    BY <1>1 DEF AssetTypeOK
  <2>3. PICK c : c = writer'.output_stream
    OBVIOUS
  <2>4. c # Asset =>
          /\ at_capture'[c] = State'
          /\ \A d \in LiveBuffers' : d <= b => InitializesBuffer(c, d)'
          /\ \A k \in Refs(c)' : \A j \in Places(c, k)' : RefBlock(c, k, j)'.kind # "allocate"
    BY <1>8, <1>9, <2>2, <2>3
  <2> QED BY <1>8, <2>1, <2>3, <2>4 DEF WriterInv
<1> QED BY <1>1, <1>6, <1>7, <1>10, <1>11 DEF SnapshotInv, FileInv

(* The first live set of a group is the first one of its allocation, which   *)
(* is visited before the others.                                             *)
LEMMA AllocationIsForFirst ==
  ASSUME SnapshotInv, NEW s \in Sets, WriteDescriptorSet(s)
  PROVE  /\ Allocation(s) \o Updates(s) = Needs(s)
         /\ IsFirst(s) <=> GroupOf(s) \notin writer.processed
         /\ ~IsFirst(s) => \E t \in LiveSets : t <= writer.last /\ GroupOf(t) = GroupOf(s)
<1>1. AssetTypeOK /\ TableInv /\ WriterInv
  BY DEF SnapshotInv, IInv, FileInv
<1>2. /\ writer.pc = "sets" /\ s \in LiveSets /\ s > writer.last
      /\ \A k \in LiveSets : k > writer.last => s <= k
  BY DEF WriteDescriptorSet, NextVisited
<1>3. writer.processed = {GroupOf(t) : t \in {u \in LiveSets : u <= writer.last}}
  BY <1>1, <1>2 DEF WriterInv
<1>4. /\ \A t \in LiveSets : t \in Nat /\ t \in Sets /\ t \in live
      /\ \A t \in Sets : t \in live => t \in LiveSets
      /\ \A t \in Sets : t \in Nat
      /\ writer.last \in Nat /\ s \in Nat
  <2>1. \A t \in Sets : t \in Nat
    BY AssetFileAssumption
  <2>2. writer.last \in Nat
    <3>1. writer.last \in Handles \cup {0}
      BY <1>1 DEF AssetTypeOK
    <3>2. \A h \in Handles : h \in Nat
      BY <1>1, LiveIsTyped
    <3> QED BY <3>1, <3>2
  <2> QED BY <2>1, <2>2 DEF LiveSets
<1>5. ASSUME ~IsFirst(s)
      PROVE  \E t \in LiveSets : t <= writer.last /\ GroupOf(t) = GroupOf(s)
  <2>1. PICK t \in GroupOf(s) : IsFirst(t)
    BY GroupFacts
  <2>2. /\ t \in Sets /\ GroupOf(t) = GroupOf(s) /\ t \in live /\ s \in GroupOf(s)
    BY <1>1, <1>2, <2>1, GroupFacts DEF TableInv
  <2>3. t <= s /\ t # s
    BY <1>5, <2>1, <2>2 DEF IsFirst
  <2>4. t \in LiveSets
    BY <1>4, <2>2
  <2>5. t <= writer.last
    BY <1>2, <1>4, <2>3, <2>4
  <2> QED BY <2>2, <2>4, <2>5
<1>6. ASSUME IsFirst(s), NEW t \in LiveSets, t <= writer.last
      PROVE  GroupOf(t) # GroupOf(s)
  <2>1. t \in GroupOf(t) /\ ~(s <= t)
    BY <1>2, <1>4, <1>6, GroupFacts
  <2> QED BY <1>6, <2>1 DEF IsFirst
<1>7. IsFirst(s) <=> GroupOf(s) \notin writer.processed
  <2>1. ASSUME IsFirst(s)
        PROVE  GroupOf(s) \notin writer.processed
    BY <1>3, <1>6, <2>1
  <2>2. ASSUME ~IsFirst(s)
        PROVE  GroupOf(s) \in writer.processed
    BY <1>3, <1>5, <2>2
  <2> QED BY <2>1, <2>2
<1>8. Allocation(s) \o Updates(s) = Needs(s)
  BY <1>7 DEF Allocation, Needs
<1> QED BY <1>5, <1>7, <1>8

(* Where the blocks of a set are, whether with a new reference or, there     *)
(* being none, without.                                                      *)
LEMMA SetIsReferredTo ==
  ASSUME SnapshotInv, AssetTypeOK', NEW s \in Sets, WriteDescriptorSet(s), AssetGrows,
         Has(content'[Asset], asset_file_offsets'[s], Needs(s)),
         NEW c \in Captures, c = writer.output_stream,
         content'[c] = IF Len(Needs(s)) > 0
                         THEN Append(content[c], Execute(asset_file_offsets'[s], Len(Needs(s))))
                         ELSE content[c]
  PROVE  /\ IsSound(c)'
         /\ \A b : InitializesBuffer(c, b) => InitializesBuffer(c, b)'
         /\ \A t : RestoresSet(c, t) => RestoresSet(c, t)'
         /\ RestoresSet(c, s)'
         /\ \A k \in Refs(c)' : \A j \in Places(c, k)' :
              RefBlock(c, k, j)'.kind = "allocate" =>
                RefBlock(c, k, j)'.sets \in writer.processed \cup {GroupOf(s)}
<1>1. AssetTypeOK /\ WriterInv /\ c # Asset /\ at_capture' = at_capture
  BY DEF SnapshotInv, IInv, FileInv, WriteDescriptorSet, Captures, Asset
<1>2. /\ IsSound(c) /\ at_capture[c] = State /\ content[c] # <<>>
      /\ \A k \in Refs(c) : RefersTo(c, k)
      /\ DOMAIN at_capture[c].buffers = LiveBuffers /\ DOMAIN at_capture[c].sets = LiveSets
  BY <1>1, OutputFacts
<1>3. /\ writer.pc = "sets" /\ s \in LiveSets
  BY DEF WriteDescriptorSet, NextVisited
<1>4. PICK needs \in Seq(Blocks) : needs = Needs(s)
  BY <1>1, NeedsFacts
<1>5. /\ Len(needs) \in Nat
      /\ IsFirst(s) => Len(needs) # 0 /\ needs[1] = [kind |-> "allocate", sets |-> GroupOf(s)]
      /\ \A j \in 1..Len(needs) : ~(IsFirst(s) /\ j = 1) =>
           /\ needs[j].kind = "update" /\ needs[j].set = s
           /\ needs[j].binding \in Bindings(s) /\ IsActive(s, needs[j].binding)
           /\ needs[j].buffer = descriptors[s][needs[j].binding]
      /\ \A i \in Bindings(s) : IsActive(s, i) =>
           \E j \in 1..Len(needs) : needs[j].kind = "update" /\ needs[j].binding = i
  BY <1>1, <1>4, NeedsFacts
<1>6. /\ IsFirst(s) <=> GroupOf(s) \notin writer.processed
      /\ ~IsFirst(s) => \E t \in LiveSets : t <= writer.last /\ GroupOf(t) = GroupOf(s)
  BY AllocationIsForFirst
<1>7. ~IsFirst(s) => AllocatesSet(c, s)
  <2> SUFFICES ASSUME ~IsFirst(s) PROVE AllocatesSet(c, s)
    OBVIOUS
  <2>1. PICK t \in LiveSets : t <= writer.last /\ GroupOf(t) = GroupOf(s)
    BY <1>6
  <2>2. AllocatesSet(c, t)
    BY <1>1, <1>3, <2>1 DEF WriterInv, RestoresSet
  <2> QED BY <2>1, <2>2 DEF AllocatesSet, Allocates
<1>8. \A k \in Refs(c) : \A j \in Places(c, k) :
        RefBlock(c, k, j).kind = "allocate" => RefBlock(c, k, j).sets \in writer.processed
  BY <1>1 DEF WriterInv
<1>9. /\ at_capture[c].sets[s] = [i \in Bindings(s) |-> IF IsActive(s, i) THEN descriptors[s][i] ELSE NoBuffer]
  BY <1>2, <1>3 DEF State
<1>10. \A i \in Bindings(s) : IsActive(s, i) =>
         descriptors[s][i] \in LiveBuffers /\ at_capture[c].sets[s][i] = descriptors[s][i]
  <2> SUFFICES ASSUME NEW i \in Bindings(s), IsActive(s, i)
               PROVE  descriptors[s][i] \in LiveBuffers /\ at_capture[c].sets[s][i] = descriptors[s][i]
    OBVIOUS
  <2>1. descriptors[s][i] \in Buffers \cup {NoBuffer} /\ descriptors[s][i] \in live
    BY <1>1 DEF AssetTypeOK, IsActive
  <2>2. NoBuffer \notin live
    BY <1>1, LiveIsTyped
  <2> QED BY <1>9, <2>1, <2>2 DEF LiveBuffers
<1>11. CASE Len(needs) = 0
  <2>1. content'[c] = content[c] /\ ~IsFirst(s)
    BY <1>4, <1>5, <1>11
  <2>2. CaptureGrows(c) /\ IsSound(c)'
    BY <1>1, <1>2, <2>1, CaptureStays DEF CaptureGrows
  <2>3. /\ Refs(c)' = Refs(c)
        /\ \A k \in Refs(c) : /\ Places(c, k)' = Places(c, k)
                              /\ \A j \in Places(c, k) : RefBlock(c, k, j)' = RefBlock(c, k, j)
    BY <1>1, <1>2, <2>1, <2>2, ReferencesStay DEF Refs
  <2>4. /\ \A b : InitializesBuffer(c, b) => InitializesBuffer(c, b)'
        /\ \A t : RestoresSet(c, t) => RestoresSet(c, t)'
    BY <1>1, <1>2, <2>2, RestoresStays
  <2>5. RestoresSet(c, s)
    <3>1. \A i \in Bindings(s) : ~IsActive(s, i)
      BY <1>5, <1>11
    <3> QED BY <1>7, <1>9, <2>1, <3>1 DEF RestoresSet
  <2> QED BY <1>8, <2>2, <2>3, <2>4, <2>5
<1>12. CASE Len(needs) > 0
  <2>1. PICK o : o = asset_file_offsets'[s]
    OBVIOUS
  <2>2. Has(content'[Asset], o, needs) /\ content'[c] = Append(content[c], Execute(o, Len(needs)))
    BY <1>4, <1>12, <2>1
  <2>3. CaptureGrows(c)
    BY <1>1, <1>2, <1>12, <2>2, ReferenceAdded
  <2>4. PICK m \in Refs(c)' :
          /\ Refs(c)' = Refs(c) \cup {m}
          /\ \A k \in Refs(c) : k \in Nat /\ k < m
          /\ RefersTo(c, m)' /\ Places(c, m)' = 1..Len(needs)
          /\ \A j \in 1..Len(needs) : RefBlock(c, m, j)' = needs[j]
    BY <1>1, <1>2, <1>12, <2>2, ReferenceAdded
  <2>5. \A k \in Refs(c) : /\ Places(c, k)' = Places(c, k) /\ RefersTo(c, k)'
                           /\ \A j \in Places(c, k) : RefBlock(c, k, j)' = RefBlock(c, k, j)
    BY <1>1, <1>2, <2>3, ReferencesStay
  <2>6. /\ \A b : InitializesBuffer(c, b) => InitializesBuffer(c, b)'
        /\ \A t : RestoresSet(c, t) => RestoresSet(c, t)'
        /\ \A t : AllocatesSet(c, t) => AllocatesSet(c, t)'
        /\ \A k \in Refs(c) : \A j \in Places(c, k) : Belongs(c, k, j) => Belongs(c, k, j)'
    BY <1>1, <1>2, <2>3, RestoresStays
  <2>7. 1 \in 1..Len(needs) /\ \A j \in 1..Len(needs) : j # 1 => 1 < j
    BY <1>5, <1>12
  <2>8. ASSUME NEW k \in Refs(c), NEW j \in Places(c, k)
        PROVE  /\ k # m /\ Belongs(c, k, j)'
               /\ RefBlock(c, k, j)'.kind = "allocate" =>
                    /\ RefBlock(c, k, j).kind = "allocate"
                    /\ RefBlock(c, k, j)'.sets \in writer.processed
    <3>1. Belongs(c, k, j)'
      BY <1>2, <2>6 DEF IsSound
    <3>2. k # m
      BY <2>4
    <3> QED BY <1>8, <2>5, <3>1, <3>2
  <2>9. ASSUME NEW j \in 1..Len(needs)
        PROVE  Belongs(c, m, j)'
    <3>1. RefBlock(c, m, j)' = needs[j] /\ at_capture'[c] = at_capture[c]
      BY <1>1, <2>4
    <3>2. CASE IsFirst(s) /\ j = 1
      <4>1. needs[j].kind = "allocate" /\ needs[j].sets \in Groups
        BY <1>5, <3>2, GroupFacts
      <4> QED BY <3>1, <4>1 DEF Belongs
    <3>3. CASE ~(IsFirst(s) /\ j = 1)
      <4>1. /\ needs[j].kind = "update" /\ needs[j].set = s
            /\ needs[j].binding \in Bindings(s) /\ IsActive(s, needs[j].binding)
            /\ needs[j].buffer = descriptors[s][needs[j].binding]
        BY <1>5, <3>3
      <4>2. needs[j].buffer \in LiveBuffers /\ needs[j].buffer = at_capture[c].sets[s][needs[j].binding]
        BY <1>10, <4>1
      <4>3. AllocatedBefore(c, s, m, j)'
        <5>1. CASE IsFirst(s)
          <6>1. 1 \in Places(c, m)' /\ 1 < j /\ RefBlock(c, m, 1)' = needs[1]
            BY <2>4, <2>7, <3>3, <5>1
          <6>2. needs[1].kind = "allocate" /\ needs[1].sets = GroupOf(s)
            BY <1>5, <5>1
          <6> QED BY <2>4, <6>1, <6>2 DEF AllocatedBefore, Allocates
        <5>2. CASE ~IsFirst(s)
          <6>1. PICK k \in Refs(c) : \E n \in Places(c, k) : Allocates(RefBlock(c, k, n), s)
            BY <1>7, <5>2 DEF AllocatesSet
          <6>2. PICK n \in Places(c, k) : Allocates(RefBlock(c, k, n), s)
            BY <6>1
          <6>3. k \in Refs(c)' /\ n \in Places(c, k)' /\ k < m /\ RefBlock(c, k, n)' = RefBlock(c, k, n)
            BY <2>4, <2>5
          <6> QED BY <6>2, <6>3 DEF AllocatedBefore, Allocates
        <5> QED BY <5>1, <5>2
      <4> QED BY <1>2, <1>3, <3>1, <4>1, <4>2, <4>3 DEF Belongs
    <3> QED BY <3>2, <3>3
  <2>10. ASSUME NEW j \in 1..Len(needs), needs[j].kind = "allocate"
         PROVE  j = 1 /\ needs[j].sets = GroupOf(s) /\ GroupOf(s) \notin writer.processed
    BY <1>5, <1>6, <2>10
  <2>11. AllocatedOnce(c)'
    <3> SUFFICES ASSUME NEW k \in Refs(c)', NEW n \in Refs(c)',
                        NEW i \in Places(c, k)', NEW j \in Places(c, n)',
                        RefBlock(c, k, i)'.kind = "allocate", RefBlock(c, n, j)'.kind = "allocate",
                        RefBlock(c, k, i)'.sets = RefBlock(c, n, j)'.sets
                 PROVE  k = n /\ i = j
      BY DEF AllocatedOnce
    <3>1. CASE k \in Refs(c) /\ n \in Refs(c)
      <4>1. /\ i \in Places(c, k) /\ j \in Places(c, n)
            /\ RefBlock(c, k, i)' = RefBlock(c, k, i) /\ RefBlock(c, n, j)' = RefBlock(c, n, j)
        BY <2>5, <3>1
      <4> QED BY <1>2, <3>1, <4>1 DEF IsSound, AllocatedOnce
    <3>2. CASE k = m /\ n = m
      BY <2>4, <2>10, <3>2
    <3>3. CASE k \in Refs(c) /\ n = m
      BY <2>4, <2>5, <2>8, <2>10, <3>3
    <3>4. CASE n \in Refs(c) /\ k = m
      BY <2>4, <2>5, <2>8, <2>10, <3>4
    <3> QED BY <2>4, <3>1, <3>2, <3>3, <3>4
  <2>12. IsSound(c)'
    <3>1. /\ content'[c] # <<>>
          /\ content'[c][1] = [kind |-> "create", buffers |-> DOMAIN at_capture'[c].buffers]
      <4>1. Len(content[c]) \in Nat /\ DOMAIN content[c] = 1..Len(content[c]) /\ content[c] \in Seq(Blocks)
        BY <1>1, FileFacts
      <4>2. 1 \in DOMAIN content[c]
        BY <1>2, <4>1, EmptySeq
      <4>3. 1 \in DOMAIN content'[c] /\ content'[c][1] = content[c][1] /\ at_capture'[c] = at_capture[c]
        BY <2>3, <4>2 DEF CaptureGrows
      <4>4. content'[c] # <<>>
        BY <4>3
      <4> QED BY <1>2, <4>3, <4>4 DEF IsSound
    <3>2. \A k \in Refs(c)' : RefersTo(c, k)' /\ \A j \in Places(c, k)' : Belongs(c, k, j)'
      BY <2>4, <2>5, <2>8, <2>9
    <3> QED BY <2>11, <3>1, <3>2 DEF IsSound
  <2>13. RestoresSet(c, s)'
    <3>1. AllocatesSet(c, s)'
      <4>1. CASE IsFirst(s)
        <5>1. 1 \in Places(c, m)' /\ RefBlock(c, m, 1)' = needs[1]
          BY <2>4, <2>7
        <5> QED BY <1>5, <2>4, <4>1, <5>1 DEF AllocatesSet, Allocates
      <4>2. CASE ~IsFirst(s)
        BY <1>7, <2>6, <4>2
      <4> QED BY <4>1, <4>2
    <3>2. ASSUME NEW i \in Bindings(s), at_capture'[c].sets[s][i] # NoBuffer
          PROVE  UpdatesSet(c, s, i)'
      <4>1. IsActive(s, i)
        BY <1>1, <1>9, <3>2
      <4>2. PICK j \in 1..Len(needs) : needs[j].kind = "update" /\ needs[j].binding = i
        BY <1>5, <4>1
      <4>3. needs[j].set = s
        BY <1>5, <4>2
      <4> QED BY <2>4, <4>2, <4>3 DEF UpdatesSet
    <3> QED BY <3>1, <3>2 DEF RestoresSet
  <2>14. ASSUME NEW k \in Refs(c)', NEW j \in Places(c, k)', RefBlock(c, k, j)'.kind = "allocate"
         PROVE  RefBlock(c, k, j)'.sets \in writer.processed \cup {GroupOf(s)}
    BY <2>4, <2>5, <2>8, <2>10, <2>14
  <2> QED BY <2>6, <2>12, <2>13, <2>14
<1> QED BY <1>5, <1>11, <1>12

LEMMA WriteDescriptorSetKeepsFiles ==
  ASSUME Undisturbed, SnapshotInv, NEW s \in Sets, WriteDescriptorSet(s)
  PROVE  SnapshotInv'
<1>1. IInv' /\ AssetTypeOK' /\ AssetTypeOK
  BY WriteDescriptorSetKeepsIInv DEF SnapshotInv, IInv
<1>2. /\ writer.pc = "sets" /\ NextVisited(LiveSets, s) /\ Dump(s, Needs(s))
      /\ writer' = [writer EXCEPT !.last = s, !.processed = @ \cup {GroupOf(s)}]
      /\ UNCHANGED <<app_vars, captured, dumps, at_capture>>
  BY AllocationIsForFirst DEF WriteDescriptorSet
<1>3. s \in LiveSets /\ s \in Handles
  BY <1>2 DEF NextVisited, Handles
<1>4. Needs(s) \in Seq(Blocks) /\ \A j \in 1..Len(Needs(s)) : Needs(s)[j].kind \in {"init", "allocate", "update"}
  <2>1. Needs(s) \in Seq(Blocks) /\ Len(Needs(s)) \in Nat
    BY <1>1, NeedsFacts
  <2> DEFINE needs == Needs(s)
  <2>2. /\ IsFirst(s) => needs[1] = [kind |-> "allocate", sets |-> GroupOf(s)]
        /\ \A j \in 1..Len(needs) : ~(IsFirst(s) /\ j = 1) => needs[j].kind = "update"
    BY <1>1, NeedsFacts
  <2> HIDE DEF needs
  <2>3. ASSUME NEW j \in 1..Len(needs)
        PROVE  needs[j].kind \in {"init", "allocate", "update"}
    BY <2>2
  <2> QED BY <2>1, <2>3 DEF needs
<1>5. s \notin dirty => Has(content[Asset], asset_file_offsets[s], Needs(s))
  <2>1. destroyed = {}
    BY <1>2, DumpIsQuiet DEF SnapshotInv
  <2> QED BY <1>3, <2>1 DEF SnapshotInv, FileInv, CleanSetsAreInTheFile, Marked
<1>6. /\ AssetGrows /\ AssetHasNoReferences'
      /\ Has(content'[Asset], asset_file_offsets'[s], Needs(s))
      /\ dirty' = dirty \ {s}
      /\ \A g \in Handles : g # s => asset_file_offsets'[g] = asset_file_offsets[g]
      /\ \A c \in Captures :
           content'[c] = IF c = writer.output_stream /\ Len(Needs(s)) > 0
                           THEN Append(content[c], Execute(asset_file_offsets'[s], Len(Needs(s))))
                           ELSE content[c]
  <2>1. AssetHasNoReferences
    BY DEF SnapshotInv, FileInv
  <2> QED BY <1>1, <1>2, <1>3, <1>4, <1>5, <2>1, DumpFacts
<1>7. /\ TableInv' /\ LiveSets' = LiveSets /\ LiveBuffers' = LiveBuffers /\ State' = State
  BY <1>2, SameTable DEF SnapshotInv, FileInv
<1>8. /\ writer'.pc = "sets" /\ writer'.output_stream = writer.output_stream
      /\ writer'.processed = writer.processed \cup {GroupOf(s)} /\ writer'.last = s
  <2>1. writer \in [pc : {"idle", "buffers", "sets"}, output_stream : Captures \cup {Asset},
                    last : Handles \cup {0}, processed : SUBSET Groups]
    BY <1>1 DEF AssetTypeOK
  <2> QED BY <1>2, <2>1
<1>9. ASSUME NEW c \in Captures, c = writer.output_stream
      PROVE  /\ IsSound(c)'
             /\ \A b : InitializesBuffer(c, b) => InitializesBuffer(c, b)'
             /\ \A t : RestoresSet(c, t) => RestoresSet(c, t)'
             /\ RestoresSet(c, s)'
             /\ \A k \in Refs(c)' : \A j \in Places(c, k)' :
                  RefBlock(c, k, j)'.kind = "allocate" =>
                    RefBlock(c, k, j)'.sets \in writer.processed \cup {GroupOf(s)}
  <2>1. content'[c] = IF Len(Needs(s)) > 0
                        THEN Append(content[c], Execute(asset_file_offsets'[s], Len(Needs(s))))
                        ELSE content[c]
    BY <1>6, <1>9
  <2> QED BY <1>1, <1>6, <1>9, <2>1, SetIsReferredTo
<1>10. CleanSetsAreInTheFile' /\ CapturesInv'
  <2>1. \A c \in Captures : c # writer.output_stream => content'[c] = content[c]
    BY <1>6
  <2>2. \A c \in Captures : c = writer.output_stream => IsSound(c)'
    BY <1>9
  <2> QED BY <1>1, <1>2, <1>3, <1>6, <1>8, <2>1, <2>2, DumpKeepsOthers
<1>11. \A t \in LiveSets : t <= s <=> t <= writer.last \/ t = s
  <2>1. /\ \A t \in LiveSets : t \in Nat
        /\ s > writer.last /\ \A t \in LiveSets : t > writer.last => s <= t
    BY <1>2, LiveNumbers DEF NextVisited
  <2>2. writer.last \in Nat
    <3>1. writer.last \in Handles \cup {0}
      BY <1>1 DEF AssetTypeOK
    <3>2. \A h \in Handles : h \in Nat
      BY <1>1, LiveIsTyped
    <3> QED BY <3>1, <3>2
  <2> QED BY <1>3, <2>1, <2>2
<1>12. WriterInv'
  <2>1. writer.processed = {GroupOf(t) : t \in {u \in LiveSets : u <= writer.last}}
    BY <1>2 DEF SnapshotInv, FileInv, WriterInv
  <2>2. {u \in LiveSets : u <= s} = {u \in LiveSets : u <= writer.last} \cup {s}
    BY <1>3, <1>11
  <2>3. writer'.processed = {GroupOf(t) : t \in {u \in LiveSets' : u <= writer'.last}}
    BY <1>7, <1>8, <2>1, <2>2
  <2>4. writer'.output_stream \in {Asset, captured'}
    BY <1>2, <1>8 DEF SnapshotInv, FileInv, WriterInv
  <2>5. writer'.output_stream # Asset => writer'.output_stream \in Captures
    BY <1>1 DEF AssetTypeOK
  <2>6. PICK c : c = writer'.output_stream
    OBVIOUS
  <2>7. ASSUME c # Asset
        PROVE  /\ at_capture'[c] = State'
               /\ \A b \in LiveBuffers' : InitializesBuffer(c, b)'
               /\ \A t \in LiveSets' : t <= s => RestoresSet(c, t)'
               /\ \A k \in Refs(c)' : \A j \in Places(c, k)' :
                    RefBlock(c, k, j)'.kind = "allocate" => RefBlock(c, k, j)'.sets \in writer'.processed
    <3>1. c \in Captures /\ c = writer.output_stream
      BY <1>8, <2>5, <2>6, <2>7
    <3>2. /\ at_capture[c] = State
          /\ \A b \in LiveBuffers : InitializesBuffer(c, b)
          /\ \A t \in LiveSets : t <= writer.last => RestoresSet(c, t)
      BY <1>2, <2>7, <3>1 DEF SnapshotInv, FileInv, WriterInv
    <3>3. \A t \in LiveSets : t <= s => RestoresSet(c, t)'
      BY <1>9, <1>11, <3>1, <3>2
    <3> QED BY <1>2, <1>7, <1>8, <1>9, <3>1, <3>2, <3>3
  <2> QED BY <1>8, <2>3, <2>4, <2>6, <2>7 DEF WriterInv
<1> QED BY <1>1, <1>6, <1>7, <1>10, <1>12 DEF SnapshotInv, FileInv

-----------------------------------------------------------------------------
LEMMA InitSnapshotInv == AssetInit => SnapshotInv
<1> SUFFICES ASSUME AssetInit PROVE SnapshotInv
  OBVIOUS
<1>1. IInv
  BY InitImpliesIInv
<1>2. /\ live = {} /\ created = {} /\ descriptors = [s \in Sets |-> Unbound(s)]
      /\ content = [f \in Captures \cup {Asset} |-> <<>>] /\ writer = NoWriter /\ captured = 0
      /\ at_capture = [c \in Captures |-> State] /\ LiveSets = {} /\ LiveBuffers = {}
  BY DEF AssetInit, LiveSets, LiveBuffers
<1>3. TableInv
  BY <1>2 DEF TableInv, Unbound
<1>4. CleanSetsAreInTheFile
  BY <1>2 DEF CleanSetsAreInTheFile
<1>5. AssetHasNoReferences
  <2>1. content[Asset] = <<>>
    BY <1>2
  <2>2. DOMAIN content[Asset] = {}
    BY <2>1
  <2> QED BY <2>2 DEF AssetHasNoReferences
<1>6. WriterInv
  BY <1>2, NoWriterFields DEF WriterInv
<1>7. CapturesInv
  <2>1. 1..captured = {}
    BY <1>2
  <2> QED BY <1>2, <2>1 DEF CapturesInv
<1> QED BY <1>1, <1>3, <1>4, <1>5, <1>6, <1>7 DEF SnapshotInv, FileInv

LEMMA AssetStepKeepsSnapshotInv ==
  ASSUME UpdatesAreTracked, FirstIsFreedLast, RangesOfFrames, DumpsAreAlone, SnapshotInv, AssetNext
  PROVE  SnapshotInv'
BY AppKeepsFiles, WriteStateKeepsFiles, PassKeepsFiles, ProcessBufferMemoryKeepsFiles,
   WriteDescriptorSetKeepsFiles DEF AssetNext, WriterStep, Undisturbed

LEMMA UnchangedKeepsSnapshotInv ==
  ASSUME SnapshotInv, UNCHANGED asset_vars
  PROVE  SnapshotInv'
<1>1. UNCHANGED <<app_vars, dirty, asset_file_offsets, content, writer, captured, at_capture>>
  BY DEF asset_vars, writer_vars
<1>2. IInv'
  BY StepKeepsIInv DEF SnapshotInv
<1>3. /\ TableInv' /\ LiveSets' = LiveSets /\ LiveBuffers' = LiveBuffers /\ State' = State
      /\ \A s : Needs(s)' = Needs(s)
      /\ Marked' = Marked
  BY <1>1, SameTable DEF SnapshotInv, FileInv
<1>4. CleanSetsAreInTheFile' /\ AssetHasNoReferences'
  BY <1>1, <1>3, NothingWrittenKeepsAsset DEF CleanSetsStay, SnapshotInv, FileInv, IInv
<1>5. WriterInv'
  <2>1. WriterInv /\ writer' = writer /\ captured' = captured
    BY <1>1 DEF SnapshotInv, FileInv
  <2>2. PICK c : c = writer.output_stream
    OBVIOUS
  <2>3. c # Asset =>
          /\ at_capture'[c] = State'
          /\ \A b \in LiveBuffers' :
               writer'.pc = "sets" \/ b <= writer'.last => InitializesBuffer(c, b)'
          /\ \A s \in LiveSets' :
               writer'.pc = "sets" /\ s <= writer'.last => RestoresSet(c, s)'
    BY <1>1, <1>3, <2>1, <2>2, SameFilesSameCaptures DEF WriterInv
  <2>4. c # Asset =>
          \A k \in Refs(c)' : \A j \in Places(c, k)' :
            RefBlock(c, k, j)'.kind = "allocate" => RefBlock(c, k, j)'.sets \in writer'.processed
    <3>1. c # Asset =>
            \A k \in Refs(c) : \A j \in Places(c, k) :
              RefBlock(c, k, j).kind = "allocate" => RefBlock(c, k, j).sets \in writer.processed
      BY <2>1, <2>2 DEF WriterInv
    <3>2. /\ Refs(c)' = Refs(c)
          /\ \A k : Places(c, k)' = Places(c, k)
          /\ \A k, j : RefBlock(c, k, j)' = RefBlock(c, k, j)
      BY <1>1, SameFilesSameCaptures
    <3> QED BY <2>1, <3>1, <3>2
  <2>5. /\ writer'.output_stream \in {Asset, captured'}
        /\ writer'.pc = "idle" => writer' = NoWriter
        /\ writer'.processed =
             IF writer'.pc = "sets" THEN {GroupOf(s) : s \in {t \in LiveSets' : t <= writer'.last}} ELSE {}
    BY <1>3, <2>1 DEF WriterInv
  <2>6. c = writer'.output_stream
    BY <2>1, <2>2
  <2> QED BY <2>3, <2>4, <2>5, <2>6 DEF WriterInv
<1>6. CapturesInv'
  BY <1>1, SameFilesSameCaptures DEF CapturesInv, SnapshotInv, FileInv
<1> QED BY <1>2, <1>3, <1>4, <1>5, <1>6 DEF SnapshotInv, FileInv

(* The end of the captured process leaves the files.                         *)
LEMMA TrackerGoneKeepsSnapshotInv ==
  ASSUME SnapshotInv, Tracking, TrackerGone, UNCHANGED <<content, writer, captured, dumps, at_capture>>
  PROVE  SnapshotInv'
<1>1. /\ live' = {} /\ created' = {} /\ descriptors' = [s \in Sets |-> Unbound(s)]
      /\ writer' = NoWriter /\ LiveSets' = {} /\ LiveBuffers' = {}
  BY DEF TrackerGone, Tracking, LiveSets, LiveBuffers
<1>2. AssetTypeOK'
  <2>1. AssetTypeOK
    BY DEF SnapshotInv, IInv
  <2>2. /\ DOMAIN descriptors' = Sets
        /\ \A s \in Sets : descriptors'[s] \in [Bindings(s) -> Buffers \cup {NoBuffer}]
    BY <1>1 DEF Unbound
  <2>3. contents' \in [Buffers -> Nat] /\ asset_file_offsets' \in [Handles -> Nat]
    BY DEF TrackerGone
  <2>4. bound_to' = {} /\ dirty' = {} /\ submitted' = {} /\ destroyed' = {}
    BY DEF TrackerGone
  <2> QED BY <1>1, <2>1, <2>2, <2>3, <2>4 DEF AssetTypeOK
<1>3. IInv' /\ CleanSetsAreInTheFile'
  <2>1. QuietInv' /\ CleanBuffersAreInTheFile'
    BY <1>1 DEF QuietInv, CleanBuffersAreInTheFile, TrackerGone
  <2> QED BY <1>1, <1>2, <2>1 DEF IInv, CleanSetsAreInTheFile
<1>4. TableInv'
  BY <1>1 DEF TableInv, Unbound
<1>5. WriterInv'
  BY <1>1, NoWriterFields DEF WriterInv
<1>6. AssetHasNoReferences'
  BY DEF SnapshotInv, FileInv, AssetHasNoReferences
<1>7. CapturesInv'
  BY SameFilesSameCaptures DEF CapturesInv, SnapshotInv, FileInv
<1> QED BY <1>3, <1>4, <1>5, <1>6, <1>7 DEF SnapshotInv, FileInv

-----------------------------------------------------------------------------
(* The replay.                                                               *)
BlocksOf(g) ==
  /\ DOMAIN g \subseteq DOMAIN content
  /\ \A f \in DOMAIN g : g[f] \in Seq(Blocks)
  /\ Asset \in DOMAIN g =>
       \A k \in DOMAIN g[Asset] : g[Asset][k].kind \in {"init", "allocate", "update"}

(* A block that executes others is inside of the asset file, if there is one. *)
ReferencesOf(c, g) ==
  \A k \in DOMAIN g[c] : g[c][k].kind = "execute" =>
    /\ g[c][k] = Execute(g[c][k].offset, g[c][k].n_blocks)
    /\ g[c][k].offset \in Nat \ {0} /\ g[c][k].n_blocks \in Nat
    /\ Asset \in DOMAIN g => g[c][k].offset <= Len(g[Asset]) + 1

LEMMA CreateIsNoReference ==
  ASSUME SnapshotInv, NEW c \in 1..captured
  PROVE  /\ content[c][1].kind = "create"
         /\ \A k \in DOMAIN content[c] :
              content[c][k].kind = "execute" => k \in Refs(c) /\ RefersTo(c, k)
<1>1. IsSound(c)
  BY DEF SnapshotInv, FileInv, CapturesInv
<1>2. content[c][1].kind = "create"
  BY <1>1 DEF IsSound
<1>3. content[c] \in Seq(Blocks)
  BY CapturedAreCaptures, FileFacts DEF SnapshotInv, IInv
<1>4. \A k \in DOMAIN content[c] : k = 1 \/ k \in Refs(c)
  BY <1>3 DEF Refs
<1> QED BY <1>1, <1>2, <1>4 DEF IsSound

LEMMA GivenFacts ==
  ASSUME SnapshotInv, NEW c \in 1..captured, NEW g \in FilesGiven(c)
  PROVE  c \in DOMAIN g /\ c # Asset /\ BlocksOf(g) /\ ReferencesOf(c, g)
<1>1. /\ c \in Captures /\ c # Asset /\ DOMAIN content = Captures \cup {Asset}
      /\ \A f \in DOMAIN content : content[f] \in Seq(Blocks)
  BY CapturedAreCaptures, FileFacts DEF SnapshotInv, IInv, Asset, AssetTypeOK
<1>2. \A k \in DOMAIN content[Asset] : content[Asset][k].kind \in {"init", "allocate", "update"}
  BY DEF SnapshotInv, FileInv, AssetHasNoReferences
<1>3. \A k \in DOMAIN content[c] : content[c][k].kind = "execute" =>
        /\ content[c][k] = Execute(content[c][k].offset, content[c][k].n_blocks)
        /\ content[c][k].offset \in Nat \ {0} /\ content[c][k].n_blocks \in Nat \ {0}
        /\ content[c][k].offset + content[c][k].n_blocks <= Len(content[Asset]) + 1
  BY CreateIsNoReference DEF RefersTo
<1>4. content[Asset] \in Seq(Blocks) /\ Len(content[Asset]) \in Nat
  BY <1>1
<1>5. CASE g = content
  <2>1. BlocksOf(g)
    BY <1>1, <1>2, <1>5 DEF BlocksOf
  <2>2. ReferencesOf(c, g)
    BY <1>3, <1>4, <1>5 DEF ReferencesOf
  <2> QED BY <1>1, <1>5, <2>1, <2>2
<1>6. CASE g = [f \in Captures |-> content[f]]
  <2>1. DOMAIN g = Captures /\ Asset \notin DOMAIN g /\ g[c] = content[c]
    BY <1>1, <1>6 DEF Captures, Asset
  <2>2. BlocksOf(g)
    BY <1>1, <1>6, <2>1 DEF BlocksOf
  <2>3. ReferencesOf(c, g)
    BY <1>3, <2>1 DEF ReferencesOf
  <2> QED BY <1>1, <2>1, <2>2, <2>3
<1>7. CASE g = [content EXCEPT ![Asset] = SubSeq(@, 1, Len(@) - 1)]
  <2> DEFINE cut == SubSeq(content[Asset], 1, Len(content[Asset]) - 1)
  <2>1. /\ DOMAIN g = DOMAIN content /\ g[c] = content[c] /\ g[Asset] = cut
        /\ \A f \in DOMAIN content : f # Asset => g[f] = content[f]
    BY <1>1, <1>7
  <2>2. /\ cut \in Seq(Blocks)
        /\ Len(cut) = IF Len(content[Asset]) = 0 THEN 0 ELSE Len(content[Asset]) - 1
        /\ \A k \in 1..Len(cut) : cut[k] = content[Asset][k]
    BY <1>4
  <2>3. \A k \in DOMAIN cut : k \in DOMAIN content[Asset]
    BY <1>4, <2>2
  <2>4. DOMAIN cut = 1..Len(cut)
    BY <2>2
  <2> HIDE DEF cut
  <2>5. BlocksOf(g)
    BY <1>1, <1>2, <2>1, <2>2, <2>3, <2>4 DEF BlocksOf
  <2>6. \A k \in DOMAIN content[c] : content[c][k].kind = "execute" => content[c][k].offset <= Len(cut) + 1
    BY <1>3, <1>4, <2>2
  <2>7. ReferencesOf(c, g)
    BY <1>3, <2>1, <2>6 DEF ReferencesOf
  <2> QED BY <1>1, <2>1, <2>5, <2>7
<1>8. CASE g = [content EXCEPT ![c] = <<Execute(1, 0)>>]
  <2>1. /\ DOMAIN g = DOMAIN content /\ g[c] = <<Execute(1, 0)>> /\ g[Asset] = content[Asset]
        /\ \A f \in DOMAIN content : f # c => g[f] = content[f]
    BY <1>1, <1>8
  <2>2. Execute(1, 0) \in Blocks
    BY DEF Execute, Blocks
  <2>3. BlocksOf(g)
    <3>1. <<Execute(1, 0)>> \in Seq(Blocks)
      BY <2>2
    <3> QED BY <1>1, <1>2, <2>1, <3>1 DEF BlocksOf
  <2>4. ReferencesOf(c, g)
    <3>1. Execute(1, 0).offset = 1 /\ Execute(1, 0).n_blocks = 0
      BY DEF Execute
    <3>2. \A k \in DOMAIN g[c] : g[c][k] = Execute(1, 0)
      BY <2>1
    <3> QED BY <1>4, <2>1, <3>1, <3>2 DEF ReferencesOf
  <2> QED BY <1>1, <2>1, <2>3, <2>4
<1> QED BY <1>5, <1>6, <1>7, <1>8 DEF FilesGiven

LEMMA Pairs ==
  ASSUME NEW m, NEW x
  PROVE  /\ Len(<<m>>) = 1 /\ <<m>>[1] = m /\ SubSeq(<<m>>, 1, 0) = <<>>
         /\ Len(<<m, x>>) = 2 /\ <<m, x>>[2] = x /\ SubSeq(<<m, x>>, 1, 1) = <<m>>
         /\ Append(<<m>>, x) = <<m, x>>
<1>1. Len(<<m>>) = 1 /\ <<m>>[1] = m /\ Len(<<m, x>>) = 2 /\ <<m, x>>[2] = x
  OBVIOUS
<1>2. SubSeq(<<m>>, 1, 0) = <<>>
  <2>1. Len(SubSeq(<<m>>, 1, 0)) = 0 /\ SubSeq(<<m>>, 1, 0) \in Seq({m})
    OBVIOUS
  <2> QED BY <2>1, EmptySeq
<1>3. Append(<<m>>, x) = <<m, x>>
  <2> DEFINE longer == Append(<<m>>, x)
             pair == <<m, x>>
  <2>1. /\ longer \in Seq({m, x}) /\ Len(longer) = 2 /\ longer[1] = m /\ longer[2] = x
        /\ pair \in Seq({m, x}) /\ Len(pair) = 2 /\ pair[1] = m /\ pair[2] = x
    OBVIOUS
  <2> HIDE DEF longer, pair
  <2>2. longer = pair
    BY <2>1, SeqEqual
  <2> QED BY <2>2 DEF longer, pair
<1>4. SubSeq(<<m, x>>, 1, 1) = <<m>>
  <2> DEFINE sub == SubSeq(<<m, x>>, 1, 1)
  <2>1. <<m>> \in Seq({m, x}) /\ sub \in Seq({m, x}) /\ Len(sub) = 1 /\ sub[1] = m
    OBVIOUS
  <2> HIDE DEF sub
  <2>2. sub = <<m>>
    BY <1>1, <2>1, SeqEqual
  <2> QED BY <2>2 DEF sub
<1> QED BY <1>1, <1>2, <1>3, <1>4

(* The context of a file that is executed to its end is not counted down.    *)
LEMMA MainStaysOpen ==
  ASSUME NEW m, m.execute_till_eof = TRUE
  PROVE  DecrementRemainingCommands(<<m>>) = <<m>> /\ Below(<<m>>) = <<>>
<1>1. Len(<<m>>) = 1 /\ <<m>>[1] = m /\ SubSeq(<<m>>, 1, 0) = <<>>
  BY Pairs
<1>2. DecrementRemainingCommands(<<m>>) = <<m>>
  BY <1>1 DEF DecrementRemainingCommands
<1>3. Below(<<m>>) = <<>>
  BY <1>1 DEF Below
<1> QED BY <1>2, <1>3

LEMMA TillEofStaysOpen ==
  ASSUME NEW m, NEW x, x.execute_till_eof = TRUE
  PROVE  DecrementRemainingCommands(<<m, x>>) = <<m, x>> /\ Below(<<m, x>>) = <<m>>
<1>1. Len(<<m, x>>) = 2 /\ <<m, x>>[2] = x /\ SubSeq(<<m, x>>, 1, 1) = <<m>>
  BY Pairs
<1>2. DecrementRemainingCommands(<<m, x>>) = <<m, x>>
  BY <1>1 DEF DecrementRemainingCommands
<1>3. Below(<<m, x>>) = <<m>>
  BY <1>1 DEF Below
<1> QED BY <1>2, <1>3

LEMMA OthersAreCountedDown ==
  ASSUME NEW m, NEW file, NEW n \in Nat \ {0}
  PROVE  DecrementRemainingCommands(<<m, ActiveFileContext(file, FALSE, n)>>) =
           IF n = 1 THEN <<m>> ELSE <<m, ActiveFileContext(file, FALSE, n - 1)>>
<1> DEFINE x == ActiveFileContext(file, FALSE, n)
           y == ActiveFileContext(file, FALSE, n - 1)
<1>1. ~x.execute_till_eof /\ x.remaining_commands = n
  BY DEF ActiveFileContext
<1>2. ActiveFileContext(x.file, FALSE, x.remaining_commands - 1) = y
  BY DEF ActiveFileContext
<1> HIDE DEF x, y
<1>3. /\ Len(<<m, x>>) = 2 /\ <<m, x>>[2] = x /\ SubSeq(<<m, x>>, 1, 1) = <<m>>
      /\ Append(<<m>>, y) = <<m, y>>
  BY Pairs
<1>4. Below(<<m, x>>) = <<m>>
  BY <1>3 DEF Below
<1>5. DecrementRemainingCommands(<<m, x>>) = IF n = 1 THEN <<m>> ELSE <<m, y>>
  <2> DEFINE pair == <<m, x>>
  <2>1. /\ pair[Len(pair)] = x /\ Below(pair) = <<m>>
        /\ Append(Below(pair), ActiveFileContext(x.file, FALSE, x.remaining_commands - 1)) = <<m, y>>
    BY <1>2, <1>3, <1>4
  <2> HIDE DEF pair
  <2>2. DecrementRemainingCommands(pair) = IF n = 1 THEN <<m>> ELSE <<m, y>>
    BY <1>1, <2>1 DEF DecrementRemainingCommands
  <2> QED BY <2>2 DEF pair
<1> QED BY <1>5 DEF x, y

-----------------------------------------------------------------------------
(* Where the replay is                                                       *)
Given ==
  /\ replayed \in DOMAIN given /\ replayed # Asset
  /\ BlocksOf(given) /\ ReferencesOf(replayed, given)

LEMMA GivenIsTyped ==
  ASSUME Given, NEW f \in DOMAIN given
  PROVE  given[f] \in Seq(Blocks) /\ Len(given[f]) \in Nat /\ DOMAIN given[f] = 1..Len(given[f])
<1>1. given[f] \in Seq(Blocks)
  BY DEF Given, BlocksOf
<1> QED BY <1>1, LenProperties

LEMMA ExecutedIsTyped ==
  ASSUME StackInv
  PROVE  /\ executed \in Seq(Seq(Blocks)) /\ Len(executed) \in Nat
         /\ DOMAIN executed = 1..Len(executed)
         /\ \A k \in 1..Len(executed) : executed[k] \in Seq(Blocks) /\ Len(executed[k]) \in Nat
         /\ executed # <<>> <=> Len(executed) # 0
<1>1. executed \in Seq(Seq(Blocks))
  BY DEF StackInv
<1>2. Len(executed) \in Nat /\ DOMAIN executed = 1..Len(executed)
  BY <1>1, LenProperties
<1>3. \A k \in 1..Len(executed) : executed[k] \in Seq(Blocks)
  BY <1>1, ElementOfSeq
<1>4. executed # <<>> <=> Len(executed) # 0
  BY <1>1, EmptySeq
<1> QED BY <1>1, <1>2, <1>3, <1>4, LenProperties

LEMMA ContextFields ==
  ASSUME NEW f, NEW e, NEW n
  PROVE  /\ ActiveFileContext(f, e, n).file = f
         /\ ActiveFileContext(f, e, n).execute_till_eof = e
         /\ ActiveFileContext(f, e, n).remaining_commands = n
BY DEF ActiveFileContext

LEMMA MainFacts ==
  ASSUME file_stack = <<Main>>
  PROVE  /\ InCapture /\ ~InAsset /\ Len(file_stack) = 1
         /\ CurrentFile = Main /\ CurrentFile.file = replayed /\ CurrentFile.execute_till_eof = TRUE
         /\ DecrementRemainingCommands(file_stack) = <<Main>> /\ Below(file_stack) = <<>>
<1>1. Main.file = replayed /\ Main.execute_till_eof = TRUE
  BY DEF Main, ActiveFileContext
<1> HIDE DEF Main
<1>2. Len(<<Main>>) = 1 /\ <<Main>>[1] = Main
  BY Pairs
<1>3. Len(file_stack) = 1 /\ CurrentFile = Main
  BY <1>2 DEF CurrentFile
<1>4. DecrementRemainingCommands(<<Main>>) = <<Main>> /\ Below(<<Main>>) = <<>>
  BY <1>1, MainStaysOpen
<1> QED BY <1>1, <1>3, <1>4 DEF InCapture, InAsset

LEMMA InMainFacts ==
  ASSUME Given, StackInv, file_stack = <<Main>>, read_state = "continue"
  PROVE  /\ EntriesDone = Len(executed)
         /\ NextBlock(given) = given[replayed][Len(executed) + 1]
         /\ AtEof(given) <=> Len(executed) = Len(given[replayed])
         /\ ~AtEof(given) => Len(executed) + 1 \in DOMAIN given[replayed]
<1>1. Len(executed) \in Nat /\ Len(given[replayed]) \in Nat /\ DOMAIN given[replayed] = 1..Len(given[replayed])
  BY ExecutedIsTyped, GivenIsTyped DEF Given
<1>2. position[replayed] = Len(executed) + 1 /\ position[replayed] \in 1..(Len(given[replayed]) + 1)
  BY DEF StackInv, Given
<1>3. NextBlock(given) = given[replayed][Len(executed) + 1]
  BY <1>2, MainFacts DEF NextBlock
<1>4. AtEof(given) <=> Len(executed) + 1 > Len(given[replayed])
  BY <1>2, MainFacts DEF AtEof
<1>5. EntriesDone = Len(executed)
  BY MainFacts DEF EntriesDone
<1> QED BY <1>1, <1>2, <1>3, <1>4, <1>5

(* The block that executes others, and what was executed of these.           *)
Executing == given[replayed][Len(executed)]
Done == executed[Len(executed)]
Context == ActiveFileContext(Asset, Executing.n_blocks = 0,
             IF Executing.n_blocks = 0 THEN 1 ELSE Executing.n_blocks - Len(Done))

LEMMA InAssetFacts ==
  ASSUME Given, StackInv, InAssetFile
  PROVE  /\ file_stack = <<Main, Context>> /\ Len(file_stack) = 2 /\ InAsset /\ ~InCapture
         /\ CurrentFile = Context /\ CurrentFile.file = Asset
         /\ Len(executed) \in Nat \ {0} /\ Len(executed) \in DOMAIN given[replayed]
         /\ EntriesDone = Len(executed) - 1
         /\ Executing = Execute(Executing.offset, Executing.n_blocks)
         /\ Executing.offset \in Nat \ {0} /\ Executing.n_blocks \in Nat
         /\ Done \in Seq(Blocks) /\ Len(Done) \in Nat
         /\ position[Asset] = Executing.offset + Len(Done)
         /\ Asset \in DOMAIN given /\ given[Asset] \in Seq(Blocks) /\ Len(given[Asset]) \in Nat
         /\ NextBlock(given) = given[Asset][position[Asset]]
         /\ AtEof(given) <=> position[Asset] = Len(given[Asset]) + 1
         /\ position[Asset] <= Len(given[Asset]) + 1
         /\ ~AtEof(given) => NextBlock(given).kind # "execute" /\ NextBlock(given) \in Blocks
<1>1. file_stack = <<Main, Context>> /\ Asset \in DOMAIN given /\ executed # <<>>
  BY DEF InAssetFile, Context, Executing, Done
<1>2. Context.file = Asset
  BY DEF Context, ActiveFileContext
<1>3. Len(file_stack) = 2 /\ CurrentFile = Context /\ InAsset /\ ~InCapture
  <2> HIDE DEF Main, Context
  <2>1. Len(<<Main, Context>>) = 2 /\ <<Main, Context>>[2] = Context
    BY Pairs
  <2> QED BY <1>1, <2>1 DEF CurrentFile, InAsset, InCapture
<1>4. /\ Len(executed) \in Nat \ {0}
      /\ Done \in Seq(Blocks) /\ Len(Done) \in Nat
  BY <1>1, ExecutedIsTyped DEF Done
<1>5. Len(given[replayed]) \in Nat /\ DOMAIN given[replayed] = 1..Len(given[replayed])
  BY GivenIsTyped DEF Given
<1>6. Len(executed) \in DOMAIN given[replayed]
  <2>1. position[replayed] = Len(executed) + 1 /\ position[replayed] \in 1..(Len(given[replayed]) + 1)
    BY DEF StackInv, Given
  <2> QED BY <1>4, <1>5, <2>1
<1>7. /\ Executing = Execute(Executing.offset, Executing.n_blocks)
      /\ Executing.offset \in Nat \ {0} /\ Executing.n_blocks \in Nat
  BY <1>6 DEF InAssetFile, Executing, Given, ReferencesOf
<1>8. position[Asset] = Executing.offset + Len(Done) /\ position[Asset] \in 1..(Len(given[Asset]) + 1)
  BY <1>1 DEF InAssetFile, StackInv, Executing, Done
<1>9. given[Asset] \in Seq(Blocks) /\ Len(given[Asset]) \in Nat /\ DOMAIN given[Asset] = 1..Len(given[Asset])
  BY <1>1, GivenIsTyped
<1>10. NextBlock(given) = given[Asset][position[Asset]] /\ (AtEof(given) <=> position[Asset] > Len(given[Asset]))
  BY <1>2, <1>3 DEF NextBlock, AtEof
<1>11. ~AtEof(given) => position[Asset] \in DOMAIN given[Asset]
  BY <1>8, <1>9, <1>10
<1>12. ~AtEof(given) => NextBlock(given).kind # "execute"
  BY <1>1, <1>10, <1>11 DEF Given, BlocksOf
<1>13. ~AtEof(given) => NextBlock(given) \in Blocks
  BY <1>9, <1>10, <1>11, ElementOfSeq
<1>14. EntriesDone = Len(executed) - 1
  BY <1>3 DEF EntriesDone
<1>15. AtEof(given) <=> position[Asset] = Len(given[Asset]) + 1
  BY <1>8, <1>9, <1>10
<1> QED BY <1>1, <1>2, <1>3, <1>4, <1>6, <1>7, <1>8, <1>9, <1>10, <1>12, <1>13, <1>14, <1>15

LEMMA WhileReading ==
  ASSUME Given, StackInv, read_state = "continue"
  PROVE  InMain \/ InAssetFile
BY DEF StackInv, Ended, AssetMissing

-----------------------------------------------------------------------------
(* What was executed stays when an entry is added, and when the last one     *)
(* grows.                                                                    *)
SameFiles == given' = given /\ replayed' = replayed /\ content' = content

LEMMA ReferencedStays == ASSUME SameFiles, NEW b PROVE Referenced(b)' = Referenced(b)
BY DEF SameFiles, Referenced

LEMMA EntryStays ==
  ASSUME SameFiles, NEW k, NEW e, e = given[replayed][k], executed'[k] = Referenced(e)
  PROVE  executed'[k] = Referenced(given[replayed][k])'
<1>1. Referenced(e)' = Referenced(e)
  BY ReferencedStays
<1>2. e = given'[replayed'][k]
  BY DEF SameFiles
<1> QED BY <1>1, <1>2

LEMMA EntryAdded ==
  ASSUME Given, StackInv, NEW e \in Seq(Blocks), executed' = Append(executed, e)
  PROVE  /\ executed' \in Seq(Seq(Blocks)) /\ Len(executed') = Len(executed) + 1
         /\ executed' # <<>>
         /\ executed'[Len(executed')] = e /\ executed'[Len(executed) + 1] = e
         /\ \A k \in 1..Len(executed) : executed'[k] = executed[k]
<1>1. executed \in Seq(Seq(Blocks)) /\ Len(executed) \in Nat
  BY ExecutedIsTyped
<1>2. /\ executed' \in Seq(Seq(Blocks)) /\ Len(executed') = Len(executed) + 1
      /\ executed'[Len(executed) + 1] = e
      /\ \A k \in 1..Len(executed) : executed'[k] = executed[k]
  BY <1>1, AppendProperties
<1>3. executed' # <<>>
  BY <1>1, <1>2, EmptySeq
<1> QED BY <1>1, <1>2, <1>3

(* The next block of the capture file is read, and makes an entry.           *)
LEMMA CaptureRead ==
  ASSUME Given, StackInv, InMain, ~AtEof(given), NEW e \in Seq(Blocks),
         SameFiles, executed' = Append(executed, e),
         position' = [position EXCEPT ![replayed] = @ + 1]
  PROVE  /\ position' \in [DOMAIN given' -> Nat]
         /\ \A f \in DOMAIN given' : position'[f] \in 1..(Len(given'[f]) + 1)
         /\ position'[replayed'] = Len(executed') + 1
         /\ \A k \in 1..Len(executed) : executed'[k] = Referenced(given[replayed][k])'
<1>1. /\ EntriesDone = Len(executed) /\ Len(executed) + 1 \in DOMAIN given[replayed]
      /\ position[replayed] = Len(executed) + 1
  BY InMainFacts DEF InMain, StackInv
<1>2. /\ Len(executed) \in Nat /\ Len(given[replayed]) \in Nat
      /\ DOMAIN given[replayed] = 1..Len(given[replayed])
  BY ExecutedIsTyped, GivenIsTyped DEF Given
<1>3. position \in [DOMAIN given -> Nat] /\ replayed \in DOMAIN given
  BY DEF StackInv, Given
<1>4. position'[replayed] = Len(executed) + 2 /\ position'[replayed] \in 1..(Len(given[replayed]) + 1)
  BY <1>1, <1>2, <1>3
<1>5. position' \in [DOMAIN given' -> Nat] /\ \A f \in DOMAIN given : f # replayed => position'[f] = position[f]
  BY <1>2, <1>3, <1>4 DEF SameFiles
<1>6. \A f \in DOMAIN given' : position'[f] \in 1..(Len(given'[f]) + 1)
  BY <1>4, <1>5 DEF SameFiles, StackInv
<1>7. position'[replayed'] = Len(executed') + 1
  BY <1>2, <1>4, EntryAdded DEF SameFiles
<1>8. \A k \in 1..Len(executed) : executed'[k] = Referenced(given[replayed][k])'
  <2> SUFFICES ASSUME NEW k \in 1..Len(executed) PROVE executed'[k] = Referenced(given[replayed][k])'
    OBVIOUS
  <2>1. executed'[k] = Referenced(given[replayed][k])
    BY <1>1, EntryAdded DEF StackInv
  <2>2. PICK b : b = given[replayed][k]
    OBVIOUS
  <2>3. Referenced(b)' = Referenced(b) /\ b = given'[replayed'][k]
    BY <2>2, ReferencedStays DEF SameFiles
  <2> QED BY <2>1, <2>2, <2>3
<1> QED BY <1>5, <1>6, <1>7, <1>8

LEMMA OwnBlockOfCapture ==
  ASSUME Given, StackInv, InMain, ProcessOwnBlock(given), SameFiles,
         executed' = Append(executed, <<NextBlock(given)>>)
  PROVE  StackInv'
<1>1. /\ ~AtEof(given) /\ NextBlock(given).kind # "execute"
      /\ position' = [position EXCEPT ![replayed] = @ + 1]
      /\ file_stack' = <<Main>> /\ read_state' = "continue"
  BY MainFacts DEF ProcessOwnBlock, InMain
<1>2. PICK b : b = NextBlock(given)
  OBVIOUS
<1>3. b = given[replayed][Len(executed) + 1] /\ b \in Blocks
  <2>1. b = given[replayed][Len(executed) + 1] /\ Len(executed) + 1 \in DOMAIN given[replayed]
    BY <1>1, <1>2, InMainFacts DEF InMain
  <2>2. given[replayed] \in Seq(Blocks) /\ DOMAIN given[replayed] = 1..Len(given[replayed])
    BY GivenIsTyped DEF Given
  <2> QED BY <2>1, <2>2, ElementOfSeq
<1>4. <<b>> \in Seq(Blocks) /\ executed' = Append(executed, <<b>>)
  BY <1>2, <1>3
<1>5. /\ executed' \in Seq(Seq(Blocks)) /\ Len(executed') = Len(executed) + 1
      /\ executed'[Len(executed) + 1] = <<b>>
  BY <1>4, EntryAdded
<1>6. /\ position' \in [DOMAIN given' -> Nat]
      /\ \A f \in DOMAIN given' : position'[f] \in 1..(Len(given'[f]) + 1)
      /\ position'[replayed'] = Len(executed') + 1
      /\ \A k \in 1..Len(executed) : executed'[k] = Referenced(given[replayed][k])'
  BY <1>1, <1>4, CaptureRead
<1>7. Referenced(b)' = <<b>>
  BY <1>1, <1>2 DEF Referenced
<1>8. /\ file_stack' = <<Main>>' /\ InMain' /\ ~InAsset' /\ EntriesDone' = Len(executed')
  <2>1. Main' = Main
    BY DEF SameFiles, Main
  <2>2. file_stack' = <<Main>>'
    BY <1>1, <2>1
  <2>3. Len(<<Main'>>) = 1
    OBVIOUS
  <2>4. ~InAsset'
    BY <2>2, <2>3 DEF InAsset
  <2> QED BY <1>1, <2>2, <2>4 DEF InMain, EntriesDone
<1>9. \A k \in 1..Len(executed') : executed'[k] = Referenced(given[replayed][k])'
  <2> SUFFICES ASSUME NEW k \in 1..Len(executed') PROVE executed'[k] = Referenced(given[replayed][k])'
    OBVIOUS
  <2>1. Len(executed) \in Nat /\ (k \in 1..Len(executed) \/ k = Len(executed) + 1)
    BY <1>5, ExecutedIsTyped
  <2>2. CASE k = Len(executed) + 1
    <3>1. b = given'[replayed'][k]
      BY <1>3, <2>2 DEF SameFiles
    <3> QED BY <1>5, <1>7, <2>2, <3>1
  <2> QED BY <1>6, <2>1, <2>2
<1> QED BY <1>5, <1>6, <1>8, <1>9 DEF StackInv

LEMMA ExecuteOfCapture ==
  ASSUME Given, StackInv, InMain, ProcessExecuteBlocksFromFile(given), SameFiles,
         executed' = Append(executed, <<>>)
  PROVE  StackInv'
<1>1. /\ ~AtEof(given) /\ NextBlock(given).kind = "execute"
      /\ CurrentFile.file = replayed /\ file_stack = <<Main>> /\ read_state = "continue"
  BY MainFacts DEF ProcessExecuteBlocksFromFile, InMain
<1>2. PICK b : b = NextBlock(given)
  OBVIOUS
<1>3. /\ b = given[replayed][Len(executed) + 1] /\ Len(executed) + 1 \in DOMAIN given[replayed]
      /\ Len(executed) \in Nat
  BY <1>1, <1>2, InMainFacts, ExecutedIsTyped DEF InMain
<1>4. /\ b.kind = "execute" /\ b.file = Asset /\ b.offset \in Nat \ {0} /\ b.n_blocks \in Nat
      /\ Asset \in DOMAIN given => b.offset <= Len(given[Asset]) + 1
  <2>1. b = Execute(b.offset, b.n_blocks)
    BY <1>1, <1>2, <1>3 DEF Given, ReferencesOf
  <2>2. b.file = Asset
    BY <2>1 DEF Execute
  <2> QED BY <1>1, <1>2, <1>3, <2>2 DEF Given, ReferencesOf
<1>5. <<>> \in Seq(Blocks)
  OBVIOUS
<1>6. /\ executed' \in Seq(Seq(Blocks)) /\ Len(executed') = Len(executed) + 1 /\ executed' # <<>>
      /\ executed'[Len(executed')] = <<>>
  BY <1>5, EntryAdded
<1> DEFINE advanced == [position EXCEPT ![replayed] = @ + 1]
<1>7. Main' = Main /\ given' = given /\ replayed' = replayed /\ replayed # Asset
  BY DEF SameFiles, Main, Given
<1>8. CASE Asset \notin DOMAIN given
  <2>1. position' = advanced /\ file_stack' = <<Main>> /\ read_state' = "error"
    BY <1>1, <1>2, <1>4, <1>8, MainFacts DEF ProcessExecuteBlocksFromFile
  <2>2. /\ position' \in [DOMAIN given' -> Nat]
        /\ \A f \in DOMAIN given' : position'[f] \in 1..(Len(given'[f]) + 1)
        /\ position'[replayed'] = Len(executed') + 1
        /\ \A k \in 1..Len(executed) : executed'[k] = Referenced(given[replayed][k])'
    BY <1>1, <1>5, <2>1, CaptureRead
  <2>3. EntriesDone' = Len(executed)
    BY <1>3, <1>6, <2>1 DEF EntriesDone
  <2>4. AssetMissing'
    BY <1>6, <1>7, <1>8, <2>1 DEF AssetMissing
  <2> QED BY <1>6, <2>2, <2>3, <2>4 DEF StackInv
<1>9. CASE Asset \in DOMAIN given
  <2>1. /\ position' = [advanced EXCEPT ![Asset] = b.offset] /\ read_state' = "continue"
        /\ file_stack' = DecrementRemainingCommands(
             Append(file_stack, ActiveFileContext(Asset, b.n_blocks = 0, b.n_blocks + 1)))
    BY <1>1, <1>2, <1>4, <1>9, MainFacts DEF ProcessExecuteBlocksFromFile
  <2>2. /\ advanced \in [DOMAIN given -> Nat]
        /\ \A f \in DOMAIN given : advanced[f] \in 1..(Len(given[f]) + 1)
        /\ advanced[replayed] = Len(executed) + 2
    <3>1. position \in [DOMAIN given -> Nat] /\ replayed \in DOMAIN given
      BY DEF StackInv, Given
    <3>2. position[replayed] = Len(executed) + 1 /\ position[replayed] \in 1..(Len(given[replayed]) + 1)
      BY DEF StackInv, Given
    <3>3. Len(given[replayed]) \in Nat /\ Len(executed) + 1 \in 1..Len(given[replayed])
      BY <1>3, GivenIsTyped DEF Given
    <3>4. advanced[replayed] = Len(executed) + 2 /\ advanced[replayed] \in 1..(Len(given[replayed]) + 1)
      BY <1>3, <3>1, <3>2, <3>3
    <3>5. advanced \in [DOMAIN given -> Nat] /\ \A f \in DOMAIN given : f # replayed => advanced[f] = position[f]
      BY <1>3, <3>1, <3>4
    <3> QED BY <3>4, <3>5 DEF StackInv
  <2> HIDE DEF advanced
  <2>3. /\ position'[Asset] = b.offset /\ position'[replayed] = Len(executed) + 2
        /\ position' \in [DOMAIN given -> Nat]
        /\ \A f \in DOMAIN given : position'[f] \in 1..(Len(given[f]) + 1)
    <3>1. b.offset \in 1..(Len(given[Asset]) + 1)
      BY <1>4, <1>9, GivenIsTyped
    <3> QED BY <1>4, <1>7, <1>9, <2>1, <2>2, <3>1
  <2>4. \A k \in 1..Len(executed) : executed'[k] = Referenced(given[replayed][k])'
    <3> SUFFICES ASSUME NEW k \in 1..Len(executed) PROVE executed'[k] = Referenced(given[replayed][k])'
      OBVIOUS
    <3>1. executed'[k] = Referenced(given[replayed][k])
      <4>1. EntriesDone = Len(executed)
        BY <1>1, InMainFacts
      <4> QED BY <1>5, <4>1, EntryAdded DEF StackInv
    <3>2. PICK e : e = given[replayed][k]
      OBVIOUS
    <3>3. Referenced(e)' = Referenced(e) /\ e = given'[replayed'][k]
      BY <1>7, <3>2, ReferencedStays
    <3> QED BY <3>1, <3>2, <3>3
  <2>5. file_stack' = <<Main, ActiveFileContext(Asset, b.n_blocks = 0,
                          IF b.n_blocks = 0 THEN 1 ELSE b.n_blocks)>>
    <3> DEFINE new == ActiveFileContext(Asset, b.n_blocks = 0, b.n_blocks + 1)
    <3>1. Append(<<Main>>, new) = <<Main, new>>
      BY Pairs
    <3>2. file_stack' = DecrementRemainingCommands(<<Main, new>>)
      BY <1>1, <2>1, <3>1
    <3>3. CASE b.n_blocks = 0
      <4>1. new.execute_till_eof = TRUE
        BY <3>3 DEF ActiveFileContext
      <4>2. new = ActiveFileContext(Asset, b.n_blocks = 0, IF b.n_blocks = 0 THEN 1 ELSE b.n_blocks)
        BY <3>3
      <4> HIDE DEF new, Main
      <4>3. file_stack' = <<Main, new>>
        BY <3>2, <4>1, TillEofStaysOpen
      <4> QED BY <4>2, <4>3
    <3>4. CASE b.n_blocks # 0
      <4>1. new = ActiveFileContext(Asset, FALSE, b.n_blocks + 1)
        BY <3>4
      <4> HIDE DEF new, Main
      <4>2. PICK n \in Nat \ {0} : n = b.n_blocks + 1
        BY <1>4
      <4>3. DecrementRemainingCommands(<<Main, new>>) =
              IF n = 1 THEN <<Main>> ELSE <<Main, ActiveFileContext(Asset, FALSE, n - 1)>>
        BY <4>1, <4>2, OthersAreCountedDown
      <4>4. n # 1 /\ n - 1 = b.n_blocks
        BY <1>4, <3>4, <4>2
      <4> QED BY <3>2, <3>4, <4>3, <4>4
    <3> QED BY <3>3, <3>4
  <2>6. InAssetFile'
    <3>1. b = given'[replayed'][Len(executed')]
      BY <1>3, <1>6, <1>7
    <3>2. Len(<<>>) = 0
      OBVIOUS
    <3>3. executed'[Len(executed')] = SubSeq(given'[Asset], b.offset, b.offset - 1)
      BY <1>4, <1>6, SubSeqEmpty
    <3>4. /\ position'[Asset] = b.offset + Len(executed'[Len(executed')])
          /\ position'[Asset] - 1 = b.offset - 1
          /\ b.n_blocks # 0 => Len(executed'[Len(executed')]) < b.n_blocks
          /\ b.n_blocks = b.n_blocks - Len(executed'[Len(executed')])
      BY <1>4, <1>6, <2>3, <3>2
    <3>5. file_stack' = <<Main', ActiveFileContext(Asset, b.n_blocks = 0,
            IF b.n_blocks = 0 THEN 1 ELSE b.n_blocks - Len(executed'[Len(executed')]))>>
      BY <1>7, <2>5, <3>4
    <3> HIDE DEF Main
    <3> QED BY <1>4, <1>6, <1>7, <1>9, <2>1, <3>1, <3>3, <3>4, <3>5 DEF InAssetFile
  <2>7. EntriesDone' = Len(executed)
    <3>1. Len(file_stack') = 2
      BY <2>5
    <3> QED BY <1>3, <1>6, <3>1 DEF EntriesDone, InAsset
  <2>8. position'[replayed'] = Len(executed') + 1
    BY <1>3, <1>6, <1>7, <2>3
  <2> QED BY <1>6, <1>7, <2>3, <2>4, <2>6, <2>7, <2>8 DEF StackInv
<1> QED BY <1>8, <1>9

-----------------------------------------------------------------------------
(* A part of a file, and one block more of it.                               *)
LEMMA OneMore ==
  ASSUME NEW S, NEW s \in Seq(S), NEW m \in Nat \ {0}, NEW n \in Nat, m - 1 <= n, n < Len(s)
  PROVE  Append(SubSeq(s, m, n), s[n + 1]) = SubSeq(s, m, n + 1)
<1> DEFINE part == SubSeq(s, m, n)
           more == SubSeq(s, m, n + 1)
<1>1. Len(s) \in Nat /\ \A i \in m..(n + 1) : s[i] \in S
  BY ElementOfSeq, LenProperties
<1>2. /\ part \in Seq(S) /\ Len(part) = n - m + 1
      /\ \A i \in 1..(n - m + 1) : part[i] = s[m + i - 1]
  BY <1>1, SubSeqProperties
<1>3. /\ more \in Seq(S) /\ Len(more) = n - m + 2
      /\ \A i \in 1..(n - m + 2) : more[i] = s[m + i - 1]
  BY <1>1, SubSeqProperties
<1>4. s[n + 1] \in S
  BY <1>1
<1> HIDE DEF part, more
<1> DEFINE longer == Append(part, s[n + 1])
<1>5. /\ longer \in Seq(S) /\ Len(longer) = Len(part) + 1
      /\ longer[Len(part) + 1] = s[n + 1]
      /\ \A i \in 1..Len(part) : longer[i] = part[i]
  BY <1>2, <1>4, AppendProperties
<1> HIDE DEF longer
<1>6. \A i \in 1..Len(longer) : longer[i] = more[i]
  <2> SUFFICES ASSUME NEW i \in 1..Len(longer) PROVE longer[i] = more[i]
    OBVIOUS
  <2>1. CASE i \in 1..Len(part)
    BY <1>2, <1>3, <1>5, <2>1
  <2>2. CASE i = Len(part) + 1
    <3>1. i \in 1..(n - m + 2) /\ m + i - 1 = n + 1
      BY <1>2, <2>2
    <3> QED BY <1>3, <1>5, <2>2, <3>1
  <2> QED BY <1>2, <1>5, <2>1, <2>2
<1>7. longer = more
  BY <1>2, <1>3, <1>5, <1>6, SeqEqual
<1> QED BY <1>7 DEF longer, part, more

LastEntryGrows(b) == executed' = [executed EXCEPT ![Len(executed)] = Append(@, b)]

LEMMA LastGrows ==
  ASSUME StackInv, Len(executed) # 0, NEW b \in Blocks, LastEntryGrows(b)
  PROVE  /\ executed' \in Seq(Seq(Blocks)) /\ Len(executed') = Len(executed) /\ executed' # <<>>
         /\ executed'[Len(executed)] = Append(Done, b)
         /\ Len(executed'[Len(executed)]) = Len(Done) + 1
         /\ \A k \in 1..(Len(executed) - 1) : executed'[k] = executed[k]
<1>1. /\ executed \in Seq(Seq(Blocks)) /\ Len(executed) \in 1..Len(executed) /\ Len(executed) \in Nat
      /\ Done \in Seq(Blocks)
  BY ExecutedIsTyped DEF Done
<1>2. Append(Done, b) \in Seq(Blocks) /\ Len(Append(Done, b)) = Len(Done) + 1
  BY <1>1, AppendProperties
<1>3. executed' = [executed EXCEPT ![Len(executed)] = Append(Done, b)]
  BY DEF Done, LastEntryGrows
<1>4. /\ executed' \in Seq(Seq(Blocks)) /\ Len(executed') = Len(executed)
      /\ \A k \in 1..Len(executed) :
           executed'[k] = IF k = Len(executed) THEN Append(Done, b) ELSE executed[k]
  <2>1. PICK n \in 1..Len(executed) : n = Len(executed)
    BY <1>1
  <2>2. PICK last \in Seq(Blocks) : last = Append(Done, b)
    BY <1>2
  <2> DEFINE new == [executed EXCEPT ![n] = last]
  <2>3. /\ new \in Seq(Seq(Blocks)) /\ Len(new) = Len(executed)
        /\ \A k \in 1..Len(executed) : new[k] = IF k = n THEN last ELSE executed[k]
    BY <1>1, ExceptSeq
  <2>4. executed' = new
    BY <1>3, <2>1, <2>2
  <2> HIDE DEF new
  <2> QED BY <2>1, <2>2, <2>3, <2>4
<1>5. executed' # <<>>
  <2>1. Len(executed') # 0
    BY <1>4
  <2> QED BY <1>4, <2>1, EmptySeq
<1>6. executed'[Len(executed)] = Append(Done, b)
  BY <1>1, <1>4
<1>7. \A k \in 1..(Len(executed) - 1) : k \in 1..Len(executed) /\ k # Len(executed)
  BY <1>1
<1>8. \A k \in 1..(Len(executed) - 1) : executed'[k] = executed[k]
  BY <1>4, <1>7
<1> QED BY <1>2, <1>4, <1>5, <1>6, <1>8

LEMMA EntriesBeforeStay ==
  ASSUME Given, StackInv, InAssetFile, SameFiles,
         \A k \in 1..(Len(executed) - 1) : executed'[k] = executed[k]
  PROVE  \A k \in 1..(Len(executed) - 1) : executed'[k] = Referenced(given[replayed][k])'
<1> SUFFICES ASSUME NEW k \in 1..(Len(executed) - 1)
             PROVE  executed'[k] = Referenced(given[replayed][k])'
  OBVIOUS
<1>1. executed'[k] = Referenced(given[replayed][k])
  BY InAssetFacts DEF StackInv
<1>2. PICK e : e = given[replayed][k]
  OBVIOUS
<1>3. Referenced(e)' = Referenced(e) /\ e = given'[replayed'][k]
  BY <1>2, ReferencedStays DEF SameFiles
<1> QED BY <1>1, <1>2, <1>3

LEMMA ReferencedAsset ==
  ASSUME Given, StackInv, InAssetFile
  PROVE  Referenced(Executing) =
           SubSeq(given[Asset], Executing.offset,
             IF Executing.n_blocks = 0 THEN Len(given[Asset])
             ELSE Executing.offset + Executing.n_blocks - 1)
<1>1. Executing = Execute(Executing.offset, Executing.n_blocks)
  BY InAssetFacts
<1>2. Executing.kind = "execute" /\ Executing.file = Asset
  BY <1>1 DEF Execute
<1> HIDE DEF Executing
<1> QED BY <1>2 DEF Referenced

LEMMA OwnBlockOfAsset ==
  ASSUME Given, StackInv, InAssetFile, ProcessOwnBlock(given), SameFiles,
         LastEntryGrows(NextBlock(given))
  PROVE  StackInv'
<1>1. /\ ~AtEof(given) /\ read_state = "continue" /\ read_state' = "continue"
      /\ position' = [position EXCEPT ![Asset] = @ + 1]
      /\ file_stack' = DecrementRemainingCommands(<<Main, Context>>)
  BY InAssetFacts DEF ProcessOwnBlock, MayRead
<1>2. PICK b : b = NextBlock(given)
  OBVIOUS
<1>3. PICK e : e = Executing
  OBVIOUS
<1>4. PICK file : file = given[Asset]
  OBVIOUS
<1>5. /\ b \in Blocks /\ b = file[position[Asset]]
      /\ e.offset \in Nat \ {0} /\ e.n_blocks \in Nat /\ e.kind = "execute"
      /\ Len(executed) \in Nat \ {0} /\ Len(executed) \in DOMAIN given[replayed]
      /\ Done \in Seq(Blocks) /\ Len(Done) \in Nat
      /\ position[Asset] = e.offset + Len(Done) /\ position[Asset] <= Len(file)
      /\ Asset \in DOMAIN given /\ file \in Seq(Blocks) /\ Len(file) \in Nat
  <2>1. e.kind = "execute"
    BY <1>3 DEF InAssetFile, Executing
  <2>2. position[Asset] # Len(file) + 1 /\ position[Asset] <= Len(file) + 1
    BY <1>1, <1>4, InAssetFacts
  <2> QED BY <1>1, <1>2, <1>3, <1>4, <2>1, <2>2, InAssetFacts
<1>6. /\ executed' \in Seq(Seq(Blocks)) /\ Len(executed') = Len(executed) /\ executed' # <<>>
      /\ executed'[Len(executed)] = Append(Done, b)
      /\ Len(executed'[Len(executed)]) = Len(Done) + 1
      /\ \A k \in 1..(Len(executed) - 1) : executed'[k] = Referenced(given[replayed][k])'
  <2>1. LastEntryGrows(b)
    BY <1>2
  <2> QED BY <1>5, <2>1, LastGrows, EntriesBeforeStay
<1>7. /\ given' = given /\ replayed' = replayed /\ Main' = Main /\ content' = content
      /\ replayed # Asset /\ replayed \in DOMAIN given
  BY DEF SameFiles, Main, Given
<1>8. position'[Asset] = position[Asset] + 1 /\ position'[replayed] = position[replayed]
      /\ position' \in [DOMAIN given -> Nat]
      /\ \A f \in DOMAIN given : f # Asset => position'[f] = position[f]
  <2>1. position \in [DOMAIN given -> Nat]
    BY DEF StackInv
  <2>2. position[Asset] + 1 \in Nat
    BY <1>5, <2>1
  <2> QED BY <1>1, <1>5, <1>7, <2>1, <2>2
<1>9. \A f \in DOMAIN given' : position'[f] \in 1..(Len(given'[f]) + 1)
  <2>1. position'[Asset] \in 1..(Len(given[Asset]) + 1)
    BY <1>4, <1>5, <1>8
  <2> QED BY <1>7, <1>8, <2>1 DEF StackInv
<1>10. position'[replayed'] = Len(executed') + 1
  BY <1>6, <1>7, <1>8 DEF StackInv
<1>11. executed'[Len(executed)] = SubSeq(file, e.offset, position'[Asset] - 1)
  <2>1. PICK m \in Nat \ {0} : m = e.offset
    BY <1>5
  <2>2. PICK n \in Nat : n = position[Asset] - 1
    BY <1>5
  <2>3. Done = SubSeq(file, m, n)
    BY <1>3, <1>4, <2>1, <2>2 DEF InAssetFile, Done, Executing
  <2>4. m - 1 <= n /\ n < Len(file) /\ b = file[n + 1]
    BY <1>5, <2>1, <2>2
  <2>5. Append(SubSeq(file, m, n), file[n + 1]) = SubSeq(file, m, n + 1)
    BY <1>5, <2>4, OneMore
  <2>6. position'[Asset] - 1 = n + 1
    BY <1>5, <1>8, <2>2
  <2> QED BY <1>6, <2>1, <2>3, <2>4, <2>5, <2>6
<1>12. PICK done : done = executed'[Len(executed')]
  OBVIOUS
<1>13. /\ done = SubSeq(given'[Asset], e.offset, position'[Asset] - 1)
       /\ Len(done) = Len(Done) + 1 /\ position'[Asset] = e.offset + Len(done)
       /\ e = given'[replayed'][Len(executed')]
  <2>1. done = executed'[Len(executed)] /\ e = given'[replayed'][Len(executed')]
    BY <1>3, <1>6, <1>7, <1>12 DEF Executing
  <2>2. Len(done) = Len(Done) + 1
    BY <1>6, <2>1
  <2>3. position'[Asset] = e.offset + Len(done)
    BY <1>5, <1>8, <2>2
  <2> QED BY <1>4, <1>7, <1>11, <2>1, <2>2, <2>3
<1>14. e.n_blocks # 0 => Len(Done) < e.n_blocks
  BY <1>3 DEF InAssetFile, Done, Executing
<1>15. ASSUME ~(e.n_blocks # 0 /\ Len(done) = e.n_blocks),
              file_stack' = <<Main, ActiveFileContext(Asset, e.n_blocks = 0,
                                IF e.n_blocks = 0 THEN 1 ELSE e.n_blocks - Len(done))>>
       PROVE  StackInv'
  <2>1. e.n_blocks # 0 => Len(done) < e.n_blocks
    <3>1. PICK n \in Nat : n = e.n_blocks
      BY <1>5
    <3>2. PICK d \in Nat : d = Len(Done)
      BY <1>5
    <3>3. Len(done) = d + 1 /\ (n # 0 => d < n) /\ ~(n # 0 /\ Len(done) = n)
      BY <1>13, <1>14, <1>15, <3>1, <3>2
    <3> QED BY <3>1, <3>3
  <2>2. InAssetFile'
    <3> HIDE DEF Main
    <3> QED BY <1>1, <1>5, <1>6, <1>7, <1>12, <1>13, <1>15, <2>1 DEF InAssetFile
  <2>3. EntriesDone' = Len(executed) - 1
    <3>1. Len(file_stack') = 2
      BY <1>15
    <3> QED BY <1>6, <3>1 DEF EntriesDone, InAsset
  <2> QED BY <1>6, <1>7, <1>8, <1>9, <1>10, <2>2, <2>3 DEF StackInv
<1>16. CASE e.n_blocks = 0
  <2>1. Context = ActiveFileContext(Asset, e.n_blocks = 0, 1) /\ Context.execute_till_eof = TRUE
    BY <1>3, <1>16 DEF Context, ActiveFileContext
  <2>2. file_stack' = <<Main, Context>>
    <3> HIDE DEF Main, Context
    <3> QED BY <1>1, <2>1, TillEofStaysOpen
  <2>3. Context = ActiveFileContext(Asset, e.n_blocks = 0,
                    IF e.n_blocks = 0 THEN 1 ELSE e.n_blocks - Len(done))
    BY <1>16, <2>1
  <2>4. ~(e.n_blocks # 0 /\ Len(done) = e.n_blocks)
    BY <1>16
  <2> HIDE DEF Main, Context
  <2> QED BY <1>15, <2>2, <2>3, <2>4
<1>17. CASE e.n_blocks # 0
  <2>1. PICK n \in Nat \ {0} : n = e.n_blocks - Len(Done)
    BY <1>5, <1>14, <1>17
  <2>2. Len(Done) \in Nat /\ Len(done) = Len(Done) + 1 /\ e.n_blocks \in Nat
    BY <1>5, <1>13
  <2>3. Context = ActiveFileContext(Asset, FALSE, n)
    BY <1>3, <1>17, <2>1 DEF Context
  <2>4. file_stack' = IF n = 1 THEN <<Main>> ELSE <<Main, ActiveFileContext(Asset, FALSE, n - 1)>>
    <3> HIDE DEF Main, Context
    <3> QED BY <1>1, <2>3, OthersAreCountedDown
  <2>5. n - 1 = e.n_blocks - Len(done)
    BY <2>1, <2>2
  <2>6. CASE n # 1
    <3>1. ActiveFileContext(Asset, FALSE, n - 1) =
            ActiveFileContext(Asset, e.n_blocks = 0, IF e.n_blocks = 0 THEN 1 ELSE e.n_blocks - Len(done))
      BY <1>17, <2>5
    <3>2. ~(e.n_blocks # 0 /\ Len(done) = e.n_blocks)
      BY <2>1, <2>6, <2>2
    <3> HIDE DEF Main
    <3>3. file_stack' = <<Main, ActiveFileContext(Asset, FALSE, n - 1)>>
      BY <2>4, <2>6
    <3> QED BY <1>15, <3>1, <3>2, <3>3
  <2>7. CASE n = 1
    <3>1. Len(done) = e.n_blocks /\ position'[Asset] - 1 = e.offset + e.n_blocks - 1
      <4>1. Len(done) = e.n_blocks
        BY <2>1, <2>7, <2>2
      <4>2. PICK o \in Nat : o = e.offset
        BY <1>5
      <4>3. PICK n2 \in Nat : n2 = e.n_blocks
        BY <2>2
      <4>4. position'[Asset] = o + n2
        BY <1>13, <4>1, <4>2, <4>3
      <4> QED BY <4>1, <4>2, <4>3, <4>4
    <3>2. done = Referenced(Executing)
      BY <1>3, <1>7, <1>13, <1>17, <3>1, ReferencedAsset
    <3>3. \A k \in 1..Len(executed') : executed'[k] = Referenced(given[replayed][k])'
      <4> SUFFICES ASSUME NEW k \in 1..Len(executed') PROVE executed'[k] = Referenced(given[replayed][k])'
        OBVIOUS
      <4>1. CASE k \in 1..(Len(executed) - 1)
        BY <1>6, <4>1
      <4>2. CASE k = Len(executed)
        <5>1. executed'[k] = done
          BY <1>6, <1>12, <4>2
        <5>2. e = given[replayed][k]
          BY <1>3, <4>2 DEF Executing
        <5>3. executed'[k] = Referenced(e)
          BY <1>3, <3>2, <5>1
        <5> QED BY <5>2, <5>3, EntryStays
      <4> QED BY <1>5, <1>6, <4>1, <4>2
    <3>4. file_stack' = <<Main>>' /\ InMain' /\ EntriesDone' = Len(executed')
      <4>1. file_stack' = <<Main>>'
        BY <1>7, <2>4, <2>7
      <4>2. Len(<<Main'>>) = 1
        OBVIOUS
      <4> QED BY <1>1, <4>1, <4>2 DEF InMain, EntriesDone, InAsset
    <3> QED BY <1>6, <1>7, <1>8, <1>9, <1>10, <3>3, <3>4 DEF StackInv
  <2> QED BY <2>6, <2>7
<1> QED BY <1>16, <1>17

(* The end of a file.                                                        *)
LEMMA EofOfCapture ==
  ASSUME Given, StackInv, InMain, HandleBlockEof(given), SameFiles, UNCHANGED executed
  PROVE  StackInv'
<1>1. /\ AtEof(given) /\ CurrentFile.execute_till_eof = TRUE /\ Len(file_stack) = 1
      /\ Below(file_stack) = <<>>
  BY MainFacts DEF HandleBlockEof, InMain
<1>2. file_stack' = <<>> /\ read_state' = "end_of_file" /\ position' = position
  BY <1>1 DEF HandleBlockEof
<1>3. Len(executed) = Len(given[replayed]) /\ EntriesDone = Len(executed)
  BY <1>1, InMainFacts DEF InMain
<1>4. Ended'
  BY <1>2, <1>3 DEF Ended, SameFiles
<1>5. EntriesDone' = Len(executed)
  <2>1. Len(<<>>) = 0
    OBVIOUS
  <2> QED BY <1>2, <2>1 DEF EntriesDone, InAsset
<1>6. \A k \in 1..Len(executed) : executed'[k] = Referenced(given[replayed][k])'
  <2> SUFFICES ASSUME NEW k \in 1..Len(executed) PROVE executed'[k] = Referenced(given[replayed][k])'
    OBVIOUS
  <2>1. PICK e : e = given[replayed][k]
    OBVIOUS
  <2>2. executed'[k] = Referenced(e)
    BY <1>3, <2>1 DEF StackInv
  <2> QED BY <2>1, <2>2, EntryStays
<1> QED BY <1>2, <1>4, <1>5, <1>6 DEF StackInv, SameFiles

LEMMA EofOfAsset ==
  ASSUME SnapshotInv, Given, StackInv, InAssetFile, HandleBlockEof(given), SameFiles, UNCHANGED executed,
         replayed \in 1..captured
  PROVE  StackInv'
<1>1. AtEof(given) /\ position' = position /\ file_stack = <<Main, Context>> /\ Len(file_stack) = 2
  BY InAssetFacts DEF HandleBlockEof
<1>2. PICK e : e = Executing
  OBVIOUS
<1>3. /\ position[Asset] = Len(given[Asset]) + 1 /\ CurrentFile = Context
      /\ Len(executed) \in Nat \ {0} /\ Len(executed) \in DOMAIN given[replayed]
      /\ EntriesDone = Len(executed) - 1
      /\ e.offset \in Nat \ {0} /\ e.n_blocks \in Nat /\ Len(Done) \in Nat
      /\ position[Asset] = e.offset + Len(Done) /\ Len(given[Asset]) \in Nat
  BY <1>1, <1>2, InAssetFacts
<1>4. /\ given' = given /\ replayed' = replayed /\ content' = content /\ Main' = Main
  BY DEF SameFiles, Main
<1>5. \A k \in 1..(Len(executed) - 1) : executed'[k] = Referenced(given[replayed][k])'
  BY EntriesBeforeStay
<1>6. CASE e.n_blocks = 0
  <2>1. CurrentFile.execute_till_eof = TRUE
    BY <1>2, <1>3, <1>6 DEF Context, ActiveFileContext
  <2>2. file_stack' = <<Main>> /\ read_state' = "continue"
    <3>1. Below(file_stack) = <<Main>>
      <4> HIDE DEF Main, Context
      <4> QED BY <1>1, <1>3, <2>1, TillEofStaysOpen
    <3> QED BY <1>1, <2>1, <3>1 DEF HandleBlockEof
  <2>3. Done = Referenced(e)
    <3>1. Done = SubSeq(given[Asset], e.offset, position[Asset] - 1)
      BY <1>2 DEF InAssetFile, Done, Executing
    <3>2. position[Asset] - 1 = Len(given[Asset])
      BY <1>3
    <3> QED BY <1>2, <1>6, <3>1, <3>2, ReferencedAsset
  <2>4. \A k \in 1..Len(executed) : executed'[k] = Referenced(given[replayed][k])'
    <3> SUFFICES ASSUME NEW k \in 1..Len(executed) PROVE executed'[k] = Referenced(given[replayed][k])'
      OBVIOUS
    <3>1. CASE k = Len(executed)
      <4>1. e = given[replayed][k] /\ executed'[k] = Referenced(e)
        BY <1>2, <2>3, <3>1 DEF Executing, Done
      <4> QED BY <4>1, EntryStays
    <3>2. k = Len(executed) \/ k \in 1..(Len(executed) - 1)
      BY <1>3
    <3> QED BY <1>5, <3>1, <3>2
  <2>5. InMain' /\ EntriesDone' = Len(executed)
    <3>1. Len(<<Main>>) = 1
      OBVIOUS
    <3>2. Len(file_stack') = 1
      BY <2>2, <3>1
    <3> QED BY <1>4, <2>2, <3>2 DEF InMain, EntriesDone, InAsset
  <2> QED BY <1>1, <1>4, <2>4, <2>5 DEF StackInv
<1>7. CASE e.n_blocks # 0
  <2>1. ~CurrentFile.execute_till_eof
    BY <1>2, <1>3, <1>7 DEF Context, ActiveFileContext
  <2>2. read_state' = "end_processing" /\ file_stack' = file_stack
    BY <2>1 DEF HandleBlockEof
  <2>3. given # content
    <3> SUFFICES ASSUME given = content PROVE FALSE
      OBVIOUS
    <3>1. e = content[replayed][Len(executed)] /\ e.kind = "execute"
      BY <1>2 DEF Executing, InAssetFile
    <3>2. RefersTo(replayed, Len(executed))
      BY <1>3, <3>1, CreateIsNoReference
    <3>3. e.offset + e.n_blocks <= Len(given[Asset]) + 1
      BY <3>1, <3>2 DEF RefersTo
    <3>4. Len(Done) < e.n_blocks
      BY <1>2, <1>7 DEF InAssetFile, Executing, Done
    <3> QED BY <1>3, <3>3, <3>4
  <2>4. InAssetFile'
    <3> HIDE DEF Main
    <3> QED BY <1>1, <1>4, <2>2, <2>3 DEF InAssetFile
  <2>5. EntriesDone' = Len(executed) - 1
    BY <1>1, <2>2 DEF EntriesDone, InAsset
  <2> QED BY <1>1, <1>4, <1>5, <2>4, <2>5 DEF StackInv
<1> QED BY <1>6, <1>7

-----------------------------------------------------------------------------
(* A capture that is read as it was written restores the state.              *)
Whole == given = content /\ replayed \in 1..captured

LEMMA PartOfReference ==
  ASSUME AssetTypeOK, NEW c, NEW k, RefersTo(c, k), NEW m \in Nat, m <= content[c][k].n_blocks
  PROVE  LET part == SubSeq(content[Asset], content[c][k].offset, content[c][k].offset + m - 1)
         IN /\ DOMAIN part = 1..m /\ 1..m \subseteq Places(c, k)
            /\ \A j \in 1..m : part[j] = RefBlock(c, k, j)
<1> DEFINE part == SubSeq(content[Asset], content[c][k].offset, content[c][k].offset + m - 1)
<1>1. PICK o \in Nat \ {0} : o = content[c][k].offset
  BY DEF RefersTo
<1>2. PICK n \in Nat \ {0} : n = content[c][k].n_blocks
  BY DEF RefersTo
<1>3. PICK file : file = content[Asset]
  OBVIOUS
<1>4. /\ file \in Seq(Blocks) /\ Len(file) \in Nat /\ o + n <= Len(file) + 1 /\ m <= n
      /\ part = SubSeq(file, o, o + m - 1)
  BY <1>1, <1>2, <1>3, FileFacts DEF RefersTo
<1> HIDE DEF part
<1>5. \A i \in o..(o + m - 1) : i \in 1..Len(file)
  BY <1>4
<1>6. \A i \in o..(o + m - 1) : file[i] \in Blocks
  BY <1>4, <1>5, ElementOfSeq
<1>7. /\ part \in Seq(Blocks) /\ Len(part) = m
      /\ \A j \in 1..m : part[j] = file[o + j - 1]
  <2>1. PICK l \in Int : l = o + m - 1
    OBVIOUS
  <2>2. /\ SubSeq(file, o, l) \in Seq(Blocks)
        /\ Len(SubSeq(file, o, l)) = IF o <= l THEN l - o + 1 ELSE 0
        /\ \A j \in 1..(l - o + 1) : SubSeq(file, o, l)[j] = file[o + j - 1]
    <3>1. \A i \in o..l : file[i] \in Blocks
      BY <1>6, <2>1
    <3> QED BY <3>1, SubSeqProperties
  <2>3. part = SubSeq(file, o, l) /\ l - o + 1 = m /\ (IF o <= l THEN l - o + 1 ELSE 0) = m
    BY <1>4, <2>1
  <2> QED BY <2>2, <2>3
<1>8. DOMAIN part = 1..m
  BY <1>7, LenProperties
<1>9. 1..m \subseteq Places(c, k)
  BY <1>2, <1>4 DEF Places
<1>10. \A j \in 1..m : part[j] = RefBlock(c, k, j)
  BY <1>1, <1>3, <1>7 DEF RefBlock
<1> QED BY <1>8, <1>9, <1>10 DEF part

LEMMA WholeFacts ==
  ASSUME SnapshotInv, Whole
  PROVE  /\ replayed \in Captures /\ AssetTypeOK
         /\ IsSound(replayed) /\ StateType(at_capture[replayed])
         /\ content[replayed] \in Seq(Blocks) /\ Len(content[replayed]) \in Nat \ {0}
         /\ DOMAIN content[replayed] = 1..Len(content[replayed])
         /\ content[replayed][1] = [kind |-> "create", buffers |-> DOMAIN at_capture[replayed].buffers]
         /\ \A k \in 2..Len(content[replayed]) :
              k \in Refs(replayed) /\ RefersTo(replayed, k) /\ content[replayed][k].kind = "execute"
<1>1. replayed \in Captures /\ AssetTypeOK
  BY CapturedAreCaptures DEF SnapshotInv, IInv, Whole
<1>2. IsSound(replayed) /\ StateType(at_capture[replayed])
  BY DEF SnapshotInv, FileInv, CapturesInv, Whole
<1>3. /\ content[replayed] \in Seq(Blocks) /\ Len(content[replayed]) \in Nat
      /\ DOMAIN content[replayed] = 1..Len(content[replayed])
  BY <1>1, FileFacts
<1>4. content[replayed] # <<>>
  BY <1>2 DEF IsSound
<1>5. Len(content[replayed]) # 0
  BY <1>3, <1>4, EmptySeq
<1>6. content[replayed][1] = [kind |-> "create", buffers |-> DOMAIN at_capture[replayed].buffers]
  BY <1>2 DEF IsSound
<1>7. ASSUME NEW k \in 2..Len(content[replayed])
      PROVE  k \in Refs(replayed) /\ RefersTo(replayed, k) /\ content[replayed][k].kind = "execute"
  <2>1. k \in Refs(replayed)
    BY DEF Refs
  <2>2. RefersTo(replayed, k)
    BY <1>2, <2>1 DEF IsSound
  <2>3. content[replayed][k] = Execute(content[replayed][k].offset, content[replayed][k].n_blocks)
    BY <2>2 DEF RefersTo
  <2>4. Execute(content[replayed][k].offset, content[replayed][k].n_blocks).kind = "execute"
    BY DEF Execute
  <2> QED BY <2>1, <2>2, <2>3, <2>4
<1> QED BY <1>1, <1>2, <1>3, <1>5, <1>6, <1>7

(* What was executed: the objects first, then what is referred to.           *)
LEMMA ExecutedFacts ==
  ASSUME SnapshotInv, Whole, Given, StackInv
  PROVE  /\ Len(executed) \in Nat /\ Len(executed) <= Len(content[replayed])
         /\ Len(executed) # 0 => EntriesDone >= 1 /\ executed[1] = <<content[replayed][1]>>
         /\ EntriesDone \in {Len(executed), Len(executed) - 1}
         /\ \A k \in 2..Len(executed) :
              /\ k \in Refs(replayed)
              /\ \A j \in DOMAIN executed[k] :
                   j \in Places(replayed, k) /\ executed[k][j] = RefBlock(replayed, k, j)
         /\ \A k \in 2..EntriesDone : DOMAIN executed[k] = Places(replayed, k)
<1>1. /\ Len(executed) \in Nat /\ EntriesDone \in {Len(executed), Len(executed) - 1}
      /\ position[replayed] = Len(executed) + 1
      /\ \A k \in 1..EntriesDone : executed[k] = Referenced(content[replayed][k])
  BY ExecutedIsTyped DEF StackInv, EntriesDone, Whole
<1>2. /\ Len(content[replayed]) \in Nat \ {0}
      /\ content[replayed][1].kind = "create"
      /\ \A k \in 2..Len(content[replayed]) :
           k \in Refs(replayed) /\ RefersTo(replayed, k) /\ content[replayed][k].kind = "execute"
      /\ AssetTypeOK /\ DOMAIN content = Captures \cup {Asset}
  BY WholeFacts DEF AssetTypeOK
<1>3. Len(executed) <= Len(content[replayed])
  <2>1. position[replayed] \in 1..(Len(content[replayed]) + 1)
    BY DEF Whole, Given, StackInv
  <2> QED BY <1>1, <1>2, <2>1
<1>4. ~AssetMissing
  BY <1>2 DEF AssetMissing, Whole
<1>5. InAssetFile => Len(executed) \in 2..Len(content[replayed])
  <2> SUFFICES ASSUME InAssetFile PROVE Len(executed) \in 2..Len(content[replayed])
    OBVIOUS
  <2>1. Len(executed) # 1
    BY <1>2 DEF InAssetFile, Whole
  <2>2. Len(executed) # 0
    BY ExecutedIsTyped DEF InAssetFile
  <2>3. PICK n \in Nat : n = Len(executed)
    BY <1>1
  <2>4. PICK l \in Nat : l = Len(content[replayed])
    BY <1>2
  <2>5. n \in 2..l
    BY <1>3, <2>1, <2>2, <2>3, <2>4
  <2> QED BY <2>3, <2>4, <2>5
<1>6. ~InAssetFile => EntriesDone = Len(executed)
  <2> SUFFICES ASSUME ~InAssetFile PROVE EntriesDone = Len(executed)
    OBVIOUS
  <2>1. CASE Ended
    <3>1. Len(<<>>) = 0
      OBVIOUS
    <3> QED BY <2>1, <3>1 DEF Ended, EntriesDone, InAsset
  <2>2. CASE InMain
    BY <2>2, MainFacts DEF InMain, EntriesDone
  <2> QED BY <1>4, <2>1, <2>2 DEF StackInv
<1>7. Len(executed) # 0 => EntriesDone >= 1
  BY <1>1, <1>5, <1>6
<1>8. Len(executed) # 0 => executed[1] = <<content[replayed][1]>>
  <2> SUFFICES ASSUME Len(executed) # 0 PROVE executed[1] = <<content[replayed][1]>>
    OBVIOUS
  <2>1. 1 \in 1..EntriesDone
    BY <1>1, <1>7
  <2>2. PICK b : b = content[replayed][1]
    OBVIOUS
  <2>3. Referenced(b) = <<b>>
    BY <1>2, <2>2 DEF Referenced
  <2> QED BY <1>1, <2>1, <2>2, <2>3
<1>9. ASSUME NEW k \in 2..EntriesDone
      PROVE  /\ k \in Refs(replayed) /\ DOMAIN executed[k] = Places(replayed, k)
             /\ \A j \in DOMAIN executed[k] : executed[k][j] = RefBlock(replayed, k, j)
  <2>1. k \in 2..Len(content[replayed]) /\ k \in 1..EntriesDone
    BY <1>1, <1>2, <1>3
  <2>2. RefersTo(replayed, k) /\ k \in Refs(replayed) /\ content[replayed][k].kind = "execute"
    BY <1>2, <2>1
  <2>3. PICK m \in Nat : m = content[replayed][k].n_blocks /\ m # 0
    BY <2>2 DEF RefersTo
  <2>4. content[replayed][k].file = Asset
    BY <2>2 DEF RefersTo, Execute
  <2>5. executed[k] = SubSeq(content[Asset], content[replayed][k].offset, content[replayed][k].offset + m - 1)
    BY <1>1, <2>1, <2>2, <2>3, <2>4 DEF Referenced, Whole
  <2>6. m \in Nat /\ m <= content[replayed][k].n_blocks
    BY <2>3
  <2>7. /\ DOMAIN executed[k] = 1..m
        /\ \A j \in 1..m : executed[k][j] = RefBlock(replayed, k, j)
    <3> DEFINE part == SubSeq(content[Asset], content[replayed][k].offset,
                              content[replayed][k].offset + m - 1)
    <3>1. /\ DOMAIN part = 1..m /\ 1..m \subseteq Places(replayed, k)
          /\ \A j \in 1..m : part[j] = RefBlock(replayed, k, j)
      <4>1. AssetTypeOK /\ RefersTo(replayed, k)
        BY <1>2, <2>2
      <4> QED BY <2>5, <2>6, <4>1, PartOfReference
    <3>2. executed[k] = part
      BY <2>5
    <3> HIDE DEF part
    <3> QED BY <3>1, <3>2
  <2> QED BY <2>2, <2>3, <2>7 DEF Places
<1>10. ASSUME InAssetFile, NEW k, k = Len(executed)
       PROVE  /\ k \in Refs(replayed)
              /\ \A j \in DOMAIN executed[k] :
                   j \in Places(replayed, k) /\ executed[k][j] = RefBlock(replayed, k, j)
  <2>1. RefersTo(replayed, k) /\ k \in Refs(replayed)
    BY <1>2, <1>5, <1>10
  <2>2. PICK e : e = content[replayed][k]
    OBVIOUS
  <2>3. /\ e.n_blocks \in Nat \ {0} /\ e.offset \in Nat /\ e = Executing
    BY <1>10, <2>1, <2>2 DEF RefersTo, Executing, Whole
  <2>4. /\ Len(Done) < e.n_blocks /\ position[Asset] = e.offset + Len(Done)
        /\ Done = SubSeq(content[Asset], e.offset, position[Asset] - 1)
    BY <1>10, <2>3 DEF InAssetFile, Executing, Done, Whole
  <2>5. Done = executed[k] /\ Len(Done) \in Nat
    BY <1>10, InAssetFacts DEF Done
  <2>6. PICK m \in Nat : m = Len(Done)
    BY <2>5
  <2>7. /\ m <= content[replayed][k].n_blocks
        /\ executed[k] = SubSeq(content[Asset], content[replayed][k].offset, content[replayed][k].offset + m - 1)
    <3>1. m <= e.n_blocks
      <4>1. PICK n \in Nat : n = e.n_blocks
        BY <2>3
      <4>2. m < n
        BY <2>4, <2>6, <4>1
      <4> QED BY <4>1, <4>2
    <3>2. position[Asset] - 1 = e.offset + m - 1
      <4>1. PICK o \in Nat : o = e.offset
        BY <2>3
      <4>2. position[Asset] = o + m
        BY <2>4, <2>6, <4>1
      <4> QED BY <4>1, <4>2
    <3> QED BY <2>2, <2>4, <2>5, <3>1, <3>2
  <2>8. /\ DOMAIN executed[k] = 1..m /\ 1..m \subseteq Places(replayed, k)
        /\ \A j \in 1..m : executed[k][j] = RefBlock(replayed, k, j)
    <3> DEFINE part == SubSeq(content[Asset], content[replayed][k].offset,
                              content[replayed][k].offset + m - 1)
    <3>1. /\ DOMAIN part = 1..m /\ 1..m \subseteq Places(replayed, k)
          /\ \A j \in 1..m : part[j] = RefBlock(replayed, k, j)
      BY <1>2, <2>1, <2>7, PartOfReference
    <3>2. executed[k] = part
      BY <2>7
    <3> HIDE DEF part
    <3> QED BY <3>1, <3>2
  <2> QED BY <2>1, <2>8
<1>11. ASSUME NEW k \in 2..Len(executed)
       PROVE  /\ k \in Refs(replayed)
              /\ \A j \in DOMAIN executed[k] :
                   j \in Places(replayed, k) /\ executed[k][j] = RefBlock(replayed, k, j)
  <2>1. CASE k \in 2..EntriesDone
    BY <1>9, <2>1
  <2>2. CASE k \notin 2..EntriesDone
    <3>1. InAssetFile
      BY <1>6, <2>2
    <3>2. k = Len(executed)
      BY <1>1, <2>2
    <3> QED BY <1>10, <3>1, <3>2
  <2> QED BY <2>1, <2>2
<1> QED BY <1>1, <1>3, <1>7, <1>8, <1>9, <1>11

LEMMA EntriesAreBlocks ==
  ASSUME StackInv, NEW k \in DOMAIN executed, NEW j \in DOMAIN executed[k]
  PROVE  executed[k][j] \in Executed
<1>1. executed[k] \in Seq(Blocks)
  BY ExecutedIsTyped
<1>2. executed[k][j] \in Blocks
  BY <1>1
<1> QED BY <1>2 DEF Executed

LEMMA EmptyEntryAdded ==
  ASSUME Given, StackInv, executed' = Append(executed, <<>>)
  PROVE  Executed' = Executed /\ executed' # <<>>
<1>1. <<>> \in Seq(Blocks) /\ DOMAIN <<>> = {}
  OBVIOUS
<1>2. /\ Len(executed) \in Nat /\ DOMAIN executed = 1..Len(executed)
      /\ executed' \in Seq(Seq(Blocks)) /\ Len(executed') = Len(executed) + 1
      /\ executed'[Len(executed) + 1] = <<>> /\ executed' # <<>>
      /\ \A k \in 1..Len(executed) : executed'[k] = executed[k]
  BY <1>1, ExecutedIsTyped, EntryAdded
<1>3. DOMAIN executed' = 1..(Len(executed) + 1)
  BY <1>2, LenProperties
<1>4. \A k \in DOMAIN executed' : k \in DOMAIN executed \/ DOMAIN executed'[k] = {}
  BY <1>1, <1>2, <1>3
<1>5. \A k \in DOMAIN executed : k \in DOMAIN executed' /\ executed'[k] = executed[k]
  BY <1>2, <1>3
<1> QED BY <1>2, <1>4, <1>5 DEF Executed

LEMMA BlockEntryAdded ==
  ASSUME Given, StackInv, NEW b \in Blocks, executed' = Append(executed, <<b>>)
  PROVE  Executed' = Executed \cup {b} /\ executed' # <<>>
<1>1. <<b>> \in Seq(Blocks) /\ DOMAIN <<b>> = {1} /\ <<b>>[1] = b
  OBVIOUS
<1>2. /\ Len(executed) \in Nat /\ DOMAIN executed = 1..Len(executed)
      /\ executed' \in Seq(Seq(Blocks)) /\ Len(executed') = Len(executed) + 1
      /\ executed'[Len(executed) + 1] = <<b>> /\ executed' # <<>>
      /\ \A k \in 1..Len(executed) : executed'[k] = executed[k]
  BY <1>1, ExecutedIsTyped, EntryAdded
<1>3. DOMAIN executed' = 1..(Len(executed) + 1)
  BY <1>2, LenProperties
<1>4. \A k \in DOMAIN executed' : k \in DOMAIN executed \/ k = Len(executed) + 1
  BY <1>2, <1>3
<1>5. \A k \in DOMAIN executed : k \in DOMAIN executed' /\ executed'[k] = executed[k]
  BY <1>2, <1>3
<1>6. \E k \in DOMAIN executed' : \E j \in DOMAIN executed'[k] : b = executed'[k][j]
  <2>1. Len(executed) + 1 \in DOMAIN executed'
    BY <1>2, <1>3
  <2> QED BY <1>1, <1>2, <2>1
<1>7. \A k \in DOMAIN executed' : \A j \in DOMAIN executed'[k] :
        executed'[k][j] = b \/ (k \in DOMAIN executed /\ j \in DOMAIN executed[k]
                                /\ executed'[k][j] = executed[k][j])
  BY <1>1, <1>2, <1>4, <1>5
<1> QED BY <1>2, <1>5, <1>6, <1>7 DEF Executed

LEMMA LastBlockAdded ==
  ASSUME StackInv, Len(executed) # 0, NEW b \in Blocks, LastEntryGrows(b)
  PROVE  Executed' = Executed \cup {b} /\ executed' # <<>>
<1>1. /\ Len(executed) \in Nat /\ DOMAIN executed = 1..Len(executed)
      /\ executed' \in Seq(Seq(Blocks)) /\ Len(executed') = Len(executed) /\ executed' # <<>>
      /\ executed'[Len(executed)] = Append(Done, b)
      /\ \A k \in 1..(Len(executed) - 1) : executed'[k] = executed[k]
  BY LastGrows, ExecutedIsTyped
<1>2. /\ Len(executed) \in 1..Len(executed)
      /\ \A k \in 1..Len(executed) : k = Len(executed) \/ k \in 1..(Len(executed) - 1)
  <2>1. PICK n \in Nat : n = Len(executed) /\ n # 0
    BY ExecutedIsTyped
  <2>2. n \in 1..n /\ \A k \in 1..n : k = n \/ k \in 1..(n - 1)
    BY <2>1
  <2> QED BY <2>1, <2>2
<1>3. DOMAIN executed' = DOMAIN executed
  BY <1>1, LenProperties
<1>4. Done \in Seq(Blocks) /\ Len(Done) \in Nat /\ DOMAIN Done = 1..Len(Done) /\ Done = executed[Len(executed)]
  BY <1>2, ExecutedIsTyped, LenProperties DEF Done
<1> HIDE DEF Done
<1>5. /\ DOMAIN Append(Done, b) = 1..(Len(Done) + 1) /\ Append(Done, b)[Len(Done) + 1] = b
      /\ \A j \in 1..Len(Done) : Append(Done, b)[j] = Done[j]
  <2>1. Append(Done, b) \in Seq(Blocks) /\ Len(Append(Done, b)) = Len(Done) + 1
    BY <1>4, AppendProperties
  <2>2. DOMAIN Append(Done, b) = 1..(Len(Done) + 1)
    BY <2>1, LenProperties
  <2> QED BY <1>4, <2>2, AppendProperties
<1>6. \A k \in DOMAIN executed' : \A j \in DOMAIN executed'[k] :
        executed'[k][j] = b \/ (k \in DOMAIN executed /\ j \in DOMAIN executed[k]
                                /\ executed'[k][j] = executed[k][j])
  <2> SUFFICES ASSUME NEW k \in DOMAIN executed', NEW j \in DOMAIN executed'[k], executed'[k][j] # b
               PROVE  k \in DOMAIN executed /\ j \in DOMAIN executed[k] /\ executed'[k][j] = executed[k][j]
    OBVIOUS
  <2>1. CASE k = Len(executed)
    <3>1. j \in 1..(Len(Done) + 1) /\ j # Len(Done) + 1
      BY <1>1, <1>5, <2>1
    <3>2. j \in 1..Len(Done)
      BY <1>4, <3>1
    <3> QED BY <1>1, <1>3, <1>4, <1>5, <2>1, <3>2
  <2>2. CASE k # Len(executed)
    <3>1. executed'[k] = executed[k]
      BY <1>1, <1>2, <1>3, <2>2
    <3> QED BY <1>3, <3>1
  <2> QED BY <2>1, <2>2
<1>7. \A k \in DOMAIN executed : \A j \in DOMAIN executed[k] :
        k \in DOMAIN executed' /\ j \in DOMAIN executed'[k] /\ executed'[k][j] = executed[k][j]
  <2> SUFFICES ASSUME NEW k \in DOMAIN executed, NEW j \in DOMAIN executed[k]
               PROVE  j \in DOMAIN executed'[k] /\ executed'[k][j] = executed[k][j]
    BY <1>3
  <2>1. CASE k = Len(executed)
    <3>1. j \in 1..Len(Done) /\ j \in 1..(Len(Done) + 1)
      BY <1>4, <2>1
    <3> QED BY <1>1, <1>4, <1>5, <2>1, <3>1
  <2>2. CASE k # Len(executed)
    <3>1. executed'[k] = executed[k]
      BY <1>1, <1>2, <2>2
    <3> QED BY <3>1
  <2> QED BY <2>1, <2>2
<1>8. \E k \in DOMAIN executed' : \E j \in DOMAIN executed'[k] : b = executed'[k][j]
  <2>1. Len(executed) \in DOMAIN executed' /\ Len(Done) + 1 \in 1..(Len(Done) + 1)
    <3>1. \A n \in Nat : n + 1 \in 1..(n + 1)
      OBVIOUS
    <3> QED BY <1>1, <1>2, <1>3, <1>4, <3>1
  <2> QED BY <1>1, <1>5, <2>1
<1> QED BY <1>1, <1>6, <1>7, <1>8 DEF Executed

LEMMA RestoredStays ==
  ASSUME RestoredInv, Executed' = Executed, executed = <<>> <=> executed' = <<>>,
         UNCHANGED <<restored, at_capture, replayed>>
  PROVE  RestoredInv'
BY DEF RestoredInv, Allocates

(* The next block of the asset file is one that is referred to.              *)
LEMMA NextIsReferred ==
  ASSUME SnapshotInv, Whole, Given, StackInv, InAssetFile, ~AtEof(given)
  PROVE  /\ Len(executed) \in Refs(replayed) /\ Len(Done) + 1 \in Places(replayed, Len(executed))
         /\ NextBlock(given) = RefBlock(replayed, Len(executed), Len(Done) + 1)
         /\ Len(executed) \in Nat /\ Len(Done) \in Nat
<1>1. PICK k : k = Len(executed)
  OBVIOUS
<1>2. PICK e : e = content[replayed][k]
  OBVIOUS
<1>3. /\ k \in Nat \ {0} /\ k \in DOMAIN given[replayed] /\ Len(Done) \in Nat
      /\ e = Executing /\ position[Asset] = e.offset + Len(Done)
      /\ NextBlock(given) = given[Asset][position[Asset]]
  BY <1>1, <1>2, InAssetFacts DEF Executing, Whole
<1>4. RefersTo(replayed, k) /\ k \in Refs(replayed)
  <2>1. e.kind = "execute"
    BY <1>3 DEF InAssetFile, Executing
  <2> QED BY <1>2, <1>3, <2>1, CreateIsNoReference DEF Whole
<1>5. e.n_blocks \in Nat \ {0} /\ e.offset \in Nat
  BY <1>2, <1>4 DEF RefersTo
<1>6. Len(Done) < e.n_blocks
  BY <1>3, <1>5 DEF InAssetFile, Executing, Done
<1>7. Len(Done) + 1 \in 1..e.n_blocks
  <2>1. PICK d \in Nat : d = Len(Done)
    BY <1>3
  <2>2. PICK n \in Nat : n = e.n_blocks
    BY <1>5
  <2>3. d + 1 \in 1..n
    BY <1>6, <2>1, <2>2
  <2> QED BY <2>1, <2>2, <2>3
<1>8. position[Asset] = e.offset + (Len(Done) + 1) - 1
  BY <1>3, <1>5
<1> QED BY <1>1, <1>2, <1>3, <1>4, <1>7, <1>8 DEF Places, RefBlock, Whole

-----------------------------------------------------------------------------
(* What a block makes, by its kind.                                          *)
LEMMA ApplyFacts ==
  ASSUME NEW b, Apply(b), Applicable(b), restored.valid = TRUE
  PROVE  /\ restored'.buffers = BuffersAfter(b) /\ restored'.sets = SetsAfter(b)
         /\ restored'.valid = TRUE
         /\ restored' = [buffers |-> restored'.buffers, sets |-> restored'.sets, valid |-> TRUE]
<1>1. restored' = [buffers |-> BuffersAfter(b), sets |-> SetsAfter(b), valid |-> TRUE]
  BY DEF Apply
<1> QED BY <1>1

LEMMA CreateIsRestored ==
  ASSUME RestoredInv, NEW b, Apply(b), executed = <<>>, executed' # <<>>, Executed' = {b},
         b = [kind |-> "create", buffers |-> DOMAIN at_capture[replayed].buffers],
         UNCHANGED <<at_capture, replayed>>
  PROVE  RestoredInv'
<1>1. restored = Nothing /\ restored.valid = TRUE
  BY DEF RestoredInv, Nothing
<1>2. b.kind = "create" /\ b.buffers = DOMAIN at_capture[replayed].buffers /\ Applicable(b)
  BY DEF Applicable
<1>3. /\ BuffersAfter(b) = [x \in DOMAIN at_capture[replayed].buffers |-> Uninitialized]
      /\ SetsAfter(b) = restored.sets
  BY <1>2 DEF BuffersAfter, SetsAfter
<1>4. DOMAIN restored.sets = {}
  <2>1. DOMAIN <<>> = {}
    OBVIOUS
  <2> QED BY <1>1, <2>1 DEF Nothing
<1>5. /\ DOMAIN restored'.buffers = DOMAIN at_capture[replayed].buffers
      /\ DOMAIN restored'.sets = {}
      /\ restored' = [buffers |-> restored'.buffers, sets |-> restored'.sets, valid |-> TRUE]
  BY <1>1, <1>2, <1>3, <1>4, ApplyFacts
<1>6. restored'.buffers \in [DOMAIN restored'.buffers -> Int]
  <2>1. restored'.buffers = [x \in DOMAIN at_capture[replayed].buffers |-> Uninitialized]
    BY <1>1, <1>2, <1>3, ApplyFacts
  <2> QED BY <2>1 DEF Uninitialized
<1>7. \A x \in Executed' : x.kind # "init" /\ x.kind # "allocate" /\ x.kind # "update"
  BY <1>2
<1> QED BY <1>5, <1>6, <1>7 DEF RestoredInv

LEMMA InitIsRestored ==
  ASSUME RestoredInv, NEW b, Apply(b), executed # <<>>, executed' # <<>>, Executed' = Executed \cup {b},
         b.kind = "init", b.buffer \in DOMAIN at_capture[replayed].buffers,
         b.contents = at_capture[replayed].buffers[b.buffer], StateType(at_capture[replayed]),
         UNCHANGED <<at_capture, replayed>>
  PROVE  RestoredInv'
<1>1. /\ restored.valid = TRUE /\ DOMAIN restored.buffers = DOMAIN at_capture[replayed].buffers
  BY DEF RestoredInv
<1>2. /\ Applicable(b) /\ SetsAfter(b) = restored.sets
      /\ BuffersAfter(b) = [restored.buffers EXCEPT ![b.buffer] = b.contents]
  BY <1>1 DEF Applicable, SetsAfter, BuffersAfter
<1>3. /\ restored'.buffers = BuffersAfter(b) /\ restored'.sets = restored.sets
      /\ restored' = [buffers |-> restored'.buffers, sets |-> restored'.sets, valid |-> TRUE]
  BY <1>1, <1>2, ApplyFacts
<1>4. /\ DOMAIN restored'.buffers = DOMAIN restored.buffers
      /\ restored'.buffers[b.buffer] = b.contents
      /\ \A x : x # b.buffer => restored'.buffers[x] = restored.buffers[x]
  BY <1>1, <1>2, <1>3
<1>5. \A x \in Executed' : x.kind = "init" =>
        restored'.buffers[x.buffer] = at_capture[replayed].buffers[x.buffer]
  BY <1>4 DEF RestoredInv
<1>6. \A x \in Executed' : x.kind # "init" => x \in Executed
  OBVIOUS
<1>7. \A s \in DOMAIN restored'.sets :
        /\ s \in Sets /\ restored'.sets[s] \in [Bindings(s) -> Buffers \cup {NoBuffer}]
        /\ \E x \in Executed' : Allocates(x, s)
        /\ \A i \in Bindings(s) :
             restored'.sets[s][i] # NoBuffer =>
               s \in DOMAIN at_capture[replayed].sets /\ restored'.sets[s][i] = at_capture[replayed].sets[s][i]
  BY <1>3 DEF RestoredInv
<1>8. \A x \in Executed' :
        /\ x.kind = "allocate" => x.sets \subseteq DOMAIN restored'.sets
        /\ x.kind = "update" =>
             x.set \in DOMAIN restored'.sets
             /\ restored'.sets[x.set][x.binding] = at_capture[replayed].sets[x.set][x.binding]
  BY <1>3, <1>6 DEF RestoredInv
<1>9. restored'.buffers \in [DOMAIN restored'.buffers -> Int]
  <2>1. b.contents \in Int /\ restored.buffers \in [DOMAIN restored.buffers -> Int]
    BY DEF StateType, RestoredInv
  <2> QED BY <1>1, <1>2, <1>3, <2>1
<1> QED BY <1>1, <1>3, <1>4, <1>5, <1>7, <1>8, <1>9 DEF RestoredInv, Allocates

LEMMA AllocateIsRestored ==
  ASSUME RestoredInv, NEW b, Apply(b), executed # <<>>, executed' # <<>>, Executed' = Executed \cup {b},
         b.kind = "allocate", b.sets \in Groups,
         \A x \in Executed : x.kind = "allocate" => x.sets # b.sets,
         UNCHANGED <<at_capture, replayed>>
  PROVE  RestoredInv'
<1>1. \A s \in b.sets : s \in Sets /\ b.sets = GroupOf(s)
  <2>1. b.sets \subseteq Sets
    BY AssetFileAssumption
  <2> QED BY <2>1, GroupFacts
<1>2. b.sets \cap DOMAIN restored.sets = {}
  <2> SUFFICES ASSUME NEW s \in b.sets, s \in DOMAIN restored.sets PROVE FALSE
    OBVIOUS
  <2>1. PICK x \in Executed : Allocates(x, s)
    BY DEF RestoredInv
  <2> QED BY <1>1, <2>1 DEF Allocates
<1>3. restored.valid = TRUE /\ DOMAIN restored.buffers = DOMAIN at_capture[replayed].buffers
  BY DEF RestoredInv
<1>4. /\ Applicable(b) /\ BuffersAfter(b) = restored.buffers
      /\ SetsAfter(b) = [s \in DOMAIN restored.sets \cup b.sets |->
                          IF s \in b.sets THEN Unbound(s) ELSE restored.sets[s]]
  BY <1>2 DEF Applicable, BuffersAfter, SetsAfter
<1>5. /\ restored'.buffers = restored.buffers /\ restored'.sets = SetsAfter(b)
      /\ restored' = [buffers |-> restored'.buffers, sets |-> restored'.sets, valid |-> TRUE]
  BY <1>3, <1>4, ApplyFacts
<1>6. /\ DOMAIN restored'.sets = DOMAIN restored.sets \cup b.sets
      /\ \A s \in b.sets : restored'.sets[s] = Unbound(s)
      /\ \A s \in DOMAIN restored.sets : restored'.sets[s] = restored.sets[s]
  BY <1>2, <1>4, <1>5
<1>7. \A s \in b.sets : Allocates(b, s)
  BY <1>1 DEF Allocates
<1>8. \A s \in Sets : /\ Unbound(s) \in [Bindings(s) -> Buffers \cup {NoBuffer}]
                     /\ \A i \in Bindings(s) : Unbound(s)[i] = NoBuffer
  BY DEF Unbound
<1>9. ASSUME NEW s \in DOMAIN restored'.sets
      PROVE  /\ s \in Sets /\ restored'.sets[s] \in [Bindings(s) -> Buffers \cup {NoBuffer}]
             /\ \E x \in Executed' : Allocates(x, s)
             /\ \A i \in Bindings(s) :
                  restored'.sets[s][i] # NoBuffer =>
                    s \in DOMAIN at_capture[replayed].sets /\ restored'.sets[s][i] = at_capture[replayed].sets[s][i]
  <2>1. CASE s \in b.sets
    BY <1>1, <1>6, <1>7, <1>8, <2>1
  <2>2. CASE s \in DOMAIN restored.sets
    <3>1. restored'.sets[s] = restored.sets[s]
      BY <1>6, <2>2
    <3> QED BY <2>2, <3>1 DEF RestoredInv
  <2> QED BY <1>6, <2>1, <2>2
<1>10. ASSUME NEW x \in Executed'
       PROVE  /\ x.kind = "init" => restored'.buffers[x.buffer] = at_capture[replayed].buffers[x.buffer]
              /\ x.kind = "allocate" => x.sets \subseteq DOMAIN restored'.sets
              /\ x.kind = "update" =>
                   x.set \in DOMAIN restored'.sets
                   /\ restored'.sets[x.set][x.binding] = at_capture[replayed].sets[x.set][x.binding]
  <2>1. CASE x = b
    BY <1>6, <2>1
  <2>2. CASE x \in Executed
    BY <1>5, <1>6, <2>2 DEF RestoredInv
  <2> QED BY <2>1, <2>2
<1> QED BY <1>3, <1>5, <1>9, <1>10 DEF RestoredInv, Allocates

LEMMA UpdateIsRestored ==
  ASSUME RestoredInv, NEW b, Apply(b), executed # <<>>, executed' # <<>>, Executed' = Executed \cup {b},
         b.kind = "update", b.set \in DOMAIN at_capture[replayed].sets, b.binding \in Bindings(b.set),
         b.buffer \in DOMAIN at_capture[replayed].buffers,
         b.buffer = at_capture[replayed].sets[b.set][b.binding],
         b.set \in DOMAIN restored.sets, StateType(at_capture[replayed]),
         UNCHANGED <<at_capture, replayed>>
  PROVE  RestoredInv'
<1>1. restored.valid = TRUE /\ DOMAIN restored.buffers = DOMAIN at_capture[replayed].buffers
  BY DEF RestoredInv
<1>2. /\ Applicable(b) /\ BuffersAfter(b) = restored.buffers
      /\ SetsAfter(b) = [restored.sets EXCEPT ![b.set][b.binding] = b.buffer]
  BY <1>1 DEF Applicable, BuffersAfter, SetsAfter
<1>3. /\ restored'.buffers = restored.buffers /\ restored'.sets = SetsAfter(b)
      /\ restored' = [buffers |-> restored'.buffers, sets |-> restored'.sets, valid |-> TRUE]
  BY <1>1, <1>2, ApplyFacts
<1>4. /\ restored.sets[b.set] \in [Bindings(b.set) -> Buffers \cup {NoBuffer}]
      /\ b.buffer \in Buffers
  BY DEF RestoredInv, StateType
<1>5. /\ DOMAIN restored'.sets = DOMAIN restored.sets
      /\ \A s \in DOMAIN restored.sets : s # b.set => restored'.sets[s] = restored.sets[s]
      /\ restored'.sets[b.set] \in [Bindings(b.set) -> Buffers \cup {NoBuffer}]
      /\ restored'.sets[b.set][b.binding] = b.buffer
      /\ \A i \in Bindings(b.set) : i # b.binding => restored'.sets[b.set][i] = restored.sets[b.set][i]
  BY <1>2, <1>3, <1>4
<1>6. ASSUME NEW s \in DOMAIN restored'.sets
      PROVE  /\ s \in Sets /\ restored'.sets[s] \in [Bindings(s) -> Buffers \cup {NoBuffer}]
             /\ \E x \in Executed' : Allocates(x, s)
             /\ \A i \in Bindings(s) :
                  restored'.sets[s][i] # NoBuffer =>
                    s \in DOMAIN at_capture[replayed].sets /\ restored'.sets[s][i] = at_capture[replayed].sets[s][i]
  <2>1. /\ s \in Sets /\ restored.sets[s] \in [Bindings(s) -> Buffers \cup {NoBuffer}]
        /\ \E x \in Executed' : Allocates(x, s)
        /\ \A i \in Bindings(s) :
             restored.sets[s][i] # NoBuffer =>
               s \in DOMAIN at_capture[replayed].sets /\ restored.sets[s][i] = at_capture[replayed].sets[s][i]
    BY <1>5 DEF RestoredInv
  <2>2. CASE s # b.set
    <3>1. restored'.sets[s] = restored.sets[s]
      BY <1>5, <2>2
    <3> QED BY <2>1, <3>1
  <2>3. CASE s = b.set
    BY <1>5, <2>1, <2>3
  <2> QED BY <2>2, <2>3
<1>7. ASSUME NEW x \in Executed'
      PROVE  /\ x.kind = "init" => restored'.buffers[x.buffer] = at_capture[replayed].buffers[x.buffer]
             /\ x.kind = "allocate" => x.sets \subseteq DOMAIN restored'.sets
             /\ x.kind = "update" =>
                  x.set \in DOMAIN restored'.sets
                  /\ restored'.sets[x.set][x.binding] = at_capture[replayed].sets[x.set][x.binding]
  <2>1. CASE x = b
    BY <1>5, <2>1
  <2>2. CASE x \in Executed
    <3>1. x.kind = "update" =>
            x.set \in DOMAIN restored.sets
            /\ restored.sets[x.set][x.binding] = at_capture[replayed].sets[x.set][x.binding]
      BY <2>2 DEF RestoredInv
    <3>2. x.kind = "update" /\ x.set # b.set => restored'.sets[x.set] = restored.sets[x.set]
      BY <1>5, <3>1
    <3>3. x.kind = "update" /\ x.set = b.set /\ x.binding # b.binding =>
            restored'.sets[x.set][x.binding] = restored.sets[x.set][x.binding]
      BY <1>2, <1>3
    <3>4. x.kind = "update" =>
            x.set \in DOMAIN restored'.sets
            /\ restored'.sets[x.set][x.binding] = at_capture[replayed].sets[x.set][x.binding]
      BY <1>5, <3>1, <3>2, <3>3
    <3> QED BY <1>3, <1>5, <2>2, <3>4 DEF RestoredInv
  <2> QED BY <2>1, <2>2
<1> QED BY <1>1, <1>3, <1>6, <1>7 DEF RestoredInv, Allocates

LEMMA NextOfAssetIsRestored ==
  ASSUME SnapshotInv, Whole, Given, StackInv, RestoredInv, InAssetFile, ~AtEof(given),
         Apply(NextBlock(given)), LastEntryGrows(NextBlock(given)), UNCHANGED <<at_capture, replayed>>
  PROVE  RestoredInv'
<1>1. PICK b : b = NextBlock(given)
  OBVIOUS
<1>2. PICK c : c = replayed
  OBVIOUS
<1>3. PICK K : K = Len(executed)
  OBVIOUS
<1>4. PICK J : J = Len(Done) + 1
  OBVIOUS
<1>5. /\ K \in Refs(c) /\ J \in Places(c, K) /\ b = RefBlock(c, K, J) /\ b \in Blocks
      /\ K \in Nat \ {0} /\ Len(Done) \in Nat /\ EntriesDone = K - 1
  BY <1>1, <1>2, <1>3, <1>4, NextIsReferred, InAssetFacts
<1>6. executed # <<>> /\ DOMAIN executed = 1..K /\ DOMAIN executed[K] = 1..Len(Done)
  <2>1. executed[K] \in Seq(Blocks) /\ executed[K] = Done /\ executed # <<>> /\ DOMAIN executed = 1..K
    BY <1>3, <1>5, ExecutedIsTyped DEF Done
  <2> HIDE DEF Done
  <2> QED BY <2>1, LenProperties
<1>7. Executed' = Executed \cup {b} /\ executed' # <<>> /\ Apply(b)
  <2>1. Len(executed) # 0 /\ LastEntryGrows(b)
    BY <1>1, <1>3, <1>5
  <2> QED BY <1>1, <1>5, <2>1, LastBlockAdded
<1>8. /\ \A k \in 2..K : k \in Refs(c) /\ \A j \in DOMAIN executed[k] :
                           j \in Places(c, k) /\ executed[k][j] = RefBlock(c, k, j)
      /\ \A k \in 2..(K - 1) : DOMAIN executed[k] = Places(c, k)
      /\ executed[1] = <<content[c][1]>> /\ content[c][1].kind = "create"
      /\ IsSound(c) /\ StateType(at_capture[c])
  <2>1. content[c][1].kind = "create" /\ IsSound(c) /\ StateType(at_capture[c])
    BY <1>2, WholeFacts
  <2> QED BY <1>2, <1>3, <1>5, <2>1, ExecutedFacts
<1>9. Belongs(c, K, J)
  BY <1>5, <1>8 DEF IsSound
<1>10. CASE b.kind = "init"
  <2>1. b.buffer \in DOMAIN at_capture[c].buffers /\ b.contents = at_capture[c].buffers[b.buffer]
    BY <1>5, <1>9, <1>10 DEF Belongs
  <2> QED BY <1>2, <1>6, <1>7, <1>8, <1>10, <2>1, InitIsRestored
<1>11. CASE b.kind = "allocate"
  <2>1. b.sets \in Groups
    BY <1>5, <1>9, <1>11 DEF Belongs
  <2>2. ASSUME NEW x \in Executed, x.kind = "allocate", x.sets = b.sets
        PROVE  FALSE
    <3>1. PICK k \in DOMAIN executed : \E j \in DOMAIN executed[k] : x = executed[k][j]
      BY DEF Executed
    <3>2. PICK j \in DOMAIN executed[k] : x = executed[k][j]
      BY <3>1
    <3>3. k # 1
      <4> SUFFICES ASSUME k = 1 PROVE FALSE
        OBVIOUS
      <4>1. PICK first : first = content[c][1]
        OBVIOUS
      <4>2. DOMAIN <<first>> = {1} /\ <<first>>[1] = first
        OBVIOUS
      <4> QED BY <1>8, <2>2, <3>2, <4>1, <4>2
    <3>4. k \in 2..K
      BY <1>5, <1>6, <3>3
    <3>5. k \in Refs(c) /\ j \in Places(c, k) /\ x = RefBlock(c, k, j)
      BY <1>8, <3>2, <3>4
    <3>6. k = K /\ j = J
      BY <1>5, <1>8, <1>11, <2>2, <3>5 DEF IsSound, AllocatedOnce
    <3>7. j \in 1..Len(Done)
      BY <1>6, <3>2, <3>6
    <3> QED BY <1>4, <1>5, <3>6, <3>7
  <2> QED BY <1>6, <1>7, <1>11, <2>1, <2>2, AllocateIsRestored
<1>12. CASE b.kind = "update"
  <2>1. /\ b.set \in DOMAIN at_capture[c].sets /\ b.binding \in Bindings(b.set)
        /\ b.buffer \in DOMAIN at_capture[c].buffers
        /\ b.buffer = at_capture[c].sets[b.set][b.binding]
        /\ AllocatedBefore(c, b.set, K, J)
    BY <1>5, <1>9, <1>12 DEF Belongs
  <2>2. PICK m \in Refs(c) : \E n \in Places(c, m) :
          (m < K \/ (m = K /\ n < J)) /\ Allocates(RefBlock(c, m, n), b.set)
    BY <2>1 DEF AllocatedBefore
  <2>3. PICK n \in Places(c, m) : (m < K \/ (m = K /\ n < J)) /\ Allocates(RefBlock(c, m, n), b.set)
    BY <2>2
  <2>4. m \in 2..K /\ m \in DOMAIN executed
    <3>1. m \in Int /\ m >= 2
      BY DEF Refs
    <3> QED BY <1>5, <1>6, <2>3, <3>1
  <2>5. n \in DOMAIN executed[m]
    <3>1. CASE m < K
      <4>1. m \in 2..(K - 1)
        BY <1>5, <2>4, <3>1
      <4> QED BY <1>8, <4>1
    <3>2. CASE m = K /\ n < J
      <4>1. n \in Int /\ n >= 1
        BY DEF Places
      <4>2. n \in 1..Len(Done)
        BY <1>4, <1>5, <3>2, <4>1
      <4> QED BY <1>6, <3>2, <4>2
    <3> QED BY <2>3, <3>1, <3>2
  <2>6. PICK x : x = executed[m][n]
    OBVIOUS
  <2>7. x \in Executed /\ Allocates(x, b.set)
    BY <1>8, <2>3, <2>4, <2>5, <2>6, EntriesAreBlocks
  <2>8. GroupOf(b.set) \subseteq DOMAIN restored.sets
    BY <2>7 DEF RestoredInv, Allocates
  <2>9. b.set \in DOMAIN restored.sets
    <3>1. b.set \in Sets
      BY <1>8, <2>1 DEF StateType
    <3> QED BY <2>8, <3>1, GroupFacts
  <2> QED BY <1>2, <1>6, <1>7, <1>8, <1>12, <2>1, <2>9, UpdateIsRestored
<1>13. b.kind \in {"init", "allocate", "update"}
  BY <1>5, <1>9 DEF Belongs
<1> QED BY <1>10, <1>11, <1>12, <1>13

LEMMA NextOfCaptureIsRestored ==
  ASSUME SnapshotInv, Whole, Given, StackInv, RestoredInv, InMain, ~AtEof(given),
         NextBlock(given).kind # "execute", Apply(NextBlock(given)),
         executed' = Append(executed, <<NextBlock(given)>>), UNCHANGED <<at_capture, replayed>>
  PROVE  RestoredInv'
<1>1. PICK b : b = NextBlock(given)
  OBVIOUS
<1>2. /\ b = content[replayed][Len(executed) + 1] /\ Len(executed) + 1 \in DOMAIN content[replayed]
      /\ Len(executed) \in Nat
  BY <1>1, InMainFacts, ExecutedIsTyped DEF InMain, Whole
<1>3. Len(executed) = 0
  <2> SUFFICES ASSUME Len(executed) # 0 PROVE FALSE
    OBVIOUS
  <2>1. PICK k : k = Len(executed) + 1
    OBVIOUS
  <2>2. k \in 2..Len(content[replayed])
    BY <1>2, <2>1, WholeFacts
  <2> QED BY <1>1, <1>2, <2>1, <2>2, WholeFacts
<1>4. executed = <<>> /\ Executed = {}
  <2>1. executed = <<>>
    BY <1>3, ExecutedIsTyped
  <2>2. DOMAIN <<>> = {}
    OBVIOUS
  <2> QED BY <2>1, <2>2 DEF Executed
<1>5. b = [kind |-> "create", buffers |-> DOMAIN at_capture[replayed].buffers] /\ b \in Blocks
  <2>1. b = content[replayed][1] /\ 1 \in DOMAIN content[replayed]
    BY <1>2, <1>3
  <2> QED BY <2>1, WholeFacts, ElementOfSeq
<1>6. Executed' = {b} /\ executed' # <<>> /\ Apply(b)
  <2>1. executed' = Append(executed, <<b>>)
    BY <1>1
  <2> QED BY <1>1, <1>4, <1>5, <2>1, BlockEntryAdded
<1> QED BY <1>4, <1>5, <1>6, CreateIsRestored

LEMMA ExecuteIsRestored ==
  ASSUME SnapshotInv, Whole, Given, StackInv, RestoredInv, InMain, ~AtEof(given),
         NextBlock(given).kind = "execute", executed' = Append(executed, <<>>),
         UNCHANGED <<restored, at_capture, replayed>>
  PROVE  RestoredInv'
<1>1. Executed' = Executed /\ executed' # <<>>
  BY EmptyEntryAdded
<1>2. executed # <<>>
  <2> SUFFICES ASSUME executed = <<>> PROVE FALSE
    OBVIOUS
  <2>1. Len(executed) = 0
    BY ExecutedIsTyped
  <2>2. NextBlock(given) = content[replayed][1]
    BY <2>1, InMainFacts DEF InMain, Whole
  <2> QED BY <2>2, WholeFacts
<1> QED BY <1>1, <1>2, RestoredStays

-----------------------------------------------------------------------------
(* The invariant of the captures and their replay.                           *)
LEMMA ReplayingFacts ==
  ASSUME SnapshotInv, Replaying
  PROVE  /\ Given /\ StackInv /\ replayed \in 1..captured /\ replayed # 0
         /\ given = content => Whole /\ RestoredInv
<1>1. replayed \in 1..captured /\ given \in FilesGiven(replayed) /\ StackInv
  BY DEF Replaying
<1>2. Given
  BY <1>1, GivenFacts DEF Given
<1>3. replayed # 0
  BY <1>1
<1> QED BY <1>1, <1>2, <1>3 DEF Replaying, Whole

LEMMA InitReplayInv == Init => ReplayInv
<1> SUFFICES ASSUME Init PROVE ReplayInv
  OBVIOUS
<1>1. SnapshotInv
  BY InitSnapshotInv DEF Init
<1> QED BY <1>1 DEF Init, ReplayInv, NotReplaying

LEMMA StartReplayKeepsInv ==
  ASSUME SnapshotInv, NotReplaying, NEW c \in 1..captured, StartReplay(c)
  PROVE  ReplayInv'
<1>1. SnapshotInv'
  BY TrackerGoneKeepsSnapshotInv DEF StartReplay
<1>2. PICK g : g = given'
  OBVIOUS
<1>3. g \in FilesGiven(c) /\ replayed' = c /\ captured' = captured /\ content' = content
  BY <1>2 DEF StartReplay
<1>4. (given \in FilesGiven(replayed))'
  <2>1. given' \in FilesGiven(c)
    BY <1>2, <1>3
  <2> QED BY <1>3, <2>1 DEF FilesGiven
<1>5. c \in DOMAIN g /\ BlocksOf(g)
  BY <1>3, GivenFacts
<1>6. /\ writer' = NoWriter /\ live' = {} /\ executed' = <<>> /\ restored' = Nothing
      /\ file_stack' = <<ActiveFileContext(c, TRUE, 0)>> /\ read_state' = "continue"
      /\ position' = [f \in DOMAIN g |-> 1]
  BY <1>2 DEF StartReplay, Tracking, TrackerGone, Open, NotReplaying
<1>7. \A f \in DOMAIN g : 1 \in 1..(Len(g[f]) + 1)
  <2>1. \A f \in DOMAIN g : Len(g[f]) \in Nat
    BY <1>5, LenProperties DEF BlocksOf
  <2>2. \A n \in Nat : 1 \in 1..(n + 1)
    OBVIOUS
  <2> QED BY <2>1, <2>2
<1>8. executed' \in Seq(Seq(Blocks)) /\ Len(executed') = 0 /\ DOMAIN executed' = {}
  <2>1. <<>> \in Seq(Seq(Blocks)) /\ Len(<<>>) = 0 /\ DOMAIN <<>> = {}
    OBVIOUS
  <2> QED BY <1>6, <2>1
<1>9. InMain' /\ ~InAsset'
  <2>1. Main' = ActiveFileContext(c, TRUE, 0)
    BY <1>3 DEF Main
  <2>2. Len(<<ActiveFileContext(c, TRUE, 0)>>) = 1
    OBVIOUS
  <2>3. Len(file_stack') = 1
    BY <1>6, <2>2
  <2> QED BY <1>6, <2>1, <2>3 DEF InMain, InAsset
<1>10. StackInv'
  <2>1. 1..EntriesDone' = {}
    BY <1>6, <1>8, <1>9 DEF EntriesDone
  <2>2. /\ position' \in [DOMAIN given' -> Nat]
        /\ \A f \in DOMAIN given' : position'[f] \in 1..(Len(given'[f]) + 1)
        /\ position'[replayed'] = Len(executed') + 1
    BY <1>2, <1>3, <1>5, <1>6, <1>7, <1>8
  <2> QED BY <1>8, <1>9, <2>1, <2>2 DEF StackInv
<1>11. RestoredInv'
  <2>1. Executed' = {}
    BY <1>8 DEF Executed
  <2>2. DOMAIN <<>> = {} /\ <<>> \in [{} -> Int]
    OBVIOUS
  <2>3. /\ restored'.buffers = <<>> /\ restored'.sets = <<>> /\ restored'.valid = TRUE
        /\ restored' = [buffers |-> <<>>, sets |-> <<>>, valid |-> TRUE]
    BY <1>6 DEF Nothing
  <2>4. DOMAIN restored'.sets = {} /\ restored'.buffers \in [DOMAIN restored'.buffers -> Int]
    BY <2>2, <2>3
  <2>5. restored' = [buffers |-> restored'.buffers, sets |-> restored'.sets, valid |-> TRUE]
    BY <2>3
  <2> QED BY <1>6, <2>1, <2>4, <2>5 DEF RestoredInv
<1>12. restored'.valid \in BOOLEAN
  BY <1>6 DEF Nothing
<1> QED BY <1>1, <1>3, <1>4, <1>6, <1>10, <1>11, <1>12 DEF ReplayInv, Replaying

LEMMA ReplayStepKeepsInv ==
  ASSUME SnapshotInv, Replaying, ReplayStep
  PROVE  ReplayInv'
<1>1. /\ Given /\ StackInv /\ replayed \in 1..captured
      /\ given = content => Whole /\ RestoredInv
  BY ReplayingFacts
<1>2. UNCHANGED <<asset_vars, given, replayed>>
  BY DEF ReplayStep
<1>3. /\ UNCHANGED <<content, captured, at_capture, writer, live>> /\ SameFiles
      /\ given' = given /\ content' = content
  BY <1>2 DEF asset_vars, app_vars, writer_vars, SameFiles
<1>4. SnapshotInv'
  BY <1>2, UnchangedKeepsSnapshotInv
<1>5. (given \in FilesGiven(replayed))'
  <2>1. given \in FilesGiven(replayed)
    BY DEF Replaying
  <2> QED BY <1>2, <1>3, <2>1 DEF FilesGiven
<1>6. ASSUME StackInv', restored'.valid \in BOOLEAN, given = content => RestoredInv'
      PROVE  ReplayInv'
  BY <1>2, <1>3, <1>4, <1>5, <1>6 DEF ReplayInv, Replaying
<1>7. restored.valid \in BOOLEAN
  BY DEF Replaying
<1>8. InMain \/ InAssetFile
  <2>1. read_state = "continue"
    BY DEF ReplayStep, ProcessOwnBlock, ProcessExecuteBlocksFromFile, HandleBlockEof, MayRead
  <2> QED BY <1>1, <2>1, WhileReading
<1>9. InMain => InCapture
  BY MainFacts DEF InMain
<1>10. InAssetFile => ~InCapture
  BY <1>1, InAssetFacts
<1>11. CASE /\ ProcessOwnBlock(given)
            /\ executed' =
                 IF InCapture THEN Append(executed, <<NextBlock(given)>>)
                 ELSE [executed EXCEPT ![Len(executed)] = Append(@, NextBlock(given))]
            /\ Apply(NextBlock(given))
  <2>1. restored'.valid \in BOOLEAN
    <3>1. PICK b : b = NextBlock(given)
      OBVIOUS
    <3>2. CASE Applicable(b)
      <4>1. restored'.valid = restored.valid
        BY <1>11, <3>1, <3>2 DEF Apply
      <4> QED BY <1>7, <4>1
    <3>3. CASE ~Applicable(b)
      <4>1. restored' = [restored EXCEPT !.valid = FALSE]
        BY <1>11, <3>1, <3>3 DEF Apply
      <4> QED BY <1>7, <4>1
    <3> QED BY <3>2, <3>3
  <2>2. ~AtEof(given) /\ NextBlock(given).kind # "execute"
    BY <1>11 DEF ProcessOwnBlock
  <2>3. CASE InMain
    <3>1. executed' = Append(executed, <<NextBlock(given)>>)
      BY <1>9, <1>11, <2>3
    <3>2. StackInv'
      BY <1>1, <1>3, <1>11, <2>3, <3>1, OwnBlockOfCapture
    <3>3. given = content => RestoredInv'
      BY <1>1, <1>2, <1>3, <1>4, <1>11, <2>2, <2>3, <3>1, NextOfCaptureIsRestored
    <3> QED BY <1>6, <2>1, <3>2, <3>3
  <2>4. CASE InAssetFile
    <3>1. LastEntryGrows(NextBlock(given))
      BY <1>10, <1>11, <2>4 DEF LastEntryGrows
    <3>2. StackInv'
      BY <1>1, <1>3, <1>11, <2>4, <3>1, OwnBlockOfAsset
    <3>3. given = content => RestoredInv'
      BY <1>1, <1>2, <1>3, <1>4, <1>11, <2>2, <2>4, <3>1, NextOfAssetIsRestored
    <3> QED BY <1>6, <2>1, <3>2, <3>3
  <2> QED BY <1>8, <2>3, <2>4
<1>12. CASE /\ ProcessExecuteBlocksFromFile(given)
            /\ executed' = IF InCapture THEN Append(executed, <<>>) ELSE executed
            /\ UNCHANGED restored
  <2>1. ~AtEof(given) /\ NextBlock(given).kind = "execute"
    BY <1>12 DEF ProcessExecuteBlocksFromFile
  <2>2. InMain
    BY <1>1, <1>8, <2>1, InAssetFacts
  <2>3. executed' = Append(executed, <<>>)
    BY <1>9, <1>12, <2>2
  <2>4. StackInv'
    BY <1>1, <1>3, <1>12, <2>2, <2>3, ExecuteOfCapture
  <2>5. given = content => RestoredInv'
    BY <1>1, <1>2, <1>3, <1>12, <2>1, <2>2, <2>3, ExecuteIsRestored
  <2>6. restored' = restored
    BY <1>12
  <2> QED BY <1>6, <1>7, <2>4, <2>5, <2>6
<1>13. CASE HandleBlockEof(given) /\ UNCHANGED <<executed, restored>>
  <2>1. StackInv'
    BY <1>1, <1>3, <1>8, <1>13, EofOfCapture, EofOfAsset
  <2>2. executed' = executed /\ restored' = restored
    BY <1>13
  <2>3. Executed' = Executed
    BY <2>2 DEF Executed
  <2>4. given = content => RestoredInv'
    BY <1>1, <1>2, <1>3, <2>2, <2>3, RestoredStays
  <2> QED BY <1>6, <1>7, <2>1, <2>2, <2>4
<1> QED BY <1>11, <1>12, <1>13 DEF ReplayStep

LEMMA UnchangedKeepsReplayInv ==
  ASSUME ReplayInv, UNCHANGED vars
  PROVE  ReplayInv'
<1>1. UNCHANGED <<asset_vars, file_stack, position, block_index, read_state, given, replayed, executed, restored>>
  BY DEF vars, replay_vars, stack_vars
<1>2. SnapshotInv'
  BY <1>1, UnchangedKeepsSnapshotInv DEF ReplayInv
<1>3. UNCHANGED <<content, captured, at_capture, writer, live>>
  BY <1>1 DEF asset_vars, app_vars, writer_vars
<1>4. CASE NotReplaying
  BY <1>1, <1>2, <1>4 DEF NotReplaying, NoFile, ReplayInv
<1>5. CASE Replaying
  <2>1. StackInv'
    <3>1. StackInv /\ SameFiles
      BY <1>1, <1>3, <1>5 DEF Replaying, SameFiles
    <3>2. (Ended \/ InMain \/ AssetMissing \/ InAssetFile)'
      BY <1>1, <1>3, <3>1 DEF StackInv, Ended, InMain, AssetMissing, InAssetFile, Main
    <3>3. EntriesDone' = EntriesDone
      BY <1>1 DEF EntriesDone, InAsset
    <3>4. \A k \in 1..EntriesDone : executed'[k] = Referenced(given[replayed][k])'
      <4> SUFFICES ASSUME NEW k \in 1..EntriesDone PROVE executed'[k] = Referenced(given[replayed][k])'
        OBVIOUS
      <4>1. PICK e : e = given[replayed][k]
        OBVIOUS
      <4>2. executed'[k] = Referenced(e)
        BY <1>1, <3>1, <4>1 DEF StackInv
      <4> QED BY <3>1, <4>1, <4>2, EntryStays
    <3> QED BY <1>1, <3>1, <3>2, <3>3, <3>4 DEF StackInv
  <2>2. (given \in FilesGiven(replayed))'
    <3>1. given \in FilesGiven(replayed)
      BY <1>5 DEF Replaying
    <3> QED BY <1>1, <1>3, <3>1 DEF FilesGiven
  <2>3. given = content => RestoredInv'
    <3>1. Executed' = Executed
      BY <1>1 DEF Executed
    <3>2. UNCHANGED <<restored, at_capture, replayed>> /\ executed' = executed
      BY <1>1, <1>3
    <3>3. given = content => RestoredInv
      BY <1>5 DEF Replaying
    <3> QED BY <3>1, <3>2, <3>3, RestoredStays
  <2> QED BY <1>1, <1>2, <1>3, <1>5, <2>1, <2>2, <2>3 DEF Replaying, ReplayInv
<1> QED BY <1>4, <1>5 DEF ReplayInv

LEMMA NextKeepsReplayInv ==
  ASSUME UpdatesAreTracked, FirstIsFreedLast, RangesOfFrames, DumpsAreAlone, ReplayInv, [Next]_vars
  PROVE  ReplayInv'
<1>1. CASE CaptureStep
  <2>1. SnapshotInv'
    BY <1>1, AssetStepKeepsSnapshotInv DEF CaptureStep, ReplayInv
  <2>2. NotReplaying
    <3>1. Replaying => replayed # 0
      BY ReplayingFacts DEF ReplayInv
    <3> QED BY <1>1, <3>1 DEF CaptureStep, ReplayInv
  <2>3. NotReplaying'
    BY <1>1, <2>2 DEF CaptureStep, replay_vars, stack_vars, NotReplaying, NoFile
  <2> QED BY <2>1, <2>3 DEF ReplayInv
<1>2. CASE \E c \in 1..captured : StartReplay(c)
  <2>1. PICK c \in 1..captured : StartReplay(c)
    BY <1>2
  <2>2. NotReplaying
    <3>1. Replaying => replayed # 0
      BY ReplayingFacts DEF ReplayInv
    <3> QED BY <2>1, <3>1 DEF StartReplay, ReplayInv
  <2> QED BY <2>1, <2>2, StartReplayKeepsInv DEF ReplayInv
<1>3. CASE ReplayStep
  <2>1. Replaying
    BY <1>3 DEF ReplayStep, ReplayInv, NotReplaying
  <2> QED BY <1>3, <2>1, ReplayStepKeepsInv DEF ReplayInv
<1>4. CASE UNCHANGED vars
  BY <1>4, UnchangedKeepsReplayInv
<1> QED BY <1>1, <1>2, <1>3, <1>4 DEF Next

LEMMA ReplayInvAlways ==
  ASSUME UpdatesAreTracked, FirstIsFreedLast, RangesOfFrames, DumpsAreAlone
  PROVE  Spec => []ReplayInv
<1>1. ReplayInv /\ [Next]_vars => ReplayInv'
  BY NextKeepsReplayInv
<1> QED BY <1>1, InitReplayInv, PTL DEF Spec

-----------------------------------------------------------------------------
(* Theorem: the captures and their files, the state that is tracked and the  *)
(* replay have the values the code gives them.                               *)
THEOREM ReplayTypeCorrect ==
  ASSUME UpdatesAreTracked, FirstIsFreedLast, RangesOfFrames, DumpsAreAlone
  PROVE  Spec => []TypeOK
<1>1. ReplayInv => TypeOK
  <2> SUFFICES ASSUME ReplayInv PROVE TypeOK
    OBVIOUS
  <2>1. AssetTypeOK /\ SnapshotInv
    BY DEF ReplayInv, SnapshotInv, IInv
  <2>2. CASE NotReplaying
    <3>1. DOMAIN NoFiles = {} /\ DOMAIN <<>> = {} /\ <<>> \in Seq(Seq(Blocks))
      BY DEF NoFiles
    <3>2. /\ given = NoFiles /\ replayed = 0 /\ executed = <<>> /\ restored.valid = TRUE
          /\ file_stack = <<>> /\ position = <<>> /\ read_state = "none"
      BY <2>2 DEF NotReplaying, NoFile, Nothing
    <3> QED BY <2>1, <3>1, <3>2 DEF TypeOK
  <2>3. CASE Replaying
    <3>1. Given /\ StackInv /\ replayed \in 1..captured
      BY <2>1, <2>3, ReplayingFacts
    <3>2. DOMAIN given \subseteq DOMAIN content /\ replayed \in Captures
      BY <2>1, <3>1, CapturedAreCaptures DEF Given, BlocksOf
    <3>3. executed \in Seq(Seq(Blocks)) /\ restored.valid \in BOOLEAN
      BY <2>3, <3>1 DEF StackInv, Replaying
    <3>4. /\ \A f \in DOMAIN position : position[f] \in 1..(Len(given[f]) + 1)
          /\ read_state \in {"none", "continue", "error", "end_of_file", "end_processing"}
      BY <3>1 DEF StackInv, Ended, InMain, AssetMissing, InAssetFile
    <3>5. /\ \A k \in DOMAIN file_stack : file_stack[k].file \in DOMAIN given
          /\ \A k \in DOMAIN file_stack :
               ~file_stack[k].execute_till_eof => file_stack[k].remaining_commands > 0
      <4>1. /\ Main.file \in DOMAIN given /\ Main.execute_till_eof = TRUE
        BY <3>1 DEF Main, ActiveFileContext, Given
      <4>2. CASE Ended
        <5>1. DOMAIN <<>> = {}
          OBVIOUS
        <5> QED BY <4>2, <5>1 DEF Ended
      <4>3. CASE file_stack = <<Main>>
        <5> HIDE DEF Main
        <5>1. DOMAIN <<Main>> = {1} /\ <<Main>>[1] = Main
          OBVIOUS
        <5> QED BY <4>1, <4>3, <5>1
      <4>4. CASE InAssetFile
        <5>1. /\ file_stack = <<Main, Context>> /\ Asset \in DOMAIN given
              /\ Executing.n_blocks \in Nat /\ Len(Done) \in Nat
          BY <3>1, <4>4, InAssetFacts
        <5>2. Context.file \in DOMAIN given
          BY <5>1 DEF Context, ActiveFileContext
        <5>3. ~Context.execute_till_eof => Context.remaining_commands > 0
          <6>1. Executing.n_blocks # 0 => Len(Done) < Executing.n_blocks
            BY <4>4 DEF InAssetFile, Executing, Done
          <6>2. ~Context.execute_till_eof =>
                  Executing.n_blocks # 0 /\ Context.remaining_commands = Executing.n_blocks - Len(Done)
            BY DEF Context, ActiveFileContext
          <6>3. PICK n \in Nat : n = Executing.n_blocks
            BY <5>1
          <6>4. PICK d \in Nat : d = Len(Done)
            BY <5>1
          <6>5. d < n => n - d > 0
            OBVIOUS
          <6> QED BY <6>1, <6>2, <6>3, <6>4, <6>5
        <5> HIDE DEF Main, Context
        <5>4. DOMAIN <<Main, Context>> = {1, 2} /\ <<Main, Context>>[1] = Main /\ <<Main, Context>>[2] = Context
          OBVIOUS
        <5> QED BY <4>1, <5>1, <5>2, <5>3, <5>4
      <4> QED BY <3>1, <4>2, <4>3, <4>4 DEF StackInv, InMain, AssetMissing
    <3> QED BY <2>1, <3>2, <3>3, <3>4, <3>5 DEF TypeOK
  <2> QED BY <2>2, <2>3 DEF ReplayInv
<1> QED BY <1>1, ReplayInvAlways, PTL

(* Theorem: a capture that is replayed with the files as they were written   *)
(* restores the state it was started in, whatever of it was dumped for this  *)
(* capture and whatever long before.                                         *)
THEOREM SnapshotIsRestoredCorrect ==
  ASSUME UpdatesAreTracked, FirstIsFreedLast, RangesOfFrames, DumpsAreAlone
  PROVE  Spec => []SnapshotIsRestored
<1>1. ReplayInv => SnapshotIsRestored
  <2> SUFFICES ASSUME ReplayInv, read_state = "end_of_file", given = content
               PROVE  /\ restored.valid
                      /\ restored.buffers = at_capture[replayed].buffers
                      /\ DOMAIN at_capture[replayed].sets \subseteq DOMAIN restored.sets
                      /\ \A s \in DOMAIN at_capture[replayed].sets :
                           restored.sets[s] = at_capture[replayed].sets[s]
    BY DEF SnapshotIsRestored
  <2>1. SnapshotInv /\ Replaying
    BY DEF ReplayInv, NotReplaying, NoFile
  <2>2. Given /\ StackInv /\ Whole /\ RestoredInv /\ replayed \in 1..captured
    BY <2>1, ReplayingFacts
  <2>3. PICK c : c = replayed
    OBVIOUS
  <2>4. PICK state : state = at_capture[c]
    OBVIOUS
  <2>5. IsComplete(c) /\ StateType(state)
    <3>1. c # writer.output_stream
      <4>1. writer.output_stream = Asset
        BY <2>1, NoWriterFields DEF Replaying
      <4> QED BY <2>2, <2>3, <4>1 DEF Given
    <3> QED BY <2>1, <2>2, <2>3, <2>4, <3>1 DEF SnapshotInv, FileInv, CapturesInv
  <2>6. Len(executed) = Len(content[c]) /\ EntriesDone = Len(executed)
    <3>1. Ended
      BY <2>2 DEF StackInv, InMain, AssetMissing, InAssetFile
    <3>2. Len(<<>>) = 0
      OBVIOUS
    <3>3. ~InAsset
      BY <3>1, <3>2 DEF Ended, InAsset
    <3> QED BY <2>3, <3>1, <3>3 DEF Ended, EntriesDone
  <2>7. \A k \in Refs(c) : \A j \in Places(c, k) : RefBlock(c, k, j) \in Executed
    <3> SUFFICES ASSUME NEW k \in Refs(c), NEW j \in Places(c, k) PROVE RefBlock(c, k, j) \in Executed
      OBVIOUS
    <3>1. k \in 2..EntriesDone /\ k \in 2..Len(executed)
      BY <2>6 DEF Refs
    <3>2. j \in DOMAIN executed[k] /\ executed[k][j] = RefBlock(c, k, j)
      BY <2>1, <2>2, <2>3, <3>1, ExecutedFacts
    <3>3. k \in DOMAIN executed
      <4>1. \A n \in Nat : \A m \in 2..n : m \in 1..n
        OBVIOUS
      <4> QED BY <2>2, <3>1, <4>1, ExecutedIsTyped
    <3> QED BY <2>2, <3>2, <3>3, EntriesAreBlocks
  <2>8. restored.buffers = state.buffers
    <3>1. executed # <<>>
      <4>1. Len(executed) # 0
        BY <2>1, <2>2, <2>3, <2>6, WholeFacts
      <4> QED BY <2>2, <4>1, ExecutedIsTyped
    <3>2. DOMAIN restored.buffers = DOMAIN state.buffers
      BY <2>2, <2>3, <2>4, <3>1 DEF RestoredInv
    <3>3. ASSUME NEW b \in DOMAIN state.buffers
          PROVE  restored.buffers[b] = state.buffers[b]
      <4>1. InitializesBuffer(c, b)
        BY <2>4, <2>5, <3>3 DEF IsComplete
      <4>2. PICK x \in Executed : x.kind = "init" /\ x.buffer = b
        BY <2>7, <4>1 DEF InitializesBuffer
      <4> QED BY <2>2, <2>3, <2>4, <4>2 DEF RestoredInv
    <3>4. /\ restored.buffers \in [DOMAIN restored.buffers -> Int]
          /\ state.buffers \in [DOMAIN state.buffers -> Nat]
      BY <2>2, <2>5 DEF RestoredInv, StateType
    <3> QED BY <3>2, <3>3, <3>4
  <2>9. ASSUME NEW s \in DOMAIN state.sets
        PROVE  s \in DOMAIN restored.sets /\ restored.sets[s] = state.sets[s]
    <3>1. s \in Sets /\ state.sets[s] \in [Bindings(s) -> Buffers \cup {NoBuffer}]
      BY <2>5, <2>9 DEF StateType
    <3>2. AllocatesSet(c, s) /\ \A i \in Bindings(s) : state.sets[s][i] # NoBuffer => UpdatesSet(c, s, i)
      BY <2>4, <2>5, <2>9 DEF IsComplete, RestoresSet
    <3>3. PICK x \in Executed : Allocates(x, s)
      BY <2>7, <3>2 DEF AllocatesSet
    <3>4. s \in DOMAIN restored.sets
      <4>1. GroupOf(s) \subseteq DOMAIN restored.sets
        BY <2>2, <3>3 DEF RestoredInv, Allocates
      <4> QED BY <3>1, <4>1, GroupFacts
    <3>5. /\ restored.sets[s] \in [Bindings(s) -> Buffers \cup {NoBuffer}]
          /\ \A i \in Bindings(s) : restored.sets[s][i] # NoBuffer => restored.sets[s][i] = state.sets[s][i]
      BY <2>2, <2>3, <2>4, <3>4 DEF RestoredInv
    <3>6. ASSUME NEW i \in Bindings(s), state.sets[s][i] # NoBuffer
          PROVE  restored.sets[s][i] = state.sets[s][i]
      <4>1. PICK y \in Executed : y.kind = "update" /\ y.set = s /\ y.binding = i
        BY <2>7, <3>2, <3>6 DEF UpdatesSet
      <4> QED BY <2>2, <2>3, <2>4, <4>1 DEF RestoredInv
    <3>7. \A i \in Bindings(s) : restored.sets[s][i] = state.sets[s][i]
      BY <3>5, <3>6
    <3> QED BY <3>1, <3>4, <3>5, <3>7
  <2>10. restored.valid = TRUE
    BY <2>2 DEF RestoredInv
  <2> QED BY <2>3, <2>4, <2>8, <2>9, <2>10
<1> QED BY <1>1, ReplayInvAlways, PTL

(* Theorem: a block that executes others stands for exactly those; a replay  *)
(* that ends before has found a file missing or cut short.                   *)
THEOREM ExecutesWhatIsReferencedCorrect ==
  ASSUME UpdatesAreTracked, FirstIsFreedLast, RangesOfFrames, DumpsAreAlone
  PROVE  Spec => []ExecutesWhatIsReferenced
<1>1. ReplayInv => ExecutesWhatIsReferenced
  <2> SUFFICES ASSUME ReplayInv PROVE ExecutesWhatIsReferenced
    OBVIOUS
  <2>1. CASE NotReplaying
    BY <2>1 DEF NotReplaying, NoFile, ExecutesWhatIsReferenced
  <2>2. CASE Replaying
    <3>1. StackInv
      BY <2>2 DEF Replaying
    <3>2. read_state = "end_of_file" => Ended
      BY <3>1 DEF StackInv, InMain, AssetMissing, InAssetFile
    <3>3. Ended => EntriesDone = Len(executed)
      <4>1. Len(<<>>) = 0
        OBVIOUS
      <4> QED BY <4>1 DEF Ended, EntriesDone, InAsset
    <3>4. read_state = "end_of_file" =>
            /\ Len(executed) = Len(given[replayed])
            /\ \A k \in DOMAIN executed : executed[k] = Referenced(given[replayed][k])
      BY <3>1, <3>2, <3>3, ExecutedIsTyped DEF StackInv, Ended
    <3>5. read_state = "error" => Asset \notin DOMAIN given
      BY <3>1 DEF StackInv, Ended, InMain, AssetMissing, InAssetFile
    <3>6. read_state = "end_processing" => given # content
      BY <3>1 DEF StackInv, Ended, InMain, AssetMissing, InAssetFile
    <3> QED BY <3>4, <3>5, <3>6 DEF ExecutesWhatIsReferenced
  <2> QED BY <2>1, <2>2 DEF ReplayInv
<1> QED BY <1>1, ReplayInvAlways, PTL

(* Theorem: a descriptor set is written with buffers that live, unless it    *)
(* was updated with a template or the first set of its allocation was freed  *)
(* alone.                                                                    *)
THEOREM StaleDescriptorsAreIgnoredCorrect ==
  ASSUME UpdatesAreTracked, FirstIsFreedLast, RangesOfFrames, DumpsAreAlone
  PROVE  Spec => []StaleDescriptorsAreIgnored
<1>1. ReplayInv => StaleDescriptorsAreIgnored
  <2> SUFFICES ASSUME ReplayInv, given = content,
                      NEW k \in DOMAIN executed, NEW j \in DOMAIN executed[k],
                      executed[k][j].kind = "update"
               PROVE  executed[k][j].buffer \in DOMAIN at_capture[replayed].buffers
    BY DEF StaleDescriptorsAreIgnored
  <2>1. Replaying
    <3>1. DOMAIN <<>> = {}
      OBVIOUS
    <3> QED BY <3>1 DEF ReplayInv, NotReplaying
  <2>2. SnapshotInv /\ Given /\ StackInv /\ Whole
    BY <2>1, ReplayingFacts DEF ReplayInv
  <2>3. DOMAIN executed = 1..Len(executed) /\ Len(executed) \in Nat
    BY <2>2, ExecutedIsTyped
  <2>4. k # 1
    <3> SUFFICES ASSUME k = 1 PROVE FALSE
      OBVIOUS
    <3>1. PICK first : first = content[replayed][1]
      OBVIOUS
    <3>2. executed[1] = <<first>> /\ first.kind = "create"
      BY <2>2, <2>3, <3>1, ExecutedFacts, WholeFacts
    <3>3. DOMAIN <<first>> = {1} /\ <<first>>[1] = first
      OBVIOUS
    <3> QED BY <3>2, <3>3
  <2>5. k \in 2..Len(executed)
    BY <2>3, <2>4
  <2>6. /\ k \in Refs(replayed) /\ j \in Places(replayed, k)
        /\ executed[k][j] = RefBlock(replayed, k, j)
    BY <2>2, <2>5, ExecutedFacts
  <2>7. Belongs(replayed, k, j)
    BY <2>2, <2>6, WholeFacts DEF IsSound
  <2> QED BY <2>6, <2>7 DEF Belongs
<1> QED BY <1>1, ReplayInvAlways, PTL
=============================================================================
