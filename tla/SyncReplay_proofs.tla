-------------------------- MODULE SyncReplay_proofs --------------------------
(***************************************************************************)
(* What holds of SyncReplay for every capture and all options that the     *)
(* command line accepts: replay and the reader agree on the number of the  *)
(* next frame whenever a frame is read from the file, however many were    *)
(* preloaded, repeated or numbered twice before; what is replayed from     *)
(* memory always ends with a result; and decoders are shown what the       *)
(* contract of a replay, FrameReplay, says.                                *)
(***************************************************************************)
EXTENDS SyncReplay, FileProcessor_proofs

Types ==
  /\ input \in Inputs
  /\ pos \in Positions
  /\ pos.block_index <= Len(input.capture.blocks)
  /\ app_pc \in {"events", "limits", "preload_loop", "preload_range", "play",
                 "end_frame", "quit", "ended", "aborted"}
  /\ success \in BOOLEAN
  /\ dispatch_frame_number \in Nat
  /\ preload_queue \in Seq(Entries)
  /\ preload_at \in Nat \ {0} /\ replay_from_queue \in BOOLEAN
  /\ looping \in BOOLEAN /\ loop_bookmark \in Nat \ {0}
  /\ loop_iterations \in Nat

(* What was preloaded ends with the result that led to position p.            *)
EndsAt(queue, p) ==
  /\ queue # <<>>
  /\ IsTerminator(queue[Len(queue)])
  /\ queue[Len(queue)].next_frame = p.frame_number

(* No frame of the queue is followed by the first one of the range once more. *)
LeavesBegin(queue, o) ==
  \A i \in DOMAIN queue :
    IsResult(queue[i]) =>
      /\ queue[i].next_frame \in Nat
      /\ queue[i].state = "kFrameBoundary" => queue[i].next_frame + 1 # o.range_begin

(* While frames are preloaded, and after all of them were replayed, replay is *)
(* at the frame that is read next; in between the end of the queue is.        *)
PreloadingInv ==
  Preloading =>
    /\ ~replay_from_queue /\ ~looping
    /\ preload_queue = <<>> => dispatch_frame_number = pos.frame_number
    /\ preload_queue # <<>> => EndsAt(preload_queue, pos)
    /\ app_pc = "preload_range" =>
         /\ input.options.preload
         /\ FrameNumber = input.options.range_begin
         /\ LeavesBegin(preload_queue, input.options)
    /\ app_pc = "preload_loop" => input.options.loop_frame # 0

ReadingInv ==
  ~Preloading /\ ~replay_from_queue =>
    dispatch_frame_number = pos.frame_number /\ ~looping

QueueInv ==
  replay_from_queue =>
    /\ EndsAt(preload_queue, pos)
    /\ preload_at <= Len(preload_queue)
    /\ looping => input.options.loop_frame # 0 /\ loop_bookmark <= Len(preload_queue)
    /\ ~looping =>
         /\ input.options.preload
         /\ LeavesBegin(preload_queue, input.options)
         /\ (app_pc \in {"events", "limits"} \/ (app_pc = "end_frame" /\ success))
              => FrameNumber # input.options.range_begin

(* The loop counter is tested for zero each time it is lowered.               *)
LoopInv == app_pc # "ended" => loop_iterations > 0

IInv ==
  /\ Types
  /\ PreloadingInv
  /\ ReadingInv
  /\ QueueInv
  /\ LoopInv
  /\ app_pc # "aborted"

-----------------------------------------------------------------------------
(* What the options and the capture of an input are.                          *)
LEMMA InputTypes ==
  ASSUME NEW i \in Inputs
  PROVE  /\ i.capture \in Captures /\ Len(i.capture.blocks) \in Nat
         /\ i.block_limit \in Nat
         /\ i.options.range_begin \in Nat /\ i.options.range_end \in Nat
         /\ i.options.range_begin < i.options.range_end
         /\ i.options.preload \in BOOLEAN /\ i.options.loop_frame \in Nat
         /\ i.options.loop_count \in Nat \ {0}
         /\ i.options.loop_frame # 0 => ~i.options.preload
<1> DEFINE o == i.options
<1>1. IsReplay(i)
  BY ReplayAssumption
<1>2. ValidOptions(o) /\ i = FrameProcessingParams(o)
  BY <1>1 DEF IsReplay
<1>3. o \in Options
  BY <1>2 DEF ValidOptions
<1> HIDE DEF o
<1>4. i.capture = o.capture /\ i.block_limit = o.block_limit
  BY <1>2 DEF FrameProcessingParams
<1>5. /\ o.capture \in Captures /\ o.block_limit \in Nat
      /\ o.range_begin \in Nat /\ o.range_end \in Nat
      /\ o.preload \in BOOLEAN /\ o.loop_frame \in Nat /\ o.loop_count \in Nat \ {0}
  BY <1>3 DEF Options
<1>6. Len(o.capture.blocks) \in Nat
  BY <1>5 DEF Captures
<1> QED BY <1>2, <1>4, <1>5, <1>6 DEF ValidOptions, o

(* What a read returns in a state of the invariant.                           *)
LEMMA ReadInState ==
  ASSUME Types
  PROVE  /\ Read.out \in Seq(Entries)
         /\ \A i \in DOMAIN Read.out : ~IsResult(Read.out[i])
         /\ Read.state \in ProcessBlockStates \ {"kContinue"}
         /\ Read.pos \in Positions /\ Read.pos.frame_number \in Nat
         /\ Read.pos.block_index <= Len(input.capture.blocks)
         /\ ResultOf(Read) \in Entries /\ IsTerminator(ResultOf(Read))
         /\ ResultOf(Read).state = Read.state
         /\ ResultOf(Read).next_frame = Read.pos.frame_number
<1>1. /\ input \in Inputs /\ pos \in Positions
      /\ pos.block_index <= Len(input.capture.blocks)
  BY DEF Types
<1>2. input.capture \in Captures /\ input.block_limit \in Nat
  BY <1>1, InputTypes
<1>3. /\ Read.out \in Seq(Entries)
      /\ \A i \in DOMAIN Read.out : ~IsResult(Read.out[i])
      /\ Read.state \in ProcessBlockStates \ {"kContinue"}
      /\ Read.pos \in Positions
      /\ Read.pos.block_index <= Len(input.capture.blocks)
  BY <1>1, <1>2, ReadTypes DEF Read
<1>4. Read.pos.frame_number \in Nat
  BY <1>3 DEF Positions
<1> QED BY <1>3, <1>4, EntryTypes, EntryKinds DEF ResultOf, IsTerminator

(* A frame that was read, behind what is preloaded.                           *)
LEMMA QueueGrows ==
  ASSUME Types
  PROVE  LET queue == preload_queue \o Append(Read.out, ResultOf(Read)) IN
         /\ queue \in Seq(Entries) /\ Len(queue) \in Nat /\ Len(queue) > 0
         /\ EndsAt(queue, Read.pos)
         /\ \A i \in DOMAIN queue :
              \/ i \in DOMAIN preload_queue /\ queue[i] = preload_queue[i]
              \/ ~IsResult(queue[i])
              \/ queue[i] = ResultOf(Read)
<1> DEFINE read == Append(Read.out, ResultOf(Read))
           queue == preload_queue \o read
<1>1. /\ preload_queue \in Seq(Entries) /\ Read.out \in Seq(Entries)
      /\ ResultOf(Read) \in Entries
  BY ReadInState DEF Types
<1>2. /\ read \in Seq(Entries) /\ Len(read) = Len(Read.out) + 1
      /\ Len(Read.out) \in Nat /\ Len(read) \in Nat
      /\ read[Len(read)] = ResultOf(Read)
      /\ \A i \in 1 .. Len(read) - 1 : i \in DOMAIN Read.out /\ read[i] = Read.out[i]
  BY <1>1
<1> HIDE DEF read
<1>3. /\ queue \in Seq(Entries) /\ Len(queue) = Len(preload_queue) + Len(read)
      /\ Len(preload_queue) \in Nat /\ DOMAIN queue = 1 .. Len(queue)
      /\ DOMAIN preload_queue = 1 .. Len(preload_queue)
      /\ \A i \in 1 .. Len(preload_queue) : queue[i] = preload_queue[i]
      /\ \A i \in Len(preload_queue) + 1 .. Len(queue) :
           queue[i] = read[i - Len(preload_queue)]
  <2>1. Len(preload_queue) \in Nat /\ DOMAIN preload_queue = 1 .. Len(preload_queue)
    BY <1>1
  <2>2. /\ queue \in Seq(Entries) /\ Len(queue) = Len(preload_queue) + Len(read)
        /\ DOMAIN queue = 1 .. Len(queue)
    <3>1. preload_queue \in Seq(Entries) /\ read \in Seq(Entries)
      BY <1>1, <1>2
    <3> QED BY <3>1
  <2>3. \A i \in 1 .. Len(preload_queue) + Len(read) :
          queue[i] = IF i <= Len(preload_queue) THEN preload_queue[i]
                                                ELSE read[i - Len(preload_queue)]
    BY <1>1, <1>2
  <2> HIDE DEF queue
  <2>4. \A i \in 1 .. Len(preload_queue) : queue[i] = preload_queue[i]
    BY <1>2, <2>1, <2>3
  <2>5. \A i \in Len(preload_queue) + 1 .. Len(queue) :
          queue[i] = read[i - Len(preload_queue)]
    BY <1>2, <2>1, <2>2, <2>3
  <2> QED BY <2>1, <2>2, <2>4, <2>5
<1> HIDE DEF queue
<1>4. queue[Len(queue)] = ResultOf(Read) /\ Len(queue) \in Nat /\ Len(queue) > 0
  <2>1. \A a, b \in Nat : b > 0 => /\ a + b \in a + 1 .. a + b /\ (a + b) - a = b
                                  /\ a + b \in Nat /\ a + b > 0
    OBVIOUS
  <2>2. Len(read) > 0 /\ Len(read) \in Nat /\ Len(preload_queue) \in Nat
    BY <1>2, <1>3
  <2>3. /\ Len(queue) \in Len(preload_queue) + 1 .. Len(queue)
        /\ Len(queue) - Len(preload_queue) = Len(read)
        /\ Len(queue) \in Nat /\ Len(queue) > 0
    BY <1>3, <2>1, <2>2
  <2>4. queue[Len(queue)] = read[Len(queue) - Len(preload_queue)]
    BY <1>3, <2>3
  <2> QED BY <1>2, <2>3, <2>4
<1>5. ASSUME NEW i \in DOMAIN queue
      PROVE  \/ i \in DOMAIN preload_queue /\ queue[i] = preload_queue[i]
             \/ ~IsResult(queue[i])
             \/ queue[i] = ResultOf(Read)
  <2>1. CASE i <= Len(preload_queue)
    BY <1>3, <1>5, <2>1
  <2>2. CASE ~(i <= Len(preload_queue)) /\ i # Len(queue)
    <3>1. i - Len(preload_queue) \in 1 .. Len(read) - 1
      <4>1. \A a, b \in Nat : \A j \in 1 .. a + b : ~(j <= a) /\ j # a + b => j - a \in 1 .. b - 1
        OBVIOUS
      <4>2. /\ Len(read) \in Nat /\ Len(preload_queue) \in Nat
            /\ i \in 1 .. Len(preload_queue) + Len(read)
            /\ i # Len(preload_queue) + Len(read)
        BY <1>2, <1>3, <1>5, <2>2
      <4> QED BY <2>2, <4>1, <4>2
    <3>2. queue[i] = read[i - Len(preload_queue)]
      BY <1>3, <1>5, <2>2
    <3>3. ~IsResult(queue[i])
      BY <1>2, <3>1, <3>2, ReadInState
    <3> QED BY <3>3
  <2>3. CASE i = Len(queue)
    BY <1>4, <2>3
  <2> QED BY <2>1, <2>2, <2>3
<1>6. queue # <<>>
  <2>1. Len(<<>>) = 0
    OBVIOUS
  <2> QED BY <1>4, <2>1
<1> QED BY <1>3, <1>4, <1>5, <1>6, ReadInState DEF EndsAt, queue, read

-----------------------------------------------------------------------------
LEMMA InitIInv == Init => IInv
<1> SUFFICES ASSUME Init PROVE IInv
  OBVIOUS
<1>1. /\ input \in Inputs /\ input.capture \in Captures
      /\ Len(input.capture.blocks) \in Nat /\ input.options.loop_count \in Nat \ {0}
  BY InputTypes DEF Init
<1>2. /\ pos \in Positions /\ pos.block_index = 0 /\ pos.frame_number = 0
  BY <1>1, StartType DEF Init, StartOf
<1>3. <<>> \in Seq(Entries)
  OBVIOUS
<1>4. Types
  <2>1. input.options.loop_count \in Nat
    BY <1>1
  <2>2. pos.block_index <= Len(input.capture.blocks)
    BY <1>1, <1>2
  <2>3. ClientInit(input.options)
    BY DEF Init
  <2>4. /\ app_pc = "events" /\ success = FALSE /\ dispatch_frame_number = 0
        /\ preload_queue = <<>> /\ preload_at = 1 /\ replay_from_queue = FALSE
        /\ looping = FALSE /\ loop_bookmark = 1 /\ loop_iterations \in Nat
    BY <2>1, <2>3 DEF ClientInit
  <2>5. preload_queue \in Seq(Entries)
    BY <1>3, <2>4
  <2>6. success \in BOOLEAN /\ replay_from_queue \in BOOLEAN /\ looping \in BOOLEAN
    BY <2>4
  <2> QED BY <1>1, <1>2, <2>2, <2>4, <2>5, <2>6 DEF Types
<1> QED
  BY <1>1, <1>2, <1>4 DEF Init, ClientInit, IInv, PreloadingInv, ReadingInv, QueueInv, LoopInv,
     Preloading

-----------------------------------------------------------------------------
(* The steps                                                                 *)

(* A result that repeats the number replay is at is not the last one that is  *)
(* preloaded.                                                                 *)
LEMMA StutterIsFollowed ==
  ASSUME IInv, Preloading, NEW result, IsLeadingStutter(result)
  PROVE  MorePreload(input.options, result)
<1> DEFINE o == input.options
<1>1. /\ Types /\ app_pc \in {"preload_loop", "preload_range"} /\ input \in Inputs
      /\ dispatch_frame_number \in Nat
  BY DEF IInv, Types, Preloading
<1>2. result.state = "kFrameBoundary" /\ result.next_frame = dispatch_frame_number
  BY DEF IsLeadingStutter
<1>3. dispatch_frame_number < PreloadLimit(o)
  <2>1. CASE app_pc = "preload_loop"
    BY <1>1, <2>1 DEF PreloadLimit
  <2>2. CASE app_pc = "preload_range"
    <3>1. o.preload /\ FrameNumber = o.range_begin
      BY <2>2 DEF IInv, PreloadingInv, Preloading
    <3>2. ShouldPreloadFrames(o, FrameNumber) = o.range_end - o.range_begin
      BY <3>1 DEF ShouldPreloadFrames
    <3>3. /\ o.range_begin \in Nat /\ o.range_end \in Nat /\ o.range_begin < o.range_end
      BY <1>1, InputTypes
    <3> QED BY <1>1, <2>2, <3>2, <3>3 DEF PreloadLimit
  <2> QED BY <1>1, <2>1, <2>2
<1> QED BY <1>2, <1>3 DEF MorePreload

(* Frames that are preloaded leave the end of the queue at the reader.        *)
LEMMA PreloadStep ==
  ASSUME IInv, Preload
  PROVE  IInv'
<1> DEFINE result == ResultOf(Read)
           queue == preload_queue \o Append(Read.out, result)
           o == input.options
           stutter == IsLeadingStutter(result)
           more == MorePreload(o, result)
<1>1. /\ Types /\ app_pc \in {"preload_loop", "preload_range"} /\ input \in Inputs
      /\ dispatch_frame_number \in Nat
  BY DEF IInv, Types, Preload, Preloading
<1>2. /\ ~replay_from_queue /\ ~looping
      /\ app_pc = "preload_range" => /\ o.preload
                                     /\ dispatch_frame_number + 1 = o.range_begin
                                     /\ LeavesBegin(preload_queue, o)
      /\ app_pc = "preload_loop" => o.loop_frame # 0
      /\ loop_iterations > 0
  BY <1>1 DEF IInv, PreloadingInv, LoopInv, Preload, FrameNumber
<1>3. /\ pos' = Read.pos
      /\ UNCHANGED <<input, success, dispatch_frame_number, loop_iterations>>
      /\ IF more
           THEN /\ preload_queue' = IF stutter THEN <<>> ELSE queue
                /\ UNCHANGED <<app_pc, preload_at, replay_from_queue, looping, loop_bookmark>>
           ELSE FinishPreload(input.capture, IF stutter THEN <<>> ELSE queue)
  BY DEF Preload, loop_vars
<1>4. /\ Read.pos \in Positions /\ Read.pos.frame_number \in Nat
      /\ Read.pos.block_index <= Len(input.capture.blocks)
      /\ result.next_frame = Read.pos.frame_number /\ result.state = Read.state
  BY <1>1, ReadInState
<1>5. /\ queue \in Seq(Entries) /\ Len(queue) \in Nat /\ Len(queue) > 0 /\ EndsAt(queue, Read.pos)
      /\ queue # <<>>
      /\ \A i \in DOMAIN queue :
           \/ i \in DOMAIN preload_queue /\ queue[i] = preload_queue[i]
           \/ ~IsResult(queue[i])
           \/ queue[i] = result
  BY <1>1, QueueGrows DEF EndsAt
<1>6. stutter => more
  BY <1>1, StutterIsFollowed DEF Preloading
<1>7. app_pc = "preload_range" /\ ~stutter => LeavesBegin(queue, o)
  <2> SUFFICES ASSUME app_pc = "preload_range", ~stutter,
                      NEW i \in DOMAIN queue, IsResult(queue[i])
               PROVE  /\ queue[i].next_frame \in Nat
                      /\ queue[i].state = "kFrameBoundary" =>
                           queue[i].next_frame + 1 # o.range_begin
    BY DEF LeavesBegin
  <2>1. CASE i \in DOMAIN preload_queue /\ queue[i] = preload_queue[i]
    BY <1>2, <2>1 DEF LeavesBegin
  <2>2. CASE queue[i] = result
    <3>1. result.state = "kFrameBoundary" => result.next_frame # dispatch_frame_number
      BY DEF IsLeadingStutter
    <3> QED BY <1>1, <1>2, <1>4, <2>2, <3>1
  <2> QED BY <1>5, <2>1, <2>2
<1> HIDE DEF queue, result, stutter, more
<1>8. CASE more /\ stutter
  <2>1. /\ preload_queue' = <<>> /\ <<>> \in Seq(Entries)
        /\ UNCHANGED <<app_pc, preload_at, replay_from_queue, looping, loop_bookmark>>
    BY <1>3, <1>8
  <2>2. dispatch_frame_number = Read.pos.frame_number
    BY <1>4, <1>8 DEF stutter, IsLeadingStutter
  <2>3. LeavesBegin(<<>>, o)
    BY DEF LeavesBegin
  <2>4. Types'
    BY <1>1, <1>3, <1>4, <2>1 DEF Types
  <2> QED
    BY <1>1, <1>2, <1>3, <2>1, <2>2, <2>3, <2>4 DEF IInv, PreloadingInv, ReadingInv, QueueInv,
       LoopInv, Preloading, FrameNumber
<1>9. CASE more /\ ~stutter
  <2>1. /\ preload_queue' = queue
        /\ UNCHANGED <<app_pc, preload_at, replay_from_queue, looping, loop_bookmark>>
    BY <1>3, <1>9
  <2>2. Types'
    BY <1>1, <1>3, <1>4, <1>5, <2>1 DEF Types
  <2> QED
    BY <1>1, <1>2, <1>3, <1>5, <1>7, <1>9, <2>1, <2>2 DEF IInv, PreloadingInv, ReadingInv,
       QueueInv, LoopInv, Preloading, FrameNumber
<1>10. CASE ~more
  <2>1. /\ preload_queue' = queue /\ replay_from_queue' = TRUE /\ preload_at' = 1
        /\ ~stutter
    BY <1>3, <1>5, <1>6, <1>10 DEF FinishPreload
  <2>2. CASE app_pc = "preload_loop"
    <3>1. /\ looping' = TRUE /\ loop_bookmark' = SkipStateBlocks(input.capture, queue)
          /\ app_pc' = "limits"
      BY <1>3, <1>10, <2>1, <2>2 DEF FinishPreload, GoApp
    <3>2. loop_bookmark' \in Nat \ {0} /\ loop_bookmark' <= Len(queue)
      BY <1>5, <3>1, BookmarkIsInside DEF EndsAt
    <3>3. Types'
      BY <1>1, <1>3, <1>4, <1>5, <2>1, <3>1, <3>2 DEF Types
    <3> QED
      BY <1>2, <1>3, <1>5, <2>1, <2>2, <3>1, <3>2, <3>3 DEF IInv, PreloadingInv, ReadingInv,
         QueueInv, LoopInv, Preloading
  <2>3. CASE app_pc = "preload_range"
    <3>1. UNCHANGED <<looping, loop_bookmark>> /\ app_pc' = "play"
      BY <1>3, <1>10, <2>1, <2>3 DEF FinishPreload, GoApp, loop_vars
    <3>2. Types'
      BY <1>1, <1>3, <1>4, <1>5, <2>1, <3>1 DEF Types
    <3> QED
      BY <1>2, <1>3, <1>5, <1>7, <2>1, <2>3, <3>1, <3>2 DEF IInv, PreloadingInv, ReadingInv,
         QueueInv, LoopInv, Preloading
  <2> QED BY <1>1, <2>2, <2>3
<1> QED BY <1>8, <1>9, <1>10

(* A frame that is read leaves replay and the reader at the same frame.       *)
LEMMA ReadStep ==
  ASSUME IInv, ProcessNextFrame
  PROVE  IInv'
<1>1. /\ Types /\ app_pc = "play" /\ ~replay_from_queue /\ ~looping /\ loop_iterations > 0
  BY DEF IInv, ReadingInv, ProcessNextFrame, Preloading, LoopInv
<1>2. /\ Read.pos \in Positions /\ Read.pos.frame_number \in Nat
      /\ Read.pos.block_index <= Len(input.capture.blocks)
      /\ ResultOf(Read).next_frame = Read.pos.frame_number
  BY <1>1, ReadInState
<1>3. /\ pos' = Read.pos /\ app_pc' = "end_frame" /\ preload_queue' = <<>>
      /\ success' = ContinueProcessing(Read.state)
      /\ UNCHANGED <<input, preload_at, replay_from_queue, looping, loop_bookmark,
                     loop_iterations>>
  BY DEF ProcessNextFrame, GoApp, loop_vars
<1>4. dispatch_frame_number' = Read.pos.frame_number
  BY <1>2 DEF ProcessNextFrame, HandleReplayResult, NoFrame
<1>5. Types'
  <2>1. <<>> \in Seq(Entries) /\ ContinueProcessing(Read.state) \in BOOLEAN
    BY DEF ContinueProcessing
  <2> QED BY <1>1, <1>2, <1>3, <1>4, <2>1 DEF Types
<1> QED
  BY <1>1, <1>3, <1>4, <1>5 DEF IInv, PreloadingInv, ReadingInv, QueueInv, LoopInv, Preloading

(* A frame from memory leaves replay at the frame its result names.           *)
LEMMA QueueStep ==
  ASSUME IInv, PlayFromQueue, UNCHANGED <<input, pos>>
  PROVE  IInv'
<1> DEFINE rest == SubSeq(preload_queue, preload_at, Len(preload_queue))
           n == EntriesOfFrame(rest)
           last == (preload_at + n) - 1
<1>1. /\ Types /\ QueueInv /\ app_pc = "play" /\ replay_from_queue /\ loop_iterations > 0
      /\ preload_at \in Nat \ {0} /\ dispatch_frame_number \in Nat
      /\ preload_queue \in Seq(Entries) /\ pos \in Positions
  BY DEF IInv, PlayFromQueue, LoopInv, Types
<1>2. /\ HasTerminator(rest) /\ n \in Nat \ {0} /\ last \in DOMAIN preload_queue
      /\ rest[n] = preload_queue[last] /\ IsTerminator(rest[n]) /\ rest[n] \in Entries
      /\ Len(preload_queue) \in Nat /\ DOMAIN preload_queue = 1 .. Len(preload_queue)
  BY <1>1, FrameFromQueue DEF QueueInv, EndsAt
<1>3. /\ app_pc' = "end_frame"
      /\ UNCHANGED <<preload_queue, looping, loop_bookmark, loop_iterations>>
      /\ dispatch_frame_number' = IF rest[n].next_frame = NoFrame THEN dispatch_frame_number
                                                               ELSE rest[n].next_frame
      /\ looping => /\ preload_at' = loop_bookmark /\ success' = (rest[n].state # "kError")
                    /\ UNCHANGED replay_from_queue
      /\ ~looping => /\ preload_at' = preload_at + n
                     /\ success' = ContinueProcessing(rest[n].state)
                     /\ replay_from_queue' = (preload_at + n <= Len(preload_queue))
  BY <1>2 DEF PlayFromQueue, HandleReplayResult, GoApp, loop_vars
<1>4. /\ IsResult(rest[n]) /\ rest[n].state # "kContinue"
      /\ rest[n].next_frame \in Nat \cup {NoFrame}
  BY <1>2, EntryKinds DEF IsTerminator
<1> HIDE DEF rest, n
<1>5. dispatch_frame_number' \in Nat /\ success' \in BOOLEAN
  <2>1. dispatch_frame_number' \in Nat
    BY <1>1, <1>3, <1>4
  <2>2. success' \in BOOLEAN
    <3>1. ContinueProcessing(rest[n].state) \in BOOLEAN /\ looping \in BOOLEAN
      BY <1>1 DEF ContinueProcessing, Types
    <3> QED BY <1>3, <3>1
  <2> QED BY <2>1, <2>2
<1>6. CASE looping
  <2>1. Types'
    BY <1>1, <1>3, <1>5, <1>6 DEF Types
  <2> QED
    BY <1>1, <1>3, <1>6, <2>1 DEF IInv, PreloadingInv, ReadingInv, QueueInv, LoopInv, Preloading
<1>7. CASE ~looping
  <2>1. Types'
    <3>1. preload_at' \in Nat \ {0} /\ replay_from_queue' \in BOOLEAN
      BY <1>1, <1>2, <1>3, <1>7
    <3> QED BY <1>1, <1>3, <1>5, <1>7, <3>1 DEF Types
  <2>2. /\ EndsAt(preload_queue, pos) /\ LeavesBegin(preload_queue, input.options)
        /\ input.options.preload
    BY <1>1, <1>7 DEF QueueInv
  <2>3. CASE replay_from_queue'
    <3>1. preload_at' <= Len(preload_queue')
      BY <1>3, <1>7, <2>3
    <3>2. success' => dispatch_frame_number' + 1 # input.options.range_begin
      <4>1. success' => rest[n].state = "kFrameBoundary"
        BY <1>3, <1>4, <1>7 DEF ContinueProcessing
      <4>2. /\ rest[n].next_frame \in Nat
            /\ rest[n].state = "kFrameBoundary" =>
                 rest[n].next_frame + 1 # input.options.range_begin
        BY <1>2, <1>4, <2>2 DEF LeavesBegin
      <4> QED BY <1>3, <4>1, <4>2 DEF NoFrame
    <3> QED
      BY <1>1, <1>3, <1>7, <2>1, <2>2, <2>3, <3>1, <3>2 DEF IInv, PreloadingInv, ReadingInv,
         QueueInv, LoopInv, Preloading, FrameNumber
  <2>4. CASE ~replay_from_queue'
    <3>1. last = Len(preload_queue)
      <4>1. last \in 1 .. Len(preload_queue) /\ last = (preload_at + n) - 1
        BY <1>2
      <4>2. ~(preload_at + n <= Len(preload_queue))
        BY <1>3, <1>7, <2>4
      <4> HIDE DEF last
      <4> QED BY <1>1, <1>2, <4>1, <4>2
    <3>2. rest[n].next_frame = pos.frame_number /\ pos.frame_number \in Nat
      BY <1>1, <1>2, <2>2, <3>1 DEF EndsAt, Positions
    <3>3. dispatch_frame_number' = pos.frame_number
      BY <1>3, <3>2 DEF NoFrame
    <3> QED
      BY <1>1, <1>3, <1>7, <2>1, <2>4, <3>3 DEF IInv, PreloadingInv, ReadingInv, QueueInv,
         LoopInv, Preloading
  <2> QED BY <2>3, <2>4
<1> QED BY <1>6, <1>7

(* Between frames, what is preloaded is looked for once only.                 *)
LEMMA LimitsStep ==
  ASSUME IInv, UNCHANGED <<input, pos>>,
         QuitEvent \/ NoEvent(input.options) \/ CheckLimits(input.options) \/ EndFrame
  PROVE  IInv'
<1> DEFINE o == input.options
<1>1. /\ Types /\ input \in Inputs /\ dispatch_frame_number \in Nat /\ loop_iterations \in Nat
      /\ UNCHANGED <<dispatch_frame_number, looping, loop_bookmark, success>>
  BY DEF IInv, Types, QuitEvent, NoEvent, CheckLimits, EndFrame, loop_vars
<1>2. /\ o.loop_frame # 0 => ~o.preload
  BY <1>1, InputTypes
<1>3. CASE StartPreload(app_pc') /\ app_pc' \in {"preload_loop", "preload_range"}
  <2>1. /\ preload_queue' = <<>> /\ UNCHANGED <<preload_at, replay_from_queue, loop_iterations>>
        /\ <<>> \in Seq(Entries)
    BY <1>3 DEF StartPreload, QuitEvent, NoEvent, CheckLimits, EndFrame, GoApp
  <2>2. /\ app_pc \in {"events", "limits"} /\ ~replay_from_queue /\ loop_iterations > 0
        /\ app_pc' = "preload_loop" => o.loop_frame # 0
        /\ app_pc' = "preload_range" => o.preload /\ FrameNumber = o.range_begin
    <3>1. CASE QuitEvent \/ EndFrame
      BY <1>3, <3>1 DEF QuitEvent, EndFrame, GoApp
    <3>2. CASE NoEvent(o)
      <4>1. app_pc = "events" /\ o.loop_frame # 0 /\ ~looping /\ app_pc' = "preload_loop"
        BY <1>3, <3>2 DEF NoEvent, AtLoopFrame, GoApp, StartPreload
      <4> QED BY <1>2, <4>1 DEF IInv, QueueInv, LoopInv
    <3>3. CASE CheckLimits(o)
      <4>1. /\ app_pc = "limits" /\ ShouldPreloadFrames(o, FrameNumber) > 0
            /\ app_pc' = "preload_range"
        BY <1>3, <3>3 DEF CheckLimits, GoApp, StartPreload
      <4>2. o.preload /\ FrameNumber = o.range_begin
        BY <4>1 DEF ShouldPreloadFrames
      <4> QED BY <1>2, <4>1, <4>2 DEF IInv, QueueInv, LoopInv
    <3> QED BY <3>1, <3>2, <3>3
  <2>3. dispatch_frame_number = pos.frame_number /\ ~looping
    BY <2>2 DEF IInv, ReadingInv, Preloading
  <2>4. LeavesBegin(<<>>, o)
    BY DEF LeavesBegin
  <2>5. Types'
    BY <1>1, <1>3, <2>1 DEF Types
  <2> QED
    BY <1>1, <1>3, <2>1, <2>2, <2>3, <2>4, <2>5 DEF IInv, PreloadingInv, ReadingInv, QueueInv,
       LoopInv, Preloading, FrameNumber
<1>4. CASE /\ UNCHANGED preload_vars
           /\ \/ QuitEvent \/ EndFrame
              \/ app_pc = "events" /\ app_pc' = "limits" /\ loop_iterations' = loop_iterations
              \/ app_pc = "limits" /\ app_pc' \in {"play", "ended"}
                   /\ loop_iterations' = loop_iterations
  <2>1. UNCHANGED <<preload_queue, preload_at, replay_from_queue>>
    BY <1>4 DEF preload_vars
  <2>2. /\ ~Preloading /\ ~Preloading' /\ app_pc # "ended"
        /\ app_pc' \in {"events", "limits", "play", "quit", "ended"}
        /\ app_pc' \in {"events", "limits"} =>
             app_pc = "events" \/ (app_pc = "end_frame" /\ success)
    BY <1>4 DEF QuitEvent, EndFrame, GoApp, Preloading
  <2>3. loop_iterations' \in Nat /\ (app_pc' # "ended" => loop_iterations' > 0)
    <3>1. loop_iterations > 0
      BY <2>2 DEF IInv, LoopInv
    <3> QED BY <1>1, <1>4, <3>1 DEF QuitEvent, EndFrame, GoApp
  <2>4. Types'
    BY <1>1, <2>1, <2>2, <2>3 DEF Types
  <2> QED
    BY <1>1, <2>1, <2>2, <2>3, <2>4 DEF IInv, PreloadingInv, ReadingInv, QueueInv, LoopInv,
       FrameNumber
<1> QED
  BY <1>3, <1>4 DEF QuitEvent, NoEvent, CheckLimits, EndFrame, StartPreload, GoApp

LEMMA NextIInv == IInv /\ [Next]_vars => IInv'
<1> SUFFICES ASSUME IInv, [Next]_vars PROVE IInv'
  OBVIOUS
<1>1. CASE UNCHANGED vars
  BY <1>1 DEF vars, client_vars, preload_vars, loop_vars, IInv, Types, PreloadingInv,
     ReadingInv, QueueInv, LoopInv, Preloading, FrameNumber
<1>2. CASE Client
  BY <1>2, QueueStep, LimitsStep DEF Client
<1>3. CASE Preload
  BY <1>3, PreloadStep
<1>4. CASE ProcessNextFrame
  BY <1>4, ReadStep
<1> QED BY <1>1, <1>2, <1>3, <1>4 DEF Next, Finished

-----------------------------------------------------------------------------
(* Whatever is preloaded, looped and read, the queue and the reader stay      *)
(* together.  In particular a frame that is shown at once because its number  *)
(* stutters is never the last that was to be preloaded, so that "at least one *)
(* result is guaranteed to be preloaded" (preload_file_processor.cpp:98).     *)
THEOREM Invariance == Spec => []IInv
BY InitIInv, NextIInv, PTL DEF Spec

(* Replay from memory finds a result for every frame it begins:               *)
(* ReplayOneFrame does not run off the end of what was preloaded              *)
(* (file_processor.cpp:304).                                                  *)
THEOREM PreloadedFramesEnd == Spec => [](app_pc # "aborted")
<1>1. IInv => app_pc # "aborted"
  BY DEF IInv
<1> QED BY <1>1, Invariance, PTL

(* The assertion of ProcessNextFrameSync (file_processor.cpp:192): a frame    *)
(* that is read has the number replay is at.                                  *)
THEOREM NextFrameIsNextToReadCorrect == Spec => []NextFrameIsNextToRead
<1>1. IInv => NextFrameIsNextToRead
  BY DEF IInv, ReadingInv, NextFrameIsNextToRead, Preloading
<1> QED BY <1>1, Invariance, PTL

(* What decoders see is made of the blocks that were read or preloaded.       *)
LEMMA HistoryStep ==
  ASSUME IInv, replayed \in Seq(ShownBlocks), [Next]_vars
  PROVE  replayed' \in Seq(ShownBlocks)
<1>0. Types /\ dispatch_frame_number \in Nat /\ preload_queue \in Seq(Entries)
  BY DEF IInv, Types
<1>1. \A s \in Seq(Entries) : Show(s) => replayed' \in Seq(ShownBlocks)
  <2>1. \A s \in Seq(Entries) : Shown(s, dispatch_frame_number) \in Seq(ShownBlocks)
    BY <1>0, ShownType
  <2>2. \A t \in Seq(ShownBlocks) : replayed \o t \in Seq(ShownBlocks)
    OBVIOUS
  <2> QED BY <2>1, <2>2 DEF Show
<1>2. \A s \in Seq(Entries) : HasTerminator(s) => SubSeq(s, 1, EntriesOfFrame(s)) \in Seq(Entries)
  <2> SUFFICES ASSUME NEW s \in Seq(Entries), HasTerminator(s)
               PROVE  SubSeq(s, 1, EntriesOfFrame(s)) \in Seq(Entries)
    OBVIOUS
  <2>1. EntriesOfFrame(s) \in 1 .. Len(s)
    BY FrameIsTaken
  <2>2. \A n \in 1 .. Len(s) : SubSeq(s, 1, n) \in Seq(Entries)
    OBVIOUS
  <2> QED BY <2>1, <2>2
<1>3. CASE Preload
  <2> DEFINE queue == preload_queue \o Append(Read.out, ResultOf(Read))
  <2>1. queue \in Seq(Entries) /\ Len(queue) \in Nat /\ EndsAt(queue, Read.pos)
    BY <1>0, QueueGrows
  <2>2. ShowStutterFrame(queue) \/ UNCHANGED replayed
    BY <1>3 DEF Preload
  <2> HIDE DEF queue
  <2>3. HasTerminator(queue)
    <3>1. Len(queue) \in DOMAIN queue
      BY <2>1 DEF EndsAt
    <3> QED BY <2>1, <3>1 DEF EndsAt, HasTerminator
  <2> QED BY <1>1, <1>2, <2>1, <2>2, <2>3 DEF ShowStutterFrame
<1>4. CASE ProcessNextFrame
  BY <1>0, <1>1, <1>4, ReadInState DEF ProcessNextFrame
<1>5. CASE PlayFromQueue
  <2> DEFINE rest == SubSeq(preload_queue, preload_at, Len(preload_queue))
  <2>1. HasTerminator(rest)
    <3>1. /\ preload_queue # <<>> /\ IsTerminator(preload_queue[Len(preload_queue)])
          /\ preload_at \in Nat \ {0} /\ preload_at <= Len(preload_queue)
      BY <1>5 DEF IInv, QueueInv, EndsAt, Types, PlayFromQueue
    <3> QED BY <1>0, <3>1, FrameFromQueue
  <2>2. rest \in Seq(Entries)
    <3>1. preload_at \in Nat \ {0} /\ Len(preload_queue) \in Nat
      BY <1>0 DEF Types
    <3> QED BY <1>0, <3>1
  <2>3. Show(SubSeq(rest, 1, EntriesOfFrame(rest)))
    BY <1>5, <2>1 DEF PlayFromQueue
  <2> HIDE DEF rest
  <2> QED BY <1>1, <1>2, <2>1, <2>2, <2>3
<1>6. CASE QuitEvent \/ NoEvent(input.options) \/ CheckLimits(input.options) \/ EndFrame
           \/ UNCHANGED vars
  BY <1>6 DEF QuitEvent, NoEvent, CheckLimits, EndFrame, vars, client_vars
<1> QED BY <1>3, <1>4, <1>5, <1>6 DEF Next, Client, Finished

(* Every variable keeps its type: the frame numbers are natural, replay from  *)
(* memory stays inside what was preloaded, and decoders are given blocks with *)
(* the number of a frame, never a result or the signal of the reader.         *)
THEOREM TypeCorrect == Spec => []TypeOK
<1>1. Init => replayed \in Seq(ShownBlocks)
  BY DEF Init, ClientInit
<1>2. IInv /\ replayed \in Seq(ShownBlocks) /\ [Next]_vars => (replayed \in Seq(ShownBlocks))'
  BY HistoryStep
<1>3. IInv /\ replayed \in Seq(ShownBlocks) => TypeOK
  BY DEF IInv, Types, TypeOK, ClientTypeOK, ShownBlocks
<1> QED BY <1>1, <1>2, <1>3, Invariance, PTL DEF Spec

-----------------------------------------------------------------------------
(* Steps of the contract                                                     *)

Abstract == <<input, replayed, Outcome>>

(* What decoders see next is all of the next frame, if it has any block.      *)
LEMMA FrameIsContracted ==
  ASSUME IsReplay(input), UNCHANGED input, Outcome = "running", Outcome' = "running",
         NEW m \in 0 .. Len(Script(input)) - 1,
         replayed = Played(input)[m], replayed' = replayed \o Script(input)[m + 1]
  PROVE  /\ m + 1 \in 0 .. Len(Script(input)) /\ replayed' = Played(input)[m + 1]
         /\ [Contract!Next]_Abstract
<1> DEFINE script == Script(input)
           played == Played(input)
           N == Len(script)
<1>0. script \in Seq(Seq(ShownBlocks))
  BY ScriptFacts
<1>1. /\ N \in Nat /\ DOMAIN played = 0 .. N
      /\ \A k \in 0 .. N : played[k] \in Seq(ShownBlocks)
      /\ \A k \in 0 .. N - 1 : played[k + 1] = played[k] \o script[k + 1]
      /\ \A k \in 1 .. N : script[k] \in Seq(ShownBlocks)
  <2>1. \A k \in 1 .. N : script[k] \in Seq(ShownBlocks)
    BY <1>0
  <2> QED BY <2>1, PlayedFacts
<1>2. m \in 0 .. N /\ m + 1 \in 0 .. N /\ m + 1 \in 1 .. N /\ m + 1 # 0 /\ (m + 1) - 1 = m
      /\ m \in 0 .. N - 1
  BY <1>1
<1>3. replayed' = played[m + 1]
  BY <1>1, <1>2
<1>4. script[m + 1] \in Seq(ShownBlocks) /\ played[m] \in Seq(ShownBlocks)
      /\ played[m + 1] = played[m] \o script[m + 1]
  BY <1>1, <1>2
<1> HIDE DEF script, played, N
<1>5. /\ Len(played[m]) \in Nat /\ Len(script[m + 1]) \in Nat
      /\ Len(played[m + 1]) = Len(played[m]) + Len(script[m + 1])
      /\ played[m + 1] = SubSeq(played[m + 1], 1, Len(played[m + 1]))
  <2>1. \A s, t \in Seq(ShownBlocks) :
          Len(s) \in Nat /\ Len(t) \in Nat /\ Len(s \o t) = Len(s) + Len(t) /\ s \o t \in Seq(ShownBlocks)
    OBVIOUS
  <2>2. \A s \in Seq(ShownBlocks) : s = SubSeq(s, 1, Len(s))
    OBVIOUS
  <2> QED BY <1>4, <2>1, <2>2
<1>6. CASE Len(script[m + 1]) = 0
  <2>1. played[m + 1] = played[m]
    <3>1. script[m + 1] = <<>>
      BY <1>4, <1>6
    <3>2. \A s \in Seq(ShownBlocks) : s \o <<>> = s
      OBVIOUS
    <3> QED BY <1>4, <3>1, <3>2
  <2>2. UNCHANGED Abstract
    BY <1>3, <2>1 DEF Abstract, played
  <2> QED BY <1>2, <1>3, <2>2 DEF played, N, script
<1>7. CASE Len(script[m + 1]) # 0
  <2>1. m + 1 \in DOMAIN played \ {0}
    BY <1>1, <1>2
  <2>2. Len(played[(m + 1) - 1]) <= Len(replayed)
    BY <1>2, <1>5 DEF played
  <2>3. /\ Len(played[m + 1]) \in Len(replayed) + 1 .. Len(played[m + 1])
        /\ replayed' = SubSeq(played[m + 1], 1, Len(played[m + 1]))
    <3>1. \A x, y \in Nat : y # 0 => x + y \in x + 1 .. x + y
      OBVIOUS
    <3>2. replayed = played[m]
      BY DEF played
    <3> QED BY <1>3, <1>5, <1>7, <3>1, <3>2
  <2>4. Contract!ReplayBlocks(played)
    <3>1. PICK k \in DOMAIN played \ {0} : k = m + 1
      BY <2>1
    <3>2. PICK n \in Len(replayed) + 1 .. Len(played[k]) : n = Len(played[k])
      BY <2>3, <3>1
    <3>3. Len(played[k - 1]) <= Len(replayed) /\ replayed' = SubSeq(played[k], 1, n)
      BY <2>2, <2>3, <3>1, <3>2
    <3> QED BY <3>3 DEF Contract!ReplayBlocks
  <2>5. Contract!Next
    BY <2>4 DEF Contract!Next, played
  <2> QED BY <1>2, <1>3, <2>5 DEF played, N, script
<1> QED BY <1>5, <1>6, <1>7

(* The user quits between two frames.                                         *)
LEMMA QuitIsContracted ==
  ASSUME IsReplay(input), UNCHANGED <<input, replayed>>, Outcome = "running", Outcome' = "quit",
         NEW m \in 0 .. Len(Script(input)), replayed = Played(input)[m]
  PROVE  Contract!Next
<1>1. m \in DOMAIN Played(input)
  BY PlayedFacts
<1>2. Contract!Quit(Played(input))
  BY <1>1 DEF Contract!Quit
<1> QED BY <1>2 DEF Contract!Next

(* Replay ends behind the last frame.                                         *)
LEMMA EndIsContracted ==
  ASSUME IsReplay(input), UNCHANGED <<input, replayed>>, Outcome = "running", Outcome' = "ended",
         replayed = Played(input)[Len(Script(input))]
  PROVE  Contract!Next
<1>1. \A k \in DOMAIN Played(input) : Len(Played(input)[k]) <= Len(replayed)
  BY PlayedFacts
<1>2. Contract!End(Played(input))
  BY <1>1 DEF Contract!End
<1> QED BY <1>2 DEF Contract!Next

-----------------------------------------------------------------------------
(* Where replay is in its script                                             *)

(* Before a loop, replay has shown m frames and read c: the ones between are  *)
(* in the queue, which may still begin with frames that were shown.           *)
LeadsOn(m) ==
  m > 0 => /\ CaptureFrames(input)[m - 1].result.state = "kFrameBoundary"
           /\ ~IsLoopFrame(input.options, CaptureFrames(input)[m - 1])

FollowsPreload(m, c) ==
  /\ \A j \in 0 .. c - 1 : CaptureFrames(input)[j].result.state = "kFrameBoundary"
  /\ ~ShouldQuit(input.options, FrameNumber)
  /\ app_pc = "preload_loop" => AtLoopFrame(input.options, FrameNumber) /\ c = m
  /\ c > m => pos.frame_number > dispatch_frame_number
  /\ \E s : HoldsFrames(input, preload_queue, m, c, s)

FollowsQueue(m, c) ==
  /\ m < c /\ input.options.loop_frame = 0
  /\ \E a, s : /\ a <= m /\ preload_at = s[m] + 1
               /\ HoldsFrames(input, preload_queue, a, c, s)

Follows(m, c) ==
  /\ ~looping /\ loop_iterations = input.options.loop_count
  /\ m \in Nat /\ c \in Nat /\ m <= c
  /\ c <= Len(input.capture.blocks) + 1 /\ m <= LastFrame(input) + 1
  /\ dispatch_frame_number = PositionAt(input, m).frame_number
  /\ pos = PositionAt(input, c)
  /\ Preloading => FollowsPreload(m, c)
  /\ ~Preloading => IF replay_from_queue THEN FollowsQueue(m, c) ELSE c = m
  /\ app_pc # "end_frame" => LeadsOn(m)
  /\ app_pc = "play" \/ Preloading => m <= LastFrame(input)
  /\ app_pc \in {"limits", "play"} => ~AtLoopFrame(input.options, FrameNumber)
  /\ app_pc = "end_frame" =>
       /\ m > 0 /\ ~IsLoopFrame(input.options, CaptureFrames(input)[m - 1])
       /\ success <=> CaptureFrames(input)[m - 1].result.state = "kFrameBoundary"

(* In a loop, it has gone back to the queue d times.                          *)
Repeats(m, d) ==
  LET final == CaptureFrames(input)[LastFrame(input)]
  IN /\ looping /\ replay_from_queue /\ IsLoopFrame(input.options, final)
     /\ HoldsFrame(final, preload_queue, 0, Len(preload_queue))
     /\ loop_bookmark = SkipStateBlocks(input.capture, preload_queue)
     /\ d \in Nat /\ loop_iterations + d = input.options.loop_count
     /\ IF app_pc = "end_frame"
          THEN /\ m = LastFrame(input) + 1 + d
               /\ preload_at = loop_bookmark /\ dispatch_frame_number = final.result.next_frame
               /\ success <=> final.result.state # "kError"
          ELSE /\ m = LastFrame(input) + d
               /\ IF d = 0
                    THEN app_pc # "events" /\ preload_at = 1 /\ dispatch_frame_number = final.number
                    ELSE preload_at = loop_bookmark /\ dispatch_frame_number = final.result.next_frame
     /\ d > 0 => final.result.state # "kError"
     /\ d > 1 \/ (d > 0 /\ app_pc \in {"play", "end_frame"}) => ~BeyondLimits(input.options, final)

IsAt(m) == (\E c : Follows(m, c)) \/ (\E d : Repeats(m, d))

ScriptInv ==
  Outcome = "running" =>
    \E m \in 0 .. Len(Script(input)) : replayed = Played(input)[m] /\ IsAt(m)

(* What replay knows of the frame that is read next.                          *)
LEMMA NextIsRead ==
  ASSUME Types, NEW c \in 0 .. Len(input.capture.blocks), pos = PositionAt(input, c)
  PROVE  LET frame == CaptureFrames(input)[c]
         IN /\ IsReplay(input)
            /\ frame \in FrameTypes
            /\ PositionAt(input, c + 1) = Read.pos
            /\ frame.number = pos.frame_number
            /\ frame.result = ResultOf(Read) /\ IsTerminator(frame.result)
            /\ frame.result = ResultEntry(frame.result.state, frame.result.next_frame)
            /\ frame.result.next_frame = Read.pos.frame_number
            /\ frame.result.state = Read.state
            /\ frame.blocks = [i \in 1 .. Len(Read.out) |-> Read.out[i].block]
            /\ frame.result.state = "kFrameBoundary" =>
                 (FirstMarkerIsEarly(input.capture) => Read.pos.frame_number >= frame.number)
<1>1. IsReplay(input)
  BY ReplayAssumption DEF Types
<1>2. Read = ProcessBlocks(input.capture, input.block_limit, PositionAt(input, c))
  BY DEF Read
<1>3. /\ CaptureFrames(input)[c].result.state = Read.state
      /\ CaptureFrames(input)[c].result = ResultEntry(Read.state, Read.pos.frame_number)
      /\ CaptureFrames(input)[c].next = Read.pos
  BY <1>1, <1>2, NextFrame
<1>4. ResultOf(Read) = ResultEntry(Read.state, Read.pos.frame_number)
  BY DEF ResultOf
<1>5. CaptureFrames(input)[c].result.next_frame = CaptureFrames(input)[c].next.frame_number
  BY <1>1, NextFrame
<1>6. /\ CaptureFrames(input)[c] \in FrameTypes
      /\ PositionAt(input, c + 1) = CaptureFrames(input)[c].next
      /\ CaptureFrames(input)[c].number = PositionAt(input, c).frame_number
      /\ IsTerminator(CaptureFrames(input)[c].result)
  BY <1>1, NextFrame
<1>7. CaptureFrames(input)[c].blocks = [i \in 1 .. Len(Read.out) |-> Read.out[i].block]
  BY <1>1, <1>2, NextFrame
<1>8. CaptureFrames(input)[c].result.state = "kFrameBoundary" =>
        (FirstMarkerIsEarly(input.capture) =>
           CaptureFrames(input)[c].next.frame_number >= CaptureFrames(input)[c].number)
  BY <1>1, NextFrame
<1> QED BY <1>1, <1>3, <1>4, <1>5, <1>6, <1>7, <1>8

(* The frames up to the last lead on, and only they.                          *)
LEMMA BeforeTheLast ==
  ASSUME IsReplay(input), NEW m \in Nat, m <= LastFrame(input) + 1, m > 0,
         ~IsLast(input.options, CaptureFrames(input)[m - 1])
  PROVE  m <= LastFrame(input)
<1>1. LastFrame(input) \in Nat /\ IsLast(input.options, CaptureFrames(input)[LastFrame(input)])
  BY LastFrameIsThere, ReplayIsTyped
<1>2. m = LastFrame(input) + 1 => m - 1 = LastFrame(input)
  BY <1>1
<1>3. m # LastFrame(input) + 1
  BY <1>1, <1>2
<1> QED BY <1>1, <1>3

(* A frame that is the last of the replay is the one the script ends with.    *)
LEMMA BehindTheLast ==
  ASSUME IsReplay(input), NEW m \in Nat, m <= LastFrame(input) + 1, m > 0,
         IsLast(input.options, CaptureFrames(input)[m - 1])
  PROVE  m = LastFrame(input) + 1
<1>1. /\ LastFrame(input) \in Nat
      /\ \A j \in 0 .. LastFrame(input) - 1 : ~IsLast(input.options, CaptureFrames(input)[j])
  BY LastFrameIsThere, ReplayIsTyped
<1>2. m <= LastFrame(input) => m - 1 \in 0 .. LastFrame(input) - 1
  BY <1>1
<1>3. ~(m <= LastFrame(input))
  BY <1>1, <1>2
<1> QED BY <1>1, <1>3

(* What has to be shown of a step to a place before a loop,                   *)
LEMMA FollowsNext ==
  ASSUME UNCHANGED input, NEW n \in 0 .. Len(Script(input)), replayed' = Played(input)[n],
         NEW c, Follows(n, c)'
  PROVE  ScriptInv'
<1>1. IsAt(n)'
  BY DEF IsAt
<1> QED BY <1>1 DEF ScriptInv

(* and of one to a place in a loop.                                           *)
LEMMA RepeatsNext ==
  ASSUME UNCHANGED input, NEW n \in 0 .. Len(Script(input)), replayed' = Played(input)[n],
         NEW d, Repeats(n, d)'
  PROVE  ScriptInv'
<1>1. IsAt(n)'
  BY DEF IsAt
<1> QED BY <1>1 DEF ScriptInv

(* The frames are in the script.                                              *)
LEMMA FrameIsInScript ==
  ASSUME IsReplay(input), NEW m \in Nat, m <= LastFrame(input)
  PROVE  /\ m \in 0 .. Len(Script(input)) - 1 /\ m \in 0 .. Len(Script(input))
         /\ m + 1 \in 0 .. Len(Script(input))
         /\ m \in 0 .. Len(input.capture.blocks)
         /\ Script(input)[m + 1] = Told(CaptureFrames(input)[m].blocks, CaptureFrames(input)[m].number)
<1>1. /\ LastFrame(input) \in Nat
      /\ Repetitions(input.options, CaptureFrames(input)[LastFrame(input)]) \in Nat
      /\ Len(Script(input)) = LastFrame(input) + 1
           + Repetitions(input.options, CaptureFrames(input)[LastFrame(input)])
      /\ \A k \in 0 .. LastFrame(input) :
           Script(input)[k + 1] = Told(CaptureFrames(input)[k].blocks, CaptureFrames(input)[k].number)
  BY ScriptFacts
<1>2. LastFrame(input) \in 0 .. Len(input.capture.blocks) /\ Len(input.capture.blocks) \in Nat
  BY LastFrameIsThere, ReplayIsTyped
<1>3. m \in 0 .. LastFrame(input)
  BY <1>1
<1>4. \A x \in Nat : LastFrame(input) \in Nat /\ Len(Script(input)) = LastFrame(input) + 1 + x =>
        /\ m \in 0 .. Len(Script(input)) - 1 /\ m \in 0 .. Len(Script(input))
        /\ m + 1 \in 0 .. Len(Script(input))
  OBVIOUS
<1> QED BY <1>1, <1>2, <1>3, <1>4

(* Preloading shows nothing, or the frame whose number stutters.              *)
LEMMA PreloadFollows ==
  ASSUME IInv, Preload, FirstMarkerIsEarly(input.capture), Outcome = "running",
         NEW m, NEW c, Follows(m, c), replayed = Played(input)[m]
  PROVE  [Contract!Next]_Abstract /\ ScriptInv'
<1> DEFINE o == input.options
           result == ResultOf(Read)
           queue == preload_queue \o Append(Read.out, result)
           frame == CaptureFrames(input)[c]
           N == Len(input.capture.blocks)
           L == LastFrame(input)
           stutter == IsLeadingStutter(result)
           more == MorePreload(o, result)
<1>1. /\ Types /\ PreloadingInv /\ Preloading /\ app_pc \in {"preload_loop", "preload_range"}
      /\ dispatch_frame_number \in Nat /\ pos \in Positions /\ pos.block_index <= N
      /\ preload_queue \in Seq(Entries) /\ input \in Inputs /\ ~replay_from_queue
  BY DEF IInv, Types, Preload, Preloading, PreloadingInv
<1>2. IsReplay(input) /\ N \in Nat /\ L \in Nat /\ L \in 0 .. N
  <2>1. IsReplay(input)
    BY <1>1, ReplayAssumption
  <2> QED BY <2>1, ReplayIsTyped, LastFrameIsThere
<1>3. /\ ~looping /\ loop_iterations = o.loop_count
      /\ m \in Nat /\ c \in Nat /\ m <= c /\ c <= N + 1 /\ m <= L
      /\ dispatch_frame_number = PositionAt(input, m).frame_number
      /\ pos = PositionAt(input, c)
      /\ FollowsPreload(m, c) /\ LeadsOn(m)
  BY <1>1 DEF Follows
<1>4. /\ \A j \in 0 .. c - 1 : CaptureFrames(input)[j].result.state = "kFrameBoundary"
      /\ ~ShouldQuit(o, FrameNumber)
      /\ app_pc = "preload_loop" => AtLoopFrame(o, FrameNumber) /\ c = m
      /\ c > m => pos.frame_number > dispatch_frame_number
  BY <1>3 DEF FollowsPreload
<1>5. PICK s : HoldsFrames(input, preload_queue, m, c, s)
  BY <1>3 DEF FollowsPreload
<1>6. c \in 0 .. N
  <2>1. c \in 0 .. N + 1
    BY <1>2, <1>3
  <2>2. PositionAt(input, c).block_index >= c
    BY <1>2, <1>4, <2>1, FramesAdvance
  <2>3. pos.block_index \in Nat
    BY <1>1 DEF Positions
  <2> QED BY <1>1, <1>2, <1>3, <2>2, <2>3
<1>7. /\ frame \in FrameTypes
      /\ PositionAt(input, c + 1) = Read.pos
      /\ frame.number = pos.frame_number
      /\ frame.result = result /\ IsTerminator(frame.result)
      /\ result = ResultEntry(result.state, result.next_frame)
      /\ result.next_frame = Read.pos.frame_number /\ result.state = Read.state
      /\ frame.blocks = [i \in 1 .. Len(Read.out) |-> Read.out[i].block]
      /\ result.state = "kFrameBoundary" => result.next_frame >= frame.number
  BY <1>1, <1>3, <1>6, NextIsRead
<1>8. /\ Read.pos \in Positions /\ result.next_frame \in Nat /\ frame.number \in Nat
      /\ Read.out \in Seq(Entries) /\ result \in Entries
      /\ \A i \in 1 .. Len(Read.out) : ~IsResult(Read.out[i])
  <2>1. /\ Read.out \in Seq(Entries) /\ result \in Entries /\ Read.pos \in Positions
        /\ Read.pos.frame_number \in Nat
        /\ \A i \in DOMAIN Read.out : ~IsResult(Read.out[i])
    BY <1>1, ReadInState
  <2>2. DOMAIN Read.out = 1 .. Len(Read.out)
    BY <2>1
  <2> QED BY <1>1, <1>7, <2>1, <2>2 DEF Positions
<1>9. PICK t : HoldsFrames(input, queue, m, c + 1, t)
  <2>1. \A k \in m .. c - 1 : CaptureFrames(input)[k].blocks \in Seq(Nat)
    <3>1. \A k \in m .. c - 1 : k \in 0 .. N
      BY <1>2, <1>3
    <3>2. \A k \in 0 .. N : CaptureFrames(input)[k] \in FrameTypes
      BY <1>2, FramesAreRead DEF FramesOf
    <3> QED BY <3>1, <3>2 DEF FrameTypes
  <2> QED BY <1>1, <1>5, <1>7, <1>8, <2>1, HoldsOneMore
<1>10. queue \in Seq(Entries)
  BY <1>1, QueueGrows
<1>11. /\ pos' = Read.pos
       /\ UNCHANGED <<input, success, dispatch_frame_number, loop_iterations>>
       /\ IF stutter THEN ShowStutterFrame(queue) ELSE UNCHANGED replayed
       /\ IF more
            THEN /\ preload_queue' = IF stutter THEN <<>> ELSE queue
                 /\ UNCHANGED <<app_pc, preload_at, replay_from_queue, looping, loop_bookmark>>
            ELSE FinishPreload(input.capture, IF stutter THEN <<>> ELSE queue)
  BY DEF Preload, loop_vars
<1>12. stutter => more
  BY <1>1, StutterIsFollowed
<1>13. c > m => ~stutter
  BY <1>1, <1>7, <1>8 , <1>4 DEF IsLeadingStutter
<1>14. IsLoopFrame(o, frame) <=> AtLoopFrame(o, pos.frame_number + 1)
                                 /\ ~(result.state = "kFrameBoundary" /\ result.next_frame = pos.frame_number)
  <2>1. result = ResultEntry("kFrameBoundary", frame.number)
          <=> result.state = "kFrameBoundary" /\ result.next_frame = frame.number
    BY <1>7 DEF ResultEntry
  <2> QED BY <1>7, <2>1 DEF IsLoopFrame
<1> HIDE DEF queue, result, frame, stutter, more
<1>15. CASE stutter
  <2>1. more /\ c = m
    BY <1>3, <1>12, <1>13, <1>15
  <2>2. /\ preload_queue' = <<>> /\ ShowStutterFrame(queue)
        /\ UNCHANGED <<app_pc, preload_at, replay_from_queue, looping, loop_bookmark>>
    BY <1>11, <1>15, <2>1
  <2>3. result.state = "kFrameBoundary" /\ result.next_frame = dispatch_frame_number
    BY <1>15 DEF stutter, IsLeadingStutter
  <2>4. frame.number = dispatch_frame_number /\ pos.frame_number = dispatch_frame_number
    BY <1>3, <1>7, <2>1
  <2>5. replayed' = replayed \o Script(input)[m + 1]
    <3>1. Script(input)[m + 1] = Told(frame.blocks, dispatch_frame_number)
      BY <1>2, <1>3, <2>1, <2>4, FrameIsInScript DEF frame
    <3>2. HoldsFrame(frame, queue, 0, Len(queue))
      <4>1. /\ t[m] = 0 /\ t[c + 1] = Len(queue) /\ c \in m .. (c + 1) - 1
            /\ \A k \in m .. (c + 1) - 1 : HoldsFrame(CaptureFrames(input)[k], queue, t[k], t[k + 1])
        BY <1>3, <1>9, <2>1 DEF HoldsFrames
      <4> QED BY <2>1, <4>1 DEF frame
    <3>3. SubSeq(queue, 0 + 1, Len(queue)) = queue /\ Len(queue) \in Nat
      BY <1>10
    <3>4. Shown(SubSeq(queue, 1, EntriesOfFrame(queue)), dispatch_frame_number)
            = Told(frame.blocks, dispatch_frame_number)
      <4>1. frame.result = result /\ IsTerminator(frame.result)
        BY <1>7
      <4>2. PICK end \in Nat : end = Len(queue)
        BY <3>3
      <4>3. end <= Len(queue) /\ HoldsFrame(frame, queue, 0, end)
        BY <3>2, <4>2
      <4>4. Shown(SubSeq(SubSeq(queue, 0 + 1, Len(queue)), 1,
                         EntriesOfFrame(SubSeq(queue, 0 + 1, Len(queue)))), dispatch_frame_number)
              = Told(frame.blocks, dispatch_frame_number)
        BY <1>1, <1>7, <1>10, <4>1, <4>3, HeldFrameIsPlayed
      <4> QED BY <3>3, <4>4
    <3> QED BY <2>2, <3>1, <3>4 DEF ShowStutterFrame, Show
  <2>6. Outcome' = "running"
    BY <1>1, <2>2 DEF Outcome
  <2>7. /\ m + 1 \in 0 .. Len(Script(input)) /\ replayed' = Played(input)[m + 1]
        /\ [Contract!Next]_Abstract
    BY <1>2, <1>3, <1>11, <2>5, <2>6, FrameIsInScript, FrameIsContracted
  <2>8. ~IsLoopFrame(o, frame) /\ ~IsLast(o, frame)
    <3>1. ~IsLoopFrame(o, frame)
      BY <1>14, <2>3, <2>4
    <3>2. ~BeyondLimits(o, frame)
      BY <1>4, <1>7, <2>3 DEF BeyondLimits, FrameNumber
    <3> QED BY <1>7, <2>3, <3>1, <3>2 DEF IsLast
  <2>9. m + 1 <= L /\ m + 1 \in Nat /\ m + 1 > 0 /\ (m + 1) - 1 = m
    <3>1. m + 1 \in Nat /\ m + 1 > 0 /\ (m + 1) - 1 = m /\ m + 1 <= L + 1
      BY <1>2, <1>3
    <3> QED BY <1>2, <2>1, <2>8, <3>1, BeforeTheLast DEF frame
  <2>10. Follows(m + 1, m + 1)'
    <3>1. LeadsOn(m + 1)'
      BY <1>7, <1>11, <2>1, <2>3, <2>8, <2>9 DEF LeadsOn, frame
    <3>2. FollowsPreload(m + 1, m + 1)'
      <4>1. \A j \in 0 .. (m + 1) - 1 : CaptureFrames(input)[j].result.state = "kFrameBoundary"
        <5>1. \A j \in 0 .. (m + 1) - 1 : j \in 0 .. c - 1 \/ j = c
          BY <1>3, <2>1
        <5> QED BY <1>4, <1>7, <2>3, <5>1 DEF frame
      <4>2. \E u : HoldsFrames(input, <<>>, m + 1, m + 1, u)
        BY <2>9, HoldsNone
      <4>3. ~(m + 1 > m + 1)
        BY <1>3
      <4>4. FrameNumber' = FrameNumber
        BY <1>11 DEF FrameNumber
      <4> QED BY <1>4, <1>11, <2>2, <4>1, <4>2, <4>3, <4>4 DEF FollowsPreload
    <3>3. PositionAt(input, m + 1) = Read.pos /\ dispatch_frame_number = Read.pos.frame_number
      BY <1>7, <2>1, <2>3
    <3>4. m + 1 <= N + 1 /\ m + 1 <= L + 1 /\ m + 1 <= m + 1
      BY <1>2, <1>3, <2>9
    <3>5. Preloading' /\ app_pc' \notin {"limits", "play", "end_frame"}
      BY <1>1, <2>2 DEF Preloading
    <3> QED BY <1>3, <1>11, <2>2, <2>9, <3>1, <3>2, <3>3, <3>4, <3>5 DEF Follows
  <2> QED BY <1>11, <2>7, <2>10, FollowsNext
<1>16. CASE ~stutter
  <2>1. UNCHANGED replayed /\ m \in 0 .. Len(Script(input))
    BY <1>2, <1>3, <1>11, <1>16, FrameIsInScript
  <2>2. result.state = "kFrameBoundary" => result.next_frame > dispatch_frame_number
    <3>1. CASE c > m
      BY <1>1, <1>4, <1>7, <1>8, <3>1
    <3>2. CASE c = m
      <4>1. result.state = "kFrameBoundary" => result.next_frame # dispatch_frame_number
        BY <1>16 DEF stutter, IsLeadingStutter
      <4> QED BY <1>1, <1>3, <1>7, <1>8, <3>2, <4>1
    <3> QED BY <1>3, <3>1, <3>2
  <2>3. c + 1 \in Nat /\ m <= c + 1 /\ m < c + 1 /\ c + 1 <= N + 1 /\ m <= L + 1
    BY <1>2, <1>3, <1>6
  <2>4. CASE more
    <3>1. /\ preload_queue' = queue
          /\ UNCHANGED <<app_pc, preload_at, replay_from_queue, looping, loop_bookmark>>
      BY <1>11, <1>16, <2>4
    <3>2. app_pc = "preload_range"
      <4>1. app_pc # "preload_loop"
        <5>1. result.state = "kFrameBoundary" /\ result.next_frame < PreloadLimit(o)
          BY <2>4 DEF more, MorePreload
        <5>2. app_pc = "preload_loop" => PreloadLimit(o) = dispatch_frame_number + 1
          BY DEF PreloadLimit
        <5> QED BY <1>1, <1>8, <2>2, <5>1, <5>2
      <4> QED BY <1>1, <4>1
    <3>3. FollowsPreload(m, c + 1)'
      <4>1. \A j \in 0 .. (c + 1) - 1 : CaptureFrames(input)[j].result.state = "kFrameBoundary"
        <5>1. \A j \in 0 .. (c + 1) - 1 : j \in 0 .. c - 1 \/ j = c
          BY <1>3
        <5>2. result.state = "kFrameBoundary"
          BY <2>4 DEF more, MorePreload
        <5> QED BY <1>4, <1>7, <5>1, <5>2 DEF frame
      <4>2. Read.pos.frame_number > dispatch_frame_number
        BY <1>7, <2>2, <2>4 DEF more, MorePreload
      <4>3. FrameNumber' = FrameNumber
        BY <1>11 DEF FrameNumber
      <4> QED BY <1>4, <1>9, <1>11, <3>1, <3>2, <4>1, <4>2, <4>3 DEF FollowsPreload
    <3>4. LeadsOn(m)'
      BY <1>3, <1>11 DEF LeadsOn
    <3>5. Preloading' /\ app_pc' \notin {"limits", "play", "end_frame"}
      BY <1>1, <3>1 DEF Preloading
    <3>6. Follows(m, c + 1)'
      BY <1>3, <1>7, <1>11, <2>3, <3>1, <3>3, <3>4, <3>5 DEF Follows
    <3>7. UNCHANGED Abstract
      BY <1>11, <2>1, <3>1 DEF Abstract, Outcome
    <3> QED BY <1>11, <2>1, <3>6, <3>7, FollowsNext
  <2>5. CASE ~more
    <3>1. /\ preload_queue' = queue /\ replay_from_queue' = TRUE /\ preload_at' = 1
          /\ app_pc' \in {"limits", "play"}
          /\ IF app_pc = "preload_loop"
               THEN /\ looping' = TRUE
                    /\ loop_bookmark' = SkipStateBlocks(input.capture, queue)
                    /\ app_pc' = "limits"
               ELSE UNCHANGED <<looping, loop_bookmark>> /\ app_pc' = "play"
      <4>1. queue # <<>>
        BY <1>1, QueueGrows DEF EndsAt, queue, result
      <4>2. FinishPreload(input.capture, queue)
        BY <1>11, <1>16, <2>5
      <4> QED BY <4>1, <4>2 DEF FinishPreload, GoApp, loop_vars
    <3>2. UNCHANGED Abstract
      BY <1>1, <1>11, <2>1, <3>1 DEF Abstract, Outcome
    <3>3. ~Preloading' /\ app_pc' # "end_frame" /\ app_pc' # "events"
      BY <3>1 DEF Preloading
    <3>4. FrameNumber' = FrameNumber
      BY <1>11 DEF FrameNumber
    <3>5. CASE app_pc = "preload_range"
      <4>1. o.loop_frame = 0
        <5>1. o.preload
          BY <1>1, <3>5 DEF PreloadingInv
        <5> QED BY <1>2, <5>1, ReplayIsTyped
      <4>2. FollowsQueue(m, c + 1)'
        <5>1. t[m] = 0
          BY <1>9 DEF HoldsFrames
        <5>2. \E a, u : /\ a <= m /\ preload_at' = u[m] + 1
                        /\ HoldsFrames(input, queue, a, c + 1, u)
          <6>1. m <= m /\ preload_at' = t[m] + 1
            BY <1>3, <3>1, <5>1
          <6> QED BY <1>9, <6>1
        <5> QED BY <1>11, <2>3, <3>1, <4>1, <5>2 DEF FollowsQueue
      <4>3. LeadsOn(m)'
        BY <1>3, <1>11 DEF LeadsOn
      <4>4. ~AtLoopFrame(o, FrameNumber)
        BY <4>1 DEF AtLoopFrame
      <4>5. Follows(m, c + 1)'
        BY <1>3, <1>7, <1>11, <2>3, <3>1, <3>3, <3>4, <3>5, <4>2, <4>3, <4>4 DEF Follows
      <4> QED BY <1>11, <2>1, <3>2, <4>5, FollowsNext
    <3>6. CASE app_pc = "preload_loop"
      <4>1. c = m /\ AtLoopFrame(o, FrameNumber) /\ pos.frame_number = dispatch_frame_number
        BY <1>3, <1>4, <3>6
      <4>2. IsLoopFrame(o, frame)
        BY <1>14, <1>16, <4>1 DEF stutter, IsLeadingStutter, FrameNumber
      <4>3. m = L
        <5>1. m + 1 \in Nat /\ m + 1 <= L + 1 /\ m + 1 > 0 /\ (m + 1) - 1 = m
          BY <1>2, <1>3
        <5>2. IsLast(o, CaptureFrames(input)[(m + 1) - 1])
          BY <4>1, <4>2, <5>1 DEF IsLast, frame
        <5> QED BY <1>2, <1>3, <5>1, <5>2, BehindTheLast
      <4>4. HoldsFrame(frame, queue, 0, Len(queue))
        <5>1. /\ t[m] = 0 /\ t[c + 1] = Len(queue) /\ c \in m .. (c + 1) - 1
              /\ \A k \in m .. (c + 1) - 1 : HoldsFrame(CaptureFrames(input)[k], queue, t[k], t[k + 1])
          BY <1>3, <1>9, <4>1 DEF HoldsFrames
        <5> QED BY <4>1, <5>1 DEF frame
      <4>5. o.loop_count \in Nat /\ o.loop_count + 0 = o.loop_count /\ m + 0 = m /\ ~(0 > 0) /\ ~(0 > 1)
            /\ 0 \in Nat
        BY <1>2, <1>3, ReplayIsTyped
      <4>6. frame.number = dispatch_frame_number /\ frame = CaptureFrames(input)[LastFrame(input)]
        BY <1>7, <4>1, <4>3 DEF frame
      <4>7. Repeats(m, 0)'
        BY <1>3, <1>11, <3>1, <3>3, <3>6, <4>2, <4>3, <4>4, <4>5, <4>6 DEF Repeats
      <4> QED BY <1>11, <2>1, <3>2, <4>7, RepeatsNext
    <3> QED BY <1>1, <3>5, <3>6
  <2> QED BY <2>4, <2>5
<1> QED BY <1>15, <1>16

(* A frame that is read is the next one of the script.                        *)
LEMMA ReadFollows ==
  ASSUME IInv, ProcessNextFrame, Outcome = "running",
         NEW m, NEW c, Follows(m, c), replayed = Played(input)[m]
  PROVE  [Contract!Next]_Abstract /\ ScriptInv'
<1> DEFINE o == input.options
           result == ResultOf(Read)
           frame == CaptureFrames(input)[m]
           N == Len(input.capture.blocks)
           L == LastFrame(input)
<1>1. /\ Types /\ app_pc = "play" /\ ~replay_from_queue /\ ~Preloading
      /\ dispatch_frame_number \in Nat /\ input \in Inputs
  BY DEF IInv, Types, ProcessNextFrame, Preloading
<1>2. IsReplay(input) /\ N \in Nat /\ L \in Nat /\ L \in 0 .. N
  <2>1. IsReplay(input)
    BY <1>1, ReplayAssumption
  <2> QED BY <2>1, ReplayIsTyped, LastFrameIsThere
<1>3. /\ ~looping /\ loop_iterations = o.loop_count
      /\ m \in Nat /\ c = m /\ m <= L
      /\ dispatch_frame_number = PositionAt(input, m).frame_number
      /\ pos = PositionAt(input, m) /\ ~AtLoopFrame(o, FrameNumber)
  BY <1>1 DEF Follows
<1>4. m \in 0 .. N /\ m + 1 \in 0 .. Len(Script(input))
      /\ Script(input)[m + 1] = Told(frame.blocks, frame.number)
  BY <1>2, <1>3, FrameIsInScript
<1>5. /\ frame \in FrameTypes
      /\ PositionAt(input, m + 1) = Read.pos
      /\ frame.number = dispatch_frame_number
      /\ frame.result = result
      /\ result.next_frame = Read.pos.frame_number /\ result.state = Read.state
      /\ frame.blocks = [i \in 1 .. Len(Read.out) |-> Read.out[i].block]
  BY <1>1, <1>3, <1>4, NextIsRead
<1>6. /\ Read.out \in Seq(Entries) /\ Read.pos.frame_number \in Nat
      /\ \A i \in DOMAIN Read.out : ~IsResult(Read.out[i])
      /\ Read.state \in ProcessBlockStates \ {"kContinue"}
  BY <1>1, ReadInState
<1>7. /\ pos' = Read.pos /\ app_pc' = "end_frame" /\ preload_queue' = <<>>
      /\ success' = ContinueProcessing(Read.state) /\ Show(Read.out)
      /\ UNCHANGED <<input, preload_at, replay_from_queue, looping, loop_bookmark,
                     loop_iterations>>
      /\ dispatch_frame_number' = Read.pos.frame_number
  BY <1>5, <1>6 DEF ProcessNextFrame, GoApp, loop_vars, HandleReplayResult, NoFrame
<1>8. Shown(Read.out, dispatch_frame_number) = Told(frame.blocks, frame.number)
  <2>1. DOMAIN Read.out = 1 .. Len(Read.out) /\ Len(Read.out) \in Nat
    BY <1>6
  <2>2. Len(Read.out) \in 0 .. Len(Read.out) /\ Len(Read.out) + 1 .. Len(Read.out) = {}
    BY <2>1
  <2>3. Shown(Read.out, dispatch_frame_number)
          = [i \in 1 .. Len(Read.out) |-> [block |-> Read.out[i].block, frame |-> dispatch_frame_number]]
    <3>1. PICK out \in Seq(Entries), number \in Nat : out = Read.out /\ number = dispatch_frame_number
      BY <1>1, <1>6
    <3>2. PICK b \in 0 .. Len(out) : b = Len(out)
      BY <2>2, <3>1
    <3>3. /\ \A i \in 1 .. b : ~IsResult(out[i])
          /\ \A i \in b + 1 .. Len(out) : IsResult(out[i])
      BY <1>6, <2>1, <2>2, <3>1, <3>2
    <3>4. Shown(out, number) = [i \in 1 .. b |-> [block |-> out[i].block, frame |-> number]]
      BY <3>3, BlocksAreShown
    <3> QED BY <3>1, <3>2, <3>4
  <2>4. DOMAIN frame.blocks = 1 .. Len(Read.out)
    BY <1>5
  <2>5. Told(frame.blocks, frame.number)
          = [i \in 1 .. Len(Read.out) |-> [block |-> frame.blocks[i], frame |-> frame.number]]
    BY <2>4 DEF Told
  <2>6. \A i \in 1 .. Len(Read.out) : frame.blocks[i] = Read.out[i].block
    BY <1>5
  <2> HIDE DEF frame
  <2> QED BY <1>5, <2>3, <2>5, <2>6
<1> HIDE DEF frame, result
<1>9. replayed' = replayed \o Script(input)[m + 1]
  BY <1>4, <1>7, <1>8 DEF Show
<1>10. replayed' = Played(input)[m + 1] /\ [Contract!Next]_Abstract
  <2>1. Outcome' = "running" /\ m \in 0 .. Len(Script(input)) - 1
    BY <1>2, <1>3, <1>7, FrameIsInScript DEF Outcome
  <2> QED BY <1>2, <1>7, <1>9, <2>1, FrameIsContracted
<1>11. m + 1 \in Nat /\ m + 1 <= N + 1 /\ m + 1 <= L + 1 /\ m + 1 > 0 /\ (m + 1) - 1 = m
       /\ m + 1 <= m + 1
  BY <1>2, <1>3
<1>12. ~IsLoopFrame(o, frame)
  BY <1>3, <1>5 DEF IsLoopFrame, FrameNumber
<1>13. success' <=> frame.result.state = "kFrameBoundary"
  BY <1>5, <1>6, <1>7 DEF ContinueProcessing
<1>14. ~Preloading'
  BY <1>7 DEF Preloading
<1>15. Follows(m + 1, m + 1)'
  BY <1>1, <1>3, <1>5, <1>7, <1>11, <1>12, <1>13, <1>14 DEF Follows, frame
<1> QED BY <1>4, <1>7, <1>10, <1>15, FollowsNext

(* A frame that is taken from the queue is the next one of the script.        *)
LEMMA QueueFollows ==
  ASSUME IInv, PlayFromQueue, UNCHANGED <<input, pos>>, Outcome = "running",
         NEW m, NEW c, Follows(m, c), replayed = Played(input)[m]
  PROVE  [Contract!Next]_Abstract /\ ScriptInv'
<1> DEFINE o == input.options
           frame == CaptureFrames(input)[m]
           rest == SubSeq(preload_queue, preload_at, Len(preload_queue))
           n == EntriesOfFrame(rest)
           N == Len(input.capture.blocks)
           L == LastFrame(input)
<1>1. /\ Types /\ app_pc = "play" /\ replay_from_queue /\ ~Preloading
      /\ dispatch_frame_number \in Nat /\ input \in Inputs
      /\ preload_queue \in Seq(Entries) /\ Len(preload_queue) \in Nat
  BY DEF IInv, Types, PlayFromQueue, Preloading
<1>2. IsReplay(input) /\ N \in Nat /\ L \in Nat /\ L \in 0 .. N
  <2>1. IsReplay(input)
    BY <1>1, ReplayAssumption
  <2> QED BY <2>1, ReplayIsTyped, LastFrameIsThere
<1>3. /\ ~looping /\ loop_iterations = o.loop_count
      /\ m \in Nat /\ c \in Nat /\ m < c /\ c <= N + 1 /\ m <= L
      /\ dispatch_frame_number = PositionAt(input, m).frame_number
      /\ pos = PositionAt(input, c) /\ o.loop_frame = 0
  BY <1>1 DEF Follows, FollowsQueue
<1>4. PICK a, s : /\ a <= m /\ preload_at = s[m] + 1
                  /\ HoldsFrames(input, preload_queue, a, c, s)
  BY <1>1 DEF Follows, FollowsQueue
<1>5. /\ a \in Nat /\ s \in [a .. c -> Nat] /\ s[c] = Len(preload_queue)
      /\ \A j, k \in a .. c : j < k => s[j] < s[k]
      /\ \A k \in a .. c - 1 : HoldsFrame(CaptureFrames(input)[k], preload_queue, s[k], s[k + 1])
  BY <1>4 DEF HoldsFrames
<1>6. /\ m \in a .. c /\ m + 1 \in a .. c /\ c \in a .. c /\ m \in a .. c - 1
      /\ (m + 1 = c \/ m + 1 < c) /\ m < m + 1
  BY <1>3, <1>4, <1>5
<1>7. /\ s[m] \in Nat /\ s[m + 1] \in Nat /\ s[m] < s[m + 1] /\ s[m + 1] <= Len(preload_queue)
      /\ m + 1 < c <=> s[m + 1] < Len(preload_queue)
  <2>1. s[m] \in Nat /\ s[m + 1] \in Nat /\ s[m] < s[m + 1]
    BY <1>5, <1>6
  <2>2. m + 1 < c => s[m + 1] < s[c]
    BY <1>5, <1>6
  <2> QED BY <1>1, <1>5, <1>6, <2>1, <2>2
<1>8. m \in 0 .. N /\ m + 1 \in 0 .. Len(Script(input))
      /\ Script(input)[m + 1] = Told(frame.blocks, frame.number)
  BY <1>2, <1>3, FrameIsInScript
<1>9. /\ frame \in FrameTypes /\ IsTerminator(frame.result)
      /\ PositionAt(input, m + 1).frame_number = frame.result.next_frame
      /\ frame.result.next_frame \in Nat
      /\ frame.number = dispatch_frame_number
  <2>1. /\ frame \in FrameTypes /\ IsTerminator(frame.result)
        /\ PositionAt(input, m + 1) = frame.next
        /\ frame.result.next_frame = frame.next.frame_number
        /\ frame.number = PositionAt(input, m).frame_number
    BY <1>2, <1>8, NextFrame
  <2>2. frame.next.frame_number \in Nat
    BY <2>1 DEF FrameTypes, Positions
  <2> QED BY <1>3, <2>1, <2>2
<1>10. /\ HasTerminator(rest) /\ n = s[m + 1] - s[m] /\ rest[n] = frame.result
       /\ Shown(SubSeq(rest, 1, n), dispatch_frame_number) = Told(frame.blocks, dispatch_frame_number)
  <2>1. HoldsFrame(frame, preload_queue, s[m], s[m + 1])
    BY <1>5, <1>6
  <2>2. PICK at \in Nat, end \in Nat, number \in Nat :
          at = s[m] /\ end = s[m + 1] /\ number = dispatch_frame_number
    BY <1>1, <1>7
  <2>3. end <= Len(preload_queue) /\ HoldsFrame(frame, preload_queue, at, end)
    BY <1>7, <2>1, <2>2
  <2>4. rest = SubSeq(preload_queue, at + 1, Len(preload_queue))
    BY <1>4, <2>2
  <2> HIDE DEF frame, rest
  <2> DEFINE taken == SubSeq(preload_queue, at + 1, Len(preload_queue))
  <2>5. HasTerminator(taken) /\ EntriesOfFrame(taken) = end - at
    BY <1>1, <1>9, <2>3, HeldFrameIsPlayed
  <2>6. taken[EntriesOfFrame(taken)] = frame.result
    BY <1>1, <1>9, <2>3, HeldFrameIsPlayed
  <2>7. Shown(SubSeq(taken, 1, EntriesOfFrame(taken)), number) = Told(frame.blocks, number)
    BY <1>1, <1>9, <2>3, HeldFrameIsPlayed
  <2> QED BY <2>2, <2>4, <2>5, <2>6, <2>7
<1> HIDE DEF frame
<1>11. /\ app_pc' = "end_frame"
       /\ UNCHANGED <<preload_queue, looping, loop_bookmark, loop_iterations>>
       /\ dispatch_frame_number' = frame.result.next_frame
       /\ preload_at' = s[m + 1] + 1
       /\ success' = ContinueProcessing(frame.result.state)
       /\ replay_from_queue' = (m + 1 < c)
       /\ Show(SubSeq(rest, 1, n))
  <2> HIDE DEF rest, n
  <2>1. /\ app_pc' = "end_frame"
        /\ UNCHANGED <<preload_queue, looping, loop_bookmark, loop_iterations>>
        /\ dispatch_frame_number' = frame.result.next_frame
        /\ preload_at' = preload_at + n
        /\ success' = ContinueProcessing(frame.result.state)
        /\ replay_from_queue' = (preload_at + n <= Len(preload_queue))
        /\ Show(SubSeq(rest, 1, n))
    BY <1>3, <1>9, <1>10 DEF PlayFromQueue, HandleReplayResult, GoApp, loop_vars, NoFrame, rest, n
  <2>2. preload_at + n = s[m + 1] + 1
    BY <1>4, <1>7, <1>10
  <2>3. preload_at + n <= Len(preload_queue) <=> s[m + 1] < Len(preload_queue)
    BY <1>1, <1>7, <2>2
  <2> QED BY <1>7, <2>1, <2>2, <2>3
<1>12. replayed' = replayed \o Script(input)[m + 1]
  BY <1>8, <1>9, <1>10, <1>11 DEF Show
<1>13. replayed' = Played(input)[m + 1] /\ [Contract!Next]_Abstract
  <2>1. Outcome' = "running" /\ m \in 0 .. Len(Script(input)) - 1
    BY <1>2, <1>3, <1>11, FrameIsInScript DEF Outcome
  <2> QED BY <1>2, <1>12, <2>1, FrameIsContracted
<1>14. m + 1 \in Nat /\ m + 1 <= c /\ m + 1 <= L + 1 /\ m + 1 > 0 /\ (m + 1) - 1 = m /\ a <= m + 1
  BY <1>2, <1>3, <1>4, <1>5
<1>15. ~IsLoopFrame(o, frame)
  BY <1>3 DEF IsLoopFrame, AtLoopFrame
<1>16. success' <=> frame.result.state = "kFrameBoundary"
  <2>1. frame.result.state # "kContinue"
    BY <1>9 DEF IsTerminator
  <2> QED BY <1>11, <2>1 DEF ContinueProcessing
<1>17. ~Preloading'
  BY <1>11 DEF Preloading
<1>18. IF replay_from_queue' THEN FollowsQueue(m + 1, c)' ELSE c = m + 1
  <2>1. ~replay_from_queue' => c = m + 1
    BY <1>6, <1>11
  <2>2. replay_from_queue' => FollowsQueue(m + 1, c)'
    <3>1. replay_from_queue' => m + 1 < c
      BY <1>11
    <3>2. HoldsFrames(input', preload_queue', a, c, s)
      BY <1>4, <1>11
    <3>3. \E b, u : /\ b <= m + 1 /\ preload_at' = u[m + 1] + 1
                    /\ HoldsFrames(input', preload_queue', b, c, u)
      BY <1>11, <1>14, <3>2
    <3> QED BY <1>3, <3>1, <3>3 DEF FollowsQueue
  <2> QED BY <2>1, <2>2
<1>19. Follows(m + 1, c)'
  BY <1>1, <1>3, <1>9, <1>11, <1>14, <1>15, <1>16, <1>17, <1>18 DEF Follows, frame
<1> QED BY <1>8, <1>13, <1>19, FollowsNext

(* How long the script is: a last frame that is no loop frame, or does not    *)
(* lead on, is played once.                                                   *)
LEMMA ScriptLength ==
  ASSUME IsReplay(input)
  PROVE  LET o == input.options
             final == CaptureFrames(input)[LastFrame(input)]
         IN /\ LastFrame(input) \in Nat /\ Len(Script(input)) \in Nat
            /\ ~IsLoopFrame(o, final) \/ BeyondLimits(o, final) \/ final.result.state = "kError"
                 => Len(Script(input)) = LastFrame(input) + 1
            /\ IsLoopFrame(o, final) /\ ~BeyondLimits(o, final) /\ final.result.state # "kError"
                 => Len(Script(input)) = LastFrame(input) + o.loop_count
            /\ Len(Script(input)) >= LastFrame(input) + 1
<1> DEFINE o == input.options
           final == CaptureFrames(input)[LastFrame(input)]
           more == Repetitions(o, final)
<1>1. /\ LastFrame(input) \in Nat /\ more \in Nat
      /\ Len(Script(input)) = LastFrame(input) + 1 + more
  BY ScriptFacts
<1>2. o.loop_count \in Nat \ {0}
  BY ReplayIsTyped
<1>3. IF IsLoopFrame(o, final) /\ ~BeyondLimits(o, final) /\ final.result.state # "kError"
        THEN more = o.loop_count - 1 ELSE more = 0
  BY DEF Repetitions
<1> HIDE DEF more, final, o
<1> QED BY <1>1, <1>2, <1>3 DEF final, o

(* The number of the first frame is within all limits.                        *)
LEMMA FirstIsWithinLimits ==
  ASSUME IsReplay(input)
  PROVE  PositionAt(input, 0).frame_number = 0 /\ ~ShouldQuit(input.options, 1)
<1>1. /\ input.options.range_end \in Nat \ {0, 1} /\ input.options.quit_after_frame \in Nat
  BY ReplayIsTyped
<1>2. ~ShouldQuit(input.options, 1)
  BY <1>1 DEF ShouldQuit
<1> QED BY <1>2 DEF PositionAt, StartOf

(* The limits look at the number of the frame behind the one just shown.      *)
LEMMA FrameBefore ==
  ASSUME IsReplay(input), NEW m \in Nat, m > 0, m <= LastFrame(input) + 1,
         dispatch_frame_number = PositionAt(input, m).frame_number
  PROVE  /\ BeyondLimits(input.options, CaptureFrames(input)[m - 1])
              <=> ShouldQuit(input.options, FrameNumber)
         /\ m - 1 \in 0 .. Len(input.capture.blocks)
<1>1. LastFrame(input) \in 0 .. Len(input.capture.blocks) /\ Len(input.capture.blocks) \in Nat
  BY LastFrameIsThere, ReplayIsTyped
<1>2. PICK k \in 0 .. Len(input.capture.blocks) : k = m - 1 /\ k + 1 = m
  <2>1. m - 1 \in 0 .. Len(input.capture.blocks) /\ (m - 1) + 1 = m
    BY <1>1
  <2> QED BY <2>1
<1>3. CaptureFrames(input)[k].result.next_frame = PositionAt(input, k + 1).frame_number
  <2>1. CaptureFrames(input)[k].result.next_frame = CaptureFrames(input)[k].next.frame_number
    BY NextFrame
  <2>2. PositionAt(input, k + 1) = CaptureFrames(input)[k].next
    BY NextFrame
  <2> QED BY <2>1, <2>2
<1> QED BY <1>2, <1>3 DEF BeyondLimits, FrameNumber

(* Within the limits, there is a next frame; beyond them, none.               *)
LEMMA WithinLimits ==
  ASSUME IsReplay(input), NEW m \in Nat, m <= LastFrame(input) + 1, LeadsOn(m),
         dispatch_frame_number = PositionAt(input, m).frame_number,
         ~ShouldQuit(input.options, FrameNumber)
  PROVE  /\ m <= LastFrame(input)
         /\ \A j \in 0 .. m - 1 : CaptureFrames(input)[j].result.state = "kFrameBoundary"
<1>1. LastFrame(input) \in Nat
  BY ScriptLength
<1>2. m <= LastFrame(input)
  <2>1. CASE m = 0
    BY <1>1, <2>1
  <2>2. CASE m > 0
    BY <2>2, BeforeTheLast, FrameBefore DEF LeadsOn, IsLast
  <2> QED BY <2>1, <2>2
<1>3. \A j \in 0 .. m - 1 : ~IsLast(input.options, CaptureFrames(input)[j])
  <2>1. \A j \in 0 .. m - 1 : j \in 0 .. LastFrame(input) - 1
    BY <1>1, <1>2
  <2> QED BY <2>1, LastFrameIsThere
<1> QED BY <1>2, <1>3 DEF IsLast

(* Where the limits stop replay, its script is at its end.                    *)
LEMMA LimitsEnd ==
  ASSUME IsReplay(input), NEW m \in Nat, m <= LastFrame(input) + 1, LeadsOn(m),
         dispatch_frame_number = PositionAt(input, m).frame_number,
         ShouldQuit(input.options, FrameNumber)
  PROVE  m = Len(Script(input))
<1>1. m > 0
  <2>1. m # 0
    BY FirstIsWithinLimits DEF FrameNumber
  <2> QED BY <2>1
<1>2. m = LastFrame(input) + 1
  BY <1>1, BehindTheLast, FrameBefore DEF IsLast
<1>3. ~IsLoopFrame(input.options, CaptureFrames(input)[LastFrame(input)])
  <2>1. m - 1 = LastFrame(input)
    BY <1>2, ScriptLength
  <2> QED BY <1>1, <2>1 DEF LeadsOn
<1> QED BY <1>2, <1>3, ScriptLength

(* The loop frame is the next one each time it is repeated.                   *)
LEMMA QueueRepeats ==
  ASSUME IInv, PlayFromQueue, UNCHANGED <<input, pos>>, Outcome = "running",
         NEW m, NEW d, Repeats(m, d), replayed = Played(input)[m]
  PROVE  [Contract!Next]_Abstract /\ ScriptInv'
<1> DEFINE o == input.options
           final == CaptureFrames(input)[LastFrame(input)]
           rest == SubSeq(preload_queue, preload_at, Len(preload_queue))
           n == EntriesOfFrame(rest)
           L == LastFrame(input)
<1>1. /\ Types /\ app_pc = "play" /\ replay_from_queue
      /\ dispatch_frame_number \in Nat /\ input \in Inputs
      /\ preload_queue \in Seq(Entries) /\ Len(preload_queue) \in Nat
      /\ loop_iterations > 0 /\ loop_iterations \in Nat
  BY DEF IInv, Types, PlayFromQueue, LoopInv
<1>2. /\ looping /\ IsLoopFrame(o, final)
      /\ HoldsFrame(final, preload_queue, 0, Len(preload_queue))
      /\ loop_bookmark = SkipStateBlocks(input.capture, preload_queue)
      /\ d \in Nat /\ loop_iterations + d = o.loop_count
      /\ m = L + d
      /\ IF d = 0
           THEN preload_at = 1 /\ dispatch_frame_number = final.number
           ELSE preload_at = loop_bookmark /\ dispatch_frame_number = final.result.next_frame
      /\ d > 0 => final.result.state # "kError" /\ ~BeyondLimits(o, final)
  BY <1>1 DEF Repeats
<1>3. IsReplay(input) /\ L \in Nat /\ L \in 0 .. Len(input.capture.blocks)
      /\ o.loop_count \in Nat
  <2>1. IsReplay(input)
    BY <1>1, ReplayAssumption
  <2> QED BY <2>1, LastFrameIsThere, ReplayIsTyped
<1>4. /\ final \in FrameTypes /\ IsTerminator(final.result)
      /\ final.result.next_frame \in Nat /\ final.blocks \in Seq(Nat)
  <2>1. /\ final \in FrameTypes /\ IsTerminator(final.result)
        /\ final.result.next_frame = final.next.frame_number
    BY <1>3, NextFrame
  <2> QED BY <2>1 DEF FrameTypes, Positions
<1>5. m \in 0 .. Len(Script(input)) - 1 /\ m \in Nat
      /\ (d > 0 => m \in L + 1 .. Len(Script(input)) - 1)
  <2>1. CASE d = 0
    BY <1>2, <1>3, <2>1, ScriptLength
  <2>2. CASE d > 0
    <3>1. Len(Script(input)) = L + o.loop_count
      BY <1>2, <1>3, <2>2, ScriptLength
    <3> HIDE DEF L
    <3> QED BY <1>1, <1>2, <1>3, <2>2, <3>1
  <2> QED BY <1>2, <2>1, <2>2
<1>6. /\ HasTerminator(rest) /\ rest[n] = final.result
      /\ Shown(SubSeq(rest, 1, n), dispatch_frame_number) = Script(input)[m + 1]
  <2>1. CASE d = 0
    <3>1. PICK end \in Nat, number \in Nat : end = Len(preload_queue) /\ number = dispatch_frame_number
      BY <1>1
    <3>2. end <= Len(preload_queue) /\ HoldsFrame(final, preload_queue, 0, end)
      BY <1>2, <3>1
    <3>3. Script(input)[m + 1] = Told(final.blocks, final.number)
      <4>1. m = L /\ L <= L
        BY <1>2, <1>3, <2>1
      <4> QED BY <1>3, <4>1, FrameIsInScript
    <3> DEFINE taken == SubSeq(preload_queue, 0 + 1, Len(preload_queue))
    <3>4. preload_at = 0 + 1 /\ dispatch_frame_number = final.number
      BY <1>2, <2>1
    <3> HIDE DEF final
    <3>5. HasTerminator(taken) /\ taken[EntriesOfFrame(taken)] = final.result
      BY <1>1, <1>4, <3>2, HeldFrameIsPlayed
    <3>6. Shown(SubSeq(taken, 1, EntriesOfFrame(taken)), number) = Told(final.blocks, number)
      BY <1>1, <1>4, <3>2, HeldFrameIsPlayed
    <3> QED BY <3>1, <3>3, <3>4, <3>5, <3>6
  <2>2. CASE d > 0
    <3>1. Script(input)[m + 1]
            = Told(WithoutStateBlocks(input.capture, final.blocks), final.result.next_frame)
      BY <1>3, <1>5, <2>2, ScriptFacts
    <3>2. /\ preload_at = SkipStateBlocks(input.capture, preload_queue)
          /\ dispatch_frame_number = final.result.next_frame
      BY <1>2, <2>2
    <3> HIDE DEF final
    <3>3. Len(preload_queue) = Len(final.blocks) + 1 /\ preload_queue[Len(preload_queue)] = final.result
          /\ \A i \in 1 .. Len(final.blocks) :
               ~IsResult(preload_queue[i]) /\ preload_queue[i].block = final.blocks[i]
      <4>1. \A i \in Nat : 0 + i = i
        OBVIOUS
      <4>2. Len(final.blocks) \in Nat /\ \A i \in 1 .. Len(final.blocks) : i \in Nat
        BY <1>4
      <4>3. 0 + Len(final.blocks) + 1 = Len(final.blocks) + 1
        BY <4>2
      <4> QED BY <1>2, <4>1, <4>2, <4>3 DEF HoldsFrame
    <3>4. PICK blocks \in Seq(Nat), number \in Nat :
            blocks = final.blocks /\ number = dispatch_frame_number
      BY <1>1, <1>4
    <3> DEFINE taken == SubSeq(preload_queue, SkipStateBlocks(input.capture, preload_queue),
                               Len(preload_queue))
    <3>5. /\ Len(preload_queue) = Len(blocks) + 1 /\ IsTerminator(preload_queue[Len(preload_queue)])
          /\ \A i \in 1 .. Len(blocks) :
               ~IsResult(preload_queue[i]) /\ preload_queue[i].block = blocks[i]
      BY <1>4, <3>3, <3>4
    <3>6. HasTerminator(taken) /\ taken[EntriesOfFrame(taken)] = preload_queue[Len(preload_queue)]
      BY <1>1, <3>5, RepetitionIsPlayed
    <3>7. Shown(SubSeq(taken, 1, EntriesOfFrame(taken)), number)
            = Told(WithoutStateBlocks(input.capture, blocks), number)
      BY <1>1, <3>5, RepetitionIsPlayed
    <3>8. rest = taken
      BY <3>2
    <3> HIDE DEF rest, taken
    <3>9. Shown(SubSeq(rest, 1, n), dispatch_frame_number) = Script(input)[m + 1]
      BY <3>1, <3>2, <3>4, <3>7, <3>8
    <3>10. HasTerminator(rest)
      BY <3>6, <3>8
    <3>11. rest[n] = final.result
      BY <3>3, <3>6, <3>8
    <3> QED BY <3>9, <3>10, <3>11
  <2>3. d = 0 \/ d > 0
    BY <1>2
  <2> QED BY <2>1, <2>2, <2>3, Zenon
<1> HIDE DEF rest, n, final
<1>7. /\ app_pc' = "end_frame"
      /\ UNCHANGED <<preload_queue, looping, loop_bookmark, loop_iterations, replay_from_queue>>
      /\ dispatch_frame_number' = final.result.next_frame
      /\ preload_at' = loop_bookmark /\ success' = (final.result.state # "kError")
      /\ replayed' = replayed \o Script(input)[m + 1]
  <2>1. /\ Show(SubSeq(rest, 1, n)) /\ HandleReplayResult(rest[n])
        /\ preload_at' = loop_bookmark /\ success' = (rest[n].state # "kError")
        /\ UNCHANGED <<preload_queue, looping, loop_bookmark, loop_iterations, replay_from_queue>>
        /\ app_pc' = "end_frame"
    <3> USE DEF rest, n
    <3> QED BY <1>2, <1>6 DEF PlayFromQueue, GoApp, loop_vars
  <2>2. final.result.next_frame # NoFrame
    BY <1>4 DEF NoFrame
  <2> QED BY <1>6, <2>1, <2>2 DEF HandleReplayResult, Show
<1>8. /\ m + 1 \in 0 .. Len(Script(input)) /\ replayed' = Played(input)[m + 1]
      /\ [Contract!Next]_Abstract
  <2>1. Outcome' = "running"
    BY <1>7 DEF Outcome
  <2> QED BY <1>3, <1>5, <1>7, <2>1, FrameIsContracted
<1>9. m + 1 = L + 1 + d
  BY <1>2, <1>3
<1>10. Repeats(m + 1, d)'
  BY <1>1, <1>2, <1>7, <1>9 DEF Repeats, final
<1> QED BY <1>8, <1>10, RepeatsNext

(* Steps that show nothing and end nothing.                                   *)
LEMMA StutterIsContracted ==
  ASSUME UNCHANGED <<input, replayed>>, Outcome = "running", Outcome' = "running"
  PROVE  [Contract!Next]_Abstract
BY DEF Abstract

(* Between frames nothing is shown: before a loop,                            *)
LEMMA EventsFollow ==
  ASSUME IInv, IInv', NoEvent(input.options), UNCHANGED <<input, pos>>, Outcome = "running",
         NEW m, NEW c, Follows(m, c), m \in 0 .. Len(Script(input)), replayed = Played(input)[m]
  PROVE  [Contract!Next]_Abstract /\ ScriptInv'
<1> DEFINE o == input.options
<1>1. /\ app_pc = "events" /\ input \in Inputs /\ ~Preloading /\ IsReplay(input)
      /\ app_pc' \in {"preload_loop", "limits"}
      /\ UNCHANGED <<success, dispatch_frame_number, preload_at, replay_from_queue, looping,
                     loop_bookmark, loop_iterations, replayed>>
  <2>1. input \in Inputs
    BY DEF IInv, Types
  <2>2. IsReplay(input)
    BY <2>1, ReplayAssumption
  <2> QED BY <2>1, <2>2 DEF NoEvent, StartPreload, GoApp, preload_vars, loop_vars, Preloading
<1>2. /\ ~looping /\ loop_iterations = o.loop_count
      /\ m \in Nat /\ c \in Nat /\ m <= c
      /\ c <= Len(input.capture.blocks) + 1 /\ m <= LastFrame(input) + 1
      /\ dispatch_frame_number = PositionAt(input, m).frame_number
      /\ pos = PositionAt(input, c) /\ LeadsOn(m)
      /\ IF replay_from_queue THEN FollowsQueue(m, c) ELSE c = m
  BY <1>1 DEF Follows
<1>3. [Contract!Next]_Abstract
  BY <1>1, StutterIsContracted DEF Outcome
<1>4. LeadsOn(m)' /\ FrameNumber' = FrameNumber
  BY <1>1, <1>2 DEF LeadsOn, FrameNumber
<1>5. CASE AtLoopFrame(o, FrameNumber)
  <2>1. app_pc' = "preload_loop" /\ preload_queue' = <<>> /\ Preloading'
    BY <1>2, <1>5 DEF NoEvent, StartPreload, GoApp, Preloading
  <2>2. ~replay_from_queue /\ c = m
    BY <1>1, <1>2, <2>1 DEF IInv, PreloadingInv
  <2>3. ~ShouldQuit(o, FrameNumber)
    BY <1>1, <1>5, ReplayIsTyped DEF AtLoopFrame
  <2>4. /\ m <= LastFrame(input)
        /\ \A j \in 0 .. m - 1 : CaptureFrames(input)[j].result.state = "kFrameBoundary"
    BY <1>1, <1>2, <2>3, WithinLimits
  <2>5. FollowsPreload(m, m)'
    <3>1. \E s : HoldsFrames(input, <<>>, m, m, s)
      BY <1>2, HoldsNone
    <3>2. ~(m > m)
      BY <1>2
    <3> QED BY <1>1, <1>4, <1>5, <2>1, <2>3, <2>4, <3>1, <3>2 DEF FollowsPreload
  <2>6. Follows(m, m)'
    BY <1>1, <1>2, <1>4, <2>1, <2>2, <2>4, <2>5 DEF Follows
  <2> QED BY <1>1, <1>3, <2>6, FollowsNext
<1>6. CASE ~AtLoopFrame(o, FrameNumber)
  <2>1. app_pc' = "limits" /\ UNCHANGED preload_queue /\ ~Preloading'
    BY <1>6 DEF NoEvent, GoApp, Preloading, preload_vars
  <2>2. FollowsQueue(m, c) => FollowsQueue(m, c)'
    BY <1>1, <2>1 DEF FollowsQueue
  <2>3. Follows(m, c)'
    BY <1>1, <1>2, <1>4, <1>6, <2>1, <2>2 DEF Follows
  <2> QED BY <1>1, <1>3, <2>3, FollowsNext
<1> QED BY <1>5, <1>6

(* and in a loop.                                                             *)
LEMMA EventsRepeat ==
  ASSUME IInv, NoEvent(input.options), UNCHANGED <<input, pos>>, Outcome = "running",
         NEW m, NEW d, Repeats(m, d), m \in 0 .. Len(Script(input)), replayed = Played(input)[m]
  PROVE  [Contract!Next]_Abstract /\ ScriptInv'
<1>1. looping
  BY DEF Repeats
<1>2. /\ app_pc = "events" /\ app_pc' = "limits"
      /\ UNCHANGED <<success, dispatch_frame_number, preload_queue, preload_at, replay_from_queue,
                     looping, loop_bookmark, loop_iterations, replayed>>
  BY <1>1 DEF NoEvent, GoApp, preload_vars, loop_vars
<1>3. Repeats(m, d)'
  BY <1>2 DEF Repeats
<1>4. [Contract!Next]_Abstract
  BY <1>2, StutterIsContracted DEF Outcome
<1> QED BY <1>2, <1>3, <1>4, RepeatsNext

(* Replay goes on within the limits, and ends by them where its script does.  *)
LEMMA LimitsFollow ==
  ASSUME IInv, IInv', CheckLimits(input.options), UNCHANGED <<input, pos>>, Outcome = "running",
         NEW m, NEW c, Follows(m, c), m \in 0 .. Len(Script(input)), replayed = Played(input)[m]
  PROVE  [Contract!Next]_Abstract /\ ScriptInv'
<1> DEFINE o == input.options
<1>1. /\ app_pc = "limits" /\ input \in Inputs /\ ~Preloading /\ IsReplay(input)
      /\ app_pc' \in {"preload_range", "ended", "play"}
      /\ UNCHANGED <<success, dispatch_frame_number, preload_at, replay_from_queue, looping,
                     loop_bookmark, loop_iterations, replayed>>
  <2>1. input \in Inputs
    BY DEF IInv, Types
  <2>2. IsReplay(input)
    BY <2>1, ReplayAssumption
  <2> QED BY <2>1, <2>2 DEF CheckLimits, StartPreload, GoApp, preload_vars, loop_vars, Preloading
<1>2. /\ ~looping /\ loop_iterations = o.loop_count
      /\ m \in Nat /\ c \in Nat /\ m <= c
      /\ c <= Len(input.capture.blocks) + 1 /\ m <= LastFrame(input) + 1
      /\ dispatch_frame_number = PositionAt(input, m).frame_number
      /\ pos = PositionAt(input, c) /\ LeadsOn(m) /\ ~AtLoopFrame(o, FrameNumber)
      /\ IF replay_from_queue THEN FollowsQueue(m, c) ELSE c = m
  BY <1>1 DEF Follows
<1>3. LeadsOn(m)' /\ FrameNumber' = FrameNumber
  BY <1>1, <1>2 DEF LeadsOn, FrameNumber
<1>4. CASE ShouldQuit(o, FrameNumber)
  <2>1. app_pc' = "ended" /\ Outcome' = "ended"
    BY <1>4 DEF CheckLimits, GoApp, Outcome
  <2>2. m = Len(Script(input))
    BY <1>1, <1>2, <1>4, LimitsEnd
  <2>3. Contract!Next
    BY <1>1, <2>1, <2>2, EndIsContracted
  <2> QED BY <2>1, <2>3 DEF ScriptInv
<1>5. CASE ~ShouldQuit(o, FrameNumber)
  <2>1. /\ m <= LastFrame(input)
        /\ \A j \in 0 .. m - 1 : CaptureFrames(input)[j].result.state = "kFrameBoundary"
    BY <1>1, <1>2, <1>5, WithinLimits
  <2>2. app_pc' \in {"preload_range", "play"} /\ Outcome' = "running"
    BY <1>5 DEF CheckLimits, StartPreload, GoApp, Outcome
  <2>3. [Contract!Next]_Abstract
    BY <1>1, <2>2, StutterIsContracted
  <2>4. CASE app_pc' = "preload_range"
    <3>1. preload_queue' = <<>> /\ Preloading'
      BY <1>1, <2>4 DEF CheckLimits, StartPreload, GoApp, Preloading
    <3>2. ~replay_from_queue /\ c = m
      BY <1>1, <1>2, <3>1 DEF IInv, PreloadingInv
    <3>3. FollowsPreload(m, m)'
      <4>1. \E s : HoldsFrames(input, <<>>, m, m, s)
        BY <1>2, HoldsNone
      <4>2. ~(m > m)
        BY <1>2
      <4> QED BY <1>1, <1>3, <1>5, <2>1, <2>4, <3>1, <4>1, <4>2 DEF FollowsPreload
    <3>4. Follows(m, m)'
      BY <1>1, <1>2, <1>3, <2>1, <2>4, <3>1, <3>2, <3>3 DEF Follows
    <3> QED BY <1>1, <2>3, <3>4, FollowsNext
  <2>5. CASE app_pc' = "play"
    <3>1. UNCHANGED preload_queue /\ ~Preloading'
      BY <2>5 DEF CheckLimits, StartPreload, GoApp, Preloading, preload_vars
    <3>2. FollowsQueue(m, c) => FollowsQueue(m, c)'
      BY <1>1, <3>1 DEF FollowsQueue
    <3>3. Follows(m, c)'
      BY <1>1, <1>2, <1>3, <2>1, <2>5, <3>1, <3>2 DEF Follows
    <3> QED BY <1>1, <2>3, <3>3, FollowsNext
  <2> QED BY <2>2, <2>4, <2>5
<1> QED BY <1>4, <1>5

(* In a loop, too.                                                            *)
LEMMA LimitsRepeat ==
  ASSUME IInv, CheckLimits(input.options), UNCHANGED <<input, pos>>, Outcome = "running",
         NEW m, NEW d, Repeats(m, d), m \in 0 .. Len(Script(input)), replayed = Played(input)[m]
  PROVE  [Contract!Next]_Abstract /\ ScriptInv'
<1> DEFINE o == input.options
           final == CaptureFrames(input)[LastFrame(input)]
<1>1. app_pc = "limits" /\ input \in Inputs /\ IsReplay(input)
  <2>1. input \in Inputs
    BY DEF IInv, Types
  <2> QED BY <2>1, ReplayAssumption DEF CheckLimits
<1>2. /\ looping /\ IsLoopFrame(o, final) /\ d \in Nat
      /\ m = LastFrame(input) + d
      /\ IF d = 0 THEN dispatch_frame_number = final.number
                  ELSE dispatch_frame_number = final.result.next_frame
      /\ d > 0 => final.result.state # "kError"
      /\ d > 1 => ~BeyondLimits(o, final)
  BY <1>1 DEF Repeats
<1>3. AtLoopFrame(o, final.number + 1) /\ o.loop_frame # 0
      /\ ~ShouldQuit(o, final.number + 1) /\ ~o.preload
  <2>1. AtLoopFrame(o, final.number + 1) /\ o.loop_frame # 0 /\ final.number + 1 = o.loop_frame
    BY <1>2 DEF IsLoopFrame, AtLoopFrame
  <2> QED BY <1>1, <2>1, ReplayIsTyped
<1>4. ShouldPreloadFrames(o, FrameNumber) = 0
  BY <1>3 DEF ShouldPreloadFrames
<1>5. /\ app_pc' = (IF ShouldQuit(o, FrameNumber) THEN "ended" ELSE "play")
      /\ UNCHANGED <<success, dispatch_frame_number, preload_queue, preload_at, replay_from_queue,
                     looping, loop_bookmark, loop_iterations, replayed>>
  BY <1>4 DEF CheckLimits, GoApp, preload_vars, loop_vars
<1>6. d = 0 => ~ShouldQuit(o, FrameNumber)
  BY <1>2, <1>3 DEF FrameNumber
<1>7. d > 0 => (ShouldQuit(o, FrameNumber) <=> BeyondLimits(o, final))
  BY <1>2 DEF FrameNumber, BeyondLimits
<1> HIDE DEF final
<1>8. CASE ShouldQuit(o, FrameNumber)
  <2>1. d = 1 /\ BeyondLimits(o, final)
    BY <1>2, <1>6, <1>7, <1>8
  <2>2. m = Len(Script(input))
    <3> USE DEF final
    <3> QED BY <1>1, <1>2, <2>1, ScriptLength
  <2>3. Outcome' = "ended"
    BY <1>5, <1>8 DEF Outcome
  <2>4. Contract!Next
    BY <1>1, <1>5, <2>2, <2>3, EndIsContracted
  <2> QED BY <2>3, <2>4 DEF ScriptInv
<1>9. CASE ~ShouldQuit(o, FrameNumber)
  <2>1. app_pc' = "play" /\ Outcome' = "running"
    BY <1>5, <1>9 DEF Outcome
  <2>2. d > 0 => ~BeyondLimits(o, final)
    BY <1>7, <1>9
  <2>3. Repeats(m, d)'
    BY <1>1, <1>5, <2>1, <2>2 DEF Repeats, final
  <2>4. [Contract!Next]_Abstract
    BY <1>5, <2>1, StutterIsContracted
  <2> QED BY <1>5, <2>3, <2>4, RepeatsNext
<1> QED BY <1>8, <1>9

(* Behind a frame replay goes on, unless the capture ends there.              *)
LEMMA EndFollows ==
  ASSUME IInv, EndFrame, UNCHANGED <<input, pos>>, Outcome = "running",
         NEW m, NEW c, Follows(m, c), m \in 0 .. Len(Script(input)), replayed = Played(input)[m]
  PROVE  [Contract!Next]_Abstract /\ ScriptInv'
<1> DEFINE o == input.options
           frame == CaptureFrames(input)[m - 1]
<1>1. /\ app_pc = "end_frame" /\ input \in Inputs /\ ~Preloading /\ IsReplay(input)
      /\ loop_iterations > 0 /\ success \in BOOLEAN
      /\ UNCHANGED <<success, dispatch_frame_number, preload_queue, preload_at, replay_from_queue,
                     looping, loop_bookmark, replayed>>
  <2>1. input \in Inputs /\ success \in BOOLEAN
    BY DEF IInv, Types
  <2>2. IsReplay(input)
    BY <2>1, ReplayAssumption
  <2> QED BY <2>1, <2>2 DEF EndFrame, preload_vars, loop_vars, Preloading, IInv, LoopInv
<1>2. /\ ~looping /\ loop_iterations = o.loop_count
      /\ m \in Nat /\ c \in Nat /\ m <= c
      /\ c <= Len(input.capture.blocks) + 1 /\ m <= LastFrame(input) + 1
      /\ dispatch_frame_number = PositionAt(input, m).frame_number
      /\ pos = PositionAt(input, c)
      /\ IF replay_from_queue THEN FollowsQueue(m, c) ELSE c = m
      /\ m > 0 /\ ~IsLoopFrame(o, frame)
      /\ success <=> frame.result.state = "kFrameBoundary"
  BY <1>1 DEF Follows
<1>3. loop_iterations' = loop_iterations /\ app_pc' = IF success THEN "events" ELSE "ended"
  BY <1>1, <1>2 DEF EndFrame, GoApp
<1>4. CASE success
  <2>1. app_pc' = "events" /\ Outcome' = "running" /\ ~Preloading'
    BY <1>3, <1>4 DEF Outcome, Preloading
  <2>2. [Contract!Next]_Abstract
    BY <1>1, <2>1, StutterIsContracted
  <2>3. LeadsOn(m)'
    BY <1>2, <1>4 DEF LeadsOn
  <2>4. FollowsQueue(m, c) => FollowsQueue(m, c)'
    BY <1>1 DEF FollowsQueue
  <2>5. Follows(m, c)'
    BY <1>1, <1>2, <1>3, <2>1, <2>3, <2>4 DEF Follows
  <2> QED BY <1>1, <2>2, <2>5, FollowsNext
<1>5. CASE ~success
  <2>1. Outcome' = "ended"
    BY <1>3, <1>5 DEF Outcome
  <2>2. m = LastFrame(input) + 1
    BY <1>1, <1>2, <1>5, BehindTheLast DEF IsLast
  <2>3. m = Len(Script(input))
    <3>1. m - 1 = LastFrame(input)
      BY <1>1, <2>2, ScriptLength
    <3> QED BY <1>1, <1>2, <2>2, <3>1, ScriptLength
  <2>4. Contract!Next
    BY <1>1, <2>1, <2>3, EndIsContracted
  <2> QED BY <2>1, <2>4 DEF ScriptInv
<1> QED BY <1>4, <1>5

(* Behind a repetition it goes on as often as is asked for.                   *)
LEMMA EndRepeats ==
  ASSUME IInv, EndFrame, UNCHANGED <<input, pos>>, Outcome = "running",
         NEW m, NEW d, Repeats(m, d), m \in 0 .. Len(Script(input)), replayed = Played(input)[m]
  PROVE  [Contract!Next]_Abstract /\ ScriptInv'
<1> DEFINE o == input.options
           final == CaptureFrames(input)[LastFrame(input)]
           N == Len(Script(input))
<1>1. /\ app_pc = "end_frame" /\ input \in Inputs /\ IsReplay(input)
      /\ loop_iterations > 0 /\ loop_iterations \in Nat /\ success \in BOOLEAN
      /\ UNCHANGED <<success, dispatch_frame_number, preload_queue, preload_at, replay_from_queue,
                     looping, loop_bookmark, replayed>>
  <2>1. input \in Inputs /\ success \in BOOLEAN /\ loop_iterations \in Nat
    BY DEF IInv, Types
  <2>2. IsReplay(input)
    BY <2>1, ReplayAssumption
  <2> QED BY <2>1, <2>2 DEF EndFrame, preload_vars, loop_vars, IInv, LoopInv
<1>2. /\ looping /\ replay_from_queue /\ IsLoopFrame(o, final)
      /\ HoldsFrame(final, preload_queue, 0, Len(preload_queue))
      /\ loop_bookmark = SkipStateBlocks(input.capture, preload_queue)
      /\ d \in Nat /\ loop_iterations + d = o.loop_count
      /\ m = LastFrame(input) + 1 + d
      /\ preload_at = loop_bookmark /\ dispatch_frame_number = final.result.next_frame
      /\ success <=> final.result.state # "kError"
      /\ d > 0 => final.result.state # "kError" /\ ~BeyondLimits(o, final)
  BY <1>1 DEF Repeats
<1>3. /\ loop_iterations' = loop_iterations - 1
      /\ app_pc' = (IF ~success \/ loop_iterations' = 0 THEN "ended" ELSE "events")
  BY <1>1, <1>2 DEF EndFrame, GoApp
<1>4. /\ LastFrame(input) \in Nat /\ N \in Nat
      /\ BeyondLimits(o, final) \/ final.result.state = "kError" => N = LastFrame(input) + 1
      /\ ~BeyondLimits(o, final) /\ final.result.state # "kError"
           => N = LastFrame(input) + o.loop_count
  BY <1>1, <1>2, ScriptLength
<1>5. o.loop_count \in Nat
  BY <1>1, ReplayIsTyped
<1> HIDE DEF final, N
<1>6. CASE ~success \/ loop_iterations' = 0
  <2>1. app_pc' = "ended" /\ Outcome' = "ended"
    BY <1>3, <1>6 DEF Outcome
  <2>2. m = N
    <3>1. CASE ~success
      BY <1>2, <1>4, <3>1
    <3>2. CASE success /\ loop_iterations' = 0
      <4>1. o.loop_count = d + 1
        BY <1>1, <1>2, <1>3, <1>5, <3>2
      <4>2. CASE d > 0
        BY <1>2, <1>4, <4>1, <4>2, <3>2
      <4>3. CASE d = 0
        BY <1>2, <1>4, <4>1, <4>3, <3>2
      <4> QED BY <1>2, <4>2, <4>3
    <3> QED BY <1>6, <3>1, <3>2
  <2>3. Contract!Next
    BY <1>1, <2>1, <2>2, EndIsContracted DEF N
  <2> QED BY <2>1, <2>3 DEF ScriptInv
<1>7. CASE success /\ loop_iterations' # 0
  <2>1. app_pc' = "events" /\ Outcome' = "running"
    BY <1>3, <1>7 DEF Outcome
  <2>2. [Contract!Next]_Abstract
    BY <1>1, <2>1, StutterIsContracted
  <2>3. /\ d + 1 \in Nat /\ d + 1 # 0 /\ loop_iterations' + (d + 1) = o.loop_count
        /\ m = LastFrame(input) + (d + 1)
        /\ d + 1 > 1 => d > 0
    BY <1>1, <1>2, <1>3, <1>4
  <2>4. Repeats(m, d + 1)'
    BY <1>1, <1>2, <1>7, <2>1, <2>3 DEF Repeats, final
  <2> QED BY <1>1, <2>2, <2>4, RepeatsNext
<1> QED BY <1>6, <1>7

(* At first nothing of the script has been shown.                             *)
LEMMA InitScript == Init => ScriptInv
<1> SUFFICES ASSUME Init PROVE ScriptInv
  OBVIOUS
<1>1. input \in Inputs /\ IsReplay(input)
  BY ReplayAssumption DEF Init
<1>2. /\ pos = StartOf(input.capture) /\ app_pc = "events" /\ dispatch_frame_number = 0
      /\ replay_from_queue = FALSE /\ looping = FALSE
      /\ loop_iterations = input.options.loop_count /\ replayed = <<>>
  BY DEF Init, ClientInit
<1>3. pos = PositionAt(input, 0) /\ PositionAt(input, 0).frame_number = 0
  BY <1>2 DEF PositionAt, StartOf
<1>4. /\ 0 <= Len(input.capture.blocks) + 1 /\ 0 <= LastFrame(input) + 1
      /\ 0 \in 0 .. Len(Script(input)) /\ Played(input)[0] = <<>>
  <2>1. Len(input.capture.blocks) \in Nat
    BY <1>1, ReplayIsTyped
  <2>2. LastFrame(input) \in Nat /\ Len(Script(input)) \in Nat
    BY <1>1, ScriptLength
  <2>3. Played(input)[0] = <<>>
    BY <1>1, PlayedFacts
  <2> QED BY <2>1, <2>2, <2>3
<1>5. LeadsOn(0)
  BY DEF LeadsOn
<1>6. Follows(0, 0)
  BY <1>2, <1>3, <1>4, <1>5 DEF Follows, Preloading
<1>7. IsAt(0)
  BY <1>6 DEF IsAt
<1> QED BY <1>2, <1>4, <1>7 DEF ScriptInv

(* No number of a frame is given out twice but the first, which the loop      *)
(* frame and a preloaded range rely on.                                       *)
EveryStutterIsEarly == \A i \in Inputs : FirstMarkerIsEarly(i.capture)

(* Whatever the step, it is a step of the contract, and replay stays at its   *)
(* place in the script.                                                       *)
LEMMA ScriptStep ==
  ASSUME EveryStutterIsEarly, IInv, IInv', ScriptInv, [Next]_vars
  PROVE  [Contract!Next]_Abstract /\ ScriptInv'
<1>1. input \in Inputs /\ IsReplay(input) /\ FirstMarkerIsEarly(input.capture)
  BY ReplayAssumption DEF IInv, Types, EveryStutterIsEarly
<1>2. CASE UNCHANGED vars
  <2>1. UNCHANGED <<input, pos, app_pc, success, dispatch_frame_number, preload_queue, preload_at,
                    replay_from_queue, looping, loop_bookmark, loop_iterations, replayed>>
    BY <1>2 DEF vars, client_vars, preload_vars, loop_vars
  <2>2. UNCHANGED Abstract
    BY <2>1 DEF Abstract, Outcome
  <2>3. \A m : IsAt(m) => IsAt(m)'
    <3> SUFFICES ASSUME NEW m, IsAt(m) PROVE IsAt(m)'
      OBVIOUS
    <3>1. ASSUME NEW c, Follows(m, c) PROVE Follows(m, c)'
      BY <2>1, <3>1 DEF Follows, FollowsPreload, FollowsQueue, LeadsOn, Preloading, FrameNumber
    <3>2. ASSUME NEW d, Repeats(m, d) PROVE Repeats(m, d)'
      BY <2>1, <3>2 DEF Repeats
    <3> QED BY <3>1, <3>2 DEF IsAt
  <2>4. ScriptInv'
    BY <2>1, <2>3 DEF ScriptInv, Outcome
  <2> QED BY <2>2, <2>4
<1>3. CASE Outcome # "running" /\ ~(UNCHANGED vars)
  BY <1>3 DEF Outcome, Next, Client, Preload, ProcessNextFrame, Finished, QuitEvent, NoEvent,
     CheckLimits, PlayFromQueue, EndFrame, Preloading
<1>4. CASE Outcome = "running" /\ ~(UNCHANGED vars)
  <2>1. PICK m \in 0 .. Len(Script(input)) : replayed = Played(input)[m] /\ IsAt(m)
    BY <1>4 DEF ScriptInv
  <2>2. \/ Preload \/ ProcessNextFrame
        \/ UNCHANGED <<input, pos>> /\ (\/ QuitEvent \/ NoEvent(input.options)
                                        \/ CheckLimits(input.options) \/ PlayFromQueue \/ EndFrame)
    BY <1>4 DEF Next, Client, Finished
  <2>3. CASE QuitEvent /\ UNCHANGED <<input, pos>>
    <3>1. Outcome' = "quit" /\ UNCHANGED replayed
      BY <2>3 DEF QuitEvent, GoApp, Outcome
    <3>2. Contract!Next
      BY <1>1, <1>4, <2>1, <2>3, <3>1, QuitIsContracted
    <3> QED BY <3>1, <3>2 DEF ScriptInv
  <2>4. CASE ~(QuitEvent /\ UNCHANGED <<input, pos>>)
    <3>1. ASSUME NEW c, Follows(m, c) PROVE [Contract!Next]_Abstract /\ ScriptInv'
      BY <1>1, <1>4, <2>1, <2>2, <2>4, <3>1, PreloadFollows, ReadFollows, QueueFollows,
         EventsFollow, LimitsFollow, EndFollows
    <3>2. ASSUME NEW d, Repeats(m, d) PROVE [Contract!Next]_Abstract /\ ScriptInv'
      <4>1. looping
        BY <3>2 DEF Repeats
      <4>2. ~Preload /\ ~ProcessNextFrame
        BY <4>1 DEF IInv, PreloadingInv, ReadingInv, Preload, ProcessNextFrame, Preloading
      <4> QED BY <1>1, <1>4, <2>1, <2>2, <2>4, <3>2, <4>2, QueueRepeats,
           EventsRepeat, LimitsRepeat, EndRepeats
    <3> QED BY <2>1, <3>1, <3>2 DEF IsAt
  <2> QED BY <2>3, <2>4
<1> QED BY <1>2, <1>3, <1>4

(* What is preloaded, looped and read makes no difference to what decoders    *)
(* see: every step of the replay in one thread is one of FrameReplay, or      *)
(* shows nothing.  The blocks come in the order of the capture, each under    *)
(* the number of its frame, the loop frame as often as asked for, and replay  *)
(* ends behind the last frame the limits allow.                               *)
THEOREM FrameReplayImplemented ==
  ASSUME EveryStutterIsEarly
  PROVE  Spec => ImplementsFrameReplay
<1>1. Init => Contract!Init
  BY DEF Init, ClientInit, Contract!Init, Outcome
<1>2. IInv /\ IInv' /\ ScriptInv /\ [Next]_vars => ScriptInv' /\ [Contract!Next]_Abstract
  BY ScriptStep
<1>3. Spec => []ScriptInv
  BY InitScript, <1>2, Invariance, PTL DEF Spec
<1>4. Spec => [][Contract!Next]_Abstract
  BY <1>2, <1>3, Invariance, PTL DEF Spec
<1>5. Abstract = <<input, replayed, Outcome>>
  BY DEF Abstract
<1> QED BY <1>1, <1>4, PTL DEF Spec, ImplementsFrameReplay, Contract!Spec, Abstract
=============================================================================
