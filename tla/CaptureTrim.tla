----------------------------- MODULE CaptureTrim -----------------------------
(***************************************************************************)
(* CommonCaptureManager (framework/encode/capture_manager.cpp): which      *)
(* calls a trimmed capture records.  Each API call runs under the shared   *)
(* API call lock (exclusive under force_command_serialization): it is      *)
(* encoded to the file in write mode and given to the state tracker in     *)
(* track mode.  The end of a frame, or a queue submit, starts and stops    *)
(* the write mode under the exclusive lock; a capture file starts with a   *)
(* snapshot of the tracked state.                                          *)
(*                                                                         *)
(* A file is a record of what it holds: the calls whose effects are in its *)
(* snapshot, the calls recorded, and the frames or submits among these.    *)
(***************************************************************************)
EXTENDS Integers, Sequences, FiniteSets

CONSTANTS
  Threads,       (* of the application                                        *)
  Boundary,      (* the thread that presents and submits                      *)
  Inputs,        (* capture settings                                          *)
  CallLimit      (* bound on the calls of a thread: a function of the threads *)

kFirstFrame == 1

(* Ranges of frames or submits, or a trigger with trim_key_frames (0: until  *)
(* the trigger fires again).                                                 *)
IsSettings(i) ==
  /\ i.boundary \in {"frames", "submits"}
  /\ i.ranges \in Seq([first : Nat, last : Nat])
  /\ \A k \in 1..Len(i.ranges) :
       /\ i.ranges[k].first <= i.ranges[k].last
       /\ k > 1 => i.ranges[k - 1].last < i.ranges[k].first
  /\ i.trim_key_frames \in Nat
  /\ {i.trigger_active, i.force_command_serialization, i.quit_after_frame_ranges,
      i.files_can_fail} \subseteq BOOLEAN

ASSUME CaptureTrimAssumption ==
  /\ Boundary \in Threads
  /\ CallLimit \in [Threads -> Nat]
  /\ \A i \in Inputs : IsSettings(i)

VARIABLES
  input,               (* the settings of this capture                        *)
  capture_mode,        (* a subset of {"write", "track"}; {} is kModeDisabled *)
  trim_enabled,        (* trim_enabled_                                       *)
  trim_current_range,  (* index of the current range, from 1                  *)
  trim_key_first,      (* trim_key_first_frame_                               *)
  count,               (* current_frame_ or queue_submit_count_, per boundary *)
  state_tracker,       (* the state tracker exists                            *)
  tracked,             (* the calls whose effects the tracker knows           *)
  files,               (* the capture files, in the order of their creation   *)
  file_open,           (* file_stream_: the last file is open                 *)
  holds,               (* what each thread holds of api_call_mutex_           *)
  thread,              (* the call of each thread and where it is             *)
  calls,               (* the number of calls each thread has begun           *)
  process              (* "running", "quit" or "crashed"                      *)

mode_vars == <<capture_mode, trim_enabled, trim_current_range, trim_key_first>>
capture_vars == <<state_tracker, tracked, files, file_open>>
thread_vars == <<holds, thread>>
vars == <<input, mode_vars, count, capture_vars, thread_vars, calls, process>>

Ranges == input.ranges
UseRanges == Ranges # <<>>
CurrentRange == Ranges[trim_current_range]
Writing == "write" \in capture_mode
Tracking == "track" \in capture_mode

CallOf(t) == <<t, calls[t]>>
CallIds == UNION {{t} \X (1..CallLimit[t]) : t \in Threads}
Completed == {c \in CallIds : c[2] < calls[c[1]] \/ (c[2] = calls[c[1]] /\ thread[c[1]].pc = "idle")}

NewFile == [snapshot |-> {}, calls |-> {}, units |-> {}]
Idle == [pc |-> "idle", kind |-> "call", next |-> "idle"]

TypeOK ==
  /\ input \in Inputs
  /\ capture_mode \subseteq {"write", "track"}
  /\ trim_enabled \in BOOLEAN
  /\ trim_current_range \in 1..(Len(Ranges) + 1)
  /\ trim_key_first \in Nat
  /\ count \in [{"frames", "submits"} -> Nat]
  /\ state_tracker \in BOOLEAN /\ tracked \subseteq CallIds
  /\ files \in Seq([snapshot : SUBSET CallIds, calls : SUBSET CallIds, units : SUBSET Nat])
  /\ file_open \in BOOLEAN /\ (file_open => files # <<>>)
  /\ holds \in [Threads -> {"none", "shared", "exclusive"}]
  /\ thread \in [Threads -> [pc : {"idle", "pre", "encode", "check", "track", "end", "deactivate",
                                   "next_range", "next_file", "activate", "relock", "finish"},
                             kind : {"call", "submit", "present"},
                             next : {"idle", "encode", "check", "finish"}]]
  /\ calls \in [Threads -> Nat] /\ \A t \in Threads : calls[t] <= CallLimit[t]
  /\ process \in {"running", "quit", "crashed"}

(* CommonCaptureManager::Initialize.                                         *)
Init ==
  /\ input \in Inputs
  /\ count = [frames |-> kFirstFrame, submits |-> 0]
  /\ LET from_start == IF UseRanges
                         THEN input.boundary = "frames" /\ Ranges[1].first = count.frames
                         ELSE input.trigger_active
     IN /\ capture_mode = IF ~from_start THEN {"track"}
                          ELSE IF Len(Ranges) = 1 THEN {"write"} ELSE {"write", "track"}
        /\ files = IF from_start THEN <<NewFile>> ELSE <<>>
        /\ file_open = from_start
        /\ state_tracker = ("track" \in capture_mode)
  /\ trim_enabled = TRUE /\ trim_current_range = 1
  /\ trim_key_first = count[input.boundary]
  /\ tracked = {}
  /\ holds = [t \in Threads |-> "none"]
  /\ thread = [t \in Threads |-> Idle]
  /\ calls = [t \in Threads |-> 0]
  /\ process = "running"

-----------------------------------------------------------------------------
(* The API call lock.                                                        *)
CanShare == \A u \in Threads : holds[u] # "exclusive"
CanExclude == \A u \in Threads : holds[u] = "none"

At(t, pc) == process = "running" /\ thread[t].pc = pc
Goto(t, pc) == thread' = [thread EXCEPT ![t].pc = pc]

(* Mutant: the shared lock is kept. *)
Release_Keeps(t) == UNCHANGED holds

(* Activation and deactivation give up the shared lock, take the exclusive   *)
(* one, and take the shared one again.                                       *)
Release(t) == holds' = [holds EXCEPT ![t] = IF @ = "shared" THEN "none" ELSE @]
(* Mutant: the exclusive lock is not waited for. *)
TakeExclusive_Never == TRUE

TakeExclusive == input.force_command_serialization \/ CanExclude

Relock(t) ==
  /\ input.force_command_serialization \/ CanShare
  /\ holds' = [holds EXCEPT ![t] = IF input.force_command_serialization THEN @ ELSE "shared"]

-----------------------------------------------------------------------------
(* An API call.                                                              *)
Begin(t, kind) ==
  /\ At(t, "idle") /\ calls[t] < CallLimit[t]
  /\ kind # "call" => t = Boundary
  /\ IF input.force_command_serialization
       THEN CanExclude /\ holds' = [holds EXCEPT ![t] = "exclusive"]
       ELSE CanShare /\ holds' = [holds EXCEPT ![t] = "shared"]
  /\ calls' = [calls EXCEPT ![t] = @ + 1]
  /\ thread' = [thread EXCEPT ![t] =
       [pc |-> IF kind = "submit" THEN "pre" ELSE "encode", kind |-> kind, next |-> "idle"]]
  /\ UNCHANGED <<input, mode_vars, count, capture_vars, process>>

(* A boundary call bears the number of the frame or submit it ends.          *)
Unit(t) ==
  IF thread[t].kind = (IF input.boundary = "frames" THEN "present" ELSE "submit")
    THEN {count[input.boundary]} ELSE {}

(* BeginApiCallCapture to EndApiCallCapture.                                 *)
Encode(t) ==
  /\ At(t, "encode")
  /\ files' = IF Writing
                THEN [files EXCEPT ![Len(files)].calls = @ \cup {CallOf(t)},
                                   ![Len(files)].units = @ \cup Unit(t)]
                ELSE files
  /\ Goto(t, IF thread[t].kind = "submit" THEN "end" ELSE "check")
  /\ UNCHANGED <<input, mode_vars, count, state_tracker, tracked, file_open, holds, calls, process>>

(* PostProcess: the call is tracked; a present then ends its frame, a submit *)
(* has been counted before.                                                  *)
AfterTracking(t) == IF thread[t].kind = "present" THEN "end" ELSE "finish"

CheckTracking(t) ==
  /\ At(t, "check")
  /\ Goto(t, IF Tracking THEN "track" ELSE AfterTracking(t))
  /\ UNCHANGED <<input, mode_vars, count, capture_vars, holds, calls, process>>

Track(t) ==
  /\ At(t, "track") /\ state_tracker
  /\ tracked' = tracked \cup {CallOf(t)}
  /\ Goto(t, AfterTracking(t))
  /\ UNCHANGED <<input, mode_vars, count, state_tracker, files, file_open, holds, calls, process>>

TrackWithoutTracker(t) ==
  /\ At(t, "track") /\ ~state_tracker
  /\ process' = "crashed"
  /\ UNCHANGED <<input, mode_vars, count, capture_vars, thread_vars, calls>>

(* The lock is released.  EndFrame may have found that there is nothing left *)
(* to capture.                                                               *)
Finish(t) ==
  /\ At(t, "finish")
  /\ IF thread[t].kind = "present" /\ capture_mode = {} /\ input.quit_after_frame_ranges
       THEN process' = "quit" /\ UNCHANGED thread_vars
       ELSE /\ holds' = [holds EXCEPT ![t] = "none"]
            /\ thread' = [thread EXCEPT ![t] = Idle]
            /\ UNCHANGED process
  /\ UNCHANGED <<input, mode_vars, count, capture_vars, calls>>

-----------------------------------------------------------------------------
(* Start and stop of the write mode at a boundary count.                     *)
StartsAt(now, fired) == IF UseRanges THEN now = CurrentRange.first ELSE fired
(* Mutant: a range ends one unit early, key frames one late. *)
StopsAt_OffByOne(now, fired) ==
  IF UseRanges THEN now = CurrentRange.last
  ELSE fired \/ now > trim_key_first + input.trim_key_frames

StopsAt(now, fired) ==
  IF UseRanges THEN now = CurrentRange.last + 1
  ELSE \/ fired
       \/ input.trim_key_frames > 0 /\ now >= trim_key_first + input.trim_key_frames

Trigger(fired) == UseRanges => ~fired

(* CreateCaptureFile under the shared lock, and what follows.                *)
FileCreated(t, next) ==
  /\ files' = Append(files, NewFile) /\ file_open' = TRUE
  /\ thread' = [thread EXCEPT ![t].pc = "activate", ![t].next = next]
  /\ Release(t)
  /\ UNCHANGED <<capture_mode, trim_enabled>>

(* Mutant: the stream counts as open though no file was created. *)
FileFailed_KeepsStream(t, next) ==
  /\ input.files_can_fail
  /\ file_open' = TRUE /\ UNCHANGED files
  /\ trim_enabled' = FALSE /\ capture_mode' = {}
  /\ Goto(t, next)

FileFailed(t, next) ==
  /\ input.files_can_fail
  /\ file_open' = FALSE /\ UNCHANGED files
  /\ trim_enabled' = FALSE /\ capture_mode' = {}
  /\ Goto(t, next)

(* CheckStartCaptureForTrackMode.                                            *)
StartCapture(t, now, next) ==
  /\ \/ FileCreated(t, next) /\ trim_key_first' = IF UseRanges THEN trim_key_first ELSE now
     \/ FileFailed(t, next) /\ UNCHANGED <<holds, trim_key_first>>
  /\ UNCHANGED <<trim_current_range, state_tracker, tracked>>

Continue(t, next) == Goto(t, next) /\ UNCHANGED <<mode_vars, capture_vars, holds>>

PreQueueSubmit(t, fired) ==
  /\ At(t, "pre") /\ Trigger(fired)
  /\ IF /\ trim_enabled /\ input.boundary = "submits"
        /\ Tracking /\ ~Writing
        /\ StartsAt(count.submits, fired)
       THEN StartCapture(t, count.submits, "encode")
       ELSE Continue(t, "encode")
  /\ UNCHANGED <<input, count, calls, process>>

(* CheckContinueCaptureForWriteMode, up to DeactivateTrimming.               *)
StopCapture(t, next) ==
  /\ Release(t)
  /\ thread' = [thread EXCEPT ![t].pc = "deactivate", ![t].next = next]
  /\ UNCHANGED <<mode_vars, capture_vars>>

EndFrame(t, fired) ==
  /\ At(t, "end") /\ thread[t].kind = "present" /\ Trigger(fired)
  /\ count' = [count EXCEPT !.frames = @ + 1]
  /\ LET checks == trim_enabled /\ input.boundary = "frames"
     IN CASE checks /\ Writing /\ StopsAt(count'.frames, fired) -> StopCapture(t, "finish")
          [] checks /\ ~Writing /\ Tracking /\ StartsAt(count'.frames, fired) ->
               StartCapture(t, count'.frames, "finish")
          [] OTHER -> Continue(t, "finish")
  /\ UNCHANGED <<input, calls, process>>

PostQueueSubmit(t, fired) ==
  /\ At(t, "end") /\ thread[t].kind = "submit" /\ Trigger(fired)
  /\ count' = [count EXCEPT !.submits = @ + 1]
  /\ IF trim_enabled /\ input.boundary = "submits" /\ Writing /\ StopsAt(count'.submits, fired)
       THEN StopCapture(t, "check")
       ELSE Continue(t, "check")
  /\ UNCHANGED <<input, calls, process>>

DeactivateTrimming(t) ==
  /\ At(t, "deactivate") /\ TakeExclusive
  /\ capture_mode' = capture_mode \ {"write"}
  /\ file_open' = FALSE
  /\ Goto(t, "next_range")
  /\ UNCHANGED <<input, trim_enabled, trim_current_range, trim_key_first, count,
                 state_tracker, tracked, files, holds, calls, process>>

(* The rest of CheckContinueCaptureForWriteMode, under the shared lock.      *)
NextRange(t) ==
  /\ At(t, "next_range") /\ Relock(t)
  /\ IF UseRanges THEN trim_current_range' = trim_current_range + 1
                  ELSE UNCHANGED trim_current_range
  /\ IF trim_current_range' > Len(Ranges) /\ UseRanges
       THEN /\ trim_enabled' = FALSE /\ capture_mode' = {}
            /\ state_tracker' = FALSE
       ELSE UNCHANGED <<trim_enabled, capture_mode, state_tracker>>
  /\ Goto(t, IF UseRanges /\ trim_enabled'
                  /\ Ranges[trim_current_range'].first = count[input.boundary]
               THEN "next_file" ELSE thread[t].next)
  /\ UNCHANGED <<input, trim_key_first, count, tracked, files, file_open, calls, process>>

(* Consecutive ranges: "we need to start a new capture file for the current  *)
(* range".                                                                   *)
NextFile(t) ==
  /\ At(t, "next_file")
  /\ StartCapture(t, count[input.boundary], thread[t].next)
  /\ UNCHANGED <<input, count, calls, process>>

ActivateTrimming(t) ==
  /\ At(t, "activate") /\ TakeExclusive
  /\ capture_mode' = capture_mode \cup {"write"}
  /\ files' = [files EXCEPT ![Len(files)].snapshot = tracked]
  /\ Goto(t, "relock")
  /\ UNCHANGED <<input, trim_enabled, trim_current_range, trim_key_first, count,
                 state_tracker, tracked, file_open, holds, calls, process>>

Activated(t) ==
  /\ At(t, "relock") /\ Relock(t)
  /\ Goto(t, thread[t].next)
  /\ UNCHANGED <<input, mode_vars, count, capture_vars, calls, process>>

-----------------------------------------------------------------------------
ThreadStep(t) ==
  \/ Encode(t)
  \/ CheckTracking(t)
  \/ Track(t)
  \/ TrackWithoutTracker(t)
  \/ Finish(t)
  \/ \E fired \in BOOLEAN :
       PreQueueSubmit(t, fired) \/ EndFrame(t, fired) \/ PostQueueSubmit(t, fired)
  \/ DeactivateTrimming(t)
  \/ NextRange(t)
  \/ NextFile(t)
  \/ ActivateTrimming(t)
  \/ Activated(t)

Next == \E t \in Threads :
  \/ \E kind \in {"call", "submit", "present"} : Begin(t, kind)
  \/ ThreadStep(t)

Spec == Init /\ [][Next]_vars

(* A thread that has begun a call goes on; it need not call again.           *)
FairSpec == Spec /\ \A t \in Threads : WF_vars(ThreadStep(t))

-----------------------------------------------------------------------------
(* A capture file is complete: there is one in write mode (WriteToFile does  *)
(* not ask), every call that has returned is part of the state it starts     *)
(* from or recorded in it, and none is both, so that a replay makes it       *)
(* exactly once.  The write mode is switched on while calls of other threads *)
(* are between their encoding and their tracking.                            *)
EveryCallIsInTheFile ==
  Writing =>
    /\ file_open
    /\ LET file == files[Len(files)]
       IN /\ Completed \subseteq file.snapshot \cup file.calls
          /\ file.snapshot \cap file.calls = {}

(* The files of a capture with ranges hold these ranges, frame by frame or   *)
(* submit by submit; with trim_key_frames no file holds more than that.      *)
FilesHoldTheRanges ==
  \A k \in 1..Len(files) :
    LET closed == k < Len(files) \/ ~file_open
    IN IF UseRanges
         THEN IF closed THEN files[k].units = Ranges[k].first..Ranges[k].last
              ELSE files[k].units \subseteq Ranges[k].first..Ranges[k].last
         ELSE input.trim_key_frames > 0 => Cardinality(files[k].units) <= input.trim_key_frames

(* A call never waits for ever: the shared lock is never kept while the      *)
(* exclusive one is waited for.                                              *)
CallsReturn ==
  \A t \in Threads : thread[t].pc # "idle" ~> (thread[t].pc = "idle" \/ process # "running")

(* assert(state_tracker_ != nullptr) of the PostProcess functions, e.g.      *)
(* vulkan_capture_manager.h:1038.                                            *)
TrackerExistsWhenUsed == process # "crashed"

=============================================================================
