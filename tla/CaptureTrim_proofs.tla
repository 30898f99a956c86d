------------------------- MODULE CaptureTrim_proofs -------------------------
(***************************************************************************)
(* Proofs about CaptureTrim: for any threads, calls and settings, what is  *)
(* in the capture files.  The inductive invariant follows the thread that  *)
(* ends frames or submits through the change of the write mode, and says   *)
(* what the lock keeps the other threads from doing meanwhile.             *)
(***************************************************************************)
EXTENDS CaptureTrim, FiniteSetTheorems, SequenceTheorems, TLAPS

-----------------------------------------------------------------------------
(* The invariant.                                                            *)
UnitKind == IF input.boundary = "frames" THEN "present" ELSE "submit"
Now == count[input.boundary]
Last == files[Len(files)]
BoundaryAt(pcs) == thread[Boundary].pc \in pcs

(* Who holds the lock.  A thread in a call holds it, unless it is waiting to *)
(* get more of it or to get it back.                                         *)
Waits == {"deactivate", "next_range", "activate", "relock"}
LockInv ==
  /\ \A t \in Threads :
       /\ holds[t] = "exclusive" => input.force_command_serialization
       /\ holds[t] = "shared" => ~input.force_command_serialization
       /\ holds[t] = "none" => \/ thread[t].pc = "idle"
                               \/ thread[t].pc \in Waits /\ ~input.force_command_serialization
  /\ \A t, u \in Threads : holds[t] = "exclusive" /\ holds[u] = "exclusive" => t = u

(* Where the threads are in their calls.                                     *)
CallInv ==
  /\ \A t \in Threads \ {Boundary} :
       thread[t].kind = "call" /\ thread[t].pc \in {"idle", "encode", "check", "track", "finish"}
  /\ \A t \in Threads : /\ thread[t].pc # "idle" => calls[t] > 0
                        /\ thread[t].pc = "pre" => thread[t].kind = "submit"
                        /\ thread[t].pc = "end" => thread[t].kind # "call"
  /\ BoundaryAt({"deactivate", "next_range", "next_file"}) =>
       /\ trim_enabled
       /\ thread[Boundary].kind = UnitKind
       /\ thread[Boundary].next = IF UnitKind = "present" THEN "finish" ELSE "check"
  /\ BoundaryAt({"activate", "relock"}) =>
       /\ thread[Boundary].kind = UnitKind
       /\ thread[Boundary].next \in IF UnitKind = "present" THEN {"finish"} ELSE {"encode", "check"}

(* Ranges, mode and file.                                                    *)
ModeInv ==
  /\ UseRanges /\ trim_enabled => trim_current_range <= Len(Ranges)
  /\ trim_enabled /\ ~Tracking => UseRanges /\ trim_current_range = Len(Ranges)
  /\ ~trim_enabled => capture_mode = {} /\ ~BoundaryAt({"deactivate", "next_range", "next_file", "activate"})
  /\ BoundaryAt({"deactivate"}) => Writing
  /\ BoundaryAt({"next_range", "next_file", "activate"}) => ~Writing
  /\ BoundaryAt({"next_file", "activate"}) => Tracking
  /\ file_open <=> Writing \/ BoundaryAt({"activate"})
  /\ file_open => files # <<>>
  /\ BoundaryAt({"activate"}) => Last = NewFile

IInv == TypeOK /\ LockInv /\ CallInv /\ ModeInv

(* The calls encoded so far, and those that would have been tracked.         *)
BeforeEncode(t) ==
  \/ thread[t].pc \in {"pre", "encode"}
  \/ thread[t].pc \in {"activate", "relock"} /\ thread[t].next = "encode"
Passed(t) ==
  \/ thread[t].pc \in {"idle", "finish"}
  \/ thread[t].kind = "present" /\ thread[t].pc \in {"end", "deactivate", "next_range", "next_file", "activate", "relock"}
Encoded == {c \in CallIds : c[2] < calls[c[1]] \/ (c[2] = calls[c[1]] /\ ~BeforeEncode(c[1]))}
TrackedByNow == {c \in CallIds : c[2] < calls[c[1]] \/ (c[2] = calls[c[1]] /\ Passed(c[1]))}

ContentInv ==
  /\ tracked \subseteq Encoded
  /\ Tracking => TrackedByNow \subseteq tracked
  /\ Writing => /\ Last.snapshot \subseteq Encoded
                /\ Encoded \subseteq Last.snapshot \cup Last.calls
                /\ Last.snapshot \cap Last.calls = {}

(* A submit is not the end of a range and the beginning of the next.         *)
SubmitInv ==
  UnitKind = "submit" =>
    /\ UseRanges /\ BoundaryAt({"deactivate", "next_range"}) => Now = CurrentRange.last + 1
    /\ ~BoundaryAt({"next_file"})
    /\ BoundaryAt({"activate", "relock"}) => thread[Boundary].next = "encode"

(* The units in the files.                                                   *)
Uncounted ==
  /\ thread[Boundary].kind = UnitKind
  /\ thread[Boundary].pc = "end" \/ (UnitKind = "present" /\ thread[Boundary].pc \in {"check", "track"})
Recorded == IF Uncounted THEN Now ELSE Now - 1
Whole(k) == files[k].units = Ranges[k].first..Ranges[k].last

RangesInv ==
  /\ Len(files) <= Len(Ranges)
  /\ \A k \in 1..Len(files) : k < Len(files) \/ ~file_open => Whole(k)
  /\ trim_enabled =>
       trim_current_range = IF Writing \/ BoundaryAt({"activate", "next_range"}) THEN Len(files) ELSE Len(files) + 1
  /\ Writing => /\ Last.units = CurrentRange.first..Recorded
                /\ CurrentRange.first <= Now
                /\ Now <= CurrentRange.last + (IF BoundaryAt({"deactivate"}) THEN 1 ELSE 0)
  /\ BoundaryAt({"deactivate", "next_range"}) => Now = CurrentRange.last + 1
  /\ BoundaryAt({"next_file", "activate"}) => Now = CurrentRange.first

KeyFramesInv ==
  /\ \A k \in 1..Len(files) : IsFiniteSet(files[k].units) /\ Cardinality(files[k].units) <= input.trim_key_frames
  /\ Writing => /\ Last.units \subseteq trim_key_first..Recorded
                /\ trim_key_first <= Now
                /\ ~BoundaryAt({"deactivate"}) => Now < trim_key_first + input.trim_key_frames
  /\ BoundaryAt({"activate"}) => trim_key_first = Now

UnitsInv ==
  /\ UseRanges => RangesInv
  /\ ~UseRanges /\ input.trim_key_frames > 0 => KeyFramesInv

NoConsecutiveSubmits ==
  \A i \in Inputs : i.boundary = "submits" =>
    \A k \in 1..Len(i.ranges) : k > 1 => i.ranges[k - 1].last + 1 # i.ranges[k].first

-----------------------------------------------------------------------------
(* Types, and steps of one thread.                                           *)
Records == [pc : {"idle", "pre", "encode", "check", "track", "end", "deactivate",
                  "next_range", "next_file", "activate", "relock", "finish"},
            kind : {"call", "submit", "present"},
            next : {"idle", "encode", "check", "finish"}]
Locks == {"none", "shared", "exclusive"}
Special == {"deactivate", "next_range", "next_file", "activate"}

ThreadType ==
  /\ holds \in [Threads -> Locks] /\ thread \in [Threads -> Records]
  /\ calls \in [Threads -> Nat] /\ \A t \in Threads : calls[t] <= CallLimit[t]
ModeType ==
  /\ input \in Inputs
  /\ capture_mode \subseteq {"write", "track"} /\ trim_enabled \in BOOLEAN
  /\ trim_current_range \in 1..(Len(Ranges) + 1) /\ trim_key_first \in Nat
  /\ count \in [{"frames", "submits"} -> Nat]
FilesType ==
  /\ files \in Seq([snapshot : SUBSET CallIds, calls : SUBSET CallIds, units : SUBSET Nat])
  /\ state_tracker \in BOOLEAN /\ tracked \subseteq CallIds /\ file_open \in BOOLEAN
  /\ file_open => files # <<>>
ProcessType == process \in {"running", "quit", "crashed"}

LEMMA TypeParts == TypeOK <=> ThreadType /\ ModeType /\ FilesType /\ ProcessType
  BY DEF TypeOK, ThreadType, ModeType, FilesType, ProcessType, Records, Locks

LEMMA TypePartsNext ==
  ASSUME ThreadType', ModeType', FilesType', ProcessType'
  PROVE  TypeOK'
  BY DEF TypeOK, ThreadType, ModeType, FilesType, ProcessType, Records, Locks

LEMMA InputFacts ==
  ASSUME input \in Inputs
  PROVE  /\ input.boundary \in {"frames", "submits"}
         /\ Ranges \in Seq([first : Nat, last : Nat]) /\ Len(Ranges) \in Nat
         /\ UseRanges => Len(Ranges) > 0
         /\ \A k \in 1..Len(Ranges) : /\ Ranges[k].first \in Nat /\ Ranges[k].last \in Nat
                                      /\ Ranges[k].first <= Ranges[k].last
                                      /\ k > 1 => Ranges[k - 1].last < Ranges[k].first
         /\ input.trim_key_frames \in Nat
         /\ input.force_command_serialization \in BOOLEAN
         /\ UnitKind \in {"present", "submit"}
<1>1. IsSettings(input)
  BY CaptureTrimAssumption
<1>2. Ranges \in Seq([first : Nat, last : Nat])
  BY <1>1 DEF IsSettings, Ranges
<1>3. Len(Ranges) \in Nat /\ (UseRanges => Len(Ranges) > 0)
  BY <1>2, EmptySeq DEF UseRanges
<1>4. \A k \in 1..Len(Ranges) : Ranges[k].first \in Nat /\ Ranges[k].last \in Nat
  <2>1. \A k \in 1..Len(Ranges) : Ranges[k] \in [first : Nat, last : Nat]
    BY <1>2, ElementOfSeq
  <2> QED BY <2>1
<1>5. \A k \in 1..Len(Ranges) : /\ Ranges[k].first <= Ranges[k].last
                                /\ k > 1 => Ranges[k - 1].last < Ranges[k].first
  BY <1>1 DEF IsSettings, Ranges
<1> QED BY <1>1, <1>2, <1>3, <1>4, <1>5 DEF IsSettings, UnitKind

(* A step of thread t to place and call r, holding h.                        *)
LEMMA ThreadPart ==
  ASSUME TypeOK, LockInv, CallInv, NEW t \in Threads, NEW r \in Records, NEW h \in Locks,
         holds' = [holds EXCEPT ![t] = h], thread' = [thread EXCEPT ![t] = r],
         input' = input,
         calls' \in [Threads -> Nat],
         \A u \in Threads : calls'[u] <= CallLimit[u] /\ calls'[u] >= calls[u],
         h = "exclusive" => /\ input.force_command_serialization
                            /\ \A u \in Threads \ {t} : holds[u] # "exclusive",
         h = "shared" => ~input.force_command_serialization,
         h = "none" => \/ r.pc = "idle"
                       \/ r.pc \in Waits /\ ~input.force_command_serialization,
         r.pc # "idle" => calls'[t] > 0,
         r.pc = "pre" => r.kind = "submit",
         r.pc = "end" => r.kind # "call",
         t # Boundary => /\ r.kind = "call" /\ r.pc \in {"idle", "encode", "check", "track", "finish"}
                         /\ trim_enabled' = trim_enabled,
         t = Boundary =>
           /\ r.pc \in {"deactivate", "next_range", "next_file"} =>
                /\ trim_enabled'
                /\ r.kind = UnitKind
                /\ r.next = IF UnitKind = "present" THEN "finish" ELSE "check"
           /\ r.pc \in {"activate", "relock"} =>
                /\ r.kind = UnitKind
                /\ r.next \in IF UnitKind = "present" THEN {"finish"} ELSE {"encode", "check"}
  PROVE  ThreadType' /\ LockInv' /\ CallInv'
<1>1. /\ holds \in [Threads -> Locks] /\ thread \in [Threads -> Records] /\ calls \in [Threads -> Nat]
      /\ Boundary \in Threads
  BY CaptureTrimAssumption DEF TypeOK, Records, Locks
<1>2. /\ holds'[t] = h /\ thread'[t] = r
      /\ \A u \in Threads \ {t} : holds'[u] = holds[u] /\ thread'[u] = thread[u]
  BY <1>1
<1>3. ThreadType'
  BY <1>1 DEF ThreadType
<1>4. LockInv'
  BY <1>1, <1>2 DEF LockInv
<1>5. UnitKind' = UnitKind
  BY DEF UnitKind
<1>6. CallInv'
  <2>1. \A u \in Threads \ {Boundary} :
          thread'[u].kind = "call" /\ thread'[u].pc \in {"idle", "encode", "check", "track", "finish"}
    BY <1>2 DEF CallInv
  <2>2. \A u \in Threads : /\ thread'[u].pc # "idle" => calls'[u] > 0
                           /\ thread'[u].pc = "pre" => thread'[u].kind = "submit"
                           /\ thread'[u].pc = "end" => thread'[u].kind # "call"
    <3>1. \A u \in Threads \ {t} : thread[u].pc # "idle" => calls'[u] > 0
      <4>1. \A u \in Threads : calls[u] \in Nat /\ calls'[u] \in Nat /\ calls'[u] >= calls[u]
        BY <1>1
      <4> QED BY <4>1 DEF CallInv
    <3> QED BY <1>2, <3>1 DEF CallInv
  <2>3. CASE t = Boundary
    BY <1>2, <1>5, <2>1, <2>2, <2>3 DEF CallInv, BoundaryAt
  <2>4. CASE t # Boundary
    BY <1>1, <1>2, <1>5, <2>1, <2>2, <2>4 DEF CallInv, BoundaryAt
  <2> QED BY <2>3, <2>4
<1> QED BY <1>3, <1>4, <1>6

(* What a step to another place does not change.                             *)
LEMMA ModeKept ==
  ASSUME TypeOK, ModeInv, UNCHANGED <<input, mode_vars, files, file_open>>,
         \/ thread'[Boundary].pc = thread[Boundary].pc
         \/ thread'[Boundary].pc \notin Special /\ thread[Boundary].pc # "activate"
  PROVE  ModeInv'
<1>1. UNCHANGED <<Writing, Tracking, UseRanges, Ranges, trim_enabled, trim_current_range, capture_mode, Last>>
  BY DEF mode_vars, Writing, Tracking, UseRanges, Ranges, Last
<1>2. CASE thread'[Boundary].pc = thread[Boundary].pc
  BY <1>1, <1>2 DEF ModeInv, BoundaryAt
<1>3. CASE thread'[Boundary].pc \notin Special /\ thread[Boundary].pc # "activate"
  BY <1>1, <1>3 DEF ModeInv, BoundaryAt, Special
<1> QED BY <1>2, <1>3

(* The boundary thread is the one that gets to the places of boundaries.     *)
LEMMA OnlyBoundary ==
  ASSUME CallInv, NEW t \in Threads,
         thread[t].pc \in {"pre", "end", "deactivate", "next_range", "next_file", "activate", "relock"}
  PROVE  t = Boundary
  BY DEF CallInv

-----------------------------------------------------------------------------
(* The invariant, action by action.                                          *)
File == [snapshot : SUBSET CallIds, calls : SUBSET CallIds, units : SUBSET Nat]

LEMMA LastFileChanged ==
  ASSUME files \in Seq(File), files # <<>>, NEW f \in File
  PROVE  LET new == [files EXCEPT ![Len(files)] = f]
         IN /\ new \in Seq(File) /\ Len(new) = Len(files) /\ new # <<>>
            /\ new[Len(files)] = f
            /\ \A k \in 1..Len(files) : k < Len(files) => new[k] = files[k]
<1>1. Len(files) \in Nat /\ Len(files) > 0
  BY EmptySeq
<1> QED BY <1>1, ExceptSeq, EmptySeq

(* A step of one thread that leaves the mode and the file alone.             *)
LEMMA Moved ==
  ASSUME IInv, NEW t \in Threads, NEW r \in Records, NEW h \in Locks,
         holds' = [holds EXCEPT ![t] = h], thread' = [thread EXCEPT ![t] = r],
         UNCHANGED <<input, mode_vars, files, file_open, state_tracker>>,
         tracked' \subseteq CallIds, count' \in [{"frames", "submits"} -> Nat],
         process' \in {"running", "quit", "crashed"},
         calls' \in [Threads -> Nat],
         \A u \in Threads : calls'[u] <= CallLimit[u] /\ calls'[u] >= calls[u],
         h = "exclusive" => /\ input.force_command_serialization
                            /\ \A u \in Threads \ {t} : holds[u] # "exclusive",
         h = "shared" => ~input.force_command_serialization,
         h = "none" => r.pc = "idle",
         r.pc # "idle" => calls'[t] > 0,
         r.pc \in {"idle", "pre", "encode", "check", "track", "end", "finish"},
         thread[t].pc # "activate",
         r.pc = "pre" => r.kind = "submit",
         r.pc = "end" => r.kind # "call",
         t # Boundary => r.kind = "call" /\ r.pc \in {"idle", "encode", "check", "track", "finish"}
  PROVE  IInv'
<1>1. ThreadType /\ ModeType /\ FilesType /\ ProcessType
  BY TypeParts DEF IInv
<1>2. ThreadType' /\ LockInv' /\ CallInv'
  <2>1. input' = input /\ trim_enabled' = trim_enabled
    BY DEF mode_vars
  <2>2. TypeOK /\ LockInv /\ CallInv
    BY DEF IInv
  <2> QED BY ThreadPart, <2>1, <2>2
<1>3. ModeType' /\ FilesType' /\ ProcessType'
  BY <1>1 DEF ModeType, FilesType, ProcessType, mode_vars, Ranges
<1>4. ModeInv'
  <2>1. Boundary \in Threads /\ thread \in [Threads -> Records]
    BY <1>1, CaptureTrimAssumption DEF ThreadType
  <2>2. \/ thread'[Boundary].pc = thread[Boundary].pc
        \/ thread'[Boundary].pc \notin Special /\ thread[Boundary].pc # "activate"
    BY <2>1 DEF Special
  <2>3. UNCHANGED <<input, mode_vars, files, file_open>> /\ TypeOK /\ ModeInv
    BY DEF IInv
  <2> QED BY <2>2, <2>3, ModeKept
<1> QED BY <1>2, <1>3, <1>4, TypePartsNext DEF IInv

LEMMA BeginStep == ASSUME IInv, NEW t \in Threads, NEW kind \in {"call", "submit", "present"}, Begin(t, kind) PROVE IInv'
<1> DEFINE r == [pc |-> IF kind = "submit" THEN "pre" ELSE "encode", kind |-> kind, next |-> "idle"]
           h == IF input.force_command_serialization THEN "exclusive" ELSE "shared"
<1>1. r \in Records /\ h \in Locks
  BY DEF Records, Locks
<1>2. ThreadType /\ ModeType /\ FilesType /\ ProcessType
  BY TypeParts DEF IInv
<1>3. holds' = [holds EXCEPT ![t] = h] /\ thread' = [thread EXCEPT ![t] = r]
  BY DEF Begin
<1>4. input.force_command_serialization \in BOOLEAN
  BY <1>2, InputFacts DEF ModeType
<1>5. h = "exclusive" => \A u \in Threads \ {t} : holds[u] # "exclusive"
  BY DEF Begin, CanExclude
<1>6. /\ calls' \in [Threads -> Nat]
      /\ \A u \in Threads : calls'[u] <= CallLimit[u] /\ calls'[u] >= calls[u]
      /\ calls'[t] > 0
  <2>1. calls' = [calls EXCEPT ![t] = @ + 1] /\ calls[t] < CallLimit[t]
    BY DEF Begin
  <2>2. calls \in [Threads -> Nat] /\ CallLimit \in [Threads -> Nat]
    BY <1>2, CaptureTrimAssumption DEF ThreadType
  <2>3. \A u \in Threads : calls[u] <= CallLimit[u]
    BY <1>2 DEF ThreadType
  <2> QED BY <2>1, <2>2, <2>3
<1>7. UNCHANGED <<input, mode_vars, files, file_open, state_tracker>>
  BY DEF Begin, capture_vars
<1>8. tracked' \subseteq CallIds /\ count' \in [{"frames", "submits"} -> Nat] /\ process' \in {"running", "quit", "crashed"}
  BY <1>2 DEF Begin, capture_vars, FilesType, ModeType, ProcessType
<1>9. /\ thread[t].pc = "idle" /\ (kind # "call" => t = Boundary)
      /\ r.pc \in {"pre", "encode"} /\ (r.pc = "pre" => r.kind = "submit") /\ r.kind = kind
      /\ (h = "exclusive" <=> input.force_command_serialization) /\ h # "none"
      /\ (r.pc = "pre" => kind = "submit")
  BY DEF Begin, At
<1> HIDE DEF r, h
<1>10. t # Boundary => r.kind = "call" /\ r.pc \in {"idle", "encode", "check", "track", "finish"}
  BY <1>9
<1> QED BY <1>1, <1>3, <1>4, <1>5, <1>6, <1>7, <1>8, <1>9, <1>10, Moved DEF Locks

(* A thread of which only the place changes.                                 *)
LEMMA MovedTo ==
  ASSUME IInv, NEW t \in Threads, NEW pc \in {"encode", "check", "track", "end", "finish"},
         Goto(t, pc), UNCHANGED <<input, mode_vars, files, file_open, state_tracker, calls>>,
         \/ UNCHANGED holds /\ holds[t] # "none"
         \/ /\ holds[t] = "none" /\ ~input.force_command_serialization
            /\ holds' = [holds EXCEPT ![t] = "shared"],
         tracked' \subseteq CallIds, count' \in [{"frames", "submits"} -> Nat],
         process' \in {"running", "quit", "crashed"},
         thread[t].pc \notin {"idle", "activate"},
         pc = "end" => thread[t].kind # "call" /\ t = Boundary
  PROVE  IInv'
<1> DEFINE r == [thread[t] EXCEPT !.pc = pc]
           h == IF holds[t] = "none" THEN "shared" ELSE holds[t]
<1>1. ThreadType /\ ModeType /\ FilesType /\ ProcessType /\ LockInv /\ CallInv
  BY TypeParts DEF IInv
<1>2. holds \in [Threads -> Locks] /\ thread \in [Threads -> Records] /\ calls \in [Threads -> Nat]
  BY <1>1 DEF ThreadType
<1>3. r \in Records /\ r.pc = pc /\ r.kind = thread[t].kind
  BY <1>2 DEF Records
<1>4. h \in Locks /\ h # "none" /\ holds' = [holds EXCEPT ![t] = h]
  BY <1>2 DEF Locks
<1>5. thread' = [thread EXCEPT ![t] = r]
  BY <1>2 DEF Goto
<1>6. /\ h = "exclusive" => /\ input.force_command_serialization
                            /\ \A u \in Threads \ {t} : holds[u] # "exclusive"
      /\ h = "shared" => ~input.force_command_serialization
  BY <1>1, <1>2 DEF LockInv, Locks
<1>7. /\ calls' \in [Threads -> Nat] /\ calls'[t] > 0
      /\ \A u \in Threads : calls'[u] <= CallLimit[u] /\ calls'[u] >= calls[u]
  <2>1. calls' = calls /\ calls[t] > 0
    BY <1>1 DEF CallInv
  <2>2. \A u \in Threads : calls[u] <= CallLimit[u] /\ calls[u] \in Nat
    BY <1>1 DEF ThreadType
  <2> QED BY <1>2, <2>1, <2>2
<1>8. t # Boundary => r.kind = "call" /\ r.pc \in {"idle", "encode", "check", "track", "finish"}
  BY <1>1, <1>3 DEF CallInv
<1> HIDE DEF r, h
<1>9. UNCHANGED <<input, mode_vars, files, file_open, state_tracker>>
  OBVIOUS
<1> QED BY <1>3, <1>4, <1>5, <1>6, <1>7, <1>8, <1>9, Moved

(* A thread in a call that does not wait holds the lock.                     *)
LEMMA Holding ==
  ASSUME IInv, NEW t \in Threads, thread[t].pc \notin Waits \cup {"idle"}
  PROVE  holds[t] # "none"
  BY DEF IInv, LockInv, Waits

LEMMA CheckTrackingStep == ASSUME IInv, NEW t \in Threads, CheckTracking(t) PROVE IInv'
<1> DEFINE pc == IF Tracking THEN "track" ELSE AfterTracking(t)
<1>1. pc \in {"track", "end", "finish"} /\ (pc = "end" => thread[t].kind = "present")
  BY DEF AfterTracking
<1>2. thread[t].pc = "check" /\ Goto(t, pc)
  BY DEF CheckTracking, At
<1>3. TypeOK /\ (thread[t].kind = "present" => t = Boundary)
  BY DEF IInv, CallInv
<1>4. UNCHANGED <<input, mode_vars, files, file_open, state_tracker, calls>> /\ UNCHANGED holds
  BY DEF CheckTracking, capture_vars
<1>5. tracked' \subseteq CallIds /\ count' \in [{"frames", "submits"} -> Nat] /\ process' \in {"running", "quit", "crashed"}
  BY <1>3 DEF CheckTracking, capture_vars, TypeOK
<1>6. holds[t] # "none"
  BY <1>2, Holding DEF Waits
<1> HIDE DEF pc
<1> QED BY <1>1, <1>2, <1>3, <1>4, <1>5, <1>6, MovedTo

LEMMA OwnCall ==
  ASSUME IInv, NEW t \in Threads, thread[t].pc # "idle"
  PROVE  CallOf(t) \in CallIds
<1>1. calls[t] \in 1..CallLimit[t]
  <2>1. calls[t] \in Nat /\ calls[t] <= CallLimit[t] /\ calls[t] > 0 /\ CallLimit[t] \in Nat
    BY CaptureTrimAssumption DEF IInv, TypeOK, CallInv
  <2> QED BY <2>1
<1> QED BY <1>1 DEF CallOf, CallIds

LEMMA TrackStep == ASSUME IInv, NEW t \in Threads, Track(t) PROVE IInv'
<1> DEFINE pc == AfterTracking(t)
<1>1. pc \in {"end", "finish"} /\ (pc = "end" => thread[t].kind = "present")
  BY DEF AfterTracking
<1>2. thread[t].pc = "track" /\ Goto(t, pc)
  BY DEF Track, At
<1>3. TypeOK /\ (thread[t].kind = "present" => t = Boundary)
  BY DEF IInv, CallInv
<1>4. UNCHANGED <<input, mode_vars, files, file_open, state_tracker, calls>> /\ UNCHANGED holds
  BY DEF Track
<1>5. tracked' \subseteq CallIds /\ count' \in [{"frames", "submits"} -> Nat] /\ process' \in {"running", "quit", "crashed"}
  BY <1>2, <1>3, OwnCall DEF Track, TypeOK
<1>6. holds[t] # "none"
  BY <1>2, Holding DEF Waits
<1> HIDE DEF pc
<1> QED BY <1>1, <1>2, <1>3, <1>4, <1>5, <1>6, MovedTo

LEMMA SameState ==
  ASSUME IInv, UNCHANGED <<input, mode_vars, count, capture_vars, thread_vars, calls>>,
         process' \in {"running", "quit", "crashed"}
  PROVE  IInv'
<1>1. TypeOK'
  BY DEF IInv, TypeOK, mode_vars, capture_vars, thread_vars, Ranges
<1>2. LockInv' /\ CallInv'
  BY DEF IInv, LockInv, CallInv, mode_vars, thread_vars, UnitKind, BoundaryAt
<1>3. ModeInv'
  BY DEF IInv, ModeInv, mode_vars, thread_vars, capture_vars, BoundaryAt, Writing, Tracking,
    UseRanges, Ranges, Last
<1> QED BY <1>1, <1>2, <1>3 DEF IInv

LEMMA TrackWithoutTrackerStep == ASSUME IInv, NEW t \in Threads, TrackWithoutTracker(t) PROVE IInv'
  BY SameState DEF TrackWithoutTracker

LEMMA FinishStep == ASSUME IInv, NEW t \in Threads, Finish(t) PROVE IInv'
<1>1. CASE thread[t].kind = "present" /\ capture_mode = {} /\ input.quit_after_frame_ranges
  BY <1>1, SameState DEF Finish
<1>2. CASE ~(thread[t].kind = "present" /\ capture_mode = {} /\ input.quit_after_frame_ranges)
  <2>1. /\ holds' = [holds EXCEPT ![t] = "none"] /\ thread' = [thread EXCEPT ![t] = Idle]
        /\ UNCHANGED process /\ UNCHANGED <<input, mode_vars, count, capture_vars, calls>>
        /\ thread[t].pc = "finish"
    BY <1>2 DEF Finish, At
  <2>2. TypeOK
    BY DEF IInv
  <2>3. Idle \in Records /\ "none" \in Locks /\ Idle.pc = "idle" /\ Idle.kind = "call"
    BY DEF Records, Locks, Idle
  <2>4. UNCHANGED <<input, mode_vars, files, file_open, state_tracker>>
    BY <2>1 DEF capture_vars
  <2>5. tracked' \subseteq CallIds /\ count' \in [{"frames", "submits"} -> Nat] /\ process' \in {"running", "quit", "crashed"}
    BY <2>1, <2>2 DEF capture_vars, TypeOK
  <2>6. /\ calls' \in [Threads -> Nat]
        /\ \A u \in Threads : calls'[u] <= CallLimit[u] /\ calls'[u] >= calls[u]
    <3>1. \A u \in Threads : calls[u] <= CallLimit[u] /\ calls[u] \in Nat
      BY <2>2 DEF TypeOK
    <3> QED BY <2>1, <2>2, <3>1 DEF TypeOK
  <2> QED BY <2>1, <2>3, <2>4, <2>5, <2>6, Moved
<1> QED BY <1>1, <1>2

(* Encoding writes to the last file.                                         *)
LEMMA EncodeFile ==
  ASSUME IInv, NEW t \in Threads, Encode(t), Writing
  PROVE  /\ files' \in Seq(File) /\ Len(files') = Len(files) /\ Len(files) \in Nat /\ Len(files) > 0
         /\ files' # <<>> /\ Last \in File
         /\ Last'.snapshot = Last.snapshot /\ Last'.calls = Last.calls \cup {CallOf(t)}
         /\ Last'.units = Last.units \cup Unit(t)
         /\ \A k \in 1..Len(files) : k < Len(files) => files'[k] = files[k]
<1> DEFINE f == [Last EXCEPT !.calls = Last.calls \cup {CallOf(t)}, !.units = Last.units \cup Unit(t)]
<1>1. files \in Seq(File) /\ files # <<>>
  BY DEF IInv, TypeOK, ModeInv, File
<1>2. Len(files) \in Nat /\ Len(files) > 0 /\ Last \in File
  <2>1. Len(files) \in Nat /\ Len(files) > 0
    BY <1>1, EmptySeq
  <2> QED BY <1>1, <2>1, ElementOfSeq DEF Last
<1>3. Unit(t) \subseteq Nat
  <2>1. input.boundary \in {"frames", "submits"} /\ count \in [{"frames", "submits"} -> Nat]
    BY InputFacts DEF IInv, TypeOK
  <2> QED BY <2>1 DEF Unit
<1>4. CallOf(t) \in CallIds
  BY OwnCall DEF Encode, At
<1>5. f \in File
  BY <1>2, <1>3, <1>4 DEF File
<1>6. files' = [files EXCEPT ![Len(files)] = f]
  <2>1. files' = [files EXCEPT ![Len(files)].calls = @ \cup {CallOf(t)}, ![Len(files)].units = @ \cup Unit(t)]
    BY DEF Encode
  <2>3. DOMAIN files = 1..Len(files)
    BY <1>1
  <2> QED BY <1>1, <1>2, <2>1, <2>3 DEF Last
<1>9. f.snapshot = Last.snapshot /\ f.calls = Last.calls \cup {CallOf(t)} /\ f.units = Last.units \cup Unit(t)
  BY <1>2 DEF File
<1> HIDE DEF f
<1>7. /\ files' \in Seq(File) /\ Len(files') = Len(files) /\ files' # <<>>
      /\ files'[Len(files)] = f
      /\ \A k \in 1..Len(files) : k < Len(files) => files'[k] = files[k]
  BY <1>1, <1>5, <1>6, LastFileChanged
<1>8. Last' = f
  BY <1>7 DEF Last
<1> QED BY <1>2, <1>7, <1>8, <1>9

LEMMA EncodeStep == ASSUME IInv, NEW t \in Threads, Encode(t) PROVE IInv'
<1> DEFINE pc == IF thread[t].kind = "submit" THEN "end" ELSE "check"
           r == [thread[t] EXCEPT !.pc = pc]
<1>1. CASE ~Writing
  <2>1. pc \in {"check", "end"} /\ (pc = "end" => thread[t].kind = "submit")
    OBVIOUS
  <2>2. thread[t].pc = "encode" /\ Goto(t, pc)
    BY DEF Encode, At
  <2>3. TypeOK /\ (thread[t].kind = "submit" => t = Boundary)
    BY DEF IInv, CallInv
  <2>4. UNCHANGED <<input, mode_vars, files, file_open, state_tracker, calls>> /\ UNCHANGED holds
    BY <1>1 DEF Encode
  <2>5. tracked' \subseteq CallIds /\ count' \in [{"frames", "submits"} -> Nat] /\ process' \in {"running", "quit", "crashed"}
    BY <2>3 DEF Encode, TypeOK
  <2>6. holds[t] # "none"
    BY <2>2, Holding DEF Waits
  <2> HIDE DEF pc
  <2> QED BY <2>1, <2>2, <2>3, <2>4, <2>5, <2>6, MovedTo
<1>2. CASE Writing
  <2>1. ThreadType /\ ModeType /\ FilesType /\ ProcessType /\ TypeOK /\ LockInv /\ CallInv /\ ModeInv
    BY TypeParts DEF IInv
  <2>2. holds \in [Threads -> Locks] /\ thread \in [Threads -> Records] /\ calls \in [Threads -> Nat]
        /\ \A u \in Threads : calls[u] <= CallLimit[u]
    BY <2>1 DEF ThreadType
  <2>3. /\ pc \in {"check", "end"} /\ (pc = "end" => thread[t].kind = "submit")
        /\ thread[t].pc = "encode" /\ (t # Boundary => thread[t].kind = "call" /\ pc = "check")
        /\ (thread[t].kind = "submit" => t = Boundary) /\ calls[t] > 0 /\ holds[t] # "none"
    BY <2>1, Holding DEF Encode, At, CallInv, Waits
  <2>4. r \in Records /\ r.pc = pc /\ r.kind = thread[t].kind
    BY <2>2, <2>3 DEF Records
  <2>5. /\ thread' = [thread EXCEPT ![t] = r] /\ holds' = [holds EXCEPT ![t] = holds[t]]
        /\ holds[t] \in Locks /\ input' = input /\ calls' = calls /\ trim_enabled' = trim_enabled
    BY <2>2 DEF Encode, Goto, mode_vars
  <2>6. /\ holds[t] = "exclusive" => /\ input.force_command_serialization
                                     /\ \A u \in Threads \ {t} : holds[u] # "exclusive"
        /\ holds[t] = "shared" => ~input.force_command_serialization
    BY <2>1 DEF LockInv
  <2> HIDE DEF pc, r
  <2>7. calls' \in [Threads -> Nat] /\ \A u \in Threads : calls'[u] <= CallLimit[u] /\ calls'[u] >= calls[u]
    <3>1. \A u \in Threads : calls[u] \in Nat
      BY <2>2
    <3> QED BY <2>2, <2>5, <3>1
  <2>8. t = Boundary => r.pc \notin {"deactivate", "next_range", "next_file"} /\ r.pc \notin {"activate", "relock"}
    BY <2>3, <2>4
  <2>9. /\ t # Boundary => /\ r.kind = "call" /\ r.pc \in {"idle", "encode", "check", "track", "finish"}
                           /\ trim_enabled' = trim_enabled
        /\ r.pc # "idle" => calls'[t] > 0
        /\ r.pc = "pre" => r.kind = "submit"
        /\ r.pc = "end" => r.kind # "call"
    BY <2>3, <2>4, <2>5
  <2>10. ThreadType' /\ LockInv' /\ CallInv'
    <3>1. input' = input
      BY <2>5
    <3> QED BY <2>1, <2>3, <2>4, <2>5, <2>6, <2>7, <2>8, <2>9, <3>1, ThreadPart
  <2>11. ModeType' /\ ProcessType'
    BY <2>1 DEF ModeType, ProcessType, Encode, mode_vars, Ranges
  <2>12. files' # <<>> /\ FilesType'
    BY <1>2, <2>1, EncodeFile DEF FilesType, Encode, File
  <2>13. ModeInv'
    <3>1. UNCHANGED <<Writing, Tracking, UseRanges, Ranges, trim_enabled, trim_current_range, capture_mode, file_open>>
      BY DEF Encode, mode_vars, Writing, Tracking, UseRanges, Ranges
    <3>2. \/ thread'[Boundary] = thread[Boundary]
          \/ thread'[Boundary].pc \in {"check", "end"}
      BY <2>2, <2>3, <2>4, <2>5, CaptureTrimAssumption
    <3>3. ~BoundaryAt({"activate"})' /\ trim_enabled
      BY <1>2, <2>1, <3>2 DEF ModeInv, BoundaryAt, Writing
    <3>5. /\ BoundaryAt({"deactivate"})' => BoundaryAt({"deactivate"})
          /\ BoundaryAt({"next_range", "next_file", "activate"})' => BoundaryAt({"next_range", "next_file", "activate"})
          /\ BoundaryAt({"next_file", "activate"})' => BoundaryAt({"next_file", "activate"})
      BY <3>2 DEF BoundaryAt
    <3>6. ~BoundaryAt({"activate"})
      BY <1>2, <2>1 DEF ModeInv, BoundaryAt
    <3> QED BY <1>2, <2>1, <2>12, <3>1, <3>3, <3>5, <3>6 DEF ModeInv
  <2> QED BY <2>10, <2>11, <2>12, <2>13, TypePartsNext DEF IInv
<1> QED BY <1>1, <1>2

(* The boundary thread goes on to place and call r of the same kind.         *)
LEMMA BoundaryPart ==
  ASSUME IInv, thread[Boundary].pc # "idle",
         NEW r \in Records, r.kind = thread[Boundary].kind,
         NEW h \in Locks, holds' = [holds EXCEPT ![Boundary] = h],
         thread' = [thread EXCEPT ![Boundary] = r], input' = input, calls' = calls,
         h = "exclusive" => holds[Boundary] = "exclusive",
         h = "shared" => ~input.force_command_serialization,
         h = "none" => r.pc \in Waits /\ ~input.force_command_serialization,
         r.pc # "pre", r.pc # "idle", r.pc # "end",
         r.pc \in {"deactivate", "next_range", "next_file"} =>
                /\ trim_enabled'
                /\ r.kind = UnitKind
                /\ r.next = IF UnitKind = "present" THEN "finish" ELSE "check",
         r.pc \in {"activate", "relock"} =>
                /\ r.kind = UnitKind
                /\ r.next \in IF UnitKind = "present" THEN {"finish"} ELSE {"encode", "check"}
  PROVE  ThreadType' /\ LockInv' /\ CallInv'
<1>1. TypeOK /\ LockInv /\ CallInv /\ ThreadType /\ Boundary \in Threads
  BY TypeParts, CaptureTrimAssumption DEF IInv
<1>2. /\ calls' \in [Threads -> Nat] /\ calls'[Boundary] > 0
      /\ \A u \in Threads : calls'[u] <= CallLimit[u] /\ calls'[u] >= calls[u]
  <2>1. calls \in [Threads -> Nat] /\ calls[Boundary] > 0 /\ \A u \in Threads : calls[u] <= CallLimit[u]
    BY <1>1 DEF ThreadType, CallInv
  <2>2. \A u \in Threads : calls[u] \in Nat
    BY <2>1
  <2> QED BY <2>1, <2>2
<1>3. h = "exclusive" => /\ input.force_command_serialization
                         /\ \A u \in Threads \ {Boundary} : holds[u] # "exclusive"
  BY <1>1 DEF LockInv
<1> QED BY <1>1, <1>2, <1>3, ThreadPart

LEMMA Appended ==
  ASSUME files \in Seq(File), files' = Append(files, NewFile)
  PROVE  /\ files' \in Seq(File) /\ Len(files') = Len(files) + 1 /\ files' # <<>> /\ Len(files) \in Nat
         /\ Last' = NewFile
         /\ \A k \in 1..Len(files) : files'[k] = files[k]
<1>1. NewFile \in File
  BY DEF NewFile, File
<1>2. files' \in Seq(File) /\ Len(files') = Len(files) + 1 /\ Len(files) \in Nat
  BY <1>1, AppendProperties, LenProperties
<1>3. Last' = NewFile /\ \A k \in 1..Len(files) : files'[k] = files[k]
  BY <1>1, <1>2, AppendProperties DEF Last
<1> QED BY <1>2, <1>3, EmptySeq

(* The changes of the lock, as steps of ThreadPart.                          *)
LEMMA Released ==
  ASSUME IInv, NEW t \in Threads, Release(t)
  PROVE  \E h \in Locks : /\ holds' = [holds EXCEPT ![t] = h]
                          /\ h = "exclusive" => holds[t] = "exclusive"
                          /\ h # "shared"
                          /\ h = "none" => holds[t] \in {"none", "shared"}
<1>1. holds \in [Threads -> Locks]
  BY DEF IInv, TypeOK, Locks
<1> DEFINE h == IF holds[t] = "shared" THEN "none" ELSE holds[t]
<1>2. h \in Locks /\ holds' = [holds EXCEPT ![t] = h]
  BY <1>1 DEF Release, Locks
<1>3. /\ h = "exclusive" => holds[t] = "exclusive"
      /\ h # "shared"
      /\ h = "none" => holds[t] \in {"none", "shared"}
  OBVIOUS
<1> QED BY <1>2, <1>3

(* No lock: with the shared lock one waits for the exclusive one.            *)
LEMMA NotForced ==
  ASSUME IInv, NEW t \in Threads, thread[t].pc # "idle", holds[t] \in {"none", "shared"}
  PROVE  ~input.force_command_serialization
  BY DEF IInv, LockInv

LEMMA StartCaptureStep ==
  ASSUME IInv, NEW now \in Nat, NEW next \in {"encode", "check", "finish"},
         StartCapture(Boundary, now, next),
         UNCHANGED <<input, calls, process>>, count' \in [{"frames", "submits"} -> Nat],
         thread[Boundary].pc \in {"pre", "end", "next_file"}, thread[Boundary].kind = UnitKind,
         next \in IF UnitKind = "present" THEN {"finish"} ELSE {"encode", "check"},
         trim_enabled, Tracking, ~Writing
  PROVE  IInv'
<1>1. ThreadType /\ ModeType /\ FilesType /\ ProcessType /\ TypeOK /\ LockInv /\ CallInv /\ ModeInv
  BY TypeParts DEF IInv
<1>2. Boundary \in Threads /\ thread \in [Threads -> Records] /\ holds \in [Threads -> Locks]
  BY <1>1, CaptureTrimAssumption DEF ThreadType
<1>3. trim_current_range' = trim_current_range /\ state_tracker' = state_tracker /\ tracked' = tracked
  BY DEF StartCapture
<1>4. ProcessType'
  BY <1>1 DEF ProcessType
<1>5. CASE FileCreated(Boundary, next) /\ trim_key_first' = IF UseRanges THEN trim_key_first ELSE now
  <2> DEFINE r == [thread[Boundary] EXCEPT !.pc = "activate", !.next = next]
  <2>1. /\ r \in Records /\ r.pc = "activate" /\ r.kind = thread[Boundary].kind /\ r.next = next
        /\ thread' = [thread EXCEPT ![Boundary] = r]
    BY <1>2, <1>5 DEF Records, FileCreated
  <2> HIDE DEF r
  <2>2. ThreadType' /\ LockInv' /\ CallInv'
    <3>1. PICK h \in Locks : /\ holds' = [holds EXCEPT ![Boundary] = h]
                             /\ h = "exclusive" => holds[Boundary] = "exclusive"
                             /\ h # "shared"
                             /\ h = "none" => holds[Boundary] \in {"none", "shared"}
      BY <1>2, <1>5, Released DEF FileCreated
    <3>2. h = "none" => r.pc \in Waits /\ ~input.force_command_serialization
      BY <1>2, <2>1, <3>1, NotForced DEF Waits
    <3>3. input' = input /\ calls' = calls /\ thread[Boundary].pc # "idle"
      OBVIOUS
    <3> QED BY <2>1, <3>1, <3>2, <3>3, BoundaryPart
  <2>3. /\ files' \in Seq(File) /\ files' # <<>> /\ Last' = NewFile
        /\ file_open' = TRUE /\ capture_mode' = capture_mode /\ trim_enabled' = trim_enabled
    BY <1>1, <1>5, Appended DEF FileCreated, FilesType, File
  <2>4. FilesType' /\ ModeType'
    BY <1>1, <1>3, <1>5, <2>3 DEF FilesType, File, ModeType, Ranges
  <2>5. ModeInv'
    <3>1. UNCHANGED <<Writing, Tracking, UseRanges, Ranges>>
      BY <2>3 DEF Writing, Tracking, UseRanges, Ranges
    <3>2. thread'[Boundary].pc = "activate"
      BY <1>2, <2>1
    <3> QED BY <1>1, <1>3, <2>3, <3>1, <3>2 DEF ModeInv, BoundaryAt
  <2> QED BY <1>4, <2>2, <2>4, <2>5, TypePartsNext DEF IInv
<1>6. CASE FileFailed(Boundary, next) /\ UNCHANGED <<holds, trim_key_first>>
  <2> DEFINE r == [thread[Boundary] EXCEPT !.pc = next]
  <2>1. /\ r \in Records /\ r.pc = next /\ r.kind = thread[Boundary].kind
        /\ thread' = [thread EXCEPT ![Boundary] = r]
    BY <1>2, <1>6 DEF Records, FileFailed, Goto
  <2>2. r.pc \in {"encode", "check", "finish"}
    BY <2>1
  <2> HIDE DEF r
  <2>3. ThreadType' /\ LockInv' /\ CallInv'
    <3>1. /\ holds[Boundary] \in Locks /\ holds[Boundary] # "none"
          /\ holds' = [holds EXCEPT ![Boundary] = holds[Boundary]]
          /\ holds[Boundary] = "shared" => ~input.force_command_serialization
      BY <1>1, <1>2, <1>6, Holding DEF Waits, LockInv
    <3>2. input' = input /\ calls' = calls /\ thread[Boundary].pc # "idle"
      OBVIOUS
    <3> QED BY <2>1, <2>2, <3>1, <3>2, BoundaryPart
  <2>4. /\ file_open' = FALSE /\ files' = files /\ capture_mode' = {} /\ trim_enabled' = FALSE
        /\ trim_key_first' = trim_key_first
    BY <1>6 DEF FileFailed
  <2>5. FilesType' /\ ModeType'
    BY <1>1, <1>3, <2>4 DEF FilesType, ModeType, Ranges
  <2>6. ModeInv'
    <3>1. ~(Writing') /\ thread'[Boundary].pc \in {"encode", "check", "finish"}
      BY <1>2, <2>1, <2>2, <2>4 DEF Writing
    <3> QED BY <2>4, <3>1 DEF ModeInv, BoundaryAt
  <2> QED BY <1>4, <2>3, <2>5, <2>6, TypePartsNext DEF IInv
<1> QED BY <1>5, <1>6 DEF StartCapture

LEMMA StopCaptureStep ==
  ASSUME IInv, NEW next \in {"check", "finish"}, StopCapture(Boundary, next),
         UNCHANGED <<input, calls, process>>, count' \in [{"frames", "submits"} -> Nat],
         thread[Boundary].pc = "end", thread[Boundary].kind = UnitKind,
         next = IF UnitKind = "present" THEN "finish" ELSE "check",
         trim_enabled, Writing
  PROVE  IInv'
<1>1. ThreadType /\ ModeType /\ FilesType /\ ProcessType /\ TypeOK /\ LockInv /\ CallInv /\ ModeInv
  BY TypeParts DEF IInv
<1>2. Boundary \in Threads /\ thread \in [Threads -> Records] /\ holds \in [Threads -> Locks]
  BY <1>1, CaptureTrimAssumption DEF ThreadType
<1> DEFINE r == [thread[Boundary] EXCEPT !.pc = "deactivate", !.next = next]
<1>3. /\ r \in Records /\ r.pc = "deactivate" /\ r.kind = thread[Boundary].kind /\ r.next = next
      /\ thread' = [thread EXCEPT ![Boundary] = r]
  BY <1>2 DEF Records, StopCapture
<1>4. trim_enabled' = trim_enabled
  BY DEF StopCapture, mode_vars
<1> HIDE DEF r
<1>5. ThreadType' /\ LockInv' /\ CallInv'
  <2>1. PICK h \in Locks : /\ holds' = [holds EXCEPT ![Boundary] = h]
                           /\ h = "exclusive" => holds[Boundary] = "exclusive"
                           /\ h # "shared"
                           /\ h = "none" => holds[Boundary] \in {"none", "shared"}
    BY <1>2, Released DEF StopCapture
  <2>2. h = "none" => r.pc \in Waits /\ ~input.force_command_serialization
    BY <1>2, <1>3, <2>1, NotForced DEF Waits
  <2>3. input' = input /\ calls' = calls /\ thread[Boundary].pc # "idle"
    OBVIOUS
  <2> QED BY <1>3, <1>4, <2>1, <2>2, <2>3, BoundaryPart
<1>6. FilesType' /\ ModeType' /\ ProcessType'
  BY <1>1 DEF FilesType, ModeType, ProcessType, StopCapture, mode_vars, capture_vars, Ranges
<1>7. ModeInv'
  <2>1. UNCHANGED <<Writing, Tracking, UseRanges, Ranges, Last, trim_enabled, capture_mode, trim_current_range, file_open, files>>
    BY DEF Writing, Tracking, UseRanges, Ranges, Last, StopCapture, mode_vars, capture_vars
  <2>2. thread'[Boundary].pc = "deactivate"
    BY <1>2, <1>3
  <2>3. trim_enabled /\ Writing /\ thread[Boundary].pc = "end"
    OBVIOUS
  <2> QED BY <1>1, <2>1, <2>2, <2>3 DEF ModeInv, BoundaryAt
<1> QED BY <1>5, <1>6, <1>7, TypePartsNext DEF IInv

LEMMA ContinueStep ==
  ASSUME IInv, NEW next \in {"encode", "check", "finish"}, Continue(Boundary, next),
         UNCHANGED <<input, calls, process>>, count' \in [{"frames", "submits"} -> Nat],
         thread[Boundary].pc \in {"pre", "end"}
  PROVE  IInv'
<1>1. TypeOK /\ Boundary \in Threads
  BY CaptureTrimAssumption DEF IInv
<1>2. /\ UNCHANGED <<input, mode_vars, files, file_open, state_tracker, calls>> /\ UNCHANGED holds
      /\ tracked' \subseteq CallIds /\ process' \in {"running", "quit", "crashed"}
      /\ Goto(Boundary, next)
  BY <1>1 DEF Continue, capture_vars, TypeOK
<1>3. holds[Boundary] # "none"
  BY <1>1, Holding DEF Waits
<1> QED BY <1>1, <1>2, <1>3, MovedTo

(* What the calls at a boundary do, with what is known when they do it.      *)
Starts(now, next) ==
  /\ StartCapture(Boundary, now, next)
  /\ thread[Boundary].kind = UnitKind /\ trim_enabled /\ Tracking /\ ~Writing
Stops(next) ==
  /\ StopCapture(Boundary, next)
  /\ thread[Boundary].kind = UnitKind /\ trim_enabled /\ Writing
  /\ next = IF UnitKind = "present" THEN "finish" ELSE "check"

LEMMA PreQueueSubmitCases ==
  ASSUME IInv, NEW t \in Threads, NEW fired \in BOOLEAN, PreQueueSubmit(t, fired)
  PROVE  /\ t = Boundary /\ thread[Boundary].pc = "pre" /\ thread[Boundary].kind = "submit"
         /\ count' = count /\ UNCHANGED <<input, calls, process>>
         /\ \/ /\ Starts(Now, "encode") /\ UnitKind = "submit"
               /\ StartsAt(Now, fired)
            \/ Continue(Boundary, "encode")
<1>1. thread[t].pc = "pre" /\ t = Boundary /\ thread[Boundary].kind = "submit"
  <2>1. thread[t].pc = "pre"
    BY DEF PreQueueSubmit, At
  <2> QED BY <2>1, OnlyBoundary DEF IInv, CallInv
<1>2. count' = count /\ UNCHANGED <<input, calls, process>>
  BY DEF PreQueueSubmit
<1>3. CASE trim_enabled /\ input.boundary = "submits" /\ Tracking /\ ~Writing /\ StartsAt(count.submits, fired)
  <2>1. StartCapture(Boundary, count.submits, "encode")
    BY <1>1, <1>3 DEF PreQueueSubmit
  <2>2. Now = count.submits /\ UnitKind = "submit"
    BY <1>3 DEF Now, UnitKind
  <2> QED BY <1>1, <1>2, <1>3, <2>1, <2>2 DEF Starts
<1>4. CASE ~(trim_enabled /\ input.boundary = "submits" /\ Tracking /\ ~Writing /\ StartsAt(count.submits, fired))
  <2>1. Continue(Boundary, "encode")
    BY <1>1, <1>4 DEF PreQueueSubmit
  <2> QED BY <1>1, <1>2, <2>1
<1> QED BY <1>3, <1>4

(* The counter of the boundary goes up, or another counter does.             *)
Counted(t) ==
  /\ t = Boundary /\ thread[Boundary].pc = "end" /\ UNCHANGED <<input, calls, process>>
  /\ count' \in [{"frames", "submits"} -> Nat]
  /\ Now \in Nat /\ Now' = IF thread[Boundary].kind = UnitKind THEN Now + 1 ELSE Now

LEMMA EndFrameCases ==
  ASSUME IInv, NEW t \in Threads, NEW fired \in BOOLEAN, EndFrame(t, fired)
  PROVE  /\ Counted(t) /\ thread[Boundary].kind = "present"
         /\ \/ Stops("finish") /\ UnitKind = "present" /\ StopsAt(Now', fired)
            \/ Starts(Now', "finish") /\ UnitKind = "present" /\ StartsAt(Now', fired)
            \/ /\ Continue(Boundary, "finish")
               /\ UnitKind = "present" /\ trim_enabled /\ Writing => ~StopsAt(Now', fired)
<1>1. thread[t].pc = "end" /\ t = Boundary /\ thread[Boundary].kind = "present"
  <2>1. thread[t].pc = "end" /\ thread[t].kind = "present"
    BY DEF EndFrame, At
  <2> QED BY <2>1, OnlyBoundary DEF IInv
<1>2. input.boundary \in {"frames", "submits"} /\ count \in [{"frames", "submits"} -> Nat] /\ input' = input
  BY InputFacts DEF IInv, TypeOK, EndFrame
<1>3. count' = [count EXCEPT !.frames = count.frames + 1] /\ count.frames \in Nat
  BY <1>2 DEF EndFrame
<1>4. /\ count' \in [{"frames", "submits"} -> Nat] /\ count'.frames = count.frames + 1 /\ count'.submits = count.submits
      /\ count.submits \in Nat
  BY <1>2, <1>3
<1>5. Counted(t)
  <2>1. CASE input.boundary = "frames"
    <3>1. UnitKind = "present" /\ Now = count.frames /\ Now' = count'.frames
      BY <1>2, <2>1 DEF UnitKind, Now
    <3> QED BY <1>1, <1>3, <1>4, <3>1 DEF Counted, EndFrame
  <2>2. CASE input.boundary = "submits"
    <3>1. UnitKind = "submit" /\ Now = count.submits /\ Now' = count'.submits
      BY <1>2, <2>2 DEF UnitKind, Now
    <3> QED BY <1>1, <1>3, <1>4, <3>1 DEF Counted, EndFrame
  <2> QED BY <1>2, <2>1, <2>2
<1>6. CASE trim_enabled /\ input.boundary = "frames" /\ Writing /\ StopsAt(count'.frames, fired)
  <2>1. StopCapture(t, "finish")
    BY <1>6 DEF EndFrame
  <2>2. UnitKind = "present" /\ Now' = count'.frames
    BY <1>2, <1>6 DEF UnitKind, Now
  <2> QED BY <1>1, <1>5, <1>6, <2>1, <2>2 DEF Stops
<1>7. CASE /\ ~(trim_enabled /\ input.boundary = "frames" /\ Writing /\ StopsAt(count'.frames, fired))
           /\ trim_enabled /\ input.boundary = "frames" /\ ~Writing /\ Tracking /\ StartsAt(count'.frames, fired)
  <2>1. StartCapture(t, count'.frames, "finish")
    BY <1>7 DEF EndFrame
  <2>2. UnitKind = "present" /\ Now' = count'.frames
    BY <1>2, <1>7 DEF UnitKind, Now
  <2> QED BY <1>1, <1>5, <1>7, <2>1, <2>2 DEF Starts
<1>8. CASE /\ ~(trim_enabled /\ input.boundary = "frames" /\ Writing /\ StopsAt(count'.frames, fired))
           /\ ~(trim_enabled /\ input.boundary = "frames" /\ ~Writing /\ Tracking /\ StartsAt(count'.frames, fired))
  <2>1. Continue(t, "finish")
    BY <1>8 DEF EndFrame
  <2>2. UnitKind = "present" => input.boundary = "frames" /\ Now' = count'.frames
    BY <1>2 DEF UnitKind, Now
  <2>3. UnitKind = "present" /\ trim_enabled /\ Writing => ~StopsAt(Now', fired)
    BY <1>8, <2>2
  <2> QED BY <1>1, <1>5, <2>1, <2>3
<1> QED BY <1>6, <1>7, <1>8

LEMMA PostQueueSubmitCases ==
  ASSUME IInv, NEW t \in Threads, NEW fired \in BOOLEAN, PostQueueSubmit(t, fired)
  PROVE  /\ Counted(t) /\ thread[Boundary].kind = "submit"
         /\ \/ Stops("check") /\ UnitKind = "submit" /\ StopsAt(Now', fired)
            \/ /\ Continue(Boundary, "check")
               /\ UnitKind = "submit" /\ trim_enabled /\ Writing => ~StopsAt(Now', fired)
<1>1. thread[t].pc = "end" /\ t = Boundary /\ thread[Boundary].kind = "submit"
  <2>1. thread[t].pc = "end" /\ thread[t].kind = "submit"
    BY DEF PostQueueSubmit, At
  <2> QED BY <2>1, OnlyBoundary DEF IInv
<1>2. input.boundary \in {"frames", "submits"} /\ count \in [{"frames", "submits"} -> Nat] /\ input' = input
  BY InputFacts DEF IInv, TypeOK, PostQueueSubmit
<1>3. count' = [count EXCEPT !.submits = count.submits + 1] /\ count.submits \in Nat
  BY <1>2 DEF PostQueueSubmit
<1>4. /\ count' \in [{"frames", "submits"} -> Nat] /\ count'.submits = count.submits + 1 /\ count'.frames = count.frames
      /\ count.frames \in Nat
  BY <1>2, <1>3
<1>5. Counted(t)
  <2>1. CASE input.boundary = "frames"
    <3>1. UnitKind = "present" /\ Now = count.frames /\ Now' = count'.frames
      BY <1>2, <2>1 DEF UnitKind, Now
    <3> QED BY <1>1, <1>3, <1>4, <3>1 DEF Counted, PostQueueSubmit
  <2>2. CASE input.boundary = "submits"
    <3>1. UnitKind = "submit" /\ Now = count.submits /\ Now' = count'.submits
      BY <1>2, <2>2 DEF UnitKind, Now
    <3> QED BY <1>1, <1>3, <1>4, <3>1 DEF Counted, PostQueueSubmit
  <2> QED BY <1>2, <2>1, <2>2
<1>6. CASE trim_enabled /\ input.boundary = "submits" /\ Writing /\ StopsAt(count'.submits, fired)
  <2>1. StopCapture(t, "check")
    BY <1>6 DEF PostQueueSubmit
  <2>2. UnitKind = "submit" /\ Now' = count'.submits
    BY <1>2, <1>6 DEF UnitKind, Now
  <2> QED BY <1>1, <1>5, <1>6, <2>1, <2>2 DEF Stops
<1>7. CASE ~(trim_enabled /\ input.boundary = "submits" /\ Writing /\ StopsAt(count'.submits, fired))
  <2>1. Continue(t, "check")
    BY <1>7 DEF PostQueueSubmit
  <2>2. UnitKind = "submit" => input.boundary = "submits" /\ Now' = count'.submits
    BY <1>2 DEF UnitKind, Now
  <2>3. UnitKind = "submit" /\ trim_enabled /\ Writing => ~StopsAt(Now', fired)
    BY <1>7, <2>2
  <2> QED BY <1>1, <1>5, <2>1, <2>3
<1> QED BY <1>6, <1>7

LEMMA NowIsNat == ASSUME IInv PROVE Now \in Nat
<1>1. input.boundary \in {"frames", "submits"} /\ count \in [{"frames", "submits"} -> Nat]
  BY InputFacts DEF IInv, TypeOK
<1> QED BY <1>1 DEF Now

LEMMA PreQueueSubmitStep ==
  ASSUME IInv, NEW t \in Threads, NEW fired \in BOOLEAN, PreQueueSubmit(t, fired)
  PROVE  IInv'
<1>1. /\ thread[Boundary].pc = "pre" /\ UNCHANGED <<input, calls, process>>
      /\ count' \in [{"frames", "submits"} -> Nat]
  BY PreQueueSubmitCases DEF IInv, TypeOK
<1>2. CASE Starts(Now, "encode") /\ UnitKind = "submit"
  BY <1>1, <1>2, NowIsNat, StartCaptureStep DEF Starts
<1>3. CASE Continue(Boundary, "encode")
  BY <1>1, <1>3, ContinueStep
<1> QED BY <1>2, <1>3, PreQueueSubmitCases

LEMMA EndFrameStep ==
  ASSUME IInv, NEW t \in Threads, NEW fired \in BOOLEAN, EndFrame(t, fired)
  PROVE  IInv'
<1>1. /\ thread[Boundary].pc = "end" /\ UNCHANGED <<input, calls, process>>
      /\ count' \in [{"frames", "submits"} -> Nat] /\ Now' \in Nat
  BY EndFrameCases DEF Counted
<1>2. CASE Stops("finish")
  BY <1>1, <1>2, StopCaptureStep DEF Stops
<1>3. CASE Starts(Now', "finish") /\ UnitKind = "present"
  BY <1>1, <1>3, StartCaptureStep DEF Starts
<1>4. CASE Continue(Boundary, "finish")
  BY <1>1, <1>4, ContinueStep
<1> QED BY <1>2, <1>3, <1>4, EndFrameCases

LEMMA PostQueueSubmitStep ==
  ASSUME IInv, NEW t \in Threads, NEW fired \in BOOLEAN, PostQueueSubmit(t, fired)
  PROVE  IInv'
<1>1. /\ thread[Boundary].pc = "end" /\ UNCHANGED <<input, calls, process>>
      /\ count' \in [{"frames", "submits"} -> Nat]
  BY PostQueueSubmitCases DEF Counted
<1>2. CASE Stops("check")
  BY <1>1, <1>2, StopCaptureStep DEF Stops
<1>3. CASE Continue(Boundary, "check")
  BY <1>1, <1>3, ContinueStep
<1> QED BY <1>2, <1>3, PostQueueSubmitCases

LEMMA NextFileCases ==
  ASSUME IInv, NEW t \in Threads, NextFile(t)
  PROVE  /\ t = Boundary /\ thread[Boundary].pc = "next_file"
         /\ UNCHANGED <<input, count, calls, process>> /\ count' \in [{"frames", "submits"} -> Nat]
         /\ Starts(Now, thread[Boundary].next)
         /\ thread[Boundary].next = IF UnitKind = "present" THEN "finish" ELSE "check"
<1>1. t = Boundary /\ thread[Boundary].pc = "next_file"
  BY OnlyBoundary DEF IInv, NextFile, At
<1>2. /\ trim_enabled /\ thread[Boundary].kind = UnitKind /\ Tracking /\ ~Writing
      /\ thread[Boundary].next = IF UnitKind = "present" THEN "finish" ELSE "check"
  BY <1>1 DEF IInv, CallInv, ModeInv, BoundaryAt
<1>3. UNCHANGED <<input, count, calls, process>> /\ count' \in [{"frames", "submits"} -> Nat]
  BY DEF NextFile, IInv, TypeOK
<1>4. StartCapture(Boundary, Now, thread[Boundary].next)
  BY <1>1 DEF NextFile, Now
<1> QED BY <1>1, <1>2, <1>3, <1>4 DEF Starts

LEMMA NextFileStep == ASSUME IInv, NEW t \in Threads, NextFile(t) PROVE IInv'
<1>1. UNCHANGED <<input, calls, process>> /\ thread[Boundary].next \in {"encode", "check", "finish"}
      /\ thread[Boundary].next \in IF UnitKind = "present" THEN {"finish"} ELSE {"encode", "check"}
  BY NextFileCases
<1> QED BY <1>1, NextFileCases, NowIsNat, StartCaptureStep DEF Starts

(* The steps under, or after, the exclusive lock.                            *)
LEMMA DeactivateStep == ASSUME IInv, NEW t \in Threads, DeactivateTrimming(t) PROVE IInv'
<1>1. ThreadType /\ ModeType /\ FilesType /\ ProcessType /\ TypeOK /\ LockInv /\ CallInv /\ ModeInv
  BY TypeParts DEF IInv
<1>2. t = Boundary /\ thread[Boundary].pc = "deactivate"
  BY <1>1, OnlyBoundary DEF DeactivateTrimming, At
<1>3. Boundary \in Threads /\ thread \in [Threads -> Records] /\ holds \in [Threads -> Locks]
  BY <1>1, CaptureTrimAssumption DEF ThreadType
<1>4. /\ input' = input /\ calls' = calls /\ holds' = holds /\ files' = files /\ file_open' = FALSE
      /\ capture_mode' = capture_mode \ {"write"} /\ trim_enabled' = trim_enabled
      /\ trim_current_range' = trim_current_range /\ trim_key_first' = trim_key_first
      /\ count' = count /\ state_tracker' = state_tracker /\ tracked' = tracked /\ process' = process
  BY DEF DeactivateTrimming
<1> DEFINE r == [thread[Boundary] EXCEPT !.pc = "next_range"]
<1>5. /\ r \in Records /\ r.pc = "next_range" /\ r.kind = thread[Boundary].kind /\ r.next = thread[Boundary].next
      /\ thread' = [thread EXCEPT ![Boundary] = r]
  BY <1>2, <1>3 DEF Records, DeactivateTrimming, Goto
<1> HIDE DEF r
<1>6. /\ trim_enabled /\ thread[Boundary].kind = UnitKind
      /\ thread[Boundary].next = IF UnitKind = "present" THEN "finish" ELSE "check"
  BY <1>1, <1>2 DEF CallInv, BoundaryAt
<1>7. /\ holds[Boundary] \in Locks /\ holds' = [holds EXCEPT ![Boundary] = holds[Boundary]]
      /\ holds[Boundary] = "shared" => ~input.force_command_serialization
      /\ holds[Boundary] = "none" => r.pc \in Waits /\ ~input.force_command_serialization
  BY <1>1, <1>2, <1>3, <1>4, <1>5 DEF LockInv, Waits
<1>8. ThreadType' /\ LockInv' /\ CallInv'
  BY <1>2, <1>4, <1>5, <1>6, <1>7, BoundaryPart
<1>9. FilesType' /\ ModeType' /\ ProcessType'
  BY <1>1, <1>4 DEF FilesType, ModeType, ProcessType, Ranges
<1>10. ModeInv'
  <2>1. ~(Writing') /\ (Tracking' <=> Tracking) /\ UNCHANGED <<UseRanges, Ranges>>
    BY <1>4 DEF Writing, Tracking, UseRanges, Ranges
  <2>2. thread'[Boundary].pc = "next_range"
    BY <1>3, <1>5
  <2> QED BY <1>1, <1>4, <1>6, <2>1, <2>2 DEF ModeInv, BoundaryAt
<1> QED BY <1>8, <1>9, <1>10, TypePartsNext DEF IInv

LEMMA Relocked ==
  ASSUME IInv, Relock(Boundary), thread[Boundary].pc # "idle"
  PROVE  \E h \in Locks : /\ holds' = [holds EXCEPT ![Boundary] = h] /\ h # "none"
                          /\ h = "exclusive" => holds[Boundary] = "exclusive"
                          /\ h = "shared" => ~input.force_command_serialization
<1>1. holds \in [Threads -> Locks] /\ LockInv /\ Boundary \in Threads
  BY CaptureTrimAssumption DEF IInv, TypeOK, Locks
<1>2. CASE input.force_command_serialization
  <2>1. holds' = [holds EXCEPT ![Boundary] = holds[Boundary]]
    BY <1>1, <1>2 DEF Relock
  <2>2. holds[Boundary] = "exclusive"
    BY <1>1, <1>2 DEF LockInv, Locks
  <2> QED BY <1>1, <2>1, <2>2
<1>3. CASE ~input.force_command_serialization
  BY <1>1, <1>3 DEF Relock, Locks
<1> QED BY <1>2, <1>3

LEMMA NextRangeCases ==
  ASSUME IInv, NEW t \in Threads, NextRange(t)
  PROVE  /\ t = Boundary /\ thread[Boundary].pc = "next_range" /\ trim_enabled /\ ~Writing
         /\ thread[Boundary].kind = UnitKind
         /\ thread[Boundary].next = IF UnitKind = "present" THEN "finish" ELSE "check"
         /\ UNCHANGED <<input, count, calls, process, trim_key_first, tracked, files, file_open>>
         /\ trim_current_range' = IF UseRanges THEN trim_current_range + 1 ELSE trim_current_range
         /\ trim_current_range \in 1..(Len(Ranges) + 1) /\ Len(Ranges) \in Nat
         /\ UseRanges => trim_current_range \in 1..Len(Ranges)
         /\ \/ /\ UseRanges /\ trim_current_range = Len(Ranges)
               /\ trim_enabled' = FALSE /\ capture_mode' = {} /\ state_tracker' = FALSE
            \/ /\ UseRanges => trim_current_range + 1 <= Len(Ranges)
               /\ UNCHANGED <<trim_enabled, capture_mode, state_tracker>>
         /\ \E pc \in {"next_file", "check", "finish"} :
              /\ Goto(Boundary, pc)
              /\ pc = "next_file" => UseRanges /\ trim_enabled' /\ Ranges[trim_current_range + 1].first = Now
              /\ pc # "next_file" =>
                   /\ pc = thread[Boundary].next
                   /\ ~(UseRanges /\ trim_enabled' /\ Ranges[trim_current_range + 1].first = Now)
<1>1. t = Boundary /\ thread[Boundary].pc = "next_range"
  BY OnlyBoundary DEF IInv, NextRange, At
<1>2. /\ trim_enabled /\ thread[Boundary].kind = UnitKind /\ ~Writing
      /\ thread[Boundary].next = IF UnitKind = "present" THEN "finish" ELSE "check"
      /\ UseRanges => trim_current_range <= Len(Ranges)
  BY <1>1 DEF IInv, CallInv, ModeInv, BoundaryAt
<1>3. trim_current_range \in 1..(Len(Ranges) + 1) /\ Len(Ranges) \in Nat
  BY InputFacts DEF IInv, TypeOK
<1>4. /\ UNCHANGED <<input, count, calls, process, trim_key_first, tracked, files, file_open>>
      /\ trim_current_range' = IF UseRanges THEN trim_current_range + 1 ELSE trim_current_range
  BY DEF NextRange
<1>5. \/ /\ UseRanges /\ trim_current_range = Len(Ranges)
         /\ trim_enabled' = FALSE /\ capture_mode' = {} /\ state_tracker' = FALSE
      \/ /\ UseRanges => trim_current_range + 1 <= Len(Ranges)
         /\ UNCHANGED <<trim_enabled, capture_mode, state_tracker>>
  <2>1. CASE UseRanges /\ trim_current_range + 1 > Len(Ranges)
    <3>1. trim_current_range = Len(Ranges)
      BY <1>2, <1>3, <2>1
    <3> QED BY <1>4, <2>1, <3>1 DEF NextRange
  <2>2. CASE UseRanges /\ ~(trim_current_range + 1 > Len(Ranges))
    BY <1>3, <1>4, <2>2 DEF NextRange
  <2>3. CASE ~UseRanges
    BY <1>4, <2>3 DEF NextRange
  <2> QED BY <2>1, <2>2, <2>3
<1>6. \E pc \in {"next_file", "check", "finish"} :
              /\ Goto(Boundary, pc)
              /\ pc = "next_file" => UseRanges /\ trim_enabled' /\ Ranges[trim_current_range + 1].first = Now
              /\ pc # "next_file" =>
                   /\ pc = thread[Boundary].next
                   /\ ~(UseRanges /\ trim_enabled' /\ Ranges[trim_current_range + 1].first = Now)
  <2>1. CASE UseRanges /\ trim_enabled' /\ Ranges[trim_current_range + 1].first = Now
    <3>1. Goto(Boundary, "next_file")
      BY <1>1, <1>4, <2>1 DEF NextRange, Now
    <3> QED BY <2>1, <3>1
  <2>2. CASE ~(UseRanges /\ trim_enabled' /\ Ranges[trim_current_range + 1].first = Now)
    <3>1. Goto(Boundary, thread[Boundary].next)
      BY <1>1, <1>4, <2>2 DEF NextRange, Now
    <3> QED BY <1>2, <2>2, <3>1
  <2> QED BY <2>1, <2>2
<1>7. UseRanges => trim_current_range \in 1..Len(Ranges)
  BY <1>2, <1>3
<1> QED BY <1>1, <1>2, <1>3, <1>4, <1>5, <1>6, <1>7

LEMMA NextRangeStep == ASSUME IInv, NEW t \in Threads, NextRange(t) PROVE IInv'
<1>1. ThreadType /\ ModeType /\ FilesType /\ ProcessType /\ TypeOK /\ LockInv /\ CallInv /\ ModeInv
  BY TypeParts DEF IInv
<1>3. Boundary \in Threads /\ thread \in [Threads -> Records] /\ holds \in [Threads -> Locks]
  BY <1>1, CaptureTrimAssumption DEF ThreadType
<1>4. /\ UNCHANGED <<input, count, calls, process, trim_key_first, tracked, files, file_open>>
      /\ trim_enabled /\ ~Writing /\ thread[Boundary].pc = "next_range" /\ t = Boundary
  BY NextRangeCases
<1>5. PICK pc \in {"next_file", "check", "finish"} :
              /\ Goto(Boundary, pc)
              /\ pc = "next_file" => UseRanges /\ trim_enabled' /\ Ranges[trim_current_range + 1].first = Now
              /\ pc # "next_file" => pc = thread[Boundary].next
  BY NextRangeCases
<1> DEFINE r == [thread[Boundary] EXCEPT !.pc = pc]
<1>6. /\ r \in Records /\ r.pc = pc /\ r.kind = thread[Boundary].kind /\ r.next = thread[Boundary].next
      /\ thread' = [thread EXCEPT ![Boundary] = r]
  BY <1>3, <1>5 DEF Records, Goto
<1> HIDE DEF r
<1>7. PICK h \in Locks : /\ holds' = [holds EXCEPT ![Boundary] = h] /\ h # "none"
                         /\ h = "exclusive" => holds[Boundary] = "exclusive"
                         /\ h = "shared" => ~input.force_command_serialization
  BY <1>4, Relocked DEF NextRange
<1>8. ThreadType' /\ LockInv' /\ CallInv'
  <2>1. r.pc \in {"deactivate", "next_range", "next_file"} =>
                /\ trim_enabled'
                /\ r.kind = UnitKind
                /\ r.next = IF UnitKind = "present" THEN "finish" ELSE "check"
    BY <1>5, <1>6, NextRangeCases
  <2>2. input' = input /\ calls' = calls /\ thread[Boundary].pc # "idle"
    BY <1>4
  <2>3. r.pc \notin {"activate", "relock", "pre", "idle", "end"}
    BY <1>6
  <2> QED BY <1>6, <1>7, <2>1, <2>2, <2>3, BoundaryPart
<1>9. FilesType' /\ ModeType' /\ ProcessType'
  <2>1. trim_current_range' \in 1..(Len(Ranges) + 1)
    <3>1. CASE UseRanges
      <4>1. /\ trim_current_range' = trim_current_range + 1 /\ trim_current_range \in 1..Len(Ranges)
            /\ Len(Ranges) \in Nat
        BY <3>1, NextRangeCases
      <4> QED BY <4>1
    <3>2. CASE ~UseRanges
      BY <3>2, NextRangeCases
    <3> QED BY <3>1, <3>2
  <2>2. capture_mode' \subseteq {"write", "track"} /\ trim_enabled' \in BOOLEAN /\ state_tracker' \in BOOLEAN
    BY <1>1, NextRangeCases DEF ModeType, FilesType
  <2> QED BY <1>1, <1>4, <2>1, <2>2 DEF FilesType, ModeType, ProcessType, Ranges
<1>10. ModeInv'
  <2>1. UNCHANGED <<UseRanges, Ranges>> /\ thread'[Boundary].pc = pc /\ ~file_open /\ ~(file_open')
    BY <1>1, <1>3, <1>4, <1>6 DEF UseRanges, Ranges, ModeInv, BoundaryAt
  <2>2. CASE /\ UseRanges /\ trim_current_range = Len(Ranges)
             /\ trim_enabled' = FALSE /\ capture_mode' = {} /\ state_tracker' = FALSE
    <3>1. pc \in {"check", "finish"}
      BY <1>5, <2>2
    <3> QED BY <2>1, <2>2, <3>1 DEF ModeInv, BoundaryAt, Writing, Tracking
  <2>3. CASE /\ UseRanges => trim_current_range + 1 <= Len(Ranges)
             /\ UNCHANGED <<trim_enabled, capture_mode, state_tracker>>
    <3>1. /\ trim_enabled' /\ trim_enabled /\ ~(Writing') /\ (Tracking' <=> Tracking)
      BY <1>4, <2>3 DEF Writing, Tracking
    <3>2. Tracking
      <4>1. trim_enabled /\ ~Tracking => UseRanges /\ trim_current_range = Len(Ranges)
        BY <1>1 DEF ModeInv
      <4>2. trim_current_range \in 1..(Len(Ranges) + 1) /\ Len(Ranges) \in Nat
        BY NextRangeCases
      <4> QED BY <2>3, <3>1, <4>1, <4>2
    <3>3. UseRanges => trim_current_range' <= Len(Ranges)
      BY <2>3, NextRangeCases
    <3> QED BY <2>1, <3>1, <3>2, <3>3 DEF ModeInv, BoundaryAt
  <2> QED BY <2>2, <2>3, NextRangeCases
<1> QED BY <1>8, <1>9, <1>10, TypePartsNext DEF IInv

LEMMA ActivateFile ==
  ASSUME IInv, NEW t \in Threads, ActivateTrimming(t)
  PROVE  /\ t = Boundary /\ thread[Boundary].pc = "activate" /\ trim_enabled /\ ~Writing /\ Tracking
         /\ files' \in Seq(File) /\ Len(files') = Len(files) /\ Len(files) \in Nat /\ Len(files) > 0
         /\ files' # <<>>
         /\ Last'.snapshot = tracked /\ Last'.calls = {} /\ Last'.units = {}
         /\ \A k \in 1..Len(files) : k < Len(files) => files'[k] = files[k]
<1>1. t = Boundary /\ thread[Boundary].pc = "activate"
  BY OnlyBoundary DEF IInv, ActivateTrimming, At
<1>2. trim_enabled /\ ~Writing /\ Tracking /\ Last = NewFile /\ files # <<>> /\ files \in Seq(File)
  BY <1>1 DEF IInv, TypeOK, ModeInv, BoundaryAt, File
<1>3. Len(files) \in Nat /\ Len(files) > 0 /\ Last \in File
  <2>1. Len(files) \in Nat /\ Len(files) > 0
    BY <1>2, EmptySeq
  <2> QED BY <1>2, <2>1, ElementOfSeq DEF Last
<1> DEFINE f == [Last EXCEPT !.snapshot = tracked]
<1>4. f \in File /\ f.snapshot = tracked /\ f.calls = {} /\ f.units = {}
  BY <1>2, <1>3 DEF File, NewFile, IInv, TypeOK
<1>5. files' = [files EXCEPT ![Len(files)] = f]
  BY <1>2, <1>3 DEF ActivateTrimming, Last
<1> HIDE DEF f
<1>6. /\ files' \in Seq(File) /\ Len(files') = Len(files) /\ files' # <<>>
      /\ files'[Len(files)] = f
      /\ \A k \in 1..Len(files) : k < Len(files) => files'[k] = files[k]
  BY <1>2, <1>4, <1>5, LastFileChanged
<1>7. Last' = f
  BY <1>6 DEF Last
<1> QED BY <1>1, <1>2, <1>3, <1>4, <1>6, <1>7

LEMMA ActivateStep == ASSUME IInv, NEW t \in Threads, ActivateTrimming(t) PROVE IInv'
<1>1. ThreadType /\ ModeType /\ FilesType /\ ProcessType /\ TypeOK /\ LockInv /\ CallInv /\ ModeInv
  BY TypeParts DEF IInv
<1>2. t = Boundary /\ thread[Boundary].pc = "activate" /\ trim_enabled /\ ~Writing /\ Tracking
  BY ActivateFile
<1>3. Boundary \in Threads /\ thread \in [Threads -> Records] /\ holds \in [Threads -> Locks]
  BY <1>1, CaptureTrimAssumption DEF ThreadType
<1>4. /\ input' = input /\ calls' = calls /\ holds' = holds /\ file_open' = file_open
      /\ capture_mode' = capture_mode \cup {"write"} /\ trim_enabled' = trim_enabled
      /\ trim_current_range' = trim_current_range /\ trim_key_first' = trim_key_first
      /\ count' = count /\ state_tracker' = state_tracker /\ tracked' = tracked /\ process' = process
  BY DEF ActivateTrimming
<1> DEFINE r == [thread[Boundary] EXCEPT !.pc = "relock"]
<1>5. /\ r \in Records /\ r.pc = "relock" /\ r.kind = thread[Boundary].kind /\ r.next = thread[Boundary].next
      /\ thread' = [thread EXCEPT ![Boundary] = r]
  BY <1>2, <1>3 DEF Records, ActivateTrimming, Goto
<1> HIDE DEF r
<1>6. /\ thread[Boundary].kind = UnitKind
      /\ thread[Boundary].next \in IF UnitKind = "present" THEN {"finish"} ELSE {"encode", "check"}
  BY <1>1, <1>2 DEF CallInv, BoundaryAt
<1>7. /\ holds[Boundary] \in Locks /\ holds' = [holds EXCEPT ![Boundary] = holds[Boundary]]
      /\ holds[Boundary] = "shared" => ~input.force_command_serialization
      /\ holds[Boundary] = "none" => r.pc \in Waits /\ ~input.force_command_serialization
  BY <1>1, <1>2, <1>3, <1>4, <1>5 DEF LockInv, Waits
<1>8. ThreadType' /\ LockInv' /\ CallInv'
  BY <1>2, <1>4, <1>5, <1>6, <1>7, BoundaryPart
<1>9. FilesType' /\ ModeType' /\ ProcessType'
  BY <1>1, <1>4, ActivateFile DEF FilesType, ModeType, ProcessType, Ranges, File
<1>10. ModeInv'
  <2>1. Writing' /\ Tracking' /\ UNCHANGED <<UseRanges, Ranges>>
    BY <1>2, <1>4 DEF Writing, Tracking, UseRanges, Ranges
  <2>2. thread'[Boundary].pc = "relock" /\ files' # <<>>
    BY <1>3, <1>5, ActivateFile
  <2>3. file_open'
    BY <1>1, <1>2, <1>4 DEF ModeInv, BoundaryAt
  <2> QED BY <1>1, <1>2, <1>4, <2>1, <2>2, <2>3 DEF ModeInv, BoundaryAt
<1> QED BY <1>8, <1>9, <1>10, TypePartsNext DEF IInv

LEMMA ActivatedCases ==
  ASSUME IInv, NEW t \in Threads, Activated(t)
  PROVE  /\ t = Boundary /\ thread[Boundary].pc = "relock"
         /\ UNCHANGED <<input, mode_vars, count, capture_vars, calls, process>>
         /\ thread[Boundary].next \in IF UnitKind = "present" THEN {"finish"} ELSE {"encode", "check"}
         /\ thread[Boundary].kind = UnitKind
         /\ Goto(Boundary, thread[Boundary].next)
<1>1. t = Boundary /\ thread[Boundary].pc = "relock"
  BY OnlyBoundary DEF IInv, Activated, At
<1> QED BY <1>1 DEF Activated, IInv, CallInv, BoundaryAt

LEMMA ActivatedStep == ASSUME IInv, NEW t \in Threads, Activated(t) PROVE IInv'
<1>1. TypeOK /\ Boundary \in Threads /\ holds \in [Threads -> Locks]
  BY CaptureTrimAssumption DEF IInv, TypeOK, Locks
<1>2. PICK h \in Locks : /\ holds' = [holds EXCEPT ![Boundary] = h] /\ h # "none"
                         /\ h = "exclusive" => holds[Boundary] = "exclusive"
                         /\ h = "shared" => ~input.force_command_serialization
  BY ActivatedCases, Relocked DEF Activated
<1> DEFINE pc == thread[Boundary].next
<1>3. /\ thread[Boundary].pc = "relock" /\ pc \in {"encode", "check", "finish"} /\ Goto(Boundary, pc)
      /\ UNCHANGED <<input, mode_vars, count, capture_vars, calls, process>>
  BY ActivatedCases
<1>4. UNCHANGED <<input, mode_vars, files, file_open, state_tracker, calls>>
  BY <1>3 DEF capture_vars
<1>5. tracked' \subseteq CallIds /\ count' \in [{"frames", "submits"} -> Nat] /\ process' \in {"running", "quit", "crashed"}
  BY <1>1, <1>3 DEF capture_vars, TypeOK
<1>6. \/ UNCHANGED holds /\ holds[Boundary] # "none"
      \/ /\ holds[Boundary] = "none" /\ ~input.force_command_serialization
         /\ holds' = [holds EXCEPT ![Boundary] = "shared"]
  <2>1. CASE input.force_command_serialization
    <3>1. UNCHANGED holds
      BY <1>1, <2>1 DEF Activated, Relock
    <3>2. holds[Boundary] # "none"
      BY <1>1, <1>3, <2>1 DEF IInv, LockInv
    <3> QED BY <3>1, <3>2
  <2>2. CASE ~input.force_command_serialization
    <3>1. holds' = [holds EXCEPT ![Boundary] = "shared"]
      BY <2>2, ActivatedCases DEF Activated, Relock
    <3>2. CASE holds[Boundary] = "none"
      BY <2>2, <3>1, <3>2
    <3>3. CASE holds[Boundary] # "none"
      <4>1. holds[Boundary] = "shared"
        BY <1>1, <2>2, <3>3 DEF IInv, LockInv, Locks
      <4> QED BY <1>1, <3>1, <4>1
    <3> QED BY <3>2, <3>3
  <2> QED BY <2>1, <2>2
<1> HIDE DEF pc
<1> QED BY <1>1, <1>3, <1>4, <1>5, <1>6, MovedTo

LEMMA Initially == ASSUME Init PROVE IInv
<1>1. input \in Inputs /\ Boundary \in Threads /\ CallLimit \in [Threads -> Nat]
  BY CaptureTrimAssumption DEF Init
<1>2. /\ input.boundary \in {"frames", "submits"} /\ Len(Ranges) \in Nat
  BY <1>1, InputFacts
<1>3. /\ count = [frames |-> 1, submits |-> 0] /\ trim_enabled = TRUE /\ trim_current_range = 1
      /\ trim_key_first = count[input.boundary] /\ tracked = {}
      /\ holds = [t \in Threads |-> "none"] /\ thread = [t \in Threads |-> Idle]
      /\ calls = [t \in Threads |-> 0] /\ process = "running"
  BY DEF Init, kFirstFrame
<1> DEFINE from_start == IF UseRanges
                         THEN input.boundary = "frames" /\ Ranges[1].first = count.frames
                         ELSE input.trigger_active
<1>4. /\ capture_mode = IF ~from_start THEN {"track"}
                        ELSE IF Len(Ranges) = 1 THEN {"write"} ELSE {"write", "track"}
      /\ files = IF from_start THEN <<NewFile>> ELSE <<>>
      /\ file_open = from_start
      /\ state_tracker = ("track" \in capture_mode)
  BY DEF Init
<1>5. from_start \in BOOLEAN
  <2>1. input.trigger_active \in BOOLEAN
    BY <1>1, CaptureTrimAssumption DEF IsSettings
  <2> QED BY <2>1
<1> HIDE DEF from_start
<1>6. count \in [{"frames", "submits"} -> Nat] /\ trim_key_first \in Nat
  BY <1>2, <1>3
<1>7. files \in Seq(File) /\ (from_start => files # <<>>)
  <2>1. NewFile \in File
    BY DEF File, NewFile
  <2> QED BY <1>4, <2>1, EmptySeq
<1>8. ThreadType /\ ModeType /\ FilesType /\ ProcessType
  <2>1. ThreadType
    BY <1>1, <1>3 DEF ThreadType, Records, Locks, Idle
  <2>2. ModeType
    BY <1>1, <1>2, <1>3, <1>4, <1>6 DEF ModeType
  <2>3. FilesType
    BY <1>3, <1>4, <1>5, <1>7 DEF FilesType, File
  <2> QED BY <1>3, <2>1, <2>2, <2>3 DEF ProcessType
<1>9. LockInv /\ CallInv
  BY <1>1, <1>3 DEF LockInv, CallInv, Idle, BoundaryAt
<1>10. ModeInv
  <2>1. UseRanges => Len(Ranges) >= 1
    BY <1>1, <1>2, InputFacts
  <2>2. thread[Boundary].pc = "idle"
    BY <1>1, <1>3 DEF Idle
  <2>3. Len(Ranges) = 1 => UseRanges
    <3>1. Len(<<>>) = 0
      OBVIOUS
    <3> QED BY <3>1 DEF UseRanges
  <2>4. Writing <=> from_start
    BY <1>4, <1>5 DEF Writing
  <2>5. ~Tracking => Len(Ranges) = 1
    BY <1>4 DEF Tracking
  <2> QED BY <1>2, <1>3, <1>4, <1>5, <1>7, <2>1, <2>2, <2>3, <2>4, <2>5 DEF ModeInv, BoundaryAt
<1> QED BY <1>8, <1>9, <1>10, TypeParts DEF IInv

(* In every state the lock, the mode and the file go together: the file is   *)
(* open exactly while it is written or about to be, and the thread that      *)
(* switches the mode has given up the shared lock.                           *)
THEOREM Invariance == Spec => []IInv
<1>1. Init => IInv
  BY Initially
<1>2. IInv /\ [Next]_vars => IInv'
  <2> SUFFICES ASSUME IInv, [Next]_vars PROVE IInv'
    OBVIOUS
  <2>1. CASE UNCHANGED vars
    <3>1. process' \in {"running", "quit", "crashed"}
      BY <2>1 DEF vars, IInv, TypeOK
    <3> QED BY <2>1, <3>1, SameState DEF vars
  <2>2. ASSUME NEW t \in Threads, NEW kind \in {"call", "submit", "present"}, Begin(t, kind) PROVE IInv'
    BY <2>2, BeginStep
  <2>3. ASSUME NEW t \in Threads, ThreadStep(t) PROVE IInv'
    BY <2>3, EncodeStep, CheckTrackingStep, TrackStep, TrackWithoutTrackerStep, FinishStep,
      PreQueueSubmitStep,
       EndFrameStep, PostQueueSubmitStep, DeactivateStep, NextRangeStep, NextFileStep, ActivateStep, ActivatedStep
       DEF ThreadStep
  <2> QED BY <2>1, <2>2, <2>3 DEF Next
<1> QED BY <1>1, <1>2, PTL DEF Spec

(* The type invariant: every variable keeps its type, whatever the settings. *)
THEOREM TypeCorrect == Spec => []TypeOK
<1>1. IInv => TypeOK
  BY DEF IInv
<1> QED BY <1>1, Invariance, PTL

-----------------------------------------------------------------------------
(* The content of a file.                                                    *)
LEMMA Gone ==
  ASSUME IInv, NEW t \in Threads, NEW pc, Goto(t, pc)
  PROVE  /\ thread'[t].pc = pc /\ thread'[t].kind = thread[t].kind /\ thread'[t].next = thread[t].next
         /\ \A u \in Threads : u # t => thread'[u] = thread[u]
<1>1. thread \in [Threads -> Records]
  BY DEF IInv, TypeOK, Records
<1>2. thread[t] \in Records
  BY <1>1
<1> QED BY <1>1, <1>2 DEF Goto, Records

LEMMA Started ==
  ASSUME IInv, NEW now, NEW next, Starts(now, next)
  PROVE  /\ \A u \in Threads : u # Boundary => thread'[u] = thread[u]
         /\ thread'[Boundary].kind = UnitKind /\ thread[Boundary].kind = UnitKind
         /\ trim_current_range' = trim_current_range /\ tracked' = tracked /\ ~Writing /\ ~(Writing') /\ Tracking
         /\ trim_enabled
         /\ \/ /\ thread'[Boundary].pc = "activate" /\ thread'[Boundary].next = next
               /\ capture_mode' = capture_mode /\ trim_enabled' = trim_enabled
               /\ files' = Append(files, NewFile) /\ file_open' = TRUE
               /\ trim_key_first' = IF UseRanges THEN trim_key_first ELSE now
            \/ /\ thread'[Boundary].pc = next
               /\ capture_mode' = {} /\ trim_enabled' = FALSE /\ files' = files /\ file_open' = FALSE
               /\ trim_key_first' = trim_key_first
<1>1. Boundary \in Threads /\ thread \in [Threads -> Records]
  BY CaptureTrimAssumption DEF IInv, TypeOK, Records
<1>2. thread[Boundary] \in Records
  BY <1>1
<1>3. CASE FileCreated(Boundary, next) /\ trim_key_first' = IF UseRanges THEN trim_key_first ELSE now
  <2>1. thread' = [thread EXCEPT ![Boundary].pc = "activate", ![Boundary].next = next]
    BY <1>3 DEF FileCreated
  <2>2. /\ thread'[Boundary].pc = "activate" /\ thread'[Boundary].next = next
        /\ thread'[Boundary].kind = thread[Boundary].kind
        /\ \A u \in Threads : u # Boundary => thread'[u] = thread[u]
    BY <1>1, <1>2, <2>1 DEF Records
  <2> QED BY <1>3, <2>2 DEF Starts, StartCapture, FileCreated, Writing
<1>4. CASE FileFailed(Boundary, next) /\ UNCHANGED <<holds, trim_key_first>>
  <2>1. /\ thread'[Boundary].pc = next /\ thread'[Boundary].kind = thread[Boundary].kind
        /\ \A u \in Threads : u # Boundary => thread'[u] = thread[u]
    BY <1>1, <1>4, Gone DEF FileFailed
  <2> QED BY <1>4, <2>1 DEF Starts, StartCapture, FileFailed, Writing
<1> QED BY <1>3, <1>4 DEF Starts, StartCapture

LEMMA Stopped ==
  ASSUME IInv, NEW next, Stops(next)
  PROVE  /\ \A u \in Threads : u # Boundary => thread'[u] = thread[u]
         /\ thread'[Boundary].kind = UnitKind /\ thread[Boundary].kind = UnitKind
         /\ thread'[Boundary].pc = "deactivate" /\ thread'[Boundary].next = next
         /\ UNCHANGED <<mode_vars, capture_vars>> /\ Writing /\ trim_enabled
<1>1. Boundary \in Threads /\ thread \in [Threads -> Records]
  BY CaptureTrimAssumption DEF IInv, TypeOK, Records
<1>2. thread[Boundary] \in Records
  BY <1>1
<1>3. thread' = [thread EXCEPT ![Boundary].pc = "deactivate", ![Boundary].next = next]
  BY DEF Stops, StopCapture
<1> QED BY <1>1, <1>2, <1>3 DEF Stops, StopCapture, Records

LEMMA SameEncoded ==
  ASSUME NEW t \in Threads, calls' = calls, \A u \in Threads : u # t => thread'[u] = thread[u],
         BeforeEncode(t)' <=> BeforeEncode(t)
  PROVE  Encoded' = Encoded
<1>1. \A u \in Threads : BeforeEncode(u)' <=> BeforeEncode(u)
  BY DEF BeforeEncode
<1>2. \A c \in CallIds : c[1] \in Threads
  BY DEF CallIds
<1> QED BY <1>1, <1>2 DEF Encoded

LEMMA SamePassed ==
  ASSUME NEW t \in Threads, calls' = calls, \A u \in Threads : u # t => thread'[u] = thread[u],
         Passed(t)' <=> Passed(t)
  PROVE  TrackedByNow' = TrackedByNow
<1>1. \A u \in Threads : Passed(u)' <=> Passed(u)
  BY DEF Passed
<1>2. \A c \in CallIds : c[1] \in Threads
  BY DEF CallIds
<1> QED BY <1>1, <1>2 DEF TrackedByNow

(* Nothing is encoded, tracked or taken in the snapshot.                     *)
LEMMA ContentKept ==
  ASSUME ContentInv, Encoded' = Encoded, TrackedByNow' = TrackedByNow, tracked' = tracked,
         Tracking' => Tracking, Writing' => Writing /\ UNCHANGED files
  PROVE  ContentInv'
  BY DEF ContentInv, Last

LEMMA SubmitKept ==
  ASSUME SubmitInv, input' = input, thread'[Boundary] = thread[Boundary], count' = count,
         trim_current_range' = trim_current_range
  PROVE  SubmitInv'
  BY DEF SubmitInv, UnitKind, UseRanges, Ranges, CurrentRange, BoundaryAt, Now

LEMMA SubmitElsewhere ==
  ASSUME thread'[Boundary].pc \notin Special \cup {"relock"}
  PROVE  SubmitInv'
  BY DEF SubmitInv, BoundaryAt, Special

(* A step of t that is not at a boundary.                                    *)
LEMMA SubmitStep ==
  ASSUME IInv, SubmitInv, NEW t \in Threads, \A u \in Threads : u # t => thread'[u] = thread[u],
         thread'[t].pc \notin Special \cup {"relock"}, UNCHANGED <<input, count, trim_current_range>>
  PROVE  SubmitInv'
<1>1. Boundary \in Threads
  BY CaptureTrimAssumption
<1>2. CASE t = Boundary
  BY <1>2, SubmitElsewhere
<1>3. CASE t # Boundary
  BY <1>1, <1>3, SubmitKept
<1> QED BY <1>2, <1>3

LEMMA BeginContent ==
  ASSUME IInv, ContentInv, SubmitInv, NEW t \in Threads, NEW kind \in {"call", "submit", "present"}, Begin(t, kind)
  PROVE  ContentInv' /\ SubmitInv'
<1>1. thread \in [Threads -> Records] /\ calls \in [Threads -> Nat]
  BY DEF IInv, TypeOK, Records
<1>2. /\ thread[t].pc = "idle" /\ thread'[t].pc \in {"pre", "encode"}
      /\ \A u \in Threads : u # t => thread'[u] = thread[u] /\ calls'[u] = calls[u]
      /\ calls'[t] = calls[t] + 1
  BY <1>1 DEF Begin, At
<1>3. /\ UNCHANGED <<tracked, files, input, count, trim_current_range, capture_mode>>
  BY DEF Begin, mode_vars, capture_vars
<1>4. ~BeforeEncode(t) /\ BeforeEncode(t)' /\ Passed(t) /\ ~(Passed(t)')
  BY <1>2 DEF BeforeEncode, Passed
<1>5. \A c \in CallIds : c[1] \in Threads /\ c[2] \in Nat
  BY CaptureTrimAssumption DEF CallIds
<1>6. \A u \in Threads : calls[u] \in Nat
  BY <1>1
<1>7. \A u \in Threads : u # t => (BeforeEncode(u)' <=> BeforeEncode(u)) /\ (Passed(u)' <=> Passed(u))
  BY <1>2 DEF BeforeEncode, Passed
<1>8. Encoded' = Encoded /\ TrackedByNow' = TrackedByNow
  <2>1. ASSUME NEW c \in CallIds PROVE /\ c \in Encoded' <=> c \in Encoded
                                       /\ c \in TrackedByNow' <=> c \in TrackedByNow
    <3>1. CASE c[1] # t
      BY <1>2, <1>5, <1>7, <3>1 DEF Encoded, TrackedByNow
    <3>2. CASE c[1] = t
      <4>1. calls[t] \in Nat /\ c[2] \in Nat /\ calls'[t] = calls[t] + 1
        BY <1>2, <1>5, <1>6
      <4>2. c[2] < calls'[t] <=> c[2] < calls[t] \/ c[2] = calls[t]
        BY <4>1
      <4> QED BY <1>4, <3>2, <4>2 DEF Encoded, TrackedByNow
    <3> QED BY <3>1, <3>2
  <2> QED BY <2>1 DEF Encoded, TrackedByNow
<1>9. ContentInv'
  BY <1>3, <1>8, ContentKept DEF Tracking, Writing
<1>10. SubmitInv'
  BY <1>2, <1>3, SubmitStep DEF Special
<1> QED BY <1>9, <1>10

LEMMA EncodeContent ==
  ASSUME IInv, ContentInv, SubmitInv, NEW t \in Threads, Encode(t)
  PROVE  ContentInv' /\ SubmitInv'
<1>1. /\ thread[t].pc = "encode" /\ thread'[t].pc \in {"end", "check"}
      /\ thread'[t].pc = "end" => thread'[t].kind = "submit"
      /\ \A u \in Threads : u # t => thread'[u] = thread[u]
  BY Gone DEF Encode, At
<1>2. /\ UNCHANGED <<tracked, input, count, trim_current_range, capture_mode, calls>>
      /\ ~Writing => UNCHANGED files
  BY DEF Encode, mode_vars
<1>3. BeforeEncode(t) /\ ~(BeforeEncode(t)') /\ ~Passed(t) /\ ~(Passed(t)')
  BY <1>1 DEF BeforeEncode, Passed
<1>4. TrackedByNow' = TrackedByNow
  BY <1>1, <1>2, <1>3, SamePassed
<1>5. \A c \in CallIds : c[1] \in Threads /\ c = <<c[1], c[2]>>
  BY DEF CallIds
<1>6. CallOf(t) \in CallIds
  BY <1>1, OwnCall
<1>7. Encoded' = Encoded \cup {CallOf(t)} /\ CallOf(t) \notin Encoded
  <2>1. \A u \in Threads : u # t => (BeforeEncode(u)' <=> BeforeEncode(u))
    BY <1>1 DEF BeforeEncode
  <2>2. ASSUME NEW c \in CallIds PROVE c \in Encoded' <=> c \in Encoded \/ c = CallOf(t)
    <3>1. CASE c[1] # t
      BY <1>2, <1>5, <2>1, <3>1 DEF Encoded, CallOf
    <3>2. CASE c[1] = t
      <4>1. c = CallOf(t) <=> c[2] = calls[t]
        BY <1>5, <3>2 DEF CallOf
      <4> QED BY <1>2, <1>3, <3>2, <4>1 DEF Encoded
    <3> QED BY <3>1, <3>2
  <2>3. CallOf(t) \notin Encoded
    <3>1. calls[t] \in Nat
      BY DEF IInv, TypeOK
    <3> QED BY <1>3, <3>1 DEF Encoded, CallOf
  <2> QED BY <1>6, <2>2, <2>3 DEF Encoded
<1>8. (Writing' <=> Writing) /\ (Tracking' <=> Tracking)
  BY <1>2 DEF Writing, Tracking
<1>9. ContentInv'
  <2>1. tracked' \subseteq Encoded' /\ (Tracking' => TrackedByNow' \subseteq tracked')
    BY <1>2, <1>4, <1>7, <1>8 DEF ContentInv
  <2>2. ASSUME Writing
        PROVE  /\ Last'.snapshot \subseteq Encoded' /\ Encoded' \subseteq Last'.snapshot \cup Last'.calls
               /\ Last'.snapshot \cap Last'.calls = {}
    <3>1. Last'.snapshot = Last.snapshot /\ Last'.calls = Last.calls \cup {CallOf(t)}
      BY <2>2, EncodeFile
    <3> QED BY <1>7, <2>2, <3>1 DEF ContentInv
  <2> QED BY <1>8, <2>1, <2>2 DEF ContentInv
<1>10. SubmitInv'
  BY <1>1, <1>2, SubmitStep DEF Special
<1> QED BY <1>9, <1>10

LEMMA CheckTrackingContent ==
  ASSUME IInv, ContentInv, SubmitInv, NEW t \in Threads, CheckTracking(t)
  PROVE  ContentInv' /\ SubmitInv'
<1>1. /\ thread[t].pc = "check" /\ thread'[t].pc \in {"track", "end", "finish"}
      /\ Tracking => thread'[t].pc = "track"
      /\ \A u \in Threads : u # t => thread'[u] = thread[u]
  BY Gone DEF CheckTracking, At, AfterTracking
<1>2. UNCHANGED <<tracked, files, input, count, trim_current_range, capture_mode, calls>>
  BY DEF CheckTracking, mode_vars, capture_vars
<1>3. Encoded' = Encoded
  BY <1>1, <1>2, SameEncoded DEF BeforeEncode
<1>4. Tracking => TrackedByNow' = TrackedByNow
  BY <1>1, <1>2, SamePassed DEF Passed
<1>5. (Writing' <=> Writing) /\ (Tracking' <=> Tracking) /\ Last' = Last
  BY <1>2 DEF Writing, Tracking, Last
<1>6. ContentInv'
  BY <1>2, <1>3, <1>4, <1>5 DEF ContentInv
<1>7. SubmitInv'
  BY <1>1, <1>2, SubmitStep DEF Special
<1> QED BY <1>6, <1>7

LEMMA TrackContent ==
  ASSUME IInv, ContentInv, SubmitInv, NEW t \in Threads, Track(t)
  PROVE  ContentInv' /\ SubmitInv'
<1>1. /\ thread[t].pc = "track" /\ thread'[t].pc \in {"end", "finish"}
      /\ \A u \in Threads : u # t => thread'[u] = thread[u]
  BY Gone DEF Track, At, AfterTracking
<1>2. UNCHANGED <<files, input, count, trim_current_range, capture_mode, calls>> /\ tracked' = tracked \cup {CallOf(t)}
  BY DEF Track, mode_vars
<1>3. Encoded' = Encoded
  BY <1>1, <1>2, SameEncoded DEF BeforeEncode
<1>4. CallOf(t) \in Encoded
  <2>1. CallOf(t) \in CallIds
    BY <1>1, OwnCall
  <2> QED BY <1>1, <2>1 DEF Encoded, CallOf, BeforeEncode
<1>5. TrackedByNow' \subseteq TrackedByNow \cup {CallOf(t)}
  <2>1. \A u \in Threads : u # t => (Passed(u)' <=> Passed(u))
    BY <1>1 DEF Passed
  <2>2. ASSUME NEW c \in CallIds, c \in TrackedByNow' PROVE c \in TrackedByNow \/ c = CallOf(t)
    <3>1. c[1] \in Threads /\ c = <<c[1], c[2]>>
      BY DEF CallIds
    <3> QED BY <1>2, <2>1, <2>2, <3>1 DEF TrackedByNow, CallOf
  <2> QED BY <2>2 DEF TrackedByNow
<1>6. (Writing' <=> Writing) /\ (Tracking' <=> Tracking) /\ Last' = Last
  BY <1>2 DEF Writing, Tracking, Last
<1>7. ContentInv'
  BY <1>2, <1>3, <1>4, <1>5, <1>6 DEF ContentInv
<1>8. SubmitInv'
  BY <1>1, <1>2, SubmitStep DEF Special
<1> QED BY <1>7, <1>8

LEMMA SameContent ==
  ASSUME ContentInv, SubmitInv, UNCHANGED <<input, mode_vars, count, capture_vars, thread_vars, calls>>
  PROVE  ContentInv' /\ SubmitInv'
<1>1. UNCHANGED <<Encoded, TrackedByNow, tracked, files, input, count, trim_current_range, capture_mode, thread>>
  BY DEF mode_vars, capture_vars, thread_vars, Encoded, TrackedByNow, BeforeEncode, Passed
<1>2. ContentInv'
  BY <1>1, ContentKept DEF Tracking, Writing
<1>3. SubmitInv'
  BY <1>1, SubmitKept
<1> QED BY <1>2, <1>3

LEMMA FinishContent ==
  ASSUME IInv, ContentInv, SubmitInv, NEW t \in Threads, Finish(t)
  PROVE  ContentInv' /\ SubmitInv'
<1>1. CASE UNCHANGED thread_vars
  BY <1>1, SameContent DEF Finish
<1>2. CASE ~UNCHANGED thread_vars
  <2>1. thread' = [thread EXCEPT ![t] = Idle] /\ thread[t].pc = "finish"
    BY <1>2 DEF Finish, At
  <2>2. UNCHANGED <<tracked, files, input, count, trim_current_range, capture_mode, calls>>
    BY DEF Finish, mode_vars, capture_vars
  <2>3. thread'[t].pc = "idle" /\ \A u \in Threads : u # t => thread'[u] = thread[u]
    BY <2>1 DEF IInv, TypeOK, Idle
  <2>4. Encoded' = Encoded
    BY <2>1, <2>2, <2>3, SameEncoded DEF BeforeEncode
  <2>5. TrackedByNow' = TrackedByNow
    BY <2>1, <2>2, <2>3, SamePassed DEF Passed
  <2>6. ContentInv'
    BY <2>2, <2>4, <2>5, ContentKept DEF Tracking, Writing
  <2>7. SubmitInv'
    BY <2>2, <2>3, SubmitStep DEF Special
  <2> QED BY <2>6, <2>7
<1> QED BY <1>1, <1>2

LEMMA BoundaryContent ==
  ASSUME ContentInv, calls' = calls, \A u \in Threads : u # Boundary => thread'[u] = thread[u],
         BeforeEncode(Boundary)' <=> BeforeEncode(Boundary), Passed(Boundary)' <=> Passed(Boundary),
         tracked' = tracked, Tracking' => Tracking, Writing' => Writing /\ UNCHANGED files
  PROVE  ContentInv'
<1>1. Boundary \in Threads
  BY CaptureTrimAssumption
<1>2. Encoded' = Encoded /\ TrackedByNow' = TrackedByNow
  BY <1>1, SameEncoded, SamePassed
<1> QED BY <1>2, ContentKept

LEMMA StartsContent ==
  ASSUME IInv, ContentInv, SubmitInv, NEW now, NEW next \in {"encode", "finish"}, Starts(now, next),
         calls' = calls, input' = input,
         \/ thread[Boundary].kind = "submit" /\ thread[Boundary].pc = "pre" /\ next = "encode"
         \/ thread[Boundary].kind = "present" /\ thread[Boundary].pc \in {"end", "next_file"} /\ next = "finish"
  PROVE  ContentInv' /\ SubmitInv'
<1>1. /\ \A u \in Threads : u # Boundary => thread'[u] = thread[u]
      /\ thread'[Boundary].kind = UnitKind /\ thread[Boundary].kind = UnitKind
      /\ tracked' = tracked /\ ~(Writing')
      /\ capture_mode' \in {capture_mode, {}}
      /\ \/ thread'[Boundary].pc = "activate" /\ thread'[Boundary].next = next
         \/ thread'[Boundary].pc = next
  BY Started
<1>2. UnitKind' = UnitKind
  BY DEF UnitKind
<1>3. BeforeEncode(Boundary)' <=> BeforeEncode(Boundary)
  BY <1>1 DEF BeforeEncode
<1>4. Passed(Boundary)' <=> Passed(Boundary)
  BY <1>1 DEF Passed
<1>5. Tracking' => Tracking
  BY <1>1 DEF Tracking
<1>6. ContentInv'
  BY <1>1, <1>3, <1>4, <1>5, BoundaryContent
<1>7. SubmitInv'
  BY <1>1, <1>2 DEF SubmitInv, BoundaryAt
<1> QED BY <1>6, <1>7

LEMMA StopsContent ==
  ASSUME IInv, ContentInv, SubmitInv, NEW next \in {"check", "finish"}, NEW fired \in BOOLEAN,
         Stops(next), StopsAt(Now', fired), calls' = calls, input' = input,
         thread[Boundary].pc = "end"
  PROVE  ContentInv' /\ SubmitInv'
<1>1. /\ \A u \in Threads : u # Boundary => thread'[u] = thread[u]
      /\ thread'[Boundary].kind = UnitKind /\ thread[Boundary].kind = UnitKind
      /\ thread'[Boundary].pc = "deactivate" /\ thread'[Boundary].next = next
      /\ UNCHANGED <<mode_vars, capture_vars>>
  BY Stopped
<1>2. UNCHANGED <<tracked, files, Tracking, Writing, trim_current_range>>
  BY <1>1 DEF mode_vars, capture_vars, Tracking, Writing
<1>3. BeforeEncode(Boundary)' <=> BeforeEncode(Boundary)
  BY <1>1 DEF BeforeEncode
<1>4. Passed(Boundary)' <=> Passed(Boundary)
  BY <1>1 DEF Passed
<1>5. ContentInv'
  BY <1>1, <1>2, <1>3, <1>4, BoundaryContent
<1>6. UseRanges => Now' = CurrentRange'.last + 1
  BY <1>2 DEF StopsAt, CurrentRange, Ranges
<1>7. UNCHANGED <<UnitKind, UseRanges>>
  BY DEF UnitKind, UseRanges, Ranges
<1>8. SubmitInv'
  BY <1>1, <1>6, <1>7 DEF SubmitInv, BoundaryAt
<1> QED BY <1>5, <1>8

LEMMA ContinueContent ==
  ASSUME IInv, ContentInv, SubmitInv, NEW next, Continue(Boundary, next), calls' = calls,
         \/ thread[Boundary].pc = "pre" /\ thread[Boundary].kind = "submit" /\ next = "encode"
         \/ thread[Boundary].pc = "end" /\ thread[Boundary].kind = "present" /\ next = "finish"
         \/ thread[Boundary].pc = "end" /\ thread[Boundary].kind = "submit" /\ next = "check"
  PROVE  ContentInv' /\ SubmitInv'
<1>1. /\ \A u \in Threads : u # Boundary => thread'[u] = thread[u]
      /\ thread'[Boundary].pc = next /\ thread'[Boundary].kind = thread[Boundary].kind
  BY CaptureTrimAssumption, Gone DEF Continue
<1>2. UNCHANGED <<tracked, files, Tracking, Writing>>
  BY DEF Continue, mode_vars, capture_vars, Tracking, Writing
<1>3. BeforeEncode(Boundary)' <=> BeforeEncode(Boundary)
  BY <1>1 DEF BeforeEncode
<1>4. Passed(Boundary)' <=> Passed(Boundary)
  BY <1>1 DEF Passed
<1>5. ContentInv'
  BY <1>1, <1>2, <1>3, <1>4, BoundaryContent
<1>6. SubmitInv'
  BY <1>1, SubmitElsewhere DEF Special
<1> QED BY <1>5, <1>6

LEMMA PreQueueSubmitContent ==
  ASSUME IInv, ContentInv, SubmitInv, NEW t \in Threads, NEW fired \in BOOLEAN, PreQueueSubmit(t, fired)
  PROVE  ContentInv' /\ SubmitInv'
<1>1. thread[Boundary].pc = "pre" /\ thread[Boundary].kind = "submit" /\ calls' = calls /\ input' = input
  BY PreQueueSubmitCases
<1>2. CASE Starts(Now, "encode")
  BY <1>1, <1>2, StartsContent
<1>3. CASE Continue(Boundary, "encode")
  BY <1>1, <1>3, ContinueContent
<1> QED BY <1>2, <1>3, PreQueueSubmitCases

LEMMA EndFrameContent ==
  ASSUME IInv, ContentInv, SubmitInv, NEW t \in Threads, NEW fired \in BOOLEAN, EndFrame(t, fired)
  PROVE  ContentInv' /\ SubmitInv'
<1>1. thread[Boundary].pc = "end" /\ thread[Boundary].kind = "present" /\ calls' = calls /\ input' = input
  BY EndFrameCases DEF Counted
<1>2. CASE Stops("finish") /\ StopsAt(Now', fired)
  BY <1>1, <1>2, StopsContent
<1>3. CASE Starts(Now', "finish")
  BY <1>1, <1>3, StartsContent
<1>4. CASE Continue(Boundary, "finish")
  BY <1>1, <1>4, ContinueContent
<1> QED BY <1>2, <1>3, <1>4, EndFrameCases

LEMMA PostQueueSubmitContent ==
  ASSUME IInv, ContentInv, SubmitInv, NEW t \in Threads, NEW fired \in BOOLEAN, PostQueueSubmit(t, fired)
  PROVE  ContentInv' /\ SubmitInv'
<1>1. thread[Boundary].pc = "end" /\ thread[Boundary].kind = "submit" /\ calls' = calls /\ input' = input
  BY PostQueueSubmitCases DEF Counted
<1>2. CASE Stops("check") /\ StopsAt(Now', fired)
  BY <1>1, <1>2, StopsContent
<1>3. CASE Continue(Boundary, "check")
  BY <1>1, <1>3, ContinueContent
<1> QED BY <1>2, <1>3, PostQueueSubmitCases

LEMMA DeactivateContent ==
  ASSUME IInv, ContentInv, SubmitInv, NEW t \in Threads, DeactivateTrimming(t)
  PROVE  ContentInv' /\ SubmitInv'
<1>1. t = Boundary /\ thread[Boundary].pc = "deactivate"
  BY OnlyBoundary DEF DeactivateTrimming, At, IInv
<1>2. /\ \A u \in Threads : u # Boundary => thread'[u] = thread[u]
      /\ thread'[Boundary].pc = "next_range" /\ thread'[Boundary].kind = thread[Boundary].kind
  BY <1>1, Gone DEF DeactivateTrimming
<1>3. UNCHANGED <<input, calls, tracked, files, trim_current_range, count>> /\ capture_mode' = capture_mode \ {"write"}
  BY DEF DeactivateTrimming
<1>4. ~(Writing') /\ (Tracking' => Tracking)
  BY <1>3 DEF Writing, Tracking
<1>5. (BeforeEncode(Boundary)' <=> BeforeEncode(Boundary)) /\ (Passed(Boundary)' <=> Passed(Boundary))
  BY <1>1, <1>2 DEF BeforeEncode, Passed
<1>6. ContentInv'
  BY <1>2, <1>3, <1>4, <1>5, BoundaryContent
<1>7. UNCHANGED <<UnitKind, UseRanges, CurrentRange, Now>>
  BY <1>3 DEF UnitKind, UseRanges, Ranges, CurrentRange, Now
<1>8. SubmitInv'
  BY <1>1, <1>2, <1>7 DEF SubmitInv, BoundaryAt
<1> QED BY <1>6, <1>8

LEMMA NextRangeContent ==
  ASSUME NoConsecutiveSubmits, IInv, ContentInv, SubmitInv, NEW t \in Threads, NextRange(t)
  PROVE  ContentInv' /\ SubmitInv'
<1>1. PICK pc \in {"next_file", "check", "finish"} :
              /\ Goto(Boundary, pc)
              /\ pc = "next_file" => UseRanges /\ trim_enabled' /\ Ranges[trim_current_range + 1].first = Now
              /\ pc # "next_file" => pc = thread[Boundary].next
  BY NextRangeCases
<1>2. /\ \A u \in Threads : u # Boundary => thread'[u] = thread[u]
      /\ thread'[Boundary].pc = pc /\ thread'[Boundary].kind = thread[Boundary].kind
  BY <1>1, CaptureTrimAssumption, Gone
<1>3. UNCHANGED <<input, calls, tracked, files>> /\ ~Writing /\ capture_mode' \in {capture_mode, {}}
      /\ thread[Boundary].pc = "next_range" /\ thread[Boundary].kind = UnitKind
      /\ thread[Boundary].next = IF UnitKind = "present" THEN "finish" ELSE "check"
  BY NextRangeCases
<1>4. ~(Writing') /\ (Tracking' => Tracking)
  BY <1>3 DEF Writing, Tracking
<1>5. UnitKind \in {"present", "submit"} /\ UnitKind' = UnitKind
  BY <1>3 DEF UnitKind
<1>6. (BeforeEncode(Boundary)' <=> BeforeEncode(Boundary)) /\ (Passed(Boundary)' <=> Passed(Boundary))
  BY <1>1, <1>2, <1>3, <1>5 DEF BeforeEncode, Passed
<1>7. ContentInv'
  BY <1>2, <1>3, <1>4, <1>6, BoundaryContent
<1>8. ASSUME UnitKind = "submit" PROVE pc # "next_file"
  <2> SUFFICES ASSUME pc = "next_file" PROVE FALSE
    OBVIOUS
  <2>1. /\ UseRanges /\ Ranges[trim_current_range + 1].first = Now
        /\ trim_current_range \in 1..Len(Ranges) /\ Len(Ranges) \in Nat
        /\ trim_current_range + 1 <= Len(Ranges)
    BY <1>1, NextRangeCases
  <2>2. Now = Ranges[trim_current_range].last + 1
    BY <1>3, <1>8, <2>1 DEF SubmitInv, BoundaryAt, CurrentRange
  <2>3. trim_current_range + 1 \in 1..Len(Ranges) /\ trim_current_range + 1 > 1
        /\ (trim_current_range + 1) - 1 = trim_current_range
    BY <2>1
  <2>4. input \in Inputs /\ input.boundary = "submits"
    <3>1. input \in Inputs
      BY DEF IInv, TypeOK
    <3> QED BY <1>8, <3>1, InputFacts DEF UnitKind
  <2>5. Ranges[(trim_current_range + 1) - 1].last + 1 # Ranges[trim_current_range + 1].first
    BY <2>3, <2>4 DEF NoConsecutiveSubmits, Ranges
  <2> QED BY <2>1, <2>2, <2>3, <2>5
<1>9. SubmitInv'
  <2>1. CASE UnitKind = "present"
    BY <1>5, <2>1 DEF SubmitInv
  <2>2. CASE UnitKind = "submit"
    BY <1>2, <1>8, <2>2, SubmitElsewhere DEF Special
  <2> QED BY <1>5, <2>1, <2>2
<1> QED BY <1>7, <1>9

LEMMA NextFileContent ==
  ASSUME IInv, ContentInv, SubmitInv, NEW t \in Threads, NextFile(t)
  PROVE  ContentInv' /\ SubmitInv'
<1>1. /\ thread[Boundary].pc = "next_file" /\ calls' = calls /\ input' = input
      /\ Starts(Now, thread[Boundary].next)
      /\ thread[Boundary].next = IF UnitKind = "present" THEN "finish" ELSE "check"
      /\ thread[Boundary].kind = UnitKind
  BY NextFileCases DEF Starts
<1>2. UnitKind = "present"
  BY <1>1 DEF SubmitInv, BoundaryAt, UnitKind
<1> QED BY <1>1, <1>2, StartsContent

LEMMA ActivateContent ==
  ASSUME IInv, ContentInv, SubmitInv, NEW t \in Threads, ActivateTrimming(t)
  PROVE  ContentInv' /\ SubmitInv'
<1>1. /\ t = Boundary /\ thread[Boundary].pc = "activate" /\ Tracking
      /\ Last'.snapshot = tracked /\ Last'.calls = {}
  BY ActivateFile
<1>2. /\ \A u \in Threads : u # Boundary => thread'[u] = thread[u]
      /\ thread'[Boundary].pc = "relock" /\ thread'[Boundary].kind = thread[Boundary].kind
      /\ thread'[Boundary].next = thread[Boundary].next
  BY <1>1, Gone DEF ActivateTrimming
<1>3. UNCHANGED <<input, calls, tracked>> /\ capture_mode' = capture_mode \cup {"write"} /\ TakeExclusive
  BY DEF ActivateTrimming
<1>4. (Tracking' <=> Tracking) /\ UnitKind' = UnitKind
  BY <1>3 DEF Tracking, UnitKind
<1>5. Boundary \in Threads
  BY CaptureTrimAssumption
<1>6. Encoded' = Encoded
  <2>1. BeforeEncode(Boundary)' <=> BeforeEncode(Boundary)
    BY <1>1, <1>2 DEF BeforeEncode
  <2> QED BY <1>2, <1>3, <1>5, <2>1, SameEncoded
<1>7. TrackedByNow' = TrackedByNow
  <2>1. Passed(Boundary)' <=> Passed(Boundary)
    BY <1>1, <1>2 DEF Passed
  <2> QED BY <1>2, <1>3, <1>5, <2>1, SamePassed
<1>8. \A u \in Threads : u # Boundary => thread[u].pc = "idle"
  <2>1. LockInv /\ CallInv /\ holds \in [Threads -> Locks]
    BY DEF IInv, TypeOK, Locks
  <2>2. CASE input.force_command_serialization
    <3>1. \A u \in Threads : holds[u] # "shared"
      BY <2>1, <2>2 DEF LockInv
    <3>2. holds[Boundary] = "exclusive"
      BY <1>1, <1>5, <2>1, <2>2, <3>1 DEF LockInv, Locks
    <3>3. \A u \in Threads : u # Boundary => holds[u] = "none"
      BY <1>5, <2>1, <3>1, <3>2 DEF LockInv, Locks
    <3> QED BY <2>1, <2>2, <3>3 DEF LockInv
  <2>3. CASE ~input.force_command_serialization
    <3>1. \A u \in Threads : holds[u] = "none"
      BY <1>3, <2>3 DEF TakeExclusive, CanExclude
    <3> QED BY <2>1, <3>1 DEF LockInv, CallInv, Waits
  <2> QED BY <2>2, <2>3
<1>9. Encoded \subseteq TrackedByNow
  <2>1. Passed(Boundary) \/ BeforeEncode(Boundary)
    <3>1. thread[Boundary].kind = UnitKind
      BY <1>1 DEF IInv, CallInv, BoundaryAt
    <3>2. UnitKind = "submit" => thread[Boundary].next = "encode"
      BY <1>1 DEF SubmitInv, BoundaryAt
    <3>3. UnitKind \in {"present", "submit"}
      BY DEF UnitKind
    <3> QED BY <1>1, <3>1, <3>2, <3>3 DEF Passed, BeforeEncode
  <2>2. \A u \in Threads : Passed(u) \/ BeforeEncode(u)
    BY <1>8, <2>1 DEF Passed
  <2>3. \A c \in CallIds : c[1] \in Threads
    BY DEF CallIds
  <2> QED BY <2>2, <2>3 DEF Encoded, TrackedByNow
<1>10. ContentInv'
  <2>1. tracked \subseteq Encoded /\ TrackedByNow \subseteq tracked
    BY <1>1 DEF ContentInv
  <2>2. /\ Last'.snapshot \subseteq Encoded' /\ Encoded' \subseteq Last'.snapshot \cup Last'.calls
        /\ Last'.snapshot \cap Last'.calls = {}
    BY <1>1, <1>6, <1>9, <2>1
  <2> QED BY <1>3, <1>4, <1>6, <1>7, <2>1, <2>2 DEF ContentInv
<1>11. SubmitInv'
  BY <1>1, <1>2, <1>4 DEF SubmitInv, BoundaryAt
<1> QED BY <1>10, <1>11

LEMMA ActivatedContent ==
  ASSUME IInv, ContentInv, SubmitInv, NEW t \in Threads, Activated(t)
  PROVE  ContentInv' /\ SubmitInv'
<1>1. /\ thread[Boundary].pc = "relock" /\ thread[Boundary].kind = UnitKind
      /\ UNCHANGED <<input, mode_vars, count, capture_vars, calls, process>>
      /\ thread[Boundary].next \in IF UnitKind = "present" THEN {"finish"} ELSE {"encode", "check"}
      /\ Goto(Boundary, thread[Boundary].next)
  BY ActivatedCases
<1>2. /\ \A u \in Threads : u # Boundary => thread'[u] = thread[u]
      /\ thread'[Boundary].pc = thread[Boundary].next /\ thread'[Boundary].kind = thread[Boundary].kind
  BY <1>1, CaptureTrimAssumption, Gone
<1>3. UNCHANGED <<calls, tracked, files, Tracking, Writing>>
  BY <1>1 DEF mode_vars, capture_vars, Tracking, Writing
<1>4. UnitKind \in {"present", "submit"}
  BY DEF UnitKind
<1>5. UnitKind = "submit" => thread[Boundary].next = "encode"
  BY <1>1 DEF SubmitInv, BoundaryAt
<1>6. (BeforeEncode(Boundary)' <=> BeforeEncode(Boundary)) /\ (Passed(Boundary)' <=> Passed(Boundary))
  BY <1>1, <1>2, <1>4, <1>5 DEF BeforeEncode, Passed
<1>7. ContentInv'
  BY <1>2, <1>3, <1>6, BoundaryContent
<1>8. SubmitInv'
  BY <1>1, <1>2, SubmitElsewhere DEF Special
<1> QED BY <1>7, <1>8

LEMMA InitialContent == ASSUME Init PROVE ContentInv /\ SubmitInv
<1>1. /\ tracked = {} /\ thread = [t \in Threads |-> Idle] /\ calls = [t \in Threads |-> 0]
      /\ files \in {<<NewFile>>, <<>>} /\ (Writing => files = <<NewFile>>)
  BY DEF Init, Writing
<1>2. Encoded = {} /\ TrackedByNow = {}
  <2>1. \A c \in CallIds : c[1] \in Threads /\ c[2] \in Nat /\ c[2] >= 1
    BY CaptureTrimAssumption DEF CallIds
  <2>2. \A c \in CallIds : ~(c[2] < calls[c[1]]) /\ c[2] # calls[c[1]]
    BY <1>1, <2>1
  <2> QED BY <2>2 DEF Encoded, TrackedByNow
<1>3. Writing => Last = NewFile
  <2>1. Len(<<NewFile>>) = 1 /\ <<NewFile>>[1] = NewFile
    OBVIOUS
  <2> QED BY <1>1, <2>1 DEF Last
<1>4. ContentInv
  BY <1>1, <1>2, <1>3 DEF ContentInv, NewFile
<1>5. SubmitInv
  BY <1>1, CaptureTrimAssumption DEF SubmitInv, BoundaryAt, Idle
<1> QED BY <1>4, <1>5

(* In every state the tracker knows the calls that have been encoded and     *)
(* passed its check, and nothing else: the file in write mode holds, in its  *)
(* snapshot or among its calls, all that were encoded.  This needs ranges of *)
(* submits that do not follow one another; the file of such a range is       *)
(* created between the encoding and the tracking of the submit before it.    *)
THEOREM ContentInvariance ==
  ASSUME NoConsecutiveSubmits
  PROVE  Spec => [](IInv /\ ContentInv /\ SubmitInv)
<1>1. Init => ContentInv /\ SubmitInv
  BY InitialContent
<1>2. IInv /\ ContentInv /\ SubmitInv /\ [Next]_vars => (ContentInv /\ SubmitInv)'
  <2> SUFFICES ASSUME IInv, ContentInv, SubmitInv, [Next]_vars PROVE ContentInv' /\ SubmitInv'
    OBVIOUS
  <2>1. CASE UNCHANGED vars
    BY <2>1, SameContent DEF vars
  <2>2. ASSUME NEW t \in Threads, NEW kind \in {"call", "submit", "present"}, Begin(t, kind)
        PROVE  ContentInv' /\ SubmitInv'
    BY <2>2, BeginContent
  <2>3. ASSUME NEW t \in Threads, TrackWithoutTracker(t) PROVE ContentInv' /\ SubmitInv'
    BY <2>3, SameContent DEF TrackWithoutTracker
  <2>4. ASSUME NEW t \in Threads, ThreadStep(t) PROVE ContentInv' /\ SubmitInv'
    BY <2>3, <2>4, EncodeContent, CheckTrackingContent, TrackContent, FinishContent,
      PreQueueSubmitContent,
       EndFrameContent, PostQueueSubmitContent, DeactivateContent, NextRangeContent, NextFileContent,
       ActivateContent, ActivatedContent
       DEF ThreadStep
  <2> QED BY <2>1, <2>2, <2>4 DEF Next
<1> QED BY <1>1, <1>2, Invariance, PTL DEF Spec

(* EveryCallIsInTheFile, for any number of threads and calls: no call that   *)
(* has returned is missing from the file in write mode, and none is in it    *)
(* twice, although the write mode is switched between the calls of others.   *)
THEOREM EveryCallIsInTheFileCorrect ==
  ASSUME NoConsecutiveSubmits
  PROVE  Spec => []EveryCallIsInTheFile
<1>1. IInv /\ ContentInv => EveryCallIsInTheFile
  <2> SUFFICES ASSUME IInv, ContentInv, Writing PROVE EveryCallIsInTheFile
    BY DEF EveryCallIsInTheFile
  <2>1. file_open
    BY DEF IInv, ModeInv
  <2>2. \A c \in CallIds : c[1] \in Threads
    BY DEF CallIds
  <2>3. Completed \subseteq Encoded
    BY <2>2 DEF Completed, Encoded, BeforeEncode
  <2> QED BY <2>1, <2>3 DEF ContentInv, EveryCallIsInTheFile, Last
<1> QED BY <1>1, ContentInvariance, PTL

-----------------------------------------------------------------------------
(* The units in the files.                                                   *)
Keys == ~UseRanges /\ input.trim_key_frames > 0

LEMMA UnitsFacts ==
  ASSUME IInv
  PROVE  /\ files \in Seq(File) /\ Len(files) \in Nat /\ Now \in Nat /\ trim_current_range \in Nat
         /\ Len(Ranges) \in Nat /\ input.trim_key_frames \in Nat /\ trim_key_first \in Nat
         /\ Writing => trim_enabled
         /\ UseRanges /\ trim_enabled =>
              /\ trim_current_range \in 1..Len(Ranges)
              /\ CurrentRange.first \in Nat /\ CurrentRange.last \in Nat
              /\ CurrentRange.first <= CurrentRange.last
<1>1. files \in Seq(File) /\ trim_key_first \in Nat /\ input \in Inputs
  BY DEF IInv, TypeOK, File
<1>2. Len(files) \in Nat
  BY <1>1
<1>3. Writing => trim_enabled
  BY DEF IInv, ModeInv, Writing
<1>4. trim_current_range \in 1..(Len(Ranges) + 1) /\ Len(Ranges) \in Nat
  BY <1>1, InputFacts DEF IInv, TypeOK
<1>5. UseRanges /\ trim_enabled => trim_current_range \in 1..Len(Ranges)
  BY <1>4 DEF IInv, ModeInv
<1>6. UseRanges /\ trim_enabled => /\ CurrentRange.first \in Nat /\ CurrentRange.last \in Nat
                                   /\ CurrentRange.first <= CurrentRange.last
  BY <1>1, <1>5, InputFacts DEF CurrentRange
<1>7. input.trim_key_frames \in Nat
  BY <1>1, InputFacts
<1> QED BY <1>1, <1>2, <1>3, <1>4, <1>5, <1>6, <1>7, NowIsNat

(* A step that records and counts nothing.                                   *)
LEMMA UnitsKept ==
  ASSUME UnitsInv, Now' = Now, Recorded' = Recorded,
         UNCHANGED <<input, capture_mode, trim_enabled, trim_current_range, trim_key_first, files, file_open>>,
         \/ thread'[Boundary].pc = thread[Boundary].pc
         \/ thread'[Boundary].pc \notin Special /\ thread[Boundary].pc \notin Special
  PROVE  UnitsInv'
<1>1. UNCHANGED <<UseRanges, Ranges, Writing, CurrentRange, Last>>
  BY DEF UseRanges, Ranges, Writing, CurrentRange, Last
<1>2. /\ BoundaryAt({"activate", "next_range"})' <=> BoundaryAt({"activate", "next_range"})
      /\ BoundaryAt({"deactivate"})' <=> BoundaryAt({"deactivate"})
      /\ BoundaryAt({"deactivate", "next_range"})' <=> BoundaryAt({"deactivate", "next_range"})
      /\ BoundaryAt({"next_file", "activate"})' <=> BoundaryAt({"next_file", "activate"})
      /\ BoundaryAt({"activate"})' <=> BoundaryAt({"activate"})
  BY DEF BoundaryAt, Special
<1>3. UseRanges => RangesInv'
  BY <1>1, <1>2 DEF UnitsInv, RangesInv, Whole
<1>4. Keys => KeyFramesInv'
  BY <1>1, <1>2 DEF UnitsInv, KeyFramesInv, Keys
<1> QED BY <1>1, <1>3, <1>4 DEF UnitsInv, Keys

LEMMA EncodeUnits ==
  ASSUME IInv, UnitsInv, NEW t \in Threads, Encode(t)
  PROVE  UnitsInv'
<1>1. /\ thread[t].pc = "encode" /\ thread'[t].kind = thread[t].kind
      /\ thread'[t].pc = IF thread[t].kind = "submit" THEN "end" ELSE "check"
      /\ \A u \in Threads : u # t => thread'[u] = thread[u]
  BY Gone DEF Encode, At
<1>2. UNCHANGED <<input, capture_mode, trim_enabled, trim_current_range, trim_key_first, file_open, count>>
  BY DEF Encode, mode_vars
<1>3. Now' = Now /\ UnitKind' = UnitKind /\ Boundary \in Threads /\ UnitKind \in {"present", "submit"}
  BY <1>2, CaptureTrimAssumption DEF Now, UnitKind
<1>4. Unit(t) = IF t = Boundary /\ thread[t].kind = UnitKind THEN {Now} ELSE {}
  <2>1. t # Boundary => thread[t].kind = "call"
    BY DEF IInv, CallInv
  <2> QED BY <2>1 DEF Unit, UnitKind, Now
<1>5. CASE t = Boundary /\ thread[t].kind = UnitKind
  <2>1. ~Uncounted /\ Uncounted'
    BY <1>1, <1>3, <1>5 DEF Uncounted
  <2>2. Recorded = Now - 1 /\ Recorded' = Now
    BY <1>3, <2>1 DEF Recorded
  <2>3. UNCHANGED <<UseRanges, Ranges, Writing, CurrentRange>>
    BY <1>2 DEF UseRanges, Ranges, Writing, CurrentRange
  <2>4. thread'[Boundary].pc \in {"end", "check"} /\ thread[Boundary].pc = "encode"
    BY <1>1, <1>5
  <2>5. CASE ~Writing
    <3>1. files' = files
      BY <2>5 DEF Encode
    <3>2. UseRanges => RangesInv'
      BY <1>2, <1>3, <2>3, <2>4, <2>5, <3>1 DEF UnitsInv, RangesInv, Whole, BoundaryAt
    <3>3. Keys => KeyFramesInv'
      BY <1>2, <1>3, <2>3, <2>4, <2>5, <3>1 DEF UnitsInv, KeyFramesInv, Keys, BoundaryAt
    <3> QED BY <1>2, <2>3, <3>2, <3>3 DEF UnitsInv, Keys
  <2>6. CASE Writing
    <3>1. /\ Len(files') = Len(files) /\ Len(files) \in Nat /\ Len(files) > 0
          /\ Last'.units = Last.units \cup {Now}
          /\ \A k \in 1..Len(files) : k < Len(files) => files'[k] = files[k]
      BY <1>4, <1>5, <2>6, EncodeFile
    <3>2. trim_enabled /\ file_open
      BY <2>6, UnitsFacts DEF IInv, ModeInv
    <3>3. ASSUME UseRanges PROVE RangesInv'
      <4>1. RangesInv /\ CurrentRange.first \in Nat /\ CurrentRange.last \in Nat /\ Now \in Nat
        BY <3>2, <3>3, UnitsFacts DEF UnitsInv
      <4>2. Last.units = CurrentRange.first..(Now - 1) /\ CurrentRange.first <= Now /\ Now <= CurrentRange.last
        BY <2>2, <2>4, <2>6, <4>1 DEF RangesInv, BoundaryAt
      <4>3. Last'.units = CurrentRange.first..Now
        <5>1. CurrentRange.first..(Now - 1) \cup {Now} = CurrentRange.first..Now
          BY <4>1, <4>2
        <5> QED BY <3>1, <4>2, <5>1
      <4>4. \A k \in 1..Len(files') : k < Len(files') \/ ~(file_open') => Whole(k)'
        BY <1>2, <2>3, <3>1, <3>2, <4>1 DEF RangesInv, Whole
      <4>5. trim_current_range' = Len(files') /\ Len(files') <= Len(Ranges)
        BY <1>2, <2>6, <3>1, <3>2, <4>1 DEF RangesInv
      <4> QED BY <1>2, <1>3, <2>2, <2>3, <2>4, <2>6, <4>1, <4>2, <4>3, <4>4, <4>5 DEF RangesInv,
        BoundaryAt
    <3>4. ASSUME Keys PROVE KeyFramesInv'
      <4>1. KeyFramesInv /\ trim_key_first \in Nat /\ Now \in Nat /\ input.trim_key_frames \in Nat
        BY <3>4, UnitsFacts DEF UnitsInv, Keys
      <4>2. /\ Last.units \subseteq trim_key_first..(Now - 1) /\ trim_key_first <= Now
            /\ Now < trim_key_first + input.trim_key_frames
        BY <2>2, <2>4, <2>6, <4>1 DEF KeyFramesInv, BoundaryAt
      <4>3. Last'.units \subseteq trim_key_first..Now
        BY <3>1, <4>1, <4>2
      <4>4. IsFiniteSet(Last'.units) /\ Cardinality(Last'.units) <= input.trim_key_frames
        <5>1. /\ IsFiniteSet(trim_key_first..Now)
              /\ Cardinality(trim_key_first..Now) = (Now - trim_key_first) + 1
          BY <4>1, <4>2, FS_Interval
        <5>2. /\ IsFiniteSet(Last'.units) /\ Cardinality(Last'.units) \in Nat
              /\ Cardinality(Last'.units) <= Cardinality(trim_key_first..Now)
          BY <4>3, <5>1, FS_Subset, FS_CardinalityType
        <5>3. \A c \in Nat : c <= (Now - trim_key_first) + 1 => c <= input.trim_key_frames
          BY <4>1, <4>2
        <5> QED BY <5>1, <5>2, <5>3
      <4>5. \A k \in 1..Len(files') : IsFiniteSet(files'[k].units) /\ Cardinality(files'[k].units) <= input.trim_key_frames
        <5>1. \A k \in 1..Len(files') : k < Len(files) \/ k = Len(files)
          BY <3>1
        <5>2. Last' = files'[Len(files)]
          BY <3>1 DEF Last
        <5>3. \A k \in 1..Len(files) : k < Len(files) =>
                IsFiniteSet(files'[k].units) /\ Cardinality(files'[k].units) <= input.trim_key_frames
          BY <3>1, <4>1 DEF KeyFramesInv
        <5> QED BY <3>1, <4>4, <5>1, <5>2, <5>3
      <4> QED BY <1>2, <1>3, <2>2, <2>3, <2>4, <2>6, <4>1, <4>2, <4>3, <4>5 DEF KeyFramesInv,
        BoundaryAt
    <3> QED BY <1>2, <2>3, <3>3, <3>4 DEF UnitsInv, Keys
  <2> QED BY <2>5, <2>6
<1>6. CASE ~(t = Boundary /\ thread[t].kind = UnitKind)
  <2>1. (Uncounted' <=> Uncounted)
    BY <1>1, <1>3, <1>6 DEF Uncounted
  <2>2. Recorded' = Recorded
    BY <1>3, <2>1 DEF Recorded
  <2>3. CASE files' = files
    <3>1. \/ thread'[Boundary].pc = thread[Boundary].pc
          \/ thread'[Boundary].pc \notin Special /\ thread[Boundary].pc \notin Special
      BY <1>1, <1>3 DEF Special
    <3> QED BY <1>2, <1>3, <2>2, <2>3, <3>1, UnitsKept
  <2>4. CASE Writing
    <3>1. /\ Len(files') = Len(files) /\ Len(files) \in Nat /\ Len(files) > 0
          /\ Last'.units = Last.units
          /\ \A k \in 1..Len(files) : k < Len(files) => files'[k] = files[k]
      BY <1>4, <1>6, <2>4, EncodeFile
    <3>2. \A k \in 1..Len(files) : files'[k].units = files[k].units
      <4>1. \A k \in 1..Len(files) : k < Len(files) \/ k = Len(files)
        BY <3>1
      <4> QED BY <3>1, <4>1 DEF Last
    <3>3. UNCHANGED <<UseRanges, Ranges, Writing, CurrentRange>>
      BY <1>2 DEF UseRanges, Ranges, Writing, CurrentRange
    <3>4. /\ BoundaryAt({"activate", "next_range"})' <=> BoundaryAt({"activate", "next_range"})
          /\ BoundaryAt({"deactivate"})' <=> BoundaryAt({"deactivate"})
          /\ BoundaryAt({"deactivate", "next_range"})' <=> BoundaryAt({"deactivate", "next_range"})
          /\ BoundaryAt({"next_file", "activate"})' <=> BoundaryAt({"next_file", "activate"})
          /\ BoundaryAt({"activate"})' <=> BoundaryAt({"activate"})
      BY <1>1, <1>3 DEF BoundaryAt
    <3>5. UseRanges => RangesInv'
      BY <1>2, <1>3, <2>2, <3>1, <3>2, <3>3, <3>4 DEF UnitsInv, RangesInv, Whole
    <3>6. Keys => KeyFramesInv'
      BY <1>2, <1>3, <2>2, <3>1, <3>2, <3>3, <3>4 DEF UnitsInv, KeyFramesInv, Keys
    <3> QED BY <1>2, <3>3, <3>5, <3>6 DEF UnitsInv, Keys
  <2> QED BY <2>3, <2>4 DEF Encode
<1> QED BY <1>5, <1>6

(* A step of one thread that is not at a boundary.                           *)
LEMMA QuietUnits ==
  ASSUME IInv, UnitsInv, NEW t \in Threads, \A u \in Threads : u # t => thread'[u] = thread[u],
         UNCHANGED <<input, mode_vars, count, files, file_open>>,
         t = Boundary => /\ thread'[t].pc \notin Special /\ thread[t].pc \notin Special
                         /\ Uncounted' <=> Uncounted
  PROVE  UnitsInv'
<1>1. Boundary \in Threads
  BY CaptureTrimAssumption
<1>2. Now' = Now /\ UnitKind' = UnitKind
  BY DEF Now, UnitKind
<1>3. Uncounted' <=> Uncounted
  BY <1>1, <1>2 DEF Uncounted
<1>4. Recorded' = Recorded
  BY <1>2, <1>3 DEF Recorded
<1>5. \/ thread'[Boundary].pc = thread[Boundary].pc
      \/ thread'[Boundary].pc \notin Special /\ thread[Boundary].pc \notin Special
  BY <1>1
<1>6. UNCHANGED <<input, capture_mode, trim_enabled, trim_current_range, trim_key_first, files, file_open>>
  BY DEF mode_vars
<1> QED BY <1>2, <1>4, <1>5, <1>6, UnitsKept

LEMMA SameUnits ==
  ASSUME UnitsInv, UNCHANGED <<input, mode_vars, count, capture_vars, thread_vars, calls>>
  PROVE  UnitsInv'
<1>1. UNCHANGED <<Now, Recorded, input, capture_mode, trim_enabled, trim_current_range, trim_key_first, files, file_open, thread>>
  BY DEF mode_vars, capture_vars, thread_vars, Now, Recorded, Uncounted, UnitKind
<1> QED BY <1>1, UnitsKept

LEMMA BeginUnits ==
  ASSUME IInv, UnitsInv, NEW t \in Threads, NEW kind \in {"call", "submit", "present"}, Begin(t, kind)
  PROVE  UnitsInv'
<1>1. thread \in [Threads -> Records]
  BY DEF IInv, TypeOK, Records
<1>2. /\ thread[t].pc = "idle" /\ thread'[t].pc \in {"pre", "encode"}
      /\ \A u \in Threads : u # t => thread'[u] = thread[u]
  BY <1>1 DEF Begin, At
<1>3. UNCHANGED <<input, mode_vars, count, files, file_open>>
  BY DEF Begin, capture_vars
<1>4. t = Boundary => Uncounted' <=> Uncounted
  BY <1>2 DEF Uncounted
<1> QED BY <1>2, <1>3, <1>4, QuietUnits DEF Special

LEMMA CheckTrackingUnits ==
  ASSUME IInv, UnitsInv, NEW t \in Threads, CheckTracking(t)
  PROVE  UnitsInv'
<1>1. /\ thread[t].pc = "check" /\ thread'[t].pc \in {"track", AfterTracking(t)} /\ thread'[t].kind = thread[t].kind
      /\ \A u \in Threads : u # t => thread'[u] = thread[u]
  BY Gone DEF CheckTracking, At
<1>2. UNCHANGED <<input, mode_vars, count, files, file_open>>
  BY DEF CheckTracking, capture_vars
<1>3. AfterTracking(t) = IF thread[t].kind = "present" THEN "end" ELSE "finish"
  BY DEF AfterTracking
<1>4. UnitKind' = UnitKind /\ UnitKind \in {"present", "submit"}
  BY <1>2 DEF UnitKind
<1>5. t = Boundary => Uncounted' <=> Uncounted
  BY <1>1, <1>3, <1>4 DEF Uncounted
<1> QED BY <1>1, <1>2, <1>3, <1>5, QuietUnits DEF Special

LEMMA TrackUnits ==
  ASSUME IInv, UnitsInv, NEW t \in Threads, Track(t)
  PROVE  UnitsInv'
<1>1. /\ thread[t].pc = "track" /\ thread'[t].pc = AfterTracking(t) /\ thread'[t].kind = thread[t].kind
      /\ \A u \in Threads : u # t => thread'[u] = thread[u]
  BY Gone DEF Track, At
<1>2. UNCHANGED <<input, mode_vars, count, files, file_open>>
  BY DEF Track
<1>3. AfterTracking(t) = IF thread[t].kind = "present" THEN "end" ELSE "finish"
  BY DEF AfterTracking
<1>4. UnitKind' = UnitKind /\ UnitKind \in {"present", "submit"}
  BY <1>2 DEF UnitKind
<1>5. t = Boundary => Uncounted' <=> Uncounted
  BY <1>1, <1>3, <1>4 DEF Uncounted
<1> QED BY <1>1, <1>2, <1>3, <1>5, QuietUnits DEF Special

LEMMA FinishUnits ==
  ASSUME IInv, UnitsInv, NEW t \in Threads, Finish(t)
  PROVE  UnitsInv'
<1>1. CASE UNCHANGED thread_vars
  BY <1>1, SameUnits DEF Finish
<1>2. CASE ~UNCHANGED thread_vars
  <2>1. thread' = [thread EXCEPT ![t] = Idle] /\ thread[t].pc = "finish"
    BY <1>2 DEF Finish, At
  <2>2. UNCHANGED <<input, mode_vars, count, files, file_open>>
    BY DEF Finish, capture_vars
  <2>3. thread'[t].pc = "idle" /\ \A u \in Threads : u # t => thread'[u] = thread[u]
    BY <2>1 DEF IInv, TypeOK, Idle
  <2>4. t = Boundary => Uncounted' <=> Uncounted
    BY <2>1, <2>3 DEF Uncounted
  <2> QED BY <2>1, <2>2, <2>3, <2>4, QuietUnits DEF Special
<1> QED BY <1>1, <1>2

LEMMA NoUnits ==
  ASSUME IInv, NEW units, units = {}
  PROVE  IsFiniteSet(units) /\ Cardinality(units) <= input.trim_key_frames
<1>1. IsFiniteSet(units) /\ Cardinality(units) = 0
  BY FS_EmptySet
<1>2. input.trim_key_frames \in Nat
  BY UnitsFacts
<1> QED BY <1>1, <1>2

(* A file is created, or fails to be, when no other is open.                 *)
LEMMA StartsUnits ==
  ASSUME IInv, UnitsInv, NEW next \in {"encode", "check", "finish"}, Starts(Now', next), input' = input,
         thread[Boundary].pc \in {"pre", "end", "next_file"}, Now' \in Nat,
         next = "check" => UnitKind = "submit",
         UseRanges => Now' = CurrentRange.first
  PROVE  UnitsInv'
<1>1. /\ trim_current_range' = trim_current_range /\ ~Writing /\ ~(Writing') /\ trim_enabled
      /\ \/ /\ thread'[Boundary].pc = "activate"
            /\ files' = Append(files, NewFile) /\ file_open' = TRUE
            /\ trim_key_first' = IF UseRanges THEN trim_key_first ELSE Now'
         \/ /\ thread'[Boundary].pc = next
            /\ trim_enabled' = FALSE /\ files' = files /\ file_open' = FALSE
  BY Started
<1>2. UNCHANGED <<UseRanges, Ranges, CurrentRange>>
  BY <1>1 DEF UseRanges, Ranges, CurrentRange
<1>3. ~file_open
  BY <1>1 DEF IInv, ModeInv, BoundaryAt
<1>4. CASE /\ thread'[Boundary].pc = "activate"
           /\ files' = Append(files, NewFile) /\ file_open' = TRUE
           /\ trim_key_first' = IF UseRanges THEN trim_key_first ELSE Now'
  <2>1. /\ Len(files') = Len(files) + 1 /\ Len(files) \in Nat /\ Last' = NewFile
        /\ \A k \in 1..Len(files) : files'[k] = files[k]
    BY <1>4, UnitsFacts, Appended
  <2>2. ASSUME UseRanges PROVE RangesInv'
    <3>1. /\ Len(files) <= Len(Ranges) /\ \A k \in 1..Len(files) : Whole(k)
          /\ trim_current_range = Len(files) + 1
      BY <1>1, <1>3, <2>2 DEF UnitsInv, RangesInv, BoundaryAt
    <3>2. trim_current_range <= Len(Ranges) /\ Len(Ranges) \in Nat
      BY <1>1, <2>2, UnitsFacts DEF IInv, ModeInv
    <3>3. \A k \in 1..Len(files') : k < Len(files') \/ ~(file_open') => Whole(k)'
      <4>1. \A k \in 1..Len(files') : k < Len(files') => k \in 1..Len(files)
        BY <2>1
      <4> QED BY <1>2, <1>4, <2>1, <3>1, <4>1 DEF Whole
    <3>4. ~(BoundaryAt({"deactivate", "next_range"})') /\ BoundaryAt({"activate", "next_range"})'
      BY <1>4 DEF BoundaryAt
    <3> QED BY <1>1, <1>2, <2>1, <2>2, <3>1, <3>2, <3>3, <3>4 DEF RangesInv
  <2>3. ASSUME Keys PROVE KeyFramesInv'
    <3>1. KeyFramesInv /\ ~UseRanges /\ input.trim_key_frames \in Nat
      BY <2>3, UnitsFacts DEF UnitsInv, Keys
    <3>2. \A k \in 1..Len(files') : k \in 1..Len(files) \/ k = Len(files')
      BY <2>1
    <3>3. files'[Len(files')].units = {}
      BY <2>1 DEF Last, NewFile
    <3>4. IsFiniteSet(files'[Len(files')].units) /\ Cardinality(files'[Len(files')].units) <= input.trim_key_frames
      BY <3>3, NoUnits
    <3>5. \A k \in 1..Len(files') : IsFiniteSet(files'[k].units) /\ Cardinality(files'[k].units) <= input.trim_key_frames
      BY <2>1, <3>1, <3>2, <3>4 DEF KeyFramesInv
    <3> QED BY <1>1, <1>4, <3>1, <3>5 DEF KeyFramesInv
  <2> QED BY <1>2, <2>2, <2>3 DEF UnitsInv, Keys
<1>5. CASE /\ thread'[Boundary].pc = next
           /\ trim_enabled' = FALSE /\ files' = files /\ file_open' = FALSE
  <2>1. UseRanges => RangesInv'
    BY <1>1, <1>2, <1>3, <1>5 DEF UnitsInv, RangesInv, Whole, BoundaryAt
  <2>2. Keys => KeyFramesInv'
    BY <1>1, <1>5 DEF UnitsInv, Keys, KeyFramesInv, BoundaryAt
  <2> QED BY <1>2, <2>1, <2>2 DEF UnitsInv, Keys
<1> QED BY <1>1, <1>4, <1>5

LEMMA PreQueueSubmitUnits ==
  ASSUME IInv, UnitsInv, NEW t \in Threads, NEW fired \in BOOLEAN, PreQueueSubmit(t, fired)
  PROVE  UnitsInv'
<1>1. thread[Boundary].pc = "pre" /\ count' = count /\ input' = input /\ Boundary \in Threads
  BY PreQueueSubmitCases, CaptureTrimAssumption
<1>2. CASE Starts(Now, "encode") /\ StartsAt(Now, fired)
  <2>1. Now' = Now /\ Now' \in Nat
    BY <1>1, NowIsNat DEF Now
  <2>2. UseRanges => Now' = CurrentRange.first
    BY <1>2, <2>1 DEF StartsAt
  <2>3. Starts(Now', "encode")
    BY <1>2, <2>1
  <2> QED BY <1>1, <2>1, <2>2, <2>3, StartsUnits
<1>3. CASE Continue(Boundary, "encode")
  <2>1. thread'[Boundary].pc = "encode" /\ \A u \in Threads : u # Boundary => thread'[u] = thread[u]
    BY <1>1, <1>3, Gone DEF Continue
  <2>2. Uncounted' <=> Uncounted
    BY <1>1, <2>1 DEF Uncounted
  <2>3. UNCHANGED <<input, mode_vars, count, files, file_open>>
    BY <1>1, <1>3 DEF Continue, capture_vars
  <2> QED BY <1>1, <2>1, <2>2, <2>3, QuietUnits DEF Special
<1> QED BY <1>2, <1>3, PreQueueSubmitCases

(* The unit that ends is counted, and the range goes on or is over.          *)
LEMMA CountedUnits ==
  ASSUME IInv, UnitsInv, input' = input, UNCHANGED <<mode_vars, files, file_open>>,
         thread[Boundary].pc = "end", thread[Boundary].kind = UnitKind, Now' = Now + 1,
         NEW fired \in BOOLEAN,
         \/ thread'[Boundary].pc = "deactivate" /\ Writing /\ StopsAt(Now', fired)
         \/ /\ thread'[Boundary].pc = IF UnitKind = "present" THEN "finish" ELSE "check"
            /\ trim_enabled /\ Writing => ~StopsAt(Now', fired)
  PROVE  UnitsInv'
<1>1. UNCHANGED <<UseRanges, Ranges, CurrentRange, Writing, Last, UnitKind, capture_mode, trim_enabled, trim_current_range,
                  trim_key_first>> /\ UnitKind \in {"present", "submit"}
  BY DEF mode_vars, UseRanges, Ranges, CurrentRange, Writing, Last, UnitKind
<1>2. Uncounted /\ ~(Uncounted') /\ Now \in Nat
  BY <1>1, NowIsNat DEF Uncounted
<1>3. Recorded = Now /\ Recorded' = Now
  <2>1. (Now + 1) - 1 = Now
    BY <1>2
  <2> QED BY <1>2, <2>1 DEF Recorded
<1>4. thread'[Boundary].pc \in {"deactivate", "finish", "check"}
  OBVIOUS
<1>5. ASSUME UseRanges PROVE RangesInv'
  <2>1. RangesInv
    BY <1>5 DEF UnitsInv
  <2>2. ASSUME Writing
        PROVE  /\ CurrentRange.first <= Now' /\ Now' <= CurrentRange.last + (IF BoundaryAt({"deactivate"})' THEN 1 ELSE 0)
               /\ BoundaryAt({"deactivate"})' => Now' = CurrentRange.last + 1
    <3>1. trim_enabled /\ CurrentRange.first \in Nat /\ CurrentRange.last \in Nat
      BY <1>5, <2>2, UnitsFacts
    <3>2. CurrentRange.first <= Now /\ Now <= CurrentRange.last
      BY <2>1, <2>2, <3>1 DEF RangesInv, BoundaryAt
    <3>3. StopsAt(Now', fired) <=> Now' = CurrentRange.last + 1
      BY <1>5 DEF StopsAt
    <3>4. CASE thread'[Boundary].pc = "deactivate"
      BY <1>1, <1>2, <2>2, <3>1, <3>2, <3>3, <3>4 DEF BoundaryAt
    <3>5. CASE thread'[Boundary].pc # "deactivate"
      BY <1>1, <1>2, <2>2, <3>1, <3>2, <3>3, <3>5 DEF BoundaryAt
    <3> QED BY <3>4, <3>5
  <2>3. BoundaryAt({"deactivate"})' => Writing
    BY <1>1 DEF BoundaryAt
  <2>4. /\ ~(BoundaryAt({"activate", "next_range"})') /\ ~(BoundaryAt({"next_file", "activate"})')
        /\ BoundaryAt({"deactivate", "next_range"})' => BoundaryAt({"deactivate"})'
        /\ ~BoundaryAt({"activate", "next_range"})
    BY <1>4 DEF BoundaryAt
  <2> QED BY <1>1, <1>3, <2>1, <2>2, <2>3, <2>4 DEF RangesInv, Whole
<1>6. ASSUME Keys PROVE KeyFramesInv'
  <2>1. KeyFramesInv /\ ~UseRanges /\ input.trim_key_frames > 0 /\ trim_key_first \in Nat /\ input.trim_key_frames \in Nat
    BY <1>6, UnitsFacts DEF UnitsInv, Keys
  <2>2. ASSUME Writing
        PROVE trim_key_first <= Now' /\ (~BoundaryAt({"deactivate"})' => Now' < trim_key_first + input.trim_key_frames)
    <3>1. trim_enabled /\ trim_key_first <= Now
      BY <2>1, <2>2, UnitsFacts DEF KeyFramesInv
    <3>2. ~StopsAt(Now', fired) => ~(Now' >= trim_key_first + input.trim_key_frames)
      BY <2>1 DEF StopsAt
    <3>3. ~BoundaryAt({"deactivate"})' => ~(Now' >= trim_key_first + input.trim_key_frames)
      BY <2>2, <3>1, <3>2 DEF BoundaryAt
    <3> QED BY <1>2, <2>1, <3>1, <3>3
  <2>3. ~(BoundaryAt({"activate"})')
    BY <1>4 DEF BoundaryAt
  <2> QED BY <1>1, <1>3, <2>1, <2>2, <2>3 DEF KeyFramesInv
<1> QED BY <1>1, <1>5, <1>6 DEF UnitsInv, Keys

LEMMA EndFrameUnits ==
  ASSUME IInv, UnitsInv, NEW t \in Threads, NEW fired \in BOOLEAN, EndFrame(t, fired)
  PROVE  UnitsInv'
<1>1. /\ thread[Boundary].pc = "end" /\ thread[Boundary].kind = "present" /\ input' = input /\ Boundary \in Threads
      /\ Now \in Nat /\ Now' = IF thread[Boundary].kind = UnitKind THEN Now + 1 ELSE Now
  BY EndFrameCases, CaptureTrimAssumption DEF Counted
<1>2. CASE Stops("finish") /\ UnitKind = "present" /\ StopsAt(Now', fired)
  <2>1. thread'[Boundary].pc = "deactivate" /\ Writing /\ UNCHANGED <<mode_vars, capture_vars>>
    BY <1>2, Stopped
  <2>2. UNCHANGED <<mode_vars, files, file_open>>
    BY <2>1 DEF capture_vars
  <2> QED BY <1>1, <1>2, <2>1, <2>2, CountedUnits
<1>3. CASE Starts(Now', "finish") /\ UnitKind = "present" /\ StartsAt(Now', fired)
  <2>1. UseRanges => Now' = CurrentRange.first
    BY <1>3 DEF StartsAt
  <2> QED BY <1>1, <1>3, <2>1, StartsUnits
<1>4. CASE /\ Continue(Boundary, "finish")
           /\ UnitKind = "present" /\ trim_enabled /\ Writing => ~StopsAt(Now', fired)
  <2>1. thread'[Boundary].pc = "finish" /\ \A u \in Threads : u # Boundary => thread'[u] = thread[u]
    BY <1>1, <1>4, Gone DEF Continue
  <2>2. UNCHANGED <<mode_vars, files, file_open>>
    BY <1>4 DEF Continue, capture_vars
  <2>3. CASE UnitKind = "present"
    BY <1>1, <1>4, <2>1, <2>2, <2>3, CountedUnits
  <2>4. CASE UnitKind # "present"
    <3>1. Now' = Now /\ ~Uncounted /\ ~(Uncounted')
      BY <1>1, <2>1, <2>4 DEF Uncounted, UnitKind
    <3>2. Recorded' = Recorded
      BY <3>1 DEF Recorded
    <3>3. UNCHANGED <<input, capture_mode, trim_enabled, trim_current_range, trim_key_first, files, file_open>>
      BY <1>1, <2>2 DEF mode_vars
    <3> QED BY <1>1, <2>1, <3>1, <3>2, <3>3, UnitsKept DEF Special
  <2> QED BY <2>3, <2>4
<1> QED BY <1>2, <1>3, <1>4, EndFrameCases

LEMMA PostQueueSubmitUnits ==
  ASSUME IInv, UnitsInv, NEW t \in Threads, NEW fired \in BOOLEAN, PostQueueSubmit(t, fired)
  PROVE  UnitsInv'
<1>1. /\ thread[Boundary].pc = "end" /\ thread[Boundary].kind = "submit" /\ input' = input /\ Boundary \in Threads
      /\ Now \in Nat /\ Now' = IF thread[Boundary].kind = UnitKind THEN Now + 1 ELSE Now
  BY PostQueueSubmitCases, CaptureTrimAssumption DEF Counted
<1>2. CASE Stops("check") /\ UnitKind = "submit" /\ StopsAt(Now', fired)
  <2>1. thread'[Boundary].pc = "deactivate" /\ Writing /\ UNCHANGED <<mode_vars, capture_vars>>
    BY <1>2, Stopped
  <2>2. UNCHANGED <<mode_vars, files, file_open>>
    BY <2>1 DEF capture_vars
  <2> QED BY <1>1, <1>2, <2>1, <2>2, CountedUnits
<1>3. CASE /\ Continue(Boundary, "check")
           /\ UnitKind = "submit" /\ trim_enabled /\ Writing => ~StopsAt(Now', fired)
  <2>1. thread'[Boundary].pc = "check" /\ thread'[Boundary].kind = "submit"
        /\ \A u \in Threads : u # Boundary => thread'[u] = thread[u]
    BY <1>1, <1>3, Gone DEF Continue
  <2>2. UNCHANGED <<mode_vars, files, file_open>>
    BY <1>3 DEF Continue, capture_vars
  <2>3. CASE UnitKind = "submit"
    BY <1>1, <1>3, <2>1, <2>2, <2>3, CountedUnits
  <2>4. CASE UnitKind # "submit"
    <3>1. UnitKind' = UnitKind
      BY <1>1 DEF UnitKind
    <3>2. Now' = Now /\ ~Uncounted /\ ~(Uncounted')
      BY <1>1, <2>1, <2>4, <3>1 DEF Uncounted
    <3>3. Recorded' = Recorded
      BY <3>2 DEF Recorded
    <3>4. UNCHANGED <<input, capture_mode, trim_enabled, trim_current_range, trim_key_first, files, file_open>>
      BY <1>1, <2>2 DEF mode_vars
    <3> QED BY <1>1, <2>1, <3>2, <3>3, <3>4, UnitsKept DEF Special
  <2> QED BY <2>3, <2>4
<1> QED BY <1>2, <1>3, PostQueueSubmitCases

LEMMA DeactivateUnits ==
  ASSUME IInv, UnitsInv, NEW t \in Threads, DeactivateTrimming(t)
  PROVE  UnitsInv'
<1>1. t = Boundary /\ thread[Boundary].pc = "deactivate"
  BY OnlyBoundary DEF DeactivateTrimming, At, IInv
<1>2. thread'[Boundary].pc = "next_range"
  BY <1>1, Gone DEF DeactivateTrimming
<1>3. /\ UNCHANGED <<input, trim_enabled, trim_current_range, trim_key_first, count, files>>
      /\ file_open' = FALSE /\ capture_mode' = capture_mode \ {"write"}
  BY DEF DeactivateTrimming
<1>4. ~(Writing') /\ UNCHANGED <<UseRanges, Ranges, CurrentRange, Now, Last>>
  BY <1>3 DEF Writing, UseRanges, Ranges, CurrentRange, Now, Last
<1>5. Writing /\ file_open /\ trim_enabled /\ files # <<>>
  BY <1>1, UnitsFacts DEF IInv, ModeInv, BoundaryAt
<1>6. Len(files) \in Nat /\ Now \in Nat
  BY UnitsFacts
<1>7. ASSUME UseRanges PROVE RangesInv'
  <2>1. RangesInv /\ CurrentRange.last \in Nat
    BY <1>5, <1>7, UnitsFacts DEF UnitsInv
  <2>2. /\ Now = CurrentRange.last + 1 /\ trim_current_range = Len(files)
        /\ Last.units = CurrentRange.first..Recorded
    BY <1>1, <1>5, <2>1 DEF RangesInv, BoundaryAt
  <2>3. Recorded = CurrentRange.last
    <3>1. ~Uncounted
      BY <1>1 DEF Uncounted
    <3>2. (CurrentRange.last + 1) - 1 = CurrentRange.last
      BY <2>1
    <3> QED BY <2>2, <3>1, <3>2 DEF Recorded
  <2>4. Whole(Len(files))
    BY <2>2, <2>3 DEF Whole, Last, CurrentRange
  <2>5. \A k \in 1..Len(files) : Whole(k)
    <3>1. \A k \in 1..Len(files) : k < Len(files) \/ k = Len(files)
      BY <1>6
    <3> QED BY <2>1, <2>4, <3>1 DEF RangesInv
  <2> QED BY <1>2, <1>3, <1>4, <2>1, <2>2, <2>5 DEF RangesInv, Whole, BoundaryAt
<1>8. Keys => KeyFramesInv'
  BY <1>2, <1>3, <1>4 DEF UnitsInv, Keys, KeyFramesInv, BoundaryAt
<1> QED BY <1>3, <1>4, <1>7, <1>8 DEF UnitsInv, Keys

LEMMA NextRangeUnits ==
  ASSUME IInv, UnitsInv, NEW t \in Threads, NextRange(t)
  PROVE  UnitsInv'
<1>1. PICK pc \in {"next_file", "check", "finish"} :
              /\ Goto(Boundary, pc)
              /\ pc = "next_file" => UseRanges /\ trim_enabled' /\ Ranges[trim_current_range + 1].first = Now
  BY NextRangeCases
<1>2. thread'[Boundary].pc = pc
  BY <1>1, CaptureTrimAssumption, Gone
<1>3. /\ UNCHANGED <<input, count, trim_key_first, files, file_open>> /\ ~Writing /\ capture_mode' \in {capture_mode, {}}
      /\ thread[Boundary].pc = "next_range" /\ trim_enabled
      /\ trim_current_range' = IF UseRanges THEN trim_current_range + 1 ELSE trim_current_range
  BY NextRangeCases
<1>4. ~(Writing') /\ UNCHANGED <<UseRanges, Ranges, Now>> /\ ~file_open
  BY <1>3 DEF Writing, UseRanges, Ranges, Now, IInv, ModeInv, BoundaryAt
<1>5. ASSUME UseRanges PROVE RangesInv'
  <2>1. RangesInv /\ trim_current_range = Len(files) /\ trim_current_range' = trim_current_range + 1
    BY <1>3, <1>5 DEF UnitsInv, RangesInv, BoundaryAt
  <2>2. pc = "next_file" => Now = CurrentRange'.first
    BY <1>1, <1>4, <2>1 DEF CurrentRange
  <2>3. /\ ~(BoundaryAt({"activate", "next_range"})') /\ ~(BoundaryAt({"deactivate", "next_range"})')
        /\ BoundaryAt({"next_file", "activate"})' => pc = "next_file"
    BY <1>2 DEF BoundaryAt
  <2> QED BY <1>3, <1>4, <2>1, <2>2, <2>3 DEF RangesInv, Whole
<1>6. Keys => KeyFramesInv'
  <2>1. ~(BoundaryAt({"activate"})')
    BY <1>2 DEF BoundaryAt
  <2> QED BY <1>3, <1>4, <2>1 DEF UnitsInv, Keys, KeyFramesInv
<1> QED BY <1>3, <1>4, <1>5, <1>6 DEF UnitsInv, Keys

LEMMA NextFileUnits ==
  ASSUME IInv, UnitsInv, NEW t \in Threads, NextFile(t)
  PROVE  UnitsInv'
<1>1. /\ thread[Boundary].pc = "next_file" /\ input' = input /\ count' = count
      /\ Starts(Now, thread[Boundary].next)
      /\ thread[Boundary].next = IF UnitKind = "present" THEN "finish" ELSE "check"
  BY NextFileCases
<1>2. Now' = Now /\ Now' \in Nat /\ UnitKind \in {"present", "submit"}
  BY <1>1, NowIsNat DEF Now, UnitKind
<1>3. UseRanges => Now' = CurrentRange.first
  BY <1>1, <1>2 DEF UnitsInv, RangesInv, BoundaryAt
<1>4. Starts(Now', thread[Boundary].next)
  BY <1>1, <1>2
<1> QED BY <1>1, <1>2, <1>3, <1>4, StartsUnits

LEMMA ActivateUnits ==
  ASSUME IInv, UnitsInv, NEW t \in Threads, ActivateTrimming(t)
  PROVE  UnitsInv'
<1>1. /\ t = Boundary /\ thread[Boundary].pc = "activate" /\ trim_enabled
      /\ Len(files') = Len(files) /\ Len(files) \in Nat /\ Len(files) > 0 /\ Last'.units = {}
      /\ \A k \in 1..Len(files) : k < Len(files) => files'[k] = files[k]
  BY ActivateFile
<1>2. thread'[Boundary].pc = "relock"
  BY <1>1, Gone DEF ActivateTrimming
<1>3. /\ UNCHANGED <<input, trim_enabled, trim_current_range, trim_key_first, count, file_open>>
      /\ capture_mode' = capture_mode \cup {"write"}
  BY DEF ActivateTrimming
<1>4. Writing' /\ UNCHANGED <<UseRanges, Ranges, CurrentRange, Now>>
  BY <1>3 DEF Writing, UseRanges, Ranges, CurrentRange, Now
<1>5. file_open /\ Now \in Nat
  BY <1>1, UnitsFacts DEF IInv, ModeInv, BoundaryAt
<1>6. Recorded' = Now - 1
  BY <1>2, <1>4 DEF Recorded, Uncounted
<1>7. Now..(Now - 1) = {}
  BY <1>5
<1>8. ASSUME UseRanges PROVE RangesInv'
  <2>1. /\ RangesInv /\ CurrentRange.first \in Nat /\ CurrentRange.last \in Nat /\ CurrentRange.first <= CurrentRange.last
    BY <1>1, <1>8, UnitsFacts DEF UnitsInv
  <2>2. trim_current_range = Len(files) /\ Now = CurrentRange.first
    BY <1>1, <2>1 DEF RangesInv, BoundaryAt
  <2>3. \A k \in 1..Len(files') : k < Len(files') \/ ~(file_open') => Whole(k)'
    BY <1>1, <1>3, <1>4, <1>5, <2>1 DEF RangesInv, Whole
  <2>4. Last'.units = CurrentRange.first..(Now - 1)
    BY <1>1, <1>7, <2>2
  <2>5. Now <= CurrentRange.last + (IF BoundaryAt({"deactivate"})' THEN 1 ELSE 0)
    BY <1>5, <2>1, <2>2
  <2>6. ~(BoundaryAt({"deactivate", "next_range"})') /\ ~(BoundaryAt({"next_file", "activate"})')
    BY <1>2 DEF BoundaryAt
  <2> QED BY <1>1, <1>3, <1>4, <1>6, <2>1, <2>2, <2>3, <2>4, <2>5, <2>6 DEF RangesInv
<1>9. ASSUME Keys PROVE KeyFramesInv'
  <2>1. KeyFramesInv /\ input.trim_key_frames > 0 /\ input.trim_key_frames \in Nat /\ trim_key_first \in Nat
        /\ trim_key_first = Now
    BY <1>1, <1>9, UnitsFacts DEF UnitsInv, Keys, KeyFramesInv, BoundaryAt
  <2>2. files'[Len(files')].units = {}
    BY <1>1 DEF Last
  <2>3. \A k \in 1..Len(files') : k < Len(files) \/ k = Len(files')
    BY <1>1
  <2>4. IsFiniteSet(files'[Len(files')].units) /\ Cardinality(files'[Len(files')].units) <= input.trim_key_frames
    BY <2>2, NoUnits
  <2>5. \A k \in 1..Len(files') : IsFiniteSet(files'[k].units) /\ Cardinality(files'[k].units) <= input.trim_key_frames
    BY <1>1, <2>1, <2>3, <2>4 DEF KeyFramesInv
  <2>6. Now < trim_key_first + input.trim_key_frames /\ trim_key_first <= Now
    BY <2>1
  <2>7. ~(BoundaryAt({"activate"})')
    BY <1>2 DEF BoundaryAt
  <2> QED BY <1>1, <1>3, <1>4, <2>5, <2>6, <2>7 DEF KeyFramesInv
<1> QED BY <1>3, <1>4, <1>8, <1>9 DEF UnitsInv, Keys

LEMMA ActivatedUnits ==
  ASSUME IInv, UnitsInv, NEW t \in Threads, Activated(t)
  PROVE  UnitsInv'
<1>1. /\ thread[Boundary].pc = "relock" /\ thread[Boundary].kind = UnitKind
      /\ UNCHANGED <<input, mode_vars, count, capture_vars, calls, process>>
      /\ thread[Boundary].next \in IF UnitKind = "present" THEN {"finish"} ELSE {"encode", "check"}
      /\ Goto(Boundary, thread[Boundary].next) /\ Boundary \in Threads
  BY ActivatedCases, CaptureTrimAssumption
<1>2. /\ \A u \in Threads : u # Boundary => thread'[u] = thread[u]
      /\ thread'[Boundary].pc = thread[Boundary].next /\ thread'[Boundary].kind = thread[Boundary].kind
  BY <1>1, Gone
<1>3. UnitKind \in {"present", "submit"} /\ UnitKind' = UnitKind
  BY <1>1 DEF UnitKind
<1>4. Uncounted' <=> Uncounted
  BY <1>1, <1>2, <1>3 DEF Uncounted
<1>5. UNCHANGED <<input, mode_vars, count, files, file_open>>
  BY <1>1 DEF capture_vars
<1>6. thread'[Boundary].pc \notin Special /\ thread[Boundary].pc \notin Special
  BY <1>1, <1>2, <1>3 DEF Special
<1> QED BY <1>1, <1>2, <1>4, <1>5, <1>6, QuietUnits

LEMMA InitialUnits == ASSUME Init PROVE UnitsInv
<1>1. IInv
  BY Initially
<1>2. /\ thread[Boundary].pc = "idle" /\ trim_current_range = 1 /\ trim_key_first = Now /\ count.frames = 1
  BY CaptureTrimAssumption DEF Init, Idle, Now, kFirstFrame
<1> DEFINE from_start == IF UseRanges
                         THEN input.boundary = "frames" /\ Ranges[1].first = count.frames
                         ELSE input.trigger_active
<1>3. /\ files = IF from_start THEN <<NewFile>> ELSE <<>>
      /\ file_open = from_start /\ (Writing <=> from_start)
  BY DEF Init, Writing
<1>4. UseRanges /\ from_start => Ranges[1].first = Now
  BY <1>2 DEF Now
<1> HIDE DEF from_start
<1>5. Len(<<NewFile>>) = 1 /\ <<NewFile>>[1] = NewFile /\ Len(<<>>) = 0
  OBVIOUS
<1>6. Now \in Nat
  BY <1>1, NowIsNat
<1>7. Recorded = Now - 1
  BY <1>2 DEF Recorded, Uncounted
<1>8. Now..(Now - 1) = {}
  BY <1>6
<1>9. /\ ~BoundaryAt({"activate", "next_range"}) /\ ~BoundaryAt({"deactivate", "next_range"})
      /\ ~BoundaryAt({"next_file", "activate"}) /\ ~BoundaryAt({"activate"}) /\ ~BoundaryAt({"deactivate"})
  BY <1>2 DEF BoundaryAt
<1>10. CASE from_start
  <2>1. Len(files) = 1 /\ file_open /\ Writing /\ Last.units = {} /\ files[1].units = {}
    BY <1>3, <1>5, <1>10 DEF Last, NewFile
  <2>2. ASSUME UseRanges PROVE RangesInv
    <3>1. trim_enabled
      BY <1>1, <2>1, UnitsFacts
    <3>2. /\ CurrentRange.first = Now /\ CurrentRange.last \in Nat /\ Now <= CurrentRange.last
          /\ 1 <= Len(Ranges) /\ Len(Ranges) \in Nat
      BY <1>1, <1>2, <1>4, <1>10, <2>2, <3>1, UnitsFacts DEF CurrentRange
    <3>3. Now <= CurrentRange.last + 0
      BY <1>6, <3>2
    <3> QED BY <1>2, <1>6, <1>7, <1>8, <1>9, <2>1, <3>2, <3>3 DEF RangesInv
  <2>3. ASSUME Keys PROVE KeyFramesInv
    <3>1. IsFiniteSet(files[1].units) /\ Cardinality(files[1].units) <= input.trim_key_frames
      BY <1>1, <2>1, NoUnits
    <3>2. Now < trim_key_first + input.trim_key_frames /\ trim_key_first <= Now
      BY <1>1, <1>2, <1>6, <2>3, UnitsFacts DEF Keys
    <3>3. \A k \in 1..Len(files) : k = 1
      BY <2>1
    <3> QED BY <1>9, <2>1, <3>1, <3>2, <3>3 DEF KeyFramesInv
  <2> QED BY <2>2, <2>3 DEF UnitsInv, Keys
<1>11. CASE ~from_start
  <2>1. Len(files) = 0 /\ ~Writing /\ 1..Len(files) = {} /\ (file_open <=> FALSE)
    BY <1>3, <1>5, <1>11 DEF Init
  <2>2. Len(Ranges) \in Nat
    BY <1>1, UnitsFacts
  <2>3. RangesInv /\ KeyFramesInv
    BY <1>2, <1>9, <2>1, <2>2 DEF RangesInv, KeyFramesInv
  <2> QED BY <2>3 DEF UnitsInv
<1> QED BY <1>10, <1>11

(* In every state the open file holds the units from the first of its range  *)
(* to the last recorded, and the files before it their whole ranges.         *)
THEOREM UnitsInvariance == Spec => [](IInv /\ UnitsInv)
<1>1. Init => UnitsInv
  BY InitialUnits
<1>2. IInv /\ UnitsInv /\ [Next]_vars => UnitsInv'
  <2> SUFFICES ASSUME IInv, UnitsInv, [Next]_vars PROVE UnitsInv'
    OBVIOUS
  <2>1. CASE UNCHANGED vars
    BY <2>1, SameUnits DEF vars
  <2>2. ASSUME NEW t \in Threads, NEW kind \in {"call", "submit", "present"}, Begin(t, kind)
        PROVE  UnitsInv'
    BY <2>2, BeginUnits
  <2>3. ASSUME NEW t \in Threads, TrackWithoutTracker(t) PROVE UnitsInv'
    BY <2>3, SameUnits DEF TrackWithoutTracker
  <2>4. ASSUME NEW t \in Threads, ThreadStep(t) PROVE UnitsInv'
    BY <2>3, <2>4, EncodeUnits, CheckTrackingUnits, TrackUnits, FinishUnits, PreQueueSubmitUnits,
       EndFrameUnits, PostQueueSubmitUnits, DeactivateUnits, NextRangeUnits, NextFileUnits,
       ActivateUnits, ActivatedUnits
       DEF ThreadStep
  <2> QED BY <2>1, <2>2, <2>4 DEF Next
<1> QED BY <1>1, <1>2, Invariance, PTL DEF Spec

(* FilesHoldTheRanges, for any ranges: the file of a range that is over      *)
(* holds its frames or submits and no other, also when the next range begins *)
(* where it ends and when a file could not be created; with trim_key_frames  *)
(* no file holds more than that.                                             *)
THEOREM FilesHoldTheRangesCorrect == Spec => []FilesHoldTheRanges
<1>1. IInv /\ UnitsInv => FilesHoldTheRanges
  <2> SUFFICES ASSUME IInv, UnitsInv, NEW k \in 1..Len(files)
               PROVE  LET closed == k < Len(files) \/ ~file_open
                      IN IF UseRanges
                           THEN IF closed THEN files[k].units = Ranges[k].first..Ranges[k].last
                                ELSE files[k].units \subseteq Ranges[k].first..Ranges[k].last
                           ELSE input.trim_key_frames > 0 => Cardinality(files[k].units) <= input.trim_key_frames
    BY DEF FilesHoldTheRanges
  <2>1. CASE UseRanges /\ (k < Len(files) \/ ~file_open)
    BY <2>1 DEF UnitsInv, RangesInv, Whole
  <2>2. CASE UseRanges /\ ~(k < Len(files) \/ ~file_open)
    <3>1. k = Len(files) /\ files[k] = Last
      BY <2>2, UnitsFacts DEF Last
    <3>2. CASE Writing
      <4>1. trim_enabled /\ RangesInv /\ ~BoundaryAt({"next_range", "next_file", "activate"})
        BY <2>2, <3>2, UnitsFacts DEF UnitsInv, IInv, ModeInv
      <4>2. k = trim_current_range /\ Last.units = CurrentRange.first..Recorded
        BY <3>1, <3>2, <4>1 DEF RangesInv
      <4>3. CurrentRange.first \in Nat /\ CurrentRange.last \in Nat /\ Now \in Nat
        BY <2>2, <4>1, UnitsFacts
      <4>4. Recorded <= CurrentRange.last /\ Recorded \in Int
        <5>1. CASE Uncounted
          <6>1. ~BoundaryAt({"deactivate"})
            BY <5>1 DEF Uncounted, BoundaryAt
          <6>2. Now <= CurrentRange.last
            BY <3>2, <4>1, <4>3, <6>1 DEF RangesInv
          <6> QED BY <4>3, <5>1, <6>2 DEF Recorded
        <5>2. CASE ~Uncounted
          <6>1. Now <= CurrentRange.last + 1
            BY <3>2, <4>1, <4>3 DEF RangesInv
          <6> QED BY <4>3, <5>2, <6>1 DEF Recorded
        <5> QED BY <5>1, <5>2
      <4>5. CurrentRange.first..Recorded \subseteq CurrentRange.first..CurrentRange.last
        BY <4>3, <4>4
      <4> QED BY <2>2, <3>1, <4>2, <4>5 DEF CurrentRange
    <3>3. CASE ~Writing
      <4>1. Last = NewFile
        BY <2>2, <3>3 DEF IInv, ModeInv
      <4> QED BY <2>2, <3>1, <4>1 DEF NewFile
    <3> QED BY <3>2, <3>3
  <2>3. CASE ~UseRanges
    BY <2>3 DEF UnitsInv, KeyFramesInv
  <2> QED BY <2>1, <2>2, <2>3
<1> QED BY <1>1, UnitsInvariance, PTL

=============================================================================
