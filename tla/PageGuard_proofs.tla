--------------------------- MODULE PageGuard_proofs ---------------------------
(***************************************************************************)
(* What holds of PageGuard for any number of threads, pages and ranges.    *)
(*                                                                         *)
(* The inductive invariant IInv says who holds the lock, what the API      *)
(* thread's scan has left behind, that a marked page is known as modified  *)
(* unless the scan has yet to reach it, and which pages are closed.  It    *)
(* implies NoWriteMissed and NoTrapUnderTheLock.  Two further invariants   *)
(* rest on it: DeviceInv for the pages of the device, and WriteInv for     *)
(* those of the application, which needs the shadow memory to be loaded    *)
(* as it should be.                                                        *)
(***************************************************************************)
EXTENDS PageGuard, FiniteSetTheorems, TLAPS

Processing == api.pc \in {"scan", "copy", "reset"}

(* tracked_memory_lock_ is held by the API thread while it processes, and by *)
(* a thread in the second half of the signal handler.                        *)
LockHeld ==
  /\ lock = Api <=> Processing
  /\ \A t \in Threads : lock = t <=> access[t].pc = "opened"

(* An unmapping finds and leaves no thread in the memory.                    *)
AccessesAreTracked ==
  /\ \A t \in Threads : access[t].pc # "idle" =>
       /\ api.call # "unmap"
       /\ access[t].page \in tracked \ (in_flight \cup api.uses)
       /\ access[t].write => access[t].page \in AppPages
       /\ access[t].pc = "opened" => is_modified
  /\ is_modified => tracked # {}

(* The scan goes over the tracked pages from the first to the last; those    *)
(* before it have no mark, and nothing is marked meanwhile.                  *)
ScanInOrder ==
  /\ Processing =>
       /\ tracked # {} /\ ~is_modified
       /\ First(tracked) <= api.next /\ api.next <= AfterLast
       /\ api.start # 0 => First(tracked) <= api.start /\ api.start < api.next
       /\ \A p \in Pages : active_write[p] => p >= api.next
  /\ ~Processing => api.start = 0 /\ api.uses = {}
  /\ api.pc = "remove" => api.call = "unmap"
  /\ api.pc = "idle" => api.call = "none"

(* Only tracked pages are marked, and is_modified_ says whether any is.      *)
MarksAreKnown ==
  \A p \in Pages : active_write[p] => p \in tracked /\ (Processing \/ is_modified)

(* Pages are closed for writing while they are copied, and only then.        *)
ClosedForCopy ==
  \A p \in Pages :
    protection[p] = "read" <=> api.pc \in {"copy", "reset"} /\ p \in Active

IInv ==
  /\ TypeOK
  /\ LockHeld
  /\ AccessesAreTracked
  /\ ScanInOrder
  /\ MarksAreKnown
  /\ ClosedForCopy
  /\ NoWriteMissed

-----------------------------------------------------------------------------
(* The pages that the device writes.                                         *)

(* A page that may be read, or will be copied back, has been opened.         *)
Opened(p) ==
  active_write[p] \/ p \in Active \/ protection[p] # "none" \/ BeingMarked(p)

(* The device writes no open page; an open page holds what it has written.   *)
DeviceInv ==
  option.separate_read /\ restores = 0 =>
    /\ \A p \in DevicePages : mapped[p] = written[p]
    /\ \A p \in DevicePages \cap tracked : Opened(p) =>
         /\ p \notin in_flight \ api.uses
         /\ BeingMarked(p) \/ shadow[p] = mapped[p]

-----------------------------------------------------------------------------
(* The pages that the application writes.                                    *)

Agrees(p) == shadow[p] = mapped[p]
TrackedAppPages == AppPages \cap tracked

(* A page whose content the driver and the capture do not have is open, so   *)
(* that it will be processed.                                                *)
ClosedPagesAgree == \A p \in TrackedAppPages : protection[p] = "none" => Agrees(p)

(* What the handler copies for a read is there already.                      *)
ReadsChangeNothing ==
  \A t \in Threads :
    option.separate_read /\ access[t].pc # "idle" =>
      /\ \A u \in Touching(access[t].page) : access[u].write = access[t].write
      /\ access[t].pc \in {"fault", "opened"} /\ ~access[t].write
           => access[t].page \in DevicePages \/ Agrees(access[t].page)

Copied ==
  /\ api.pc = "reset" => \A p \in Active \cap AppPages : Agrees(p)
  /\ api.pc = "remove" => \A p \in TrackedAppPages : Agrees(p)
  /\ Processing => \A p \in AppPages : api.before[p] <= written[p]

(* A persistent shadow allocation that is not tracked.                       *)
ShadowIsKept ==
  option.persistent /\ tracked = {} =>
    (\A p \in AppPages : Agrees(p)) \/ (\A p \in Pages : ~page_loaded[p])

WriteInv ==
  /\ ClosedPagesAgree
  /\ ReadsChangeNothing
  /\ Copied
  /\ ShadowIsKept
  /\ WritesSurvive

(* A persistent shadow allocation is loaded as it should be if the whole     *)
(* memory is mapped and its size is no multiple of the page size (see        *)
(* LoadPages); one that is made anew for every mapping needs nothing.        *)
LoadsWholeMemory ==
  \A o \in Options : o.persistent => o.partial_tail /\ Ranges \subseteq {Pages}

-----------------------------------------------------------------------------
(* A range of pages is an interval that First and Cardinality describe.      *)
LEMMA RangeBounds ==
  ASSUME NEW r \in Ranges
  PROVE  /\ First(r) \in Pages /\ First(r) \in r
         /\ First(r) + Cardinality(r) \in 2..(LastPage + 1)
         /\ First(r) + Cardinality(r) > First(r)
         /\ r = First(r)..((First(r) + Cardinality(r)) - 1)
<1>1. PICK first \in Pages, last \in Pages : first <= last /\ r = first..last
  BY PageGuardAssumption
<1>2. LastPage \in Nat /\ first \in Int /\ last \in Int
  BY PageGuardAssumption DEF Pages
<1>3. Cardinality(r) = last - first + 1
  BY <1>1, <1>2, FS_Interval
<1>4. First(r) = first
  <2>1. first \in r /\ \A q \in r : first <= q
    BY <1>1, <1>2
  <2>2. First(r) \in r /\ \A q \in r : First(r) <= q
    BY <2>1 DEF First
  <2> QED BY <1>1, <1>2, <2>1, <2>2
<1> QED BY <1>1, <1>2, <1>3, <1>4 DEF Pages

(* The loops of ProcessEntry go over exactly the tracked pages.              *)
LEMMA TrackedBounds ==
  ASSUME TypeOK, tracked # {}
  PROVE  /\ First(tracked) \in Pages
         /\ AfterLast \in 2..(LastPage + 1)
         /\ tracked = First(tracked)..(AfterLast - 1)
         /\ tracked \subseteq Pages
<1>1. tracked \in Ranges
  BY DEF TypeOK
<1>2. LastPage \in Nat
  BY PageGuardAssumption
<1>3. /\ First(tracked) \in Pages
      /\ AfterLast \in 2..(LastPage + 1)
      /\ tracked = First(tracked)..(AfterLast - 1)
  BY <1>1, RangeBounds DEF AfterLast
<1> HIDE DEF First, AfterLast
<1> QED BY <1>2, <1>3 DEF Pages

LEMMA Constants ==
  /\ LastPage \in Nat \ {0} /\ DevicePages \subseteq Pages
  /\ Api \notin Threads /\ Nobody \notin Threads /\ Api # Nobody
BY PageGuardAssumption

(* The page that the scan looks at, and the range behind it.                 *)
LEMMA ScanBounds ==
  ASSUME TypeOK, ScanInOrder, Processing
  PROVE  /\ api.next \in 1..(LastPage + 1) /\ api.next <= AfterLast
         /\ api.next < AfterLast => api.next \in tracked /\ api.next \in Pages
         /\ \A p \in tracked : p \in Pages /\ First(tracked) <= p /\ p < AfterLast
         /\ First(tracked) \in Nat /\ AfterLast \in Nat /\ LastPage \in Nat /\ api.start \in Nat
         /\ Active \subseteq tracked
<1>1. tracked # {}
  BY DEF ScanInOrder
<1>2. /\ First(tracked) \in Pages
      /\ AfterLast \in 2..(LastPage + 1)
      /\ tracked = First(tracked)..(AfterLast - 1)
      /\ tracked \subseteq Pages
  BY <1>1, TrackedBounds
<1>3. LastPage \in Nat /\ api.next \in 1..(LastPage + 1) /\ api.start \in Nat
  BY Constants DEF TypeOK
<1>4. First(tracked) <= api.next /\ api.next <= AfterLast
  BY DEF ScanInOrder
<1>5. Active \subseteq tracked
  BY <1>2, <1>3, <1>4 DEF ScanInOrder, Active, Pages
<1> QED BY <1>2, <1>3, <1>4, <1>5 DEF Pages

(* What the end and the beginning of a processing do to lock and call.        *)
LEMMA EndEffect ==
  ASSUME NEW call, EndProcessing(call)
  PROVE  /\ lock' = Nobody
         /\ api'.pc = (IF call = "unmap" THEN "remove" ELSE "idle")
         /\ api'.call = (IF call = "unmap" THEN "unmap" ELSE "none")
         /\ api'.start = 0 /\ api'.uses = {}
BY DEF EndProcessing, NoCall

LEMMA BeginEffect ==
  ASSUME NEW call \in {"process", "unmap"}, NEW uses, BeginProcessing(call, uses)
  PROVE  /\ api.pc = "idle" /\ lock = Nobody
         /\ UNCHANGED <<tracked, protection, active_write, content, option, restores, access>>
         /\ \/ /\ is_modified /\ ~is_modified' /\ lock' = Api
               /\ api' = [pc |-> "scan", call |-> call, next |-> First(tracked), start |-> 0,
                          uses |-> uses, before |-> written]
            \/ /\ ~is_modified /\ UNCHANGED is_modified /\ lock' = Nobody
               /\ api'.pc = (IF call = "unmap" THEN "remove" ELSE "idle")
               /\ api'.call = (IF call = "unmap" THEN "unmap" ELSE "none")
               /\ api'.start = 0 /\ api'.uses = {}
BY EndEffect DEF BeginProcessing

(* A step keeps the types.                                                    *)
LEMMA TypeStep ==
  ASSUME IInv, Next
  PROVE  TypeOK'
<1> DEFINE Accesses == [pc : {"idle", "access", "fault", "opened"}, page : Pages, write : BOOLEAN]
           Calls == [pc : {"idle", "scan", "copy", "reset", "remove"},
                     call : {"none", "process", "unmap"}, next : 1..(LastPage + 1),
                     start : 0..LastPage, uses : SUBSET DevicePages, before : [Pages -> Nat]]
<1>0. TypeOK /\ 1 \in Pages
  BY Constants DEF IInv, Pages
<1>a. NoAccess \in Accesses
  BY <1>0 DEF NoAccess
<1>b. NoCall \in Calls /\ [NoCall EXCEPT !.pc = "remove", !.call = "unmap"] \in Calls
  <2>1. /\ NoCall = [pc |-> "idle", call |-> "none", next |-> 1, start |-> 0,
                     uses |-> {}, before |-> [p \in Pages |-> 0]]
        /\ 1 \in 1..(LastPage + 1) /\ 0 \in 0..LastPage /\ {} \in SUBSET DevicePages
        /\ [p \in Pages |-> 0] \in [Pages -> Nat]
    BY Constants DEF NoCall
  <2> QED BY <2>1
<1>1. ASSUME NEW t \in Threads, NEW p \in Pages, NEW write \in BOOLEAN, StartAccess(t, p, write)
      PROVE  TypeOK'
  BY <1>0, <1>1 DEF StartAccess, vars, entry, content, environment, TypeOK
<1>2. ASSUME NEW t \in Threads, Perform(t)
      PROVE  TypeOK'
  <2>1. access[t].page \in Pages /\ written[access[t].page] + 1 \in Nat
    BY <1>0 DEF TypeOK
  <2>2. {shadow', written'} \subseteq [Pages -> Nat]
    BY <1>0, <1>2, <2>1 DEF Perform, TypeOK
  <2>3. access' \in [Threads -> Accesses]
    BY <1>0, <1>a, <1>2 DEF Perform, TypeOK
  <2> QED BY <1>0, <1>2, <2>2, <2>3 DEF Perform, entry, environment, TypeOK
<1>3. ASSUME NEW t \in Threads, Trap(t)
      PROVE  TypeOK'
  <2>1. access' \in [Threads -> Accesses]
    BY <1>0, <1>3 DEF Trap, TypeOK
  <2> QED BY <1>0, <1>3, <2>1 DEF Trap, entry, content, environment, TypeOK
<1>4. ASSUME NEW t \in Threads, OpenPage(t)
      PROVE  TypeOK'
  <2>1. access' \in [Threads -> Accesses]
    BY <1>0, <1>4 DEF OpenPage, TypeOK
  <2>2. protection' \in [Pages -> {"none", "read", "readwrite"}]
    BY <1>0, <1>4 DEF OpenPage, TypeOK
  <2> QED BY <1>0, <1>4, <2>1, <2>2 DEF OpenPage, content, environment, TypeOK
<1>5. ASSUME NEW t \in Threads, MarkPage(t)
      PROVE  TypeOK'
  <2>1. access' \in [Threads -> Accesses]
    BY <1>0, <1>5 DEF MarkPage, TypeOK
  <2>2. access[t].page \in Pages /\ mapped[access[t].page] \in Nat
    BY <1>0 DEF TypeOK
  <2>3. shadow' \in [Pages -> Nat]
    BY <1>0, <1>5, <2>2 DEF MarkPage, TypeOK
  <2>4. active_write' \in [Pages -> BOOLEAN]
    BY <1>0, <1>5 DEF MarkPage, TypeOK
  <2> QED BY <1>0, <1>5, <2>1, <2>3, <2>4 DEF MarkPage, environment, TypeOK
<1>6. ASSUME NEW r \in Ranges, Map(r)
      PROVE  TypeOK'
  <2>1. shadow' \in [Pages -> Nat] /\ page_loaded' \in [Pages -> BOOLEAN]
    <3>1. CASE option.persistent
      BY <1>0, <1>6, <3>1 DEF Map, LoadPages, TypeOK
    <3>2. CASE ~option.persistent
      BY <1>0, <1>6, <3>2 DEF Map, CopyOnMap, TypeOK
    <3> QED BY <3>1, <3>2
  <2>2. /\ protection' \in [Pages -> {"none", "read", "readwrite"}]
        /\ active_write' \in [Pages -> BOOLEAN] /\ is_modified' \in BOOLEAN
    BY <1>6 DEF Map
  <2> QED BY <1>0, <1>6, <2>1, <2>2 DEF Map, environment, TypeOK
<1>7. ASSUME NEW call \in {"process", "unmap"}, NEW uses \in SUBSET DevicePages,
             BeginProcessing(call, uses)
      PROVE  TypeOK'
  <2>1. is_modified => First(tracked) \in 1..(LastPage + 1)
    BY <1>0, Constants, TrackedBounds DEF IInv, AccessesAreTracked, Pages
  <2>2. [pc |-> "scan", call |-> call, next |-> First(tracked), start |-> 0,
          uses |-> uses, before |-> written] \in Calls \/ ~is_modified
    BY <1>0, <2>1, Constants DEF TypeOK
  <2>3. api' \in Calls
    BY <1>b, <1>7, <2>2 DEF BeginProcessing, EndProcessing
  <2>4. lock' \in Threads \cup {Api, Nobody} /\ is_modified' \in BOOLEAN /\ in_flight' \subseteq DevicePages
    BY <1>0, <1>7 DEF BeginProcessing, EndProcessing, TypeOK
  <2> QED BY <1>0, <1>7, <2>3, <2>4 DEF BeginProcessing, content, TypeOK
<1>8. ASSUME ScanMarkedPage
      PROVE  TypeOK'
  <2>1. api.next \in Pages /\ api.next + 1 \in 1..(LastPage + 1)
    BY <1>8, ScanBounds DEF ScanMarkedPage, IInv, Processing, Pages
  <2>2. api.next \in 0..LastPage /\ api.start \in 0..LastPage
    BY <1>0, <2>1, Constants DEF TypeOK, Pages
  <2>3. (IF api.start = 0 THEN api.next ELSE api.start) \in 0..LastPage
    BY <2>2
  <2>4. api' \in Calls
    BY <1>0, <1>8, <2>1, <2>3 DEF ScanMarkedPage, TypeOK
  <2>5. active_write' \in [Pages -> BOOLEAN]
    BY <1>0, <1>8 DEF ScanMarkedPage, TypeOK
  <2> QED BY <1>0, <1>8, <2>4, <2>5 DEF ScanMarkedPage, content, environment, TypeOK
<1>9. ASSUME ScanOtherPage
      PROVE  TypeOK'
  <2>1. api.next + 1 \in 1..(LastPage + 1)
    BY <1>9, ScanBounds DEF ScanOtherPage, IInv, Processing, Pages
  <2>2. api' \in Calls
    BY <1>0, <1>9, <2>1 DEF ScanOtherPage, TypeOK
  <2> QED BY <1>0, <1>9, <2>2 DEF ScanOtherPage, entry, content, environment, TypeOK
<1>10. ASSUME ScanDone
       PROVE  TypeOK'
  <2>1. api' \in Calls
    BY <1>b, <1>10 DEF ScanDone, EndProcessing
  <2> QED BY <1>0, <1>10, <2>1 DEF ScanDone, EndProcessing, entry, content, environment, TypeOK
<1>11. ASSUME ProtectForCopy
       PROVE  TypeOK'
  BY <1>0, <1>11 DEF ProtectForCopy, ProtectRange, content, environment, TypeOK
<1>12. ASSUME CopyRange
       PROVE  TypeOK'
  BY <1>0, <1>12 DEF CopyRange, entry, environment, TypeOK
<1>13. ASSUME ResetGuard
       PROVE  TypeOK'
  <2>1. 0 \in 0..LastPage
    BY Constants
  <2>3. api' \in Calls
    BY <1>0, <1>13, <2>1 DEF ResetGuard, TypeOK
  <2>2. protection' \in [Pages -> {"none", "read", "readwrite"}]
    BY <1>0, <1>13 DEF ResetGuard, ProtectRange, TypeOK
  <2> QED BY <1>0, <1>13, <2>2, <2>3 DEF ResetGuard, content, environment, TypeOK
<1>14. ASSUME Remove
       PROVE  TypeOK'
  <2>1. shadow' \in [Pages -> Nat]
    BY <1>0, <1>14 DEF Remove, TypeOK
  <2>2. api' \in Calls
    BY <1>b, <1>14 DEF Remove
  <2> QED BY <1>0, <1>14, <2>1, <2>2 DEF Remove, environment, TypeOK
<1>15. ASSUME RestoreHandler
       PROVE  TypeOK'
  <2>1. restores' \in 0..MaxRestores
    BY <1>0, <1>15, PageGuardAssumption DEF RestoreHandler, TypeOK
  <2>2. active_write' \in [Pages -> BOOLEAN]
    BY <1>15 DEF RestoreHandler
  <2> QED BY <1>0, <1>15, <2>1, <2>2 DEF RestoreHandler, content, TypeOK
<1>16. ASSUME NEW p \in Pages, DeviceWrite(p)
       PROVE  TypeOK'
  <2>1. written[p] + 1 \in Nat
    BY <1>0 DEF TypeOK
  <2>2. {mapped', written'} \subseteq [Pages -> Nat]
    BY <1>0, <1>16, <2>1 DEF DeviceWrite, TypeOK
  <2> QED BY <1>0, <1>16, <2>2 DEF DeviceWrite, entry, environment, TypeOK
<1>17. ASSUME WaitForDevice
       PROVE  TypeOK'
  BY <1>0, <1>17 DEF WaitForDevice, entry, content, TypeOK
<1> QED
  BY <1>1, <1>2, <1>3, <1>4, <1>5, <1>6, <1>7, <1>8, <1>9, <1>10, <1>11, <1>12, <1>13, <1>14,
     <1>15, <1>16, <1>17 DEF Next, ThreadStep, ApiStep

(* The API thread gives the lock up only at the end of a scan, the handler    *)
(* when it has marked its page.                                              *)
LEMMA LockStep ==
  ASSUME IInv, Next
  PROVE  LockHeld'
<1> USE Constants DEF TypeOK, IInv, LockHeld, Processing
<1>1. ASSUME NEW t \in Threads, NEW p \in Pages, NEW write \in BOOLEAN, StartAccess(t, p, write)
      PROVE  LockHeld'
  BY <1>1 DEF StartAccess, MayAccess, entry, content, environment
<1>2. ASSUME NEW t \in Threads, Perform(t)
      PROVE  LockHeld'
  BY <1>2 DEF Perform, Permitted, NoAccess, entry, environment
<1>3. ASSUME NEW t \in Threads, Trap(t)
      PROVE  LockHeld'
  BY <1>3 DEF Trap, entry, content, environment
<1>4. ASSUME NEW t \in Threads, OpenPage(t)
      PROVE  LockHeld'
  BY <1>4 DEF OpenPage, content, environment
<1>5. ASSUME NEW t \in Threads, MarkPage(t)
      PROVE  LockHeld'
  BY <1>5 DEF MarkPage, environment
<1>6. ASSUME NEW r \in Ranges, Map(r)
      PROVE  LockHeld'
  BY <1>6 DEF Map, environment
<1>7. ASSUME NEW call \in {"process", "unmap"}, NEW uses \in SUBSET DevicePages,
             BeginProcessing(call, uses)
      PROVE  LockHeld'
  BY <1>7, BeginEffect, Constants DEF IInv, LockHeld, Processing
<1>8. ASSUME ScanMarkedPage
      PROVE  LockHeld'
  BY <1>8 DEF ScanMarkedPage, content, environment
<1>9. ASSUME ScanOtherPage
      PROVE  LockHeld'
  BY <1>9 DEF ScanOtherPage, entry, content, environment
<1>10. ASSUME ScanDone
       PROVE  LockHeld'
  BY <1>10 DEF ScanDone, EndProcessing, NoCall, entry, content, environment
<1>11. ASSUME ProtectForCopy
       PROVE  LockHeld'
  BY <1>11 DEF ProtectForCopy, ProtectRange, content, environment
<1>12. ASSUME CopyRange
       PROVE  LockHeld'
  BY <1>12 DEF CopyRange, entry, environment
<1>13. ASSUME ResetGuard
       PROVE  LockHeld'
  BY <1>13 DEF ResetGuard, ProtectRange, content, environment
<1>14. ASSUME Remove
       PROVE  LockHeld'
  BY <1>14 DEF Remove, NoCall, environment
<1>15. ASSUME RestoreHandler
       PROVE  LockHeld'
  BY <1>15 DEF RestoreHandler, content
<1>16. ASSUME NEW p \in Pages, DeviceWrite(p)
       PROVE  LockHeld'
  BY <1>16 DEF DeviceWrite, entry, environment
<1>17. ASSUME WaitForDevice
       PROVE  LockHeld'
  BY <1>17 DEF WaitForDevice, entry, content
<1> QED
  BY <1>1, <1>2, <1>3, <1>4, <1>5, <1>6, <1>7, <1>8, <1>9, <1>10, <1>11, <1>12,
     <1>13, <1>14, <1>15, <1>16, <1>17 DEF Next, ThreadStep, ApiStep

(* Threads stay within the tracked memory and out of the way of the device.  *)
LEMMA AccessStep ==
  ASSUME IInv, Next
  PROVE  AccessesAreTracked'
<1> USE Constants DEF TypeOK, IInv, LockHeld, Processing, AccessesAreTracked, ScanInOrder
<1>1. ASSUME NEW t \in Threads, NEW p \in Pages, NEW write \in BOOLEAN, StartAccess(t, p, write)
      PROVE  AccessesAreTracked'
  BY <1>1 DEF StartAccess, MayAccess, entry, content, environment
<1>2. ASSUME NEW t \in Threads, Perform(t)
      PROVE  AccessesAreTracked'
  BY <1>2 DEF Perform, Permitted, NoAccess, entry, environment
<1>3. ASSUME NEW t \in Threads, Trap(t)
      PROVE  AccessesAreTracked'
  BY <1>3 DEF Trap, entry, content, environment
<1>4. ASSUME NEW t \in Threads, OpenPage(t)
      PROVE  AccessesAreTracked'
  BY <1>4 DEF OpenPage, content, environment
<1>5. ASSUME NEW t \in Threads, MarkPage(t)
      PROVE  AccessesAreTracked'
  BY <1>5 DEF MarkPage, environment
<1>6. ASSUME NEW r \in Ranges, Map(r)
      PROVE  AccessesAreTracked'
  BY <1>6 DEF Map, environment
<1>7. ASSUME NEW call \in {"process", "unmap"}, NEW uses \in SUBSET DevicePages,
             BeginProcessing(call, uses)
      PROVE  AccessesAreTracked'
  BY <1>7 DEF BeginProcessing, EndProcessing, NoCall
<1>8. ASSUME ScanMarkedPage
      PROVE  AccessesAreTracked'
  BY <1>8 DEF ScanMarkedPage, content, environment
<1>9. ASSUME ScanOtherPage
      PROVE  AccessesAreTracked'
  BY <1>9 DEF ScanOtherPage, entry, content, environment
<1>10. ASSUME ScanDone
       PROVE  AccessesAreTracked'
  BY <1>10 DEF ScanDone, EndProcessing, NoCall, entry, content, environment
<1>11. ASSUME ProtectForCopy
       PROVE  AccessesAreTracked'
  BY <1>11 DEF ProtectForCopy, ProtectRange, content, environment
<1>12. ASSUME CopyRange
       PROVE  AccessesAreTracked'
  BY <1>12 DEF CopyRange, entry, environment
<1>13. ASSUME ResetGuard
       PROVE  AccessesAreTracked'
  BY <1>13 DEF ResetGuard, ProtectRange, content, environment
<1>14. ASSUME Remove
       PROVE  AccessesAreTracked'
  BY <1>14 DEF Remove, NoCall, environment
<1>15. ASSUME RestoreHandler
       PROVE  AccessesAreTracked'
  BY <1>15 DEF RestoreHandler, content
<1>16. ASSUME NEW p \in Pages, DeviceWrite(p)
       PROVE  AccessesAreTracked'
  BY <1>16 DEF DeviceWrite, entry, environment
<1>17. ASSUME WaitForDevice
       PROVE  AccessesAreTracked'
  BY <1>17 DEF WaitForDevice, entry, content
<1> QED
  BY <1>1, <1>2, <1>3, <1>4, <1>5, <1>6, <1>7, <1>8, <1>9, <1>10, <1>11, <1>12,
     <1>13, <1>14, <1>15, <1>16, <1>17 DEF Next, ThreadStep, ApiStep

(* The scan leaves no mark behind it.                                        *)
LEMMA ScanStep ==
  ASSUME IInv, Next
  PROVE  ScanInOrder'
<1> USE Constants DEF TypeOK, IInv, LockHeld, Processing, AccessesAreTracked, ScanInOrder, MarksAreKnown, AfterLast
<1>1. ASSUME NEW t \in Threads, NEW p \in Pages, NEW write \in BOOLEAN, StartAccess(t, p, write)
      PROVE  ScanInOrder'
  BY <1>1 DEF StartAccess, MayAccess, entry, content, environment
<1>2. ASSUME NEW t \in Threads, Perform(t)
      PROVE  ScanInOrder'
  BY <1>2 DEF Perform, Permitted, NoAccess, entry, environment
<1>3. ASSUME NEW t \in Threads, Trap(t)
      PROVE  ScanInOrder'
  BY <1>3 DEF Trap, entry, content, environment
<1>4. ASSUME NEW t \in Threads, OpenPage(t)
      PROVE  ScanInOrder'
  BY <1>4 DEF OpenPage, content, environment
<1>5. ASSUME NEW t \in Threads, MarkPage(t)
      PROVE  ScanInOrder'
  BY <1>5 DEF MarkPage, environment
<1>6. ASSUME NEW r \in Ranges, Map(r)
      PROVE  ScanInOrder'
  BY <1>6 DEF Map, environment
<1>7. ASSUME NEW call \in {"process", "unmap"}, NEW uses \in SUBSET DevicePages,
             BeginProcessing(call, uses)
      PROVE  ScanInOrder'
  <2> HIDE DEF TypeOK
  <2>1. ~Processing /\ tracked' = tracked /\ active_write' = active_write
    BY <1>7, BeginEffect DEF Processing
  <2>2. is_modified => /\ tracked # {} /\ First(tracked) <= First(tracked) /\ First(tracked) <= AfterLast
                       /\ \A p \in Pages : active_write[p] => p >= First(tracked)
    <3>1. is_modified => /\ tracked # {} /\ First(tracked) \in Pages /\ AfterLast \in 2..(LastPage + 1)
                         /\ tracked = First(tracked)..(AfterLast - 1)
      BY TrackedBounds DEF IInv, AccessesAreTracked
    <3>2. First(tracked) \in tracked \/ ~is_modified
      BY <3>1, RangeBounds DEF IInv, TypeOK
    <3> QED BY <3>1, <3>2, Constants DEF IInv, MarksAreKnown, Pages
  <2>3. AfterLast' = AfterLast
    BY <2>1 DEF AfterLast
  <2> QED BY <1>7, <2>1, <2>2, <2>3, BeginEffect DEF ScanInOrder, Processing, IInv
<1>8. ASSUME ScanMarkedPage
      PROVE  ScanInOrder'
  <2> HIDE DEF TypeOK
  <2>1. Processing /\ AfterLast' = AfterLast /\ tracked' = tracked /\ is_modified' = is_modified
    BY <1>8 DEF ScanMarkedPage, Processing, AfterLast
  <2>2. /\ api'.pc = "scan" /\ api'.next = api.next + 1
        /\ api'.start = IF api.start = 0 THEN api.next ELSE api.start
        /\ api.next < AfterLast
        /\ active_write' = [active_write EXCEPT ![api.next] = FALSE]
    BY <1>8 DEF ScanMarkedPage, IInv, TypeOK
  <2>3. \A p \in Pages : active_write'[p] => active_write[p] /\ p # api.next
    BY <2>2 DEF IInv, TypeOK
  <2>4. \A p \in Pages : active_write'[p] => p >= api.next + 1
    BY <2>1, <2>3, ScanBounds DEF IInv, ScanInOrder, Pages
  <2> QED BY <2>1, <2>2, <2>4, ScanBounds DEF IInv, ScanInOrder, Processing
<1>9. ASSUME ScanOtherPage
      PROVE  ScanInOrder'
  <2> HIDE DEF TypeOK
  <2>1. Processing /\ AfterLast' = AfterLast /\ UNCHANGED entry
    BY <1>9 DEF ScanOtherPage, Processing, AfterLast, entry
  <2>2. /\ api'.pc = "scan" /\ api'.next = api.next + 1 /\ api'.start = 0
        /\ api.next < AfterLast /\ ~active_write[api.next]
    BY <1>9 DEF ScanOtherPage, IInv, TypeOK
  <2>3. \A p \in Pages : active_write'[p] => p >= api.next + 1
    BY <2>1, <2>2, ScanBounds DEF IInv, ScanInOrder, Pages, entry
  <2> QED BY <2>1, <2>2, <2>3, ScanBounds DEF IInv, ScanInOrder, Processing, entry
<1>10. ASSUME ScanDone
       PROVE  ScanInOrder'
  BY <1>10 DEF ScanDone, EndProcessing, NoCall, entry, content, environment
<1>11. ASSUME ProtectForCopy
       PROVE  ScanInOrder'
  BY <1>11 DEF ProtectForCopy, ProtectRange, content, environment
<1>12. ASSUME CopyRange
       PROVE  ScanInOrder'
  BY <1>12 DEF CopyRange, entry, environment
<1>13. ASSUME ResetGuard
       PROVE  ScanInOrder'
  BY <1>13 DEF ResetGuard, ProtectRange, content, environment
<1>14. ASSUME Remove
       PROVE  ScanInOrder'
  BY <1>14 DEF Remove, NoCall, environment
<1>15. ASSUME RestoreHandler
       PROVE  ScanInOrder'
  BY <1>15 DEF RestoreHandler, content
<1>16. ASSUME NEW p \in Pages, DeviceWrite(p)
       PROVE  ScanInOrder'
  BY <1>16 DEF DeviceWrite, entry, environment
<1>17. ASSUME WaitForDevice
       PROVE  ScanInOrder'
  BY <1>17 DEF WaitForDevice, entry, content
<1> QED
  BY <1>1, <1>2, <1>3, <1>4, <1>5, <1>6, <1>7, <1>8, <1>9, <1>10, <1>11, <1>12,
     <1>13, <1>14, <1>15, <1>16, <1>17 DEF Next, ThreadStep, ApiStep

(* A mark is known as modified, or ahead of the scan.                        *)
LEMMA MarksStep ==
  ASSUME IInv, Next
  PROVE  MarksAreKnown'
<1> USE Constants DEF TypeOK, IInv, LockHeld, Processing, AccessesAreTracked, ScanInOrder, MarksAreKnown
<1>1. ASSUME NEW t \in Threads, NEW p \in Pages, NEW write \in BOOLEAN, StartAccess(t, p, write)
      PROVE  MarksAreKnown'
  BY <1>1 DEF StartAccess, MayAccess, entry, content, environment
<1>2. ASSUME NEW t \in Threads, Perform(t)
      PROVE  MarksAreKnown'
  BY <1>2 DEF Perform, Permitted, NoAccess, entry, environment
<1>3. ASSUME NEW t \in Threads, Trap(t)
      PROVE  MarksAreKnown'
  BY <1>3 DEF Trap, entry, content, environment
<1>4. ASSUME NEW t \in Threads, OpenPage(t)
      PROVE  MarksAreKnown'
  BY <1>4 DEF OpenPage, content, environment
<1>5. ASSUME NEW t \in Threads, MarkPage(t)
      PROVE  MarksAreKnown'
  BY <1>5 DEF MarkPage, environment
<1>6. ASSUME NEW r \in Ranges, Map(r)
      PROVE  MarksAreKnown'
  BY <1>6 DEF Map, environment
<1>7. ASSUME NEW call \in {"process", "unmap"}, NEW uses \in SUBSET DevicePages,
             BeginProcessing(call, uses)
      PROVE  MarksAreKnown'
  BY <1>7 DEF BeginProcessing, EndProcessing, NoCall
<1>8. ASSUME ScanMarkedPage
      PROVE  MarksAreKnown'
  BY <1>8 DEF ScanMarkedPage, content, environment
<1>9. ASSUME ScanOtherPage
      PROVE  MarksAreKnown'
  BY <1>9 DEF ScanOtherPage, entry, content, environment
<1>10. ASSUME ScanDone
       PROVE  MarksAreKnown'
  <2> HIDE DEF TypeOK
  <2>1. \A p \in Pages : ~active_write[p]
    BY <1>10, ScanBounds DEF ScanDone, IInv, ScanInOrder, MarksAreKnown, Processing, Pages
  <2> QED BY <1>10, <2>1 DEF ScanDone, entry, MarksAreKnown
<1>11. ASSUME ProtectForCopy
       PROVE  MarksAreKnown'
  BY <1>11 DEF ProtectForCopy, ProtectRange, content, environment
<1>12. ASSUME CopyRange
       PROVE  MarksAreKnown'
  BY <1>12 DEF CopyRange, entry, environment
<1>13. ASSUME ResetGuard
       PROVE  MarksAreKnown'
  BY <1>13 DEF ResetGuard, ProtectRange, content, environment
<1>14. ASSUME Remove
       PROVE  MarksAreKnown'
  BY <1>14 DEF Remove, NoCall, environment
<1>15. ASSUME RestoreHandler
       PROVE  MarksAreKnown'
  BY <1>15 DEF RestoreHandler, content
<1>16. ASSUME NEW p \in Pages, DeviceWrite(p)
       PROVE  MarksAreKnown'
  BY <1>16 DEF DeviceWrite, entry, environment
<1>17. ASSUME WaitForDevice
       PROVE  MarksAreKnown'
  BY <1>17 DEF WaitForDevice, entry, content
<1> QED
  BY <1>1, <1>2, <1>3, <1>4, <1>5, <1>6, <1>7, <1>8, <1>9, <1>10, <1>11, <1>12,
     <1>13, <1>14, <1>15, <1>16, <1>17 DEF Next, ThreadStep, ApiStep

(* Protection for reading is that of the range being copied.                 *)
LEMMA ClosedStep ==
  ASSUME IInv, Next
  PROVE  ClosedForCopy'
<1> USE Constants DEF TypeOK, IInv, LockHeld, Processing, ClosedForCopy, Active
<1>1. ASSUME NEW t \in Threads, NEW p \in Pages, NEW write \in BOOLEAN, StartAccess(t, p, write)
      PROVE  ClosedForCopy'
  BY <1>1 DEF StartAccess, MayAccess, entry, content, environment
<1>2. ASSUME NEW t \in Threads, Perform(t)
      PROVE  ClosedForCopy'
  BY <1>2 DEF Perform, Permitted, NoAccess, entry, environment
<1>3. ASSUME NEW t \in Threads, Trap(t)
      PROVE  ClosedForCopy'
  BY <1>3 DEF Trap, entry, content, environment
<1>4. ASSUME NEW t \in Threads, OpenPage(t)
      PROVE  ClosedForCopy'
  BY <1>4 DEF OpenPage, content, environment
<1>5. ASSUME NEW t \in Threads, MarkPage(t)
      PROVE  ClosedForCopy'
  BY <1>5 DEF MarkPage, environment
<1>6. ASSUME NEW r \in Ranges, Map(r)
      PROVE  ClosedForCopy'
  BY <1>6 DEF Map, environment
<1>7. ASSUME NEW call \in {"process", "unmap"}, NEW uses \in SUBSET DevicePages,
             BeginProcessing(call, uses)
      PROVE  ClosedForCopy'
  BY <1>7, BeginEffect DEF IInv, ClosedForCopy
<1>8. ASSUME ScanMarkedPage
      PROVE  ClosedForCopy'
  BY <1>8 DEF ScanMarkedPage, content, environment
<1>9. ASSUME ScanOtherPage
      PROVE  ClosedForCopy'
  BY <1>9 DEF ScanOtherPage, entry, content, environment
<1>10. ASSUME ScanDone
       PROVE  ClosedForCopy'
  BY <1>10 DEF ScanDone, EndProcessing, NoCall, entry, content, environment
<1>11. ASSUME ProtectForCopy
       PROVE  ClosedForCopy'
  BY <1>11 DEF ProtectForCopy, ProtectRange, content, environment
<1>12. ASSUME CopyRange
       PROVE  ClosedForCopy'
  BY <1>12 DEF CopyRange, entry, environment
<1>13. ASSUME ResetGuard
       PROVE  ClosedForCopy'
  BY <1>13 DEF ResetGuard, ProtectRange, content, environment
<1>14. ASSUME Remove
       PROVE  ClosedForCopy'
  BY <1>14 DEF Remove, NoCall, environment
<1>15. ASSUME RestoreHandler
       PROVE  ClosedForCopy'
  BY <1>15 DEF RestoreHandler, content
<1>16. ASSUME NEW p \in Pages, DeviceWrite(p)
       PROVE  ClosedForCopy'
  BY <1>16 DEF DeviceWrite, entry, environment
<1>17. ASSUME WaitForDevice
       PROVE  ClosedForCopy'
  BY <1>17 DEF WaitForDevice, entry, content
<1> QED
  BY <1>1, <1>2, <1>3, <1>4, <1>5, <1>6, <1>7, <1>8, <1>9, <1>10, <1>11, <1>12,
     <1>13, <1>14, <1>15, <1>16, <1>17 DEF Next, ThreadStep, ApiStep

(* Nothing is opened without a mark, or closed before it is processed.       *)
LEMMA NoWriteMissedStep ==
  ASSUME IInv, Next
  PROVE  NoWriteMissed'
<1> USE Constants DEF TypeOK, IInv, LockHeld, Processing, AccessesAreTracked, ScanInOrder, MarksAreKnown, ClosedForCopy, Active, NoWriteMissed, WillBeProcessed, BeingProcessed, BeingMarked
<1>1. ASSUME NEW t \in Threads, NEW p \in Pages, NEW write \in BOOLEAN, StartAccess(t, p, write)
      PROVE  NoWriteMissed'
  BY <1>1 DEF StartAccess, MayAccess, entry, content, environment
<1>2. ASSUME NEW t \in Threads, Perform(t)
      PROVE  NoWriteMissed'
  BY <1>2 DEF Perform, Permitted, NoAccess, entry, environment
<1>3. ASSUME NEW t \in Threads, Trap(t)
      PROVE  NoWriteMissed'
  BY <1>3 DEF Trap, entry, content, environment
<1>4. ASSUME NEW t \in Threads, OpenPage(t)
      PROVE  NoWriteMissed'
  BY <1>4 DEF OpenPage, content, environment
<1>5. ASSUME NEW t \in Threads, MarkPage(t)
      PROVE  NoWriteMissed'
  BY <1>5 DEF MarkPage, environment
<1>6. ASSUME NEW r \in Ranges, Map(r)
      PROVE  NoWriteMissed'
  <2> HIDE DEF TypeOK
  <2>1. \A p \in r : protection'[p] = "none"
    BY <1>6, RangeBounds, Constants DEF Map, Pages
  <2> QED BY <1>6, <2>1 DEF Map, NoWriteMissed
<1>7. ASSUME NEW call \in {"process", "unmap"}, NEW uses \in SUBSET DevicePages,
             BeginProcessing(call, uses)
      PROVE  NoWriteMissed'
  <2> HIDE DEF TypeOK
  <2>1. ASSUME NEW p \in tracked, protection[p] = "readwrite"
        PROVE  active_write[p] /\ is_modified
    BY <1>7, <2>1, BeginEffect, Constants DEF IInv, LockHeld, NoWriteMissed, WillBeProcessed,
      BeingProcessed, BeingMarked
  <2>2. ASSUME is_modified, NEW p \in tracked
        PROVE  p >= First(tracked)
    BY <2>2, TrackedBounds, Constants DEF IInv, Pages
  <2>3. tracked' = tracked /\ protection' = protection /\ active_write' = active_write
    BY <1>7, BeginEffect
  <2> QED BY <1>7, <2>1, <2>2, <2>3, BeginEffect DEF NoWriteMissed, WillBeProcessed, BeingProcessed
<1>8. ASSUME ScanMarkedPage
      PROVE  NoWriteMissed'
  <2> HIDE DEF TypeOK
  <2>1. /\ lock' = Api /\ lock = Api /\ Processing /\ api'.next = api.next + 1
        /\ api'.start = IF api.start = 0 THEN api.next ELSE api.start
        /\ tracked' = tracked /\ protection' = protection
        /\ active_write' = [active_write EXCEPT ![api.next] = FALSE]
    BY <1>8 DEF ScanMarkedPage, IInv, TypeOK, LockHeld, Processing
  <2>2. ASSUME NEW p \in tracked, protection[p] = "readwrite"
        PROVE  p \in Active \/ (active_write[p] /\ p >= api.next)
    BY <2>1, <2>2, Constants DEF IInv, NoWriteMissed, WillBeProcessed, BeingProcessed,
      BeingMarked, LockHeld, ScanInOrder
  <2>3. Active' = Active \cup {api.next}
    BY <2>1, <1>8, ScanBounds DEF Active, IInv, ScanInOrder, ScanMarkedPage, Pages
  <2>4. ASSUME NEW p \in tracked, p # api.next, active_write[p], p >= api.next
        PROVE  active_write'[p] /\ p >= api'.next
    <3>1. p \in Pages /\ p \in Nat /\ api.next \in Nat
      BY <2>1, ScanBounds, TrackedBounds DEF IInv, ScanInOrder, Pages
    <3>2. active_write'[p]
      BY <2>1, <2>4, <3>1 DEF IInv, TypeOK
    <3> QED BY <2>1, <2>4, <3>1, <3>2
  <2> QED BY <2>1, <2>2, <2>3, <2>4 DEF NoWriteMissed, WillBeProcessed, BeingProcessed
<1>9. ASSUME ScanOtherPage
      PROVE  NoWriteMissed'
  <2> HIDE DEF TypeOK
  <2>1. /\ lock' = Api /\ lock = Api /\ Processing /\ api'.next = api.next + 1
        /\ api'.start = 0 /\ api.start = 0 /\ ~active_write[api.next] /\ UNCHANGED entry
    BY <1>9 DEF ScanOtherPage, IInv, TypeOK, LockHeld, Processing
  <2>2. ASSUME NEW p \in tracked, protection[p] = "readwrite"
        PROVE  active_write[p] /\ p >= api.next
    BY <2>1, <2>2, Constants DEF IInv, NoWriteMissed, WillBeProcessed, BeingProcessed,
      BeingMarked, LockHeld, ScanInOrder, Active
  <2>3. ASSUME NEW p \in tracked, active_write[p], p >= api.next
        PROVE  p >= api'.next
    BY <2>1, <2>3, ScanBounds DEF IInv, Pages
  <2> QED BY <2>1, <2>2, <2>3 DEF NoWriteMissed, WillBeProcessed, BeingProcessed, entry
<1>10. ASSUME ScanDone
       PROVE  NoWriteMissed'
  <2> HIDE DEF TypeOK
  <2>1. ASSUME NEW p \in tracked
        PROVE  protection[p] # "readwrite"
    <3>1. Processing /\ lock = Api /\ ~is_modified /\ Active = {}
      BY <1>10 DEF ScanDone, IInv, LockHeld, Processing, ScanInOrder, Active
    <3>2. ~(p >= api.next)
      BY <1>10, <2>1, <3>1, ScanBounds DEF ScanDone, IInv, Pages
    <3>3. ~WillBeProcessed(p)
      BY <3>1, <3>2, Constants DEF WillBeProcessed, BeingProcessed, BeingMarked, IInv, LockHeld
    <3> QED BY <3>3 DEF IInv, NoWriteMissed
  <2> QED BY <1>10, <2>1 DEF ScanDone, entry, NoWriteMissed
<1>11. ASSUME ProtectForCopy
       PROVE  NoWriteMissed'
  <2>1. /\ lock' = Api /\ lock = Api /\ api'.next = api.next /\ api'.start = api.start
        /\ tracked' = tracked /\ active_write' = active_write /\ is_modified' = is_modified
        /\ access' = access
        /\ \A p \in Pages : protection'[p] = "readwrite" => protection[p] = "readwrite"
    BY <1>11 DEF ProtectForCopy, ProtectRange, IInv, TypeOK, LockHeld, Processing
  <2>2. tracked \subseteq Pages
    BY TrackedBounds DEF IInv
  <2>3. Active' = Active
    BY <2>1 DEF Active
  <2> QED BY <2>1, <2>2, <2>3 DEF IInv, NoWriteMissed, WillBeProcessed, BeingProcessed, BeingMarked
<1>12. ASSUME CopyRange
       PROVE  NoWriteMissed'
  BY <1>12 DEF CopyRange, entry, environment
<1>13. ASSUME ResetGuard
       PROVE  NoWriteMissed'
  <2>1. /\ lock' = Api /\ lock = Api /\ Processing /\ api'.next = api.next
        /\ tracked' = tracked /\ active_write' = active_write /\ is_modified' = is_modified
        /\ access' = access
        /\ \A p \in Pages : protection'[p] = "readwrite" => protection[p] = "readwrite" /\ p \notin Active
    BY <1>13 DEF ResetGuard, ProtectRange, IInv, TypeOK, LockHeld, Processing
  <2>2. tracked \subseteq Pages
    BY TrackedBounds DEF IInv
  <2> QED BY <2>1, <2>2 DEF IInv, NoWriteMissed, WillBeProcessed, BeingProcessed, BeingMarked
<1>14. ASSUME Remove
       PROVE  NoWriteMissed'
  BY <1>14 DEF Remove, NoCall, environment
<1>15. ASSUME RestoreHandler
       PROVE  NoWriteMissed'
  <2>1. tracked \subseteq Pages
    BY <1>15, TrackedBounds DEF IInv, RestoreHandler
  <2> QED BY <1>15, <2>1 DEF RestoreHandler, NoWriteMissed, WillBeProcessed
<1>16. ASSUME NEW p \in Pages, DeviceWrite(p)
       PROVE  NoWriteMissed'
  BY <1>16 DEF DeviceWrite, entry, environment
<1>17. ASSUME WaitForDevice
       PROVE  NoWriteMissed'
  BY <1>17 DEF WaitForDevice, entry, content
<1> QED
  BY <1>1, <1>2, <1>3, <1>4, <1>5, <1>6, <1>7, <1>8, <1>9, <1>10, <1>11, <1>12,
     <1>13, <1>14, <1>15, <1>16, <1>17 DEF Next, ThreadStep, ApiStep

LEMMA IndInit == Init => IInv
<1> SUFFICES ASSUME Init
             PROVE  IInv
  OBVIOUS
<1>1. TypeOK
  <2>1. 1 \in Pages /\ 1 \in 1..(LastPage + 1) /\ 0 \in 0..LastPage /\ 0 \in 0..MaxRestores
    BY PageGuardAssumption DEF Pages
  <2>2. /\ [p \in Pages |-> 0] \in [Pages -> Nat]
        /\ [p \in Pages |-> 1] \in [Pages -> Nat]
    OBVIOUS
  <2> QED BY <2>1, <2>2 DEF Init, TypeOK, NoAccess, NoCall
<1>2. LockHeld /\ AccessesAreTracked /\ ScanInOrder /\ MarksAreKnown /\ ClosedForCopy /\ NoWriteMissed
  BY Constants DEF Init, NoAccess, NoCall, LockHeld, Processing, AccessesAreTracked, ScanInOrder,
                   MarksAreKnown, ClosedForCopy, NoWriteMissed
<1> QED BY <1>1, <1>2 DEF IInv

LEMMA IndStep == IInv /\ [Next]_vars => IInv'
<1> SUFFICES ASSUME IInv, [Next]_vars
             PROVE  IInv'
  OBVIOUS
<1>1. CASE Next
  BY <1>1, TypeStep, LockStep, AccessStep, ScanStep, MarksStep, ClosedStep,
    NoWriteMissedStep DEF IInv
<1>2. CASE UNCHANGED vars
  <2>1. UNCHANGED <<option, tracked, protection, active_write, is_modified, shadow, page_loaded,
                    mapped, written, lock, access, api, in_flight, restores>>
    BY <1>2 DEF vars, entry, content, environment
  <2>2. TypeOK'
    BY <2>1 DEF IInv, TypeOK
  <2>3. LockHeld' /\ AccessesAreTracked' /\ ScanInOrder' /\ MarksAreKnown' /\ ClosedForCopy'
    BY <2>1 DEF IInv, LockHeld, Processing, AccessesAreTracked, ScanInOrder, MarksAreKnown,
      ClosedForCopy,
                Active, AfterLast
  <2>4. NoWriteMissed'
    BY <2>1 DEF IInv, NoWriteMissed, WillBeProcessed, BeingProcessed, BeingMarked, Active
  <2> QED BY <2>2, <2>3, <2>4 DEF IInv
<1> QED BY <1>1, <1>2

(* The inductive invariant, for HandleGuardPageViolation, ProcessEntry and     *)
(* MarkAllTrackedMemoryAsDirty together.                                     *)
THEOREM Invariance == Spec => []IInv
<1> QED BY IndInit, IndStep, PTL DEF Spec

(* TypeOK: in particular the scan stays within the memory.                   *)
THEOREM TypeCorrect == Spec => []TypeOK
<1>1. IInv => TypeOK
  BY DEF IInv
<1> QED BY <1>1, Invariance, PTL

(* However many threads trap while pages are processed and reprotected, what *)
(* can be written without a trap will be processed.                          *)
THEOREM NoWriteMissedCorrect == Spec => []NoWriteMissed
<1>1. IInv => NoWriteMissed
  BY DEF IInv
<1> QED BY <1>1, Invariance, PTL

(* ProcessActiveRange copies pages that it can read.                         *)
THEOREM NoTrapCorrect == Spec => []NoTrapUnderTheLock
<1>1. IInv => NoTrapUnderTheLock
  BY DEF IInv, ClosedForCopy, NoTrapUnderTheLock, Active
<1> QED BY <1>1, Invariance, PTL

-----------------------------------------------------------------------------
(* With the lock free and nothing modified, and at the end of a scan, every  *)
(* page is closed and has no mark.                                           *)
LEMMA NothingOpen ==
  ASSUME IInv, ~is_modified,
         \/ lock = Nobody
         \/ api.pc = "scan" /\ api.next = AfterLast /\ api.start = 0,
         NEW p \in tracked
  PROVE  p \in Pages /\ protection[p] = "none" /\ ~active_write[p] /\ ~BeingMarked(p) /\ p \notin Active
<1>1. p \in Pages
  BY TrackedBounds DEF IInv
<1>2. Active = {}
  BY Constants DEF IInv, ScanInOrder, LockHeld, Active, Processing
<1>3. ~BeingMarked(p)
  BY DEF IInv, AccessesAreTracked, BeingMarked
<1>4. ~active_write[p]
  <2>1. CASE lock = Nobody
    BY <1>1, <2>1, Constants DEF IInv, MarksAreKnown, LockHeld
  <2>2. CASE api.pc = "scan" /\ api.next = AfterLast /\ api.start = 0
    BY <1>1, <2>2, ScanBounds DEF IInv, ScanInOrder, Processing, Pages
  <2> QED BY <2>1, <2>2
<1>5. protection[p] # "readwrite"
  BY <1>2, <1>3, <1>4 DEF IInv, NoWriteMissed, WillBeProcessed, BeingProcessed
<1>6. protection[p] # "read"
  BY <1>1, <1>2 DEF IInv, ClosedForCopy
<1> QED BY <1>1, <1>2, <1>3, <1>4, <1>5, <1>6 DEF IInv, TypeOK

LEMMA BeginFindsNothing ==
  ASSUME IInv, NEW call \in {"process", "unmap"}, NEW uses, BeginProcessing(call, uses), ~is_modified,
         NEW p \in tracked
  PROVE  p \in Pages /\ protection[p] = "none" /\ ~active_write[p] /\ ~BeingMarked(p) /\ p \notin Active
BY BeginEffect, NothingOpen

LEMMA OnlyHandlerOpens ==
  ASSUME IInv, NEW p \in Pages, lock \notin Threads
  PROVE  ~BeingMarked(p)
BY DEF IInv, LockHeld, BeingMarked

-----------------------------------------------------------------------------
(* A step of DeviceInv: the device writes no page that is open, and what is  *)
(* copied back is what it has written.                                       *)
LEMMA DeviceStep ==
  ASSUME IInv, DeviceInv, Next, option'.separate_read, restores' = 0
  PROVE  DeviceInv'
<1>0. option' = option /\ restores = 0
  BY PageGuardAssumption DEF Next, ThreadStep, ApiStep, StartAccess, Perform, Trap, OpenPage,
    MarkPage, Map,
     BeginProcessing, ScanMarkedPage, ScanOtherPage, ScanDone, ProtectForCopy, CopyRange, ResetGuard,
     Remove, RestoreHandler, DeviceWrite, WaitForDevice, environment, IInv, TypeOK
<1>a. /\ \A p \in DevicePages : p \in Pages /\ mapped[p] = written[p]
      /\ \A p \in DevicePages \cap tracked : Opened(p) =>
           /\ p \notin in_flight \ api.uses
           /\ BeingMarked(p) \/ shadow[p] = mapped[p]
  BY <1>0, Constants DEF DeviceInv
<1> DEFINE Kept == /\ \A p \in DevicePages : mapped'[p] = written'[p]
                   /\ \A p \in DevicePages \cap tracked' : Opened(p)' =>
                        /\ p \notin in_flight' \ api'.uses
                        /\ BeingMarked(p)' \/ shadow'[p] = mapped'[p]
<1> SUFFICES Kept
  BY DEF DeviceInv
<1>b. \A p \in tracked : p \in Pages
  BY TrackedBounds DEF IInv
<1>1. ASSUME NEW t \in Threads, NEW p \in Pages, NEW write \in BOOLEAN, StartAccess(t, p, write)
      PROVE  Kept
  <2>1. \A q \in Pages : BeingMarked(q)' = BeingMarked(q)
    BY <1>1 DEF StartAccess, BeingMarked, IInv, TypeOK
  <2> QED BY <1>a, <1>b, <1>1, <2>1 DEF StartAccess, entry, content, environment, Opened, Active
<1>2. ASSUME NEW t \in Threads, Perform(t)
      PROVE  Kept
  <2>1. \A q \in Pages : BeingMarked(q)' = BeingMarked(q)
    BY <1>2 DEF Perform, NoAccess, BeingMarked, IInv, TypeOK
  <2>2. \A q \in DevicePages : shadow'[q] = shadow[q] /\ written'[q] = written[q]
    <3>1. access[t].write => access[t].page \notin DevicePages
      BY <1>2 DEF Perform, IInv, AccessesAreTracked, AppPages
    <3>2. \/ UNCHANGED <<written, shadow>>
          \/ /\ access[t].write
             /\ written' = [written EXCEPT ![access[t].page] = @ + 1]
             /\ shadow' = [shadow EXCEPT ![access[t].page] = written[access[t].page] + 1]
      BY <1>2 DEF Perform
    <3> QED BY <1>a, <3>1, <3>2 DEF IInv, TypeOK
  <2> QED BY <1>a, <1>b, <1>2, <2>1, <2>2 DEF Perform, entry, environment, Opened, Active
<1>3. ASSUME NEW t \in Threads, Trap(t)
      PROVE  Kept
  <2>1. \A q \in Pages : BeingMarked(q)' = BeingMarked(q)
    BY <1>3 DEF Trap, BeingMarked, IInv, TypeOK
  <2> QED BY <1>a, <1>b, <1>3, <2>1 DEF Trap, entry, content, environment, Opened, Active
<1>4. ASSUME NEW t \in Threads, OpenPage(t)
      PROVE  Kept
  <2> DEFINE page == access[t].page
  <2>1. page \notin in_flight \ api.uses /\ page \in Pages
    BY <1>4 DEF OpenPage, IInv, AccessesAreTracked, TypeOK
  <2>2. \A q \in Pages : q = page => BeingMarked(q)'
    BY <1>4 DEF OpenPage, IInv, TypeOK, BeingMarked
  <2>3. \A q \in Pages : ~BeingMarked(q)
    BY <1>4, OnlyHandlerOpens, Constants DEF OpenPage
  <2>4. \A q \in Pages \ {page} : ~BeingMarked(q)' /\ protection'[q] = protection[q]
    BY <1>4, <2>3 DEF OpenPage, IInv, TypeOK, BeingMarked
  <2>5. \A q \in Pages \ {page} : Opened(q)' => Opened(q) /\ ~BeingMarked(q)
    BY <1>4, <2>3, <2>4 DEF OpenPage, Opened, Active
  <2>6. UNCHANGED <<tracked, shadow, mapped, written, in_flight, api>>
    BY <1>4 DEF OpenPage, content, environment
  <2> HIDE DEF page
  <2>7. ASSUME NEW q \in DevicePages \cap tracked, Opened(q)'
        PROVE  q \notin in_flight \ api.uses /\ (BeingMarked(q)' \/ shadow[q] = mapped[q])
    <3>1. CASE q = page
      BY <2>1, <2>2, <3>1
    <3>2. CASE q # page
      BY <1>a, <2>5, <2>7, <3>2
    <3> QED BY <3>1, <3>2
  <2> QED BY <1>a, <2>6, <2>7
<1>5. ASSUME NEW t \in Threads, MarkPage(t)
      PROVE  Kept
  <2> DEFINE page == access[t].page
  <2>1. page \notin in_flight \ api.uses /\ page \in Pages /\ lock = t
    BY <1>5 DEF MarkPage, IInv, AccessesAreTracked, TypeOK, LockHeld
  <2>2. \A q \in Pages \ {page} : ~BeingMarked(q)
    BY <1>5, <2>1 DEF MarkPage, IInv, LockHeld, BeingMarked
  <2>3. \A q \in Pages \ {page} : Opened(q)' => Opened(q)
    BY <1>5, <2>2 DEF MarkPage, IInv, TypeOK, Opened, Active, BeingMarked
  <2>4. \A q \in Pages \ {page} : shadow'[q] = shadow[q]
    BY <1>5 DEF MarkPage, IInv, TypeOK
  <2>5. page \in DevicePages => shadow'[page] = mapped[page]
    BY <1>0, <1>5, <2>1 DEF MarkPage, IInv, TypeOK, AccessesAreTracked, AppPages, DeviceInv
  <2> HIDE DEF page
  <2>6. UNCHANGED <<tracked, mapped, written, in_flight, api>>
    BY <1>5 DEF MarkPage, environment
  <2> QED BY <1>a, <1>b, <2>1, <2>2, <2>3, <2>4, <2>5, <2>6
<1>6. ASSUME NEW r \in Ranges, Map(r)
      PROVE  Kept
  <2>1. \A q \in r : ~Opened(q)'
    <3>1. \A q \in r : q \in Pages /\ protection'[q] = "none" /\ ~active_write'[q]
      BY <1>6, RangeBounds, Constants DEF Map, Pages
    <3>2. Active' = {}
      BY <1>6 DEF Map, Active, IInv, ScanInOrder, Processing
    <3>3. \A q \in Pages : ~BeingMarked(q)
      BY <1>6, OnlyHandlerOpens, Constants DEF Map
    <3> QED BY <1>6, <3>1, <3>2, <3>3 DEF Map, Opened, BeingMarked
  <2> QED BY <1>a, <1>6, <2>1 DEF Map
<1>7. ASSUME NEW call \in {"process", "unmap"}, NEW uses \in SUBSET DevicePages,
             BeginProcessing(call, uses)
      PROVE  Kept
  <2>1. /\ UNCHANGED <<tracked, protection, active_write, shadow, mapped, written, access>>
        /\ in_flight' = in_flight \cup uses /\ api.uses = {} /\ Active = {} /\ Active' = {}
    <3>1. in_flight' = in_flight \cup uses
      BY <1>7 DEF BeginProcessing
    <3>2. api.start = 0 /\ api.uses = {} /\ api'.start = 0
      BY <1>7, BeginEffect DEF IInv, ScanInOrder, Processing
    <3> QED BY <1>7, <3>1, <3>2, BeginEffect DEF content, Active
  <2>2. \A q \in Pages : Opened(q)' = Opened(q) /\ BeingMarked(q)' = BeingMarked(q)
    BY <2>1 DEF Opened, BeingMarked
  <2>3. CASE is_modified
    <3>1. api'.uses = uses
      BY <1>7, <2>3, BeginEffect
    <3> QED BY <1>a, <1>b, <2>1, <2>2, <3>1
  <2>4. CASE ~is_modified
    <3>1. \A q \in tracked : ~Opened(q)
      BY <1>7, <2>4, BeginFindsNothing DEF Opened
    <3> QED BY <1>a, <1>b, <2>1, <2>2, <3>1
  <2> QED BY <2>3, <2>4
<1>8. ASSUME ScanMarkedPage \/ ScanOtherPage \/ ProtectForCopy \/ ResetGuard
      PROVE  Kept
  <2>1. UNCHANGED <<tracked, access, shadow, mapped, written, in_flight>> /\ api'.uses = api.uses
    BY <1>8 DEF ScanMarkedPage, ScanOtherPage, ProtectForCopy, ResetGuard, entry, content,
      environment,
                IInv, TypeOK
  <2>2. \A q \in Pages : BeingMarked(q)' = BeingMarked(q)
    BY <2>1 DEF BeingMarked
  <2>3. ASSUME NEW q \in Pages, Opened(q)'
        PROVE  Opened(q)
    <3>1. CASE ScanMarkedPage
      <4>1. active_write[api.next] /\ api.next \in Pages
        BY <3>1, ScanBounds DEF ScanMarkedPage, IInv, Processing
      <4>2. /\ protection' = protection /\ active_write' = [active_write EXCEPT ![api.next] = FALSE]
            /\ api'.next = api.next + 1
            /\ api'.start = IF api.start = 0 THEN api.next ELSE api.start
        BY <3>1 DEF ScanMarkedPage, IInv, TypeOK
      <4>3. q \in Active' => q \in Active \/ q = api.next
        BY <4>2, <3>1, ScanBounds DEF Active, Pages, IInv, ScanInOrder, Processing, ScanMarkedPage
      <4>4. active_write'[q] => active_write[q]
        BY <4>2 DEF IInv, TypeOK
      <4> QED BY <2>2, <2>3, <4>1, <4>2, <4>3, <4>4 DEF Opened
    <3>2. CASE ScanOtherPage
      BY <2>2, <2>3, <3>2 DEF ScanOtherPage, Opened, Active, entry, IInv, TypeOK
    <3>3. CASE ProtectForCopy
      BY <2>2, <2>3, <3>3 DEF ProtectForCopy, ProtectRange, Opened, Active, IInv, TypeOK
    <3>4. CASE ResetGuard
      BY <2>2, <2>3, <3>4 DEF ResetGuard, ProtectRange, Opened, Active, IInv, TypeOK
    <3> QED BY <1>8, <3>1, <3>2, <3>3, <3>4
  <2> QED BY <1>a, <1>b, <2>1, <2>2, <2>3
<1>9. ASSUME ScanDone
      PROVE  Kept
  <2>1. \A q \in tracked : ~Opened(q)
    BY <1>9, NothingOpen DEF ScanDone, Opened, IInv, ScanInOrder, Processing
  <2>2. \A q \in tracked : ~Opened(q)'
    BY <1>9, <2>1, EndEffect DEF ScanDone, entry, Opened, BeingMarked, Active
  <2> QED BY <1>a, <1>9, <2>2 DEF ScanDone, entry, content
<1>10. ASSUME CopyRange
       PROVE  Kept
  <2>1. \A q \in Pages : Opened(q)' = Opened(q) /\ BeingMarked(q)' = BeingMarked(q)
    BY <1>10 DEF CopyRange, entry, Opened, BeingMarked, Active, IInv, TypeOK
  <2>2. \A q \in Pages : ~BeingMarked(q)
    BY <1>10, OnlyHandlerOpens, Constants DEF CopyRange, IInv, LockHeld, Processing
  <2>3. \A q \in DevicePages : mapped'[q] = mapped[q]
    <3>1. \A q \in Active : q \in tracked /\ Opened(q)
      BY <1>10, ScanBounds DEF CopyRange, IInv, Processing, Opened
    <3> QED BY <1>a, <1>10, <2>2, <3>1 DEF CopyRange
  <2>4. UNCHANGED <<tracked, shadow, written, in_flight>> /\ api'.uses = api.uses
    BY <1>10 DEF CopyRange, entry, environment, IInv, TypeOK
  <2> QED BY <1>a, <1>b, <2>1, <2>3, <2>4
<1>11. ASSUME Remove
       PROVE  Kept
  BY <1>a, <1>11 DEF Remove
<1>12. ASSUME RestoreHandler
       PROVE  Kept
  BY <1>0, <1>12 DEF RestoreHandler
<1>13. ASSUME NEW p \in Pages, DeviceWrite(p)
       PROVE  Kept
  <2>1. \A q \in Pages : Opened(q)' = Opened(q) /\ BeingMarked(q)' = BeingMarked(q)
    BY <1>13 DEF DeviceWrite, entry, Opened, BeingMarked, Active
  <2>2. p \in tracked => ~Opened(p)
    BY <1>a, <1>13 DEF DeviceWrite, IInv, TypeOK
  <2>3. /\ mapped'[p] = written'[p]
        /\ \A q \in Pages \ {p} : mapped'[q] = mapped[q] /\ written'[q] = written[q]
        /\ UNCHANGED <<tracked, shadow, in_flight, api>>
    BY <1>13 DEF DeviceWrite, entry, environment, IInv, TypeOK
  <2> QED BY <1>a, <1>b, <2>1, <2>2, <2>3
<1>14. ASSUME WaitForDevice
       PROVE  Kept
  BY <1>a, <1>b, <1>14 DEF WaitForDevice, entry, content, Opened, BeingMarked, Active
<1> QED
  BY <1>1, <1>2, <1>3, <1>4, <1>5, <1>6, <1>7, <1>8, <1>9, <1>10, <1>11, <1>12, <1>13, <1>14
  DEF Next, ThreadStep, ApiStep

(* What the device has written is never undone by the copying of a page that *)
(* was only read, and reaches whoever reads it.                              *)
THEOREM DeviceWritesAreReadCorrect == Spec => []DeviceWritesAreRead
<1>1. Init => DeviceInv
  BY Constants DEF Init, DeviceInv
<1>2. IInv /\ DeviceInv /\ [Next]_vars => DeviceInv'
  <2> SUFFICES ASSUME IInv, DeviceInv, [Next]_vars
               PROVE  DeviceInv'
    OBVIOUS
  <2>1. CASE Next
    <3>1. CASE option'.separate_read /\ restores' = 0
      BY <2>1, <3>1, DeviceStep
    <3>2. CASE ~(option'.separate_read /\ restores' = 0)
      BY <3>2 DEF DeviceInv
    <3> QED BY <3>1, <3>2
  <2>2. CASE UNCHANGED vars
    BY <2>2 DEF vars, entry, content, environment, DeviceInv, Opened, BeingMarked, Active
  <2> QED BY <2>1, <2>2
<1>3. IInv /\ DeviceInv => DeviceWritesAreRead
  <2> SUFFICES ASSUME IInv, DeviceInv, option.separate_read, restores = 0, NEW p \in DevicePages
               PROVE  mapped[p] = written[p] /\ (BeingMarked(p) \/ HoldsDeviceWrites(p))
    BY DEF DeviceWritesAreRead
  <2>1. ASSUME ~BeingMarked(p), NEW t \in Touching(p), access[t].pc = "access", Permitted(t)
        PROVE  shadow[p] = written[p]
    <3>1. p \in tracked /\ protection[p] # "none"
      BY <2>1 DEF Touching, IInv, AccessesAreTracked, Permitted
    <3> QED BY <2>1, <3>1 DEF DeviceInv, Opened
  <2> QED BY <2>1 DEF DeviceInv, HoldsDeviceWrites
<1> QED BY <1>1, <1>2, <1>3, Invariance, PTL DEF Spec

-----------------------------------------------------------------------------
(* A fresh shadow allocation is a copy; a persistent one is loaded on the    *)
(* first mapping and has been kept since.                                    *)
LEMMA MapLoads ==
  ASSUME IInv, ShadowIsKept, LoadsWholeMemory, NEW r \in Ranges, Map(r),
         NEW p \in AppPages, p \in r
  PROVE  shadow'[p] = mapped[p]
<1>0. p \in Pages /\ option \in Options /\ tracked = {}
  BY DEF AppPages, Map, IInv, TypeOK
<1>1. CASE ~option.persistent
  BY <1>0, <1>1 DEF Map, CopyOnMap
<1>2. CASE option.persistent
  <2>1. option.partial_tail /\ r = Pages
    BY <1>0, <1>2 DEF LoadsWholeMemory
  <2> DEFINE copied == {q \in r : ~page_loaded[q] /\ (q = LastPage => option.partial_tail)}
             filled == First(r)..(First(r) + Cardinality(copied) - 1)
  <2>2. shadow' = [q \in Pages |-> IF q \in filled THEN mapped[q] ELSE shadow[q]]
    BY <1>2 DEF Map, LoadPages
  <2>3. CASE \A q \in AppPages : Agrees(q)
    <3>1. shadow[p] = mapped[p]
      BY <2>3 DEF Agrees
    <3> HIDE DEF filled
    <3> QED BY <1>0, <2>2, <3>1
  <2>4. CASE \A q \in Pages : ~page_loaded[q]
    <3>1. copied = r
      BY <2>1, <2>4
    <3>2. filled = r
      <4>1. First(r) + Cardinality(r) - 1 = (First(r) + Cardinality(r)) - 1
        <5>1. First(r) \in Int /\ Cardinality(r) \in Int
          <6>1. PICK first \in Pages, last \in Pages : r = first..last
            BY PageGuardAssumption
          <6> QED BY <6>1, RangeBounds, FS_Interval, FS_CardinalityType, Constants DEF Pages
        <5> QED BY <5>1
      <4> QED BY <3>1, <4>1, RangeBounds
    <3> QED BY <1>0, <2>2, <3>2
  <2> QED BY <1>0, <1>2, <2>3, <2>4 DEF ShadowIsKept
<1> QED BY <1>1, <1>2

(* A step of WriteInv.                                                       *)
LEMMA WriteStep ==
  ASSUME IInv, WriteInv, LoadsWholeMemory, Next
  PROVE  WriteInv'
<1>a. /\ \A p \in AppPages : p \in Pages /\ p \notin DevicePages
      /\ \A p \in tracked : p \in Pages
      /\ \A p \in TrackedAppPages : p \in AppPages /\ p \in tracked
  BY TrackedBounds DEF IInv, AppPages, TrackedAppPages
<1>b. /\ \A p \in TrackedAppPages : shadow[p] = written[p]
      /\ \A p \in AppPages \ tracked : mapped[p] = written[p]
      /\ \A p \in AppPages : mapped[p] \in Nat /\ written[p] \in Nat /\ shadow[p] \in Nat
  BY <1>a DEF WriteInv, WritesSurvive, TrackedAppPages, IInv, TypeOK
<1>1. ASSUME NEW t \in Threads, NEW p \in Pages, NEW write \in BOOLEAN, StartAccess(t, p, write)
      PROVE  WriteInv'
  <2>1. UNCHANGED <<option, tracked, protection, shadow, page_loaded, mapped, written, api>>
    BY <1>1 DEF StartAccess, entry, content, environment
  <2>2. ReadsChangeNothing'
    BY <1>1, <2>1 DEF StartAccess, MayAccess, Touching, WriteInv, ReadsChangeNothing, Agrees,
      IInv, TypeOK
  <2> QED BY <2>1, <2>2 DEF WriteInv, ClosedPagesAgree, Copied, ShadowIsKept, WritesSurvive, Agrees,
                             TrackedAppPages, Processing, Active
<1>2. ASSUME NEW t \in Threads, Perform(t)
      PROVE  WriteInv'
  <2> DEFINE page == access[t].page
  <2>0. /\ UNCHANGED <<option, tracked, protection, mapped, page_loaded, api>>
        /\ access' = [access EXCEPT ![t] = NoAccess]
        /\ page \in tracked /\ page \in Pages /\ access[t].pc = "access" /\ api.pc # "remove"
    BY <1>2, <1>a DEF Perform, entry, environment, IInv, AccessesAreTracked, ScanInOrder
  <2>a. \A u \in Threads \ {t} : access'[u] = access[u] /\ access[u].page \in Pages
    BY <2>0 DEF IInv, TypeOK
  <2>b. access'[t].pc = "idle"
    BY <2>0 DEF NoAccess, IInv, TypeOK
  <2>c. \A q \in Pages : Touching(q)' = Touching(q) \ {t}
    BY <2>a, <2>b DEF Touching
  <2>1. CASE UNCHANGED <<written, shadow>>
    <3>1. ReadsChangeNothing'
      BY <2>0, <2>1, <2>a, <2>b, <2>c DEF WriteInv, ReadsChangeNothing, Agrees, Touching
    <3> QED BY <2>0, <2>1, <3>1 DEF WriteInv, ClosedPagesAgree, Copied, ShadowIsKept,
      WritesSurvive, Agrees,
                             TrackedAppPages, Processing, Active
  <2>2. CASE /\ access[t].write
             /\ written' = [written EXCEPT ![page] = @ + 1]
             /\ shadow' = [shadow EXCEPT ![page] = written[page] + 1]
    <3>1. protection[page] = "readwrite" /\ page \in AppPages
      BY <1>2, <2>0, <2>2 DEF Perform, Permitted, IInv, AccessesAreTracked
    <3>2. /\ \A q \in Pages \ {page} : written'[q] = written[q] /\ shadow'[q] = shadow[q]
          /\ written'[page] = written[page] + 1 /\ shadow'[page] = written'[page]
      BY <2>0, <2>2 DEF IInv, TypeOK
    <3>3. api.pc = "reset" => page \notin Active
      BY <2>0, <3>1 DEF IInv, ClosedForCopy
    <3>4. ReadsChangeNothing'
      <4>1. ASSUME NEW u \in Threads \ {t}, option.separate_read, access[u].pc # "idle", access[u].page = page
            PROVE  access[u].write
        BY <2>0, <2>2, <4>1 DEF WriteInv, ReadsChangeNothing, Touching
      <4>2. \A q \in Pages \ {page} : Agrees(q)' = Agrees(q)
        BY <2>0, <3>2 DEF Agrees
      <4> QED BY <2>0, <2>a, <2>b, <2>c, <4>1, <4>2 DEF WriteInv, ReadsChangeNothing, Touching
    <3> HIDE DEF page
    <3>5. ClosedPagesAgree'
      BY <1>a, <2>0, <3>1, <3>2 DEF WriteInv, ClosedPagesAgree, Agrees, TrackedAppPages
    <3>6. Copied'
      BY <1>a, <1>b, <2>0, <3>1, <3>2, <3>3 DEF WriteInv, Copied, Agrees, Active, Processing,
        IInv, TypeOK
    <3>7. ShadowIsKept' /\ WritesSurvive'
      BY <1>a, <2>0, <3>1, <3>2 DEF WriteInv, ShadowIsKept, WritesSurvive
    <3> QED BY <3>4, <3>5, <3>6, <3>7 DEF WriteInv
  <2> QED BY <1>2, <2>1, <2>2 DEF Perform
<1>3. ASSUME NEW t \in Threads, Trap(t) \/ OpenPage(t)
      PROVE  WriteInv'
  <2>1. /\ UNCHANGED <<option, tracked, shadow, page_loaded, mapped, written, api>>
        /\ \A u \in Threads \ {t} : access'[u] = access[u]
        /\ access'[t].page = access[t].page /\ access'[t].write = access[t].write
        /\ access'[t].pc # "idle" /\ access[t].pc # "idle"
    BY <1>3 DEF Trap, OpenPage, entry, content, environment, IInv, TypeOK
  <2>2. \A p \in Pages : protection'[p] = "none" => protection[p] = "none"
    BY <1>3 DEF Trap, OpenPage, entry, IInv, TypeOK
  <2>3. ReadsChangeNothing'
    <3>1. \A q \in Pages : Touching(q)' = Touching(q)
      BY <2>1 DEF Touching
    <3>2. \A u \in Threads : access[u].page \in Pages
      BY DEF IInv, TypeOK
    <3>3. ~access[t].write /\ option.separate_read
            => access[t].page \in DevicePages \/ Agrees(access[t].page)
      <4>1. CASE Trap(t)
        <5>1. ~access[t].write => protection[access[t].page] = "none" /\ access[t].page \in tracked
          BY <4>1, <3>2 DEF Trap, Permitted, IInv, TypeOK, AccessesAreTracked
        <5> QED BY <3>2, <5>1 DEF WriteInv, ClosedPagesAgree, TrackedAppPages, AppPages
      <4>2. CASE OpenPage(t)
        BY <4>2 DEF OpenPage, WriteInv, ReadsChangeNothing
      <4> QED BY <1>3, <4>1, <4>2
    <3> QED BY <2>1, <3>1, <3>2, <3>3 DEF WriteInv, ReadsChangeNothing, Agrees, Touching
  <2> QED BY <1>a, <2>1, <2>2, <2>3 DEF WriteInv, ClosedPagesAgree, Copied, ShadowIsKept,
    WritesSurvive, Agrees,
                             TrackedAppPages, Processing, Active
<1>4. ASSUME NEW t \in Threads, MarkPage(t)
      PROVE  WriteInv'
  <2> DEFINE page == access[t].page
  <2>1. /\ UNCHANGED <<option, tracked, protection, page_loaded, mapped, written, api>>
        /\ access' = [access EXCEPT ![t].pc = "access"] /\ access[t].pc = "opened"
        /\ page \in Pages
    BY <1>4 DEF MarkPage, environment, IInv, TypeOK
  <2>2. /\ \A q \in Pages \ {page} : shadow'[q] = shadow[q]
        /\ shadow'[page] = shadow[page] \/ shadow'[page] = mapped[page]
        /\ page \notin DevicePages => shadow'[page] = shadow[page]
    BY <1>4, <2>1 DEF MarkPage, IInv, TypeOK, WriteInv, ReadsChangeNothing, Agrees
  <2>3. \A q \in Pages : q \notin DevicePages => shadow'[q] = shadow[q]
    BY <2>2
  <2>4. ReadsChangeNothing'
    <3> HIDE DEF page
    <3>1. \A u \in Threads : /\ access'[u].page = access[u].page /\ access'[u].write = access[u].write
                             /\ access'[u].pc \in {"fault", "opened"} => access[u].pc = access'[u].pc
                             /\ access'[u].pc # "idle" <=> access[u].pc # "idle"
                             /\ access[u].page \in Pages
      BY <2>1 DEF IInv, TypeOK
    <3>2. \A q \in Pages : Touching(q)' = Touching(q)
      BY <3>1 DEF Touching
    <3> QED BY <2>1, <2>3, <3>1, <3>2 DEF WriteInv, ReadsChangeNothing, Agrees, Touching
  <2> HIDE DEF page
  <2> QED BY <1>a, <2>1, <2>3, <2>4 DEF WriteInv, ClosedPagesAgree, Copied, ShadowIsKept,
    WritesSurvive, Agrees,
                             TrackedAppPages, Processing, Active
<1>5. ASSUME NEW r \in Ranges, Map(r)
      PROVE  WriteInv'
  <2>1. \A p \in AppPages : p \in r => shadow'[p] = mapped[p]
    BY <1>5, MapLoads DEF WriteInv
  <2>2. /\ tracked = {} /\ tracked' = r /\ r # {}
        /\ UNCHANGED <<option, mapped, written, access, api>>
        /\ api.pc = "idle"
    BY <1>5, RangeBounds DEF Map, environment
  <2>3. \A t \in Threads : access[t].pc = "idle"
    BY <2>2 DEF IInv, AccessesAreTracked
  <2>4. ReadsChangeNothing'
    BY <2>2, <2>3 DEF ReadsChangeNothing
  <2>5. ClosedPagesAgree' /\ WritesSurvive'
    BY <1>b, <2>1, <2>2 DEF ClosedPagesAgree, WritesSurvive, Agrees, TrackedAppPages
  <2>6. Copied' /\ ShadowIsKept'
    BY <2>2 DEF Copied, ShadowIsKept, Processing
  <2> QED BY <2>4, <2>5, <2>6 DEF WriteInv
<1>6. ASSUME NEW call \in {"process", "unmap"}, NEW uses \in SUBSET DevicePages,
             BeginProcessing(call, uses)
      PROVE  WriteInv'
  <2>1. /\ UNCHANGED <<option, tracked, protection, shadow, page_loaded, mapped, written, access>>
        /\ api'.pc # "reset"
    BY <1>6, BeginEffect DEF content
  <2>2. api'.pc = "remove" => \A p \in TrackedAppPages : Agrees(p)
    BY <1>6, <1>a, BeginEffect, BeginFindsNothing DEF WriteInv, ClosedPagesAgree
  <2>3. Processing' => \A p \in AppPages : api'.before[p] <= written[p]
    BY <1>6, <1>b, BeginEffect DEF Processing
  <2>4. Copied'
    BY <2>1, <2>2, <2>3 DEF Copied, Agrees, TrackedAppPages
  <2> QED BY <2>1, <2>4 DEF WriteInv, ClosedPagesAgree, ReadsChangeNothing, ShadowIsKept,
    WritesSurvive,
                             Agrees, TrackedAppPages, Touching
<1>7. ASSUME ScanMarkedPage \/ ScanOtherPage \/ ProtectForCopy
      PROVE  WriteInv'
  <2>1. /\ UNCHANGED <<option, tracked, shadow, page_loaded, mapped, written, access>>
        /\ api'.before = api.before /\ api'.pc \in {"scan", "copy"} /\ Processing
    BY <1>7 DEF ScanMarkedPage, ScanOtherPage, ProtectForCopy, entry, content, environment,
                IInv, TypeOK, Processing
  <2>2. \A p \in Pages : protection'[p] = "none" => protection[p] = "none"
    BY <1>7 DEF ScanMarkedPage, ScanOtherPage, ProtectForCopy, ProtectRange, entry
  <2> QED BY <1>a, <2>1, <2>2 DEF WriteInv, ClosedPagesAgree, ReadsChangeNothing, Copied,
    ShadowIsKept,
                             WritesSurvive, Agrees, TrackedAppPages, Touching, Processing
<1>8. ASSUME ScanDone
      PROVE  WriteInv'
  <2>1. \A p \in TrackedAppPages : Agrees(p)
    BY <1>8, <1>a, NothingOpen DEF ScanDone, IInv, ScanInOrder, Processing, WriteInv,
      ClosedPagesAgree
  <2>2. /\ UNCHANGED <<option, tracked, protection, shadow, page_loaded, mapped, written, access>>
        /\ api'.pc \in {"idle", "remove"}
    BY <1>8, EndEffect DEF ScanDone, entry, content, environment
  <2> QED BY <2>1, <2>2 DEF WriteInv, ClosedPagesAgree, ReadsChangeNothing, Copied, ShadowIsKept,
                             WritesSurvive, Agrees, TrackedAppPages, Touching, Processing
<1>9. ASSUME CopyRange
      PROVE  WriteInv'
  <2>1. /\ UNCHANGED <<option, tracked, protection, shadow, page_loaded, written, access>>
        /\ api'.before = api.before /\ api'.pc = "reset" /\ Processing /\ Active' = Active
        /\ tracked # {} /\ Active \subseteq tracked
    BY <1>9, ScanBounds DEF CopyRange, entry, environment, IInv, TypeOK, Processing, Active,
      ScanInOrder
  <2>2. \A p \in Pages : mapped'[p] = IF p \in Active THEN shadow[p] ELSE mapped[p]
    BY <1>9 DEF CopyRange
  <2>3. \A p \in Pages : Agrees(p) => Agrees(p)'
    BY <2>1, <2>2 DEF Agrees
  <2>4. ReadsChangeNothing'
    BY <2>1, <2>3 DEF WriteInv, ReadsChangeNothing, Touching, IInv, TypeOK
  <2>5. ClosedPagesAgree'
    BY <1>a, <2>1, <2>3 DEF WriteInv, ClosedPagesAgree, TrackedAppPages
  <2>6. Copied'
    BY <1>a, <2>1, <2>2 DEF WriteInv, Copied, Agrees, Processing
  <2>7. ShadowIsKept' /\ WritesSurvive'
    BY <1>a, <2>1, <2>2 DEF WriteInv, ShadowIsKept, WritesSurvive
  <2> QED BY <2>4, <2>5, <2>6, <2>7 DEF WriteInv
<1>10. ASSUME ResetGuard
       PROVE  WriteInv'
  <2>1. /\ UNCHANGED <<option, tracked, shadow, page_loaded, mapped, written, access>>
        /\ api'.before = api.before /\ api'.pc = "scan" /\ api.pc = "reset"
    BY <1>10 DEF ResetGuard, content, environment, IInv, TypeOK
  <2>2. \A p \in Pages : protection'[p] = IF p \in Active THEN "none" ELSE protection[p]
    BY <1>10 DEF ResetGuard, ProtectRange
  <2>3. ClosedPagesAgree'
    BY <1>a, <2>1, <2>2 DEF WriteInv, ClosedPagesAgree, Copied, Agrees, TrackedAppPages
  <2> QED BY <2>1, <2>3 DEF WriteInv, ReadsChangeNothing, Copied, ShadowIsKept, WritesSurvive,
    Agrees,
                             TrackedAppPages, Touching, Processing
<1>11. ASSUME Remove
       PROVE  WriteInv'
  <2>1. /\ tracked' = {} /\ UNCHANGED <<option, mapped, written, access, page_loaded>>
        /\ option.persistent => shadow' = shadow
        /\ api.pc = "remove" /\ api'.pc = "idle"
    BY <1>11 DEF Remove, NoCall, environment
  <2>2. \A t \in Threads : access[t].pc = "idle"
    BY <2>1 DEF IInv, AccessesAreTracked, ScanInOrder
  <2>3. \A p \in TrackedAppPages : Agrees(p)
    BY <2>1 DEF WriteInv, Copied
  <2>4. WritesSurvive'
    BY <1>b, <2>1, <2>3 DEF WritesSurvive, Agrees, TrackedAppPages
  <2>5. ShadowIsKept'
    <3>1. option.persistent /\ tracked # {} => tracked = Pages
      BY DEF IInv, TypeOK, LoadsWholeMemory
    <3>2. CASE tracked = {}
      BY <2>1, <3>2 DEF WriteInv, ShadowIsKept, Agrees
    <3>3. CASE tracked # {}
      BY <1>a, <2>1, <2>3, <3>1, <3>3 DEF ShadowIsKept, Agrees, TrackedAppPages
    <3> QED BY <3>2, <3>3
  <2> QED BY <2>1, <2>2, <2>4, <2>5 DEF WriteInv, ClosedPagesAgree, ReadsChangeNothing, Copied,
    TrackedAppPages,
                             Processing
<1>12. ASSUME RestoreHandler
       PROVE  WriteInv'
  <2>1. /\ UNCHANGED <<option, tracked, shadow, page_loaded, mapped, written, access, api>>
        /\ \A p \in Pages : protection'[p] = "readwrite"
    BY <1>12 DEF RestoreHandler, content
  <2> QED BY <1>a, <2>1 DEF WriteInv, ClosedPagesAgree, ReadsChangeNothing, Copied, ShadowIsKept,
                             WritesSurvive, Agrees, TrackedAppPages, Touching, Processing, Active
<1>13. ASSUME NEW p \in Pages, DeviceWrite(p)
       PROVE  WriteInv'
  <2>1. /\ UNCHANGED <<option, tracked, protection, shadow, page_loaded, access, api>>
        /\ p \in DevicePages
        /\ \A q \in Pages \ {p} : mapped'[q] = mapped[q] /\ written'[q] = written[q]
    BY <1>13 DEF DeviceWrite, entry, environment, IInv, TypeOK
  <2>2. \A q \in AppPages : Agrees(q)' = Agrees(q) /\ written'[q] = written[q] /\ mapped'[q] = mapped[q]
    BY <1>a, <2>1 DEF Agrees
  <2>3. ReadsChangeNothing'
    BY <2>1, <2>2 DEF WriteInv, ReadsChangeNothing, Touching, AppPages, IInv, TypeOK
  <2>4. ClosedPagesAgree' /\ Copied'
    BY <1>a, <2>1, <2>2 DEF WriteInv, ClosedPagesAgree, Copied, TrackedAppPages, Active, Processing
  <2>5. ShadowIsKept' /\ WritesSurvive'
    BY <2>1, <2>2 DEF WriteInv, ShadowIsKept, WritesSurvive
  <2> QED BY <2>3, <2>4, <2>5 DEF WriteInv
<1>14. ASSUME WaitForDevice
       PROVE  WriteInv'
  BY <1>14 DEF WaitForDevice, entry, content, WriteInv, ClosedPagesAgree, ReadsChangeNothing,
    Copied,
     ShadowIsKept, WritesSurvive, Agrees, TrackedAppPages, Touching, Processing, Active
<1> QED
  BY <1>1, <1>2, <1>3, <1>4, <1>5, <1>6, <1>7, <1>8, <1>9, <1>10, <1>11, <1>12, <1>13, <1>14
  DEF Next, ThreadStep, ApiStep

(* With the shadow memory loaded as it should be, no copy takes back a write *)
(* of the application.                                                       *)
THEOREM WriteInvariance ==
  ASSUME LoadsWholeMemory
  PROVE  Spec => []WriteInv
<1>1. Init => WriteInv
  <2> SUFFICES ASSUME Init
               PROVE  WriteInv
    OBVIOUS
  <2>1. api.pc = "idle" /\ tracked = {} /\ \A t \in Threads : access[t].pc = "idle"
    BY DEF Init, NoCall, NoAccess
  <2>2. \A p \in Pages : mapped[p] = written[p] /\ ~page_loaded[p]
    BY DEF Init
  <2> QED BY <2>1, <2>2 DEF WriteInv, ClosedPagesAgree, ReadsChangeNothing, Copied, ShadowIsKept,
                            WritesSurvive, TrackedAppPages, AppPages, Processing
<1>2. IInv /\ WriteInv /\ [Next]_vars => WriteInv'
  <2> SUFFICES ASSUME IInv, WriteInv, [Next]_vars
               PROVE  WriteInv'
    OBVIOUS
  <2>1. CASE Next
    BY <2>1, WriteStep
  <2>2. CASE UNCHANGED vars
    BY <2>2 DEF vars, entry, content, environment, WriteInv, ClosedPagesAgree,
      ReadsChangeNothing, Copied,
                ShadowIsKept, WritesSurvive, Agrees, TrackedAppPages, Touching, Processing, Active
  <2> QED BY <2>1, <2>2
<1> QED BY <1>1, <1>2, Invariance, PTL DEF Spec

(* Mapping, trapping, processing and unmapping in any order leave every page *)
(* with the last write of the application.                                   *)
THEOREM WritesSurviveCorrect ==
  ASSUME LoadsWholeMemory
  PROVE  Spec => []WritesSurvive
<1>1. WriteInv => WritesSurvive
  BY DEF WriteInv
<1> QED BY <1>1, WriteInvariance, PTL

(* A submit, a flush or an unmap leaves no page open, and what is closed is  *)
(* in the driver's memory with all writes that were finished before it.      *)
THEOREM SubmitCapturesEarlierWritesCorrect ==
  ASSUME LoadsWholeMemory
  PROVE  Spec => SubmitCapturesEarlierWrites
<1>1. ASSUME IInv, WriteInv, ScanDone, NEW p \in tracked \cap AppPages
      PROVE  mapped[p] >= api.before[p]
  <2>1. p \in Pages /\ protection[p] = "none"
    BY <1>1, NothingOpen DEF ScanDone, IInv, ScanInOrder, Processing
  <2>2. mapped[p] = written[p] /\ written[p] \in Nat /\ api.before[p] \in Nat
    BY <1>1, <2>1 DEF WriteInv, ClosedPagesAgree, WritesSurvive, Agrees, TrackedAppPages, IInv,
      TypeOK
  <2>3. api.before[p] <= written[p]
    BY <1>1 DEF ScanDone, WriteInv, Copied, Processing
  <2> QED BY <2>2, <2>3
<1>2. IInv /\ WriteInv /\ [Next]_vars =>
        [ScanDone => \A p \in tracked \cap AppPages : mapped[p] >= api.before[p]]_vars
  BY <1>1
<1> QED BY <1>2, Invariance, WriteInvariance, PTL DEF Spec, SubmitCapturesEarlierWrites

=============================================================================
