------------------------------ MODULE PageGuard ------------------------------
(***************************************************************************)
(* PageGuardManager (framework/util/page_guard_manager.cpp): the tracking  *)
(* of a mapped memory object through protected shadow memory.  Application *)
(* threads read and write the shadow memory; an access that its protection *)
(* forbids traps, and the signal handler opens the page and marks it.  The *)
(* API thread processes the marked pages on a submit, a flush and an       *)
(* unmap: it copies them to the driver's memory and to the capture file.   *)
(* A watcher may find the handler replaced and mark everything.            *)
(*                                                                         *)
(* The content of a page is the version of its last write.  The pages of   *)
(* DevicePages are written by the device and only read by the application, *)
(* the others are written by the application.  A fill memory command       *)
(* carries the bytes just copied to the driver's memory, so `mapped' also  *)
(* stands for what the capture file has.                                   *)
(*                                                                         *)
(* expect_read_write_same_page is TRUE, as CommonCaptureManager passes it: *)
(* the handler marks every page it opens for write, and the separate mark  *)
(* for reads tells nothing more.                                           *)
(***************************************************************************)
EXTENDS Integers, FiniteSets

CONSTANTS
  Threads,       (* of the application that touch the memory                  *)
  LastPage,      (* the pages of the memory object are 1..LastPage            *)
  DevicePages,   (* the pages that the device writes                          *)
  Ranges,        (* the sets of pages that vkMapMemory may be asked for       *)
  Options,       (* settings: separate_read, persistent, partial_tail         *)
  MaxVersion,    (* bound on the writes of a page                             *)
  MaxRestores,   (* signal_handler_watcher_max_restores_                      *)
  Api, Nobody    (* holders of tracked_memory_lock_ besides the threads       *)

Pages == 1..LastPage
AppPages == Pages \ DevicePages

ASSUME PageGuardAssumption ==
  /\ LastPage \in Nat \ {0}
  /\ DevicePages \subseteq Pages
  /\ \A r \in Ranges : \E first \in Pages, last \in Pages : first <= last /\ r = first..last
  /\ Options \subseteq [separate_read : BOOLEAN, persistent : BOOLEAN, partial_tail : BOOLEAN]
  /\ MaxVersion \in Nat \ {0} /\ MaxRestores \in Nat
  /\ Api \notin Threads /\ Nobody \notin Threads /\ Api # Nobody

VARIABLES
  option,        (* the settings of the capture                               *)
  tracked,       (* pages of the entry of memory_info_; {} without an entry   *)
  protection,    (* of the shadow page: "none", "read" or "readwrite"         *)
  active_write,  (* status_tracker: the page is marked                        *)
  is_modified,   (* some page is marked                                       *)
  shadow,        (* content of the shadow pages                               *)
  page_loaded,   (* ShadowMemoryInfo of a persistent shadow allocation        *)
  mapped,        (* content of the driver's memory, and of the capture        *)
  written,       (* history: the last version written                         *)
  lock,          (* the holder of tracked_memory_lock_                        *)
  access,        (* what each thread is doing                                 *)
  api,           (* the call of the API thread and where it is                *)
  in_flight,     (* device pages of submitted work not waited for             *)
  restores       (* signal_handler_watcher_restores_                          *)

entry == <<tracked, protection, active_write, is_modified>>
content == <<shadow, page_loaded, mapped, written>>
environment == <<option, in_flight, restores>>
vars == <<entry, content, environment, lock, access, api>>

NoAccess == [pc |-> "idle", page |-> 1, write |-> FALSE]
NoCall == [pc |-> "idle", call |-> "none", next |-> 1, start |-> 0,
           uses |-> {}, before |-> [p \in Pages |-> 0]]

First(r) == CHOOSE p \in r : \A q \in r : p <= q
AfterLast == First(tracked) + Cardinality(tracked)
(* The range being concatenated or processed: start is 0 outside one.        *)
Active == {p \in Pages : api.start # 0 /\ api.start <= p /\ p < api.next}

TypeOK ==
  /\ option \in Options
  /\ tracked \in Ranges \cup {{}}
  /\ protection \in [Pages -> {"none", "read", "readwrite"}]
  /\ active_write \in [Pages -> BOOLEAN] /\ is_modified \in BOOLEAN
  /\ {shadow, mapped, written} \subseteq [Pages -> Nat]
  /\ page_loaded \in [Pages -> BOOLEAN]
  /\ lock \in Threads \cup {Api, Nobody}
  /\ access \in [Threads -> [pc : {"idle", "access", "fault", "opened"},
                             page : Pages, write : BOOLEAN]]
  /\ api \in [pc : {"idle", "scan", "copy", "reset", "remove"},
              call : {"none", "process", "unmap"}, next : 1..(LastPage + 1),
              start : 0..LastPage, uses : SUBSET DevicePages, before : [Pages -> Nat]]
  /\ in_flight \subseteq DevicePages
  /\ restores \in 0..MaxRestores

Init ==
  /\ option \in Options
  /\ tracked = {}
  /\ protection = [p \in Pages |-> "readwrite"]
  /\ active_write = [p \in Pages |-> FALSE] /\ is_modified = FALSE
  /\ shadow = [p \in Pages |-> 0]
  /\ page_loaded = [p \in Pages |-> FALSE]
  /\ mapped = [p \in Pages |-> 1] /\ written = [p \in Pages |-> 1]
  /\ lock = Nobody
  /\ access = [t \in Threads |-> NoAccess]
  /\ api = NoCall
  /\ in_flight = {} /\ restores = 0

-----------------------------------------------------------------------------
(* vkMapMemory: AddTrackedMemory.                                            *)

(* A fresh shadow allocation is a copy of the mapped range.                  *)
CopyOnMap(r) ==
  /\ shadow' = [p \in Pages |-> IF p \in r THEN mapped[p] ELSE 0]
  /\ UNCHANGED page_loaded

(* A persistent one gets its pages on their first map.  The two pointers     *)
(* advance with a copy and not with the page, so n copies fill the first n   *)
(* pages of the range; the last page of the memory has as many bytes as are  *)
(* left over by its full pages.                                              *)
LoadPages(r) ==
  LET copied == {p \in r : ~page_loaded[p] /\ (p = LastPage => option.partial_tail)}
      filled == First(r)..(First(r) + Cardinality(copied) - 1)
  IN /\ shadow' = [p \in Pages |-> IF p \in filled THEN mapped[p] ELSE shadow[p]]
     /\ page_loaded' = [p \in Pages |-> page_loaded[p] \/ (p \in copied /\ p # LastPage)]

Map(r) ==
  /\ tracked = {} /\ api.pc = "idle" /\ lock = Nobody
  /\ IF option.persistent THEN LoadPages(r) ELSE CopyOnMap(r)
  /\ tracked' = r
  /\ protection' = [p \in Pages |-> IF p \in r THEN "none" ELSE "readwrite"]
  /\ active_write' = [p \in Pages |-> FALSE]
  /\ is_modified' = FALSE
  /\ UNCHANGED <<mapped, written, environment, lock, access, api>>

-----------------------------------------------------------------------------
(* Application threads.                                                      *)

Touching(p) == {t \in Threads : access[t].pc # "idle" /\ access[t].page = p}

(* What the application owes Vulkan (no access to memory that the device is  *)
(* using or that is being unmapped) and, with separate reads, the tracking:  *)
(* their setting is documented to lose writes to a page that another thread  *)
(* is reading (USAGE_desktop_Vulkan.md, Page Guard Separate Read Tracking).  *)
MayAccess(p, write) ==
  /\ p \in tracked \ (in_flight \cup api.uses)
  /\ api.call # "unmap"
  /\ write => p \in AppPages /\ written[p] + Cardinality(Touching(p)) < MaxVersion
  /\ option.separate_read =>
       \A u \in Touching(p) : access[u].write = write

StartAccess(t, p, write) ==
  /\ access[t].pc = "idle"
  /\ MayAccess(p, write)
  /\ access' = [access EXCEPT ![t] = [pc |-> "access", page |-> p, write |-> write]]
  /\ UNCHANGED <<entry, content, environment, lock, api>>

Permitted(t) ==
  protection[access[t].page] \in IF access[t].write THEN {"readwrite"} ELSE {"read", "readwrite"}

Perform(t) ==
  /\ access[t].pc = "access" /\ Permitted(t)
  /\ LET p == access[t].page
     IN IF access[t].write
          THEN /\ written' = [written EXCEPT ![p] = @ + 1]
               /\ shadow' = [shadow EXCEPT ![p] = written[p] + 1]
          ELSE UNCHANGED <<written, shadow>>
  /\ access' = [access EXCEPT ![t] = NoAccess]
  /\ UNCHANGED <<entry, page_loaded, mapped, environment, lock, api>>

(* The signal handler.  The thread runs it to its end and then repeats the   *)
(* access, whose page may be protected again by then.                        *)
Trap(t) ==
  /\ access[t].pc = "access" /\ ~Permitted(t)
  /\ access' = [access EXCEPT ![t].pc = "fault"]
  /\ UNCHANGED <<entry, content, environment, lock, api>>

OpenPage(t) ==
  /\ access[t].pc = "fault" /\ lock = Nobody
  /\ lock' = t
  /\ is_modified' = TRUE
  /\ protection' = [protection EXCEPT ![access[t].page] = "readwrite"]
  /\ access' = [access EXCEPT ![t].pc = "opened"]
  /\ UNCHANGED <<tracked, active_write, content, environment, api>>

(* Mutant: the page is copied though it was loaded. *)
MarkPage_AlwaysCopies(t) ==
  /\ access[t].pc = "opened"
  /\ active_write' = [active_write EXCEPT ![access[t].page] = TRUE]
  /\ shadow' = [shadow EXCEPT ![access[t].page] = mapped[access[t].page]]
  /\ lock' = Nobody
  /\ access' = [access EXCEPT ![t].pc = "access"]
  /\ UNCHANGED <<tracked, protection, is_modified, page_loaded, mapped, written, environment, api>>

(* Without separate reads every trap counts as a write.                      *)
MarkPage(t) ==
  /\ access[t].pc = "opened"
  /\ LET p == access[t].page
     IN /\ active_write' = [active_write EXCEPT ![p] = TRUE]
        /\ shadow' = IF option.separate_read /\ ~access[t].write
                       THEN [shadow EXCEPT ![p] = mapped[p]] ELSE shadow
  /\ lock' = Nobody
  /\ access' = [access EXCEPT ![t].pc = "access"]
  /\ UNCHANGED <<tracked, protection, is_modified, page_loaded, mapped, written, environment, api>>

-----------------------------------------------------------------------------
(* The API thread: ProcessMemoryEntries of a submit, ProcessMemoryEntry of a *)
(* flush (a submit that uses no page) and of an unmap.                       *)

(* The lock is released; an unmap goes on to remove the entry.               *)
EndProcessing(call) ==
  /\ lock' = Nobody
  /\ api' = IF call = "unmap" THEN [NoCall EXCEPT !.pc = "remove", !.call = call] ELSE NoCall

BeginProcessing(call, uses) ==
  /\ api.pc = "idle" /\ lock = Nobody
  /\ call = "unmap" => tracked # {}
  /\ \A t \in Threads : access[t].pc # "idle" => call # "unmap" /\ access[t].page \notin uses
  /\ in_flight' = in_flight \cup uses
  /\ IF is_modified
       THEN /\ lock' = Api
            /\ is_modified' = FALSE
            /\ api' = [pc |-> "scan", call |-> call, next |-> First(tracked), start |-> 0,
                       uses |-> uses, before |-> written]
       ELSE EndProcessing(call) /\ UNCHANGED is_modified
  /\ UNCHANGED <<tracked, protection, active_write, content, option, restores, access>>

(* ProcessEntry: the marked pages are concatenated and their marks reset.    *)
ScanMarkedPage ==
  /\ api.pc = "scan" /\ api.next < AfterLast /\ active_write[api.next]
  /\ active_write' = [active_write EXCEPT ![api.next] = FALSE]
  /\ api' = [api EXCEPT !.next = @ + 1, !.start = IF @ = 0 THEN api.next ELSE @]
  /\ UNCHANGED <<tracked, protection, is_modified, content, environment, lock, access>>

ScanOtherPage ==
  /\ api.pc = "scan" /\ api.next < AfterLast /\ ~active_write[api.next]
  /\ api.start = 0
  /\ api' = [api EXCEPT !.next = @ + 1]
  /\ UNCHANGED <<entry, content, environment, lock, access>>

(* Mutant: the range that ends the scan is not processed. *)
ScanDone_DropsLastRange ==
  /\ api.pc = "scan" /\ api.next = AfterLast
  /\ EndProcessing(api.call)
  /\ UNCHANGED <<entry, content, environment, access>>

ScanDone ==
  /\ api.pc = "scan" /\ api.next = AfterLast /\ api.start = 0
  /\ EndProcessing(api.call)
  /\ UNCHANGED <<entry, content, environment, access>>

(* Mutant: pages are closed for reading while they are copied. *)
ProtectRange_None(protect) ==
  protection' = [p \in Pages |-> IF p \in Active THEN "none" ELSE protection[p]]

(* ProcessActiveRange: writes are kept out during the copy, all accesses     *)
(* after it.                                                                 *)
ProtectRange(protect) ==
  protection' = [p \in Pages |-> IF p \in Active THEN protect ELSE protection[p]]

ProtectForCopy ==
  /\ api.pc = "scan" /\ api.start # 0
  /\ api.next < AfterLast => ~active_write[api.next]
  /\ ProtectRange("read")
  /\ api' = [api EXCEPT !.pc = "copy"]
  /\ UNCHANGED <<tracked, active_write, is_modified, content, environment, lock, access>>

CopyRange ==
  /\ api.pc = "copy"
  /\ mapped' = [p \in Pages |-> IF p \in Active THEN shadow[p] ELSE mapped[p]]
  /\ api' = [api EXCEPT !.pc = "reset"]
  /\ UNCHANGED <<entry, shadow, page_loaded, written, environment, lock, access>>

(* Mutant: pages the device writes stay readable. *)
ResetGuard_WritesOnly ==
  /\ api.pc = "reset"
  /\ ProtectRange("read")
  /\ api' = [api EXCEPT !.pc = "scan", !.start = 0]
  /\ UNCHANGED <<tracked, active_write, is_modified, content, environment, lock, access>>

ResetGuard ==
  /\ api.pc = "reset"
  /\ ProtectRange("none")
  /\ api' = [api EXCEPT !.pc = "scan", !.start = 0]
  /\ UNCHANGED <<tracked, active_write, is_modified, content, environment, lock, access>>

(* RemoveTrackedMemory.                                                      *)
Remove ==
  /\ api.pc = "remove" /\ lock = Nobody
  /\ tracked' = {}
  /\ protection' = [p \in Pages |-> "readwrite"]
  /\ active_write' = [p \in Pages |-> FALSE] /\ is_modified' = FALSE
  /\ shadow' = IF option.persistent THEN shadow ELSE [p \in Pages |-> 0]
  /\ api' = NoCall
  /\ UNCHANGED <<page_loaded, mapped, written, environment, lock, access>>

-----------------------------------------------------------------------------
(* Mutant: one restoration too many. *)
RestoreHandler_OffByOne ==
  /\ restores <= MaxRestores /\ lock = Nobody /\ tracked # {}
  /\ restores' = restores + 1
  /\ UNCHANGED <<entry, content, option, in_flight, lock, access, api>>

(* Mutant: the pages are marked, is_modified is not. *)
RestoreHandler_FlagsOnly ==
  /\ restores < MaxRestores /\ lock = Nobody /\ tracked # {}
  /\ restores' = restores + 1
  /\ active_write' = [p \in Pages |-> p \in tracked]
  /\ protection' = [p \in Pages |-> "readwrite"]
  /\ UNCHANGED <<tracked, is_modified, content, option, in_flight, lock, access, api>>

(* SignalHandlerWatcher: CheckSignalHandler found another handler, installed *)
(* its own again and marks everything, since traps may have been missed.     *)
RestoreHandler ==
  /\ restores < MaxRestores /\ lock = Nobody
  /\ tracked # {}
  /\ restores' = restores + 1
  /\ is_modified' = TRUE
  /\ active_write' = [p \in Pages |-> p \in tracked]
  /\ protection' = [p \in Pages |-> "readwrite"]
  /\ UNCHANGED <<tracked, content, option, in_flight, lock, access, api>>

(* The device, which works only after the submit has reached the driver.     *)
DeviceWrite(p) ==
  /\ p \in in_flight \ api.uses
  /\ written[p] < MaxVersion
  /\ written' = [written EXCEPT ![p] = @ + 1]
  /\ mapped' = [mapped EXCEPT ![p] = written[p] + 1]
  /\ UNCHANGED <<entry, shadow, page_loaded, environment, lock, access, api>>

WaitForDevice ==
  /\ in_flight # api.uses
  /\ in_flight' = api.uses
  /\ UNCHANGED <<entry, content, option, restores, lock, access, api>>

-----------------------------------------------------------------------------
ThreadStep(t) ==
  \/ \E p \in Pages, write \in BOOLEAN : StartAccess(t, p, write)
  \/ Perform(t)
  \/ Trap(t)
  \/ OpenPage(t)
  \/ MarkPage(t)

ApiStep ==
  \/ \E r \in Ranges : Map(r)
  \/ \E uses \in SUBSET DevicePages : BeginProcessing("process", uses)
  \/ BeginProcessing("unmap", {})
  \/ ScanMarkedPage
  \/ ScanOtherPage
  \/ ScanDone
  \/ ProtectForCopy
  \/ CopyRange
  \/ ResetGuard
  \/ Remove

Next ==
  \/ \E t \in Threads : ThreadStep(t)
  \/ ApiStep
  \/ RestoreHandler
  \/ \E p \in Pages : DeviceWrite(p)
  \/ WaitForDevice

Spec == Init /\ [][Next]_vars

-----------------------------------------------------------------------------
(* A page that the application can write without a trap will be processed:   *)
(* it is marked and the memory known as modified, or the processing has yet  *)
(* to protect it, or the handler that opened it is about to mark it.         *)
(* HandleGuardPageViolation, ProcessEntry and MarkAllTrackedMemoryAsDirty    *)
(* agree on that whatever their order.                                       *)
BeingProcessed(p) ==
  lock = Api /\ (p \in Active \/ (active_write[p] /\ p >= api.next))
BeingMarked(p) == \E t \in Threads : access[t].pc = "opened" /\ access[t].page = p
WillBeProcessed(p) == (active_write[p] /\ is_modified) \/ BeingProcessed(p) \/ BeingMarked(p)
NoWriteMissed ==
  \A p \in tracked : protection[p] = "readwrite" => WillBeProcessed(p)

(* Every write finished before a submit, a flush or an unmap took the lock   *)
(* is in the driver's memory and in the capture file when the lock is        *)
(* released: QueueSubmitWriteFillMemoryCmd captures what the submitted work  *)
(* reads.                                                                    *)
SubmitCapturesEarlierWrites ==
  [][ScanDone => \A p \in tracked \cap AppPages : mapped[p] >= api.before[p]]_vars

(* The copies between shadow and driver memory, in both directions, never    *)
(* take back a write of the application, over unmapping and mapping again.   *)
WritesSurvive ==
  \A p \in AppPages : written[p] = IF p \in tracked THEN shadow[p] ELSE mapped[p]

(* What the device has written stays in its memory, though read pages are    *)
(* copied back as modified ones, and a read gets it: a page that can be read *)
(* without a trap holds it, once the handler that opened it is done.  The    *)
(* watcher's mark of everything is the exception.                            *)
HoldsDeviceWrites(p) ==
  \A t \in Touching(p) : access[t].pc = "access" /\ Permitted(t) => shadow[p] = written[p]
DeviceWritesAreRead ==
  option.separate_read /\ restores = 0 =>
    \A p \in DevicePages :
      mapped[p] = written[p] /\ (BeingMarked(p) \/ HoldsDeviceWrites(p))

(* The API thread, which holds the lock the handler takes, never traps in    *)
(* its own copy out of the shadow memory: that would be a deadlock.          *)
NoTrapUnderTheLock ==
  api.pc = "copy" => \A p \in Active : protection[p] # "none"

=============================================================================
