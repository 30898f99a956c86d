--------------------------- MODULE ThreadSafeQueue ---------------------------
(***************************************************************************)
(* framework/util/thread_safe_queue.h: ThreadSafeQueue<T, true>, the queue *)
(* of several producers and one consumer (QueueMPSC over QueueBase), which *)
(* is the variant the program uses.                                        *)
(*                                                                         *)
(* mp_queue_ and open_ are touched under mutex_ only, so a critical        *)
(* section is one step: nothing another thread does can be seen to happen  *)
(* inside it.  In particular a consumer evaluates its predicate and blocks *)
(* in one step (the mutex is released by the wait itself).  The two        *)
(* notifications are sent after the mutex is released and are steps of     *)
(* their own, as is the consumer's unlocked access to sc_queue_.           *)
(***************************************************************************)
EXTENDS Integers, Sequences, FiniteSets

CONSTANTS
  Producers,       (* the threads that push and close                        *)
  Consumers,       (* the threads that pop                                   *)
  NoValue,         (* std::nullopt                                           *)
  MaxPushes        (* bound: how many values are pushed in all               *)

(* "pop and try_pop must only be called by one consumer thread" (MPSC).       *)
ASSUME ThreadsAssumption ==
  /\ Producers \cap Consumers = {}
  /\ \A c, d \in Consumers : c = d

ASSUME BoundAssumption == MaxPushes \in Nat

(* The n-th value pushed is represented by n.                                 *)
Values == 1 .. MaxPushes

ASSUME NoValueAssumption == NoValue \notin Values

VARIABLES
  mp_queue,   (* the producer-side store                                     *)
  sc_queue,   (* the consumer-side store                                     *)
  open,       (* open_                                                       *)
  waiters,    (* the consumers blocked in cv_.wait                           *)
  pc,         (* where each thread is                                        *)
  got,        (* what the latest pop or try_pop of each consumer returned    *)
  pushes      (* how many values were pushed                                 *)

vars == <<mp_queue, sc_queue, open, waiters, pc, got, pushes>>

Goto(t, label) == pc' = [pc EXCEPT ![t] = label]

Init ==
  /\ mp_queue = <<>>
  /\ sc_queue = <<>>
  /\ open = TRUE
  /\ waiters = {}
  /\ pc = [t \in Producers \cup Consumers |-> "idle"]
  /\ got = [c \in Consumers |-> NoValue]
  /\ pushes = 0

-----------------------------------------------------------------------------
(* Producers                                                                 *)

(* Mutant: the index before it is counted.                                   *)
Emplace_OffByOne(p) ==
  /\ pc[p] = "idle"
  /\ open
  /\ pushes < MaxPushes
  /\ pushes' = pushes + 1
  /\ mp_queue' = Append(mp_queue, pushes)
  /\ Goto(p, "notify_one")
  /\ UNCHANGED <<sc_queue, open, waiters, got>>

(* emplace on an open queue, up to the end of its critical section.           *)
Emplace(p) ==
  /\ pc[p] = "idle"
  /\ open
  /\ pushes < MaxPushes
  /\ pushes' = pushes + 1
  /\ mp_queue' = Append(mp_queue, pushes + 1)
  /\ Goto(p, "notify_one")
  /\ UNCHANGED <<sc_queue, open, waiters, got>>

(* Mutant: notify only when the queue was empty before the push.              *)
NotifyOne_WhenFirst(p) ==
  /\ pc[p] = "notify_one"
  /\ IF waiters = {} \/ Len(mp_queue) > 1
       THEN UNCHANGED waiters
       ELSE \E c \in waiters : waiters' = waiters \ {c}
  /\ Goto(p, "idle")
  /\ UNCHANGED <<mp_queue, sc_queue, open, got, pushes>>

(* cv_.notify_one(): one blocked consumer, if there is one, leaves the wait.  *)
NotifyOne(p) ==
  /\ pc[p] = "notify_one"
  /\ IF waiters = {} THEN UNCHANGED waiters
                     ELSE \E c \in waiters : waiters' = waiters \ {c}
  /\ Goto(p, "idle")
  /\ UNCHANGED <<mp_queue, sc_queue, open, got, pushes>>

(* close, up to the end of its critical section.                              *)
Close(p) ==
  /\ pc[p] = "idle"
  /\ open' = FALSE
  /\ Goto(p, "notify_all")
  /\ UNCHANGED <<mp_queue, sc_queue, waiters, got, pushes>>

(* cv_.notify_all()                                                           *)
NotifyAll(p) ==
  /\ pc[p] = "notify_all"
  /\ waiters' = {}
  /\ Goto(p, "idle")
  /\ UNCHANGED <<mp_queue, sc_queue, open, got, pushes>>

-----------------------------------------------------------------------------
(* Consumers                                                                 *)

(* common_pop looks at the consumer's store first and takes the lock only     *)
(* when that one is empty.                                                    *)
StartPop(c, locked) ==
  /\ pc[c] = "idle"
  /\ Goto(c, IF sc_queue # <<>> THEN "take" ELSE locked)
  /\ UNCHANGED <<mp_queue, sc_queue, open, waiters, got, pushes>>

CallPop(c) == StartPop(c, "lock")
CallTryPop(c) == StartPop(c, "try_lock")

(* The predicate of cv_.wait.                                                 *)
Ready == mp_queue # <<>> \/ ~open

(* The wait predicate is false: the consumer blocks and releases the mutex.   *)
Block(c) ==
  /\ pc[c] = "lock"
  /\ c \notin waiters
  /\ ~Ready
  /\ waiters' = waiters \cup {c}
  /\ UNCHANGED <<mp_queue, sc_queue, open, pc, got, pushes>>

(* A wait may return without a notification; it evaluates Ready again.        *)
SpuriousWakeup(c) ==
  /\ c \in waiters
  /\ waiters' = waiters \ {c}
  /\ UNCHANGED <<mp_queue, sc_queue, open, pc, got, pushes>>

(* Mutant: a wait without the predicate around it.                            *)
Locked_NoPredicate(c) ==
  \/ pc[c] = "lock" /\ c \notin waiters
  \/ pc[c] = "try_lock"

(* A consumer that holds the mutex and will not wait any more.                *)
Locked(c) ==
  \/ pc[c] = "lock" /\ c \notin waiters /\ Ready
  \/ pc[c] = "try_lock"

(* QueueMPSC::swap_queues.  The stores are exchanged; sc_queue is empty here, *)
(* so the non-waiting variant, which leaves two empty stores alone, agrees.   *)
Swap(c) ==
  /\ Locked(c)
  /\ mp_queue' = sc_queue
  /\ sc_queue' = mp_queue
  /\ Goto(c, "take")
  /\ UNCHANGED <<open, waiters, got, pushes>>

(* Mutant: the consumer store is taken from its back.                         *)
Take_Back(c) ==
  /\ pc[c] = "take"
  /\ IF sc_queue = <<>>
       THEN /\ got' = [got EXCEPT ![c] = NoValue]
            /\ UNCHANGED sc_queue
       ELSE /\ got' = [got EXCEPT ![c] = sc_queue[Len(sc_queue)]]
            /\ sc_queue' = SubSeq(sc_queue, 1, Len(sc_queue) - 1)
  /\ Goto(c, "idle")
  /\ UNCHANGED <<mp_queue, open, waiters, pushes>>

(* pop_queue(sc_queue_), outside the lock.                                    *)
Take(c) ==
  /\ pc[c] = "take"
  /\ IF sc_queue = <<>>
       THEN /\ got' = [got EXCEPT ![c] = NoValue]
            /\ UNCHANGED sc_queue
       ELSE /\ got' = [got EXCEPT ![c] = Head(sc_queue)]
            /\ sc_queue' = Tail(sc_queue)
  /\ Goto(c, "idle")
  /\ UNCHANGED <<mp_queue, open, waiters, pushes>>

-----------------------------------------------------------------------------
ProducerStep(p) == Emplace(p) \/ NotifyOne(p) \/ Close(p) \/ NotifyAll(p)

ConsumerStep(c) ==
  \/ CallPop(c) \/ CallTryPop(c)
  \/ Block(c) \/ SpuriousWakeup(c)
  \/ Swap(c) \/ Take(c)

Next ==
  \/ \E p \in Producers : ProducerStep(p)
  \/ \E c \in Consumers : ConsumerStep(c)

Spec == Init /\ [][Next]_vars

(* A thread inside an operation is scheduled; nobody has to start one, and no *)
(* wakeup is spurious on demand.                                              *)
Fairness ==
  /\ \A p \in Producers : WF_vars(NotifyOne(p)) /\ WF_vars(NotifyAll(p))
  /\ \A c \in Consumers : WF_vars(Block(c) \/ Swap(c) \/ Take(c))

FairSpec == Spec /\ Fairness

-----------------------------------------------------------------------------
(* Properties                                                                *)

(* Types of the fields of QueueBase and QueueMPSC and of the call states.     *)
TypeOK ==
  /\ mp_queue \in Seq(Values)
  /\ sc_queue \in Seq(Values)
  /\ open \in BOOLEAN
  /\ waiters \in SUBSET Consumers
  /\ pc \in [Producers \cup Consumers ->
               {"idle", "notify_one", "notify_all", "lock", "try_lock", "take"}]
  /\ got \in [Consumers -> Values \cup {NoValue}]
  /\ pushes \in 0 .. MaxPushes

(* The queue's content: what the consumer store holds is older than anything  *)
(* in the producer store.                                                     *)
Content == sc_queue \o mp_queue

(* Nothing is lost, duplicated or reordered by the exchange of the two        *)
(* stores: the content is always the most recent pushes, oldest first, with   *)
(* no gap between them and up to the last one (thread_safe_queue.h:180-200).  *)
ContentIsLatestPushes ==
  \A i \in 1 .. Len(Content) : Content[i] = pushes - Len(Content) + i

(* The refinement mapping.  A consumer at "take" whose store stayed empty     *)
(* found the queue empty when it held the mutex: its answer was fixed there.  *)
(* One that has the exchanged store before it will get a value, whichever     *)
(* call it is in.                                                             *)
Owed == {c \in Consumers : pc[c] = "lock" \/ (pc[c] = "take" /\ sc_queue # <<>>)}

Answered == [c \in Consumers |->
               IF pc[c] = "take" /\ sc_queue = <<>> THEN NoValue ELSE got[c]]

Abstract == INSTANCE QueueContract WITH
  items <- sc_queue \o mp_queue, open <- open, owed <- Owed, got <- Answered

(* The code implements the closable FIFO its comments describe                *)
(* (thread_safe_queue.h:56-66 and 210-216).                                   *)
ImplementsQueueContract == Abstract!Spec

(* Though the notifications are sent after the mutex is released, no wakeup   *)
(* is lost: a pop in progress returns once there is something to pop or the   *)
(* queue is closed ("After close() returns waiting pop operations are         *)
(* unblocked", thread_safe_queue.h:56-62).                                    *)
NoLostWakeup ==
  \A c \in Consumers :
    (pc[c] = "lock" /\ (mp_queue # <<>> \/ ~open)) ~> (pc[c] = "idle")
=============================================================================
