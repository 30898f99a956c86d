---------------------------- MODULE ClosableQueue ----------------------------
(***************************************************************************)
(* What the operations of util::ThreadSafeQueue do, as the comments of     *)
(* framework/util/thread_safe_queue.h state it: an unbounded FIFO that can *)
(* be closed, each operation one indivisible step.  AsyncProcessor uses    *)
(* these operations; QueueContract says which of them a call may take.     *)
(***************************************************************************)
EXTENDS Naturals, Sequences

CONSTANTS
  Consumers,   (* the threads that pop                                       *)
  Values,      (* what the queue can hold                                    *)
  NoValue      (* std::nullopt                                               *)

VARIABLES
  items,       (* the values pushed and not yet popped, oldest first         *)
  open,        (* FALSE once close() was called                              *)
  got          (* what each consumer's latest pop or try_pop returned        *)

Init ==
  /\ items = <<>>
  /\ open = TRUE
  /\ got = [c \in Consumers |-> NoValue]

(* push and emplace: a value enters an open queue; into a closed queue      *)
(* nothing enters (the call returns false, which leaves the state alone).   *)
Push(v) ==
  /\ open
  /\ items' = Append(items, v)
  /\ UNCHANGED <<open, got>>

Close ==
  /\ open' = FALSE
  /\ UNCHANGED <<items, got>>

(* A pop or try_pop that finds a value returns the oldest.                   *)
Pop(c) ==
  /\ items # <<>>
  /\ got' = [got EXCEPT ![c] = Head(items)]
  /\ items' = Tail(items)
  /\ UNCHANGED open

(* try_pop() returns std::nullopt from a queue that is empty.                *)
TryPopEmpty(c) ==
  /\ items = <<>>
  /\ got' = [got EXCEPT ![c] = NoValue]
  /\ UNCHANGED <<items, open>>

(* pop() does so only if the queue is also closed.                           *)
PopClosed(c) == ~open /\ TryPopEmpty(c)
=============================================================================
