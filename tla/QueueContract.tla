---------------------------- MODULE QueueContract ----------------------------
(***************************************************************************)
(* What util::ThreadSafeQueue promises to the threads that call it, as the *)
(* comments of framework/util/thread_safe_queue.h state it: every call     *)
(* takes effect in one step of ClosableQueue, and one that waits does not  *)
(* come back with nothing while the queue is open.                         *)
(*                                                                         *)
(* This is the abstract specification; ThreadSafeQueue is the one written  *)
(* from the code, with its lock, its condition variable and its two        *)
(* stores, and implements this one.                                        *)
(***************************************************************************)
EXTENDS ClosableQueue

VARIABLE owed   (* the consumers whose call owes them a value as long as the *)
                (* queue is not closed and empty: those inside pop()         *)

vars == <<items, open, got, owed>>

ContractInit == Init /\ owed = {}

(* A consumer calls pop.                                                     *)
CallPop(c) == owed' = owed \cup {c} /\ UNCHANGED <<items, open, got>>

(* A call returns with a value, from a closed queue, or from an empty one.   *)
Return(c) ==
  \/ Pop(c) /\ owed' = owed \ {c}
  \/ c \in owed /\ PopClosed(c) /\ owed' = owed \ {c}
  \/ c \notin owed /\ TryPopEmpty(c) /\ UNCHANGED owed

Next ==
  \/ \E v \in Values : Push(v) /\ UNCHANGED owed
  \/ Close /\ UNCHANGED owed
  \/ \E c \in Consumers : CallPop(c) \/ Return(c)

Spec == ContractInit /\ [][Next]_vars
=============================================================================
