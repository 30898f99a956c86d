----------------------------- MODULE ThreadPool -----------------------------
(***************************************************************************)
(* util::ThreadPool (framework/util/threadpool.h): worker threads that run *)
(* posted tasks in order, and the future of each task.  Without workers    *)
(* whoever posts runs the tasks with poll.  Only the default priority is   *)
(* used, so there is one queue.                                            *)
(*                                                                         *)
(* What a task does is up to the module that extends this one; a worker is *)
(* "run" until its task is about to return.                                *)
(***************************************************************************)
EXTENDS Integers, Sequences

CONSTANTS
  Tasks,      (* the tasks that may be posted, each once                      *)
  Workers     (* the threads of a pool that has any                           *)

NoTask == 0
ASSUME ThreadPoolAssumption == NoTask \notin Tasks

VARIABLES
  threads,    (* threads_                                                     *)
  running,    (* running_                                                     *)
  queue,      (* the tasks posted and not taken                               *)
  worker,     (* what each worker is doing                                    *)
  future      (* "none", "pending", "ready", or "broken" by a dropped task    *)

pool_vars == <<threads, running, queue, worker, future>>

Elements(s) == {s[i] : i \in DOMAIN s}

PoolTypeOK ==
  /\ threads \in {{}, Workers}
  /\ running \in BOOLEAN
  /\ queue \in Seq(Tasks)
  /\ worker \in [Workers -> [pc : {"check", "waiting", "run", "return", "exited"},
                             task : Tasks \cup {NoTask}]]
  /\ future \in [Tasks -> {"none", "pending", "ready", "broken"}]

(* set_num_threads: start.                                                   *)
PoolInit ==
  /\ threads \in {{}, Workers}
  /\ running = (threads # {})
  /\ queue = <<>>
  /\ worker = [w \in Workers |-> [pc |-> "check", task |-> NoTask]]
  /\ future = [t \in Tasks |-> "none"]

-----------------------------------------------------------------------------
(* post, up to the release of the lock, and its notification.                *)
Push(t) ==
  /\ queue' = Append(queue, t)
  /\ future' = [future EXCEPT ![t] = "pending"]
  /\ UNCHANGED <<threads, running, worker>>

Waiting == {w \in threads : worker[w].pc = "waiting"}

(* Mutant: nobody is woken. *)
NotifyOne_Never == UNCHANGED <<threads, running, queue, worker, future>>

NotifyOne ==
  /\ IF Waiting = {} THEN UNCHANGED worker
     ELSE \E w \in Waiting : worker' = [worker EXCEPT ![w].pc = "check"]
  /\ UNCHANGED <<threads, running, queue, future>>

(* Mutant: the task stays in the queue. *)
Check_KeepsTask(w) ==
  /\ w \in threads /\ worker[w].pc = "check"
  /\ IF queue # <<>>
       THEN worker' = [worker EXCEPT ![w] = [pc |-> "run", task |-> Head(queue)]]
       ELSE worker' = [worker EXCEPT ![w].pc = IF running THEN "waiting" ELSE "exited"]
  /\ UNCHANGED <<threads, running, queue, future>>

(* A worker between two tasks: take the next one, wait, or exit.             *)
Check(w) ==
  /\ w \in threads /\ worker[w].pc = "check"
  /\ IF queue # <<>>
       THEN /\ worker' = [worker EXCEPT ![w] = [pc |-> "run", task |-> Head(queue)]]
            /\ queue' = Tail(queue)
       ELSE /\ worker' = [worker EXCEPT ![w].pc = IF running THEN "waiting" ELSE "exited"]
            /\ UNCHANGED queue
  /\ UNCHANGED <<threads, running, future>>

SpuriousWakeup(w) ==
  /\ w \in Waiting
  /\ worker' = [worker EXCEPT ![w].pc = "check"]
  /\ UNCHANGED <<threads, running, queue, future>>

(* The task returns its value.                                               *)
Return(w) ==
  /\ w \in threads /\ worker[w].pc = "return"
  /\ future' = [future EXCEPT ![worker[w].task] = "ready"]
  /\ worker' = [worker EXCEPT ![w] = [pc |-> "check", task |-> NoTask]]
  /\ UNCHANGED <<threads, running, queue>>

(* poll of a pool without threads: the caller runs every task.               *)
PollInline ==
  /\ ~running /\ threads = {}
  /\ future' = [t \in Tasks |-> IF t \in Elements(queue) THEN "ready" ELSE future[t]]
  /\ queue' = <<>>
  /\ UNCHANGED <<threads, running, worker>>

(* join_all: the queued tasks are dropped, and their promises with them.     *)
Stop ==
  /\ running' = FALSE
  /\ future' = [t \in Tasks |-> IF t \in Elements(queue) THEN "broken" ELSE future[t]]
  /\ queue' = <<>>
  /\ UNCHANGED <<threads, worker>>

(* Mutant: one worker is woken. *)
NotifyAll_One == NotifyOne

NotifyAll ==
  /\ worker' = [w \in Workers |->
       IF w \in Waiting THEN [worker[w] EXCEPT !.pc = "check"] ELSE worker[w]]
  /\ UNCHANGED <<threads, running, queue, future>>

Join ==
  /\ \A w \in threads : worker[w].pc = "exited"
  /\ threads' = {}
  /\ UNCHANGED <<running, queue, worker, future>>

=============================================================================
