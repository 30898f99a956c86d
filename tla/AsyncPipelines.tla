--------------------------- MODULE AsyncPipelines ---------------------------
(***************************************************************************)
(* Asynchronous creation of pipelines in the Vulkan replay                 *)
(* (framework/decode/vulkan_replay_consumer_base.cpp).  The main thread    *)
(* replays one call per block: it creates pipelines by tasks of the pool   *)
(* background_queue_, uses, names and destroys objects, and at the end     *)
(* joins the pool.  The main thread queue is a pool without threads that   *)
(* the main thread polls at every block; a task of the pool posts to it,   *)
(* before it returns, that its handles are no longer in use.               *)
(***************************************************************************)
EXTENDS ThreadPool, FiniteSets

CONSTANTS
  Dependencies,  (* shader modules, layouts and render passes                 *)
  Null,          (* the null handle id of a pipeline the captured call failed on *)
  Programs,      (* the creation calls of a capture: functions of the tasks   *)
  MaxBlocks      (* bound on the calls                                        *)

(* A creation call has the handles its create infos use and the ids of the   *)
(* pipelines it made.  Each object of a capture has an id of its own.        *)
Made(call) == Elements(call.pipelines) \ {Null}
ASSUME AsyncPipelinesAssumption ==
  /\ Tasks \subseteq Nat
  /\ \A capture \in Programs : \A t \in Tasks :
       /\ capture[t].uses \subseteq Dependencies
       /\ 1 \in DOMAIN capture[t].pipelines
       /\ Made(capture[t]) \cap Dependencies = {}
       /\ \A u \in Tasks \ {t} : Made(capture[t]) \cap Made(capture[u]) = {}
  /\ MaxBlocks \in Nat

VARIABLES
  program,       (* the creation calls of this capture                        *)
  main,          (* the call of the main thread and where it is               *)
  blocks,        (* the number of calls so far                                *)
  created,       (* the tasks posted                                          *)
  objects,       (* the entries of the object info table                      *)
  destroyed,     (* history: the objects destroyed                            *)
  async_tracked, (* async_task_ids of async_tracked_handles_                  *)
  sync_fns,      (* async_task_sync_fns_                                      *)
  name,          (* of each pipeline: "none", "deferred" or "set"             *)
  main_queue     (* the tasks whose handles are to be cleared                 *)

table_vars == <<objects, destroyed, name>>
track_vars == <<async_tracked, sync_fns>>
vars == <<pool_vars, program, main, blocks, created, table_vars, track_vars, main_queue>>

Pipelines(t) == Made(program[t])
AllPipelines == UNION {Pipelines(t) : t \in Tasks}
First(t) == program[t].pipelines[1]
Handles == Dependencies \cup AllPipelines
TaskOf(p) == CHOOSE t \in Tasks : p \in Pipelines(t)

Polling == main.pc \in {"poll", "drain", "last_poll"}
Idle == [pc |-> "idle", call |-> "none", handle |-> Null, sync |-> {}]

TypeOK ==
  /\ PoolTypeOK
  /\ program \in Programs
  /\ main \in [pc : {"idle", "poll", "create", "notify", "inline", "add", "use", "name", "destroy",
                     "sync", "drain", "destroy_now", "join_notify", "join", "last_poll", "done"},
               call : {"none", "create", "use", "name", "destroy"},
               handle : Handles \cup {Null}, sync : SUBSET Tasks]
  /\ blocks \in 0..MaxBlocks
  /\ created \subseteq Tasks
  /\ objects \subseteq Handles /\ destroyed \subseteq Handles /\ objects \cap destroyed = {}
  /\ async_tracked \in [Handles -> SUBSET Tasks] /\ sync_fns \subseteq Tasks
  /\ name \in [AllPipelines -> {"none", "deferred", "set"}]
  /\ main_queue \in Seq(Tasks) /\ Cardinality(Elements(main_queue)) = Len(main_queue)

Init ==
  /\ PoolInit
  /\ program \in Programs
  /\ main = Idle
  /\ blocks = 0 /\ created = {}
  /\ objects = Dependencies /\ destroyed = {}
  /\ async_tracked = [h \in Handles |-> {}] /\ sync_fns = {}
  /\ name = [p \in AllPipelines |-> "none"]
  /\ main_queue = <<>>

-----------------------------------------------------------------------------
At(pc) == main.pc = pc
Goto(pc) == main' = [main EXCEPT !.pc = pc]
NextTask == CHOOSE t \in Tasks \ created : \A u \in Tasks \ created : t <= u

(* The next call of the capture, which the captured application could make:  *)
(* it uses what exists.                                                      *)
StartBlock(call, handle) ==
  /\ At("idle") /\ blocks < MaxBlocks
  /\ IF call = "create"
       THEN handle = Null /\ created # Tasks /\ program[NextTask].uses \subseteq objects
       ELSE handle \in objects /\ (call \in {"use", "name"} => handle \in AllPipelines)
  /\ blocks' = blocks + 1
  /\ main' = [pc |-> "poll", call |-> call, handle |-> handle, sync |-> {}]
  /\ UNCHANGED <<pool_vars, program, created, table_vars, track_vars, main_queue>>

(* Mutant: deferred names are dropped. *)
PollTask_ForgetsNames ==
  /\ Polling /\ main_queue # <<>>
  /\ async_tracked' = [h \in Handles |-> async_tracked[h] \ {Head(main_queue)}]
  /\ sync_fns' = sync_fns \ {Head(main_queue)}
  /\ main_queue' = Tail(main_queue)
  /\ UNCHANGED <<pool_vars, program, main, blocks, created, table_vars>>

(* main_thread_queue_.poll() runs ClearAsyncHandles for each task.  The      *)
(* deferred name of a pipeline is set when no task uses it any more; looking *)
(* its handle up waits for the task to return.                               *)
PollTask ==
  /\ Polling /\ main_queue # <<>>
  /\ LET t == Head(main_queue)
         built == {p \in AllPipelines : async_tracked[p] = {t} /\ name[p] = "deferred"}
     IN /\ built # {} => future[t] = "ready"
        /\ async_tracked' = [h \in Handles |-> async_tracked[h] \ {t}]
        /\ sync_fns' = sync_fns \ {t}
        /\ name' = [p \in AllPipelines |-> IF p \in built THEN "set" ELSE name[p]]
  /\ main_queue' = Tail(main_queue)
  /\ UNCHANGED <<pool_vars, program, main, blocks, created, objects, destroyed>>

PollDone ==
  /\ Polling /\ main_queue = <<>>
  /\ Goto(CASE At("poll") -> main.call [] At("drain") -> "destroy_now" [] OTHER -> "done")
  /\ UNCHANGED <<pool_vars, program, blocks, created, table_vars, track_vars, main_queue>>

-----------------------------------------------------------------------------
(* Mutant: only the pipelines are tracked, not what they use. *)
TrackAndPost_PipelinesOnly ==
  /\ At("create")
  /\ LET t == NextTask
     IN /\ async_tracked' = [h \in Handles |-> async_tracked[h] \cup
             IF h \in Pipelines(t) THEN {t} ELSE {}]
        /\ sync_fns' = sync_fns \cup {t}
        /\ Push(t)
        /\ main' = [main EXCEPT !.pc = "notify", !.sync = {t}]
  /\ UNCHANGED <<program, blocks, created, table_vars, main_queue>>

(* AsyncCreateGraphicsPipelines: TrackAsyncHandles, and AddHandlesAsync.     *)
TrackAndPost ==
  /\ At("create")
  /\ LET t == NextTask
     IN /\ async_tracked' = [h \in Handles |-> async_tracked[h] \cup
             IF h \in program[t].uses \cup Pipelines(t) THEN {t} ELSE {}]
        /\ sync_fns' = sync_fns \cup {t}
        /\ Push(t)
        /\ main' = [main EXCEPT !.pc = "notify", !.sync = {t}]
  /\ UNCHANGED <<program, blocks, created, table_vars, main_queue>>

Notify ==
  /\ At("notify")
  /\ NotifyOne
  /\ Goto(IF threads = {} THEN "inline" ELSE "add")
  /\ UNCHANGED <<program, blocks, created, table_vars, track_vars, main_queue>>

(* Without workers the task has run, and posted, before the call goes on.    *)
RunInline ==
  /\ At("inline")
  /\ PollInline
  /\ main_queue' = main_queue \o queue
  /\ Goto("add")
  /\ UNCHANGED <<program, blocks, created, table_vars, track_vars>>

AddHandleArrayAsync ==
  /\ At("add")
  /\ \E t \in main.sync : created' = created \cup {t} /\ objects' = objects \cup Pipelines(t)
  /\ main' = Idle
  /\ UNCHANGED <<pool_vars, program, blocks, destroyed, name, track_vars, main_queue>>

(* A task uses its handles, then posts that it has.                          *)
PostClear(w) ==
  /\ w \in threads /\ worker[w].pc = "run"
  /\ ~Polling
  /\ main_queue' = Append(main_queue, worker[w].task)
  /\ worker' = [worker EXCEPT ![w].pc = "return"]
  /\ UNCHANGED <<threads, running, queue, future, program, main, blocks, created, table_vars, track_vars>>

-----------------------------------------------------------------------------
(* sync_handle: an entry of the table waits for its task.  A dropped task is *)
(* an exception, which it catches.                                           *)
Synced(t) == future[t] \in {"ready", "broken"}
LookedUp(h) == h \in AllPipelines => Synced(TaskOf(h))

Use ==
  /\ At("use") /\ LookedUp(main.handle)
  /\ main' = Idle
  /\ UNCHANGED <<pool_vars, program, blocks, created, table_vars, track_vars, main_queue>>

(* OverrideSetDebugUtilsObjectNameEXT.                                       *)
Name ==
  /\ At("name")
  /\ IF async_tracked[main.handle] # {}
       THEN name' = [name EXCEPT ![main.handle] = "deferred"]
       ELSE LookedUp(main.handle) /\ name' = [name EXCEPT ![main.handle] = "set"]
  /\ main' = Idle
  /\ UNCHANGED <<pool_vars, program, blocks, created, objects, destroyed, track_vars, main_queue>>

(* DestroyTrackedHandle; DestroyAsyncHandle syncs the tasks that use the     *)
(* handle, through the first pipeline of each, and drains the main queue.    *)
Destroy ==
  /\ At("destroy") /\ LookedUp(main.handle)
  /\ main' = [main EXCEPT !.pc = IF async_tracked[main.handle] = {} THEN "destroy_now" ELSE "sync",
                          !.sync = async_tracked[main.handle]]
  /\ UNCHANGED <<pool_vars, program, blocks, created, table_vars, track_vars, main_queue>>

SyncTask(t) ==
  /\ At("sync") /\ t \in main.sync
  /\ t \in sync_fns /\ First(t) \in objects => Synced(t)
  /\ main' = [main EXCEPT !.sync = @ \ {t}]
  /\ UNCHANGED <<pool_vars, program, blocks, created, table_vars, track_vars, main_queue>>

SyncDone ==
  /\ At("sync") /\ main.sync = {}
  /\ Goto("drain")
  /\ UNCHANGED <<pool_vars, program, blocks, created, table_vars, track_vars, main_queue>>

DestroyNow ==
  /\ At("destroy_now")
  /\ objects' = objects \ {main.handle}
  /\ destroyed' = destroyed \cup {main.handle}
  /\ main' = Idle
  /\ UNCHANGED <<pool_vars, program, blocks, created, name, track_vars, main_queue>>

-----------------------------------------------------------------------------
(* ~VulkanReplayConsumerBase: join_all, then a last poll.                    *)
StopReplay ==
  /\ At("idle")
  /\ Stop
  /\ Goto("join_notify")
  /\ UNCHANGED <<program, blocks, created, table_vars, track_vars, main_queue>>

JoinNotify ==
  /\ At("join_notify")
  /\ NotifyAll
  /\ Goto("join")
  /\ UNCHANGED <<program, blocks, created, table_vars, track_vars, main_queue>>

JoinAll ==
  /\ At("join")
  /\ Join
  /\ Goto("last_poll")
  /\ UNCHANGED <<program, blocks, created, table_vars, track_vars, main_queue>>

-----------------------------------------------------------------------------
Client == <<program, main, blocks, created, table_vars, track_vars, main_queue>>

WorkerStep(w) ==
  \/ (Check(w) \/ Return(w)) /\ UNCHANGED Client
  \/ PostClear(w)

MainStep ==
  \/ PollTask
  \/ PollDone
  \/ TrackAndPost
  \/ Notify
  \/ RunInline
  \/ AddHandleArrayAsync
  \/ Use
  \/ Name
  \/ Destroy
  \/ \E t \in Tasks : SyncTask(t)
  \/ SyncDone
  \/ DestroyNow
  \/ JoinNotify
  \/ JoinAll

Next ==
  \/ MainStep
  \/ \E call \in {"create", "use", "name", "destroy"}, h \in Handles \cup {Null} : StartBlock(call, h)
  \/ StopReplay
  \/ \E w \in Workers : WorkerStep(w)
  \/ \E w \in Workers : SpuriousWakeup(w) /\ UNCHANGED Client

Spec == Init /\ [][Next]_vars
FairSpec == Spec /\ WF_vars(MainStep) /\ \A w \in Workers : WF_vars(WorkerStep(w))

-----------------------------------------------------------------------------
(* No object is destroyed that a task waiting in the queue or running still  *)
(* uses: the captured application could destroy it right after the creation  *)
(* call, replay has to wait for the task.                                    *)
InUse(t) == t \in Elements(queue) \/ \E w \in threads : worker[w].pc = "run" /\ worker[w].task = t
NothingInUseIsDestroyed ==
  \A t \in Tasks : InUse(t) => program[t].uses \cap destroyed = {}

(* A name given to a pipeline while its task is underway is set before the   *)
(* pipeline is destroyed.                                                    *)
NamesAreSet == \A p \in AllPipelines \cap destroyed : name[p] # "deferred"

(* The main thread never waits for ever: not for a task (no notification is  *)
(* lost, and no worker waits for the main queue that the main thread is      *)
(* polling), not for the workers when it joins them.                         *)
CallsReturn == main.pc # "idle" ~> main.pc \in {"idle", "done"}

(* Every task posted comes to an end without further calls: it runs, or it   *)
(* is dropped when the pool is stopped.                                      *)
TasksEnd ==
  \A t \in Tasks : future[t] = "pending" ~> future[t] \in {"ready", "broken"}

=============================================================================
