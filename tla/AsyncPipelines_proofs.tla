----------------------- MODULE AsyncPipelines_proofs -----------------------
(***************************************************************************)
(* Proofs about AsyncPipelines: for any tasks, workers, captures and       *)
(* sequences of calls, no task is left behind by the tracking of handles   *)
(* until it has given up what it uses, so that waiting for the tasks that  *)
(* are tracked is enough to destroy an object.                             *)
(***************************************************************************)
EXTENDS AsyncPipelines, FiniteSetTheorems, SequenceTheorems, WellFoundedInduction, TLAPS

-----------------------------------------------------------------------------
(* Queues as sets: what is in a sequence without repetitions.                *)
Distinct(s) == \A i, j \in DOMAIN s : s[i] = s[j] => i = j

LEMMA ElementsEmpty == Elements(<<>>) = {} /\ Distinct(<<>>)
  BY DEF Elements, Distinct

LEMMA AppendElements ==
  ASSUME NEW S, NEW s \in Seq(S), NEW x \in S
  PROVE  /\ Append(s, x) \in Seq(S)
         /\ Elements(Append(s, x)) = Elements(s) \cup {x}
         /\ Distinct(s) /\ x \notin Elements(s) => Distinct(Append(s, x))
<1>1. /\ Append(s, x) \in Seq(S) /\ DOMAIN Append(s, x) = 1..(Len(s) + 1)
      /\ Len(s) \in Nat /\ DOMAIN s = 1..Len(s)
  OBVIOUS
<1>2. \A i \in 1..(Len(s) + 1) : Append(s, x)[i] = IF i <= Len(s) THEN s[i] ELSE x
  OBVIOUS
<1>3. Elements(Append(s, x)) = Elements(s) \cup {x}
  <2>1. \A y \in Elements(Append(s, x)) : y \in Elements(s) \cup {x}
    BY <1>1, <1>2 DEF Elements
  <2>2. \A y \in Elements(s) : y \in Elements(Append(s, x))
    <3>1. TAKE y \in Elements(s)
    <3>2. PICK i \in 1..Len(s) : y = s[i]
      BY <1>1 DEF Elements
    <3>3. i \in 1..(Len(s) + 1) /\ Append(s, x)[i] = y
      BY <1>1, <1>2, <3>2
    <3> QED BY <1>1, <3>3 DEF Elements
  <2>3. x \in Elements(Append(s, x))
    <3>1. Len(s) + 1 \in DOMAIN Append(s, x) /\ Append(s, x)[Len(s) + 1] = x
      BY <1>1, <1>2
    <3> QED BY <3>1 DEF Elements
  <2> QED BY <2>1, <2>2, <2>3
<1>4. Distinct(s) /\ x \notin Elements(s) => Distinct(Append(s, x))
  BY <1>1, <1>2 DEF Distinct, Elements
<1> QED BY <1>1, <1>3, <1>4

LEMMA TailElements ==
  ASSUME NEW S, NEW s \in Seq(S), s # <<>>
  PROVE  /\ Head(s) \in S /\ Tail(s) \in Seq(S)
         /\ Elements(s) = Elements(Tail(s)) \cup {Head(s)}
         /\ Distinct(s) => Distinct(Tail(s)) /\ Head(s) \notin Elements(Tail(s))
<1>1. /\ Head(s) = s[1] /\ Tail(s) \in Seq(S) /\ Len(s) \in Nat \ {0}
      /\ Len(Tail(s)) = Len(s) - 1 /\ Head(s) \in S
      /\ DOMAIN s = 1..Len(s) /\ DOMAIN Tail(s) = 1..(Len(s) - 1)
  BY HeadTailProperties, EmptySeq
<1>2. \A i \in 1..(Len(s) - 1) : Tail(s)[i] = s[i + 1]
  BY <1>1, HeadTailProperties
<1>3. Elements(s) = Elements(Tail(s)) \cup {Head(s)}
  <2>1. \A x \in Elements(Tail(s)) : x \in Elements(s)
    BY <1>1, <1>2 DEF Elements
  <2>2. Head(s) \in Elements(s)
    BY <1>1 DEF Elements
  <2>3. \A x \in Elements(s) : x = Head(s) \/ x \in Elements(Tail(s))
    <3>1. TAKE x \in Elements(s)
    <3>2. PICK i \in 1..Len(s) : x = s[i]
      BY <1>1 DEF Elements
    <3>3. CASE i = 1
      BY <1>1, <3>2, <3>3
    <3>4. CASE i # 1
      <4>1. i - 1 \in 1..(Len(s) - 1) /\ Tail(s)[i - 1] = x
        BY <1>1, <1>2, <3>2, <3>4
      <4> QED BY <1>1, <4>1 DEF Elements
    <3> QED BY <3>3, <3>4
  <2> QED BY <2>1, <2>2, <2>3
<1>4. ASSUME Distinct(s)
      PROVE  Distinct(Tail(s)) /\ Head(s) \notin Elements(Tail(s))
  <2>1. \A i, j \in 1..Len(s) : s[i] = s[j] => i = j
    BY <1>1, <1>4 DEF Distinct
  <2>2. \A i \in 1..(Len(s) - 1) : i + 1 \in 1..Len(s) /\ i + 1 # 1
    BY <1>1
  <2>3. Distinct(Tail(s))
    BY <1>1, <1>2, <2>1, <2>2 DEF Distinct
  <2>4. Head(s) \notin Elements(Tail(s))
    BY <1>1, <1>2, <2>1, <2>2 DEF Elements
  <2> QED BY <2>3, <2>4
<1> QED BY <1>1, <1>3, <1>4

LEMMA ConcatElements ==
  ASSUME NEW S, NEW r \in Seq(S), NEW s \in Seq(S)
  PROVE  /\ r \o s \in Seq(S)
         /\ Elements(r \o s) = Elements(r) \cup Elements(s)
         /\ Distinct(r) /\ Distinct(s) /\ Elements(r) \cap Elements(s) = {} => Distinct(r \o s)
<1>1. /\ r \o s \in Seq(S) /\ Len(r) \in Nat /\ Len(s) \in Nat
      /\ DOMAIN r = 1..Len(r) /\ DOMAIN s = 1..Len(s)
      /\ DOMAIN (r \o s) = 1..(Len(r) + Len(s))
  OBVIOUS
<1>2. \A i \in 1..(Len(r) + Len(s)) : (r \o s)[i] = IF i <= Len(r) THEN r[i] ELSE s[i - Len(r)]
  BY ConcatProperties
<1>3. \A i \in 1..(Len(r) + Len(s)) : \/ i <= Len(r) /\ i \in 1..Len(r)
                                      \/ ~(i <= Len(r)) /\ i - Len(r) \in 1..Len(s)
  <2>1. \A a, b \in Nat : \A i \in 1..(a + b) : (i <= a /\ i \in 1..a) \/ (~(i <= a) /\ i - a \in 1..b)
    OBVIOUS
  <2> QED BY <1>1, <2>1
<1>4. Elements(r \o s) = Elements(r) \cup Elements(s)
  <2>1. \A x \in Elements(r \o s) : x \in Elements(r) \cup Elements(s)
    BY <1>1, <1>2, <1>3 DEF Elements
  <2>2. \A x \in Elements(r) : x \in Elements(r \o s)
    <3>1. TAKE x \in Elements(r)
    <3>2. PICK i \in 1..Len(r) : x = r[i]
      BY <1>1 DEF Elements
    <3>3. i \in 1..(Len(r) + Len(s)) /\ (r \o s)[i] = x
      BY <1>1, <1>2, <3>2
    <3> QED BY <1>1, <3>3 DEF Elements
  <2>3. \A x \in Elements(s) : x \in Elements(r \o s)
    <3>1. TAKE x \in Elements(s)
    <3>2. PICK i \in 1..Len(s) : x = s[i]
      BY <1>1 DEF Elements
    <3>3. /\ i + Len(r) \in 1..(Len(r) + Len(s)) /\ ~(i + Len(r) <= Len(r))
          /\ (i + Len(r)) - Len(r) = i
      BY <1>1
    <3> QED BY <1>1, <1>2, <3>2, <3>3 DEF Elements
  <2> QED BY <2>1, <2>2, <2>3
<1>5. ASSUME Distinct(r), Distinct(s), Elements(r) \cap Elements(s) = {}
      PROVE  Distinct(r \o s)
  <2>1. \A i \in 1..Len(r), j \in 1..Len(s) : r[i] # s[j]
    BY <1>1, <1>5 DEF Elements
  <2>2. ASSUME NEW i \in 1..(Len(r) + Len(s)), NEW j \in 1..(Len(r) + Len(s)),
               (r \o s)[i] = (r \o s)[j]
        PROVE  i = j
    <3>1. CASE i <= Len(r) /\ j <= Len(r)
      BY <1>1, <1>2, <1>3, <1>5, <2>2, <3>1 DEF Distinct
    <3>2. CASE ~(i <= Len(r)) /\ ~(j <= Len(r))
      <4>1. i - Len(r) = j - Len(r)
        BY <1>1, <1>2, <1>3, <1>5, <2>2, <3>2 DEF Distinct
      <4> QED BY <1>1, <4>1
    <3>3. CASE i <= Len(r) /\ ~(j <= Len(r))
      BY <1>2, <1>3, <2>1, <2>2, <3>3
    <3>4. CASE ~(i <= Len(r)) /\ j <= Len(r)
      BY <1>2, <1>3, <2>1, <2>2, <3>4
    <3> QED BY <3>1, <3>2, <3>3, <3>4
  <2> QED BY <1>1, <2>2 DEF Distinct
<1> QED BY <1>1, <1>4, <1>5

LEMMA DistinctCardinality ==
  ASSUME NEW S, NEW s \in Seq(S), Distinct(s)
  PROVE  Cardinality(Elements(s)) = Len(s)
<1>1. Len(s) \in Nat /\ DOMAIN s = 1..Len(s) /\ s \in [1..Len(s) -> S]
  BY LenProperties
<1>2. IsFiniteSet(1..Len(s)) /\ Cardinality(1..Len(s)) = Len(s)
  <2>1. Len(s) \in Int /\ 1 \in Int
    BY <1>1
  <2> QED BY <1>1, <2>1, FS_Interval
<1>3. s \in Bijection(1..Len(s), Elements(s))
  BY <1>1 DEF Bijection, Injection, Surjection, IsInjective, Elements, Distinct
<1> QED BY <1>2, <1>3, FS_Bijection DEF ExistsBijection

(* The elements of a sequence are in its range.                              *)
LEMMA ElementsInRange ==
  ASSUME NEW S, NEW s \in Seq(S)
  PROVE  Elements(s) \subseteq S
  BY LenProperties DEF Elements

(* Ids of tasks are numbers, so that there is a next one.                    *)
LEMMA NextTaskExists ==
  ASSUME created \subseteq Tasks, created # Tasks
  PROVE  NextTask \in Tasks \ created
<1>1. Tasks \ created \subseteq Nat /\ Tasks \ created # {}
  BY AsyncPipelinesAssumption
<1>2. PICK least \in {0..t : t \in Tasks \ created} :
        \A other \in {0..t : t \in Tasks \ created} : ~ (<<other, least>> \in StrictSubsetOrdering(Nat))
  <2>1. {0..t : t \in Tasks \ created} \subseteq FiniteSubsetsOf(Nat)
    <3>1. \A t \in Tasks \ created : IsFiniteSet(0..t) /\ 0..t \subseteq Nat
      BY <1>1, FS_Interval
    <3> QED BY <3>1 DEF FiniteSubsetsOf
  <2>2. {0..t : t \in Tasks \ created} # {}
    BY <1>1
  <2> QED BY <2>1, <2>2, FS_StrictSubsetOrderingWellFounded, WFMin
<1>3. \A t, u \in Nat : ~ (<<0..u, 0..t>> \in StrictSubsetOrdering(Nat)) => t <= u
  <2>1. \A t, u \in Nat : u < t => 0..u \in SUBSET Nat /\ 0..t \in SUBSET Nat /\ 0..u \subseteq 0..t
                                   /\ t \in 0..t /\ t \notin 0..u
    OBVIOUS
  <2>2. \A t, u \in Nat : u < t => <<0..u, 0..t>> \in StrictSubsetOrdering(Nat)
    BY <2>1 DEF StrictSubsetOrdering
  <2> QED BY <2>2
<1>4. \E t \in Tasks \ created : \A u \in Tasks \ created : t <= u
  BY <1>1, <1>2, <1>3
<1> QED BY <1>4 DEF NextTask

-----------------------------------------------------------------------------
(* The invariant.                                                            *)

(* The tasks that have been posted: the last one is added to the table only  *)
(* after it.                                                                 *)
Adding == main.pc \in {"notify", "inline", "add"}
Posted == created \cup IF Adding THEN main.sync ELSE {}

(* A task is in one place of the pool, and its future is pending while it is *)
(* there.                                                                    *)
Busy(w) == w \in threads /\ worker[w].pc \in {"run", "return"}
PoolInv ==
  /\ Distinct(queue)
  /\ \A t \in Elements(queue) : future[t] = "pending"
  /\ \A w \in Workers : Busy(w) => /\ worker[w].task \in Tasks
                                   /\ future[worker[w].task] = "pending"
                                   /\ worker[w].task \notin Elements(queue)
  /\ \A v, w \in Workers : Busy(v) /\ Busy(w) /\ worker[v].task = worker[w].task => v = w

(* What has not been posted is nowhere; what is to be cleared is not in use. *)
PostedInv ==
  /\ \A t \in Tasks \ Posted : future[t] = "none" /\ \A h \in Handles : t \notin async_tracked[h]
  /\ Distinct(main_queue)
  /\ \A t \in Elements(main_queue) : t \in Posted /\ ~InUse(t)

(* Where the main thread is in a call.                                       *)
HasHandle ==
  \/ main.pc = "poll" /\ main.call # "create"
  \/ main.pc \in {"use", "name", "destroy", "sync", "drain", "destroy_now"}
CallInv ==
  /\ main.pc = "poll" => main.call # "none"
  /\ (main.pc = "poll" /\ main.call = "create") \/ main.pc = "create" =>
       created # Tasks /\ program[NextTask].uses \subseteq objects
  /\ Adding => \E t \in Tasks \ created : main.sync = {t} /\ program[t].uses \subseteq objects
  /\ HasHandle => main.handle \in objects
  /\ (main.pc = "poll" /\ main.call \in {"use", "name"}) \/ main.pc \in {"use", "name"} =>
       main.handle \in AllPipelines
  /\ \A t \in Tasks \ created : Pipelines(t) \cap (objects \cup destroyed) = {}

IInv == TypeOK /\ PoolInv /\ PostedInv /\ CallInv

(* The handles a task uses are tracked until it has posted that it is done,  *)
(* and the task can be waited for.                                           *)
Stopping == main.pc \in {"join_notify", "join", "last_poll", "done"}
TrackInv ==
  /\ \A t \in Tasks : InUse(t) => \A h \in program[t].uses : t \in async_tracked[h]
  /\ \A h \in Handles : \A t \in async_tracked[h] : t \in sync_fns
  /\ ~Stopping => \A h \in Handles : \A t \in async_tracked[h] : InUse(t) \/ t \in Elements(main_queue)
  /\ \A t \in created : First(t) \in objects \/ Synced(t)

(* What DestroyAsyncHandle knows: of the tasks that use the handle, those    *)
(* that it has still to wait for, then that they have returned, then that    *)
(* there are none, which it asserts.                                         *)
DestroyInv ==
  /\ main.pc \in {"sync", "drain", "destroy_now"} => LookedUp(main.handle)
  /\ main.pc = "sync" => \A t \in async_tracked[main.handle] \ main.sync : Synced(t)
  /\ main.pc = "drain" => \A t \in async_tracked[main.handle] : Synced(t)
  /\ main.pc = "destroy_now" => async_tracked[main.handle] = {}

(* A deferred name has a task that will set it.                              *)
DeferredInv == \A p \in AllPipelines : name[p] = "deferred" => async_tracked[p] # {}

UseInv == TrackInv /\ DestroyInv /\ DeferredInv /\ NothingInUseIsDestroyed /\ NamesAreSet

(* The hypothesis of the theorems about destruction: the first pipeline of   *)
(* each call was made, since a task is waited for through it (sync_fn).      *)
FirstPipelineIsMade == \A capture \in Programs : \A t \in Tasks : capture[t].pipelines[1] # Null

-----------------------------------------------------------------------------
(* The pool's steps: what they do to types, to the places of the tasks, and  *)
(* to the tasks in use.                                                      *)
WakesUp ==
  /\ \A w \in Workers : \/ worker'[w] = worker[w]
                        \/ worker[w].pc = "waiting" /\ worker'[w] = [worker[w] EXCEPT !.pc = "check"]
  /\ UNCHANGED <<threads, running, queue, future>>

LEMMA WakeupSteps ==
  ASSUME PoolTypeOK,
         NotifyOne \/ NotifyAll \/ \E w \in Workers : SpuriousWakeup(w)
  PROVE  PoolTypeOK' /\ WakesUp
<1>1. threads \subseteq Workers
  BY DEF PoolTypeOK
<1>2. CASE NotifyOne
  <2>1. CASE Waiting = {}
    BY <1>2, <2>1 DEF NotifyOne, PoolTypeOK, WakesUp
  <2>2. CASE Waiting # {}
    <3>1. PICK w \in Waiting : worker' = [worker EXCEPT ![w].pc = "check"]
      BY <1>2, <2>2 DEF NotifyOne
    <3>2. w \in Workers /\ worker[w].pc = "waiting"
      BY <1>1, <3>1 DEF Waiting
    <3> QED BY <1>2, <3>1, <3>2 DEF NotifyOne, PoolTypeOK, WakesUp
  <2> QED BY <2>1, <2>2
<1>3. CASE NotifyAll
  <2>1. \A w \in Workers : worker'[w] = IF w \in Waiting THEN [worker[w] EXCEPT !.pc = "check"] ELSE worker[w]
    BY <1>3 DEF NotifyAll
  <2>2. PoolTypeOK'
    BY <1>3 DEF NotifyAll, PoolTypeOK
  <2> QED BY <1>3, <2>1, <2>2 DEF NotifyAll, WakesUp, Waiting
<1>4. ASSUME NEW w \in Workers, SpuriousWakeup(w)
      PROVE  PoolTypeOK' /\ WakesUp
  BY <1>4 DEF SpuriousWakeup, PoolTypeOK, WakesUp, Waiting
<1> QED BY <1>2, <1>3, <1>4

LEMMA WakeupKeeps ==
  ASSUME PoolTypeOK, WakesUp
  PROVE  /\ \A w \in Workers : (Busy(w)' <=> Busy(w)) /\ (Busy(w) => worker'[w] = worker[w])
         /\ \A t \in Tasks : InUse(t)' <=> InUse(t)
<1>1. threads \subseteq Workers /\ threads' = threads /\ queue' = queue
  BY DEF PoolTypeOK, WakesUp
<1>2. \A w \in Workers : /\ worker'[w].pc \in {"run", "return"} <=> worker[w].pc \in {"run", "return"}
                         /\ worker[w].pc \in {"run", "return"} => worker'[w] = worker[w]
  BY DEF PoolTypeOK, WakesUp
<1>3. \A w \in Workers : (Busy(w)' <=> Busy(w)) /\ (Busy(w) => worker'[w] = worker[w])
  BY <1>1, <1>2 DEF Busy
<1>4. \A t \in Tasks : \A w \in threads :
        worker'[w].pc = "run" /\ worker'[w].task = t <=> worker[w].pc = "run" /\ worker[w].task = t
  BY <1>1 DEF PoolTypeOK, WakesUp
<1> QED BY <1>1, <1>3, <1>4 DEF InUse

LEMMA CheckStep ==
  ASSUME PoolTypeOK, PoolInv, NEW w \in Workers, Check(w)
  PROVE  /\ PoolTypeOK' /\ PoolInv'
         /\ \A t \in Tasks : InUse(t)' <=> InUse(t)
         /\ future' = future
<1>1. /\ w \in threads /\ worker[w].pc = "check" /\ threads \subseteq Workers
      /\ UNCHANGED <<threads, running, future>> /\ queue \in Seq(Tasks)
      /\ worker \in [Workers -> [pc : {"check", "waiting", "run", "return", "exited"},
                                 task : Tasks \cup {NoTask}]]
  BY DEF Check, PoolTypeOK
<1>2. CASE queue # <<>>
  <2>1. /\ worker' = [worker EXCEPT ![w] = [pc |-> "run", task |-> Head(queue)]]
        /\ queue' = Tail(queue)
    BY <1>2 DEF Check
  <2>2. /\ Head(queue) \in Tasks /\ queue' \in Seq(Tasks)
        /\ Elements(queue) = Elements(queue') \cup {Head(queue)}
        /\ Distinct(queue') /\ Head(queue) \notin Elements(queue')
    BY <1>1, <1>2, <2>1, TailElements DEF PoolInv
  <2>3. PoolTypeOK'
    BY <1>1, <2>1, <2>2 DEF PoolTypeOK
  <2>4. \A v \in Workers : v # w => worker'[v] = worker[v]
    BY <1>1, <2>1
  <2>5. worker'[w].pc = "run" /\ worker'[w].task = Head(queue)
    BY <1>1, <2>1
  <2>6. \A v \in Workers : Busy(v)' <=> Busy(v) \/ v = w
    BY <1>1, <2>4, <2>5 DEF Busy
  <2>7. PoolInv'
    BY <1>1, <2>2, <2>4, <2>5, <2>6 DEF PoolInv
  <2>8. \A t \in Tasks : InUse(t)' <=> InUse(t)
    BY <1>1, <2>2, <2>4, <2>5 DEF InUse
  <2> QED BY <1>1, <2>3, <2>7, <2>8
<1>3. CASE queue = <<>>
  <2>1. /\ worker' = [worker EXCEPT ![w].pc = IF running THEN "waiting" ELSE "exited"]
        /\ queue' = queue
    BY <1>3 DEF Check
  <2>2. PoolTypeOK'
    BY <1>1, <2>1 DEF PoolTypeOK
  <2>3. \A v \in Workers : v # w => worker'[v] = worker[v]
    BY <1>1, <2>1
  <2>4. worker'[w].pc \notin {"run", "return"}
    BY <1>1, <2>1
  <2>5. \A v \in Workers : Busy(v)' <=> Busy(v)
    BY <1>1, <2>3, <2>4 DEF Busy
  <2>6. PoolInv'
    BY <1>1, <2>1, <2>3, <2>4, <2>5 DEF PoolInv, Busy
  <2>7. \A t \in Tasks : InUse(t)' <=> InUse(t)
    BY <1>1, <2>1, <2>3, <2>4 DEF InUse
  <2> QED BY <1>1, <2>2, <2>6, <2>7
<1> QED BY <1>2, <1>3

LEMMA ReturnStep ==
  ASSUME PoolTypeOK, PoolInv, NEW w \in Workers, Return(w)
  PROVE  /\ PoolTypeOK' /\ PoolInv'
         /\ \A t \in Tasks : InUse(t)' <=> InUse(t)
         /\ worker[w].task \in Tasks
         /\ future' = [future EXCEPT ![worker[w].task] = "ready"]
<1>1. /\ w \in threads /\ worker[w].pc = "return" /\ threads \subseteq Workers
      /\ UNCHANGED <<threads, running, queue>> /\ queue \in Seq(Tasks)
      /\ worker \in [Workers -> [pc : {"check", "waiting", "run", "return", "exited"},
                                 task : Tasks \cup {NoTask}]]
      /\ worker' = [worker EXCEPT ![w] = [pc |-> "check", task |-> NoTask]]
      /\ future' = [future EXCEPT ![worker[w].task] = "ready"]
  BY DEF Return, PoolTypeOK
<1>2. Busy(w) /\ worker[w].task \in Tasks /\ worker[w].task \notin Elements(queue)
  BY <1>1 DEF Busy, PoolInv
<1>3. PoolTypeOK'
  BY <1>1, <1>2 DEF PoolTypeOK
<1>4. \A v \in Workers : v # w => worker'[v] = worker[v]
  BY <1>1
<1>5. worker'[w].pc = "check"
  BY <1>1
<1>6. \A v \in Workers : Busy(v)' <=> Busy(v) /\ v # w
  BY <1>1, <1>4, <1>5 DEF Busy
<1>7. \A v \in Workers : Busy(v) /\ v # w => worker[v].task # worker[w].task
  BY <1>2 DEF PoolInv
<1>8. \A t \in Tasks : t # worker[w].task => future'[t] = future[t]
  BY <1>1, <1>2 DEF PoolTypeOK
<1>9. PoolInv'
  <2>1. \A t \in Elements(queue) : t \in Tasks
    BY <1>1, ElementsInRange
  <2> QED BY <1>1, <1>2, <1>4, <1>6, <1>7, <1>8, <2>1 DEF PoolInv
<1>10. \A t \in Tasks : InUse(t)' <=> InUse(t)
  BY <1>1, <1>4, <1>5 DEF InUse
<1> QED BY <1>1, <1>2, <1>3, <1>9, <1>10

(* The task posts: it is not in use any more, and not returned yet.          *)
LEMMA PostClearStep ==
  ASSUME PoolTypeOK, PoolInv, NEW w \in Workers, PostClear(w)
  PROVE  /\ PoolTypeOK' /\ PoolInv'
         /\ worker[w].task \in Tasks /\ InUse(worker[w].task)
         /\ \A t \in Tasks : InUse(t)' <=> InUse(t) /\ t # worker[w].task
         /\ future' = future
<1>1. /\ w \in threads /\ worker[w].pc = "run" /\ threads \subseteq Workers
      /\ UNCHANGED <<threads, running, queue, future>> /\ queue \in Seq(Tasks)
      /\ worker \in [Workers -> [pc : {"check", "waiting", "run", "return", "exited"},
                                 task : Tasks \cup {NoTask}]]
      /\ worker' = [worker EXCEPT ![w].pc = "return"]
  BY DEF PostClear, PoolTypeOK
<1>2. Busy(w) /\ worker[w].task \in Tasks /\ worker[w].task \notin Elements(queue)
  BY <1>1 DEF Busy, PoolInv
<1>3. PoolTypeOK'
  BY <1>1 DEF PoolTypeOK
<1>4. \A v \in Workers : v # w => worker'[v] = worker[v]
  BY <1>1
<1>5. worker'[w].pc = "return" /\ worker'[w].task = worker[w].task
  BY <1>1
<1>6. \A v \in Workers : Busy(v)' <=> Busy(v)
  BY <1>1, <1>4, <1>5 DEF Busy
<1>7. \A v \in Workers : worker'[v].task = worker[v].task
  BY <1>4, <1>5
<1>8. PoolInv'
  BY <1>1, <1>6, <1>7 DEF PoolInv
<1>9. \A t \in Tasks : InUse(t)' <=> InUse(t) /\ t # worker[w].task
  <2>1. \A v \in threads : v \in Workers /\ (v # w /\ worker[v].pc = "run" => worker[v].task # worker[w].task)
    BY <1>1, <1>2 DEF PoolInv, Busy
  <2> QED BY <1>1, <1>2, <1>4, <1>5, <2>1 DEF InUse
<1>10. InUse(worker[w].task)
  BY <1>1 DEF InUse
<1> QED BY <1>1, <1>2, <1>3, <1>8, <1>9, <1>10

(* A task that is posted was nowhere before.                                 *)
LEMMA PushStep ==
  ASSUME PoolTypeOK, PoolInv, NEW t \in Tasks, future[t] = "none", Push(t)
  PROVE  /\ PoolTypeOK' /\ PoolInv'
         /\ \A u \in Tasks : InUse(u)' <=> InUse(u) \/ u = t
         /\ future' = [future EXCEPT ![t] = "pending"]
<1>1. /\ queue \in Seq(Tasks) /\ future \in [Tasks -> {"none", "pending", "ready", "broken"}]
      /\ queue' = Append(queue, t) /\ future' = [future EXCEPT ![t] = "pending"]
      /\ UNCHANGED <<threads, running, worker>>
  BY DEF Push, PoolTypeOK
<1>2. t \notin Elements(queue) /\ \A w \in Workers : Busy(w) => worker[w].task # t
  BY DEF PoolInv
<1>3. /\ queue' \in Seq(Tasks) /\ Elements(queue') = Elements(queue) \cup {t}
      /\ Distinct(queue')
  BY <1>1, <1>2, AppendElements DEF PoolInv
<1>4. PoolTypeOK'
  BY <1>1, <1>3 DEF PoolTypeOK
<1>5. future'[t] = "pending" /\ \A u \in Tasks : u # t => future'[u] = future[u]
  BY <1>1
<1>6. \A w \in Workers : Busy(w)' <=> Busy(w)
  BY <1>1 DEF Busy
<1>7. PoolInv'
  <2>1. \A u \in Elements(queue) : u \in Tasks
    BY <1>1, ElementsInRange
  <2> QED BY <1>1, <1>2, <1>3, <1>5, <1>6, <2>1 DEF PoolInv
<1>8. \A u \in Tasks : InUse(u)' <=> InUse(u) \/ u = t
  BY <1>1, <1>3 DEF InUse
<1> QED BY <1>1, <1>4, <1>7, <1>8

(* All queued tasks are run, or dropped.                                     *)
LEMMA EmptyStep ==
  ASSUME PoolTypeOK, PoolInv, PollInline \/ Stop
  PROVE  /\ PoolTypeOK' /\ PoolInv'
         /\ \A t \in Tasks : InUse(t)' => InUse(t)
         /\ \A t \in Tasks : t \notin Elements(queue) => future'[t] = future[t]
         /\ \A t \in Tasks : t \in Elements(queue) => future'[t] \in {"ready", "broken"}
         /\ PollInline => \A t \in Tasks : ~InUse(t)' /\ (InUse(t) => t \in Elements(queue))
<1>1. /\ queue' = <<>> /\ UNCHANGED <<threads, worker>>
      /\ running' \in BOOLEAN /\ (PollInline => threads = {})
      /\ \A t \in Tasks : t \notin Elements(queue) => future'[t] = future[t]
      /\ \A t \in Tasks : t \in Elements(queue) => future'[t] \in {"ready", "broken"}
  BY DEF PollInline, Stop, PoolTypeOK
<1>2. future' \in [Tasks -> {"none", "pending", "ready", "broken"}]
  BY DEF PollInline, Stop, PoolTypeOK
<1>3. PoolTypeOK'
  BY <1>1, <1>2 DEF PoolTypeOK
<1>4. \A w \in Workers : Busy(w)' <=> Busy(w)
  BY <1>1 DEF Busy
<1>5. PoolInv'
  BY <1>1, <1>4, ElementsEmpty DEF PoolInv
<1>6. \A t \in Tasks : InUse(t)' => InUse(t)
  BY <1>1, ElementsEmpty DEF InUse
<1>7. PollInline => \A t \in Tasks : ~InUse(t)' /\ (InUse(t) => t \in Elements(queue))
  BY <1>1, ElementsEmpty DEF InUse
<1> QED BY <1>1, <1>3, <1>5, <1>6, <1>7

LEMMA JoinStep ==
  ASSUME PoolTypeOK, PoolInv, Join
  PROVE  /\ PoolTypeOK' /\ PoolInv'
         /\ \A t \in Tasks : InUse(t)' => InUse(t)
         /\ future' = future
<1>1. threads' = {} /\ UNCHANGED <<running, queue, worker, future>>
  BY DEF Join
<1>2. PoolTypeOK'
  BY <1>1 DEF PoolTypeOK
<1>3. PoolInv'
  BY <1>1 DEF PoolInv, Busy
<1>4. \A t \in Tasks : InUse(t)' => InUse(t)
  BY <1>1 DEF InUse
<1> QED BY <1>1, <1>2, <1>3, <1>4

-----------------------------------------------------------------------------
(* The invariant holds initially, and is kept by every step.                 *)
LEMMA ProgramFacts ==
  ASSUME program \in Programs
  PROVE  /\ \A t \in Tasks : /\ program[t].uses \subseteq Handles
                             /\ Pipelines(t) \subseteq AllPipelines
                             /\ Pipelines(t) \cap Dependencies = {}
                             /\ \A u \in Tasks \ {t} : Pipelines(t) \cap Pipelines(u) = {}
         /\ \A t \in Tasks : \A p \in Pipelines(t) : TaskOf(p) = t
         /\ \A p \in AllPipelines : TaskOf(p) \in Tasks /\ p \in Pipelines(TaskOf(p))
<1>1. \A t \in Tasks : /\ program[t].uses \subseteq Handles
                       /\ Pipelines(t) \subseteq AllPipelines
                       /\ Pipelines(t) \cap Dependencies = {}
                       /\ \A u \in Tasks \ {t} : Pipelines(t) \cap Pipelines(u) = {}
  BY AsyncPipelinesAssumption DEF Handles, Pipelines, AllPipelines
<1>2. \A p \in AllPipelines : TaskOf(p) \in Tasks /\ p \in Pipelines(TaskOf(p))
  BY DEF AllPipelines, TaskOf
<1>3. \A t \in Tasks : \A p \in Pipelines(t) : TaskOf(p) = t
  <2>1. TAKE t \in Tasks
  <2>2. TAKE p \in Pipelines(t)
  <2>3. TaskOf(p) \in Tasks /\ p \in Pipelines(TaskOf(p))
    BY <1>2, <2>2 DEF AllPipelines
  <2> QED BY <1>1, <2>2, <2>3
<1> QED BY <1>1, <1>2, <1>3

MainTypeOK ==
  main \in [pc : {"idle", "poll", "create", "notify", "inline", "add", "use", "name", "destroy",
                  "sync", "drain", "destroy_now", "join_notify", "join", "last_poll", "done"},
            call : {"none", "create", "use", "name", "destroy"},
            handle : Handles \cup {Null}, sync : SUBSET Tasks]

TablesTypeOK ==
  /\ program \in Programs /\ blocks \in 0..MaxBlocks /\ created \subseteq Tasks
  /\ objects \subseteq Handles /\ destroyed \subseteq Handles /\ objects \cap destroyed = {}
  /\ async_tracked \in [Handles -> SUBSET Tasks] /\ sync_fns \subseteq Tasks
  /\ name \in [AllPipelines -> {"none", "deferred", "set"}]
  /\ main_queue \in Seq(Tasks)

LEMMA TypeParts ==
  ASSUME Distinct(main_queue)
  PROVE  TypeOK <=> PoolTypeOK /\ MainTypeOK /\ TablesTypeOK
<1>1. main_queue \in Seq(Tasks) => Cardinality(Elements(main_queue)) = Len(main_queue)
  BY DistinctCardinality
<1> QED BY <1>1 DEF TypeOK, MainTypeOK, TablesTypeOK

LEMMA Init_IInv == ASSUME Init PROVE IInv
<1>1. PoolTypeOK
  BY ThreadPoolAssumption DEF Init, PoolInit, PoolTypeOK
<1>2. MainTypeOK
  BY DEF Init, Idle, MainTypeOK
<1>3. TablesTypeOK
  BY AsyncPipelinesAssumption DEF Init, TablesTypeOK, Handles
<1>4. Distinct(main_queue)
  BY ElementsEmpty DEF Init
<1>5. TypeOK
  BY <1>1, <1>2, <1>3, <1>4, TypeParts
<1>6. PoolInv
  <2>1. threads \subseteq Workers
    BY DEF Init, PoolInit
  <2>2. \A w \in Workers : ~Busy(w)
    BY DEF Init, PoolInit, Busy
  <2>3. queue = <<>>
    BY DEF Init, PoolInit
  <2> QED BY <2>2, <2>3, ElementsEmpty DEF PoolInv
<1>7. PostedInv
  <2>1. main_queue = <<>>
    BY DEF Init
  <2>2. \A t \in Tasks : future[t] = "none" /\ \A h \in Handles : t \notin async_tracked[h]
    BY DEF Init, PoolInit
  <2> QED BY <2>1, <2>2, <1>4, ElementsEmpty DEF PostedInv
<1>8. CallInv
  <2>1. main.pc = "idle" /\ objects = Dependencies /\ destroyed = {} /\ program \in Programs
    BY DEF Init, Idle
  <2>2. \A t \in Tasks : Pipelines(t) \cap (objects \cup destroyed) = {}
    BY <2>1, ProgramFacts
  <2> QED BY <2>1, <2>2 DEF CallInv, Adding, HasHandle
<1> QED BY <1>5, <1>6, <1>7, <1>8 DEF IInv

(* A step of the main thread in a call that touches neither pool nor tables. *)
LEMMA MainOnly ==
  ASSUME IInv, ~Adding, ~Adding', MainTypeOK', TablesTypeOK',
         UNCHANGED <<pool_vars, program, created, objects, destroyed, async_tracked, sync_fns, main_queue>>
  PROVE  /\ TypeOK' /\ PoolInv' /\ PostedInv'
         /\ \A t \in Tasks \ created' : Pipelines(t)' \cap (objects \cup destroyed)' = {}
         /\ \A t \in Tasks : InUse(t)' <=> InUse(t)
<1>1. PoolTypeOK'
  BY DEF IInv, TypeOK, PoolTypeOK, pool_vars
<1>2. PoolInv'
  BY DEF IInv, PoolInv, Busy, pool_vars
<1>3. Posted' = Posted
  BY DEF Posted
<1>4. \A t \in Tasks : InUse(t)' <=> InUse(t)
  BY DEF InUse, pool_vars
<1>5. Handles' = Handles /\ future' = future
  BY DEF Handles, AllPipelines, Pipelines, pool_vars
<1>6. PostedInv'
  <2>1. Elements(main_queue) \subseteq Tasks
    BY ElementsInRange DEF IInv, TypeOK
  <2> QED BY <1>3, <1>4, <1>5, <2>1 DEF IInv, PostedInv
<1>7. TypeOK'
  <2>1. Distinct(main_queue')
    BY <1>6 DEF PostedInv
  <2>2. Cardinality(Elements(main_queue')) = Len(main_queue')
    BY <2>1, DistinctCardinality DEF TablesTypeOK
  <2> QED BY <1>1, <2>2 DEF TypeOK, MainTypeOK, TablesTypeOK
<1>8. \A t \in Tasks \ created' : Pipelines(t)' \cap (objects \cup destroyed)' = {}
  BY DEF IInv, CallInv, Pipelines
<1> QED BY <1>2, <1>4, <1>6, <1>7, <1>8

LEMMA StartBlock_IInv ==
  ASSUME IInv, NEW call \in {"create", "use", "name", "destroy"}, NEW h \in Handles \cup {Null},
         StartBlock(call, h)
  PROVE  IInv'
<1>1. /\ main.pc = "idle" /\ blocks < MaxBlocks /\ blocks' = blocks + 1
      /\ main' = [pc |-> "poll", call |-> call, handle |-> h, sync |-> {}]
      /\ UNCHANGED <<pool_vars, program, created, table_vars, track_vars, main_queue>>
  BY DEF StartBlock, At
<1>2. UNCHANGED <<Handles, AllPipelines>>
  BY <1>1 DEF Handles, AllPipelines, Pipelines
<1>3. MainTypeOK' /\ ~Adding /\ ~Adding'
  BY <1>1, <1>2 DEF MainTypeOK, Adding
<1>4. blocks' \in 0..MaxBlocks
  BY <1>1, AsyncPipelinesAssumption DEF IInv, TypeOK
<1>5. TablesTypeOK'
  BY <1>1, <1>2, <1>4 DEF TablesTypeOK, IInv, TypeOK, table_vars, track_vars
<1>6. /\ TypeOK' /\ PoolInv' /\ PostedInv'
      /\ \A t \in Tasks \ created' : Pipelines(t)' \cap (objects \cup destroyed)' = {}
  BY <1>1, <1>3, <1>5, MainOnly DEF table_vars, track_vars
<1>7. /\ call = "create" => created # Tasks /\ program[NextTask].uses \subseteq objects
      /\ call # "create" => h \in objects /\ (call \in {"use", "name"} => h \in AllPipelines)
  BY DEF StartBlock
<1>8. UNCHANGED <<created, program, NextTask, objects>>
  BY <1>1 DEF NextTask, table_vars
<1>9. CallInv'
  BY <1>1, <1>2, <1>6, <1>7, <1>8 DEF CallInv, Adding, HasHandle
<1> QED BY <1>6, <1>9 DEF IInv

(* The steps of a call between polling and the end of it.                    *)
LEMMA Call_IInv ==
  ASSUME IInv,
         PollDone \/ Use \/ Name \/ Destroy \/ (\E t \in Tasks : SyncTask(t)) \/ SyncDone
  PROVE  IInv'
<1> DEFINE Steps ==
      \/ main.pc = "poll" /\ main' = [main EXCEPT !.pc = main.call]
      \/ main.pc = "drain" /\ main' = [main EXCEPT !.pc = "destroy_now"]
      \/ main.pc = "last_poll" /\ main' = [main EXCEPT !.pc = "done"]
      \/ main.pc \in {"use", "name"} /\ main' = Idle
      \/ main.pc = "destroy" /\ \E pc \in {"sync", "destroy_now"}, sync \in SUBSET Tasks :
                                   main' = [main EXCEPT !.pc = pc, !.sync = sync]
      \/ main.pc = "sync" /\ \E sync \in SUBSET Tasks : main' = [main EXCEPT !.sync = sync]
      \/ main.pc = "sync" /\ main' = [main EXCEPT !.pc = "drain"]
<1>1. TypeOK /\ PoolInv /\ PostedInv /\ CallInv /\ MainTypeOK /\ TablesTypeOK
  BY DEF IInv, PostedInv, TypeOK, MainTypeOK, TablesTypeOK
<1>2. UNCHANGED <<pool_vars, program, blocks, created, objects, destroyed, async_tracked, sync_fns, main_queue>>
  BY DEF PollDone, Use, Name, Destroy, SyncTask, SyncDone, table_vars, track_vars
<1>3. UNCHANGED <<Handles, AllPipelines, NextTask>>
  BY <1>2 DEF Handles, AllPipelines, Pipelines, NextTask
<1>4. Steps
  <2>1. CASE PollDone
    BY <2>1 DEF PollDone, Polling, Goto, At
  <2>2. CASE Use \/ Name
    BY <2>2 DEF Use, Name, At
  <2>3. CASE Destroy
    <3>1. HasHandle
      BY <2>3 DEF HasHandle, Destroy, At
    <3>2. async_tracked[main.handle] \in SUBSET Tasks
      BY <1>1, <3>1 DEF CallInv, TablesTypeOK
    <3> QED BY <2>3, <3>2 DEF Destroy, At
  <2>4. CASE \E t \in Tasks : SyncTask(t)
    BY <1>1, <2>4 DEF SyncTask, At, MainTypeOK
  <2>5. CASE SyncDone
    BY <2>5 DEF SyncDone, At, Goto
  <2> QED BY <2>1, <2>2, <2>3, <2>4, <2>5
<1>5. MainTypeOK' /\ ~Adding /\ ~Adding'
  <2> DEFINE Calls == {"none", "create", "use", "name", "destroy"}
             Ends == {"idle", "create", "use", "name", "destroy", "sync", "drain", "destroy_now", "done"}
  <2>1. /\ main'.pc \in Ends /\ ~Adding
        /\ main' = [pc |-> main'.pc, call |-> main'.call, handle |-> main'.handle, sync |-> main'.sync]
        /\ main'.call \in Calls /\ main'.handle \in Handles \cup {Null} /\ main'.sync \in SUBSET Tasks
    <3>1. /\ main = [pc |-> main.pc, call |-> main.call, handle |-> main.handle, sync |-> main.sync]
          /\ main.call \in Calls /\ main.handle \in Handles \cup {Null} /\ main.sync \in SUBSET Tasks
          /\ main.pc = "poll" => main.call \in Ends
      BY <1>1 DEF MainTypeOK, CallInv
    <3>2. CASE main.pc = "poll" /\ main' = [main EXCEPT !.pc = main.call]
      BY <3>1, <3>2 DEF Adding
    <3>3. CASE main.pc = "drain" /\ main' = [main EXCEPT !.pc = "destroy_now"]
      BY <3>1, <3>3 DEF Adding
    <3>4. CASE main.pc = "last_poll" /\ main' = [main EXCEPT !.pc = "done"]
      BY <3>1, <3>4 DEF Adding
    <3>5. CASE main.pc \in {"use", "name"} /\ main' = Idle
      BY <3>5 DEF Adding, Idle
    <3>6. CASE main.pc = "destroy" /\ \E pc \in {"sync", "destroy_now"}, sync \in SUBSET Tasks :
                                        main' = [main EXCEPT !.pc = pc, !.sync = sync]
      BY <3>1, <3>6 DEF Adding
    <3>7. CASE main.pc = "sync" /\ \E sync \in SUBSET Tasks : main' = [main EXCEPT !.sync = sync]
      BY <3>1, <3>7 DEF Adding
    <3>8. CASE main.pc = "sync" /\ main' = [main EXCEPT !.pc = "drain"]
      BY <3>1, <3>8 DEF Adding
    <3> QED BY <1>4, <3>2, <3>3, <3>4, <3>5, <3>6, <3>7, <3>8
  <2> QED BY <1>3, <2>1 DEF MainTypeOK, Adding
<1>6. name' \in [AllPipelines' -> {"none", "deferred", "set"}]
  <2>1. CASE Name
    BY <1>1, <1>3, <2>1 DEF Name, TablesTypeOK
  <2>2. CASE ~Name
    BY <1>1, <1>3, <2>2 DEF PollDone, Use, Destroy, SyncTask, SyncDone, table_vars, TablesTypeOK
  <2> QED BY <2>1, <2>2
<1>7. TablesTypeOK'
  BY <1>1, <1>2, <1>3, <1>6 DEF TablesTypeOK
<1>8. /\ TypeOK' /\ PoolInv' /\ PostedInv'
      /\ \A t \in Tasks \ created' : Pipelines(t)' \cap (objects \cup destroyed)' = {}
  BY <1>2, <1>5, <1>7, MainOnly
<1>9. CallInv'
  <2>1. /\ HasHandle' => HasHandle /\ main'.handle = main.handle
        /\ main'.pc # "poll" /\ ~Adding'
        /\ main'.pc = "create" => main.pc = "poll" /\ main.call = "create"
        /\ main'.pc \in {"use", "name"} => /\ main.pc = "poll" /\ main.call \in {"use", "name"}
                                           /\ main'.handle = main.handle
    <3> DEFINE Calls == {"none", "create", "use", "name", "destroy"}
    <3>1. /\ main = [pc |-> main.pc, call |-> main.call, handle |-> main.handle, sync |-> main.sync]
          /\ main.call \in Calls
      BY <1>1 DEF MainTypeOK
    <3>2. CASE main.pc = "poll" /\ main' = [main EXCEPT !.pc = main.call]
      BY <1>5, <3>1, <3>2 DEF HasHandle
    <3>3. CASE main.pc = "drain" /\ main' = [main EXCEPT !.pc = "destroy_now"]
      BY <1>5, <3>1, <3>3 DEF HasHandle
    <3>4. CASE main.pc = "last_poll" /\ main' = [main EXCEPT !.pc = "done"]
      BY <1>5, <3>1, <3>4 DEF HasHandle
    <3>5. CASE main.pc \in {"use", "name"} /\ main' = Idle
      BY <1>5, <3>5 DEF HasHandle, Idle
    <3>6. CASE main.pc = "destroy" /\ \E pc \in {"sync", "destroy_now"}, sync \in SUBSET Tasks :
                                        main' = [main EXCEPT !.pc = pc, !.sync = sync]
      BY <1>5, <3>1, <3>6 DEF HasHandle
    <3>7. CASE main.pc = "sync" /\ \E sync \in SUBSET Tasks : main' = [main EXCEPT !.sync = sync]
      BY <1>5, <3>1, <3>7 DEF HasHandle
    <3>8. CASE main.pc = "sync" /\ main' = [main EXCEPT !.pc = "drain"]
      BY <1>5, <3>1, <3>8 DEF HasHandle
    <3> QED BY <1>4, <3>2, <3>3, <3>4, <3>5, <3>6, <3>7, <3>8
  <2> QED BY <1>1, <1>2, <1>3, <1>8, <2>1 DEF CallInv
<1> QED BY <1>8, <1>9 DEF IInv

LEMMA TypePartsNext ==
  ASSUME Distinct(main_queue'), PoolTypeOK', MainTypeOK', TablesTypeOK'
  PROVE  TypeOK'
<1>1. Cardinality(Elements(main_queue')) = Len(main_queue')
  BY DistinctCardinality DEF TablesTypeOK
<1> QED BY <1>1 DEF TypeOK, MainTypeOK, TablesTypeOK

LEMMA TypeOKParts ==
  ASSUME IInv
  PROVE  /\ PoolTypeOK /\ MainTypeOK /\ TablesTypeOK
         /\ PoolInv /\ PostedInv /\ CallInv
         /\ Elements(main_queue) \subseteq Tasks
         /\ main = [pc |-> main.pc, call |-> main.call, handle |-> main.handle, sync |-> main.sync]
<1>1. PoolTypeOK /\ MainTypeOK /\ TablesTypeOK /\ PoolInv /\ PostedInv /\ CallInv
  BY DEF IInv, TypeOK, MainTypeOK, TablesTypeOK
<1>2. Elements(main_queue) \subseteq Tasks
  BY <1>1, ElementsInRange DEF TablesTypeOK
<1>3. main = [pc |-> main.pc, call |-> main.call, handle |-> main.handle, sync |-> main.sync]
  BY <1>1 DEF MainTypeOK
<1> QED BY <1>1, <1>2, <1>3

(* A place of the main thread outside of calls with a handle, and of the     *)
(* creation of pipelines.                                                    *)
Elsewhere(pc) == pc \in {"idle", "join_notify", "join", "last_poll", "done"}

LEMMA CallInvElsewhere ==
  ASSUME Elsewhere(main'.pc),
         \A t \in Tasks \ created' : Pipelines(t)' \cap (objects \cup destroyed)' = {}
  PROVE  CallInv' /\ ~Adding'
  BY DEF CallInv, Adding, HasHandle, Elsewhere

LEMMA PollTask_IInv == ASSUME IInv, PollTask PROVE IInv'
<1> DEFINE t == Head(main_queue)
<1>1. /\ PoolTypeOK /\ MainTypeOK /\ TablesTypeOK /\ PoolInv /\ PostedInv /\ CallInv
      /\ Elements(main_queue) \subseteq Tasks
  BY TypeOKParts
<1>2. /\ main_queue # <<>> /\ main_queue' = Tail(main_queue)
      /\ async_tracked' = [h \in Handles |-> async_tracked[h] \ {t}]
      /\ sync_fns' = sync_fns \ {t}
      /\ name' = [p \in AllPipelines |->
           IF p \in {q \in AllPipelines : async_tracked[q] = {t} /\ name[q] = "deferred"} THEN "set" ELSE name[p]]
      /\ UNCHANGED <<pool_vars, program, main, blocks, created, objects, destroyed>>
  BY DEF PollTask
<1>3. UNCHANGED <<Handles, AllPipelines, NextTask, Posted, Adding>>
  BY <1>2 DEF Handles, AllPipelines, Pipelines, NextTask, Posted, Adding
<1>4. /\ main_queue' \in Seq(Tasks) /\ Distinct(main_queue')
      /\ Elements(main_queue') \subseteq Elements(main_queue)
  BY <1>1, <1>2, TailElements DEF TablesTypeOK, PostedInv
<1>5. PoolTypeOK' /\ PoolInv' /\ \A u \in Tasks : InUse(u)' <=> InUse(u)
  BY <1>1, <1>2 DEF PoolTypeOK, PoolInv, Busy, InUse, pool_vars
<1>6. MainTypeOK'
  BY <1>1, <1>2, <1>3 DEF MainTypeOK
<1>7. TablesTypeOK'
  BY <1>1, <1>2, <1>3, <1>4 DEF TablesTypeOK
<1>8. PostedInv'
  <2>1. future' = future /\ \A h \in Handles : async_tracked'[h] \subseteq async_tracked[h]
    BY <1>2 DEF pool_vars
  <2> QED BY <1>1, <1>3, <1>4, <1>5, <2>1 DEF PostedInv
<1>9. CallInv'
  BY <1>1, <1>2, <1>3 DEF CallInv, HasHandle, Pipelines
<1> QED BY <1>4, <1>5, <1>6, <1>7, <1>8, <1>9, TypePartsNext DEF IInv

LEMMA TrackAndPost_IInv ==
  ASSUME IInv, TrackAndPost
  PROVE  /\ IInv'
         /\ NextTask \in Tasks \ Posted /\ program[NextTask].uses \subseteq objects
         /\ \A u \in Tasks : InUse(u)' <=> InUse(u) \/ u = NextTask
         /\ future' = [future EXCEPT ![NextTask] = "pending"]
<1> DEFINE t == NextTask
<1>1. /\ PoolTypeOK /\ MainTypeOK /\ TablesTypeOK /\ PoolInv /\ PostedInv /\ CallInv
      /\ Elements(main_queue) \subseteq Tasks
      /\ main = [pc |-> main.pc, call |-> main.call, handle |-> main.handle, sync |-> main.sync]
  BY TypeOKParts
<1>2. /\ main.pc = "create" /\ Push(t)
      /\ main' = [main EXCEPT !.pc = "notify", !.sync = {t}]
      /\ async_tracked' = [h \in Handles |-> async_tracked[h] \cup
           IF h \in program[t].uses \cup Pipelines(t) THEN {t} ELSE {}]
      /\ sync_fns' = sync_fns \cup {t}
      /\ UNCHANGED <<program, blocks, created, table_vars, main_queue>>
  BY DEF TrackAndPost, At
<1>3. UNCHANGED <<Handles, AllPipelines>>
  BY <1>2 DEF Handles, AllPipelines, Pipelines
<1>4. t \in Tasks \ created /\ program[t].uses \subseteq objects
  BY <1>1, <1>2, NextTaskExists DEF CallInv, TablesTypeOK
<1>5. Posted = created /\ Posted' = created \cup {t}
  BY <1>1, <1>2 DEF Posted, Adding
<1>6. future[t] = "none"
  BY <1>1, <1>4, <1>5 DEF PostedInv
<1> HIDE DEF t
<1>7. /\ PoolTypeOK' /\ PoolInv' /\ \A u \in Tasks : InUse(u)' <=> InUse(u) \/ u = t
      /\ future' = [future EXCEPT ![t] = "pending"]
  BY <1>1, <1>2, <1>4, <1>6, PushStep
<1>8. MainTypeOK'
  BY <1>1, <1>2, <1>3, <1>4 DEF MainTypeOK
<1>9. TablesTypeOK'
  BY <1>1, <1>2, <1>3, <1>4 DEF TablesTypeOK, table_vars
<1>10. PostedInv'
  <2>1. \A u \in Tasks \ Posted' :
          u # t /\ u \in Tasks \ Posted /\ future'[u] = future[u]
          /\ \A h \in Handles : u \notin async_tracked[h] => u \notin async_tracked'[h]
    BY <1>1, <1>2, <1>4, <1>5, <1>7 DEF PoolTypeOK
  <2>2. \A u \in Elements(main_queue) : u \in Tasks /\ u # t
    BY <1>1, <1>4, <1>5 DEF PostedInv
  <2> QED BY <1>1, <1>2, <1>3, <1>5, <1>7, <2>1, <2>2 DEF PostedInv
<1>11. CallInv'
  <2>1. main'.pc = "notify" /\ main'.sync = {t} /\ UNCHANGED <<program, objects, destroyed, created>>
    BY <1>1, <1>2 DEF table_vars
  <2> QED BY <1>1, <1>4, <2>1 DEF CallInv, HasHandle, Adding, Pipelines
<1>12. Distinct(main_queue')
  BY <1>10 DEF PostedInv
<1> QED BY <1>4, <1>5, <1>7, <1>8, <1>9, <1>10, <1>11, <1>12, TypePartsNext DEF IInv, t

(* Steps of the pool that only wake workers: of post, of join_all, and       *)
(* spurious ones.                                                            *)
LEMMA Wakeup_IInv ==
  ASSUME IInv,
         Notify \/ JoinNotify \/ (\E w \in Workers : SpuriousWakeup(w) /\ UNCHANGED Client)
  PROVE  IInv' /\ WakesUp
<1>1. /\ PoolTypeOK /\ MainTypeOK /\ TablesTypeOK /\ PoolInv /\ PostedInv /\ CallInv
      /\ main = [pc |-> main.pc, call |-> main.call, handle |-> main.handle, sync |-> main.sync]
  BY TypeOKParts
<1>2. /\ UNCHANGED <<program, blocks, created, table_vars, track_vars, main_queue>>
      /\ NotifyOne \/ NotifyAll \/ \E w \in Workers : SpuriousWakeup(w)
  BY DEF Notify, JoinNotify, Client
<1>3. \/ main.pc = "notify" /\ \E pc \in {"inline", "add"} : main' = [main EXCEPT !.pc = pc]
      \/ main.pc = "join_notify" /\ main' = [main EXCEPT !.pc = "join"]
      \/ main' = main
  BY DEF Notify, JoinNotify, Client, At, Goto
<1>4. UNCHANGED <<Handles, AllPipelines, NextTask>>
  BY <1>2 DEF Handles, AllPipelines, Pipelines, NextTask
<1>5. PoolTypeOK' /\ WakesUp
  BY <1>1, <1>2, WakeupSteps
<1>6. /\ \A w \in Workers : (Busy(w)' <=> Busy(w)) /\ (Busy(w) => worker'[w] = worker[w])
      /\ \A t \in Tasks : InUse(t)' <=> InUse(t)
      /\ queue' = queue /\ future' = future
  BY <1>1, <1>5, WakeupKeeps DEF WakesUp
<1>7. PoolInv'
  BY <1>1, <1>6 DEF PoolInv
<1>8. MainTypeOK' /\ main'.sync = main.sync /\ (Adding' <=> Adding)
  <2>1. CASE main.pc = "notify" /\ \E pc \in {"inline", "add"} : main' = [main EXCEPT !.pc = pc]
    BY <1>1, <1>4, <2>1 DEF MainTypeOK, Adding
  <2>2. CASE main.pc = "join_notify" /\ main' = [main EXCEPT !.pc = "join"]
    BY <1>1, <1>4, <2>2 DEF MainTypeOK, Adding
  <2>3. CASE main' = main
    BY <1>1, <1>4, <2>3 DEF MainTypeOK, Adding
  <2> QED BY <1>3, <2>1, <2>2, <2>3
<1>9. TablesTypeOK'
  BY <1>1, <1>2, <1>4 DEF TablesTypeOK, table_vars, track_vars
<1>10. PostedInv'
  <2>1. Posted' = Posted
    BY <1>2, <1>8 DEF Posted
  <2>2. Elements(main_queue) \subseteq Tasks
    BY TypeOKParts
  <2> QED BY <1>1, <1>2, <1>4, <1>6, <2>1, <2>2 DEF PostedInv, track_vars
<1>11. CallInv'
  <2>1. UNCHANGED <<program, objects, destroyed, created>> /\ \A t \in Tasks : Pipelines(t)' = Pipelines(t)
    BY <1>2 DEF table_vars, Pipelines
  <2>2. CASE main' = main
    BY <1>1, <1>4, <2>1, <2>2 DEF CallInv, HasHandle, Adding
  <2>3. CASE main.pc = "notify" /\ \E pc \in {"inline", "add"} : main' = [main EXCEPT !.pc = pc]
    <3>1. main'.pc \in {"inline", "add"} /\ main'.sync = main.sync
      BY <1>1, <2>3
    <3> QED BY <1>1, <1>4, <1>8, <2>1, <2>3, <3>1 DEF CallInv, HasHandle, Adding
  <2>4. CASE main.pc = "join_notify" /\ main' = [main EXCEPT !.pc = "join"]
    <3>1. Elsewhere(main'.pc)
      BY <1>1, <2>4 DEF Elsewhere
    <3> QED BY <1>1, <2>1, <3>1, CallInvElsewhere DEF CallInv
  <2> QED BY <1>3, <2>2, <2>3, <2>4
<1> QED BY <1>5, <1>7, <1>8, <1>9, <1>10, <1>11, TypePartsNext DEF IInv, PostedInv

LEMMA RunInline_IInv == ASSUME IInv, RunInline PROVE IInv'
<1>1. /\ PoolTypeOK /\ MainTypeOK /\ TablesTypeOK /\ PoolInv /\ PostedInv /\ CallInv
      /\ Elements(main_queue) \subseteq Tasks
      /\ main = [pc |-> main.pc, call |-> main.call, handle |-> main.handle, sync |-> main.sync]
  BY TypeOKParts
<1>2. /\ main.pc = "inline" /\ main' = [main EXCEPT !.pc = "add"] /\ PollInline
      /\ main_queue' = main_queue \o queue
      /\ UNCHANGED <<program, blocks, created, table_vars, track_vars>>
  BY DEF RunInline, At, Goto
<1>3. UNCHANGED <<Handles, AllPipelines>>
  BY <1>2 DEF Handles, AllPipelines, Pipelines
<1>4. /\ PoolTypeOK' /\ PoolInv'
      /\ \A t \in Tasks : t \notin Elements(queue) => future'[t] = future[t]
      /\ \A t \in Tasks : ~InUse(t)'
  BY <1>1, <1>2, EmptyStep
<1>5. queue \in Seq(Tasks) /\ Elements(queue) \subseteq Tasks
  BY <1>1, ElementsInRange DEF PoolTypeOK
<1>6. \A t \in Elements(queue) : t \in Posted /\ t \notin Elements(main_queue)
  <2>1. \A t \in Elements(queue) : future[t] = "pending" /\ InUse(t)
    BY <1>1 DEF PoolInv, InUse
  <2> QED BY <1>1, <1>5, <2>1 DEF PostedInv
<1>7. /\ main_queue' \in Seq(Tasks) /\ Distinct(main_queue')
      /\ Elements(main_queue') = Elements(main_queue) \cup Elements(queue)
  BY <1>1, <1>2, <1>5, <1>6, ConcatElements DEF TablesTypeOK, PostedInv, PoolInv
<1>8. /\ main'.pc = "add" /\ main'.sync = main.sync /\ MainTypeOK'
  BY <1>1, <1>2, <1>3 DEF MainTypeOK
<1>9. Posted' = Posted
  BY <1>2, <1>8 DEF Posted, Adding
<1>10. TablesTypeOK'
  BY <1>1, <1>2, <1>3, <1>7 DEF TablesTypeOK, table_vars, track_vars
<1>11. PostedInv'
  <2>1. \A t \in Tasks \ Posted : future'[t] = future[t]
    BY <1>4, <1>6
  <2> QED BY <1>1, <1>2, <1>3, <1>4, <1>5, <1>6, <1>7, <1>9, <2>1 DEF PostedInv, track_vars
<1>12. CallInv'
  BY <1>1, <1>2, <1>8 DEF CallInv, HasHandle, Adding, Pipelines, table_vars
<1> QED BY <1>4, <1>7, <1>8, <1>10, <1>11, <1>12, TypePartsNext DEF IInv

LEMMA AddHandleArrayAsync_IInv ==
  ASSUME IInv, AddHandleArrayAsync
  PROVE  /\ IInv'
         /\ \E t \in Tasks \ created : /\ main.sync = {t} /\ Posted = created \cup {t}
                                       /\ created' = created \cup {t}
                                       /\ objects' = objects \cup Pipelines(t)
<1>1. /\ PoolTypeOK /\ MainTypeOK /\ TablesTypeOK /\ PoolInv /\ PostedInv /\ CallInv
      /\ Elements(main_queue) \subseteq Tasks
  BY TypeOKParts
<1>2. /\ main.pc = "add" /\ main' = Idle
      /\ UNCHANGED <<pool_vars, program, blocks, destroyed, name, async_tracked, sync_fns, main_queue>>
  BY DEF AddHandleArrayAsync, At, track_vars
<1>3. UNCHANGED <<Handles, AllPipelines>>
  BY <1>2 DEF Handles, AllPipelines, Pipelines
<1>4. PICK t \in Tasks \ created : main.sync = {t}
  BY <1>1, <1>2 DEF CallInv, Adding
<1>5. created' = created \cup {t} /\ objects' = objects \cup Pipelines(t)
  BY <1>4 DEF AddHandleArrayAsync
<1>6. Posted = created \cup {t} /\ Posted' = created \cup {t}
  BY <1>2, <1>4, <1>5 DEF Posted, Adding, Idle
<1>7. PoolTypeOK' /\ PoolInv' /\ \A u \in Tasks : InUse(u)' <=> InUse(u)
  BY <1>1, <1>2 DEF PoolTypeOK, PoolInv, Busy, InUse, pool_vars
<1>8. MainTypeOK' /\ Elsewhere(main'.pc)
  BY <1>2, <1>3 DEF MainTypeOK, Idle, Elsewhere
<1>9. TablesTypeOK'
  <2>1. Pipelines(t) \subseteq Handles /\ Pipelines(t) \cap (objects \cup destroyed) = {}
    BY <1>1, <1>4, ProgramFacts DEF Handles, CallInv, TablesTypeOK
  <2>2. objects' \subseteq Handles /\ objects' \cap destroyed' = {}
    BY <1>1, <1>2, <1>5, <2>1 DEF TablesTypeOK
  <2> QED BY <1>1, <1>2, <1>3, <1>4, <1>5, <2>2 DEF TablesTypeOK
<1>10. PostedInv'
  BY <1>1, <1>2, <1>3, <1>6, <1>7 DEF PostedInv, pool_vars
<1>11. \A u \in Tasks \ created' : Pipelines(u)' \cap (objects \cup destroyed)' = {}
  <2>1. TAKE u \in Tasks \ created'
  <2>2. u \in Tasks \ created /\ u # t
    BY <1>5, <2>1
  <2>3. Pipelines(u) \cap Pipelines(t) = {}
    BY <1>1, <1>4, <2>2, ProgramFacts DEF TablesTypeOK
  <2>4. Pipelines(u) \cap (objects \cup destroyed) = {}
    BY <1>1, <2>2 DEF CallInv
  <2> QED BY <1>2, <1>5, <2>3, <2>4 DEF Pipelines
<1>12. CallInv'
  BY <1>8, <1>11, CallInvElsewhere
<1> QED BY <1>1, <1>2, <1>4, <1>5, <1>6, <1>7, <1>8, <1>9, <1>10, <1>12, TypePartsNext DEF IInv,
  PostedInv

LEMMA DestroyNow_IInv == ASSUME IInv, DestroyNow PROVE IInv'
<1>1. /\ PoolTypeOK /\ MainTypeOK /\ TablesTypeOK /\ PoolInv /\ PostedInv /\ CallInv
      /\ Elements(main_queue) \subseteq Tasks
  BY TypeOKParts
<1>2. /\ main.pc = "destroy_now" /\ main' = Idle
      /\ objects' = objects \ {main.handle} /\ destroyed' = destroyed \cup {main.handle}
      /\ UNCHANGED <<pool_vars, program, blocks, created, name, async_tracked, sync_fns, main_queue>>
  BY DEF DestroyNow, At, track_vars
<1>3. UNCHANGED <<Handles, AllPipelines>>
  BY <1>2 DEF Handles, AllPipelines, Pipelines
<1>4. main.handle \in objects
  BY <1>1, <1>2 DEF CallInv, HasHandle
<1>5. objects' \cup destroyed' = objects \cup destroyed
  BY <1>2, <1>4
<1>6. Posted' = Posted
  BY <1>2 DEF Posted, Adding, Idle
<1>7. PoolTypeOK' /\ PoolInv' /\ \A u \in Tasks : InUse(u)' <=> InUse(u)
  BY <1>1, <1>2 DEF PoolTypeOK, PoolInv, Busy, InUse, pool_vars
<1>8. MainTypeOK' /\ Elsewhere(main'.pc)
  BY <1>2, <1>3 DEF MainTypeOK, Idle, Elsewhere
<1>9. TablesTypeOK'
  BY <1>1, <1>2, <1>3, <1>4 DEF TablesTypeOK
<1>10. PostedInv'
  BY <1>1, <1>2, <1>3, <1>6, <1>7 DEF PostedInv, pool_vars
<1>11. \A u \in Tasks \ created' : Pipelines(u)' \cap (objects \cup destroyed)' = {}
  BY <1>1, <1>2, <1>5 DEF CallInv, Pipelines
<1>12. CallInv'
  BY <1>8, <1>11, CallInvElsewhere
<1> QED BY <1>1, <1>2, <1>7, <1>8, <1>9, <1>10, <1>12, TypePartsNext DEF IInv, PostedInv

LEMMA Stopping_IInv ==
  ASSUME IInv, StopReplay \/ JoinAll
  PROVE  IInv' /\ \A t \in Tasks : InUse(t)' => InUse(t)
<1>1. /\ PoolTypeOK /\ MainTypeOK /\ TablesTypeOK /\ PoolInv /\ PostedInv /\ CallInv
      /\ Elements(main_queue) \subseteq Tasks
      /\ main = [pc |-> main.pc, call |-> main.call, handle |-> main.handle, sync |-> main.sync]
  BY TypeOKParts
<1>2. /\ main.pc \in {"idle", "join"}
      /\ \E pc \in {"join_notify", "last_poll"} : main' = [main EXCEPT !.pc = pc]
      /\ UNCHANGED <<program, blocks, created, table_vars, track_vars, main_queue>>
  BY DEF StopReplay, JoinAll, At, Goto
<1>3. UNCHANGED <<Handles, AllPipelines>>
  BY <1>2 DEF Handles, AllPipelines, Pipelines
<1>4. /\ PoolTypeOK' /\ PoolInv'
      /\ \A t \in Tasks : InUse(t)' => InUse(t)
      /\ \A t \in Tasks : future[t] # "pending" => future'[t] = future[t]
  <2>1. CASE StopReplay
    <3>1. Stop
      BY <2>1 DEF StopReplay
    <3>2. \A t \in Tasks : future[t] # "pending" => t \notin Elements(queue)
      BY <1>1 DEF PoolInv
    <3> QED BY <1>1, <3>1, <3>2, EmptyStep
  <2>2. CASE JoinAll
    <3>1. Join
      BY <2>2 DEF JoinAll
    <3> QED BY <1>1, <3>1, JoinStep
  <2> QED BY <2>1, <2>2
<1>5. MainTypeOK' /\ Elsewhere(main'.pc)
  BY <1>1, <1>2, <1>3 DEF MainTypeOK, Elsewhere
<1>6. Posted' = Posted
  BY <1>2, <1>5 DEF Posted, Adding, Elsewhere
<1>7. TablesTypeOK'
  BY <1>1, <1>2, <1>3 DEF TablesTypeOK, table_vars, track_vars
<1>8. PostedInv'
  <2>1. \A t \in Tasks \ Posted : future'[t] = "none"
    BY <1>1, <1>4 DEF PostedInv
  <2> QED BY <1>1, <1>2, <1>3, <1>4, <1>6, <2>1 DEF PostedInv, track_vars
<1>9. CallInv'
  <2>1. \A u \in Tasks \ created' : Pipelines(u)' \cap (objects \cup destroyed)' = {}
    BY <1>1, <1>2 DEF CallInv, Pipelines, table_vars
  <2> QED BY <1>5, <2>1, CallInvElsewhere
<1> QED BY <1>1, <1>2, <1>4, <1>5, <1>7, <1>8, <1>9, TypePartsNext DEF IInv, PostedInv

LEMMA Worker_IInv == ASSUME IInv, NEW w \in Workers, WorkerStep(w) PROVE IInv'
<1>1. /\ PoolTypeOK /\ MainTypeOK /\ TablesTypeOK /\ PoolInv /\ PostedInv /\ CallInv
      /\ Elements(main_queue) \subseteq Tasks
  BY TypeOKParts
<1>2. UNCHANGED <<program, main, blocks, created, table_vars, track_vars>>
  BY DEF WorkerStep, Client, PostClear
<1>3. UNCHANGED <<Handles, AllPipelines, NextTask, Posted, Adding>>
  BY <1>2 DEF Handles, AllPipelines, Pipelines, NextTask, Posted, Adding
<1>4. MainTypeOK'
  BY <1>1, <1>2, <1>3 DEF MainTypeOK
<1>5. CallInv'
  BY <1>1, <1>2, <1>3 DEF CallInv, HasHandle, Pipelines, table_vars
<1>6. CASE (Check(w) \/ Return(w)) /\ UNCHANGED Client
  <2>1. /\ PoolTypeOK' /\ PoolInv' /\ \A t \in Tasks : InUse(t)' <=> InUse(t)
        /\ \A t \in Tasks : future[t] = "none" => future'[t] = "none"
    <3>1. CASE Check(w)
      BY <1>1, <3>1, CheckStep
    <3>2. CASE Return(w)
      <4>1. Busy(w)
        BY <1>1, <3>2 DEF Return, Busy
      <4>2. worker[w].task \in Tasks /\ future[worker[w].task] = "pending"
        BY <1>1, <4>1 DEF PoolInv
      <4>3. /\ PoolTypeOK' /\ PoolInv' /\ \A t \in Tasks : InUse(t)' <=> InUse(t)
            /\ future' = [future EXCEPT ![worker[w].task] = "ready"]
        BY <1>1, <3>2, ReturnStep
      <4>4. \A t \in Tasks : future[t] = "none" => future'[t] = "none"
        BY <1>1, <4>2, <4>3 DEF PoolTypeOK
      <4> QED BY <4>3, <4>4
    <3> QED BY <1>6, <3>1, <3>2
  <2>2. main_queue' = main_queue
    BY <1>6 DEF Client
  <2>3. TablesTypeOK'
    BY <1>1, <1>2, <1>3, <2>2 DEF TablesTypeOK, table_vars, track_vars
  <2>4. PostedInv'
    BY <1>1, <1>2, <1>3, <2>1, <2>2 DEF PostedInv, track_vars
  <2> QED BY <1>4, <1>5, <2>1, <2>3, <2>4, TypePartsNext DEF IInv, PostedInv
<1>7. CASE PostClear(w)
  <2>1. /\ PoolTypeOK' /\ PoolInv' /\ worker[w].task \in Tasks /\ InUse(worker[w].task)
        /\ \A t \in Tasks : InUse(t)' <=> InUse(t) /\ t # worker[w].task
        /\ future' = future
    BY <1>1, <1>7, PostClearStep
  <2>2. main_queue' = Append(main_queue, worker[w].task)
    BY <1>7 DEF PostClear
  <2>3. worker[w].task \notin Elements(main_queue) /\ worker[w].task \in Posted
    <3>1. Busy(w)
      BY <1>7 DEF PostClear, Busy
    <3>2. future[worker[w].task] = "pending"
      BY <1>1, <3>1 DEF PoolInv
    <3> QED BY <1>1, <2>1, <3>2 DEF PostedInv
  <2>4. /\ main_queue' \in Seq(Tasks) /\ Distinct(main_queue')
        /\ Elements(main_queue') = Elements(main_queue) \cup {worker[w].task}
    BY <1>1, <2>1, <2>2, <2>3, AppendElements DEF TablesTypeOK, PostedInv
  <2>5. TablesTypeOK'
    BY <1>1, <1>2, <1>3, <2>4 DEF TablesTypeOK, table_vars, track_vars
  <2>6. PostedInv'
    BY <1>1, <1>2, <1>3, <2>1, <2>3, <2>4 DEF PostedInv, track_vars
  <2> QED BY <1>4, <1>5, <2>1, <2>4, <2>5, <2>6, TypePartsNext DEF IInv
<1> QED BY <1>6, <1>7 DEF WorkerStep

LEMMA Next_IInv == ASSUME IInv, [Next]_vars PROVE IInv'
<1>1. CASE UNCHANGED vars
  <2>1. UNCHANGED <<threads, running, queue, worker, future, program, main, blocks, created, objects,
                    destroyed, name, async_tracked, sync_fns, main_queue>>
    BY <1>1 DEF vars, pool_vars, table_vars, track_vars
  <2>2. UNCHANGED <<Handles, AllPipelines, NextTask, Posted, Adding>>
    BY <2>1 DEF Handles, AllPipelines, Pipelines, NextTask, Posted, Adding
  <2>3. TypeOK'
    BY <2>1, <2>2 DEF IInv, TypeOK, PoolTypeOK
  <2>4. PoolInv'
    BY <2>1 DEF IInv, PoolInv, Busy
  <2>5. PostedInv'
    BY <2>1, <2>2 DEF IInv, PostedInv, InUse
  <2>6. CallInv'
    BY <2>1, <2>2 DEF IInv, CallInv, HasHandle, Pipelines
  <2> QED BY <2>3, <2>4, <2>5, <2>6 DEF IInv
<1>2. CASE Next
  <2>1. ASSUME NEW call \in {"create", "use", "name", "destroy"}, NEW h \in Handles \cup {Null},
               StartBlock(call, h)
        PROVE  IInv'
    BY <2>1, StartBlock_IInv
  <2>2. CASE PollDone \/ Use \/ Name \/ Destroy \/ (\E t \in Tasks : SyncTask(t)) \/ SyncDone
    BY <2>2, Call_IInv
  <2>3. CASE PollTask
    BY <2>3, PollTask_IInv
  <2>4. CASE TrackAndPost
    BY <2>4, TrackAndPost_IInv
  <2>5. CASE Notify \/ JoinNotify \/ \E w \in Workers : SpuriousWakeup(w) /\ UNCHANGED Client
    BY <2>5, Wakeup_IInv
  <2>6. CASE RunInline
    BY <2>6, RunInline_IInv
  <2>7. CASE AddHandleArrayAsync
    BY <2>7, AddHandleArrayAsync_IInv
  <2>8. CASE DestroyNow
    BY <2>8, DestroyNow_IInv
  <2>9. CASE StopReplay \/ JoinAll
    BY <2>9, Stopping_IInv
  <2>10. ASSUME NEW w \in Workers, WorkerStep(w)
         PROVE  IInv'
    BY <2>10, Worker_IInv
  <2> QED BY <1>2, <2>1, <2>2, <2>3, <2>4, <2>5, <2>6, <2>7, <2>8, <2>9, <2>10 DEF Next, MainStep
<1> QED BY <1>1, <1>2

(* The inductive invariant of pool, main queue and calls: a task is in one   *)
(* place, and the main thread's calls are about objects that exist.          *)
THEOREM Invariance == Spec => []IInv
<1>1. Init => IInv
  BY Init_IInv
<1>2. IInv /\ [Next]_vars => IInv'
  BY Next_IInv
<1> QED BY <1>1, <1>2, PTL DEF Spec

(* TypeOK, for every pool and capture: in particular ClearAsyncHandles is    *)
(* posted once for a task.                                                   *)
THEOREM TypeCorrect == Spec => []TypeOK
<1>1. IInv => TypeOK
  BY DEF IInv
<1> QED BY <1>1, Invariance, PTL

-----------------------------------------------------------------------------
(* Tracking and destruction.                                                 *)
LEMMA InUseIsPending ==
  ASSUME PoolTypeOK, PoolInv, NEW t \in Tasks, InUse(t)
  PROVE  future[t] = "pending"
  BY DEF PoolTypeOK, PoolInv, InUse, Busy

LEMMA Init_UseInv == ASSUME Init PROVE UseInv
<1>1. \A t \in Tasks : ~InUse(t)
  BY ElementsEmpty DEF Init, PoolInit, InUse
<1>2. /\ \A h \in Handles : async_tracked[h] = {}
      /\ \A p \in AllPipelines : name[p] = "none"
      /\ created = {} /\ destroyed = {} /\ main.pc = "idle"
  BY DEF Init, Idle
<1> QED BY <1>1, <1>2 DEF UseInv, TrackInv, DestroyInv, DeferredInv, NothingInUseIsDestroyed,
  NamesAreSet, Handles

(* Steps that change neither tables nor tracking keep what is known of them, *)
(* if a task that stops being in use is posted to the main queue.            *)
LEMMA UseKept ==
  ASSUME IInv, UseInv,
         UNCHANGED <<program, created, objects, destroyed, name, async_tracked, sync_fns>>,
         \A t \in Tasks : InUse(t)' => InUse(t),
         \A t \in Tasks : Synced(t) => Synced(t)',
         ~Stopping' => /\ ~Stopping
                       /\ \A t \in Tasks : InUse(t) \/ t \in Elements(main_queue) =>
                                           InUse(t)' \/ t \in Elements(main_queue')
  PROVE  TrackInv' /\ DeferredInv' /\ NothingInUseIsDestroyed' /\ NamesAreSet'
<1>1. /\ UNCHANGED <<Handles, AllPipelines>> /\ \A t \in Tasks : First(t)' = First(t)
      /\ program' = program
  BY DEF Handles, AllPipelines, Pipelines, First
<1>2. \A h \in Handles : async_tracked[h] \subseteq Tasks
  BY DEF IInv, TypeOK
<1>3. TrackInv'
  <2>1. \A t \in Tasks : InUse(t)' => \A h \in program'[t].uses : t \in async_tracked'[h]
    BY <1>1 DEF UseInv, TrackInv
  <2>2. \A h \in Handles' : \A t \in async_tracked'[h] : t \in sync_fns'
    BY <1>1 DEF UseInv, TrackInv
  <2>3. ~Stopping' => \A h \in Handles' : \A t \in async_tracked'[h] : InUse(t)' \/ t \in Elements(main_queue')
    BY <1>1, <1>2 DEF UseInv, TrackInv
  <2>4. \A t \in created' : First(t)' \in objects' \/ Synced(t)'
    <3>1. created \subseteq Tasks
      BY DEF IInv, TypeOK
    <3> QED BY <1>1, <3>1 DEF UseInv, TrackInv
  <2> QED BY <2>1, <2>2, <2>3, <2>4 DEF TrackInv
<1>4. DeferredInv' /\ NamesAreSet'
  BY <1>1 DEF UseInv, DeferredInv, NamesAreSet
<1>5. NothingInUseIsDestroyed'
  BY <1>1 DEF UseInv, NothingInUseIsDestroyed
<1> QED BY <1>3, <1>4, <1>5

LEMMA DestroyKept ==
  ASSUME IInv, UseInv,
         UNCHANGED <<program, async_tracked>>,
         \A t \in Tasks : Synced(t) => Synced(t)',
         main' = main \/ main'.pc \notin {"sync", "drain", "destroy_now"}
  PROVE  DestroyInv'
<1>1. UNCHANGED <<Handles, AllPipelines>> /\ \A p \in AllPipelines : TaskOf(p)' = TaskOf(p)
  BY DEF Handles, AllPipelines, Pipelines, TaskOf
<1>2. \A p \in AllPipelines : TaskOf(p) \in Tasks
  BY ProgramFacts DEF IInv, TypeOK
<1>3. CASE main' = main
  <2>1. \A h : LookedUp(h) => LookedUp(h)'
    BY <1>1, <1>2 DEF LookedUp
  <2>2. HasHandle => async_tracked[main.handle] \subseteq Tasks
    BY DEF IInv, TypeOK, CallInv
  <2>3. main.pc \in {"sync", "drain", "destroy_now"} => HasHandle
    BY DEF HasHandle
  <2> QED BY <1>3, <2>1, <2>2, <2>3 DEF UseInv, DestroyInv
<1>4. CASE main'.pc \notin {"sync", "drain", "destroy_now"}
  BY <1>4 DEF DestroyInv
<1> QED BY <1>3, <1>4

LEMMA StartBlock_UseInv ==
  ASSUME IInv, UseInv, NEW call \in {"create", "use", "name", "destroy"}, NEW h \in Handles \cup {Null},
         StartBlock(call, h)
  PROVE  UseInv'
<1>1. /\ main.pc = "idle" /\ main'.pc = "poll"
      /\ UNCHANGED <<pool_vars, program, created, table_vars, track_vars, main_queue>>
  BY DEF StartBlock, At
<1>2. /\ \A t \in Tasks : InUse(t)' <=> InUse(t)
      /\ \A t \in Tasks : Synced(t)' <=> Synced(t)
      /\ ~Stopping /\ ~Stopping'
  BY <1>1 DEF InUse, Synced, Stopping, pool_vars
<1>3. TrackInv' /\ DeferredInv' /\ NothingInUseIsDestroyed' /\ NamesAreSet'
  BY <1>1, <1>2, UseKept DEF table_vars, track_vars
<1>4. DestroyInv'
  BY <1>1, <1>2, DestroyKept DEF track_vars
<1> QED BY <1>3, <1>4 DEF UseInv

(* Polling the main queue at the destruction of a handle leaves no task that *)
(* uses it: those that have returned had posted before.                      *)
LEMMA PollDone_UseInv == ASSUME IInv, UseInv, PollDone PROVE UseInv'
<1>1. /\ PoolTypeOK /\ MainTypeOK /\ TablesTypeOK /\ PoolInv /\ CallInv
      /\ main = [pc |-> main.pc, call |-> main.call, handle |-> main.handle, sync |-> main.sync]
  BY TypeOKParts
<1>2. /\ main_queue = <<>>
      /\ UNCHANGED <<pool_vars, program, created, table_vars, track_vars, main_queue>>
      /\ \/ main.pc = "poll" /\ main' = [main EXCEPT !.pc = main.call]
         \/ main.pc = "drain" /\ main' = [main EXCEPT !.pc = "destroy_now"]
         \/ main.pc = "last_poll" /\ main' = [main EXCEPT !.pc = "done"]
  BY DEF PollDone, Polling, Goto, At
<1>3. /\ \A t \in Tasks : InUse(t)' <=> InUse(t)
      /\ \A t \in Tasks : Synced(t)' <=> Synced(t)
  BY <1>2 DEF InUse, Synced, pool_vars
<1>4. ~Stopping' => ~Stopping
  BY <1>1, <1>2 DEF Stopping
<1>5. TrackInv' /\ DeferredInv' /\ NothingInUseIsDestroyed' /\ NamesAreSet'
  BY <1>2, <1>3, <1>4, UseKept DEF table_vars, track_vars
<1>6. CASE main.pc = "drain"
  <2>1. main'.pc = "destroy_now" /\ main'.handle = main.handle
    BY <1>1, <1>2, <1>6
  <2>2. LookedUp(main.handle) /\ \A t \in async_tracked[main.handle] : Synced(t)
    BY <1>6 DEF UseInv, DestroyInv
  <2>3. main.handle \in Handles
    BY <1>1, <1>6 DEF CallInv, HasHandle, TablesTypeOK
  <2>4. \A t \in async_tracked[main.handle] : t \in Tasks /\ InUse(t)
    BY <1>1, <1>2, <1>6, <2>3, ElementsEmpty DEF UseInv, TrackInv, Stopping, TablesTypeOK
  <2>5. async_tracked[main.handle] = {}
    BY <1>1, <2>2, <2>4, InUseIsPending DEF Synced
  <2>6. \A h : LookedUp(h)' <=> LookedUp(h)
    BY <1>2 DEF LookedUp, AllPipelines, Pipelines, TaskOf, Synced, pool_vars
  <2>7. DestroyInv'
    BY <1>2, <2>1, <2>2, <2>5, <2>6 DEF DestroyInv, track_vars
  <2> QED BY <1>5, <2>7 DEF UseInv
<1>7. CASE main.pc # "drain"
  <2>1. main'.pc \notin {"sync", "drain", "destroy_now"}
    BY <1>1, <1>2, <1>7 DEF MainTypeOK
  <2> QED BY <1>2, <1>3, <1>5, <2>1, DestroyKept DEF UseInv, track_vars
<1> QED BY <1>6, <1>7

LEMMA PollTask_UseInv == ASSUME IInv, UseInv, PollTask PROVE UseInv'
<1> DEFINE t == Head(main_queue)
<1>1. /\ PoolTypeOK /\ MainTypeOK /\ TablesTypeOK /\ PoolInv /\ PostedInv /\ CallInv
  BY TypeOKParts
<1>2. /\ main_queue # <<>> /\ main_queue' = Tail(main_queue)
      /\ async_tracked' = [h \in Handles |-> async_tracked[h] \ {t}]
      /\ sync_fns' = sync_fns \ {t}
      /\ name' = [p \in AllPipelines |->
           IF p \in {q \in AllPipelines : async_tracked[q] = {t} /\ name[q] = "deferred"} THEN "set" ELSE name[p]]
      /\ UNCHANGED <<pool_vars, program, main, blocks, created, objects, destroyed>>
  BY DEF PollTask
<1>3. /\ t \in Tasks /\ t \in Elements(main_queue)
      /\ Elements(main_queue) = Elements(main_queue') \cup {t}
  BY <1>1, <1>2, TailElements DEF TablesTypeOK, PostedInv
<1> HIDE DEF t
<1>4. /\ UNCHANGED <<Handles, AllPipelines, HasHandle>> /\ \A u \in Tasks : First(u)' = First(u)
      /\ program' = program /\ \A p \in AllPipelines : TaskOf(p)' = TaskOf(p)
  BY <1>2 DEF Handles, AllPipelines, Pipelines, First, TaskOf, HasHandle
<1>5. /\ \A u \in Tasks : InUse(u)' <=> InUse(u)
      /\ \A u \in Tasks : Synced(u)' <=> Synced(u)
      /\ Stopping' <=> Stopping
  BY <1>2 DEF InUse, Synced, Stopping, pool_vars
<1>6. ~InUse(t)
  BY <1>1, <1>3 DEF PostedInv
<1>7. \A h \in Handles : async_tracked'[h] = async_tracked[h] \ {t} /\ async_tracked[h] \subseteq Tasks
  BY <1>1, <1>2 DEF TablesTypeOK
<1>8. TrackInv'
  <2>1. \A u \in Tasks : InUse(u)' => \A h \in program'[u].uses : u \in async_tracked'[h]
    <3>1. \A u \in Tasks : program[u].uses \subseteq Handles
      BY <1>1, ProgramFacts DEF TablesTypeOK
    <3> QED BY <1>4, <1>5, <1>6, <1>7, <3>1 DEF UseInv, TrackInv
  <2>2. \A h \in Handles' : \A u \in async_tracked'[h] : u \in sync_fns'
    BY <1>2, <1>4, <1>7 DEF UseInv, TrackInv
  <2>3. ~Stopping' => \A h \in Handles' : \A u \in async_tracked'[h] : InUse(u)' \/ u \in Elements(main_queue')
    BY <1>3, <1>4, <1>5, <1>7 DEF UseInv, TrackInv
  <2>4. \A u \in created' : First(u)' \in objects' \/ Synced(u)'
    BY <1>1, <1>2, <1>4, <1>5 DEF UseInv, TrackInv, TablesTypeOK
  <2> QED BY <2>1, <2>2, <2>3, <2>4 DEF TrackInv
<1>9. DestroyInv'
  <2>1. \A h : LookedUp(h) => LookedUp(h)'
    <3>1. \A p \in AllPipelines : TaskOf(p) \in Tasks
      BY <1>1, ProgramFacts DEF TablesTypeOK
    <3> QED BY <1>4, <1>5, <3>1 DEF LookedUp
  <2>2. main' = main /\ (main.pc \in {"sync", "drain", "destroy_now"} => main.handle \in Handles)
    BY <1>1, <1>2 DEF CallInv, HasHandle, TablesTypeOK
  <2>3. main.pc \in {"sync", "drain", "destroy_now"} =>
          /\ async_tracked'[main.handle] \subseteq async_tracked[main.handle]
          /\ async_tracked[main.handle] \subseteq Tasks
    BY <1>7, <2>2
  <2> QED BY <1>5, <2>1, <2>2, <2>3 DEF UseInv, DestroyInv
<1>10. DeferredInv' /\ NamesAreSet'
  <2>1. \A p \in AllPipelines : name'[p] = "deferred" => name[p] = "deferred" /\ async_tracked[p] # {t}
    BY <1>2
  <2>2. DeferredInv'
    <3>1. AllPipelines \subseteq Handles
      BY DEF Handles
    <3> QED BY <1>4, <1>7, <2>1, <3>1 DEF UseInv, DeferredInv
  <2> QED BY <1>2, <1>4, <2>1, <2>2 DEF UseInv, NamesAreSet
<1>11. NothingInUseIsDestroyed'
  BY <1>2, <1>4, <1>5 DEF UseInv, NothingInUseIsDestroyed
<1> QED BY <1>8, <1>9, <1>10, <1>11 DEF UseInv

LEMMA Call_UseInv ==
  ASSUME IInv, UseInv,
         Use \/ Destroy \/ (\E t \in Tasks : SyncTask(t)) \/ SyncDone
  PROVE  UseInv'
<1>1. /\ PoolTypeOK /\ MainTypeOK /\ TablesTypeOK /\ PoolInv /\ PostedInv /\ CallInv
      /\ main = [pc |-> main.pc, call |-> main.call, handle |-> main.handle, sync |-> main.sync]
  BY TypeOKParts
<1>2. /\ UNCHANGED <<pool_vars, program, created, table_vars, track_vars, main_queue>>
      /\ main.pc \in {"use", "destroy", "sync"}
  BY DEF Use, Destroy, SyncTask, SyncDone, At
<1>3. /\ \A t \in Tasks : InUse(t)' <=> InUse(t)
      /\ \A t \in Tasks : Synced(t)' <=> Synced(t)
      /\ \A h : LookedUp(h)' <=> LookedUp(h)
      /\ ~Stopping
  BY <1>2 DEF InUse, Synced, LookedUp, AllPipelines, Pipelines, TaskOf, Stopping, pool_vars
<1>4. TrackInv' /\ DeferredInv' /\ NothingInUseIsDestroyed' /\ NamesAreSet'
  BY <1>2, <1>3, UseKept DEF table_vars, track_vars
<1>5. HasHandle => main.handle \in Handles /\ async_tracked[main.handle] \subseteq Tasks
  BY <1>1 DEF CallInv, TablesTypeOK
<1>6. DestroyInv'
  <2>1. CASE Use
    <3>1. main'.pc = "idle"
      BY <2>1 DEF Use, Idle
    <3> QED BY <1>2, <1>3, <3>1, DestroyKept DEF track_vars
  <2>2. CASE Destroy
    <3>1. /\ LookedUp(main.handle) /\ main'.handle = main.handle
          /\ main'.pc = (IF async_tracked[main.handle] = {} THEN "destroy_now" ELSE "sync")
          /\ main'.sync = async_tracked[main.handle]
      BY <1>1, <2>2 DEF Destroy
    <3> QED BY <1>2, <1>3, <3>1 DEF DestroyInv, track_vars
  <2>3. ASSUME NEW t \in Tasks, SyncTask(t)
        PROVE  DestroyInv'
    <3>1. /\ main.pc = "sync" /\ main'.pc = "sync" /\ main'.handle = main.handle
          /\ main'.sync = main.sync \ {t}
          /\ t \in sync_fns /\ First(t) \in objects => Synced(t)
      BY <1>1, <2>3 DEF SyncTask, At
    <3>2. main.handle \in Handles /\ async_tracked[main.handle] \subseteq Tasks
      BY <1>5, <3>1 DEF HasHandle
    <3>3. t \in async_tracked[main.handle] => Synced(t)
      <4>1. Posted = created
        BY <3>1 DEF Posted, Adding
      <4>2. t \in async_tracked[main.handle] => t \in created /\ t \in sync_fns
        BY <1>1, <3>2, <4>1 DEF PostedInv, UseInv, TrackInv
      <4> QED BY <3>1, <4>2 DEF UseInv, TrackInv
    <3>4. LookedUp(main.handle) /\ \A u \in async_tracked[main.handle] \ main.sync : Synced(u)
      BY <3>1 DEF UseInv, DestroyInv
    <3>5. \A u \in async_tracked[main.handle] \ main'.sync : u \in Tasks /\ Synced(u)
      BY <3>1, <3>2, <3>3, <3>4
    <3> QED BY <1>2, <1>3, <3>1, <3>4, <3>5 DEF DestroyInv, track_vars
  <2>4. CASE SyncDone
    <3>1. /\ main.pc = "sync" /\ main.sync = {} /\ main'.pc = "drain" /\ main'.handle = main.handle
      BY <1>1, <2>4 DEF SyncDone, At, Goto
    <3>2. main.handle \in Handles /\ async_tracked[main.handle] \subseteq Tasks
      BY <1>5, <3>1 DEF HasHandle
    <3>3. LookedUp(main.handle) /\ \A u \in async_tracked[main.handle] : Synced(u)
      BY <3>1 DEF UseInv, DestroyInv
    <3> QED BY <1>2, <1>3, <3>1, <3>2, <3>3 DEF DestroyInv, track_vars
  <2> QED BY <2>1, <2>2, <2>3, <2>4
<1> QED BY <1>4, <1>6 DEF UseInv

LEMMA Name_UseInv == ASSUME IInv, UseInv, Name PROVE UseInv'
<1>1. /\ PoolTypeOK /\ MainTypeOK /\ TablesTypeOK /\ CallInv
  BY TypeOKParts
<1>2. /\ UNCHANGED <<pool_vars, program, created, objects, destroyed, async_tracked, sync_fns, main_queue>>
      /\ main.pc = "name" /\ main'.pc = "idle"
      /\ \/ async_tracked[main.handle] # {} /\ name' = [name EXCEPT ![main.handle] = "deferred"]
         \/ name' = [name EXCEPT ![main.handle] = "set"]
  BY DEF Name, At, Idle, track_vars
<1>3. main.handle \in objects /\ main.handle \in AllPipelines /\ main.handle \notin destroyed
  BY <1>1, <1>2 DEF CallInv, HasHandle, TablesTypeOK
<1>4. UNCHANGED <<Handles, AllPipelines>> /\ \A t \in Tasks : First(t)' = First(t)
  BY <1>2 DEF Handles, AllPipelines, Pipelines, First
<1>5. /\ \A t \in Tasks : InUse(t)' <=> InUse(t)
      /\ \A t \in Tasks : Synced(t)' <=> Synced(t)
      /\ ~Stopping /\ ~Stopping'
  BY <1>2 DEF InUse, Synced, Stopping, pool_vars
<1>6. TrackInv'
  BY <1>1, <1>2, <1>4, <1>5 DEF UseInv, TrackInv, TablesTypeOK
<1>7. DestroyInv'
  BY <1>2, <1>5, DestroyKept
<1>8. /\ \A p \in AllPipelines : p # main.handle => name'[p] = name[p]
      /\ name'[main.handle] = "deferred" => async_tracked[main.handle] # {}
  BY <1>1, <1>2, <1>3 DEF TablesTypeOK
<1>9. DeferredInv'
  BY <1>2, <1>4, <1>8 DEF UseInv, DeferredInv
<1>10. NamesAreSet'
  BY <1>2, <1>3, <1>4, <1>8 DEF UseInv, NamesAreSet
<1>11. NothingInUseIsDestroyed'
  BY <1>2, <1>5 DEF UseInv, NothingInUseIsDestroyed
<1> QED BY <1>6, <1>7, <1>9, <1>10, <1>11 DEF UseInv

LEMMA TrackAndPost_UseInv == ASSUME IInv, UseInv, TrackAndPost PROVE UseInv'
<1> DEFINE t == NextTask
<1>1. /\ PoolTypeOK /\ MainTypeOK /\ TablesTypeOK /\ PoolInv /\ PostedInv /\ CallInv
      /\ main = [pc |-> main.pc, call |-> main.call, handle |-> main.handle, sync |-> main.sync]
  BY TypeOKParts
<1>2. /\ main.pc = "create"
      /\ main' = [main EXCEPT !.pc = "notify", !.sync = {t}]
      /\ async_tracked' = [h \in Handles |-> async_tracked[h] \cup
           IF h \in program[t].uses \cup Pipelines(t) THEN {t} ELSE {}]
      /\ sync_fns' = sync_fns \cup {t}
      /\ UNCHANGED <<program, created, objects, destroyed, name, main_queue>>
  BY DEF TrackAndPost, At, table_vars
<1>3. /\ t \in Tasks \ Posted /\ program[t].uses \subseteq objects
      /\ \A u \in Tasks : InUse(u)' <=> InUse(u) \/ u = t
      /\ future' = [future EXCEPT ![t] = "pending"]
  BY TrackAndPost_IInv
<1> HIDE DEF t
<1>4. /\ UNCHANGED <<Handles, AllPipelines>> /\ \A u \in Tasks : First(u)' = First(u)
      /\ program' = program
  BY <1>2 DEF Handles, AllPipelines, Pipelines, First
<1>5. \A h \in Handles : /\ async_tracked[h] \subseteq async_tracked'[h]
                         /\ async_tracked'[h] \subseteq async_tracked[h] \cup {t}
                         /\ h \in program[t].uses => t \in async_tracked'[h]
                         /\ async_tracked[h] \subseteq Tasks
  BY <1>1, <1>2 DEF TablesTypeOK
<1>6. \A u \in Tasks : program[u].uses \subseteq Handles
  BY <1>1, ProgramFacts DEF TablesTypeOK
<1>7. main'.pc = "notify" /\ ~Stopping
  BY <1>1, <1>2 DEF Stopping
<1>8. TrackInv'
  <2>1. \A u \in Tasks : InUse(u)' => \A h \in program'[u].uses : u \in async_tracked'[h]
    BY <1>3, <1>4, <1>5, <1>6 DEF UseInv, TrackInv
  <2>2. \A h \in Handles' : \A u \in async_tracked'[h] : u \in sync_fns'
    BY <1>2, <1>4, <1>5 DEF UseInv, TrackInv
  <2>3. \A h \in Handles' : \A u \in async_tracked'[h] : InUse(u)' \/ u \in Elements(main_queue')
    BY <1>2, <1>3, <1>4, <1>5, <1>7 DEF UseInv, TrackInv
  <2>4. \A u \in created' : First(u)' \in objects' \/ Synced(u)'
    <3>1. \A u \in created : u \in Tasks /\ u # t
      BY <1>1, <1>3 DEF Posted, TablesTypeOK
    <3>2. \A u \in created : future'[u] = future[u]
      BY <1>1, <1>3, <3>1 DEF PoolTypeOK
    <3> QED BY <1>2, <1>4, <3>1, <3>2 DEF UseInv, TrackInv, Synced
  <2> QED BY <2>1, <2>2, <2>3, <2>4 DEF TrackInv
<1>9. DestroyInv'
  BY <1>7 DEF DestroyInv
<1>10. DeferredInv' /\ NamesAreSet'
  <2>1. AllPipelines \subseteq Handles
    BY DEF Handles
  <2> QED BY <1>2, <1>4, <1>5, <2>1 DEF UseInv, DeferredInv, NamesAreSet
<1>11. NothingInUseIsDestroyed'
  <2>1. program[t].uses \cap destroyed = {}
    BY <1>1, <1>3 DEF TablesTypeOK
  <2> QED BY <1>2, <1>3, <1>4, <2>1 DEF UseInv, NothingInUseIsDestroyed
<1> QED BY <1>8, <1>9, <1>10, <1>11 DEF UseInv

LEMMA Wakeup_UseInv ==
  ASSUME IInv, UseInv,
         Notify \/ JoinNotify \/ (\E w \in Workers : SpuriousWakeup(w) /\ UNCHANGED Client)
  PROVE  UseInv'
<1>1. /\ PoolTypeOK /\ MainTypeOK
      /\ main = [pc |-> main.pc, call |-> main.call, handle |-> main.handle, sync |-> main.sync]
  BY TypeOKParts
<1>2. /\ UNCHANGED <<program, created, objects, destroyed, name, async_tracked, sync_fns, main_queue>>
      /\ \/ main.pc = "notify" /\ \E pc \in {"inline", "add"} : main' = [main EXCEPT !.pc = pc]
         \/ main.pc = "join_notify" /\ main' = [main EXCEPT !.pc = "join"]
         \/ main' = main
  BY DEF Notify, JoinNotify, Client, At, Goto, table_vars, track_vars
<1>3. (\A t \in Tasks : InUse(t)' <=> InUse(t)) /\ future' = future
  BY <1>1, Wakeup_IInv, WakeupKeeps DEF WakesUp
<1>4. \A t \in Tasks : Synced(t)' <=> Synced(t)
  BY <1>3 DEF Synced
<1>5. /\ ~Stopping' => ~Stopping
      /\ main' = main \/ main'.pc \notin {"sync", "drain", "destroy_now"}
  BY <1>1, <1>2 DEF Stopping
<1> QED BY <1>2, <1>3, <1>4, <1>5, UseKept, DestroyKept DEF UseInv

LEMMA RunInline_UseInv == ASSUME IInv, UseInv, RunInline PROVE UseInv'
<1>1. /\ PoolTypeOK /\ PoolInv /\ TablesTypeOK
      /\ main = [pc |-> main.pc, call |-> main.call, handle |-> main.handle, sync |-> main.sync]
  BY TypeOKParts
<1>2. /\ main.pc = "inline" /\ main' = [main EXCEPT !.pc = "add"] /\ PollInline
      /\ main_queue' = main_queue \o queue
      /\ UNCHANGED <<program, created, objects, destroyed, name, async_tracked, sync_fns>>
  BY DEF RunInline, At, Goto, table_vars, track_vars
<1>3. /\ \A t \in Tasks : ~InUse(t)' /\ (InUse(t) => t \in Elements(queue))
      /\ \A t \in Tasks : t \notin Elements(queue) => future'[t] = future[t]
  BY <1>1, <1>2, EmptyStep
<1>4. \A t \in Tasks : Synced(t) => Synced(t)'
  BY <1>1, <1>3 DEF Synced, PoolInv
<1>5. Elements(main_queue') = Elements(main_queue) \cup Elements(queue)
  BY <1>1, <1>2, ConcatElements DEF PoolTypeOK, TablesTypeOK
<1>6. main'.pc = "add" /\ ~Stopping /\ ~Stopping'
  BY <1>1, <1>2 DEF Stopping
<1>7. TrackInv' /\ DeferredInv' /\ NothingInUseIsDestroyed' /\ NamesAreSet'
  BY <1>2, <1>3, <1>4, <1>5, <1>6, UseKept
<1>8. DestroyInv'
  BY <1>6 DEF DestroyInv
<1> QED BY <1>7, <1>8 DEF UseInv

LEMMA FirstIsMade ==
  ASSUME FirstPipelineIsMade, program \in Programs, NEW t \in Tasks
  PROVE  First(t) \in Pipelines(t)
<1>1. 1 \in DOMAIN program[t].pipelines
  BY AsyncPipelinesAssumption
<1> QED BY <1>1 DEF FirstPipelineIsMade, First, Pipelines, Made, Elements

(* Once its first pipeline is in the table a task can be waited for.         *)
LEMMA AddHandleArrayAsync_UseInv ==
  ASSUME FirstPipelineIsMade, IInv, UseInv, AddHandleArrayAsync
  PROVE  UseInv'
<1>1. PoolTypeOK /\ TablesTypeOK
  BY TypeOKParts
<1>2. /\ main.pc = "add" /\ main' = Idle
      /\ UNCHANGED <<pool_vars, program, destroyed, name, async_tracked, sync_fns, main_queue>>
  BY DEF AddHandleArrayAsync, At, track_vars
<1>3. PICK t \in Tasks \ created : created' = created \cup {t} /\ objects' = objects \cup Pipelines(t)
  BY AddHandleArrayAsync_IInv
<1>4. /\ UNCHANGED <<Handles, AllPipelines>> /\ \A u \in Tasks : First(u)' = First(u)
      /\ program' = program
  BY <1>2 DEF Handles, AllPipelines, Pipelines, First
<1>5. /\ \A u \in Tasks : InUse(u)' <=> InUse(u)
      /\ \A u \in Tasks : Synced(u)' <=> Synced(u)
  BY <1>2 DEF InUse, Synced, pool_vars
<1>6. main'.pc = "idle" /\ ~Stopping
  BY <1>2 DEF Idle, Stopping
<1>7. First(t) \in Pipelines(t)
  BY <1>1, FirstIsMade DEF TablesTypeOK
<1>8. TrackInv'
  <2>1. \A u \in created' : First(u)' \in objects' \/ Synced(u)'
    BY <1>1, <1>3, <1>4, <1>5, <1>7 DEF UseInv, TrackInv, TablesTypeOK
  <2>2. \A h \in Handles : async_tracked[h] \subseteq Tasks
    BY <1>1 DEF TablesTypeOK
  <2> QED BY <1>2, <1>4, <1>5, <1>6, <2>1, <2>2 DEF UseInv, TrackInv
<1>9. DestroyInv'
  BY <1>6 DEF DestroyInv
<1>10. DeferredInv' /\ NamesAreSet' /\ NothingInUseIsDestroyed'
  BY <1>2, <1>4, <1>5 DEF UseInv, DeferredInv, NamesAreSet, NothingInUseIsDestroyed
<1> QED BY <1>8, <1>9, <1>10 DEF UseInv

(* A pipeline is destroyed after its lookup, which waits for its task, so    *)
(* that nobody has to wait through it any more.                              *)
LEMMA DestroyNow_UseInv ==
  ASSUME FirstPipelineIsMade, IInv, UseInv, DestroyNow
  PROVE  UseInv'
<1>1. PoolTypeOK /\ TablesTypeOK /\ CallInv
  BY TypeOKParts
<1>2. /\ main.pc = "destroy_now" /\ main' = Idle
      /\ objects' = objects \ {main.handle} /\ destroyed' = destroyed \cup {main.handle}
      /\ UNCHANGED <<pool_vars, program, created, name, async_tracked, sync_fns, main_queue>>
  BY DEF DestroyNow, At, track_vars
<1>3. /\ UNCHANGED <<Handles, AllPipelines>> /\ \A u \in Tasks : First(u)' = First(u)
      /\ program' = program
  BY <1>2 DEF Handles, AllPipelines, Pipelines, First
<1>4. /\ \A u \in Tasks : InUse(u)' <=> InUse(u)
      /\ \A u \in Tasks : Synced(u)' <=> Synced(u)
  BY <1>2 DEF InUse, Synced, pool_vars
<1>5. main'.pc = "idle" /\ ~Stopping
  BY <1>2 DEF Idle, Stopping
<1>6. /\ main.handle \in Handles /\ async_tracked[main.handle] = {} /\ LookedUp(main.handle)
  BY <1>1, <1>2 DEF UseInv, DestroyInv, CallInv, HasHandle, TablesTypeOK
<1>7. TrackInv'
  <2>1. ASSUME NEW u \in created
        PROVE  First(u)' \in objects' \/ Synced(u)'
    <3>1. u \in Tasks /\ (First(u) \in objects \/ Synced(u))
      BY <1>1 DEF UseInv, TrackInv, TablesTypeOK
    <3>2. CASE Synced(u) \/ First(u) # main.handle
      BY <1>2, <1>3, <1>4, <3>1, <3>2
    <3>3. CASE First(u) = main.handle /\ First(u) \in objects
      <4>1. First(u) \in Pipelines(u)
        BY <1>1, <3>1, FirstIsMade DEF TablesTypeOK
      <4>2. TaskOf(main.handle) = u /\ main.handle \in AllPipelines
        BY <1>1, <3>1, <3>3, <4>1, ProgramFacts DEF TablesTypeOK, AllPipelines
      <4> QED BY <1>4, <1>6, <3>1, <4>2 DEF LookedUp
    <3> QED BY <3>1, <3>2, <3>3
  <2>2. \A h \in Handles : async_tracked[h] \subseteq Tasks
    BY <1>1 DEF TablesTypeOK
  <2> QED BY <1>2, <1>3, <1>4, <1>5, <2>1, <2>2 DEF UseInv, TrackInv
<1>8. DestroyInv'
  BY <1>5 DEF DestroyInv
<1>9. DeferredInv' /\ NamesAreSet'
  BY <1>2, <1>3, <1>6 DEF UseInv, DeferredInv, NamesAreSet
<1>10. NothingInUseIsDestroyed'
  <2>1. \A u \in Tasks : InUse(u) => main.handle \notin program[u].uses
    BY <1>6 DEF UseInv, TrackInv
  <2> QED BY <1>2, <1>3, <1>4, <2>1 DEF UseInv, NothingInUseIsDestroyed
<1> QED BY <1>7, <1>8, <1>9, <1>10 DEF UseInv

LEMMA Stopping_UseInv ==
  ASSUME IInv, UseInv, StopReplay \/ JoinAll
  PROVE  UseInv'
<1>1. /\ PoolTypeOK /\ PoolInv
      /\ main = [pc |-> main.pc, call |-> main.call, handle |-> main.handle, sync |-> main.sync]
  BY TypeOKParts
<1>2. /\ \E pc \in {"join_notify", "last_poll"} : main' = [main EXCEPT !.pc = pc]
      /\ UNCHANGED <<program, created, objects, destroyed, name, async_tracked, sync_fns, main_queue>>
  BY DEF StopReplay, JoinAll, At, Goto, table_vars, track_vars
<1>3. Stopping' /\ main'.pc \notin {"sync", "drain", "destroy_now"}
  BY <1>1, <1>2 DEF Stopping
<1>4. \A t \in Tasks : InUse(t)' => InUse(t)
  BY Stopping_IInv
<1>5. \A t \in Tasks : Synced(t) => Synced(t)'
  <2>1. CASE StopReplay
    <3>1. Stop
      BY <2>1 DEF StopReplay
    <3>2. \A t \in Tasks : Synced(t) => future'[t] = future[t]
      BY <1>1, <3>1, EmptyStep DEF PoolInv, Synced
    <3> QED BY <3>2 DEF Synced
  <2>2. CASE JoinAll
    BY <2>2 DEF JoinAll, Join, Synced
  <2> QED BY <2>1, <2>2
<1> QED BY <1>2, <1>3, <1>4, <1>5, UseKept, DestroyKept DEF UseInv

LEMMA Worker_UseInv ==
  ASSUME IInv, UseInv, NEW w \in Workers, WorkerStep(w)
  PROVE  UseInv'
<1>1. /\ PoolTypeOK /\ PoolInv /\ TablesTypeOK
  BY TypeOKParts
<1>2. /\ main' = main
      /\ UNCHANGED <<program, created, objects, destroyed, name, async_tracked, sync_fns>>
  BY DEF WorkerStep, Client, PostClear, table_vars, track_vars
<1>3. Stopping' <=> Stopping
  BY <1>2 DEF Stopping
<1>4. /\ \A t \in Tasks : InUse(t)' => InUse(t)
      /\ \A t \in Tasks : Synced(t) => Synced(t)'
      /\ \A t \in Tasks : InUse(t) \/ t \in Elements(main_queue) => InUse(t)' \/ t \in Elements(main_queue')
  <2>1. CASE (Check(w) \/ Return(w)) /\ UNCHANGED Client
    <3>1. \A t \in Tasks : InUse(t)' <=> InUse(t)
      BY <1>1, <2>1, CheckStep, ReturnStep
    <3>2. CASE Check(w)
      BY <1>1, <2>1, <3>1, <3>2, CheckStep DEF Synced, Client
    <3>3. CASE Return(w)
      <4>1. future' = [future EXCEPT ![worker[w].task] = "ready"]
        BY <1>1, <3>3, ReturnStep
      <4>2. \A t \in Tasks : future'[t] \in {future[t], "ready"}
        BY <1>1, <4>1 DEF PoolTypeOK
      <4> QED BY <2>1, <3>1, <4>2 DEF Synced, Client
    <3> QED BY <2>1, <3>2, <3>3
  <2>2. CASE PostClear(w)
    <3>1. /\ worker[w].task \in Tasks /\ future' = future
          /\ \A t \in Tasks : InUse(t)' <=> InUse(t) /\ t # worker[w].task
      BY <1>1, <2>2, PostClearStep
    <3>2. main_queue' = Append(main_queue, worker[w].task)
      BY <2>2 DEF PostClear
    <3>3. Elements(main_queue') = Elements(main_queue) \cup {worker[w].task}
      BY <1>1, <3>1, <3>2, AppendElements DEF TablesTypeOK
    <3> QED BY <3>1, <3>3 DEF Synced
  <2> QED BY <2>1, <2>2 DEF WorkerStep
<1> QED BY <1>2, <1>3, <1>4, UseKept, DestroyKept DEF UseInv

LEMMA Next_UseInv ==
  ASSUME FirstPipelineIsMade, IInv, UseInv, [Next]_vars
  PROVE  UseInv'
<1>1. CASE UNCHANGED vars
  <2>1. UNCHANGED <<pool_vars, program, main, created, objects, destroyed, name, async_tracked, sync_fns, main_queue>>
    BY <1>1 DEF vars, table_vars, track_vars
  <2>2. /\ \A t \in Tasks : InUse(t)' <=> InUse(t)
        /\ \A t \in Tasks : Synced(t)' <=> Synced(t)
        /\ Stopping' <=> Stopping
    BY <2>1 DEF InUse, Synced, Stopping, pool_vars
  <2> QED BY <2>1, <2>2, UseKept, DestroyKept DEF UseInv
<1>2. CASE Next
  <2>1. ASSUME NEW call \in {"create", "use", "name", "destroy"}, NEW h \in Handles \cup {Null},
               StartBlock(call, h)
        PROVE  UseInv'
    BY <2>1, StartBlock_UseInv
  <2>2. CASE PollDone
    BY <2>2, PollDone_UseInv
  <2>3. CASE Use \/ Destroy \/ (\E t \in Tasks : SyncTask(t)) \/ SyncDone
    BY <2>3, Call_UseInv
  <2>4. CASE Name
    BY <2>4, Name_UseInv
  <2>5. CASE PollTask
    BY <2>5, PollTask_UseInv
  <2>6. CASE TrackAndPost
    BY <2>6, TrackAndPost_UseInv
  <2>7. CASE Notify \/ JoinNotify \/ \E w \in Workers : SpuriousWakeup(w) /\ UNCHANGED Client
    BY <2>7, Wakeup_UseInv
  <2>8. CASE RunInline
    BY <2>8, RunInline_UseInv
  <2>9. CASE AddHandleArrayAsync
    BY <2>9, AddHandleArrayAsync_UseInv
  <2>10. CASE DestroyNow
    BY <2>10, DestroyNow_UseInv
  <2>11. CASE StopReplay \/ JoinAll
    BY <2>11, Stopping_UseInv
  <2>12. ASSUME NEW w \in Workers, WorkerStep(w)
         PROVE  UseInv'
    BY <2>12, Worker_UseInv
  <2> QED BY <1>2, <2>1, <2>2, <2>3, <2>4, <2>5, <2>6, <2>7, <2>8, <2>9, <2>10, <2>11, <2>12
      DEF Next, MainStep
<1> QED BY <1>1, <1>2

(* The inductive invariant of TrackAsyncHandles, ClearAsyncHandles and       *)
(* DestroyAsyncHandle; what the latter asserts is its destroy_now conjunct.  *)
THEOREM UseInvariance == ASSUME FirstPipelineIsMade PROVE Spec => []UseInv
<1>1. Init => UseInv
  BY Init_UseInv
<1>2. IInv /\ UseInv /\ [Next]_vars => UseInv'
  BY Next_UseInv
<1> QED BY <1>1, <1>2, Invariance, PTL DEF Spec

(* Destroying an object that tasks of the pool use waits for all of them,    *)
(* whether they are queued, running, or have returned.                       *)
THEOREM NothingInUseIsDestroyedCorrect ==
  ASSUME FirstPipelineIsMade PROVE Spec => []NothingInUseIsDestroyed
<1>1. UseInv => NothingInUseIsDestroyed
  BY DEF UseInv
<1> QED BY <1>1, UseInvariance, PTL

(* A name that was deferred has been set when its pipeline is destroyed.     *)
THEOREM NamesAreSetCorrect == ASSUME FirstPipelineIsMade PROVE Spec => []NamesAreSet
<1>1. UseInv => NamesAreSet
  BY DEF UseInv
<1> QED BY <1>1, UseInvariance, PTL

(* DestroyAsyncHandle asserts that polling the main queue has cleared the    *)
(* handle; it has.                                                           *)
HandleIsCleared == main.pc = "destroy_now" => async_tracked[main.handle] = {}
THEOREM HandleIsClearedCorrect == ASSUME FirstPipelineIsMade PROVE Spec => []HandleIsCleared
<1>1. UseInv => HandleIsCleared
  BY DEF UseInv, DestroyInv, HandleIsCleared
<1> QED BY <1>1, UseInvariance, PTL

=============================================================================
