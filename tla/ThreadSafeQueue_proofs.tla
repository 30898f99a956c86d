----------------------- MODULE ThreadSafeQueue_proofs -----------------------
(***************************************************************************)
(* What holds of ThreadSafeQueue for any number of producers and values:   *)
(* types, that the content is the latest pushes without a gap, and that    *)
(* every step is one of QueueContract or changes nothing there.            *)
(*                                                                         *)
(* The invariant that carries all three is that the stores are exchanged   *)
(* only when the consumer store is empty, because only the one consumer    *)
(* fills it.                                                               *)
(***************************************************************************)
EXTENDS ThreadSafeQueue, SequenceTheorems, TLAPS

StoresInv ==
  \A c \in Consumers : pc[c] \in {"lock", "try_lock"} => sc_queue = <<>>

IInv == TypeOK /\ StoresInv /\ ContentIsLatestPushes

-----------------------------------------------------------------------------
(* What the operations on sequences do to the content                        *)

LEMMA AppendToContent ==
  ASSUME NEW S, NEW s \in Seq(S), NEW t \in Seq(S), NEW v \in S
  PROVE  /\ Append(t, v) \in Seq(S)
         /\ s \o Append(t, v) = Append(s \o t, v)
<1>1. Append(t, v) = t \o <<v>> /\ <<v>> \in Seq(S)
  OBVIOUS
<1>2. s \o t \in Seq(S)
  BY ConcatProperties
<1>3. Append(s \o t, v) = (s \o t) \o <<v>>
  BY <1>2
<1>4. (s \o t) \o <<v>> = s \o (t \o <<v>>)
  BY <1>1, ConcatAssociative
<1> QED BY <1>1, <1>3, <1>4

LEMMA TakeFromContent ==
  ASSUME NEW S, NEW s \in Seq(S), NEW t \in Seq(S), s # <<>>
  PROVE  /\ Head(s) \in S /\ Tail(s) \in Seq(S)
         /\ s \o t # <<>>
         /\ Head(s \o t) = Head(s)
         /\ Tail(s \o t) = Tail(s) \o t
<1>1. /\ Len(s) \in Nat \ {0}
      /\ s \o t \in Seq(S)
      /\ Len(s \o t) = Len(s) + Len(t)
      /\ \A i \in 1 .. Len(s) + Len(t) :
           (s \o t)[i] = IF i <= Len(s) THEN s[i] ELSE t[i - Len(s)]
  BY ConcatProperties, EmptySeq
<1>2. Len(t) \in Nat
  BY LenProperties
<1>3. s \o t # <<>>
  BY <1>1, <1>2, EmptySeq
<1>4. /\ Head(s) \in S /\ Tail(s) \in Seq(S)
      /\ Len(Tail(s)) = Len(s) - 1
      /\ \A i \in 1 .. Len(Tail(s)) : Tail(s)[i] = s[i + 1]
  BY HeadTailProperties
<1>5. /\ Tail(s \o t) \in Seq(S)
      /\ Len(Tail(s \o t)) = Len(s \o t) - 1
      /\ \A i \in 1 .. Len(Tail(s \o t)) : Tail(s \o t)[i] = (s \o t)[i + 1]
  BY <1>1, <1>3, HeadTailProperties
<1>6. /\ Tail(s) \o t \in Seq(S)
      /\ Len(Tail(s) \o t) = Len(s) - 1 + Len(t)
      /\ \A i \in 1 .. Len(s) - 1 + Len(t) :
           (Tail(s) \o t)[i] = IF i <= Len(s) - 1 THEN Tail(s)[i] ELSE t[i - (Len(s) - 1)]
  BY <1>4, ConcatProperties
<1>7. \A i \in 1 .. Len(Tail(s) \o t) : (Tail(s) \o t)[i] = Tail(s \o t)[i]
  <2> SUFFICES ASSUME NEW i \in 1 .. Len(s) - 1 + Len(t)
               PROVE  (Tail(s) \o t)[i] = Tail(s \o t)[i]
    BY <1>6
  <2>1. Tail(s \o t)[i] = (s \o t)[i + 1]
    BY <1>1, <1>2, <1>5
  <2>2. (s \o t)[i + 1] = IF i + 1 <= Len(s) THEN s[i + 1] ELSE t[i + 1 - Len(s)]
    BY <1>1, <1>2
  <2>3. (Tail(s) \o t)[i] = IF i <= Len(s) - 1 THEN Tail(s)[i] ELSE t[i - (Len(s) - 1)]
    BY <1>6
  <2>4. i <= Len(s) - 1 <=> i + 1 <= Len(s)
    BY <1>1
  <2>5. i - (Len(s) - 1) = i + 1 - Len(s)
    BY <1>1
  <2>6. i <= Len(s) - 1 => Tail(s)[i] = s[i + 1]
    BY <1>1, <1>4
  <2> QED BY <2>1, <2>2, <2>3, <2>4, <2>5, <2>6
<1>8. Tail(s) \o t = Tail(s \o t)
  BY <1>1, <1>2, <1>5, <1>6, <1>7, SeqEqual
<1>9. Head(s \o t) = Head(s)
  BY <1>1, <1>2
<1> QED BY <1>3, <1>4, <1>8, <1>9

-----------------------------------------------------------------------------
(* The effect of each step on the content, which is all that the content's   *)
(* invariant and the refinement need to know of the two stores               *)

LEMMA EmplaceContent ==
  ASSUME TypeOK, NEW p \in Producers, Emplace(p)
  PROVE  /\ pushes + 1 \in Values
         /\ mp_queue' \in Seq(Values)
         /\ Content' = Append(Content, pushes')
<1>1. pushes + 1 \in Values /\ pushes' = pushes + 1
  BY BoundAssumption DEF Emplace, TypeOK, Values
<1>2. mp_queue' = Append(mp_queue, pushes + 1) /\ sc_queue' = sc_queue
  BY DEF Emplace
<1> QED BY <1>1, <1>2, AppendToContent DEF Content, TypeOK

LEMMA SwapContent ==
  ASSUME TypeOK, StoresInv, NEW c \in Consumers, Swap(c)
  PROVE  /\ sc_queue = <<>>
         /\ Content = mp_queue /\ Content' = mp_queue
<1>1. sc_queue = <<>>
  BY DEF Swap, Locked, StoresInv
<1>2. sc_queue' = mp_queue /\ mp_queue' = <<>>
  BY <1>1 DEF Swap
<1> QED BY <1>1, <1>2, ConcatEmptySeq DEF Content, TypeOK

LEMMA TakeContent ==
  ASSUME TypeOK, StoresInv, NEW c \in Consumers, Take(c), sc_queue # <<>>
  PROVE  /\ Content # <<>>
         /\ Head(sc_queue) \in Values /\ sc_queue' \in Seq(Values)
         /\ got' = [got EXCEPT ![c] = Head(Content)]
         /\ Content' = Tail(Content)
<1>1. /\ sc_queue' = Tail(sc_queue) /\ mp_queue' = mp_queue
      /\ got' = [got EXCEPT ![c] = Head(sc_queue)]
  BY DEF Take
<1> QED BY <1>1, TakeFromContent DEF Content, TypeOK

(* The steps that move nothing.                                               *)
LEMMA OtherContent ==
  ASSUME UNCHANGED <<mp_queue, sc_queue>>
  PROVE  Content' = Content
BY DEF Content

-----------------------------------------------------------------------------
(* The inductive invariant                                                   *)

LEMMA InitIInv == Init => IInv
<1> SUFFICES ASSUME Init PROVE IInv
  OBVIOUS
<1>1. TypeOK
  BY BoundAssumption DEF Init, TypeOK, Values
<1>2. StoresInv
  BY DEF Init, StoresInv
<1>3. Content = <<>>
  BY ConcatEmptySeq, EmptySeq DEF Init, Content
<1>4. ContentIsLatestPushes
  BY <1>3 DEF ContentIsLatestPushes
<1> QED BY <1>1, <1>2, <1>4 DEF IInv

LEMMA TypeStep == TypeOK /\ StoresInv /\ Next => TypeOK'
<1> SUFFICES ASSUME TypeOK, StoresInv, Next PROVE TypeOK'
  OBVIOUS
<1> USE DEF TypeOK, Goto
<1>1. ASSUME NEW p \in Producers, Emplace(p) PROVE TypeOK'
  <2>1. mp_queue' \in Seq(Values)
    BY <1>1, EmplaceContent
  <2>2. pushes' \in 0 .. MaxPushes
    BY <1>1, BoundAssumption DEF Emplace
  <2> QED BY <1>1, <2>1, <2>2 DEF Emplace
<1>2. ASSUME NEW p \in Producers, NotifyOne(p) \/ Close(p) \/ NotifyAll(p) PROVE TypeOK'
  BY <1>2 DEF NotifyOne, Close, NotifyAll
<1>3. ASSUME NEW c \in Consumers, CallPop(c) \/ CallTryPop(c) PROVE TypeOK'
  BY <1>3 DEF CallPop, CallTryPop, StartPop
<1>4. ASSUME NEW c \in Consumers, Block(c) \/ SpuriousWakeup(c) PROVE TypeOK'
  BY <1>4 DEF Block, SpuriousWakeup
<1>5. ASSUME NEW c \in Consumers, Swap(c) PROVE TypeOK'
  BY <1>5 DEF Swap
<1>6. ASSUME NEW c \in Consumers, Take(c) PROVE TypeOK'
  <2>1. CASE sc_queue = <<>>
    BY <1>6, <2>1 DEF Take
  <2>2. CASE sc_queue # <<>>
    <3>1. Head(sc_queue) \in Values /\ sc_queue' \in Seq(Values)
      BY <1>6, <2>2, TakeContent
    <3> QED BY <1>6, <2>2, <3>1 DEF Take
  <2> QED BY <2>1, <2>2
<1> QED BY <1>1, <1>2, <1>3, <1>4, <1>5, <1>6
        DEF Next, ProducerStep, ConsumerStep

(* Producers leave the consumer and its store alone; the consumer is at the   *)
(* lock only with an empty store.                                             *)
LEMMA StoresStep == TypeOK /\ StoresInv /\ Next => StoresInv'
<1> SUFFICES ASSUME TypeOK, StoresInv, Next PROVE StoresInv'
  OBVIOUS
<1> USE DEF TypeOK, StoresInv, Goto
<1>1. ASSUME NEW p \in Producers, ProducerStep(p) PROVE StoresInv'
  <2>1. sc_queue' = sc_queue /\ \A c \in Consumers : pc'[c] = pc[c]
    BY <1>1, ThreadsAssumption DEF ProducerStep, Emplace, NotifyOne, Close, NotifyAll
  <2> QED BY <2>1
<1>2. ASSUME NEW c \in Consumers, CallPop(c) \/ CallTryPop(c) PROVE StoresInv'
  BY <1>2, ThreadsAssumption DEF CallPop, CallTryPop, StartPop
<1>3. ASSUME NEW c \in Consumers, Block(c) \/ SpuriousWakeup(c) PROVE StoresInv'
  BY <1>3 DEF Block, SpuriousWakeup
<1>4. ASSUME NEW c \in Consumers, Swap(c) PROVE StoresInv'
  BY <1>4, ThreadsAssumption DEF Swap
<1>5. ASSUME NEW c \in Consumers, Take(c) PROVE StoresInv'
  BY <1>5, ThreadsAssumption DEF Take
<1> QED BY <1>1, <1>2, <1>3, <1>4, <1>5 DEF Next, ConsumerStep

(* One push more at the end, or one value less at the front.                  *)
LEMMA LatestAfterAppend ==
  ASSUME NEW s \in Seq(Values), NEW n \in Nat,
         \A i \in 1 .. Len(s) : s[i] = n - Len(s) + i
  PROVE  LET t == Append(s, n + 1)
         IN \A i \in 1 .. Len(t) : t[i] = n + 1 - Len(t) + i
<1>1. Len(s) \in Nat
  BY LenProperties
<1> QED BY <1>1

LEMMA LatestAfterTail ==
  ASSUME NEW s \in Seq(Values), s # <<>>, NEW n \in Nat,
         \A i \in 1 .. Len(s) : s[i] = n - Len(s) + i
  PROVE  LET t == Tail(s)
         IN \A i \in 1 .. Len(t) : t[i] = n - Len(t) + i
<1>1. Len(s) \in Nat \ {0}
  BY EmptySeq
<1>2. /\ Len(Tail(s)) = Len(s) - 1
      /\ \A i \in 1 .. Len(Tail(s)) : Tail(s)[i] = s[i + 1]
  BY HeadTailProperties
<1> QED BY <1>1, <1>2

LEMMA ContentStep == IInv /\ Next => ContentIsLatestPushes'
<1> SUFFICES ASSUME TypeOK, StoresInv, ContentIsLatestPushes, Next
             PROVE  ContentIsLatestPushes'
  BY DEF IInv
<1>0. Content \in Seq(Values) /\ pushes \in Nat
  BY ConcatProperties, BoundAssumption DEF Content, TypeOK
<1>same. ASSUME Content' = Content, pushes' = pushes PROVE ContentIsLatestPushes'
  BY <1>same DEF ContentIsLatestPushes
<1>tail. ASSUME Content # <<>>, Content' = Tail(Content), pushes' = pushes
         PROVE  ContentIsLatestPushes'
  BY <1>0, <1>tail, LatestAfterTail DEF ContentIsLatestPushes
<1>1. ASSUME NEW p \in Producers, Emplace(p) PROVE ContentIsLatestPushes'
  <2>1. Content' = Append(Content, pushes + 1) /\ pushes' = pushes + 1
    BY <1>1, EmplaceContent DEF Emplace
  <2> QED BY <1>0, <2>1, LatestAfterAppend DEF ContentIsLatestPushes
<1>2. ASSUME NEW p \in Producers, NotifyOne(p) \/ Close(p) \/ NotifyAll(p)
      PROVE  ContentIsLatestPushes'
  BY <1>2, <1>same, OtherContent DEF NotifyOne, Close, NotifyAll
<1>3. ASSUME NEW c \in Consumers,
             CallPop(c) \/ CallTryPop(c) \/ Block(c) \/ SpuriousWakeup(c)
      PROVE  ContentIsLatestPushes'
  BY <1>3, <1>same, OtherContent DEF CallPop, CallTryPop, StartPop, Block, SpuriousWakeup
<1>4. ASSUME NEW c \in Consumers, Swap(c) PROVE ContentIsLatestPushes'
  <2>1. Content' = Content
    BY <1>4, SwapContent
  <2> QED BY <1>4, <2>1, <1>same DEF Swap
<1>5. ASSUME NEW c \in Consumers, Take(c) PROVE ContentIsLatestPushes'
  <2>1. pushes' = pushes
    BY <1>5 DEF Take
  <2>2. CASE sc_queue = <<>>
    BY <1>5, <2>1, <2>2, <1>same, OtherContent DEF Take
  <2>3. CASE sc_queue # <<>>
    BY <1>5, <2>1, <2>3, <1>tail, TakeContent
  <2> QED BY <2>2, <2>3
<1> QED BY <1>1, <1>2, <1>3, <1>4, <1>5 DEF Next, ProducerStep, ConsumerStep

LEMMA NextIInv == IInv /\ [Next]_vars => IInv'
<1> SUFFICES ASSUME IInv, [Next]_vars PROVE IInv'
  OBVIOUS
<1>1. CASE Next
  BY <1>1, TypeStep, StoresStep, ContentStep DEF IInv
<1>2. CASE UNCHANGED vars
  BY <1>2 DEF vars, IInv, TypeOK, StoresInv, ContentIsLatestPushes, Content
<1> QED BY <1>1, <1>2

LEMMA Invariance == Spec => []IInv
BY InitIInv, NextIInv, PTL DEF Spec

-----------------------------------------------------------------------------
(* For any number of producers and values the fields of the queue and the     *)
(* states of its calls have their types.                                      *)
THEOREM TypeCorrect == Spec => []TypeOK
<1>1. IInv => TypeOK
  BY DEF IInv
<1> QED BY <1>1, Invariance, PTL

(* However pushes, pops and exchanges of the two stores interleave, the queue *)
(* holds the latest pushes in order, without a gap.                           *)
THEOREM NothingLostOrReordered == Spec => []ContentIsLatestPushes
<1>1. IInv => ContentIsLatestPushes
  BY DEF IInv
<1> QED BY <1>1, Invariance, PTL

-----------------------------------------------------------------------------
(* The implementation of the closable FIFO                                   *)

(* A step that neither answers a consumer nor moves one, seen from above.     *)
LEMMA SameConsumers ==
  ASSUME sc_queue' = sc_queue, got' = got, \A c \in Consumers : pc'[c] = pc[c]
  PROVE  Owed' = Owed /\ Answered' = Answered
BY DEF Owed, Answered

(* A single consumer is the only one there is.                                *)
LEMMA OneConsumer ==
  ASSUME NEW c \in Consumers, NEW d \in Consumers
  PROVE  d = c
BY ThreadsAssumption

LEMMA ProducerRefines ==
  ASSUME IInv, NEW p \in Producers, ProducerStep(p)
  PROVE  Abstract!Next \/ UNCHANGED Abstract!vars
<1> USE DEF IInv
<1>1. /\ Owed' = Owed /\ Answered' = Answered
  <2>1. got' = got /\ sc_queue' = sc_queue /\ \A c \in Consumers : pc'[c] = pc[c]
    BY ThreadsAssumption DEF ProducerStep, Emplace, NotifyOne, Close, NotifyAll, Goto, TypeOK
  <2> QED BY <2>1, SameConsumers
<1>2. CASE Emplace(p)
  <2>1. open /\ open' = open /\ pushes + 1 \in Values
    BY <1>2, EmplaceContent DEF Emplace
  <2>2. Content' = Append(Content, pushes + 1)
    BY <1>2, EmplaceContent DEF Emplace
  <2>3. Abstract!Push(pushes + 1) /\ Owed' = Owed
    BY <1>1, <2>1, <2>2 DEF Abstract!Push, Content
  <2> QED BY <2>1, <2>3 DEF Abstract!Next
<1>3. CASE Close(p)
  <2>1. Abstract!Close /\ Owed' = Owed
    BY <1>1, <1>3 DEF Close, Abstract!Close
  <2> QED BY <2>1 DEF Abstract!Next
<1>4. CASE NotifyOne(p) \/ NotifyAll(p)
  BY <1>1, <1>4 DEF NotifyOne, NotifyAll, Abstract!vars
<1> QED BY <1>2, <1>3, <1>4 DEF ProducerStep

LEMMA StartPopRefines ==
  ASSUME IInv, NEW c \in Consumers, CallPop(c) \/ CallTryPop(c)
  PROVE  Abstract!Next \/ UNCHANGED Abstract!vars
<1> USE DEF IInv, TypeOK
<1>1. UNCHANGED <<mp_queue, sc_queue, open, got>>
  BY DEF CallPop, CallTryPop, StartPop
<1>2. PICK l \in {"take", "lock", "try_lock"} :
        /\ pc[c] = "idle" /\ pc' = [pc EXCEPT ![c] = l]
        /\ l = "take" => sc_queue # <<>>
  BY Zenon DEF CallPop, CallTryPop, StartPop, Goto
<1>3. pc'[c] = l /\ \A d \in Consumers \ {c} : pc'[d] = pc[d]
  BY <1>2
<1>4. Answered' = Answered
  BY <1>1, <1>2, <1>3 DEF Answered
<1>5. CASE l = "try_lock"
  <2>1. Owed' = Owed
    BY <1>1, <1>2, <1>3, <1>5 DEF Owed
  <2> QED BY <1>1, <1>4, <2>1 DEF Abstract!vars
<1>6. CASE l # "try_lock"
  <2>1. Owed' = Owed \cup {c}
    BY <1>1, <1>2, <1>3, <1>6 DEF Owed
  <2>2. Abstract!CallPop(c)
    BY <1>1, <1>4, <2>1 DEF Abstract!CallPop
  <2> QED BY <2>2 DEF Abstract!Next
<1> QED BY <1>5, <1>6

(* The exchange of the stores answers the consumer if both are empty.         *)
LEMMA SwapRefines ==
  ASSUME IInv, NEW c \in Consumers, Swap(c)
  PROVE  Abstract!Next \/ UNCHANGED Abstract!vars
<1> USE DEF IInv, TypeOK
<1>1. /\ sc_queue = <<>> /\ sc_queue' = mp_queue
      /\ open' = open /\ got' = got
      /\ Content = mp_queue /\ Content' = mp_queue
      /\ Locked(c)
  BY SwapContent DEF Swap
<1>2. pc'[c] = "take" /\ pc[c] \in {"lock", "try_lock"}
  BY DEF Swap, Locked, Goto
<1>3. \A d \in Consumers : d = c
  BY OneConsumer
<1>4. CASE mp_queue = <<>>
  <2>1. Owed' = {} /\ Owed = IF pc[c] = "lock" THEN {c} ELSE {}
    BY <1>1, <1>2, <1>3, <1>4 DEF Owed
  <2>2. Answered' = [Answered EXCEPT ![c] = NoValue]
    BY <1>1, <1>2, <1>3, <1>4 DEF Answered
  <2>3. CASE pc[c] = "lock"
    <3>1. ~open
      BY <1>1, <1>4, <2>3 DEF Locked, Ready
    <3>2. Abstract!Return(c)
      BY <1>1, <1>4, <2>1, <2>2, <2>3, <3>1 DEF Abstract!Return, Abstract!PopClosed,
               Abstract!TryPopEmpty, Content
    <3> QED BY <3>2 DEF Abstract!Next
  <2>4. CASE pc[c] = "try_lock"
    <3>1. Abstract!Return(c)
      BY <1>1, <1>4, <2>1, <2>2, <2>4 DEF Abstract!Return, Abstract!TryPopEmpty, Content
    <3> QED BY <3>1 DEF Abstract!Next
  <2> QED BY <1>2, <2>3, <2>4
<1>5. CASE mp_queue # <<>>
  <2>1. Owed' = {c} /\ Owed = IF pc[c] = "lock" THEN {c} ELSE {}
    BY <1>1, <1>2, <1>3, <1>5 DEF Owed
  <2>2. Answered' = Answered
    BY <1>1, <1>2, <1>3, <1>5 DEF Answered
  <2>3. Abstract!CallPop(c)
    BY <1>1, <2>1, <2>2 DEF Abstract!CallPop, Content
  <2> QED BY <2>3 DEF Abstract!Next
<1> QED BY <1>4, <1>5

LEMMA TakeRefines ==
  ASSUME IInv, NEW c \in Consumers, Take(c)
  PROVE  Abstract!Next \/ UNCHANGED Abstract!vars
<1> USE DEF IInv, TypeOK
<1>1. /\ pc[c] = "take" /\ pc'[c] = "idle"
      /\ mp_queue' = mp_queue /\ open' = open
  BY DEF Take, Goto
<1>3. \A d \in Consumers : d = c
  BY OneConsumer
<1>4. CASE sc_queue = <<>>
  <2>1. sc_queue' = sc_queue /\ got' = [got EXCEPT ![c] = NoValue]
    BY <1>4 DEF Take
  <2>2. Owed' = Owed /\ Answered' = Answered
    BY <1>1, <1>3, <1>4, <2>1 DEF Owed, Answered
  <2> QED BY <1>1, <2>1, <2>2 DEF Abstract!vars
<1>5. CASE sc_queue # <<>>
  <2>1. /\ Content # <<>>
        /\ got' = [got EXCEPT ![c] = Head(Content)]
        /\ Content' = Tail(Content)
    BY <1>5, TakeContent
  <2>2. Owed' = Owed \ {c}
    BY <1>1, <1>3 DEF Owed
  <2>3. Answered' = [Answered EXCEPT ![c] = Head(Content)]
    BY <1>1, <1>3, <1>5, <2>1 DEF Answered
  <2>4. Abstract!Return(c)
    BY <1>1, <2>1, <2>2, <2>3 DEF Abstract!Return, Abstract!Pop, Content
  <2> QED BY <2>4 DEF Abstract!Next
<1> QED BY <1>4, <1>5

LEMMA StepRefines ==
  ASSUME IInv, [Next]_vars
  PROVE  [Abstract!Next]_(Abstract!vars)
<1>1. ASSUME NEW p \in Producers, ProducerStep(p)
      PROVE  Abstract!Next \/ UNCHANGED Abstract!vars
  BY <1>1, ProducerRefines
<1>2. ASSUME NEW c \in Consumers, ConsumerStep(c)
      PROVE  Abstract!Next \/ UNCHANGED Abstract!vars
  <2>1. CASE Block(c) \/ SpuriousWakeup(c)
    <3>1. UNCHANGED <<mp_queue, sc_queue, open, pc, got>>
      BY <2>1 DEF Block, SpuriousWakeup
    <3> QED BY <3>1, SameConsumers DEF Abstract!vars
  <2> QED BY <1>2, <2>1, StartPopRefines, SwapRefines, TakeRefines
          DEF ConsumerStep
<1>3. CASE UNCHANGED vars
  BY <1>3, SameConsumers DEF vars, Abstract!vars
<1> QED BY <1>1, <1>2, <1>3 DEF Next

LEMMA InitRefines == Init => Abstract!ContractInit
<1> SUFFICES ASSUME Init PROVE Abstract!ContractInit
  OBVIOUS
<1>1. sc_queue \o mp_queue = <<>>
  BY ConcatEmptySeq, EmptySeq DEF Init
<1>2. Owed = {} /\ Answered = [c \in Consumers |-> NoValue]
  BY DEF Init, Owed, Answered
<1> QED BY <1>1, <1>2 DEF Init, Abstract!ContractInit, Abstract!Init

(* The queue implements the closable FIFO: to any number of threads every     *)
(* operation takes effect in one step, between its call and its return, and a *)
(* waiting pop comes back with nothing only from a closed and empty queue.    *)
THEOREM Implements == Spec => ImplementsQueueContract
BY Invariance, InitRefines, StepRefines, PTL
   DEF Spec, ImplementsQueueContract, Abstract!Spec
=============================================================================
