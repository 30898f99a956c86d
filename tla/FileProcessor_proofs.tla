------------------------ MODULE FileProcessor_proofs ------------------------
(***************************************************************************)
(* Lemmas about the operators of BlockStream and FileProcessor, for every  *)
(* capture, position and queue of entries: what the cutting into frames    *)
(* does to a position, what ProcessBlocks reads, and what the replay of a  *)
(* frame takes.  The proofs about SyncReplay and AsyncReplay rest on them. *)
(***************************************************************************)
EXTENDS FileProcessor, FrameScript, FiniteSetTheorems, WellFoundedInduction, TLAPS

(* The searches of the models are for the first place that has what is looked *)
(* for; there is one.                                                         *)
LEMMA LeastExists ==
  ASSUME NEW S, S \subseteq Nat, S # {}
  PROVE  \E m \in S : \A k \in S : m <= k
<1> DEFINE Below == {0..t : t \in S}
<1>1. PICK least \in Below :
        \A other \in Below : ~ (<<other, least>> \in StrictSubsetOrdering(Nat))
  <2>1. Below \subseteq FiniteSubsetsOf(Nat)
    <3>1. \A t \in S : IsFiniteSet(0..t) /\ 0..t \subseteq Nat
      BY FS_Interval
    <3> QED BY <3>1 DEF FiniteSubsetsOf
  <2>2. Below # {}
    OBVIOUS
  <2> HIDE DEF Below
  <2> QED BY <2>1, <2>2, FS_StrictSubsetOrderingWellFounded, WFMin
<1>2. \A t, u \in Nat : ~ (<<0..u, 0..t>> \in StrictSubsetOrdering(Nat)) => t <= u
  <2>1. \A t, u \in Nat : u < t => 0..u \in SUBSET Nat /\ 0..t \in SUBSET Nat /\ 0..u \subseteq 0..t
                                   /\ t \in 0..t /\ t \notin 0..u
    OBVIOUS
  <2>2. \A t, u \in Nat : u < t => <<0..u, 0..t>> \in StrictSubsetOrdering(Nat)
    BY <2>1 DEF StrictSubsetOrdering
  <2> QED BY <2>2
<1> QED BY <1>1, <1>2

(* A function that is defined step by step exists.                            *)
Steps(N, T) == [1 .. N -> [T -> T]]
IsRecursion(f, N, T, init, step) ==
  /\ f \in [0 .. N -> T]
  /\ f[0] = init
  /\ \A n \in 1 .. N : f[n] = step[n][f[n - 1]]

(* Steps over the numbers up to N are those of a function.                    *)
LEMMA RecursionExists ==
  ASSUME NEW T, NEW N \in Nat, NEW init \in T, NEW step \in Steps(N, T)
  PROVE  \E f : IsRecursion(f, N, T, init, step)
<1> USE DEF Steps
<1> DEFINE Defines(f, n) ==
             /\ f \in [0 .. n -> T]
             /\ f[0] = init /\ \A k \in 1 .. n : f[k] = step[k][f[k - 1]]
           missing == {n \in 0 .. N : ~ \E f : Defines(f, n)}
<1>1. ASSUME missing # {} PROVE FALSE
  <2>1. PICK m \in missing : \A k \in missing : m <= k
    <3>1. missing \subseteq Nat
      OBVIOUS
    <3> HIDE DEF missing
    <3> QED BY <1>1, <3>1, LeastExists
  <2>2. m # 0
    <3>1. Defines([k \in 0 .. 0 |-> init], 0)
      OBVIOUS
    <3> HIDE DEF Defines
    <3> QED BY <3>1
  <2>3. m \in 1 .. N /\ m - 1 \in 0 .. N /\ ~(m <= m - 1)
    BY <2>2
  <2>4. PICK f : Defines(f, m - 1)
    BY <2>1, <2>3
  <2> DEFINE g == [k \in 0 .. m |-> IF k = m THEN step[m][f[m - 1]] ELSE f[k]]
  <2>5. f[m - 1] \in T /\ step[m][f[m - 1]] \in T
    BY <2>3, <2>4
  <2>6. g \in [0 .. m -> T] /\ g[0] = init
    BY <2>3, <2>4, <2>5
  <2>7. \A k \in 1 .. m : g[k] = step[k][g[k - 1]]
    BY <2>3, <2>4
  <2> QED BY <2>1, <2>6, <2>7
<1>2. N \notin missing
  BY <1>1
<1> QED BY <1>2 DEF IsRecursion

-----------------------------------------------------------------------------
(* The entries of a stream                                                   *)

LEMMA EntryTypes ==
  /\ ContinueEntry \in Entries
  /\ \A n, f \in Nat, p \in Policies : BlockEntry(n, f, p) \in Entries
  /\ \A s \in ProcessBlockStates, f \in Nat : ResultEntry(s, f) \in Entries
BY DEF ContinueEntry, BlockEntry, ResultEntry, Entries, BlockEntries, ResultEntries,
       ProcessBlockStates, NoFrame

(* The entries are blocks and results, and none is both.                      *)
LEMMA EntryKinds ==
  /\ \A n, f, p : ~IsResult(BlockEntry(n, f, p))
  /\ \A s, f : /\ IsResult(ResultEntry(s, f))
               /\ ResultEntry(s, f).state = s
               /\ ResultEntry(s, f).next_frame = f
  /\ \A e \in Entries :
       IF IsResult(e) THEN e.state \in ProcessBlockStates /\ e.next_frame \in Nat \cup {NoFrame}
                      ELSE e.block \in Nat /\ e.frame \in Nat /\ e.policy \in Policies
BY DEF IsResult, ResultEntry, BlockEntry, Entries, BlockEntries, ResultEntries

(* What decoders see: blocks with the number of a frame.                      *)
ShownBlocks == [block : Nat, frame : Nat]

IsShown(g, s, frame) ==
  /\ g \in [0 .. Len(s) -> Seq(ShownBlocks)]
  /\ g[0] = <<>>
  /\ \A n \in 1 .. Len(s) :
       g[n] = IF IsResult(s[n]) THEN g[n - 1]
              ELSE Append(g[n - 1], [block |-> s[n].block, frame |-> frame])

(* What decoders see of a queue is made of it entry by entry.                 *)
LEMMA ShownSteps ==
  ASSUME NEW s \in Seq(Entries), NEW frame \in Nat
  PROVE  \E g : IsShown(g, s, frame) /\ Shown(s, frame) = g[Len(s)]
<1> DEFINE N == Len(s)
           Shows(n, seen) == IF IsResult(s[n]) THEN seen
                             ELSE Append(seen, [block |-> s[n].block, frame |-> frame])
           Equation(f) == f = [n \in 0 .. N |-> IF n = 0 THEN <<>> ELSE Shows(n, f[n - 1])]
<1>1. N \in Nat /\ N \in 0 .. N /\ <<>> \in Seq(ShownBlocks)
  OBVIOUS
<1>2. \A n \in 1 .. N, seen \in Seq(ShownBlocks) : Shows(n, seen) \in Seq(ShownBlocks)
  <2> SUFFICES ASSUME NEW n \in 1 .. N, NEW seen \in Seq(ShownBlocks)
               PROVE  Shows(n, seen) \in Seq(ShownBlocks)
    OBVIOUS
  <2>1. s[n] \in Entries
    OBVIOUS
  <2>2. ~IsResult(s[n]) => [block |-> s[n].block, frame |-> frame] \in ShownBlocks
    BY <2>1, EntryKinds DEF ShownBlocks
  <2> QED BY <2>2
<1>3. Shown(s, frame) = (CHOOSE f : Equation(f))[N]
  BY DEF Shown
<1> HIDE DEF Equation, N, Shows
<1>4. PICK step : step = [n \in 1 .. N |-> [seen \in Seq(ShownBlocks) |-> Shows(n, seen)]]
  OBVIOUS
<1>5. step \in Steps(N, Seq(ShownBlocks))
  BY <1>2, <1>4 DEF Steps
<1>6. PICK f : IsRecursion(f, N, Seq(ShownBlocks), <<>>, step)
  BY <1>1, <1>5, RecursionExists
<1>7. /\ f \in [0 .. N -> Seq(ShownBlocks)] /\ f[0] = <<>>
      /\ \A n \in 1 .. N : f[n] = step[n][f[n - 1]]
  BY <1>6 DEF IsRecursion
<1>8. \A n \in 1 .. N : n - 1 \in 0 .. N /\ f[n - 1] \in Seq(ShownBlocks)
  BY <1>1, <1>7
<1>9. \A n \in 1 .. N : f[n] = Shows(n, f[n - 1])
  BY <1>4, <1>7, <1>8
<1>10. Equation(f)
  <2>1. \A n \in 0 .. N : n = 0 \/ n \in 1 .. N
    BY <1>1
  <2> QED BY <1>7, <1>9, <2>1 DEF Equation
<1>11. PICK g : g = (CHOOSE h : Equation(h)) /\ Equation(g)
  BY <1>10
<1>12. DOMAIN g = 0 .. N /\ g[0] = <<>> /\ \A n \in 1 .. N : g[n] = Shows(n, g[n - 1])
  <2>1. g = [n \in 0 .. N |-> IF n = 0 THEN <<>> ELSE Shows(n, g[n - 1])]
    BY <1>11 DEF Equation
  <2>2. 0 \in 0 .. N /\ \A n \in 1 .. N : n \in 0 .. N /\ n # 0
    BY <1>1
  <2>3. DOMAIN g = 0 .. N
    BY <2>1
  <2> QED BY <2>1, <2>2, <2>3, Zenon
<1> DEFINE untyped == {n \in 0 .. N : g[n] \notin Seq(ShownBlocks)}
<1>13. ASSUME untyped # {} PROVE FALSE
  <2>1. PICK m \in untyped : \A k \in untyped : m <= k
    <3>1. untyped \subseteq Nat
      OBVIOUS
    <3> HIDE DEF untyped
    <3> QED BY <1>13, <3>1, LeastExists
  <2>2. m # 0
    BY <1>1, <1>12, <2>1
  <2>3. m \in 1 .. N /\ m - 1 \in 0 .. N /\ ~(m <= m - 1)
    BY <1>1, <2>1, <2>2
  <2>4. g[m - 1] \in Seq(ShownBlocks)
    BY <2>1, <2>3
  <2>5. g[m] \in Seq(ShownBlocks)
    BY <1>2, <1>12, <2>3, <2>4
  <2> QED BY <2>1, <2>5
<1>14. \A n \in 0 .. N : g[n] \in Seq(ShownBlocks)
  BY <1>13
<1>15. g \in [0 .. N -> Seq(ShownBlocks)]
  <2>1. g = [n \in 0 .. N |-> g[n]]
    <3>1. g = [n \in 0 .. N |-> IF n = 0 THEN <<>> ELSE Shows(n, g[n - 1])]
      BY <1>11 DEF Equation
    <3> QED BY <3>1
  <2> QED BY <1>14, <2>1
<1>16. IsShown(g, s, frame)
  BY <1>12, <1>15 DEF IsShown, Shows, N
<1> QED BY <1>3, <1>11, <1>16 DEF N

(* It is blocks under the number of the frame.                                *)
LEMMA ShownType ==
  ASSUME NEW s \in Seq(Entries), NEW frame \in Nat
  PROVE  Shown(s, frame) \in Seq(ShownBlocks)
<1>1. Len(s) \in 0 .. Len(s)
  OBVIOUS
<1> QED BY <1>1, ShownSteps DEF IsShown

(* Of blocks with results behind them decoders see the blocks.                *)
LEMMA BlocksAreShown ==
  ASSUME NEW s \in Seq(Entries), NEW frame \in Nat, NEW b \in 0 .. Len(s),
         \A i \in 1 .. b : ~IsResult(s[i]),
         \A i \in b + 1 .. Len(s) : IsResult(s[i])
  PROVE  Shown(s, frame) = [i \in 1 .. b |-> [block |-> s[i].block, frame |-> frame]]
<1> DEFINE N == Len(s)
           B(i) == [block |-> s[i].block, frame |-> frame]
           First(n) == [i \in 1 .. n |-> B(i)]
           Min(n) == IF n <= b THEN n ELSE b
<1>1. PICK g : IsShown(g, s, frame) /\ Shown(s, frame) = g[N]
  BY ShownSteps
<1>2. N \in Nat /\ b \in Nat /\ b <= N
  OBVIOUS
<1>3. /\ \A n \in 0 .. N : g[n] \in Seq(ShownBlocks)
      /\ g[0] = <<>>
      /\ \A n \in 1 .. N : g[n] = IF IsResult(s[n]) THEN g[n - 1] ELSE Append(g[n - 1], B(n))
  BY <1>1 DEF IsShown
<1> DEFINE wrong == {n \in 0 .. N : g[n] # First(Min(n))}
<1>4. \A n \in Nat : /\ First(n) = [i \in 1 .. n |-> B(i)]
                     /\ Append(First(n), B(n + 1)) = First(n + 1)
  <2> SUFFICES ASSUME NEW n \in Nat PROVE Append(First(n), B(n + 1)) = First(n + 1)
    OBVIOUS
  <2> HIDE DEF B
  <2> QED OBVIOUS
<1>5. First(0) = <<>>
  OBVIOUS
<1> HIDE DEF B, First
<1>6. ASSUME wrong # {} PROVE FALSE
  <2>1. PICK m \in wrong : \A k \in wrong : m <= k
    <3>1. wrong \subseteq Nat
      OBVIOUS
    <3> HIDE DEF wrong
    <3> QED BY <1>6, <3>1, LeastExists
  <2>2. m # 0
    BY <1>2, <1>3, <1>5, <2>1
  <2>3. m \in 1 .. N /\ m - 1 \in 0 .. N /\ ~(m <= m - 1)
    BY <1>2, <2>1, <2>2
  <2>4. g[m - 1] = First(Min(m - 1))
    BY <2>1, <2>3
  <2>5. CASE m <= b
    <3>1. Min(m - 1) = m - 1 /\ Min(m) = m /\ ~IsResult(s[m]) /\ m - 1 \in Nat /\ (m - 1) + 1 = m
      BY <1>2, <2>3, <2>5
    <3>2. g[m] = Append(First(m - 1), B(m))
      BY <1>3, <2>3, <2>4, <3>1
    <3>3. Append(First(m - 1), B((m - 1) + 1)) = First((m - 1) + 1)
      BY <1>4, <3>1
    <3> QED BY <2>1, <3>1, <3>2, <3>3
  <2>6. CASE ~(m <= b)
    <3>1. Min(m - 1) = b /\ Min(m) = b /\ IsResult(s[m])
      BY <1>2, <2>3, <2>6
    <3> QED BY <1>3, <2>1, <2>3, <2>4, <3>1
  <2> QED BY <2>5, <2>6
<1>7. g[N] = First(Min(N)) /\ Min(N) = b
  BY <1>2, <1>6
<1> QED BY <1>1, <1>7 DEF First, B

(* The replay of a frame takes the entries up to its result.                  *)
LEMMA FrameIsTaken ==
  ASSUME NEW s \in Seq(Entries), HasTerminator(s)
  PROVE  LET n == EntriesOfFrame(s) IN
         /\ n \in 1 .. Len(s)
         /\ IsTerminator(s[n])
         /\ \A i \in 1 .. n - 1 : ~IsTerminator(s[i])
<1> DEFINE Ends(n) == /\ \A i \in 1 .. n - 1 : ~IsTerminator(s[i])
                      /\ n = Len(s) \/ (n > 0 /\ IsTerminator(s[n]))
           T == {i \in 1 .. Len(s) : IsTerminator(s[i])}
<1>0. Len(s) \in Nat /\ DOMAIN s = 1 .. Len(s)
  OBVIOUS
<1>1. T \subseteq Nat /\ T # {}
  BY <1>0 DEF HasTerminator
<1>2. PICK m \in T : \A k \in T : m <= k
  <2> HIDE DEF T
  <2> QED BY <1>1, LeastExists
<1>3. m \in 0 .. Len(s) /\ Ends(m)
  <2>1. m \in 1 .. Len(s) /\ IsTerminator(s[m])
    BY <1>2
  <2>2. ASSUME NEW i \in 1 .. m - 1, IsTerminator(s[i]) PROVE FALSE
    <3>1. i \in T /\ ~(m <= i)
      BY <1>0, <2>1, <2>2
    <3> QED BY <1>2, <3>1
  <2>3. m > 0 /\ m \in 0 .. Len(s)
    BY <1>0, <2>1
  <2> QED BY <2>1, <2>2, <2>3
<1>4. EntriesOfFrame(s) = CHOOSE n \in 0 .. Len(s) : Ends(n)
  BY DEF EntriesOfFrame
<1>5. EntriesOfFrame(s) \in 0 .. Len(s) /\ Ends(EntriesOfFrame(s))
  <2> HIDE DEF Ends
  <2> QED BY <1>3, <1>4
<1> DEFINE n == EntriesOfFrame(s)
<1>6. n # 0 /\ (n = Len(s) => IsTerminator(s[n]))
  BY <1>0, <1>1, <1>5
<1> QED BY <1>0, <1>5, <1>6

(* The bookmark of a loop is in the queue: a state end marker is no result,   *)
(* and the queue ends with one.                                               *)
LEMMA BookmarkIsInside ==
  ASSUME NEW c, NEW queue \in Seq(Entries), queue # <<>>, IsTerminator(queue[Len(queue)])
  PROVE  SkipStateBlocks(c, queue) \in Nat \ {0} /\ SkipStateBlocks(c, queue) <= Len(queue)
<1> DEFINE markers == {i \in DOMAIN queue :
                         ~IsResult(queue[i]) /\ c.blocks[queue[i].block] = "state_end"}
<1>1. /\ Len(queue) \in Nat /\ DOMAIN queue = 1 .. Len(queue) /\ Len(queue) > 0
      /\ IsResult(queue[Len(queue)])
  BY DEF IsTerminator
<1>2. CASE markers = {}
  BY <1>1, <1>2 DEF SkipStateBlocks
<1>3. CASE markers # {}
  <2>1. markers \subseteq Nat /\ \A i \in markers : i >= 1 /\ i < Len(queue)
    BY <1>1
  <2> HIDE DEF markers
  <2>2. \E i \in markers : \A j \in markers : i <= j
    BY <1>3, <2>1, LeastExists
  <2> DEFINE first == CHOOSE i \in markers : \A j \in markers : i <= j
  <2>3. first \in markers
    BY <2>2
  <2>4. SkipStateBlocks(c, queue) = 1 + first
    BY <1>3 DEF SkipStateBlocks, markers
  <2> HIDE DEF first
  <2> QED BY <1>1, <2>1, <2>3, <2>4
<1> QED BY <1>2, <1>3

(* What is played from the queue: a frame with its result.                    *)
LEMMA FrameFromQueue ==
  ASSUME NEW queue \in Seq(Entries), NEW at \in Nat \ {0}, at <= Len(queue),
         IsTerminator(queue[Len(queue)])
  PROVE  LET rest == SubSeq(queue, at, Len(queue))
             n == EntriesOfFrame(rest)
             last == (at + n) - 1
         IN /\ HasTerminator(rest)
            /\ n \in Nat \ {0}
            /\ last \in DOMAIN queue
            /\ rest[n] = queue[last]
            /\ IsTerminator(rest[n]) /\ rest[n] \in Entries
<1> DEFINE rest == SubSeq(queue, at, Len(queue))
           n == EntriesOfFrame(rest)
<1>1. Len(queue) \in Nat /\ DOMAIN queue = 1 .. Len(queue)
  OBVIOUS
<1>2. /\ rest \in Seq(Entries) /\ Len(rest) = (Len(queue) - at) + 1
      /\ DOMAIN rest = 1 .. Len(rest)
      /\ \A i \in 1 .. Len(rest) : rest[i] = queue[(at + i) - 1]
  BY <1>1
<1> HIDE DEF rest
<1>3. HasTerminator(rest)
  <2>1. Len(rest) \in 1 .. Len(rest) /\ rest[Len(rest)] = queue[Len(queue)]
    BY <1>1, <1>2
  <2> QED BY <1>1, <1>2, <2>1 DEF HasTerminator
<1>4. n \in 1 .. Len(rest) /\ IsTerminator(rest[n])
  BY <1>2, <1>3, FrameIsTaken
<1> HIDE DEF n
<1>5. rest[n] = queue[(at + n) - 1] /\ rest[n] \in Entries
  BY <1>2, <1>4
<1> QED BY <1>1, <1>2, <1>3, <1>4, <1>5 DEF rest, n

-----------------------------------------------------------------------------
(* The position of the BlockProcessor                                        *)

LEMMA StartType ==
  ASSUME NEW c \in Captures
  PROVE  StartOf(c) \in Positions
BY DEF StartOf, Captures, Positions

(* What ends a read ahead of a block is not the end of a frame.               *)
LEMMA StopStateType ==
  ASSUME NEW c, NEW limit, NEW p
  PROVE  /\ StopState(c, limit, p) \in ProcessBlockStates
         /\ StopState(c, limit, p) # "kFrameBoundary"
BY DEF StopState, ProcessBlockStates

(* What one block does to the position.                                       *)
LEMMA AfterBlockFields ==
  ASSUME NEW p \in Positions, NEW kind
  PROVE  LET q == AfterBlock(p, kind) IN
         /\ q \in Positions
         /\ q.block_index = p.block_index + 1
         /\ q.uses_markers <=> p.uses_markers \/ kind \in {"annotation", "marker"}
         /\ q.frame_number =
              IF FirstMarker(p, kind) THEN 1
              ELSE IF IsFrameDelimiter(p, kind) THEN p.frame_number + 1 ELSE p.frame_number
<1>0. p.uses_markers \in BOOLEAN /\ p.block_index \in Nat /\ p.frame_number \in Nat
  BY DEF Positions
<1> DEFINE v == Visit(p, kind)
<1>1. /\ v \in Positions
      /\ v.block_index = p.block_index + 1
      /\ v.uses_markers = (p.uses_markers \/ kind = "annotation")
      /\ v.frame_number = p.frame_number
  <2>1. (p.uses_markers \/ kind = "annotation") \in BOOLEAN /\ p.block_index + 1 \in Nat
    BY <1>0
  <2>2. ASSUME NEW n \in Nat, NEW u \in BOOLEAN
        PROVE  LET w == [p EXCEPT !.block_index = n, !.uses_markers = u] IN
               /\ w \in Positions /\ w.block_index = n /\ w.uses_markers = u
               /\ w.frame_number = p.frame_number
    BY DEF Positions
  <2> QED BY <2>1, <2>2 DEF Visit, v
<1> HIDE DEF v
<1>2. ASSUME NEW first \in BOOLEAN
      PROVE  LET w == UpdateEndFrameState(v, first) IN
             /\ w \in Positions
             /\ w.block_index = p.block_index + 1
             /\ w.uses_markers = (v.uses_markers \/ first)
             /\ w.frame_number = IF first THEN 1 ELSE p.frame_number + 1
  <2> DEFINE g == IF first THEN 1 ELSE v.frame_number + 1
             m == v.uses_markers \/ first
  <2>1. m \in BOOLEAN /\ g \in Nat
    BY <1>0, <1>1
  <2>3. UpdateEndFrameState(v, first) = [v EXCEPT !.frame_number = g, !.uses_markers = m]
    BY DEF UpdateEndFrameState
  <2> HIDE DEF g, m
  <2>2. LET w == UpdateEndFrameState(v, first) IN
        /\ w \in Positions /\ w.frame_number = g /\ w.uses_markers = m
        /\ w.block_index = v.block_index
    BY <1>1, <2>1, <2>3 DEF Positions
  <2> QED BY <1>1, <2>2 DEF g, m
<1>3. FirstMarker(p, kind) \in BOOLEAN
      /\ (FirstMarker(p, kind) <=> kind = "marker" /\ ~p.uses_markers)
      /\ (IsFrameDelimiter(p, kind) <=> kind = "marker" \/ (kind = "present" /\ ~p.uses_markers))
  BY DEF FirstMarker, IsFrameDelimiter
<1>4. CASE IsFrameDelimiter(p, kind)
  <2>1. AfterBlock(p, kind) = UpdateEndFrameState(v, FirstMarker(p, kind))
    BY <1>4 DEF AfterBlock, v
  <2> QED BY <1>0, <1>1, <1>2, <1>3, <1>4, <2>1
<1>5. CASE ~IsFrameDelimiter(p, kind)
  <2>1. AfterBlock(p, kind) = v
    BY <1>5 DEF AfterBlock, v
  <2> QED BY <1>0, <1>1, <1>3, <1>5, <2>1
<1> QED BY <1>4, <1>5

(* Positions stay positions.                                                  *)
LEMMA AfterBlockType ==
  ASSUME NEW p \in Positions, NEW kind
  PROVE  /\ AfterBlock(p, kind) \in Positions
         /\ BlockState(p, kind) \in ProcessBlockStates
BY AfterBlockFields DEF BlockState, ProcessBlockStates

-----------------------------------------------------------------------------
(* The numbers of the frames                                                 *)

(* The captures of a tool that writes markers from the start: at the first   *)
(* marker at most one frame has ended, at a present taken for its end, so    *)
(* that no number but the first is given out twice.  The header of others    *)
(* says that they have markers.                                              *)
FirstMarkerIsEarly(capture) ==
  LET kinds == capture.blocks IN
  ~capture.markers =>
    \A m, n, o \in DOMAIN kinds :
      m < n /\ n < o /\ kinds[m] = "present" /\ kinds[n] = "present" /\ kinds[o] = "marker"
        => \E k \in DOMAIN kinds : k < o /\ kinds[k] \in {"marker", "annotation"}

(* Until a marker is seen, the frames that ended did so at presents.          *)
CountsPresents(capture, p) ==
  LET kinds == capture.blocks
  IN /\ p.block_index <= Len(kinds)
     /\ ~p.uses_markers =>
          /\ ~capture.markers
          /\ \A k \in 1 .. p.block_index : kinds[k] \notin {"marker", "annotation"}
          /\ p.frame_number >= 1 => \E n \in 1 .. p.block_index : kinds[n] = "present"
          /\ p.frame_number >= 2 => \E m, n \in 1 .. p.block_index :
                                      m < n /\ kinds[m] = "present" /\ kinds[n] = "present"

(* No frame has been counted at the start.                                    *)
LEMMA StartCounts ==
  ASSUME NEW c \in Captures
  PROVE  CountsPresents(c, StartOf(c))
<1>1. /\ StartOf(c).block_index = 0 /\ StartOf(c).frame_number = 0
      /\ StartOf(c).uses_markers = c.markers
      /\ Len(c.blocks) \in Nat
  BY DEF StartOf, Captures
<1> QED BY <1>1 DEF CountsPresents

(* A block counts a frame only as a present or a marker.                      *)
LEMMA BlockCounts ==
  ASSUME NEW c \in Captures, NEW p \in Positions, CountsPresents(c, p),
         p.block_index + 1 <= Len(c.blocks)
  PROVE  CountsPresents(c, AfterBlock(p, NextKind(c, p)))
<1> DEFINE kinds == c.blocks
           k == p.block_index + 1
           kind == kinds[k]
           q == AfterBlock(p, kind)
<1>1. /\ p.block_index \in Nat /\ p.frame_number \in Nat
      /\ Len(kinds) \in Nat /\ k <= Len(kinds) /\ k \in Nat
  BY DEF Captures, Positions
<1>2. /\ q.block_index = k
      /\ q.uses_markers <=> p.uses_markers \/ kind \in {"annotation", "marker"}
      /\ q.frame_number =
           IF FirstMarker(p, kind) THEN 1
           ELSE IF IsFrameDelimiter(p, kind) THEN p.frame_number + 1
           ELSE p.frame_number
  BY AfterBlockFields
<1> HIDE DEF q
<1> SUFFICES ASSUME ~q.uses_markers
             PROVE  /\ ~c.markers
                    /\ \A j \in 1 .. k : kinds[j] \notin {"marker", "annotation"}
                    /\ q.frame_number >= 1 => \E n \in 1 .. k : kinds[n] = "present"
                    /\ q.frame_number >= 2 => \E m, n \in 1 .. k :
                          m < n /\ kinds[m] = "present" /\ kinds[n] = "present"
  BY <1>1, <1>2 DEF CountsPresents, NextKind, q
<1>4. /\ ~p.uses_markers /\ kind \notin {"annotation", "marker"}
      /\ q.frame_number =
           IF kind = "present" THEN p.frame_number + 1 ELSE p.frame_number
  BY <1>2 DEF FirstMarker, IsFrameDelimiter
<1>5. /\ ~c.markers
      /\ \A j \in 1 .. p.block_index : kinds[j] \notin {"marker", "annotation"}
      /\ p.frame_number >= 1 => \E n \in 1 .. p.block_index : kinds[n] = "present"
      /\ p.frame_number >= 2 => \E m, n \in 1 .. p.block_index :
            m < n /\ kinds[m] = "present" /\ kinds[n] = "present"
  BY <1>4 DEF CountsPresents
<1>6. k \in 1 .. k /\ \A j \in 1 .. k : j \in 1 .. p.block_index \/ j = k
  BY <1>1
<1>7. \A j \in 1 .. p.block_index : j \in 1 .. k /\ j < k
  BY <1>1
<1> HIDE DEF kinds, k
<1>8. \A j \in 1 .. k : kinds[j] \notin {"marker", "annotation"}
  BY <1>4, <1>5, <1>6
<1>9. CASE kind = "present"
  <2>1. q.frame_number = p.frame_number + 1
    BY <1>4, <1>9
  <2>2. \E n \in 1 .. k : kinds[n] = "present"
    BY <1>6, <1>9
  <2>3. q.frame_number >= 2 => \E m, n \in 1 .. k :
          m < n /\ kinds[m] = "present" /\ kinds[n] = "present"
    <3> HAVE q.frame_number >= 2
    <3>1. p.frame_number >= 1
      BY <1>1, <2>1
    <3>2. PICK m \in 1 .. p.block_index : kinds[m] = "present"
      BY <3>1, <1>5
    <3>3. m \in 1 .. k /\ m < k /\ kinds[k] = "present"
      BY <3>2, <1>7, <1>9
    <3> QED BY <3>2, <3>3, <1>6
  <2> QED BY <1>5, <1>8, <2>2, <2>3
<1>10. CASE kind # "present"
  <2>1. q.frame_number = p.frame_number
    BY <1>4, <1>10
  <2> QED BY <1>5, <1>7, <1>8, <2>1
<1> QED BY <1>9, <1>10

(* A frame ends: its number is counted up, or the count starts again, which   *)
(* repeats the number of the first frame only if the marker comes early.      *)
LEMMA NextFrameNumber ==
  ASSUME NEW c \in Captures, NEW p \in Positions, CountsPresents(c, p),
         p.block_index + 1 <= Len(c.blocks)
  PROVE  LET kind == NextKind(c, p)
             q == AfterBlock(p, kind)
         IN IF IsFrameDelimiter(p, kind)
              THEN \/ q.frame_number = p.frame_number + 1
                   \/ q.frame_number = 1 /\ (FirstMarkerIsEarly(c) => p.frame_number = 1)
              ELSE q.frame_number = p.frame_number
<1> DEFINE kinds == c.blocks
           k == p.block_index + 1
           kind == kinds[k]
           q == AfterBlock(p, kind)
<1>1. /\ p.block_index \in Nat /\ p.frame_number \in Nat
      /\ Len(kinds) \in Nat /\ k <= Len(kinds) /\ k \in Nat /\ DOMAIN kinds = 1 .. Len(kinds)
  BY DEF Captures, Positions
<1>2. NextKind(c, p) = kind
  BY DEF NextKind
<1>3. q.frame_number =
        IF FirstMarker(p, kind) THEN 1
        ELSE IF IsFrameDelimiter(p, kind) THEN p.frame_number + 1
        ELSE p.frame_number
  BY AfterBlockFields
<1> HIDE DEF q
<1>4. CASE FirstMarker(p, kind)
  <2>1. kind = "marker" /\ ~p.uses_markers /\ IsFrameDelimiter(p, kind)
    BY <1>4 DEF FirstMarker, IsFrameDelimiter
  <2>2. ~(p.frame_number >= 2 /\ FirstMarkerIsEarly(c))
    <3> SUFFICES ASSUME p.frame_number >= 2, FirstMarkerIsEarly(c) PROVE FALSE
      OBVIOUS
    <3>1. /\ ~c.markers
          /\ \A j \in 1 .. p.block_index : kinds[j] \notin {"marker", "annotation"}
      BY <2>1 DEF CountsPresents
    <3>2. PICK m, n \in 1 .. p.block_index :
            m < n /\ kinds[m] = "present" /\ kinds[n] = "present"
      BY <2>1 DEF CountsPresents
    <3>3. /\ m \in DOMAIN kinds /\ n \in DOMAIN kinds /\ k \in DOMAIN kinds
          /\ m < n /\ n < k
          /\ \A j \in DOMAIN kinds : j < k => j \in 1 .. p.block_index
      BY <1>1, <3>2
    <3>4. \E j \in DOMAIN kinds : j < k /\ kinds[j] \in {"marker", "annotation"}
      <4> HIDE DEF k
      <4> QED BY <2>1, <3>1, <3>2, <3>3 DEF FirstMarkerIsEarly
    <3> QED BY <3>1, <3>3, <3>4
  <2>3. q.frame_number = 1
    BY <1>3, <1>4
  <2>4. p.frame_number = 0 \/ p.frame_number = 1 \/ ~FirstMarkerIsEarly(c)
    BY <1>1, <2>2
  <2> QED BY <1>1, <1>2, <2>1, <2>3, <2>4 DEF q
<1>5. CASE ~FirstMarker(p, kind)
  BY <1>1, <1>2, <1>3, <1>5 DEF q
<1> QED BY <1>4, <1>5

-----------------------------------------------------------------------------
(* ProcessBlocks                                                             *)

LEMMA AfterCallsFields ==
  ASSUME NEW c, NEW p \in Positions, NEW n \in Nat
  PROVE  LET q == AfterCalls(c, p, n) IN
         /\ q \in Positions
         /\ q.block_index = p.block_index + n
         /\ q.frame_number = p.frame_number
         /\ q.uses_markers <=> \/ p.uses_markers
                               \/ \E i \in 1 .. n : c.blocks[p.block_index + i] = "annotation"
<1> DEFINE u == p.uses_markers \/ \E i \in 1 .. n : c.blocks[p.block_index + i] = "annotation"
<1>1. u \in BOOLEAN /\ p.block_index + n \in Nat /\ p.frame_number \in Nat
  BY DEF Positions
<1>2. AfterCalls(c, p, n) = [p EXCEPT !.block_index = p.block_index + n, !.uses_markers = u]
  BY DEF AfterCalls
<1> HIDE DEF u
<1>3. LET q == AfterCalls(c, p, n) IN
         /\ q \in Positions /\ q.block_index = p.block_index + n
         /\ q.frame_number = p.frame_number /\ q.uses_markers = u
  <2> DEFINE i == p.block_index + n
  <2>1. i \in Nat /\ AfterCalls(c, p, n) = [p EXCEPT !.block_index = i, !.uses_markers = u]
    BY <1>1, <1>2
  <2> HIDE DEF i
  <2>2. LET q == AfterCalls(c, p, n) IN
        /\ q \in Positions /\ q.block_index = i /\ q.uses_markers = u
        /\ q.frame_number = p.frame_number
    BY <1>1, <2>1 DEF Positions
  <2> QED BY <2>2 DEF i
<1> QED BY <1>3 DEF u

(* A read comes to an end, in the file.                                       *)
LEMMA ReadEnds ==
  ASSUME NEW c \in Captures, NEW limit \in Nat, NEW p \in Positions,
         p.block_index <= Len(c.blocks)
  PROVE  LET n == CallsRead(c, limit, p) IN
         /\ n \in Nat
         /\ p.block_index + n <= Len(c.blocks)
         /\ EndsLoop(c, limit, AfterCalls(c, p, n))
         /\ \A m \in 0 .. n - 1 : ~EndsLoop(c, limit, AfterCalls(c, p, m))
<1> DEFINE R == Len(c.blocks) - p.block_index
           Ends(n) == EndsLoop(c, limit, AfterCalls(c, p, n))
           T == {n \in 0 .. R : Ends(n)}
<1>1. Len(c.blocks) \in Nat /\ p.block_index \in Nat /\ R \in Nat
  BY DEF Captures, Positions
<1>2. Ends(R)
  <2>1. AfterCalls(c, p, R).block_index = p.block_index + R
    <3> HIDE DEF R
    <3> QED BY <1>1, AfterCallsFields
  <2>2. AtEndOfFile(c, AfterCalls(c, p, R))
    BY <1>1, <2>1 DEF AtEndOfFile
  <2> QED BY <2>2 DEF EndsLoop, Stops, StopState
<1>3. PICK m \in T : \A k \in T : m <= k
  <2>1. T \subseteq Nat /\ T # {}
    BY <1>1, <1>2
  <2> HIDE DEF T
  <2> QED BY <2>1, LeastExists
<1>4. m \in 0 .. R /\ Ends(m) /\ \A k \in 0 .. m - 1 : ~Ends(k)
  BY <1>1, <1>3
<1>5. CallsRead(c, limit, p) = CHOOSE n \in 0 .. R : Ends(n) /\ \A k \in 0 .. n - 1 : ~Ends(k)
  BY DEF CallsRead
<1> DEFINE n == CallsRead(c, limit, p)
<1>6. n \in 0 .. R /\ Ends(n) /\ \A k \in 0 .. n - 1 : ~Ends(k)
  <2> HIDE DEF Ends, R
  <2> QED BY <1>4, <1>5
<1> QED BY <1>1, <1>6

(* What a read returns: blocks, a state that ends the loop, a position.       *)
LEMMA ReadTypes ==
  ASSUME NEW c \in Captures, NEW limit \in Nat, NEW p \in Positions,
         p.block_index <= Len(c.blocks)
  PROVE  LET read == ProcessBlocks(c, limit, p) IN
         /\ read.out \in Seq(Entries)
         /\ \A i \in DOMAIN read.out : ~IsResult(read.out[i])
         /\ read.state \in ProcessBlockStates \ {"kContinue"}
         /\ read.pos \in Positions
         /\ read.pos.block_index <= Len(c.blocks)
<1> DEFINE n == CallsRead(c, limit, p)
           last == AfterCalls(c, p, n)
           Blocks(k) == [i \in 1 .. k |-> BlockEntry(p.block_index + i, p.frame_number, "kAlways")]
           kind == NextKind(c, last)
<1>1. /\ n \in Nat /\ p.block_index + n <= Len(c.blocks) /\ EndsLoop(c, limit, last)
      /\ Len(c.blocks) \in Nat /\ p.block_index \in Nat /\ p.frame_number \in Nat
  BY ReadEnds DEF Captures, Positions
<1>2. last \in Positions /\ last.block_index = p.block_index + n
  BY <1>1, AfterCallsFields
<1>3. ASSUME NEW k \in Nat
      PROVE  Blocks(k) \in Seq(Entries) /\ \A i \in DOMAIN Blocks(k) : ~IsResult(Blocks(k)[i])
  <2>1. \A i \in 1 .. k : /\ BlockEntry(p.block_index + i, p.frame_number, "kAlways") \in Entries
                          /\ ~IsResult(BlockEntry(p.block_index + i, p.frame_number, "kAlways"))
    BY <1>1, EntryTypes, EntryKinds DEF Policies
  <2> QED BY <2>1
<1> HIDE DEF n, last, Blocks, kind
<1>4. CASE Stops(c, limit, last)
  <2>1. ProcessBlocks(c, limit, p) =
          [out |-> Blocks(n), state |-> StopState(c, limit, last), pos |-> last]
    BY <1>4 DEF ProcessBlocks, n, last, Blocks
  <2>2. StopState(c, limit, last) \in ProcessBlockStates \ {"kContinue"}
    BY <1>4, StopStateType DEF Stops
  <2> QED BY <1>1, <1>2, <1>3, <2>1, <2>2
<1>5. CASE ~Stops(c, limit, last)
  <2>1. ProcessBlocks(c, limit, p) =
          [out |-> Blocks(n + 1), state |-> "kFrameBoundary", pos |-> AfterBlock(last, kind)]
    BY <1>5 DEF ProcessBlocks, n, last, Blocks, kind
  <2>2. last.block_index + 1 <= Len(c.blocks)
    BY <1>1, <1>2, <1>5 DEF Stops, StopState, AtEndOfFile
  <2>3. /\ AfterBlock(last, kind) \in Positions
        /\ AfterBlock(last, kind).block_index = last.block_index + 1
    BY <1>2, AfterBlockFields
  <2>4. n + 1 \in Nat /\ "kFrameBoundary" \in ProcessBlockStates \ {"kContinue"}
    BY <1>1 DEF ProcessBlockStates
  <2> QED BY <1>3, <2>1, <2>2, <2>3, <2>4
<1> QED BY <1>4, <1>5

(* Until a marker is seen, the blocks that end no frame change nothing.       *)
LEMMA CallsCount ==
  ASSUME NEW c \in Captures, NEW limit \in Nat, NEW p \in Positions, CountsPresents(c, p),
         NEW n \in Nat, p.block_index + n <= Len(c.blocks),
         \A m \in 0 .. n - 1 : ~EndsLoop(c, limit, AfterCalls(c, p, m))
  PROVE  CountsPresents(c, AfterCalls(c, p, n))
<1>0. /\ AfterCalls(c, p, n).block_index = p.block_index + n
      /\ AfterCalls(c, p, n).frame_number = p.frame_number
      /\ AfterCalls(c, p, n).uses_markers
           <=> \/ p.uses_markers
               \/ \E i \in 1 .. n : c.blocks[p.block_index + i] = "annotation"
  <2>1. \A m \in Nat : LET q == AfterCalls(c, p, m) IN
          /\ q.block_index = p.block_index + m
          /\ q.frame_number = p.frame_number
          /\ q.uses_markers <=> \/ p.uses_markers
                                \/ \E i \in 1 .. m : c.blocks[p.block_index + i] = "annotation"
    BY AfterCallsFields
  <2> QED BY <2>1
<1> DEFINE kinds == c.blocks
           q == AfterCalls(c, p, n)
<1>1. p.block_index \in Nat /\ p.frame_number \in Nat /\ Len(kinds) \in Nat
  BY DEF Captures, Positions
<1>2. /\ q.block_index = p.block_index + n /\ q.frame_number = p.frame_number
      /\ q.uses_markers <=> \/ p.uses_markers
                            \/ \E i \in 1 .. n : kinds[p.block_index + i] = "annotation"
  BY <1>0
<1>3. ASSUME NEW i \in 1 .. n PROVE kinds[p.block_index + i] # "marker"
  <2>1. i - 1 \in 0 .. n - 1 /\ i - 1 \in Nat /\ p.block_index + (i - 1) + 1 = p.block_index + i
    BY <1>1
  <2>2. AfterCalls(c, p, i - 1).block_index = p.block_index + (i - 1)
    BY <2>1, AfterCallsFields
  <2>3. NextKind(c, AfterCalls(c, p, i - 1)) = kinds[p.block_index + i]
    BY <2>1, <2>2 DEF NextKind
  <2> QED BY <2>1, <2>3 DEF EndsLoop, IsFrameDelimiter
<1> HIDE DEF q
<1> SUFFICES ASSUME ~q.uses_markers
             PROVE  /\ ~c.markers
                    /\ \A k \in 1 .. p.block_index + n : kinds[k] \notin {"marker", "annotation"}
                    /\ p.frame_number >= 1 => \E k \in 1 .. p.block_index + n : kinds[k] = "present"
                    /\ p.frame_number >= 2 => \E m, k \in 1 .. p.block_index + n :
                          m < k /\ kinds[m] = "present" /\ kinds[k] = "present"
  BY <1>1, <1>2 DEF CountsPresents, q
<1>4. /\ ~p.uses_markers
      /\ \A i \in 1 .. n : kinds[p.block_index + i] # "annotation"
  BY <1>2
<1>5. /\ ~c.markers
      /\ \A k \in 1 .. p.block_index : kinds[k] \notin {"marker", "annotation"}
      /\ p.frame_number >= 1 => \E k \in 1 .. p.block_index : kinds[k] = "present"
      /\ p.frame_number >= 2 => \E m, k \in 1 .. p.block_index :
            m < k /\ kinds[m] = "present" /\ kinds[k] = "present"
  BY <1>4 DEF CountsPresents
<1>6. \A k \in 1 .. p.block_index : k \in 1 .. p.block_index + n
  BY <1>1
<1>7. \A k \in 1 .. p.block_index + n : kinds[k] \notin {"marker", "annotation"}
  <2> TAKE k \in 1 .. p.block_index + n
  <2>1. CASE k \in 1 .. p.block_index
    BY <1>5, <2>1
  <2>2. CASE k \notin 1 .. p.block_index
    <3>1. k - p.block_index \in 1 .. n /\ p.block_index + (k - p.block_index) = k
      BY <1>1, <2>2
    <3> QED BY <1>3, <1>4, <3>1
  <2> QED BY <2>1, <2>2
<1> HIDE DEF kinds
<1> QED BY <1>5, <1>6, <1>7

(* A frame that is read to its end moves on in the capture and to the next    *)
(* number, but for the one number that is given out twice.                    *)
LEMMA FrameIsRead ==
  ASSUME NEW c \in Captures, NEW limit \in Nat, NEW p \in Positions, CountsPresents(c, p)
  PROVE  LET read == ProcessBlocks(c, limit, p) IN
         /\ CountsPresents(c, read.pos)
         /\ read.state = "kFrameBoundary" =>
              /\ read.pos.block_index >= p.block_index + 1
              /\ FirstMarkerIsEarly(c) => read.pos.frame_number >= p.frame_number
         /\ read.state # "kFrameBoundary" => read.pos.frame_number = p.frame_number
<1> DEFINE n == CallsRead(c, limit, p)
           last == AfterCalls(c, p, n)
           Blocks(k) == [i \in 1 .. k |-> BlockEntry(p.block_index + i, p.frame_number, "kAlways")]
           kind == NextKind(c, last)
<1>0. p.block_index \in Nat /\ p.frame_number \in Nat /\ Len(c.blocks) \in Nat
      /\ p.block_index <= Len(c.blocks)
  BY DEF Captures, Positions, CountsPresents
<1>1. /\ n \in Nat /\ p.block_index + n <= Len(c.blocks) /\ EndsLoop(c, limit, last)
      /\ \A m \in 0 .. n - 1 : ~EndsLoop(c, limit, AfterCalls(c, p, m))
  BY <1>0, ReadEnds
<1>2. /\ last \in Positions /\ last.block_index = p.block_index + n
      /\ last.frame_number = p.frame_number
  BY <1>1, AfterCallsFields
<1>3. CountsPresents(c, last)
  BY <1>1, CallsCount
<1> HIDE DEF n, last, Blocks, kind
<1>4. CASE Stops(c, limit, last)
  <2>1. ProcessBlocks(c, limit, p) =
          [out |-> Blocks(n), state |-> StopState(c, limit, last), pos |-> last]
    BY <1>4 DEF ProcessBlocks, n, last, Blocks
  <2>2. StopState(c, limit, last) # "kFrameBoundary"
    BY StopStateType
  <2> QED BY <1>2, <1>3, <2>1, <2>2
<1>5. CASE ~Stops(c, limit, last)
  <2>1. ProcessBlocks(c, limit, p) =
          [out |-> Blocks(n + 1), state |-> "kFrameBoundary", pos |-> AfterBlock(last, kind)]
    BY <1>5 DEF ProcessBlocks, n, last, Blocks, kind
  <2>2. last.block_index + 1 <= Len(c.blocks)
    BY <1>0, <1>1, <1>2, <1>5 DEF Stops, StopState, AtEndOfFile
  <2>3. /\ AfterBlock(last, kind).block_index = p.block_index + n + 1
        /\ CountsPresents(c, AfterBlock(last, kind))
    BY <1>2, <1>3, <2>2, AfterBlockFields, BlockCounts DEF kind
  <2>4. IsFrameDelimiter(last, kind)
    BY <1>1, <1>5 DEF EndsLoop, kind
  <2>5. FirstMarkerIsEarly(c) => AfterBlock(last, kind).frame_number >= p.frame_number
    BY <1>0, <1>2, <1>3, <2>2, <2>4, NextFrameNumber DEF kind
  <2> QED BY <1>0, <1>1, <2>1, <2>3, <2>5
<1> QED BY <1>4, <1>5

-----------------------------------------------------------------------------
(* The frames of a capture                                                   *)

(* What a replay is made of.                                                  *)
LEMMA ReplayIsTyped ==
  ASSUME NEW r, IsReplay(r)
  PROVE  /\ r.capture \in Captures /\ Len(r.capture.blocks) \in Nat
         /\ r.block_limit \in Nat
         /\ r.options.loop_count \in Nat \ {0} /\ r.options.loop_frame \in Nat
         /\ r.options.range_begin \in Nat /\ r.options.range_end \in Nat \ {0, 1}
         /\ r.options.quit_after_frame \in Nat
         /\ r.options.range_begin < r.options.range_end
         /\ r.options.loop_frame # 0 =>
              ~r.options.preload /\ ~ShouldQuit(r.options, r.options.loop_frame)
<1> DEFINE o == r.options
<1>1. ValidOptions(o) /\ r = FrameProcessingParams(o)
  BY DEF IsReplay
<1>2. o \in Options
  BY <1>1 DEF ValidOptions
<1> HIDE DEF o
<1>3. r.capture = o.capture /\ r.block_limit = o.block_limit
  BY <1>1 DEF FrameProcessingParams
<1>4. /\ o.capture \in Captures /\ o.block_limit \in Nat
      /\ o.range_begin \in Nat /\ o.range_end \in Nat \ {0, 1}
      /\ o.quit_after_frame \in Nat
      /\ o.loop_frame \in Nat /\ o.loop_count \in Nat \ {0}
  BY <1>2 DEF Options
<1>5. Len(o.capture.blocks) \in Nat
  BY <1>4 DEF Captures
<1> QED BY <1>1, <1>3, <1>4, <1>5 DEF ValidOptions, o

FrameTypes == [number : Nat, blocks : Seq(Nat), result : ResultEntries, next : Positions]
FramesOf(capture) == {frame \in FrameTypes : CountsPresents(capture, frame.next)}

(* A frame and the position behind it.                                        *)
LEMMA FrameFacts ==
  ASSUME NEW r, IsReplay(r), NEW p \in Positions, CountsPresents(r.capture, p)
  PROVE  LET frame == FrameAt(r, p)
             read == ProcessBlocks(r.capture, r.block_limit, p)
         IN /\ frame \in FramesOf(r.capture)
            /\ frame.number = p.frame_number /\ frame.next = read.pos
            /\ frame.result = ResultEntry(read.state, read.pos.frame_number)
            /\ frame.result.state = read.state /\ IsTerminator(frame.result)
            /\ frame.result.next_frame = frame.next.frame_number
            /\ frame.blocks = [i \in 1 .. Len(read.out) |-> read.out[i].block]
            /\ frame.result.state = "kFrameBoundary" =>
                 /\ frame.next.block_index >= p.block_index + 1
                 /\ FirstMarkerIsEarly(r.capture) => frame.next.frame_number >= frame.number
<1> DEFINE read == ProcessBlocks(r.capture, r.block_limit, p)
           blocks == [i \in 1 .. Len(read.out) |-> read.out[i].block]
           result == ResultEntry(read.state, read.pos.frame_number)
<1>1. r.capture \in Captures /\ r.block_limit \in Nat /\ p.block_index <= Len(r.capture.blocks)
      /\ p.frame_number \in Nat
  BY ReplayIsTyped DEF CountsPresents, Positions
<1>2. /\ read.out \in Seq(Entries)
      /\ \A i \in DOMAIN read.out : ~IsResult(read.out[i])
      /\ read.state \in ProcessBlockStates \ {"kContinue"}
      /\ read.pos \in Positions
  BY <1>1, ReadTypes
<1>3. /\ CountsPresents(r.capture, read.pos)
      /\ read.state = "kFrameBoundary" =>
           /\ read.pos.block_index >= p.block_index + 1
           /\ FirstMarkerIsEarly(r.capture) => read.pos.frame_number >= p.frame_number
  BY <1>1, FrameIsRead
<1>4. FrameAt(r, p) = [number |-> p.frame_number,
                       blocks |-> [i \in DOMAIN read.out |-> read.out[i].block],
                       result |-> result, next |-> read.pos]
  BY DEF FrameAt
<1> HIDE DEF read
<1>5. DOMAIN read.out = 1 .. Len(read.out) /\ Len(read.out) \in Nat
  BY <1>2
<1>6. blocks \in Seq(Nat)
  <2>1. \A i \in 1 .. Len(read.out) : read.out[i] \in Entries /\ ~IsResult(read.out[i])
    BY <1>2, <1>5
  <2>2. \A i \in 1 .. Len(read.out) : read.out[i].block \in Nat
    BY <2>1, EntryKinds
  <2> QED BY <1>5, <2>2
<1>7. /\ result \in ResultEntries /\ result.state = read.state
      /\ result.next_frame = read.pos.frame_number /\ read.pos.frame_number \in Nat
      /\ IsTerminator(result)
  BY <1>2, EntryKinds DEF ResultEntries, ResultEntry, Positions, IsTerminator
<1>8. FrameAt(r, p) = [number |-> p.frame_number, blocks |-> blocks, result |-> result,
                       next |-> read.pos]
  BY <1>4, <1>5
<1> HIDE DEF blocks, result
<1>9. FrameAt(r, p) \in FrameTypes
  BY <1>1, <1>2, <1>6, <1>7, <1>8 DEF FrameTypes
<1>10. /\ FrameAt(r, p).number = p.frame_number /\ FrameAt(r, p).next = read.pos
       /\ FrameAt(r, p).result = result /\ FrameAt(r, p).blocks = blocks
  BY <1>8
<1> QED BY <1>3, <1>7, <1>9, <1>10 DEF FramesOf, blocks, result, read

(* Where the frames of a capture begin.                                       *)
PositionAt(r, k) == IF k = 0 THEN StartOf(r.capture) ELSE CaptureFrames(r)[k - 1].next

(* Each frame of a capture is read where the one before it ends.              *)
LEMMA FramesAreRead ==
  ASSUME NEW r, IsReplay(r)
  PROVE  /\ DOMAIN CaptureFrames(r) = 0 .. Len(r.capture.blocks)
         /\ \A k \in 0 .. Len(r.capture.blocks) + 1 :
              PositionAt(r, k) \in Positions /\ CountsPresents(r.capture, PositionAt(r, k))
         /\ \A k \in 0 .. Len(r.capture.blocks) :
              /\ CaptureFrames(r)[k] = FrameAt(r, PositionAt(r, k))
              /\ CaptureFrames(r)[k] \in FramesOf(r.capture)
<1> DEFINE N == Len(r.capture.blocks)
           c == r.capture
           T == FramesOf(c)
           start == StartOf(c)
           Equation(f) == f = [k \in 0 .. N |-> FrameAt(r, IF k = 0 THEN start ELSE f[k - 1].next)]
<1>1. c \in Captures /\ N \in Nat
  BY ReplayIsTyped
<1>2. start \in Positions /\ CountsPresents(c, start)
  BY <1>1, StartType, StartCounts
<1>3. \A frame \in T : frame.next \in Positions /\ CountsPresents(c, frame.next)
  BY DEF FramesOf, FrameTypes
<1>4. \A p \in Positions : CountsPresents(c, p) => FrameAt(r, p) \in T
  BY FrameFacts
<1>5. CaptureFrames(r) = CHOOSE f : Equation(f)
  BY DEF CaptureFrames
<1>6. PositionAt(r, 0) = start
  BY DEF PositionAt
<1> HIDE DEF N, T, start, Equation
<1>7. PICK step : step = [k \in 1 .. N |-> [frame \in T |-> FrameAt(r, frame.next)]]
  OBVIOUS
<1>8. step \in Steps(N, T)
  BY <1>3, <1>4, <1>7 DEF Steps
<1>9. FrameAt(r, start) \in T
  BY <1>2, <1>4
<1>10. PICK f : IsRecursion(f, N, T, FrameAt(r, start), step)
  BY <1>1, <1>8, <1>9, RecursionExists DEF N
<1>11. /\ f \in [0 .. N -> T] /\ f[0] = FrameAt(r, start)
       /\ \A k \in 1 .. N : f[k] = step[k][f[k - 1]]
  BY <1>10 DEF IsRecursion
<1>12. \A k \in 1 .. N : k - 1 \in 0 .. N /\ f[k - 1] \in T
  BY <1>1, <1>11 DEF N
<1>13. \A k \in 1 .. N : f[k] = FrameAt(r, f[k - 1].next)
  BY <1>7, <1>11, <1>12
<1>14. Equation(f)
  <2>1. \A k \in 0 .. N : k = 0 \/ (k \in 1 .. N /\ k # 0)
    BY <1>1 DEF N
  <2> QED BY <1>11, <1>13, <2>1 DEF Equation
<1>15. PICK g : g = CaptureFrames(r) /\ Equation(g)
  BY <1>5, <1>14
<1>16. DOMAIN g = 0 .. N /\ g[0] = FrameAt(r, start)
       /\ \A k \in 1 .. N : g[k] = FrameAt(r, g[k - 1].next)
  <2>1. g = [k \in 0 .. N |-> FrameAt(r, IF k = 0 THEN start ELSE g[k - 1].next)]
    BY <1>15 DEF Equation
  <2>2. 0 \in 0 .. N /\ \A k \in 1 .. N : k \in 0 .. N /\ k # 0
    BY <1>1 DEF N
  <2>3. DOMAIN g = 0 .. N
    BY <2>1
  <2> QED BY <2>1, <2>2, <2>3, Zenon
<1> DEFINE untyped == {k \in 0 .. N : g[k] \notin T}
<1>17. ASSUME untyped # {} PROVE FALSE
  <2>1. PICK m \in untyped : \A k \in untyped : m <= k
    <3>1. untyped \subseteq Nat
      OBVIOUS
    <3> HIDE DEF untyped
    <3> QED BY <1>17, <3>1, LeastExists
  <2>2. m # 0
    BY <1>9, <1>16, <2>1
  <2>3. m \in 1 .. N /\ m - 1 \in 0 .. N /\ ~(m <= m - 1)
    BY <1>1, <2>1, <2>2 DEF N
  <2>4. g[m - 1] \in T
    BY <2>1, <2>3
  <2>5. g[m] \in T
    BY <1>3, <1>4, <1>16, <2>3, <2>4
  <2> QED BY <2>1, <2>5
<1>18. \A k \in 0 .. N : g[k] \in T
  BY <1>17
<1>19. \A k \in 1 .. N + 1 : PositionAt(r, k) = g[k - 1].next /\ k - 1 \in 0 .. N
  <2>1. \A k \in 1 .. N + 1 : k # 0 /\ k - 1 \in 0 .. N
    BY <1>1 DEF N
  <2> QED BY <1>15, <2>1 DEF PositionAt
<1>20. \A k \in 0 .. N + 1 : k = 0 \/ k \in 1 .. N + 1
  BY <1>1 DEF N
<1>21. \A k \in 0 .. N : k = 0 \/ (k \in 1 .. N /\ k \in 1 .. N + 1)
  BY <1>1 DEF N
<1>22. ASSUME NEW k \in 0 .. N + 1
       PROVE  PositionAt(r, k) \in Positions /\ CountsPresents(c, PositionAt(r, k))
  BY <1>2, <1>3, <1>6, <1>18, <1>19, <1>20
<1>23. ASSUME NEW k \in 0 .. N PROVE g[k] = FrameAt(r, PositionAt(r, k))
  BY <1>6, <1>16, <1>19, <1>21
<1> QED BY <1>15, <1>16, <1>18, <1>22, <1>23 DEF N, T

(* The next frame, and the position behind it.                                *)
LEMMA NextFrame ==
  ASSUME NEW r, IsReplay(r), NEW k \in 0 .. Len(r.capture.blocks)
  PROVE  LET frame == CaptureFrames(r)[k]
             read == ProcessBlocks(r.capture, r.block_limit, PositionAt(r, k))
         IN /\ frame \in FrameTypes
            /\ PositionAt(r, k) \in Positions
            /\ PositionAt(r, k + 1) = frame.next
            /\ frame.number = PositionAt(r, k).frame_number /\ frame.next = read.pos
            /\ frame.result = ResultEntry(read.state, read.pos.frame_number)
            /\ frame.result.state = read.state /\ IsTerminator(frame.result)
            /\ frame.result.next_frame = frame.next.frame_number
            /\ frame.blocks = [i \in 1 .. Len(read.out) |-> read.out[i].block]
            /\ frame.result.state = "kFrameBoundary" =>
                 /\ frame.next.block_index >= PositionAt(r, k).block_index + 1
                 /\ FirstMarkerIsEarly(r.capture) => frame.next.frame_number >= frame.number
<1>1. Len(r.capture.blocks) \in Nat
  BY ReplayIsTyped
<1>2. k \in 0 .. Len(r.capture.blocks) + 1 /\ k + 1 # 0 /\ (k + 1) - 1 = k
  BY <1>1
<1>3. PositionAt(r, k + 1) = CaptureFrames(r)[k].next
  BY <1>2 DEF PositionAt
<1>4. PICK p \in Positions : p = PositionAt(r, k) /\ CountsPresents(r.capture, p)
  BY <1>2, FramesAreRead
<1>5. CaptureFrames(r)[k] = FrameAt(r, p)
  BY <1>4, FramesAreRead
<1> QED BY <1>3, <1>4, <1>5, FrameFacts DEF FramesOf

(* Every frame that ended has taken a block.                                  *)
LEMMA FramesAdvance ==
  ASSUME NEW r, IsReplay(r), NEW k \in 0 .. Len(r.capture.blocks) + 1,
         \A j \in 0 .. k - 1 : CaptureFrames(r)[j].result.state = "kFrameBoundary"
  PROVE  PositionAt(r, k).block_index >= k
<1> DEFINE N == Len(r.capture.blocks)
           slow == {j \in 0 .. k : ~(PositionAt(r, j).block_index >= j)}
<1>1. N \in Nat /\ k \in Nat /\ k <= N + 1
  BY ReplayIsTyped
<1>2. \A j \in 0 .. k : PositionAt(r, j).block_index \in Nat
  <2>1. \A j \in 0 .. k : j \in 0 .. N + 1
    BY <1>1
  <2>2. \A j \in 0 .. k : PositionAt(r, j) \in Positions
    BY <2>1, FramesAreRead
  <2> QED BY <2>2 DEF Positions
<1>3. ASSUME slow # {} PROVE FALSE
  <2>1. PICK m \in slow : \A j \in slow : m <= j
    <3>1. slow \subseteq Nat
      OBVIOUS
    <3> HIDE DEF slow
    <3> QED BY <1>3, <3>1, LeastExists
  <2>2. m # 0
    BY <1>1, <1>2, <2>1
  <2>3. PICK j \in 0 .. k - 1 : m = j + 1 /\ j \in 0 .. N /\ j \in 0 .. k /\ ~(m <= j) /\ j \in Nat
    <3>1. m - 1 \in 0 .. k - 1 /\ m = (m - 1) + 1 /\ m - 1 \in 0 .. N /\ m - 1 \in 0 .. k
          /\ ~(m <= m - 1) /\ m - 1 \in Nat
      BY <1>1, <2>1, <2>2
    <3> QED BY <3>1
  <2>4. PositionAt(r, j).block_index >= j
    BY <2>1, <2>3
  <2>5. PositionAt(r, j + 1).block_index >= PositionAt(r, j).block_index + 1
    BY <2>3, NextFrame
  <2>6. PositionAt(r, j + 1).block_index \in Nat /\ PositionAt(r, j).block_index \in Nat
    BY <1>2, <2>1, <2>3
  <2>7. PositionAt(r, m).block_index >= m
    <3> HIDE DEF slow
    <3> QED BY <2>3, <2>4, <2>5, <2>6
  <2> QED BY <2>1, <2>7
<1>4. k \in 0 .. k
  BY <1>1
<1> QED BY <1>3, <1>4

(* Replay comes to a last frame: the capture ends.                            *)
LEMMA LastFrameIsThere ==
  ASSUME NEW r, IsReplay(r)
  PROVE  /\ LastFrame(r) \in 0 .. Len(r.capture.blocks)
         /\ IsLast(r.options, CaptureFrames(r)[LastFrame(r)])
         /\ \A j \in 0 .. LastFrame(r) - 1 : ~IsLast(r.options, CaptureFrames(r)[j])
<1> DEFINE N == Len(r.capture.blocks)
           Stop(k) == IsLast(r.options, CaptureFrames(r)[k])
           T == {k \in 0 .. N : Stop(k)}
<1>1. N \in Nat
  BY ReplayIsTyped
<1>2. ASSUME T = {} PROVE FALSE
  <2>1. \A j \in 0 .. N : CaptureFrames(r)[j].result.state = "kFrameBoundary"
    BY <1>2 DEF IsLast
  <2>2. N + 1 \in 0 .. N + 1 /\ (N + 1) - 1 = N
    BY <1>1
  <2>3. PositionAt(r, N + 1).block_index >= N + 1
    BY <2>1, <2>2, FramesAdvance
  <2>4. PositionAt(r, N + 1) \in Positions /\ PositionAt(r, N + 1).block_index <= N
    BY <2>2, FramesAreRead DEF CountsPresents
  <2> QED BY <1>1, <2>3, <2>4 DEF Positions
<1>3. PICK m \in T : \A k \in T : m <= k
  <2>1. T \subseteq Nat
    BY <1>1
  <2> HIDE DEF T
  <2> QED BY <1>2, <2>1, LeastExists
<1>4. m \in 0 .. N /\ Stop(m) /\ \A j \in 0 .. m - 1 : ~Stop(j)
  BY <1>1, <1>3
<1>5. LastFrame(r) = CHOOSE k \in 0 .. N : Stop(k) /\ \A j \in 0 .. k - 1 : ~Stop(j)
  <2>1. DOMAIN CaptureFrames(r) = 0 .. N
    BY FramesAreRead
  <2> QED BY <2>1 DEF LastFrame
<1> HIDE DEF Stop
<1>6. LastFrame(r) \in 0 .. N /\ Stop(LastFrame(r)) /\ \A j \in 0 .. LastFrame(r) - 1 : ~Stop(j)
  BY <1>4, <1>5
<1> QED BY <1>6 DEF Stop

-----------------------------------------------------------------------------
(* The script of a replay                                                    *)

LEMMA ToldBlocks ==
  ASSUME NEW blocks \in Seq(Nat), NEW number \in Nat
  PROVE  /\ Told(blocks, number) \in Seq(ShownBlocks)
         /\ Told(blocks, number)
              = [i \in 1 .. Len(blocks) |-> [block |-> blocks[i], frame |-> number]]
<1>1. Told(blocks, number)
        = [i \in 1 .. Len(blocks) |-> [block |-> blocks[i], frame |-> number]]
  BY DEF Told
<1>2. \A i \in 1 .. Len(blocks) : [block |-> blocks[i], frame |-> number] \in ShownBlocks
  BY DEF ShownBlocks
<1> QED BY <1>1, <1>2

(* A repetition begins behind the first state end marker, if there is one.    *)
LEMMA RepeatedBlocks ==
  ASSUME NEW c, NEW blocks \in Seq(Nat)
  PROVE  LET markers == {i \in 1 .. Len(blocks) : c.blocks[blocks[i]] = "state_end"} IN
         /\ markers = {} => WithoutStateBlocks(c, blocks) = blocks
         /\ \A first \in markers :
              (\A i \in markers : first <= i)
                => WithoutStateBlocks(c, blocks) = SubSeq(blocks, 1 + first, Len(blocks))
         /\ WithoutStateBlocks(c, blocks) \in Seq(Nat)
<1> DEFINE Marks(i) == c.blocks[blocks[i]] = "state_end"
           markers == {i \in 1 .. Len(blocks) : Marks(i)}
           after == {n \in 1 .. Len(blocks) + 1 :
                       n > 1 /\ Marks(n - 1) /\ \A m \in 1 .. n - 2 : ~Marks(m)}
<1>1. Len(blocks) \in Nat
  OBVIOUS
<1>2. WithoutStateBlocks(c, blocks) = IF after = {} THEN blocks
                                      ELSE SubSeq(blocks, CHOOSE n \in after : TRUE, Len(blocks))
  BY DEF WithoutStateBlocks
<1> HIDE DEF Marks
<1>3. \A n \in after : n - 1 \in markers /\ n \in Nat /\ n > 1 /\ \A m \in markers : ~(m < n - 1)
  <2> SUFFICES ASSUME NEW n \in after
               PROVE  n - 1 \in markers /\ n \in Nat /\ n > 1 /\ \A m \in markers : ~(m < n - 1)
    OBVIOUS
  <2>1. n - 1 \in 1 .. Len(blocks)
    BY <1>1
  <2>2. \A m \in 1 .. Len(blocks) : m < n - 1 => m \in 1 .. n - 2
    BY <1>1
  <2> QED BY <2>1, <2>2
<1>4. \A first \in markers :
        (\A i \in markers : first <= i) => first + 1 \in after /\ first \in Nat
  <2> SUFFICES ASSUME NEW first \in markers, \A i \in markers : first <= i
               PROVE  first + 1 \in after /\ first \in Nat
    OBVIOUS
  <2>1. first + 1 \in 1 .. Len(blocks) + 1 /\ first + 1 > 1 /\ (first + 1) - 1 = first
        /\ (first + 1) - 2 = first - 1 /\ first \in Nat
    BY <1>1
  <2>2. ASSUME NEW m \in 1 .. first - 1, Marks(m) PROVE FALSE
    <3>1. m \in 1 .. Len(blocks) /\ ~(first <= m)
      BY <1>1, <2>1
    <3> QED BY <2>2, <3>1
  <2> QED BY <2>1, <2>2
<1> HIDE DEF markers, after
<1>5. markers = {} => after = {}
  BY <1>3
<1>6. ASSUME NEW first \in markers, \A i \in markers : first <= i
      PROVE  /\ after # {} /\ first \in Nat
             /\ (CHOOSE n \in after : TRUE) = 1 + first
  <2>1. first + 1 \in after /\ first \in Nat
    BY <1>4, <1>6
  <2>2. \A n \in after : n = 1 + first
    <3> TAKE n \in after
    <3>1. first <= n - 1 /\ ~(first < n - 1) /\ n \in Nat
      BY <1>3, <1>6
    <3> QED BY <2>1, <3>1
  <2> QED BY <2>1, <2>2
<1>7. WithoutStateBlocks(c, blocks) \in Seq(Nat)
  <2>1. CASE after = {}
    BY <1>2, <2>1
  <2>2. CASE after # {}
    <3>1. PICK n : n = (CHOOSE m \in after : TRUE) /\ n \in after
      BY <2>2
    <3>2. n \in Nat /\ n > 1
      BY <1>3, <3>1
    <3>3. SubSeq(blocks, n, Len(blocks)) \in Seq(Nat)
      BY <1>1, <3>2
    <3> QED BY <1>2, <2>2, <3>1, <3>3
  <2> QED BY <2>1, <2>2
<1> QED BY <1>2, <1>5, <1>6, <1>7 DEF markers, Marks

(* The script has the frames up to the last, then the repetitions of that one. *)
LEMMA ScriptFacts ==
  ASSUME NEW r, IsReplay(r)
  PROVE  LET last == LastFrame(r)
             final == CaptureFrames(r)[last]
             script == Script(r)
             repetitions == Repetitions(r.options, final)
         IN /\ last \in Nat /\ repetitions \in Nat
            /\ script \in Seq(Seq(ShownBlocks)) /\ Len(script) = last + 1 + repetitions
            /\ \A k \in 0 .. last :
                 script[k + 1] = Told(CaptureFrames(r)[k].blocks, CaptureFrames(r)[k].number)
            /\ \A k \in last + 1 .. Len(script) - 1 :
                 script[k + 1] = Told(WithoutStateBlocks(r.capture, final.blocks),
                                      final.result.next_frame)
<1> DEFINE last == LastFrame(r)
           F == CaptureFrames(r)
           final == F[last]
           repetitions == Repetitions(r.options, final)
           First(k) == Told(F[k].blocks, F[k].number)
           again == Told(WithoutStateBlocks(r.capture, final.blocks), final.result.next_frame)
           script == [k \in 1 .. last + 1 + repetitions |->
                        IF k <= last + 1 THEN First(k - 1) ELSE again]
<1>1. Script(r) = script
  BY DEF Script
<1>2. last \in 0 .. Len(r.capture.blocks) /\ Len(r.capture.blocks) \in Nat
      /\ r.options.loop_count \in Nat \ {0}
  BY LastFrameIsThere, ReplayIsTyped
<1>3. last \in Nat /\ repetitions \in Nat
  BY <1>2 DEF Repetitions
<1>4. \A k \in 0 .. last : F[k].blocks \in Seq(Nat) /\ F[k].number \in Nat
  <2>1. \A k \in 0 .. last : k \in 0 .. Len(r.capture.blocks)
    BY <1>2
  <2>2. \A k \in 0 .. last : F[k] \in FrameTypes
    BY <2>1, FramesAreRead DEF FramesOf
  <2> QED BY <2>2 DEF FrameTypes
<1>5. \A k \in 0 .. last : First(k) \in Seq(ShownBlocks)
  BY <1>4, ToldBlocks
<1>6. again \in Seq(ShownBlocks)
  <2>1. final.result.next_frame \in Nat
    <3>1. final \in FrameTypes /\ final.result.next_frame = final.next.frame_number
      BY <1>2, NextFrame
    <3> QED BY <3>1 DEF FrameTypes, Positions
  <2>2. last \in 0 .. last
    BY <1>3
  <2>3. final.blocks \in Seq(Nat)
    BY <1>4, <2>2
  <2>4. WithoutStateBlocks(r.capture, final.blocks) \in Seq(Nat)
    BY <2>3, RepeatedBlocks
  <2> QED BY <2>1, <2>4, ToldBlocks
<1> HIDE DEF last, repetitions, First, again, F, final
<1>7. script \in Seq(Seq(ShownBlocks)) /\ Len(script) = last + 1 + repetitions
  <2>1. \A k \in 1 .. last + 1 + repetitions : k <= last + 1 => k - 1 \in 0 .. last
    BY <1>3
  <2>2. \A k \in 1 .. last + 1 + repetitions :
          (IF k <= last + 1 THEN First(k - 1) ELSE again) \in Seq(ShownBlocks)
    BY <1>5, <1>6, <2>1
  <2>3. last + 1 + repetitions \in Nat
    BY <1>3
  <2> QED BY <2>2, <2>3
<1>8. \A k \in 0 .. last : script[k + 1] = First(k)
  <2> TAKE k \in 0 .. last
  <2>1. k + 1 \in 1 .. last + 1 + repetitions /\ k + 1 <= last + 1 /\ (k + 1) - 1 = k
    BY <1>3
  <2> QED BY <2>1
<1>9. \A k \in last + 1 .. last + repetitions : script[k + 1] = again
  <2> TAKE k \in last + 1 .. last + repetitions
  <2>1. k + 1 \in 1 .. last + 1 + repetitions /\ ~(k + 1 <= last + 1)
    BY <1>3
  <2> QED BY <2>1
<1>10. Len(script) - 1 = last + repetitions
  BY <1>3, <1>7
<1> HIDE DEF script
<1> QED BY <1>1, <1>3, <1>7, <1>8, <1>9, <1>10 DEF last, repetitions, First, again, F, final

(* What decoders have seen after k frames.                                    *)
LEMMA PlayedFacts ==
  ASSUME NEW r, IsReplay(r)
  PROVE  LET script == Script(r)
             played == Played(r)
         IN /\ Len(script) \in Nat /\ DOMAIN played = 0 .. Len(script)
            /\ played[0] = <<>>
            /\ \A k \in 0 .. Len(script) : played[k] \in Seq(ShownBlocks)
            /\ \A k \in 0 .. Len(script) - 1 : played[k + 1] = played[k] \o script[k + 1]
            /\ \A k \in 0 .. Len(script) : Len(played[k]) <= Len(played[Len(script)])
<1> DEFINE script == Script(r)
           N == Len(script)
           T == Seq(ShownBlocks)
           Equation(f) == f = [k \in 0 .. N |-> IF k = 0 THEN <<>> ELSE f[k - 1] \o script[k]]
<1>1. script \in Seq(T) /\ N \in Nat
  BY ScriptFacts
<1>2. \A k \in 1 .. N : script[k] \in T
  BY <1>1
<1>3. Played(r) = CHOOSE f : Equation(f)
  BY DEF Played
<1>4. \A s, t \in T : s \o t \in T /\ Len(s) \in Nat /\ Len(t) \in Nat /\ Len(s \o t) = Len(s) + Len(t)
  OBVIOUS
<1>5. <<>> \in T
  OBVIOUS
<1> HIDE DEF script, N, T, Equation
<1>7. PICK step : step = [k \in 1 .. N |-> [s \in T |-> s \o script[k]]]
  OBVIOUS
<1>8. step \in Steps(N, T)
  BY <1>2, <1>4, <1>7 DEF Steps
<1>10. PICK f : IsRecursion(f, N, T, <<>>, step)
  BY <1>1, <1>5, <1>8, RecursionExists DEF N
<1>11. /\ f \in [0 .. N -> T] /\ f[0] = <<>>
       /\ \A k \in 1 .. N : f[k] = step[k][f[k - 1]]
  BY <1>10 DEF IsRecursion
<1>12. \A k \in 1 .. N : k - 1 \in 0 .. N /\ f[k - 1] \in T
  BY <1>1, <1>11
<1>13. \A k \in 1 .. N : f[k] = f[k - 1] \o script[k]
  BY <1>7, <1>11, <1>12
<1>14. Equation(f)
  <2>1. \A k \in 0 .. N : k = 0 \/ (k \in 1 .. N /\ k # 0)
    BY <1>1
  <2> QED BY <1>11, <1>13, <2>1 DEF Equation
<1>15. PICK g : g = Played(r) /\ Equation(g)
  BY <1>3, <1>14
<1>16. DOMAIN g = 0 .. N /\ g[0] = <<>> /\ \A k \in 1 .. N : g[k] = g[k - 1] \o script[k]
  <2>1. g = [k \in 0 .. N |-> IF k = 0 THEN <<>> ELSE g[k - 1] \o script[k]]
    BY <1>15 DEF Equation
  <2>2. 0 \in 0 .. N /\ \A k \in 1 .. N : k \in 0 .. N /\ k # 0
    BY <1>1
  <2>3. DOMAIN g = 0 .. N
    BY <2>1
  <2> QED BY <2>1, <2>2, <2>3, Zenon
<1> DEFINE untyped == {k \in 0 .. N : g[k] \notin T}
<1>17. ASSUME untyped # {} PROVE FALSE
  <2>1. PICK m \in untyped : \A k \in untyped : m <= k
    <3>1. untyped \subseteq Nat
      OBVIOUS
    <3> HIDE DEF untyped
    <3> QED BY <1>17, <3>1, LeastExists
  <2>2. m # 0
    BY <1>5, <1>16, <2>1
  <2>3. m \in 1 .. N /\ m - 1 \in 0 .. N /\ ~(m <= m - 1)
    BY <1>1, <2>1, <2>2
  <2>4. g[m - 1] \in T
    BY <2>1, <2>3
  <2>5. g[m] \in T
    BY <1>2, <1>4, <1>16, <2>3, <2>4
  <2> QED BY <2>1, <2>5
<1>18. \A k \in 0 .. N : g[k] \in T
  BY <1>17
<1>19. \A k \in 0 .. N - 1 : g[k + 1] = g[k] \o script[k + 1] /\ Len(g[k]) <= Len(g[k + 1])
  <2> TAKE k \in 0 .. N - 1
  <2>1. k + 1 \in 1 .. N /\ (k + 1) - 1 = k /\ k \in 0 .. N
    BY <1>1
  <2>2. g[k + 1] = g[k] \o script[k + 1] /\ g[k] \in T /\ script[k + 1] \in T
    BY <1>2, <1>16, <1>18, <2>1
  <2>3. Len(g[k] \o script[k + 1]) = Len(g[k]) + Len(script[k + 1])
        /\ Len(g[k]) \in Nat /\ Len(script[k + 1]) \in Nat
    BY <1>4, <2>2
  <2>4. Len(g[k]) <= Len(g[k] \o script[k + 1])
    <3>1. \A a, b, d : a \in Nat /\ b \in Nat /\ d = a + b => a <= d
      OBVIOUS
    <3> QED BY <2>3, <3>1, Zenon
  <2> QED BY <2>2, <2>4
<1> DEFINE below == {j \in 0 .. N : ~(Len(g[N - j]) <= Len(g[N]))}
<1>20. ASSUME below # {} PROVE FALSE
  <2>1. PICK m \in below : \A j \in below : m <= j
    <3>1. below \subseteq Nat
      OBVIOUS
    <3> HIDE DEF below
    <3> QED BY <1>20, <3>1, LeastExists
  <2>2. \A k \in 0 .. N : Len(g[k]) \in Nat
    BY <1>4, <1>18
  <2>3. m # 0
    <3>1. N - 0 = N /\ N \in 0 .. N
      BY <1>1
    <3> QED BY <2>1, <2>2, <3>1
  <2>4. m - 1 \in 0 .. N /\ ~(m <= m - 1) /\ N - m \in 0 .. N - 1 /\ (N - m) + 1 = N - (m - 1)
        /\ N - m \in 0 .. N /\ N - (m - 1) \in 0 .. N /\ N \in 0 .. N
    BY <1>1, <2>1, <2>3
  <2>5. Len(g[N - (m - 1)]) <= Len(g[N])
    BY <2>1, <2>4
  <2>6. Len(g[N - m]) <= Len(g[(N - m) + 1])
    BY <1>19, <2>4
  <2>7. Len(g[N - m]) <= Len(g[N])
    <3>1. Len(g[N - m]) \in Nat /\ Len(g[N - (m - 1)]) \in Nat /\ Len(g[N]) \in Nat
      BY <2>2, <2>4
    <3>2. \A a, b, d \in Nat : a <= b /\ b <= d => a <= d
      OBVIOUS
    <3> QED BY <2>4, <2>5, <2>6, <3>1, <3>2
  <2> QED BY <2>1, <2>7
<1>21. \A k \in 0 .. N : Len(g[k]) <= Len(g[N])
  <2> TAKE k \in 0 .. N
  <2>1. N - k \in 0 .. N /\ N - (N - k) = k
    BY <1>1
  <2> QED BY <1>20, <2>1
<1> QED BY <1>1, <1>15, <1>16, <1>18, <1>19, <1>21 DEF N, T, script

-----------------------------------------------------------------------------
(* Frames that are replayed from a queue                                     *)

(* What is played from a place in the queue is the frame that ends there.     *)
PlaysFrame(queue, at, end, frame) ==
  LET rest == SubSeq(queue, at, Len(queue))
      n == EntriesOfFrame(rest)
  IN /\ HasTerminator(rest) /\ n = (end - at) + 1 /\ rest[n] = queue[end]
     /\ Shown(SubSeq(rest, 1, n), frame)
          = [i \in 1 .. end - at |-> [block |-> queue[(at + i) - 1].block, frame |-> frame]]

(* A frame with its result behind it is taken from a queue as a whole.        *)
LEMMA FrameIsPlayed ==
  ASSUME NEW queue \in Seq(Entries), NEW at \in Nat \ {0}, NEW end \in Nat,
         at <= end, end <= Len(queue), IsTerminator(queue[end]),
         \A i \in at .. end - 1 : ~IsResult(queue[i]),
         NEW frame \in Nat
  PROVE  PlaysFrame(queue, at, end, frame)
<1> DEFINE rest == SubSeq(queue, at, Len(queue))
           b == end - at
           n == EntriesOfFrame(rest)
           taken == SubSeq(rest, 1, n)
<1>1. Len(queue) \in Nat /\ b \in Nat /\ (at + (b + 1)) - 1 = end
  OBVIOUS
<1>2. /\ rest \in Seq(Entries) /\ Len(rest) = (Len(queue) - at) + 1
      /\ DOMAIN rest = 1 .. Len(rest)
      /\ \A i \in 1 .. Len(rest) : rest[i] = queue[(at + i) - 1]
  BY <1>1
<1>3. b + 1 \in 1 .. Len(rest) /\ Len(rest) \in Nat
  BY <1>1, <1>2
<1> HIDE DEF rest, b
<1>4. rest[b + 1] = queue[end]
  BY <1>1, <1>2, <1>3
<1>5. \A i \in 1 .. b : ~IsResult(rest[i]) /\ rest[i] = queue[(at + i) - 1]
  <2> TAKE i \in 1 .. b
  <2>1. i \in 1 .. Len(rest) /\ (at + i) - 1 \in at .. end - 1
    BY <1>1, <1>3
  <2> QED BY <1>2, <2>1
<1>6. HasTerminator(rest)
  BY <1>2, <1>3, <1>4 DEF HasTerminator
<1>7. n \in 1 .. Len(rest) /\ IsTerminator(rest[n]) /\ \A i \in 1 .. n - 1 : ~IsTerminator(rest[i])
  BY <1>2, <1>6, FrameIsTaken
<1> HIDE DEF n
<1>8. n = b + 1
  <2>1. ~(b + 1 < n)
    <3>1. b + 1 < n => b + 1 \in 1 .. n - 1
      BY <1>1, <1>7, <1>3
    <3> QED BY <1>4, <1>7, <3>1
  <2>2. ~(n < b + 1)
    <3>1. n < b + 1 => n \in 1 .. b
      BY <1>1, <1>7, <1>3
    <3> QED BY <1>5, <1>7, <3>1 DEF IsTerminator
  <2> QED BY <1>1, <1>3, <1>7, <2>1, <2>2
<1>9. /\ taken \in Seq(Entries) /\ Len(taken) = b + 1
      /\ \A i \in 1 .. b + 1 : taken[i] = rest[i]
  BY <1>1, <1>2, <1>3, <1>8
<1> HIDE DEF taken
<1>10. /\ b \in 0 .. Len(taken) /\ b + 1 \in 1 .. b + 1
       /\ \A i \in 1 .. b : i \in 1 .. b + 1
       /\ \A i \in b + 1 .. Len(taken) : i = b + 1
  BY <1>1, <1>9
<1>11. Shown(taken, frame) = [i \in 1 .. b |-> [block |-> taken[i].block, frame |-> frame]]
  <2>1. \A i \in 1 .. b : ~IsResult(taken[i])
    BY <1>5, <1>9, <1>10
  <2>2. \A i \in b + 1 .. Len(taken) : IsResult(taken[i])
    BY <1>4, <1>9, <1>10 DEF IsTerminator
  <2> QED BY <1>9, <1>10, <2>1, <2>2, BlocksAreShown
<1>12. \A i \in 1 .. b : taken[i] = queue[(at + i) - 1]
  BY <1>5, <1>9, <1>10
<1>13. Shown(taken, frame)
         = [i \in 1 .. b |-> [block |-> queue[(at + i) - 1].block, frame |-> frame]]
  BY <1>11, <1>12
<1> QED BY <1>4, <1>6, <1>8, <1>13 DEF PlaysFrame, b, n, rest, taken

(* A repetition shows what is behind the state end marker.                    *)
LEMMA RepetitionIsPlayed ==
  ASSUME NEW c, NEW queue \in Seq(Entries), NEW blocks \in Seq(Nat),
         Len(queue) = Len(blocks) + 1, IsTerminator(queue[Len(queue)]),
         \A i \in 1 .. Len(blocks) : ~IsResult(queue[i]) /\ queue[i].block = blocks[i],
         NEW frame \in Nat
  PROVE  LET at == SkipStateBlocks(c, queue)
             rest == SubSeq(queue, at, Len(queue))
             n == EntriesOfFrame(rest)
         IN /\ HasTerminator(rest) /\ rest[n] = queue[Len(queue)]
            /\ Shown(SubSeq(rest, 1, n), frame) = Told(WithoutStateBlocks(c, blocks), frame)
<1> DEFINE at == SkipStateBlocks(c, queue)
           rest == SubSeq(queue, at, Len(queue))
           n == EntriesOfFrame(rest)
           markers == {i \in 1 .. Len(blocks) : c.blocks[blocks[i]] = "state_end"}
           found == {i \in DOMAIN queue :
                       ~IsResult(queue[i]) /\ c.blocks[queue[i].block] = "state_end"}
           repeated == WithoutStateBlocks(c, blocks)
<1>1. Len(queue) \in Nat /\ Len(blocks) \in Nat /\ DOMAIN queue = 1 .. Len(queue)
      /\ queue # <<>>
  OBVIOUS
<1>2. found = markers
  <2>1. \A i \in DOMAIN queue : i \in 1 .. Len(blocks) \/ i = Len(queue)
    BY <1>1
  <2>2. \A i \in 1 .. Len(blocks) : i \in DOMAIN queue
    BY <1>1
  <2>3. IsResult(queue[Len(queue)])
    BY DEF IsTerminator
  <2> QED BY <2>1, <2>2, <2>3
<1>3. at = IF markers = {} THEN 1 ELSE 1 + (CHOOSE i \in markers : \A j \in markers : i <= j)
  <2>1. at = IF found = {} THEN 1 ELSE 1 + (CHOOSE i \in found : \A j \in found : i <= j)
    BY DEF SkipStateBlocks
  <2> HIDE DEF at, found, markers
  <2> QED BY <1>2, <2>1
<1>4. /\ at \in Nat \ {0} /\ at <= Len(queue)
      /\ repeated = SubSeq(blocks, at, Len(blocks))
  <2>1. CASE markers = {}
    <3>1. SubSeq(blocks, 1, Len(blocks)) = blocks
      OBVIOUS
    <3>2. repeated = blocks
      BY <2>1, RepeatedBlocks
    <3>3. at = 1
      BY <1>3, <2>1
    <3> HIDE DEF at, repeated
    <3> QED BY <1>1, <3>1, <3>2, <3>3
  <2>2. CASE markers # {}
    <3>1. markers \subseteq Nat /\ \A i \in markers : i <= Len(blocks) /\ i > 0
      BY <1>1
    <3>2. \E i \in markers : \A j \in markers : i <= j
      <4> HIDE DEF markers
      <4> QED BY <2>2, <3>1, LeastExists
    <3>3. PICK first \in markers : /\ at = 1 + first
                                   /\ \A j \in markers : first <= j
      <4> HIDE DEF markers
      <4> QED BY <1>3, <2>2, <3>2
    <3>4. repeated = SubSeq(blocks, 1 + first, Len(blocks))
      BY <3>3, RepeatedBlocks
    <3> QED BY <1>1, <3>1, <3>3, <3>4
  <2> QED BY <2>1, <2>2
<1> HIDE DEF at, markers, repeated
<1>5. /\ HasTerminator(rest) /\ rest[n] = queue[Len(queue)]
      /\ Shown(SubSeq(rest, 1, n), frame)
           = [i \in 1 .. Len(queue) - at |-> [block |-> queue[(at + i) - 1].block, frame |-> frame]]
  <2>1. \A i \in at .. Len(queue) - 1 : ~IsResult(queue[i])
    BY <1>1, <1>4
  <2>2. PICK a \in Nat \ {0} : a = at
    BY <1>4
  <2>3. PICK end \in Nat : end = Len(queue)
    BY <1>1
  <2>4. PlaysFrame(queue, a, end, frame)
    <3>1. a <= end /\ end <= Len(queue) /\ IsTerminator(queue[end])
      BY <1>1, <1>4, <2>2, <2>3
    <3>2. \A i \in a .. end - 1 : ~IsResult(queue[i])
      BY <2>1, <2>2, <2>3
    <3> HIDE DEF rest, n
    <3> QED BY <3>1, <3>2, FrameIsPlayed
  <2> QED BY <2>2, <2>3, <2>4 DEF PlaysFrame
<1>6. Told(repeated, frame)
        = [i \in 1 .. Len(queue) - at |-> [block |-> blocks[(at + i) - 1], frame |-> frame]]
  <2>1. /\ repeated \in Seq(Nat) /\ Len(repeated) = Len(queue) - at
        /\ \A i \in 1 .. Len(queue) - at : repeated[i] = blocks[(at + i) - 1]
    <3>1. at <= Len(blocks) + 1
      BY <1>1, <1>4
    <3> QED BY <1>1, <1>4, <3>1
  <2>2. Told(repeated, frame)
          = [i \in 1 .. Len(repeated) |-> [block |-> repeated[i], frame |-> frame]]
    BY <2>1, ToldBlocks
  <2> QED BY <2>1, <2>2
<1>7. \A i \in 1 .. Len(queue) - at : queue[(at + i) - 1].block = blocks[(at + i) - 1]
  <2> TAKE i \in 1 .. Len(queue) - at
  <2>1. (at + i) - 1 \in 1 .. Len(blocks)
    BY <1>1, <1>4
  <2> QED BY <2>1
<1>8. Shown(SubSeq(rest, 1, n), frame) = Told(repeated, frame)
  BY <1>5, <1>6, <1>7
<1> QED BY <1>5, <1>8 DEF at, repeated

-----------------------------------------------------------------------------
(* Frames in a queue                                                         *)

(* The entries of a frame, and of the frames from a to c: s[k] is where the   *)
(* k-th begins.                                                               *)
HoldsFrame(frame, queue, at, end) ==
  /\ end = at + Len(frame.blocks) + 1
  /\ queue[end] = frame.result
  /\ \A i \in 1 .. Len(frame.blocks) :
       ~IsResult(queue[at + i]) /\ queue[at + i].block = frame.blocks[i]

HoldsFrames(r, queue, a, c, s) ==
  /\ a \in Nat /\ c \in Nat /\ a <= c
  /\ s \in [a .. c -> Nat]
  /\ s[a] = 0 /\ s[c] = Len(queue)
  /\ \A j, k \in a .. c : j < k => s[j] < s[k]
  /\ \A k \in a .. c - 1 : HoldsFrame(CaptureFrames(r)[k], queue, s[k], s[k + 1])

(* An empty queue holds no frames,                                            *)
LEMMA HoldsNone ==
  ASSUME NEW r, NEW a \in Nat
  PROVE  \E s : HoldsFrames(r, <<>>, a, a, s)
<1>1. HoldsFrames(r, <<>>, a, a, [k \in a .. a |-> 0])
  BY DEF HoldsFrames
<1> QED BY <1>1

(* and one more with each frame that is read into it.                         *)
LEMMA HoldsOneMore ==
  ASSUME NEW r, NEW queue \in Seq(Entries), NEW a, NEW c, NEW s, HoldsFrames(r, queue, a, c, s),
         NEW out \in Seq(Entries), NEW result \in Entries,
         \A k \in a .. c - 1 : CaptureFrames(r)[k].blocks \in Seq(Nat),
         \A i \in 1 .. Len(out) : ~IsResult(out[i]),
         CaptureFrames(r)[c].blocks = [i \in 1 .. Len(out) |-> out[i].block],
         CaptureFrames(r)[c].result = result
  PROVE  \E t : HoldsFrames(r, queue \o Append(out, result), a, c + 1, t)
<1> DEFINE frame == CaptureFrames(r)[c]
           read == Append(out, result)
           longer == queue \o read
           b == Len(out)
           n == Len(queue)
           t == [k \in a .. c + 1 |-> IF k <= c THEN s[k] ELSE n + b + 1]
<1>0. \A k \in a .. c - 1 : CaptureFrames(r)[k].blocks \in Seq(Nat)
  OBVIOUS
<1>1. /\ a \in Nat /\ c \in Nat /\ a <= c /\ s \in [a .. c -> Nat] /\ s[a] = 0 /\ s[c] = n
      /\ \A j, k \in a .. c : j < k => s[j] < s[k]
      /\ n \in Nat /\ b \in Nat
  BY DEF HoldsFrames
<1>2. /\ read \in Seq(Entries) /\ Len(read) = b + 1
      /\ read[b + 1] = result /\ \A i \in 1 .. b : read[i] = out[i]
  BY <1>1
<1> HIDE DEF read
<1>3. /\ Len(longer) = n + b + 1
      /\ \A i \in 1 .. n : longer[i] = queue[i]
      /\ \A i \in 1 .. b + 1 : longer[n + i] = read[i]
  <2>1. /\ Len(longer) = n + Len(read)
        /\ \A i \in 1 .. n + Len(read) :
             longer[i] = IF i <= n THEN queue[i] ELSE read[i - n]
    <3>1. \A u, v \in Seq(Entries) :
            /\ Len(u \o v) = Len(u) + Len(v)
            /\ \A i \in 1 .. Len(u) + Len(v) :
                 (u \o v)[i] = IF i <= Len(u) THEN u[i] ELSE v[i - Len(u)]
      OBVIOUS
    <3> QED BY <1>2, <3>1
  <2> HIDE DEF longer
  <2>2. \A i \in 1 .. n : i \in 1 .. n + Len(read) /\ i <= n
    BY <1>1, <1>2
  <2>3. \A i \in 1 .. b + 1 : n + i \in 1 .. n + Len(read) /\ ~(n + i <= n) /\ (n + i) - n = i
    BY <1>1, <1>2
  <2>4. Len(longer) = n + b + 1
    BY <1>1, <1>2, <2>1
  <2>5. \A i \in 1 .. n : longer[i] = queue[i]
    BY <2>1, <2>2
  <2>6. \A i \in 1 .. b + 1 : longer[n + i] = read[i]
    BY <2>1, <2>3
  <2> QED BY <2>4, <2>5, <2>6
<1> HIDE DEF longer, n, b
<1>4. /\ t \in [a .. c + 1 -> Nat] /\ t[a] = 0 /\ t[c + 1] = n + b + 1
      /\ \A k \in a .. c : t[k] = s[k]
  <2>1. \A k \in a .. c + 1 : k <= c => k \in a .. c
    BY <1>1
  <2>2. a \in a .. c /\ c + 1 \in a .. c + 1 /\ ~(c + 1 <= c) /\ a \in a .. c + 1
        /\ \A k \in a .. c : k \in a .. c + 1 /\ k <= c
    BY <1>1
  <2>3. n + b + 1 \in Nat
    BY <1>1
  <2> QED BY <1>1, <2>1, <2>2, <2>3
<1> HIDE DEF t
<1>5. \A j \in a .. c : t[j] <= n /\ t[j] \in Nat
  <2> TAKE j \in a .. c
  <2>1. j = c \/ j < c
    BY <1>1
  <2>2. c \in a .. c /\ s[j] \in Nat
    BY <1>1
  <2> QED BY <1>1, <1>4, <2>1, <2>2
<1>6. ASSUME NEW j \in a .. c + 1, NEW k \in a .. c + 1, j < k
      PROVE  t[j] < t[k]
  <2>1. j \in a .. c
    BY <1>1, <1>6
  <2>2. CASE k \in a .. c
    BY <1>1, <1>4, <1>6, <2>1, <2>2
  <2>3. CASE k = c + 1
    BY <1>1, <1>4, <1>5, <2>1, <2>3
  <2> QED BY <1>1, <2>2, <2>3
<1>7. ASSUME NEW k \in a .. c - 1
      PROVE  HoldsFrame(CaptureFrames(r)[k], longer, t[k], t[k + 1])
  <2>1. k \in a .. c /\ k + 1 \in a .. c
    BY <1>1
  <2>2. t[k] = s[k] /\ t[k + 1] = s[k + 1] /\ t[k + 1] <= n /\ s[k] \in Nat /\ s[k + 1] \in Nat
    BY <1>1, <1>4, <1>5, <2>1
  <2>3. HoldsFrame(CaptureFrames(r)[k], queue, s[k], s[k + 1])
    BY DEF HoldsFrames
  <2> DEFINE m == Len(CaptureFrames(r)[k].blocks)
  <2>4. s[k + 1] = s[k] + m + 1
    BY <2>3 DEF HoldsFrame
  <2>5. s[k] < s[k + 1]
    BY <1>1, <2>1
  <2>6. s[k + 1] \in 1 .. n
    BY <1>1, <2>2, <2>5
  <2>7. m \in Nat
    <3>1. CaptureFrames(r)[k].blocks \in Seq(Nat)
      BY <1>0
    <3> QED BY <3>1
  <2> HIDE DEF m
  <2>8. \A i \in 1 .. m : s[k] + i \in 1 .. n
    <3>1. \A x, y, i \in Nat : x + y + 1 <= n /\ i \in 1 .. y => x + i \in 1 .. n
      BY <1>1
    <3>2. s[k] + m + 1 <= n /\ \A i \in 1 .. m : i \in Nat
      BY <2>2, <2>4
    <3> QED BY <2>2, <2>7, <3>1, <3>2
  <2>9. longer[s[k + 1]] = queue[s[k + 1]] /\ \A i \in 1 .. m : longer[s[k] + i] = queue[s[k] + i]
    BY <1>3, <2>6, <2>8
  <2>10. /\ s[k + 1] = s[k] + m + 1 /\ queue[s[k + 1]] = CaptureFrames(r)[k].result
         /\ \A i \in 1 .. m : /\ ~IsResult(queue[s[k] + i])
                               /\ queue[s[k] + i].block = CaptureFrames(r)[k].blocks[i]
    BY <2>3 DEF HoldsFrame, m
  <2>11. HoldsFrame(CaptureFrames(r)[k], longer, s[k], s[k + 1])
    BY <2>9, <2>10 DEF HoldsFrame, m
  <2> QED BY <2>2, <2>11
<1>8. HoldsFrame(frame, longer, t[c], t[c + 1])
  <2>1. c \in a .. c
    BY <1>1
  <2>2. t[c] = n /\ t[c + 1] = n + b + 1
    BY <1>1, <1>4, <2>1
  <2>3. Len(frame.blocks) = b /\ \A i \in 1 .. b : frame.blocks[i] = out[i].block
    BY <1>1 DEF b
  <2>4. b + 1 \in 1 .. b + 1 /\ n + (b + 1) = n + b + 1 /\ \A i \in 1 .. b : i \in 1 .. b + 1
    BY <1>1
  <2>5. longer[n + b + 1] = result
    BY <1>2, <1>3, <2>4
  <2>6. \A i \in 1 .. b : longer[n + i] = out[i] /\ ~IsResult(out[i])
    BY <1>2, <1>3, <2>4 DEF b
  <2> QED BY <2>2, <2>3, <2>5, <2>6 DEF HoldsFrame
<1>9. ASSUME NEW k \in a .. (c + 1) - 1
      PROVE  HoldsFrame(CaptureFrames(r)[k], longer, t[k], t[k + 1])
  <2>1. k \in a .. c - 1 \/ k = c
    BY <1>1
  <2> QED BY <1>7, <1>8, <2>1
<1>10. c + 1 \in Nat /\ a <= c + 1
  BY <1>1
<1>11. HoldsFrames(r, longer, a, c + 1, t)
  BY <1>1, <1>3, <1>4, <1>6, <1>9, <1>10 DEF HoldsFrames
<1> QED BY <1>11 DEF longer, read

(* A frame that is played from the queue is shown as the script has it.       *)
LEMMA HeldFrameIsPlayed ==
  ASSUME NEW frame \in FrameTypes, IsTerminator(frame.result),
         NEW queue \in Seq(Entries), NEW at \in Nat, NEW end \in Nat, end <= Len(queue),
         HoldsFrame(frame, queue, at, end), NEW number \in Nat
  PROVE  LET rest == SubSeq(queue, at + 1, Len(queue))
             n == EntriesOfFrame(rest)
         IN /\ HasTerminator(rest) /\ n = end - at /\ rest[n] = frame.result
            /\ Shown(SubSeq(rest, 1, n), number) = Told(frame.blocks, number)
<1> DEFINE b == Len(frame.blocks)
<1>1. frame.blocks \in Seq(Nat) /\ b \in Nat
  BY DEF FrameTypes
<1>2. /\ end = at + b + 1 /\ queue[end] = frame.result
      /\ \A i \in 1 .. b : ~IsResult(queue[at + i]) /\ queue[at + i].block = frame.blocks[i]
  BY DEF HoldsFrame
<1>3. PICK first \in Nat \ {0} : first = at + 1
  OBVIOUS
<1>4. \A i \in first .. end - 1 : ~IsResult(queue[i])
  <2> TAKE i \in first .. end - 1
  <2>1. i - at \in 1 .. b /\ at + (i - at) = i
    BY <1>1, <1>2, <1>3
  <2> QED BY <1>2, <2>1
<1>5. PlaysFrame(queue, first, end, number)
  <2>1. first <= end
    BY <1>1, <1>2, <1>3
  <2> QED BY <1>2, <1>4, <2>1, FrameIsPlayed
<1>6. end - first = b /\ (end - first) + 1 = end - at
  BY <1>1, <1>2, <1>3
<1>7. \A i \in 1 .. b : (first + i) - 1 = at + i /\ queue[(first + i) - 1].block = frame.blocks[i]
  <2>1. \A i \in 1 .. b : (first + i) - 1 = at + i
    BY <1>1, <1>3
  <2> QED BY <1>2, <2>1
<1>8. Told(frame.blocks, number)
        = [i \in 1 .. b |-> [block |-> queue[(first + i) - 1].block, frame |-> number]]
  <2>1. Told(frame.blocks, number)
          = [i \in 1 .. b |-> [block |-> frame.blocks[i], frame |-> number]]
    BY <1>1, ToldBlocks
  <2> QED BY <1>7, <2>1
<1> HIDE DEF b
<1> QED BY <1>2, <1>3, <1>5, <1>6, <1>8 DEF PlaysFrame
=============================================================================
