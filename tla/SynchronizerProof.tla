------------------------- MODULE SynchronizerProof -------------------------
(***************************************************************************)
(* Proofs about the Synchronizer, for any contents of the blocks, any      *)
(* slots and deadlines, and any number of blocks, forks and failures.      *)
(*                                                                         *)
(* IInv is inductive.  It says of each place of the loop how far memory    *)
(* and databases are ahead of the saved blocks, or behind: the state       *)
(* database never loses a saved batch, and has one more only between       *)
(* rollupSync and AddBlockSCData; the statistics are one block behind only *)
(* before UpdateSync; and so on.                                           *)
(***************************************************************************)
EXTENDS Synchronizer, NumberFacts, SequenceTheorems

AnyKind == {Plain, L2, L1, Vars}
Histories == Seq(Block)

-----------------------------------------------------------------------------
(* The batches in a sequence of blocks. *)

BatchBlocks(h, n) == {m \in 1..n : HasBatch(h[m])}

LEMMA BatchNumType ==
  ASSUME NEW h, NEW n \in Nat
  PROVE  /\ IsFiniteSet(BatchBlocks(h, n))
         /\ BatchNum(h, n) = Cardinality(BatchBlocks(h, n)) /\ BatchNum(h, n) \in Nat
<1>1. IsFiniteSet(1..n) /\ BatchBlocks(h, n) \subseteq 1..n
  BY FS_Interval DEF BatchBlocks
<1> QED
  BY <1>1, FS_Subset, FS_CardinalityType DEF BatchNum, BatchBlocks

LEMMA BatchNumOfNone ==
  ASSUME NEW h
  PROVE  BatchNum(h, 0) = 0
<1>1. {m \in 1..0 : HasBatch(h[m])} = {}
  OBVIOUS
<1> QED
  BY <1>1, FS_EmptySet DEF BatchNum

LEMMA BatchNumStep ==
  ASSUME NEW h, NEW n \in Nat
  PROVE  BatchNum(h, n + 1) = IF HasBatch(h[n + 1]) THEN BatchNum(h, n) + 1 ELSE BatchNum(h, n)
<1>1. BatchBlocks(h, n + 1) = IF HasBatch(h[n + 1]) THEN BatchBlocks(h, n) \cup {n + 1}
                                                     ELSE BatchBlocks(h, n)
  BY DEF BatchBlocks
<1>2. n + 1 \notin BatchBlocks(h, n)
  BY DEF BatchBlocks
<1> QED
  BY <1>1, <1>2, BatchNumType, FS_AddElement

LEMMA BatchNumGrows ==
  ASSUME NEW h, NEW n \in Nat, NEW m \in Nat, n <= m
  PROVE  BatchNum(h, n) <= BatchNum(h, m)
<1>1. BatchBlocks(h, n) \subseteq BatchBlocks(h, m)
  BY DEF BatchBlocks
<1> QED
  BY <1>1, BatchNumType, FS_Subset

LEMMA SameBatchNum ==
  ASSUME NEW g, NEW h, NEW n \in Nat, \A m \in 1..n : g[m] = h[m]
  PROVE  BatchNum(g, n) = BatchNum(h, n)
<1>1. {m \in 1..n : HasBatch(g[m])} = {m \in 1..n : HasBatch(h[m])}
  OBVIOUS
<1> QED
  BY <1>1 DEF BatchNum

\* two batches have not the same number
LEMMA OneBlockPerBatch ==
  ASSUME NEW h, NEW n \in Nat \ {0}, NEW m \in Nat \ {0}, HasBatch(h[n]), HasBatch(h[m]),
         BatchNum(h, n) = BatchNum(h, m)
  PROVE  n = m
<1>1. ASSUME NEW a \in Nat \ {0}, NEW b \in Nat \ {0}, a < b, HasBatch(h[b])
      PROVE  BatchNum(h, a) < BatchNum(h, b)
  <2>1. a <= b - 1 /\ b - 1 \in Nat /\ (b - 1) + 1 = b
    BY <1>1
  <2>2. BatchNum(h, b) = BatchNum(h, b - 1) + 1
    BY <2>1, <1>1, BatchNumStep
  <2>3. BatchNum(h, a) <= BatchNum(h, b - 1)
    BY <2>1, BatchNumGrows
  <2>4. BatchNum(h, a) \in Nat /\ BatchNum(h, b - 1) \in Nat
    BY <2>1, BatchNumType
  <2> QED
    BY <2>2, <2>3, <2>4
<1>2. BatchNum(h, n) \in Nat
  BY BatchNumType
<1>3. ~(n < m) /\ ~(m < n)
  BY <1>1, <1>2
<1> QED
  BY <1>3

\* no number is left out
LEMMA EachBatchIsThere ==
  ASSUME NEW h, NEW n \in Nat, NEW i \in 1..BatchNum(h, n)
  PROVE  \E m \in 1..n : HasBatch(h[m]) /\ BatchNum(h, m) = i
<1> DEFINE S == {m \in 0..n : i <= BatchNum(h, m)}
<1>1. S \subseteq Nat /\ n \in S
  BY BatchNumType
<1>2. PICK m \in S : \A k \in S : m <= k
  <2> HIDE DEF S
  <2> QED
    BY <1>1, LeastElement
<1>3. m # 0
  BY BatchNumOfNone
<1>4. m - 1 \in 0..n /\ ~(m <= m - 1) /\ (m - 1) + 1 = m
  BY <1>3
<1>5. ~(i <= BatchNum(h, m - 1))
  BY <1>2, <1>4
<1>6. BatchNum(h, m - 1) \in Nat /\ BatchNum(h, m) \in Nat /\ i <= BatchNum(h, m)
  BY <1>4, BatchNumType
<1>7. BatchNum(h, m) = IF HasBatch(h[m]) THEN BatchNum(h, m - 1) + 1 ELSE BatchNum(h, m - 1)
  BY <1>4, BatchNumStep
<1>8. HasBatch(h[m]) /\ BatchNum(h, m) = i
  BY <1>5, <1>6, <1>7
<1> QED
  BY <1>3, <1>8

LEMMA BatchesType ==
  ASSUME NEW S, NEW h \in Seq(S)
  PROVE  /\ Batches(h) \in Seq(S) /\ Len(Batches(h)) = BatchNum(h, Len(h))
         /\ DOMAIN Batches(h) = 1..BatchNum(h, Len(h))
<1>1. Len(h) \in Nat /\ BatchNum(h, Len(h)) \in Nat /\ DOMAIN h = 1..Len(h)
  BY BatchNumType
<1>2. ASSUME NEW i \in 1..BatchNum(h, Len(h))
      PROVE  h[CHOOSE n \in DOMAIN h : HasBatch(h[n]) /\ BatchNum(h, n) = i] \in S
  <2>1. \E n \in DOMAIN h : HasBatch(h[n]) /\ BatchNum(h, n) = i
    BY <1>1, EachBatchIsThere
  <2>2. (CHOOSE n \in DOMAIN h : HasBatch(h[n]) /\ BatchNum(h, n) = i) \in DOMAIN h
    BY <2>1
  <2> QED
    BY <2>2
<1> QED
  BY <1>1, <1>2 DEF Batches

LEMMA BatchAt ==
  ASSUME NEW S, NEW h \in Seq(S), NEW n \in DOMAIN h, HasBatch(h[n])
  PROVE  /\ BatchNum(h, n) \in 1..BatchNum(h, Len(h))
         /\ Batches(h)[BatchNum(h, n)] = h[n]
<1>1. Len(h) \in Nat /\ DOMAIN h = 1..Len(h) /\ n \in Nat \ {0} /\ n - 1 \in Nat
      /\ (n - 1) + 1 = n /\ n <= Len(h)
  OBVIOUS
<1> DEFINE i == BatchNum(h, n)
<1>2. i \in 1..BatchNum(h, Len(h))
  <2>1. i = BatchNum(h, n - 1) + 1
    BY <1>1, BatchNumStep
  <2>2. i <= BatchNum(h, Len(h)) /\ BatchNum(h, n - 1) \in Nat /\ BatchNum(h, Len(h)) \in Nat
    BY <1>1, BatchNumGrows, BatchNumType
  <2> QED
    BY <2>1, <2>2
<1> DEFINE m == CHOOSE k \in DOMAIN h : HasBatch(h[k]) /\ BatchNum(h, k) = i
<1>3. m \in DOMAIN h /\ HasBatch(h[m]) /\ BatchNum(h, m) = i
  OBVIOUS
<1>4. Batches(h)[i] = h[m]
  BY <1>2 DEF Batches
<1>5. m = n
  <2>1. m \in Nat \ {0}
    BY <1>1, <1>3
  <2> HIDE DEF m
  <2> QED
    BY <2>1, <1>1, <1>3, OneBlockPerBatch
<1> QED
  BY <1>2, <1>4, <1>5

\* what a sequence of blocks begins with is what its batches begin with
LEMMA BatchesBegin ==
  ASSUME NEW S, NEW g \in Seq(S), NEW h \in Seq(S), Len(g) <= Len(h),
         \A n \in 1..Len(g) : g[n] = h[n]
  PROVE  /\ BatchNum(g, Len(g)) = BatchNum(h, Len(g))
         /\ BatchNum(g, Len(g)) <= BatchNum(h, Len(h))
         /\ \A i \in 1..BatchNum(g, Len(g)) : Batches(g)[i] = Batches(h)[i]
<1>1. Len(g) \in Nat /\ Len(h) \in Nat /\ DOMAIN g = 1..Len(g) /\ DOMAIN h = 1..Len(h)
  OBVIOUS
<1>2. BatchNum(g, Len(g)) = BatchNum(h, Len(g))
  BY <1>1, SameBatchNum
<1>3. BatchNum(g, Len(g)) <= BatchNum(h, Len(h))
  BY <1>1, <1>2, BatchNumGrows
<1>4. ASSUME NEW i \in 1..BatchNum(g, Len(g)) PROVE Batches(g)[i] = Batches(h)[i]
  <2>1. PICK n \in 1..Len(g) : HasBatch(g[n]) /\ BatchNum(g, n) = i
    BY <1>1, EachBatchIsThere
  <2>2. n \in DOMAIN g /\ n \in DOMAIN h /\ n \in Nat /\ HasBatch(h[n]) /\ g[n] = h[n]
    BY <1>1, <2>1
  <2>3. BatchNum(h, n) = i
    BY <2>1, <2>2, SameBatchNum
  <2>4. Batches(g)[BatchNum(g, n)] = g[n]
    BY <2>1, <2>2, BatchAt
  <2>5. Batches(h)[BatchNum(h, n)] = h[n]
    BY <2>2, BatchAt
  <2> QED
    BY <2>1, <2>2, <2>3, <2>4, <2>5
<1> QED
  BY <1>2, <1>3, <1>4

LEMMA BatchesOfAppend ==
  ASSUME NEW S, NEW h \in Seq(S), NEW b \in S
  PROVE  Batches(Append(h, b)) = IF HasBatch(b) THEN Append(Batches(h), b) ELSE Batches(h)
<1> DEFINE g == Append(h, b)
           N == Len(h)
           B == BatchNum(h, N)
<1>1. g \in Seq(S) /\ Len(g) = N + 1 /\ g[N + 1] = b /\ N \in Nat /\ N <= Len(g)
      /\ \A n \in 1..N : h[n] = g[n]
  OBVIOUS
<1> HIDE DEF g, N
<1>2. B = BatchNum(g, N) /\ B \in Nat /\ \A i \in 1..B : Batches(h)[i] = Batches(g)[i]
  BY <1>1, BatchesBegin, BatchNumType DEF N
<1>3. Batches(h) \in Seq(S) /\ Len(Batches(h)) = B /\ Batches(g) \in Seq(S)
      /\ Len(Batches(g)) = BatchNum(g, N + 1)
  BY <1>1, BatchesType DEF N
<1>4. BatchNum(g, N + 1) = IF HasBatch(b) THEN B + 1 ELSE B
  BY <1>1, <1>2, BatchNumStep
<1> HIDE DEF B
<1>5. CASE ~HasBatch(b)
  <2>1. Len(Batches(g)) = B
    BY <1>3, <1>4, <1>5
  <2>2. Batches(g) = Batches(h)
    BY <2>1, <1>2, <1>3, SeqEqual
  <2> QED
    BY <2>2, <1>5 DEF g
<1>6. CASE HasBatch(b)
  <2>1. Len(Batches(g)) = B + 1
    BY <1>3, <1>4, <1>6
  <2>2. Batches(g)[B + 1] = b
    <3>1. N + 1 \in DOMAIN g /\ BatchNum(g, N + 1) = B + 1
      BY <1>1, <1>4, <1>6
    <3> QED
      BY <3>1, <1>1, <1>6, BatchAt
  <2>3. Append(Batches(h), b) \in Seq(S) /\ Len(Append(Batches(h), b)) = B + 1
        /\ Append(Batches(h), b)[B + 1] = b
        /\ \A i \in 1..B : Append(Batches(h), b)[i] = Batches(h)[i]
    BY <1>2, <1>3
  <2>4. \A i \in 1..B + 1 : Batches(g)[i] = Append(Batches(h), b)[i]
    <3> SUFFICES ASSUME NEW i \in 1..B + 1 PROVE Batches(g)[i] = Append(Batches(h), b)[i]
      OBVIOUS
    <3>1. CASE i = B + 1
      BY <3>1, <2>2, <2>3
    <3>2. CASE i # B + 1
      <4>1. i \in 1..B
        BY <3>2, <1>2
      <4> QED
        BY <4>1, <1>2, <2>3
    <3> QED
      BY <3>1, <3>2
  <2>5. Batches(g) = Append(Batches(h), b)
    BY <2>1, <2>3, <2>4, <1>3, SeqEqual
  <2> QED
    BY <2>5, <1>6 DEF g
<1> QED
  BY <1>5, <1>6

LEMMA BatchesOfCut ==
  ASSUME NEW S, NEW h \in Seq(S), NEW k \in 0..Len(h)
  PROVE  LET g == SubSeq(h, 1, k)
         IN  /\ Len(Batches(g)) <= Len(Batches(h))
             /\ \A i \in 1..Len(Batches(g)) : Batches(g)[i] = Batches(h)[i]
<1> DEFINE g == SubSeq(h, 1, k)
<1>1. g \in Seq(S) /\ Len(g) = k /\ k <= Len(h) /\ \A n \in 1..Len(g) : g[n] = h[n]
  OBVIOUS
<1> HIDE DEF g
<1>2. /\ BatchNum(g, Len(g)) <= BatchNum(h, Len(h))
      /\ \A i \in 1..BatchNum(g, Len(g)) : Batches(g)[i] = Batches(h)[i]
  BY <1>1, BatchesBegin
<1>3. Len(Batches(g)) = BatchNum(g, Len(g)) /\ Len(Batches(h)) = BatchNum(h, Len(h))
  BY <1>1, BatchesType
<1> QED
  BY <1>2, <1>3 DEF g

-----------------------------------------------------------------------------
(* What the history database tells. *)

LastOf(h) == IF h = <<>> THEN Nil ELSE h[Len(h)]
L1In(h)   == Cardinality({n \in DOMAIN h : Kind(h[n]) = L1})
VarsIn(h) == Max({0} \cup {n \in DOMAIN h : Kind(h[n]) = Vars})

CommittedIn(h, slot) == \E n \in DOMAIN h : HasBatch(h[n]) /\ SlotNum(n) = slot /\ InTime(n)

IsHistory(h) ==
  /\ h \in Histories
  /\ \A n \in DOMAIN h : /\ Num(h[n]) = n
                         /\ n > 1 => Parent(h[n]) = h[n - 1]
                         /\ HasBatch(h[n]) => n >= GenesisBlockNum

\* b can come next after the blocks of h
Follow(b, h) ==
  /\ b \in Block /\ Num(b) = Len(h) + 1
  /\ h # <<>> => Parent(b) = LastOf(h)
  /\ HasBatch(b) => Num(b) >= GenesisBlockNum

LEMMA CutProperties ==
  ASSUME NEW S, NEW h \in Seq(S), NEW k \in 0..Len(h)
  PROVE  /\ SubSeq(h, 1, k) \in Seq(S) /\ Len(SubSeq(h, 1, k)) = k
         /\ DOMAIN SubSeq(h, 1, k) = 1..k
         /\ \A n \in 1..k : SubSeq(h, 1, k)[n] = h[n]
OBVIOUS

LEMMA FrontAndLast ==
  ASSUME NEW S, NEW h \in Seq(S), h # <<>>
  PROVE  h = Append(SubSeq(h, 1, Len(h) - 1), h[Len(h)])
<1> DEFINE N == Len(h)
           g == SubSeq(h, 1, N - 1)
           a == Append(g, h[N])
<1>1. N \in Nat \ {0} /\ N - 1 \in 0..N /\ h[N] \in S
  OBVIOUS
<1>2. g \in Seq(S) /\ Len(g) = N - 1 /\ \A n \in 1..N - 1 : g[n] = h[n]
  BY <1>1, CutProperties
<1> HIDE DEF g, N
<1>3. a \in Seq(S) /\ Len(a) = N /\ a[N] = h[N] /\ \A n \in 1..N - 1 : a[n] = g[n]
  BY <1>1, <1>2
<1> HIDE DEF a
<1>4. \A n \in 1..N : n = N \/ n \in 1..N - 1
  BY <1>1
<1>5. \A n \in 1..N : a[n] = h[n]
  BY <1>2, <1>3, <1>4
<1>6. a = h
  BY <1>3, <1>5, SeqEqual DEF N
<1> QED
  BY <1>6 DEF a, g, N

LEMMA CutIsHistory ==
  ASSUME NEW h, IsHistory(h), NEW k \in 0..Len(h)
  PROVE  IsHistory(SubSeq(h, 1, k))
<1> DEFINE g == SubSeq(h, 1, k)
<1>1. h \in Seq(Block) /\ DOMAIN h = 1..Len(h) /\ Len(h) \in Nat
  BY DEF IsHistory, Histories
<1>2. g \in Seq(Block) /\ DOMAIN g = 1..k /\ \A n \in 1..k : g[n] = h[n]
  BY <1>1, CutProperties
<1> HIDE DEF g
<1>3. ASSUME NEW n \in 1..k
      PROVE  Num(g[n]) = n /\ (n > 1 => Parent(g[n]) = g[n - 1])
             /\ (HasBatch(g[n]) => n >= GenesisBlockNum)
  <2>1. n \in DOMAIN h /\ g[n] = h[n] /\ (n > 1 => g[n - 1] = h[n - 1])
    BY <1>1, <1>2
  <2> QED
    BY <2>1 DEF IsHistory
<1>4. IsHistory(g)
  BY <1>2, <1>3 DEF IsHistory, Histories
<1> QED
  BY <1>4 DEF g

LEMMA AppendIsHistory ==
  ASSUME NEW h, IsHistory(h), NEW b, Follow(b, h)
  PROVE  /\ IsHistory(Append(h, b)) /\ LastOf(Append(h, b)) = b
         /\ Append(h, b) # <<>> /\ Len(Append(h, b)) = Len(h) + 1
         /\ SubSeq(Append(h, b), 1, Len(Append(h, b)) - 1) = h
<1> DEFINE g == Append(h, b)
<1>1. h \in Seq(Block) /\ DOMAIN h = 1..Len(h) /\ Len(h) \in Nat /\ b \in Block
  BY DEF IsHistory, Histories, Follow
<1>2. g \in Seq(Block) /\ DOMAIN g = 1..Len(h) + 1 /\ Len(g) = Len(h) + 1 /\ g # <<>>
      /\ g[Len(h) + 1] = b /\ \A n \in 1..Len(h) : g[n] = h[n]
  BY <1>1
<1>3. SubSeq(g, 1, Len(g) - 1) = h
  <2>1. Len(g) - 1 = Len(h) /\ Len(h) \in 0..Len(g)
    BY <1>1, <1>2
  <2>2. SubSeq(g, 1, Len(h)) \in Seq(Block) /\ Len(SubSeq(g, 1, Len(h))) = Len(h)
        /\ \A n \in 1..Len(h) : SubSeq(g, 1, Len(h))[n] = g[n]
    BY <1>2, <2>1, CutProperties
  <2> HIDE DEF g
  <2>3. SubSeq(g, 1, Len(h)) = h
    BY <1>1, <1>2, <2>2, SeqEqual
  <2> QED
    BY <2>1, <2>3
<1> HIDE DEF g
<1>4. ASSUME NEW n \in DOMAIN g
      PROVE  Num(g[n]) = n /\ (n > 1 => Parent(g[n]) = g[n - 1])
             /\ (HasBatch(g[n]) => n >= GenesisBlockNum)
  <2>1. CASE n \in 1..Len(h)
    <3>1. n \in DOMAIN h /\ g[n] = h[n] /\ (n > 1 => g[n - 1] = h[n - 1])
      BY <1>1, <1>2, <2>1
    <3> QED
      BY <3>1 DEF IsHistory
  <2>2. CASE n = Len(h) + 1
    <3>1. n > 1 => h # <<>> /\ g[n - 1] = h[Len(h)]
      BY <1>1, <1>2, <2>2
    <3> QED
      BY <1>2, <2>2, <3>1 DEF Follow, LastOf
  <2> QED
    BY <1>1, <1>2, <2>1, <2>2
<1>5. IsHistory(g) /\ LastOf(g) = b
  BY <1>2, <1>4 DEF IsHistory, Histories, LastOf
<1> QED
  BY <1>2, <1>3, <1>5 DEF g

\* the last block of a history and the blocks before it
LEMMA LastFollows ==
  ASSUME NEW h, IsHistory(h), h # <<>>
  PROVE  LET g == SubSeq(h, 1, Len(h) - 1)
         IN  IsHistory(g) /\ Follow(LastOf(h), g) /\ h = Append(g, LastOf(h))
             /\ Len(h) = Len(g) + 1
<1> DEFINE g == SubSeq(h, 1, Len(h) - 1)
<1>1. h \in Seq(Block) /\ DOMAIN h = 1..Len(h) /\ Len(h) \in Nat /\ Len(h) >= 1
      /\ LastOf(h) = h[Len(h)] /\ h[Len(h)] \in Block
  BY DEF IsHistory, Histories, LastOf
<1>2. g \in Seq(Block) /\ Len(g) = Len(h) - 1 /\ \A n \in 1..Len(h) - 1 : g[n] = h[n]
  BY <1>1, CutProperties
<1>3. IsHistory(g)
  BY <1>1, CutIsHistory
<1> HIDE DEF g
<1>4. Num(h[Len(h)]) = Len(h) /\ (Len(h) > 1 => Parent(h[Len(h)]) = h[Len(h) - 1])
      /\ (HasBatch(h[Len(h)]) => Len(h) >= GenesisBlockNum)
  BY <1>1 DEF IsHistory
<1>5. g # <<>> => Len(h) > 1 /\ LastOf(g) = h[Len(h) - 1]
  BY <1>1, <1>2 DEF LastOf
<1>6. Follow(LastOf(h), g)
  BY <1>1, <1>2, <1>4, <1>5 DEF Follow
<1>7. h = Append(g, h[Len(h)])
  BY <1>1, FrontAndLast DEF g
<1> QED
  BY <1>1, <1>2, <1>3, <1>6, <1>7 DEF g

LEMMA L1InType ==
  ASSUME NEW h \in Histories
  PROVE  L1In(h) \in Nat
<1> DEFINE S == {n \in DOMAIN h : Kind(h[n]) = L1}
<1>1. S \subseteq 1..Len(h) /\ IsFiniteSet(1..Len(h))
  BY FS_Interval DEF Histories
<1> HIDE DEF S
<1>2. Cardinality(S) \in Nat
  BY <1>1, FS_Subset, FS_CardinalityType
<1> QED
  BY <1>2 DEF L1In, S

LEMMA L1OfAppend ==
  ASSUME NEW h \in Histories, NEW b \in Block, Kind(b) # L1
  PROVE  L1In(Append(h, b)) = L1In(h)
<1> DEFINE g == Append(h, b)
<1>1. DOMAIN h = 1..Len(h) /\ DOMAIN g = 1..Len(h) + 1 /\ Len(h) \in Nat
      /\ g[Len(h) + 1] = b /\ \A n \in 1..Len(h) : g[n] = h[n]
  BY DEF Histories
<1> HIDE DEF g
<1>2. {n \in DOMAIN g : Kind(g[n]) = L1} = {n \in DOMAIN h : Kind(h[n]) = L1}
  BY <1>1
<1> QED
  BY <1>2 DEF L1In, g

LEMMA VarsInType ==
  ASSUME NEW h \in Histories
  PROVE  VarsIn(h) \in Nat
<1> DEFINE S == {0} \cup {n \in DOMAIN h : Kind(h[n]) = Vars}
<1>1. S \subseteq 0..Len(h) /\ S # {} /\ Len(h) \in Nat
  BY DEF Histories
<1> HIDE DEF S
<1>2. Max(S) \in S
  BY <1>1, GreatestElement
<1> QED
  BY <1>1, <1>2 DEF VarsIn, S

LEMMA VarsOfAppend ==
  ASSUME NEW h \in Histories, NEW b \in Block
  PROVE  VarsIn(Append(h, b)) = IF Kind(b) = Vars THEN Len(h) + 1 ELSE VarsIn(h)
<1> DEFINE g == Append(h, b)
           S == {0} \cup {n \in DOMAIN g : Kind(g[n]) = Vars}
<1>1. DOMAIN h = 1..Len(h) /\ DOMAIN g = 1..Len(h) + 1 /\ Len(h) \in Nat
      /\ g[Len(h) + 1] = b /\ \A n \in 1..Len(h) : g[n] = h[n]
  BY DEF Histories
<1> HIDE DEF g
<1>2. CASE Kind(b) = Vars
  <2>1. S \subseteq 0..Len(h) + 1 /\ Len(h) + 1 \in S /\ Len(h) + 1 \in Nat /\ S # {}
    BY <1>1, <1>2
  <2> HIDE DEF S
  <2>2. Max(S) \in S /\ \A m \in S : m <= Max(S)
    BY <2>1, GreatestElement
  <2>3. Max(S) \in 0..Len(h) + 1 /\ Len(h) + 1 <= Max(S)
    BY <2>1, <2>2
  <2>4. Max(S) = Len(h) + 1
    BY <2>1, <2>3, <1>1
  <2> QED
    BY <1>2, <2>4 DEF S, VarsIn, g
<1>3. CASE Kind(b) # Vars
  <2>1. {n \in DOMAIN g : Kind(g[n]) = Vars} = {n \in DOMAIN h : Kind(h[n]) = Vars}
    BY <1>1, <1>3
  <2> QED
    BY <1>3, <2>1 DEF VarsIn, g
<1> QED
  BY <1>2, <1>3

-----------------------------------------------------------------------------
(* Slots. *)

LEMMA SlotNumType ==
  ASSUME NEW n \in Nat
  PROVE  SlotNum(n) \in Int
<1>1. GenesisBlockNum \in Nat /\ BlocksPerSlot \in Nat \ {0}
  BY SynchronizerAssumption
<1>2. CASE n >= GenesisBlockNum
  <2>1. n - GenesisBlockNum \in Nat
    BY <1>1, <1>2
  <2> QED
    BY <1>1, <1>2, <2>1, Quotient DEF SlotNum
<1>3. CASE ~(n >= GenesisBlockNum)
  <2>1. GenesisBlockNum - n \in Nat
    BY <1>1, <1>3
  <2> QED
    BY <1>1, <1>3, <2>1, Quotient DEF SlotNum
<1> QED
  BY <1>2, <1>3

LEMMA SlotNumGrows ==
  ASSUME NEW n \in Nat, NEW m \in Nat, n <= m
  PROVE  SlotNum(n) <= SlotNum(m)
<1> DEFINE G == GenesisBlockNum
           D == BlocksPerSlot
<1>1. G \in Nat /\ D \in Nat \ {0}
  BY SynchronizerAssumption
<1> HIDE DEF G, D
<1>2. CASE n >= G
  <2>1. n - G \in Nat /\ m - G \in Nat /\ n - G <= m - G /\ m >= G
    BY <1>1, <1>2
  <2>2. (n - G) \div D <= (m - G) \div D
    BY <1>1, <2>1, QuotientGrows
  <2> QED
    BY <1>2, <2>1, <2>2 DEF SlotNum, G, D
<1>3. CASE ~(n >= G) /\ m >= G
  <2>1. m - G \in Nat /\ G - n \in Nat
    BY <1>1, <1>3
  <2>2. (m - G) \div D \in Nat /\ (G - n) \div D \in Nat
    BY <1>1, <2>1, Quotient
  <2>3. -((G - n) \div D) <= (m - G) \div D
    BY <2>2
  <2> QED
    BY <1>3, <2>3 DEF SlotNum, G, D
<1>4. CASE ~(n >= G) /\ ~(m >= G)
  <2>1. G - n \in Nat /\ G - m \in Nat /\ G - m <= G - n
    BY <1>1, <1>4
  <2>2. (G - m) \div D <= (G - n) \div D /\ (G - m) \div D \in Nat /\ (G - n) \div D \in Nat
    BY <1>1, <2>1, QuotientGrows, Quotient
  <2>3. -((G - n) \div D) <= -((G - m) \div D)
    BY <2>2
  <2> QED
    BY <1>4, <2>3 DEF SlotNum, G, D
<1> QED
  BY <1>1, <1>2, <1>3, <1>4

\* a block whose successor is in another slot comes too late to be a commitment
LEMMA LastOfSlot ==
  ASSUME NEW n \in Nat, n >= GenesisBlockNum, SlotNum(n) # SlotNum(n + 1)
  PROVE  ~InTime(n)
<1> DEFINE G == GenesisBlockNum
           D == BlocksPerSlot
           p == (n - G) \div D
           q == (n + 1 - G) \div D
<1>1. G \in Nat /\ D \in Nat \ {0} /\ SlotDeadline \in Nat /\ SlotDeadline <= D - 1
  BY SynchronizerAssumption
<1>2. SlotNum(n) = p /\ SlotNum(n + 1) = q
  BY <1>1 DEF SlotNum
<1>3. n - G \in Nat /\ n + 1 - G \in Nat /\ n - G <= n + 1 - G
  BY <1>1
<1>4. p \in Nat /\ q \in Nat /\ p <= q /\ q * D <= n + 1 - G
  BY <1>1, <1>3, Quotient, QuotientGrows
<1> HIDE DEF G, D, p, q
<1>5. p < q
  BY <1>2, <1>4
<1>6. p * D + D <= q * D
  BY <1>1, <1>4, <1>5, ProductGrows
<1>7. p * D \in Int /\ q * D \in Int
  BY <1>1, <1>4
<1>8. n - (G + p * D) >= D - 1
  BY <1>1, <1>4, <1>6, <1>7
<1>9. RelativeBlock(n) = n - (G + p * D)
  BY <1>2 DEF RelativeBlock, G, D
<1>10. ~(n - (G + p * D) < SlotDeadline)
  BY <1>1, <1>7, <1>8
<1> QED
  BY <1>9, <1>10 DEF InTime

LEMMA EarlierInTime ==
  ASSUME NEW n \in Nat, NEW m \in Nat, n <= m, SlotNum(n) = SlotNum(m), InTime(m)
  PROVE  InTime(n)
<1> DEFINE c == GenesisBlockNum + SlotNum(m) * BlocksPerSlot
<1>1. c \in Int /\ SlotDeadline \in Int
  BY SlotNumType, SynchronizerAssumption
<1>2. RelativeBlock(n) = n - c /\ RelativeBlock(m) = m - c
  BY DEF RelativeBlock
<1> HIDE DEF c
<1> QED
  BY <1>1, <1>2 DEF InTime

\* the first batch of a slot decides
LEMMA FirstBatchDecides ==
  ASSUME hist \in Histories, NEW slot
  PROVE  (\E n \in FirstBatchBlock(slot) : InTime(n)) <=> CommittedIn(hist, slot)
<1> DEFINE S == {n \in DOMAIN hist : HasBatch(hist[n]) /\ SlotNum(n) = slot}
<1>1. FirstBatchBlock(slot) = IF S = {} THEN {} ELSE {Min(S)}
  BY DEF FirstBatchBlock
<1>2. CommittedIn(hist, slot) <=> \E n \in S : InTime(n)
  BY DEF CommittedIn
<1>3. S \subseteq Nat /\ \A n \in S : SlotNum(n) = slot
  BY DEF Histories
<1> HIDE DEF S
<1>4. CASE S = {}
  BY <1>1, <1>2, <1>4
<1>5. CASE S # {}
  <2>1. \E x \in S : \A y \in S : x <= y
    BY <1>3, <1>5, LeastElement
  <2>2. Min(S) \in S /\ \A y \in S : Min(S) <= y
    BY <2>1 DEF Min
  <2>3. \A n \in S : InTime(n) => InTime(Min(S))
    BY <1>3, <2>2, EarlierInTime
  <2> QED
    BY <1>1, <1>2, <1>5, <2>2, <2>3
<1> QED
  BY <1>4, <1>5

-----------------------------------------------------------------------------
(* The invariant. *)

Stats == [eth : Nat, block : Block, batch : Nat, l1 : Nat, slot : Int, committed : BOOLEAN]

\* no batch is forged before the auction starts
NoEarlyBatch == \A n \in DOMAIN chain : chain[n] \in {L1, L2} => n >= GenesisBlockNum

\* where the loop is, and what its variables are then
InLoop ==
  /\ pc # "idle" => ~resetStateFailed
  /\ pc \in {"down", "start"} => lastBlock = Nil
  /\ pc \in {"idle", "fetch"} /\ lastBlock # Nil => lastBlock = LastOf(hist)
  /\ pc \in {"fetch", "eth", "events", "commit", "reorg", "discard"} => base = LastOf(hist)
  /\ pc \in {"eth", "events", "commit"} =>
       /\ Num(ethBlock) = Len(hist) + 1
       /\ HasBatch(ethBlock) => Num(ethBlock) >= GenesisBlockNum
  /\ pc \in {"events", "commit"} => Follow(ethBlock, hist)
  /\ pc \in {"slots", "tell"} => hist # <<>> /\ ethBlock = LastOf(hist)
  /\ pc \in {"reorg", "discard"} => blockNum \in DOMAIN hist

\* a state database has the batches of the saved blocks, and perhaps more
Ahead(st, h) ==
  /\ Len(Batches(h)) <= Len(st)
  /\ \A i \in 1..Len(Batches(h)) : st[i] = Batches(h)[i]

StateFits ==
  /\ Ahead(state, hist)
  /\ pc \notin {"down", "commit", "reset"} /\ ~resetStateFailed => state = Batches(hist)
  /\ pc = "commit" => state = Batches(Append(hist, ethBlock))

\* statistics that are those of some blocks
Fits(s, h) ==
  /\ s.block = LastOf(h) /\ s.batch = Len(Batches(h)) /\ s.l1 = L1In(h)
  /\ s.slot = SlotNum(Len(h) + 1)
  /\ s.committed <=> CommittedIn(h, s.slot)

StatsFit ==
  /\ pc \notin {"down", "reset", "slots"} /\ ~resetStateFailed => Fits(stats, hist)
  /\ pc = "slots" => Fits(stats, SubSeq(hist, 1, Len(hist) - 1))

VarsFit ==
  /\ pc \notin {"down", "reset", "commit"} /\ ~resetStateFailed => scVars = VarsIn(hist)
  /\ pc = "commit" => scVars = VarsIn(Append(hist, ethBlock))

ToldFits ==
  ~missed =>
    /\ pc \notin {"down", "start", "reset", "tellReorg", "slots", "tell"} => told.vars = VarsIn(hist)
    /\ pc \in {"slots", "tell"} /\ Kind(ethBlock) # Vars => told.vars = VarsIn(hist)

IInv ==
  /\ TypeOK /\ NoEarlyBatch /\ IsHistory(hist) /\ InLoop
  /\ StateFits /\ StatsFit /\ VarsFit /\ ToldFits

LEMMA Queries ==
  /\ LastSaved = LastOf(hist) /\ SavedBatches = Batches(hist)
  /\ SavedL1 = L1In(hist) /\ SavedVars = VarsIn(hist)
BY DEF LastSaved, LastOf, SavedBatches, SavedL1, L1In, SavedVars, VarsIn

LEMMA HistoryTypes ==
  ASSUME NEW h, IsHistory(h)
  PROVE  /\ h \in Histories /\ h \in Seq(Block) /\ LastOf(h) \in Block /\ Len(h) \in Nat
         /\ Batches(h) \in Seq(Block) /\ Len(Batches(h)) \in Nat
         /\ L1In(h) \in Nat /\ VarsIn(h) \in Nat
<1>1. h \in Histories /\ h \in Seq(Block) /\ Len(h) \in Nat
  BY DEF IsHistory, Histories
<1>2. LastOf(h) \in Block
  <2>1. Nil \in Block
    BY DEF Nil, Block
  <2>2. h # <<>> => h[Len(h)] \in Block
    BY <1>1
  <2> QED
    BY <2>1, <2>2 DEF LastOf
<1>3. Batches(h) \in Seq(Block)
  BY <1>1, BatchesType
<1>4. Len(Batches(h)) \in Nat
  BY <1>3
<1> QED
  BY <1>1, <1>2, <1>3, <1>4, L1InType, VarsInType

LEMMA CutToBatches ==
  ASSUME NEW h, IsHistory(h), NEW st \in Seq(Block), Ahead(st, h)
  PROVE  SubSeq(st, 1, Len(Batches(h))) = Batches(h)
<1> DEFINE k == Len(Batches(h))
           b == Batches(h)
<1>1. b \in Seq(Block) /\ k \in 0..Len(st) /\ k = Len(b) /\ \A i \in 1..k : st[i] = b[i]
  BY HistoryTypes DEF Ahead
<1>2. SubSeq(st, 1, k) \in Seq(Block) /\ Len(SubSeq(st, 1, k)) = k
      /\ \A i \in 1..k : SubSeq(st, 1, k)[i] = st[i]
  BY <1>1, CutProperties
<1> HIDE DEF k, b
<1>3. SubSeq(st, 1, k) = b
  BY <1>1, <1>2, SeqEqual
<1> QED
  BY <1>3 DEF k, b

LEMMA SameIsAhead ==
  ASSUME NEW h, IsHistory(h)
  PROVE  Ahead(Batches(h), h)
BY HistoryTypes DEF Ahead

LEMMA CutIsBehind ==
  ASSUME NEW h, IsHistory(h), NEW k \in 0..Len(h)
  PROVE  Ahead(Batches(h), SubSeq(h, 1, k))
BY HistoryTypes, BatchesOfCut DEF Ahead

LEMMA AppendIsAhead ==
  ASSUME NEW h, IsHistory(h), NEW b \in Block
  PROVE  Ahead(Batches(Append(h, b)), h)
<1>1. Batches(h) \in Seq(Block) /\ h \in Seq(Block)
  BY HistoryTypes
<1>2. Batches(Append(h, b)) = IF HasBatch(b) THEN Append(Batches(h), b) ELSE Batches(h)
  BY <1>1, BatchesOfAppend
<1> DEFINE s == Batches(h)
<1> HIDE DEF s
<1>3. s \in Seq(Block) /\ Batches(Append(h, b)) \in {s, Append(s, b)}
  BY <1>1, <1>2 DEF s
<1>4. Len(s) <= Len(Batches(Append(h, b)))
      /\ \A i \in 1..Len(s) : Batches(Append(h, b))[i] = s[i]
  BY <1>3
<1> QED
  BY <1>4 DEF Ahead, s

-----------------------------------------------------------------------------
(* The resets. *)

LEMMA StatsOf ==
  ASSUME NEW s \in Stats
  PROVE  /\ s.eth \in Nat /\ s.block \in Block /\ s.batch \in Nat /\ s.l1 \in Nat
         /\ s.slot \in Int /\ s.committed \in BOOLEAN
BY DEF Stats

LEMMA SavedStatsType ==
  ASSUME IsHistory(hist), NEW s \in Stats
  PROVE  /\ SavedStats(s) \in Stats
         /\ SavedStats(s).block = LastOf(hist) /\ SavedStats(s).batch = Len(Batches(hist))
         /\ SavedStats(s).l1 = L1In(hist)
<1> DEFINE b == LastOf(hist)
           n == Len(Batches(hist))
           l == L1In(hist)
<1>1. SavedStats(s) = [s EXCEPT !.block = b, !.batch = n, !.l1 = l]
  BY Queries DEF SavedStats
<1>2. b \in Block /\ n \in Nat /\ l \in Nat
  BY HistoryTypes
<1> HIDE DEF b, n, l
<1> DEFINE t == SavedStats(s)
<1>3. t = [s EXCEPT !.block = b, !.batch = n, !.l1 = l]
  BY <1>1
<1> HIDE DEF t
<1>4. t \in Stats /\ t.block = b /\ t.batch = n /\ t.l1 = l
  BY <1>2, <1>3 DEF Stats
<1> QED
  BY <1>4 DEF b, n, l, t

LEMMA FromDBFits ==
  ASSUME IsHistory(hist), NEW s \in Stats
  PROVE  LET t == CurrentSlotFromDB(SavedStats(s)) IN t \in Stats /\ Fits(t, hist)
<1> DEFINE u == SavedStats(s)
           slot == SlotNum(Len(hist) + 1)
           c == \E n \in FirstBatchBlock(slot) : InTime(n)
           t == CurrentSlotFromDB(u)
<1>1. u \in Stats /\ u.block = LastOf(hist) /\ u.batch = Len(Batches(hist)) /\ u.l1 = L1In(hist)
  BY SavedStatsType
<1>2. hist \in Seq(Block) /\ Len(hist) \in Nat /\ hist \in Histories
  BY HistoryTypes
<1>3. Num(LastOf(hist)) = Len(hist)
  <2>1. CASE hist = <<>>
    BY <2>1 DEF LastOf, Num, Nil
  <2>2. CASE hist # <<>>
    <3>1. Len(hist) \in DOMAIN hist
      BY <1>2, <2>2
    <3> QED
      BY <3>1, <2>2 DEF LastOf, IsHistory
  <2> QED
    BY <2>1, <2>2
<1>4. slot \in Int
  BY <1>2, SlotNumType
<1>5. c <=> CommittedIn(hist, slot)
  BY <1>2, FirstBatchDecides
<1>6. c \in BOOLEAN
  OBVIOUS
<1> HIDE DEF u, slot, c
<1>7. t = [u EXCEPT !.slot = slot, !.committed = c]
  BY <1>1, <1>3 DEF CurrentSlotFromDB, slot, c
<1>8. t \in Stats /\ t.block = u.block /\ t.batch = u.batch /\ t.l1 = u.l1 /\ t.slot = slot
      /\ t.committed = c
  BY <1>1, <1>4, <1>6, <1>7 DEF Stats
<1>9. t.slot = SlotNum(Len(hist) + 1)
  BY <1>8 DEF slot
<1>10. t.committed <=> CommittedIn(hist, t.slot)
  BY <1>5, <1>8
<1> QED
  BY <1>1, <1>8, <1>9, <1>10 DEF Fits, u

\* what a reset leaves
LEMMA ResetGives ==
  ASSUME IsHistory(hist), state \in Seq(Block), Ahead(state, hist), NEW s \in Stats, Reset(s)
  PROVE  /\ state' = Batches(hist) /\ state' \in Seq(Block) /\ Ahead(state', hist)
         /\ stats' \in Stats /\ Fits(stats', hist)
         /\ scVars' = VarsIn(hist) /\ scVars' \in Nat
         /\ resetStateFailed' = FALSE
<1>1. state' = SubSeq(state, 1, Len(Batches(hist))) /\ scVars' = VarsIn(hist)
      /\ stats' = CurrentSlotFromDB(SavedStats(s)) /\ resetStateFailed' = FALSE
  BY Queries DEF Reset, StateAtLastBatch
<1> QED
  BY <1>1, CutToBatches, SameIsAhead, HistoryTypes, FromDBFits

LEMMA CutStateFits ==
  ASSUME IsHistory(hist), state \in Seq(Block), Ahead(state, hist)
  PROVE  StateAtLastBatch \in Seq(Block) /\ Ahead(StateAtLastBatch, hist)
<1>1. StateAtLastBatch = Batches(hist)
  BY Queries, CutToBatches DEF StateAtLastBatch
<1> QED
  BY <1>1, SameIsAhead, HistoryTypes

LEMMA ResetFailsGives ==
  ASSUME IsHistory(hist), state \in Seq(Block), Ahead(state, hist), NEW s \in Stats,
         scVars \in Nat, ResetFails(s)
  PROVE  /\ state' \in Seq(Block) /\ Ahead(state', hist)
         /\ stats' \in Stats /\ scVars' \in Nat /\ resetStateFailed' = TRUE
<1>1. state' \in {state, StateAtLastBatch} /\ stats' \in {s, SavedStats(s)}
      /\ scVars' \in {scVars, VarsIn(hist)} /\ resetStateFailed' = TRUE
  BY Queries DEF ResetFails
<1> QED
  BY <1>1, CutStateFits, SavedStatsType, HistoryTypes

-----------------------------------------------------------------------------
(* Each step keeps the invariant. *)

LEMMA TypesNow ==
  ASSUME IInv
  PROVE  /\ chain \in Block /\ Len(chain) \in Nat /\ hist \in Histories /\ hist \in Seq(Block)
         /\ state \in Seq(Block) /\ stats \in Stats /\ scVars \in Nat
         /\ IsHistory(hist) /\ Ahead(state, hist)
BY DEF IInv, TypeOK, Stats, Histories, StateFits, Block

\* only the chain changes
LEMMA ChainMoves ==
  ASSUME IInv, UNCHANGED <<dbVars, memVars, pc, lastBlock, syncVars, hearVars, faults>>,
         chain' \in Block, NoEarlyBatch', forks' \in Nat
  PROVE  IInv'
<1>1. UNCHANGED <<hist, state, stats, scVars, resetStateFailed, pc, lastBlock, base, ethBlock,
                  blockNum, told, missed, faults>>
  BY DEF dbVars, memVars, syncVars, hearVars
<1>2. TypeOK'
  BY <1>1 DEF IInv, TypeOK
<1>3. IsHistory(hist)' /\ InLoop'
  BY <1>1 DEF IInv, InLoop
<1>4. StateFits' /\ StatsFit' /\ VarsFit' /\ ToldFits'
  BY <1>1 DEF IInv, StateFits, StatsFit, VarsFit, ToldFits
<1> QED
  BY <1>2, <1>3, <1>4 DEF IInv

LEMMA GrowKeeps ==
  ASSUME IInv, Grow
  PROVE  IInv'
<1> DEFINE n == Len(chain) + 1
<1>1. PICK k \in KindsAt(n) : chain' = Append(chain, k)
  BY DEF Grow, Num
<1>2. chain \in Seq(AnyKind) /\ Len(chain) \in Nat /\ n <= MaxBlock
  BY TypesNow, SynchronizerAssumption DEF Grow, Num, Block, AnyKind
<1>3. k \in AnyKind /\ (k \in {L1, L2} => n >= GenesisBlockNum)
  <2>1. Kinds(n) \subseteq AnyKind /\ GenesisBlockNum \in Nat
    BY <1>2, SynchronizerAssumption DEF AnyKind
  <2> QED
    BY <1>1, <1>2, <2>1 DEF KindsAt
<1>4. chain' \in Seq(AnyKind) /\ DOMAIN chain' = 1..n /\ chain'[n] = k
      /\ \A m \in 1..Len(chain) : chain'[m] = chain[m]
  BY <1>1, <1>2, <1>3
<1>5. NoEarlyBatch'
  <2>1. \A m \in 1..n : m = n \/ m \in DOMAIN chain
    BY <1>2
  <2> QED
    BY <1>2, <1>3, <1>4, <2>1 DEF NoEarlyBatch, IInv
<1>6. chain' \in Block
  BY <1>4 DEF Block, AnyKind
<1>7. UNCHANGED <<dbVars, memVars, pc, lastBlock, syncVars, hearVars, forks, faults>>
  BY DEF Grow
<1>8. forks' \in Nat
  BY <1>7 DEF IInv, TypeOK
<1> QED
  BY <1>5, <1>6, <1>7, <1>8, ChainMoves

LEMMA ForkKeeps ==
  ASSUME IInv, Fork
  PROVE  IInv'
<1>1. PICK n \in FinalBlocks + 1..Len(chain) : \E k \in KindsAt(n) \ {chain[n]} :
        chain' = Append(SubSeq(chain, 1, n - 1), k)
  BY DEF Fork, Num
<1>2. PICK k \in KindsAt(n) : chain' = Append(SubSeq(chain, 1, n - 1), k)
  BY <1>1
<1>3. chain \in Seq(AnyKind) /\ Len(chain) \in Nat /\ Len(chain) < MaxBlock /\ MaxBlock \in Nat
      /\ n \in 1..Len(chain) /\ n - 1 \in 0..Len(chain)
  BY TypesNow, SynchronizerAssumption DEF Fork, Num, Block, AnyKind
<1>4. k \in AnyKind /\ (k \in {L1, L2} => n >= GenesisBlockNum)
  <2>1. Kinds(n) \subseteq AnyKind /\ GenesisBlockNum \in Nat
    BY <1>3, SynchronizerAssumption DEF AnyKind
  <2> QED
    BY <1>2, <1>3, <2>1 DEF KindsAt
<1> DEFINE c == SubSeq(chain, 1, n - 1)
<1>5. c \in Seq(AnyKind) /\ Len(c) = n - 1 /\ \A m \in 1..n - 1 : c[m] = chain[m]
  BY <1>3, CutProperties
<1> HIDE DEF c
<1>6. chain' = Append(c, k)
  BY <1>2 DEF c
<1>7. chain' \in Seq(AnyKind) /\ DOMAIN chain' = 1..n /\ chain'[n] = k
      /\ \A m \in 1..n - 1 : chain'[m] = c[m]
  BY <1>3, <1>4, <1>5, <1>6
<1>8. NoEarlyBatch'
  <2>1. \A m \in 1..n : m = n \/ (m \in 1..n - 1 /\ m \in DOMAIN chain)
    BY <1>3
  <2> QED
    BY <1>4, <1>5, <1>7, <2>1 DEF NoEarlyBatch, IInv
<1>9. chain' \in Block
  BY <1>7 DEF Block, AnyKind
<1>10. UNCHANGED <<dbVars, memVars, pc, lastBlock, syncVars, hearVars, faults>>
       /\ forks' = forks + 1
  BY DEF Fork
<1>11. forks' \in Nat
  BY <1>10 DEF IInv, TypeOK
<1> QED
  BY <1>8, <1>9, <1>10, <1>11, ChainMoves

\* what every other step has to show: the types of what it changes, and the rest
LEMMA StepTypes ==
  ASSUME IInv, UNCHANGED ethVars,
         lastBlock' \in Block, base' \in Block, ethBlock' \in Block,
         hist' \in Seq(Block), state' \in Seq(Block), stats' \in Stats, scVars' \in Nat,
         resetStateFailed' \in BOOLEAN,
         pc' \in {"down", "start", "idle", "fetch", "eth", "events", "commit", "slots", "tell",
                  "reorg", "discard", "reset", "tellReorg"},
         blockNum' \in Nat, faults' \in Nat, told' \in [block : Block, vars : Nat],
         missed' \in BOOLEAN
  PROVE  TypeOK' /\ NoEarlyBatch'
<1>1. TypeOK'
  BY DEF IInv, TypeOK, ethVars, Stats
<1>2. NoEarlyBatch'
  BY DEF IInv, NoEarlyBatch, ethVars
<1> QED
  BY <1>1, <1>2

LEMMA NilIsBlock == Nil \in Block
BY DEF Nil, Block

LEMMA FaultCounted ==
  ASSUME IInv, Fault \/ NoFault
  PROVE  faults' \in Nat
BY DEF IInv, TypeOK, Fault, NoFault

\* Sync returns with an error or has nothing to do, and the databases are in order
LEMMA ReturnKeeps ==
  ASSUME IInv, UNCHANGED ethVars, ReturnError, hist' = hist,
         state' \in Seq(Block), Ahead(state', hist), stats' \in Stats, scVars' \in Nat,
         resetStateFailed' \in BOOLEAN, faults' \in Nat,
         told' \in [block : Block, vars : Nat], missed' \in BOOLEAN,
         ~resetStateFailed' => /\ state' = Batches(hist) /\ Fits(stats', hist)
                               /\ scVars' = VarsIn(hist),
         ~missed' => told'.vars = VarsIn(hist)
  PROVE  IInv'
<1>1. pc' = "idle" /\ lastBlock' = Nil /\ base' = Nil /\ ethBlock' = Nil /\ blockNum' = 0
  BY DEF ReturnError
<1>2. TypeOK' /\ NoEarlyBatch'
  BY <1>1, NilIsBlock, TypesNow, StepTypes
<1>3. IsHistory(hist)' /\ InLoop'
  BY <1>1 DEF IInv, InLoop
<1>4. StateFits' /\ StatsFit' /\ VarsFit' /\ ToldFits'
  BY <1>1 DEF StateFits, StatsFit, VarsFit, ToldFits
<1> QED
  BY <1>2, <1>3, <1>4 DEF IInv

\* an error, and the deferred function resets or fails to
LEMMA ResetOrFails ==
  ASSUME IInv, NEW s \in Stats, Reset(s) \/ ResetFails(s)
  PROVE  /\ state' \in Seq(Block) /\ Ahead(state', hist) /\ stats' \in Stats /\ scVars' \in Nat
         /\ resetStateFailed' \in BOOLEAN
         /\ ~resetStateFailed' => /\ state' = Batches(hist) /\ Fits(stats', hist)
                                  /\ scVars' = VarsIn(hist)
BY TypesNow, ResetGives, ResetFailsGives

-----------------------------------------------------------------------------
(* Start and end of the process. *)

LEMMA ZeroStatsType == ZeroStats \in Stats
BY NilIsBlock DEF ZeroStats, Stats, Block

LEMMA BootKeeps ==
  ASSUME IInv, Boot
  PROVE  IInv'
<1> DEFINE s == [ZeroStats EXCEPT !.eth = Num(chain)]
<1>1. pc = "down" /\ pc' = "start" /\ Reset(s)
      /\ UNCHANGED <<chain, forks, hist, lastBlock, base, ethBlock, blockNum, told, missed, faults>>
  BY DEF Boot, NoFault, UNCHBoot, ethVars, syncVars, hearVars
<1>2. s \in Stats
  BY TypesNow, ZeroStatsType DEF Stats, Num
<1> HIDE DEF s
<1>3. /\ state' = Batches(hist) /\ state' \in Seq(Block) /\ Ahead(state', hist)
      /\ stats' \in Stats /\ Fits(stats', hist)
      /\ scVars' = VarsIn(hist) /\ scVars' \in Nat /\ resetStateFailed' = FALSE
  BY <1>1, <1>2, TypesNow, ResetGives
<1>4. TypeOK' /\ NoEarlyBatch'
  BY <1>1, <1>3, TypesNow, StepTypes DEF IInv, TypeOK, ethVars
<1>5. IsHistory(hist)' /\ InLoop'
  BY <1>1, <1>3 DEF IInv, InLoop
<1>6. StateFits' /\ StatsFit' /\ VarsFit'
  BY <1>1, <1>3 DEF StateFits, StatsFit, VarsFit
<1>7. ToldFits'
  BY <1>1 DEF ToldFits
<1> QED
  BY <1>4, <1>5, <1>6, <1>7 DEF IInv

LEMMA BootFailsKeeps ==
  ASSUME IInv, BootFails
  PROVE  IInv'
<1>1. pc = "down" /\ state' \in {state, StateAtLastBatch}
      /\ UNCHANGED <<chain, forks, hist, lastBlock, base, ethBlock, blockNum, told, missed,
                     pc, stats, scVars, resetStateFailed>>
      /\ faults' \in Nat
  BY FaultCounted DEF BootFails, UNCHBoot, ethVars, syncVars, hearVars
<1>2. state' \in Seq(Block) /\ Ahead(state', hist)
  BY <1>1, TypesNow, CutStateFits
<1>3. TypeOK' /\ NoEarlyBatch'
  BY <1>1, <1>2, TypesNow, StepTypes DEF IInv, TypeOK, ethVars
<1>4. IsHistory(hist)' /\ InLoop'
  BY <1>1 DEF IInv, InLoop
<1>5. StateFits' /\ StatsFit' /\ VarsFit' /\ ToldFits'
  BY <1>1, <1>2 DEF StateFits, StatsFit, VarsFit, ToldFits
<1> QED
  BY <1>3, <1>4, <1>5 DEF IInv

LEMMA StartKeeps ==
  ASSUME IInv, Start
  PROVE  IInv'
<1>1. pc = "start" /\ pc' = "idle" /\ told' = [block |-> stats.block, vars |-> scVars]
      /\ missed' = FALSE
      /\ UNCHANGED <<chain, forks, hist, state, stats, scVars, resetStateFailed, lastBlock, base,
                     ethBlock, blockNum, faults>>
  BY DEF Start, FirstNews, ethVars, dbVars, memVars, syncVars
<1>2. told' \in [block : Block, vars : Nat] /\ told'.vars = scVars
  BY <1>1, TypesNow, StatsOf
<1>3. lastBlock = Nil /\ ~resetStateFailed
  BY <1>1 DEF IInv, InLoop
<1>4. TypeOK' /\ NoEarlyBatch'
  BY <1>1, <1>2, TypesNow, StepTypes DEF IInv, TypeOK, ethVars
<1>5. IsHistory(hist)' /\ InLoop'
  BY <1>1, <1>3 DEF IInv, InLoop
<1>6. StateFits' /\ StatsFit' /\ VarsFit'
  BY <1>1 DEF IInv, StateFits, StatsFit, VarsFit
<1>7. ToldFits'
  BY <1>1, <1>2, <1>3 DEF IInv, VarsFit, ToldFits
<1> QED
  BY <1>4, <1>5, <1>6, <1>7 DEF IInv

LEMMA CrashKeeps ==
  ASSUME IInv, Crash
  PROVE  IInv'
<1>1. /\ pc' = "down" /\ lastBlock' = Nil /\ base' = Nil /\ ethBlock' = Nil /\ blockNum' = 0
      /\ stats' = ZeroStats /\ scVars' = 0 /\ resetStateFailed' = FALSE
      /\ told' = [block |-> Nil, vars |-> 0] /\ missed' = FALSE
      /\ UNCHANGED <<chain, forks, hist, state>> /\ faults' \in Nat
  BY FaultCounted DEF Crash, ethVars, dbVars
<1>2. TypeOK' /\ NoEarlyBatch'
  BY <1>1, ZeroStatsType, NilIsBlock, TypesNow, StepTypes DEF ethVars
<1>3. IsHistory(hist)' /\ InLoop'
  BY <1>1 DEF IInv, InLoop
<1>4. StateFits' /\ StatsFit' /\ VarsFit' /\ ToldFits'
  BY <1>1 DEF IInv, StateFits, StatsFit, VarsFit, ToldFits
<1> QED
  BY <1>2, <1>3, <1>4 DEF IInv

-----------------------------------------------------------------------------
(* Sync, as far as the check of the parent. *)

LEMMA BeginKeeps ==
  ASSUME IInv, Begin
  PROVE  IInv'
<1>1. /\ pc = "idle" /\ pc' = "fetch"
      /\ base' = IF lastBlock = Nil THEN LastOf(hist) ELSE lastBlock
      /\ UNCHANGED <<chain, forks, hist, lastBlock, ethBlock, blockNum, told, missed, faults>>
  BY Queries DEF Begin, NoFault, UNCHSync, ethVars, hearVars
<1>2. base' = LastOf(hist)
  BY <1>1 DEF IInv, InLoop
<1>3. /\ state' = Batches(hist) /\ state' \in Seq(Block) /\ Ahead(state', hist)
      /\ stats' \in Stats /\ Fits(stats', hist)
      /\ scVars' = VarsIn(hist) /\ scVars' \in Nat /\ resetStateFailed' = FALSE
  <2>1. CASE resetStateFailed /\ Reset(stats)
    BY <2>1, TypesNow, ResetGives
  <2>2. CASE ~resetStateFailed /\ UNCHANGED <<memVars, state>>
    BY <2>2, <1>1, TypesNow DEF IInv, StateFits, StatsFit, VarsFit, memVars, TypeOK
  <2> QED
    BY <2>1, <2>2 DEF Begin
<1>4. TypeOK' /\ NoEarlyBatch'
  BY <1>1, <1>2, <1>3, TypesNow, HistoryTypes, StepTypes DEF IInv, TypeOK, ethVars
<1>5. IsHistory(hist)' /\ InLoop'
  BY <1>1, <1>2, <1>3 DEF IInv, InLoop
<1>6. StateFits' /\ StatsFit' /\ VarsFit' /\ ToldFits'
  BY <1>1, <1>3 DEF IInv, StateFits, StatsFit, VarsFit, ToldFits
<1> QED
  BY <1>4, <1>5, <1>6 DEF IInv

LEMMA BeginFailsKeeps ==
  ASSUME IInv, BeginFails
  PROVE  IInv'
<1>1. pc = "idle" /\ ReturnError /\ UNCHANGED <<chain, forks, hist, told, missed>>
      /\ faults' \in Nat /\ UNCHANGED ethVars
  BY FaultCounted DEF BeginFails, UNCHSync, ethVars, hearVars
<1>2. /\ state' \in Seq(Block) /\ Ahead(state', hist) /\ stats' \in Stats /\ scVars' \in Nat
      /\ resetStateFailed' \in BOOLEAN
      /\ ~resetStateFailed' => /\ state' = Batches(hist) /\ Fits(stats', hist)
                               /\ scVars' = VarsIn(hist)
  <2>1. CASE ResetFails(stats) \/ Reset(stats)
    BY <2>1, TypesNow, ResetOrFails
  <2>2. CASE ~resetStateFailed /\ UNCHANGED <<memVars, state>>
    BY <2>2, <1>1, TypesNow DEF IInv, TypeOK, StateFits, StatsFit, VarsFit, memVars
  <2> QED
    BY <2>1, <2>2 DEF BeginFails
<1>3. told' \in [block : Block, vars : Nat] /\ missed' \in BOOLEAN
      /\ (~missed' => told'.vars = VarsIn(hist))
  BY <1>1 DEF IInv, TypeOK, ToldFits
<1> QED
  BY <1>1, <1>2, <1>3, ReturnKeeps

LEMMA BlockOfNumber ==
  ASSUME IInv, NEW n \in 1..Len(chain)
  PROVE  LET b == EthBlockByNumber(n)
         IN  b \in Block /\ Num(b) = n /\ b # Nil
             /\ (HasBatch(b) => Num(b) >= GenesisBlockNum)
<1> DEFINE b == SubSeq(chain, 1, n)
<1>1. chain \in Seq(AnyKind) /\ Len(chain) \in Nat /\ n \in 0..Len(chain) /\ n \in Nat
      /\ n \in DOMAIN chain
  BY TypesNow DEF Block, AnyKind
<1>2. b \in Seq(AnyKind) /\ Len(b) = n /\ b[n] = chain[n]
  BY <1>1, CutProperties
<1> HIDE DEF b
<1>3. HasBatch(b) => n >= GenesisBlockNum
  BY <1>1, <1>2 DEF HasBatch, Kind, IInv, NoEarlyBatch
<1>4. b # Nil
  BY <1>1, <1>2 DEF Nil
<1> QED
  BY <1>2, <1>3, <1>4 DEF b, EthBlockByNumber, Num, Block, AnyKind

LEMMA LengthOfLast ==
  ASSUME NEW h, IsHistory(h)
  PROVE  Num(LastOf(h)) = Len(h) /\ (h # <<>> => LastOf(h) # Nil)
<1>1. h \in Seq(Block) /\ Len(h) \in Nat
  BY HistoryTypes
<1>2. CASE h = <<>>
  BY <1>2 DEF LastOf, Num, Nil
<1>3. CASE h # <<>>
  <2>1. Len(h) \in DOMAIN h /\ LastOf(h) = h[Len(h)] /\ Len(h) # 0
    BY <1>1, <1>3 DEF LastOf
  <2>2. Num(LastOf(h)) = Len(h)
    BY <2>1 DEF IsHistory
  <2> QED
    BY <2>1, <2>2 DEF Num, Nil
<1> QED
  BY <1>2, <1>3

LEMMA FetchKeeps ==
  ASSUME IInv, Fetch
  PROVE  IInv'
<1>1. /\ pc = "fetch" /\ base = LastOf(hist) /\ ~resetStateFailed
      /\ UNCHANGED <<chain, forks, hist, state, stats, scVars, resetStateFailed, lastBlock, blockNum,
                     told, missed, faults>>
  BY DEF Fetch, NoFault, UNCHSync, ethVars, dbVars, memVars, hearVars, IInv, InLoop
<1>2. Num(base) = Len(hist) /\ Len(hist) \in Nat
  BY <1>1, TypesNow, LengthOfLast
<1>3. CASE Num(base) + 1 > Num(chain) /\ pc' = "idle" /\ base' = Nil /\ UNCHANGED ethBlock
  <2>1. TypeOK' /\ NoEarlyBatch'
    BY <1>1, <1>3, NilIsBlock, TypesNow, StepTypes DEF IInv, TypeOK, ethVars
  <2>2. IsHistory(hist)' /\ InLoop'
    BY <1>1, <1>3 DEF IInv, InLoop
  <2>3. StateFits' /\ StatsFit' /\ VarsFit' /\ ToldFits'
    BY <1>1, <1>3 DEF IInv, StateFits, StatsFit, VarsFit, ToldFits
  <2> QED
    BY <2>1, <2>2, <2>3 DEF IInv
<1>4. CASE /\ ~(Num(base) + 1 > Num(chain))
           /\ pc' = "eth" /\ ethBlock' = EthBlockByNumber(Num(base) + 1) /\ UNCHANGED base
  <2>1. Num(base) + 1 \in 1..Len(chain)
    BY <1>2, <1>4, TypesNow DEF Num
  <2>2. ethBlock' \in Block /\ Num(ethBlock') = Len(hist) + 1
        /\ (HasBatch(ethBlock') => Num(ethBlock') >= GenesisBlockNum)
    BY <1>2, <1>4, <2>1, BlockOfNumber
  <2>3. TypeOK' /\ NoEarlyBatch'
    BY <1>1, <1>4, <2>2, TypesNow, StepTypes DEF IInv, TypeOK, ethVars
  <2>4. IsHistory(hist)' /\ InLoop'
    BY <1>1, <1>4, <2>2 DEF IInv, InLoop
  <2>5. StateFits' /\ StatsFit' /\ VarsFit' /\ ToldFits'
    BY <1>1, <1>4 DEF IInv, StateFits, StatsFit, VarsFit, ToldFits
  <2> QED
    BY <2>3, <2>4, <2>5 DEF IInv
<1> QED
  BY <1>3, <1>4 DEF Fetch

LEMMA EthKeeps ==
  ASSUME IInv, Eth
  PROVE  IInv'
<1>1. /\ pc = "eth" /\ base = LastOf(hist) /\ ~resetStateFailed
      /\ UNCHANGED <<chain, forks, hist, state, scVars, resetStateFailed, lastBlock, base, ethBlock,
                     told, missed, faults>>
      /\ Num(ethBlock) = Len(hist) + 1 /\ (HasBatch(ethBlock) => Num(ethBlock) >= GenesisBlockNum)
  BY DEF Eth, NoFault, UNCHSync, ethVars, dbVars, hearVars, IInv, InLoop
<1>2. stats' \in Stats /\ Fits(stats', hist)
  <2>1. stats' = stats \/ stats' = [stats EXCEPT !.eth = Num(chain)]
    BY DEF Eth
  <2>2. stats \in Stats /\ Fits(stats, hist)
    BY <1>1, TypesNow DEF IInv, StatsFit
  <2>3. Num(chain) \in Nat
    BY TypesNow DEF Num
  <2>4. /\ stats' \in Stats
        /\ stats'.block = stats.block /\ stats'.batch = stats.batch /\ stats'.l1 = stats.l1
        /\ stats'.slot = stats.slot /\ stats'.committed = stats.committed
    BY <2>1, <2>2, <2>3 DEF Stats
  <2> QED
    BY <2>2, <2>4 DEF Fits
<1>3. Len(hist) \in Nat /\ Num(base) = Len(hist) /\ (hist # <<>> => base # Nil)
      /\ DOMAIN hist = 1..Len(hist)
  BY <1>1, TypesNow, LengthOfLast
<1>4. CASE IsReorg /\ pc' = "reorg" /\ blockNum' = Num(base)
  <2>1. blockNum' \in DOMAIN hist
    <3>1. base # Nil
      BY <1>4 DEF IsReorg
    <3>2. Len(hist) # 0
      BY <3>1, <1>1, <1>3 DEF LastOf, Nil
    <3> QED
      BY <3>2, <1>3, <1>4
  <2>2. blockNum' \in Nat
    BY <1>3, <1>4
  <2>3. TypeOK' /\ NoEarlyBatch'
    BY <1>1, <1>2, <1>4, <2>2, TypesNow, StepTypes DEF IInv, TypeOK, ethVars
  <2>4. IsHistory(hist)' /\ InLoop'
    BY <1>1, <1>4, <2>1 DEF IInv, InLoop
  <2>5. StateFits' /\ StatsFit' /\ VarsFit' /\ ToldFits'
    BY <1>1, <1>2, <1>4 DEF IInv, StateFits, StatsFit, VarsFit, ToldFits
  <2> QED
    BY <2>3, <2>4, <2>5 DEF IInv
<1>5. CASE ~IsReorg /\ pc' = "events" /\ UNCHANGED blockNum
  <2>1. Follow(ethBlock, hist)
    <3>1. hist # <<>> => Parent(ethBlock) = LastOf(hist)
      BY <1>1, <1>3, <1>5 DEF IsReorg
    <3>2. ethBlock \in Block
      BY DEF IInv, TypeOK
    <3> QED
      BY <1>1, <3>1, <3>2 DEF Follow
  <2>2. TypeOK' /\ NoEarlyBatch'
    BY <1>1, <1>2, <1>5, TypesNow, StepTypes DEF IInv, TypeOK, ethVars
  <2>3. IsHistory(hist)' /\ InLoop'
    BY <1>1, <1>5, <2>1 DEF IInv, InLoop
  <2>4. StateFits' /\ StatsFit' /\ VarsFit' /\ ToldFits'
    BY <1>1, <1>2, <1>5 DEF IInv, StateFits, StatsFit, VarsFit, ToldFits
  <2> QED
    BY <2>2, <2>3, <2>4 DEF IInv
<1> QED
  BY <1>4, <1>5 DEF Eth

\* an error while the databases and the statistics are still those of the saved blocks
LEMMA UntouchedReturns ==
  ASSUME IInv, UNCHANGED <<ethVars, dbVars, memVars, hearVars>>, ReturnError,
         faults' \in Nat, pc \in {"fetch", "eth", "reorg", "discard"}
  PROVE  IInv'
<1>1. UNCHANGED <<hist, state, stats, scVars, resetStateFailed, told, missed>> /\ UNCHANGED ethVars
  BY DEF dbVars, memVars, hearVars
<1>2. state \in Seq(Block) /\ Ahead(state, hist) /\ stats \in Stats /\ scVars \in Nat
      /\ resetStateFailed \in BOOLEAN /\ told \in [block : Block, vars : Nat] /\ missed \in BOOLEAN
  BY TypesNow DEF IInv, TypeOK
<1>3. ~resetStateFailed => state = Batches(hist) /\ Fits(stats, hist) /\ scVars = VarsIn(hist)
  BY DEF IInv, StateFits, StatsFit, VarsFit
<1>4. ~missed => told.vars = VarsIn(hist)
  BY DEF IInv, ToldFits
<1> QED
  BY <1>1, <1>2, <1>3, <1>4, ReturnKeeps

LEMMA ReadFailsKeeps ==
  ASSUME IInv, ReadFails \/ SearchFails \/ DiscardFails
  PROVE  IInv'
<1>1. UNCHANGED <<ethVars, dbVars, memVars, hearVars>> /\ ReturnError /\ faults' \in Nat
      /\ pc \in {"fetch", "eth", "reorg", "discard"}
  BY FaultCounted DEF ReadFails, SearchFails, DiscardFails, UNCHSync
<1> QED
  BY <1>1, UntouchedReturns

-----------------------------------------------------------------------------
(* A block that follows. *)

LEMMA EventsKeeps ==
  ASSUME IInv, Events
  PROVE  IInv'
<1>1. /\ pc = "events" /\ pc' = "commit" /\ ~resetStateFailed /\ Follow(ethBlock, hist)
      /\ state' = IF HasBatch(ethBlock) THEN Append(state, ethBlock) ELSE state
      /\ scVars' = IF Kind(ethBlock) = Vars THEN Num(ethBlock) ELSE scVars
      /\ UNCHANGED <<chain, forks, hist, stats, resetStateFailed, lastBlock, base, ethBlock, blockNum,
                     told, missed, faults>>
  BY DEF Events, NoFault, UNCHSync, ethVars, syncVars, hearVars, IInv, InLoop
<1>2. ethBlock \in Block /\ Num(ethBlock) = Len(hist) + 1
  BY <1>1 DEF Follow
<1>3. state = Batches(hist) /\ scVars = VarsIn(hist)
  BY <1>1 DEF IInv, StateFits, VarsFit
<1>4. state' = Batches(Append(hist, ethBlock))
  BY <1>1, <1>2, <1>3, TypesNow, BatchesOfAppend
<1>5. scVars' = VarsIn(Append(hist, ethBlock))
  BY <1>1, <1>2, <1>3, TypesNow, VarsOfAppend
<1>6. Ahead(state', hist)
  BY <1>2, <1>4, TypesNow, AppendIsAhead
<1>7. IsHistory(Append(hist, ethBlock))
  BY <1>1, TypesNow, AppendIsHistory
<1>8. state' \in Seq(Block) /\ scVars' \in Nat
  BY <1>4, <1>5, <1>7, HistoryTypes
<1>9. TypeOK' /\ NoEarlyBatch'
  BY <1>1, <1>8, TypesNow, StepTypes DEF IInv, TypeOK, ethVars
<1>10. IsHistory(hist)' /\ InLoop'
  BY <1>1 DEF IInv, InLoop
<1>11. StateFits' /\ VarsFit'
  BY <1>1, <1>4, <1>5, <1>6 DEF StateFits, VarsFit
<1>12. StatsFit' /\ ToldFits'
  BY <1>1 DEF IInv, StatsFit, ToldFits
<1> QED
  BY <1>9, <1>10, <1>11, <1>12 DEF IInv

LEMMA EventsFailKeeps ==
  ASSUME IInv, EventsFail
  PROVE  IInv'
<1>1. /\ pc \in {"events", "commit"} /\ ReturnError /\ (Reset(stats) \/ ResetFails(stats))
      /\ UNCHANGED <<chain, forks, hist, told, missed>> /\ UNCHANGED ethVars
  BY DEF EventsFail, FailAfterEvents, UNCHSync, ethVars, hearVars
<1>2. faults' \in Nat
  BY FaultCounted DEF EventsFail
<1>3. told' \in [block : Block, vars : Nat] /\ missed' \in BOOLEAN
      /\ (~missed' => told'.vars = VarsIn(hist))
  BY <1>1 DEF IInv, TypeOK, ToldFits
<1> QED
  BY <1>1, <1>2, <1>3, TypesNow, ResetOrFails, ReturnKeeps

LEMMA CommitKeeps ==
  ASSUME IInv, Commit
  PROVE  IInv'
<1>1. /\ pc = "commit" /\ pc' = "slots" /\ ~resetStateFailed /\ Follow(ethBlock, hist)
      /\ hist' = Append(hist, ethBlock)
      /\ UNCHANGED <<chain, forks, state, stats, scVars, resetStateFailed, lastBlock, base, ethBlock,
                     blockNum, told, missed, faults>>
  BY DEF Commit, NoFault, UNCHSync, ethVars, memVars, syncVars, hearVars, IInv, InLoop
<1>2. /\ IsHistory(hist') /\ LastOf(hist') = ethBlock /\ hist' # <<>>
      /\ SubSeq(hist', 1, Len(hist') - 1) = hist
  BY <1>1, TypesNow, AppendIsHistory
<1>3. state = Batches(hist') /\ scVars = VarsIn(hist')
  BY <1>1 DEF IInv, StateFits, VarsFit
<1>4. Ahead(state, hist')
  BY <1>2, <1>3, SameIsAhead
<1>5. Fits(stats, hist)
  BY <1>1 DEF IInv, StatsFit
<1>6. ~missed /\ Kind(ethBlock) # Vars => told.vars = VarsIn(hist')
  <2>1. ~missed => told.vars = VarsIn(hist)
    BY <1>1 DEF IInv, ToldFits
  <2>2. Kind(ethBlock) # Vars => VarsIn(hist') = VarsIn(hist)
    BY <1>1, TypesNow, VarsOfAppend DEF Follow
  <2> QED
    BY <2>1, <2>2
<1>7. hist' \in Seq(Block)
  BY <1>2, HistoryTypes
<1>8. TypeOK' /\ NoEarlyBatch'
  BY <1>1, <1>7, TypesNow, StepTypes DEF IInv, TypeOK, ethVars
<1>9. IsHistory(hist)' /\ InLoop'
  BY <1>1, <1>2 DEF IInv, InLoop
<1>10. StateFits' /\ StatsFit' /\ VarsFit'
  BY <1>1, <1>2, <1>3, <1>4, <1>5 DEF StateFits, StatsFit, VarsFit
<1>11. ToldFits'
  BY <1>1, <1>6 DEF ToldFits
<1> QED
  BY <1>8, <1>9, <1>10, <1>11 DEF IInv

\* the commitment of the slot, carried over block by block
LEMMA CommitmentGoesOn ==
  ASSUME NEW h, IsHistory(h), NEW b, Follow(b, h), NEW c \in BOOLEAN,
         NEW N, N = Len(h) + 1, c <=> CommittedIn(h, SlotNum(N))
  PROVE  (\/ SlotNum(N + 1) <= SlotNum(N) /\ c
          \/ HasBatch(b) /\ InTime(N)) <=> CommittedIn(Append(h, b), SlotNum(N + 1))
<1> DEFINE g == Append(h, b)
           old == SlotNum(N)
           slot == SlotNum(N + 1)
<1>1. h \in Seq(Block) /\ Len(h) \in Nat /\ DOMAIN h = 1..Len(h) /\ Num(b) = Len(h) + 1
  BY HistoryTypes DEF Follow
<1>2. b \in Block
  BY DEF Follow
<1>3. DOMAIN g = 1..N /\ g[N] = b /\ \A n \in 1..Len(h) : g[n] = h[n]
  BY <1>1, <1>2
<1>4. N \in Nat /\ N + 1 \in Nat /\ N <= N + 1 /\ N - 1 = Len(h) /\ Num(b) = N
  BY <1>1
<1> HIDE DEF g
<1>5. \A n \in 1..N : n = N \/ n \in DOMAIN h
  BY <1>1
<1>6. N \in 1..N /\ \A n \in DOMAIN h : n \in 1..N /\ n \in Nat /\ n <= N
  BY <1>1
<1>7. c <=> CommittedIn(h, old)
  OBVIOUS
<1> HIDE DEF old, slot
<1>8. old \in Int /\ slot \in Int /\ old <= slot
  BY <1>4, SlotNumType, SlotNumGrows DEF old, slot
<1>9. CommittedIn(g, slot) <=> \/ HasBatch(b) /\ old = slot /\ InTime(N)
                               \/ CommittedIn(h, slot)
  <2>1. \A n \in 1..N : n # N => g[n] = h[n]
    BY <1>1, <1>3, <1>5
  <2>2. ASSUME CommittedIn(h, slot) PROVE CommittedIn(g, slot)
    <3>1. PICK n \in DOMAIN h : HasBatch(h[n]) /\ SlotNum(n) = slot /\ InTime(n)
      BY <2>2 DEF CommittedIn
    <3>2. n \in DOMAIN g /\ g[n] = h[n]
      BY <1>1, <1>3, <1>6
    <3> QED
      BY <3>1, <3>2 DEF CommittedIn
  <2>3. ASSUME HasBatch(b), old = slot, InTime(N) PROVE CommittedIn(g, slot)
    BY <2>3, <1>3, <1>6 DEF CommittedIn, old
  <2>4. ASSUME CommittedIn(g, slot)
        PROVE  (HasBatch(b) /\ old = slot /\ InTime(N)) \/ CommittedIn(h, slot)
    <3>1. PICK n \in DOMAIN g : HasBatch(g[n]) /\ SlotNum(n) = slot /\ InTime(n)
      BY <2>4 DEF CommittedIn
    <3>2. CASE n = N
      BY <3>1, <3>2, <1>3 DEF old
    <3>3. CASE n # N
      <4>1. n \in DOMAIN h /\ g[n] = h[n]
        BY <3>3, <1>3, <1>5, <2>1
      <4> QED
        BY <3>1, <4>1 DEF CommittedIn
    <3> QED
      BY <3>2, <3>3
  <2> QED
    BY <2>2, <2>3, <2>4
<1>10. ((slot <= old /\ c) \/ (HasBatch(b) /\ InTime(N))) <=> CommittedIn(g, slot)
  <2>1. CASE slot = old
    BY <2>1, <1>7, <1>8, <1>9
  <2>2. CASE slot # old
    <3>1. ~CommittedIn(h, slot)
      <4> SUFFICES ASSUME NEW n \in DOMAIN h, SlotNum(n) = slot PROVE FALSE
        BY DEF CommittedIn
      <4>1. SlotNum(n) <= old
        BY <1>4, <1>6, SlotNumGrows DEF old
      <4> QED
        BY <4>1, <1>8, <2>2
    <3>2. ~(HasBatch(b) /\ InTime(N))
      <4> SUFFICES ASSUME HasBatch(b) PROVE ~InTime(N)
        OBVIOUS
      <4>1. N >= GenesisBlockNum
        BY <1>4 DEF Follow
      <4> QED
        BY <4>1, <1>4, <2>2, LastOfSlot DEF old, slot
    <3> QED
      BY <2>2, <3>1, <3>2, <1>8, <1>9
  <2> QED
    BY <2>1, <2>2
<1> QED
  BY <1>10 DEF g, old, slot

LEMMA SyncedBlockType ==
  ASSUME IsHistory(hist), hist # <<>>, ethBlock = LastOf(hist), NEW s \in Stats,
         Fits(s, SubSeq(hist, 1, Len(hist) - 1))
  PROVE  LET u == SyncedBlock(s)
         IN  /\ u \in Stats /\ u.block = LastOf(hist) /\ u.batch = Len(Batches(hist))
             /\ u.l1 = L1In(hist) /\ u.slot = s.slot /\ u.committed = s.committed
<1> DEFINE u == SyncedBlock(s)
           g == SubSeq(hist, 1, Len(hist) - 1)
           n == Len(Batches(hist))
           l == L1In(hist)
<1>1. IsHistory(g) /\ Follow(ethBlock, g) /\ hist = Append(g, ethBlock)
  BY LastFollows
<1>2. g \in Histories /\ g \in Seq(Block) /\ ethBlock \in Block
  BY <1>1, HistoryTypes DEF Follow
<1>3. s.batch = Len(Batches(g)) /\ s.l1 = L1In(g)
  BY DEF Fits
<1> HIDE DEF g
<1>4. ~HasBatch(ethBlock) => n = s.batch
  BY <1>1, <1>2, <1>3, BatchesOfAppend
<1>5. Kind(ethBlock) # L1 => l = s.l1
  BY <1>1, <1>2, <1>3, L1OfAppend
<1>6. n \in Nat /\ l \in Nat
  BY HistoryTypes
<1>7. u = [s EXCEPT !.block = ethBlock,
                    !.batch = IF HasBatch(ethBlock) THEN n ELSE s.batch,
                    !.l1    = IF Kind(ethBlock) = L1 THEN l ELSE s.l1]
  BY Queries DEF SyncedBlock
<1> HIDE DEF n, l
<1>8. u = [s EXCEPT !.block = ethBlock, !.batch = n, !.l1 = l]
  BY <1>4, <1>5, <1>7
<1> HIDE DEF u
<1>9. u \in Stats /\ u.block = ethBlock /\ u.batch = n /\ u.l1 = l
      /\ u.slot = s.slot /\ u.committed = s.committed
  BY <1>2, <1>6, <1>8 DEF Stats
<1> QED
  BY <1>9 DEF u, n, l

LEMMA CurrentSlotFits ==
  ASSUME IsHistory(hist), hist # <<>>, ethBlock = LastOf(hist), NEW s \in Stats,
         Fits(s, SubSeq(hist, 1, Len(hist) - 1))
  PROVE  LET t == CurrentSlot(SyncedBlock(s), HasBatch(ethBlock))
         IN  t \in Stats /\ Fits(t, hist)
<1> DEFINE u == SyncedBlock(s)
           g == SubSeq(hist, 1, Len(hist) - 1)
           N == Len(hist)
           slot == SlotNum(N + 1)
           c == (\/ slot <= s.slot /\ s.committed
                 \/ HasBatch(ethBlock) /\ InTime(N))
           t == CurrentSlot(u, HasBatch(ethBlock))
<1>1. /\ u \in Stats /\ u.block = LastOf(hist) /\ u.batch = Len(Batches(hist))
      /\ u.l1 = L1In(hist) /\ u.slot = s.slot /\ u.committed = s.committed
  BY SyncedBlockType
<1>2. IsHistory(g) /\ Follow(ethBlock, g) /\ hist = Append(g, ethBlock) /\ N = Len(g) + 1
  BY LastFollows
<1>3. s.slot = SlotNum(Len(g) + 1) /\ (s.committed <=> CommittedIn(g, s.slot))
  BY DEF Fits
<1>4. Num(LastOf(hist)) = N /\ N \in Nat
  BY LengthOfLast, HistoryTypes
<1> HIDE DEF u, g, N
<1>5. s.slot = SlotNum(N) /\ s.committed \in BOOLEAN
  BY <1>2, <1>3, StatsOf
<1>6. c <=> CommittedIn(hist, slot)
  <2>1. s.committed <=> CommittedIn(g, SlotNum(N))
    BY <1>3, <1>5
  <2>2. (\/ SlotNum(N + 1) <= SlotNum(N) /\ s.committed
         \/ HasBatch(ethBlock) /\ InTime(N)) <=> CommittedIn(Append(g, ethBlock), SlotNum(N + 1))
    BY <1>2, <1>5, <2>1, CommitmentGoesOn
  <2> QED
    BY <1>2, <1>5, <2>2
<1>7. slot \in Int
  BY <1>4, SlotNumType
<1>8. c \in BOOLEAN
  OBVIOUS
<1>9. t = [u EXCEPT !.slot = slot,
                    !.committed = \/ slot <= u.slot /\ u.committed
                                  \/ HasBatch(ethBlock) /\ InTime(N)]
  BY <1>1, <1>4 DEF CurrentSlot
<1>10. t = [u EXCEPT !.slot = slot, !.committed = c]
  BY <1>1, <1>9
<1> HIDE DEF c, slot, t
<1>11. t \in Stats /\ t.block = u.block /\ t.batch = u.batch /\ t.l1 = u.l1 /\ t.slot = slot
       /\ t.committed = c
  BY <1>1, <1>7, <1>8, <1>10 DEF Stats
<1>12. t.slot = SlotNum(Len(hist) + 1)
  BY <1>11 DEF slot, N
<1>13. t.committed <=> CommittedIn(hist, t.slot)
  BY <1>6, <1>11
<1>14. t \in Stats /\ Fits(t, hist)
  BY <1>1, <1>11, <1>12, <1>13 DEF Fits
<1> QED
  BY <1>14 DEF t, u

LEMMA SlotsKeeps ==
  ASSUME IInv, Slots
  PROVE  IInv'
<1>1. /\ pc = "slots" /\ pc' = "tell" /\ ~resetStateFailed
      /\ stats' = CurrentSlot(SyncedBlock(stats), HasBatch(ethBlock))
      /\ hist # <<>> /\ ethBlock = LastOf(hist)
      /\ UNCHANGED <<chain, forks, hist, state, scVars, resetStateFailed, lastBlock, base, ethBlock,
                     blockNum, told, missed, faults>>
  BY DEF Slots, NoFault, UNCHSync, ethVars, dbVars, syncVars, hearVars, IInv, InLoop
<1>2. Fits(stats, SubSeq(hist, 1, Len(hist) - 1))
  BY <1>1 DEF IInv, StatsFit
<1>3. stats' \in Stats /\ Fits(stats', hist)
  BY <1>1, <1>2, TypesNow, CurrentSlotFits
<1>4. TypeOK' /\ NoEarlyBatch'
  BY <1>1, <1>3, TypesNow, StepTypes DEF IInv, TypeOK, ethVars
<1>5. IsHistory(hist)' /\ InLoop'
  BY <1>1 DEF IInv, InLoop
<1>6. StateFits' /\ StatsFit' /\ VarsFit' /\ ToldFits'
  BY <1>1, <1>3 DEF IInv, StateFits, StatsFit, VarsFit, ToldFits
<1> QED
  BY <1>4, <1>5, <1>6 DEF IInv

LEMMA SlotsFailKeeps ==
  ASSUME IInv, SlotsFail
  PROVE  IInv'
<1> DEFINE s == SyncedBlock(stats)
<1>1. /\ pc = "slots" /\ ReturnError /\ (Reset(s) \/ ResetFails(s)) /\ faults' \in Nat
      /\ missed' = TRUE /\ UNCHANGED <<hist, told>> /\ UNCHANGED ethVars
  BY FaultCounted DEF SlotsFail, FailAfterEvents
<1>2. s \in Stats
  <2>1. Fits(stats, SubSeq(hist, 1, Len(hist) - 1)) /\ hist # <<>> /\ ethBlock = LastOf(hist)
    BY <1>1 DEF IInv, StatsFit, InLoop
  <2> QED
    BY <2>1, TypesNow, SyncedBlockType
<1> HIDE DEF s
<1>3. told' \in [block : Block, vars : Nat]
  BY <1>1 DEF IInv, TypeOK
<1> QED
  BY <1>1, <1>2, <1>3, TypesNow, ResetOrFails, ReturnKeeps

-----------------------------------------------------------------------------
(* reorg. *)

LEMMA SearchKeeps ==
  ASSUME IInv, Search
  PROVE  IInv'
<1>1. /\ pc = "reorg" /\ blockNum \in DOMAIN hist /\ base = LastOf(hist) /\ ~resetStateFailed
      /\ UNCHANGED <<chain, forks, hist, state, stats, scVars, resetStateFailed, lastBlock, base,
                     ethBlock, told, missed, faults>>
  BY DEF Search, NoFault, UNCHSync, ethVars, dbVars, memVars, hearVars, IInv, InLoop
<1>2. DOMAIN hist = 1..Len(hist) /\ Len(hist) \in Nat
  BY TypesNow
<1>3. /\ pc' \in {"reorg", "discard"} /\ blockNum' \in DOMAIN hist
  BY <1>1, <1>2 DEF Search
<1>4. blockNum' \in Nat
  BY <1>2, <1>3
<1>5. TypeOK' /\ NoEarlyBatch'
  BY <1>1, <1>3, <1>4, TypesNow, StepTypes DEF IInv, TypeOK, ethVars
<1>6. IsHistory(hist)' /\ InLoop'
  BY <1>1, <1>3 DEF IInv, InLoop
<1>7. StateFits' /\ StatsFit' /\ VarsFit' /\ ToldFits'
  BY <1>1, <1>3 DEF IInv, StateFits, StatsFit, VarsFit, ToldFits
<1> QED
  BY <1>5, <1>6, <1>7 DEF IInv

LEMMA DiscardKeeps ==
  ASSUME IInv, Discard
  PROVE  IInv'
<1>1. /\ pc = "discard" /\ pc' = "reset" /\ blockNum \in DOMAIN hist /\ ~resetStateFailed
      /\ hist' = SubSeq(hist, 1, blockNum)
      /\ UNCHANGED <<chain, forks, state, stats, scVars, resetStateFailed, lastBlock, base,
                     ethBlock, blockNum, told, missed, faults>>
  BY DEF Discard, NoFault, UNCHSync, ethVars, memVars, syncVars, hearVars, IInv, InLoop
<1>2. blockNum \in 0..Len(hist)
  BY <1>1, TypesNow
<1>3. IsHistory(hist') /\ hist' \in Seq(Block)
  BY <1>1, <1>2, TypesNow, CutIsHistory, HistoryTypes
<1>4. Ahead(state, hist')
  <2>1. state = Batches(hist)
    BY <1>1 DEF IInv, StateFits
  <2> QED
    BY <2>1, <1>1, <1>2, TypesNow, CutIsBehind
<1>5. TypeOK' /\ NoEarlyBatch'
  BY <1>1, <1>3, TypesNow, StepTypes DEF IInv, TypeOK, ethVars
<1>6. IsHistory(hist)' /\ InLoop'
  BY <1>1, <1>3 DEF IInv, InLoop
<1>7. StateFits' /\ StatsFit' /\ VarsFit' /\ ToldFits'
  BY <1>1, <1>4 DEF StateFits, StatsFit, VarsFit, ToldFits
<1> QED
  BY <1>5, <1>6, <1>7 DEF IInv

LEMMA ResetToValidKeeps ==
  ASSUME IInv, ResetToValid
  PROVE  IInv'
<1>1. /\ pc = "reset" /\ pc' = "tellReorg" /\ Reset(stats)
      /\ UNCHANGED <<chain, forks, hist, lastBlock, base, ethBlock, blockNum, told, missed, faults>>
  BY DEF ResetToValid, NoFault, UNCHSync, ethVars, syncVars, hearVars
<1>2. /\ state' = Batches(hist) /\ state' \in Seq(Block) /\ Ahead(state', hist)
      /\ stats' \in Stats /\ Fits(stats', hist)
      /\ scVars' = VarsIn(hist) /\ scVars' \in Nat /\ resetStateFailed' = FALSE
  BY <1>1, TypesNow, ResetGives
<1>3. TypeOK' /\ NoEarlyBatch'
  BY <1>1, <1>2, TypesNow, StepTypes DEF IInv, TypeOK, ethVars
<1>4. IsHistory(hist)' /\ InLoop'
  BY <1>1, <1>2 DEF IInv, InLoop
<1>5. StateFits' /\ StatsFit' /\ VarsFit' /\ ToldFits'
  BY <1>1, <1>2 DEF StateFits, StatsFit, VarsFit, ToldFits
<1> QED
  BY <1>3, <1>4, <1>5 DEF IInv

LEMMA ResetToValidFailsKeeps ==
  ASSUME IInv, ResetToValidFails
  PROVE  IInv'
<1>1. /\ ReturnError /\ ResetFails(stats) /\ faults' \in Nat /\ missed' = TRUE
      /\ UNCHANGED <<hist, told>> /\ UNCHANGED ethVars
  BY FaultCounted DEF ResetToValidFails
<1>2. told' \in [block : Block, vars : Nat]
  BY <1>1 DEF IInv, TypeOK
<1> QED
  BY <1>1, <1>2, TypesNow, ResetOrFails, ReturnKeeps

-----------------------------------------------------------------------------
(* The messages to the Coordinator. *)

\* at a message memory and databases are those of the saved blocks
LEMMA AtMessage ==
  ASSUME IInv, pc \in {"tell", "tellReorg"}
  PROVE  /\ ~resetStateFailed /\ state = Batches(hist) /\ Fits(stats, hist)
         /\ scVars = VarsIn(hist)
         /\ stats.block \in Block
         /\ pc = "tell" => /\ ethBlock = LastOf(hist)
                           /\ ~missed => NewVars = VarsIn(hist)
                           /\ NewVars \in Nat
<1>1. ~resetStateFailed
  BY DEF IInv, InLoop
<1>2. state = Batches(hist) /\ Fits(stats, hist) /\ scVars = VarsIn(hist)
  BY <1>1 DEF IInv, StateFits, StatsFit, VarsFit
<1>3. stats.block \in Block
  BY TypesNow, StatsOf
<1>4. ASSUME pc = "tell"
      PROVE  /\ ethBlock = LastOf(hist) /\ NewVars \in Nat
             /\ ~missed => NewVars = VarsIn(hist)
  BY <1>2, <1>4 DEF NewVars, IInv, InLoop, ToldFits, TypeOK
<1> QED
  BY <1>1, <1>2, <1>3, <1>4

LEMMA TellBlockKeeps ==
  ASSUME IInv, TellBlock
  PROVE  IInv'
<1>1. /\ pc = "tell" /\ pc' = "idle" /\ lastBlock' = ethBlock /\ base' = Nil /\ ethBlock' = Nil
      /\ told' = [block |-> stats.block, vars |-> NewVars]
      /\ UNCHANGED <<chain, forks, hist, state, stats, scVars, resetStateFailed, blockNum, missed,
                     faults>>
  BY DEF TellBlock, NoFault, ethVars, dbVars, memVars
<1>2. /\ state = Batches(hist) /\ Fits(stats, hist) /\ scVars = VarsIn(hist)
      /\ ethBlock = LastOf(hist) /\ (~missed => NewVars = VarsIn(hist))
      /\ stats.block \in Block /\ NewVars \in Nat
  BY <1>1, AtMessage
<1>3. told' \in [block : Block, vars : Nat] /\ told'.vars = NewVars
  BY <1>1, <1>2
<1>4. TypeOK' /\ NoEarlyBatch'
  BY <1>1, <1>3, NilIsBlock, TypesNow, StepTypes DEF IInv, TypeOK, ethVars
<1>5. IsHistory(hist)' /\ InLoop'
  BY <1>1, <1>2 DEF IInv, InLoop
<1>6. StateFits' /\ StatsFit' /\ VarsFit'
  BY <1>1 DEF IInv, StateFits, StatsFit, VarsFit
<1>7. ToldFits'
  BY <1>1, <1>2, <1>3 DEF ToldFits
<1> QED
  BY <1>4, <1>5, <1>6, <1>7 DEF IInv

LEMMA TellReturns ==
  ASSUME IInv, TellBlockFails \/ TellReorg
  PROVE  IInv'
<1>1. /\ pc \in {"tell", "tellReorg"} /\ ReturnError /\ faults' \in Nat
      /\ UNCHANGED <<hist, state, stats, scVars, resetStateFailed>> /\ UNCHANGED ethVars
  BY FaultCounted DEF TellBlockFails, TellReorg, dbVars, memVars
<1>2. /\ ~resetStateFailed /\ state = Batches(hist) /\ Fits(stats, hist) /\ scVars = VarsIn(hist)
      /\ stats.block \in Block
  BY <1>1, AtMessage
<1>3. told' \in [block : Block, vars : Nat] /\ missed' \in BOOLEAN
      /\ (~missed' => told'.vars = VarsIn(hist))
  <2>1. CASE TellBlockFails
    <3>1. told' = [block |-> stats.block, vars |-> NewVars] /\ missed' = missed /\ pc = "tell"
      BY <2>1 DEF TellBlockFails
    <3>2. NewVars \in Nat /\ (~missed => NewVars = VarsIn(hist)) /\ missed \in BOOLEAN
      BY <3>1, AtMessage DEF IInv, TypeOK
    <3> QED
      BY <3>1, <3>2, <1>2
  <2>2. CASE TellReorg
    <3>1. told' = [block |-> stats.block, vars |-> scVars] /\ missed' = FALSE
      BY <2>2 DEF TellReorg
    <3> QED
      BY <3>1, <1>2, TypesNow
  <2> QED
    BY <2>1, <2>2
<1>4. state' \in Seq(Block) /\ Ahead(state', hist) /\ stats' \in Stats /\ scVars' \in Nat
      /\ resetStateFailed' \in BOOLEAN
  BY <1>1, TypesNow DEF IInv, TypeOK
<1> QED
  BY <1>1, <1>2, <1>3, <1>4, ReturnKeeps

-----------------------------------------------------------------------------
(* The theorems. *)

LEMMA InitHolds ==
  ASSUME Init
  PROVE  IInv
<1>1. /\ chain = Nil /\ hist = <<>> /\ state = <<>> /\ stats = ZeroStats /\ scVars = 0
      /\ resetStateFailed = FALSE /\ pc = "down" /\ lastBlock = Nil /\ base = Nil /\ ethBlock = Nil
      /\ blockNum = 0 /\ told = [block |-> Nil, vars |-> 0] /\ missed = FALSE
      /\ forks = 0 /\ faults = 0
  BY DEF Init
<1>2. TypeOK
  <2>1. chain \in Block /\ lastBlock \in Block /\ base \in Block /\ ethBlock \in Block
    BY <1>1, NilIsBlock
  <2>2. hist \in Seq(Block) /\ state \in Seq(Block)
    BY <1>1
  <2>3. stats \in Stats
    BY <1>1, ZeroStatsType
  <2>4. told \in [block : Block, vars : Nat]
    BY <1>1, NilIsBlock
  <2> QED
    BY <1>1, <2>1, <2>2, <2>3, <2>4 DEF TypeOK, Stats
<1>3. NoEarlyBatch
  BY <1>1 DEF NoEarlyBatch, Nil
<1>4. IsHistory(hist)
  BY <1>1 DEF IsHistory, Histories
<1>5. InLoop
  BY <1>1 DEF InLoop
<1>6. StateFits
  <2>1. Len(Batches(hist)) = 0
    <3>1. hist \in Seq(Block) /\ Len(hist) = 0
      BY <1>1
    <3> QED
      BY <3>1, BatchesType, BatchNumOfNone
  <2>2. Ahead(state, hist)
    BY <1>1, <2>1 DEF Ahead
  <2> QED
    BY <1>1, <2>2 DEF StateFits
<1>7. StatsFit /\ VarsFit /\ ToldFits
  <2>1. ToldFits
    BY <1>1 DEF ToldFits
  <2> QED
    BY <1>1, <2>1 DEF StatsFit, VarsFit
<1> QED
  BY <1>2, <1>3, <1>4, <1>5, <1>6, <1>7 DEF IInv

LEMMA NextKeeps ==
  ASSUME IInv, [Next]_vars
  PROVE  IInv'
<1>1. CASE Grow \/ Fork
  BY <1>1, GrowKeeps, ForkKeeps
<1>2. CASE Boot \/ BootFails \/ Start \/ Crash
  BY <1>2, BootKeeps, BootFailsKeeps, StartKeeps, CrashKeeps
<1>3. CASE Begin \/ BeginFails \/ Fetch \/ Eth
  BY <1>3, BeginKeeps, BeginFailsKeeps, FetchKeeps, EthKeeps
<1>4. CASE ReadFails \/ SearchFails \/ DiscardFails
  BY <1>4, ReadFailsKeeps
<1>5. CASE Events \/ EventsFail \/ Commit \/ Slots \/ SlotsFail
  BY <1>5, EventsKeeps, EventsFailKeeps, CommitKeeps, SlotsKeeps, SlotsFailKeeps
<1>6. CASE Search \/ Discard \/ ResetToValid \/ ResetToValidFails
  BY <1>6, SearchKeeps, DiscardKeeps, ResetToValidKeeps, ResetToValidFailsKeeps
<1>7. CASE TellBlock \/ TellBlockFails \/ TellReorg
  BY <1>7, TellBlockKeeps, TellReturns
<1>8. CASE UNCHANGED vars
  <2>1. UNCHANGED <<chain, forks, hist, state, stats, scVars, resetStateFailed, pc, lastBlock, base,
                    ethBlock, blockNum, told, missed, faults>>
    BY <1>8 DEF vars, ethVars, dbVars, memVars, syncVars, hearVars
  <2>2. TypeOK' /\ NoEarlyBatch'
    BY <2>1 DEF IInv, TypeOK, NoEarlyBatch
  <2>3. IsHistory(hist)' /\ InLoop'
    BY <2>1 DEF IInv, InLoop
  <2>4. StateFits' /\ StatsFit' /\ VarsFit' /\ ToldFits'
    BY <2>1 DEF IInv, StateFits, StatsFit, VarsFit, ToldFits
  <2> QED
    BY <2>2, <2>3, <2>4 DEF IInv
<1> QED
  BY <1>1, <1>2, <1>3, <1>4, <1>5, <1>6, <1>7, <1>8 DEF Next, Step, Failure

(* The invariant holds in every state of the Synchronizer, however the chain forks
   and whatever fails. *)
THEOREM SynchronizerInductive == Spec => []IInv
BY InitHolds, NextKeeps, PTL DEF Spec

(* The history database is the source of consistency, as Sync's comment says: its
   blocks are one chain, the loop goes on from the last one, and the state database
   has processed exactly their batches whenever Sync begins or the Coordinator is
   told, after any forks, errors and restarts in between. *)
THEOREM HistoryIsTheSource == Spec => []HistoryIsSource
<1>1. ASSUME IInv PROVE HistoryIsSource
  <2>1. IsHistory(hist) /\ LastSaved = LastOf(hist) /\ SavedBatches = Batches(hist)
    BY <1>1, Queries DEF IInv
  <2>2. Linked
    BY <1>1, <2>1 DEF IInv, InLoop, IsHistory, Linked
  <2>3. StateMatchesHistory
    BY <1>1, <2>1 DEF IInv, StateFits, StateMatchesHistory, AtRest
  <2> QED
    BY <2>2, <2>3 DEF HistoryIsSource
<1> QED
  BY <1>1, SynchronizerInductive, PTL

(* What the rest of the node goes by is what the saved blocks say: the statistics
   that are updated block by block are those that resetState reads, ForgerCommitment
   is true exactly when a batch of the slot came before the deadline, and the
   Coordinator has the variables of the contracts, for any length of slot and any
   deadline. *)
THEOREM WhatIsToldHolds == Spec => []ToldMatchesHistory
<1>1. ASSUME IInv PROVE ToldMatchesHistory
  <2>1. /\ LastSaved = LastOf(hist) /\ SavedBatches = Batches(hist)
        /\ SavedL1 = L1In(hist) /\ SavedVars = VarsIn(hist)
    BY Queries
  <2>2. AtRest => Fits(stats, hist) /\ scVars = VarsIn(hist)
    BY <1>1 DEF IInv, AtRest, StatsFit, VarsFit
  <2>3. StatsMatchHistory
    BY <2>1, <2>2 DEF Fits, StatsMatchHistory
  <2>4. CommitmentMatchesHistory
    BY <2>2 DEF Fits, CommittedIn, CommitmentMatchesHistory
  <2>5. VarsTold
    BY <1>1, <2>1 DEF IInv, ToldFits, VarsTold
  <2> QED
    BY <2>3, <2>4, <2>5 DEF ToldMatchesHistory
<1> QED
  BY <1>1, SynchronizerInductive, PTL
=============================================================================
