--------------------------- MODULE TxManagerProof ---------------------------
(***************************************************************************)
(* Proofs about the TxManager, for any number of batches, pipelines,       *)
(* blocks, forks and failures and any number of blocks to wait for.        *)
(*                                                                         *)
(* IInv is inductive.  It relates the nonces on the chain to their places  *)
(* (so that a fork gives back to the mempool exactly the nonces that the   *)
(* account loses), says that no nonce is ever skipped below one that is    *)
(* used or will be, and of every batch of the current pipeline who watches *)
(* it: an entry of the queue, or a block that is confirmed.                *)
(***************************************************************************)
EXTENDS TxManager, NumberFacts, SequenceTheorems

Roots      == Seq(0..MaxPipelines)
BatchRoots == Roots \ {<<>>}
OurTxs     == [root : BatchRoots, nonce : Nat]
Blocks     == [tx : OurTxs \cup {NoTx}, root : Roots, ok : BOOLEAN]
Batches    == [root : BatchRoots, pl : 1..MaxPipelines]
Receipts   == [block : Nat, ok : BOOLEAN]
Entries    == [root : BatchRoots, pl : 1..MaxPipelines, txs : Seq(OurTxs),
               auth : Nat, receipt : Receipts]

\* the blocks of a chain up to a height that hold a transaction of ours
Ours(c, i)  == {b \in DOMAIN c : b <= i /\ c[b].tx # NoTx}
Count(c, i) == Cardinality(Ours(c, i))

-----------------------------------------------------------------------------
(* Numbers. *)

\* Above any number there is one that a finite set has not, with no other below.
LEMMA FreeNumber ==
  ASSUME NEW D, IsFiniteSet(D), NEW a \in Nat
  PROVE  \E n \in a..a + Cardinality(D) : n \notin D /\ a..n - 1 \subseteq D
<1> DEFINE c == Cardinality(D)
           F == {n \in a..a + c : n \notin D}
<1>1. c \in Nat
  BY FS_CardinalityType
<1>2. F # {}
  <2> SUFFICES ASSUME F = {} PROVE FALSE
    OBVIOUS
  <2>1. a..a + c \subseteq D
    OBVIOUS
  <2>2. Cardinality(a..a + c) <= c
    BY <2>1, FS_Subset
  <2>3. Cardinality(a..a + c) = c + 1
    BY <1>1, FS_Interval
  <2> QED
    BY <1>1, <2>2, <2>3
<1>3. F \subseteq Nat
  BY <1>1
<1>4. PICK n \in F : \A m \in F : n <= m
  <2> HIDE DEF F
  <2> QED
    BY <1>2, <1>3, LeastElement
<1>5. ASSUME NEW m \in a..n - 1 PROVE m \in D
  <2>1. m \in a..a + c /\ ~(n <= m)
    BY <1>1
  <2> QED
    BY <2>1, <1>4
<1> QED
  BY <1>4, <1>5

-----------------------------------------------------------------------------
(* Counting our transactions on a chain. *)

LEMMA OursFinite ==
  ASSUME NEW c \in Seq(Blocks), NEW i
  PROVE  IsFiniteSet(Ours(c, i)) /\ Count(c, i) \in Nat
<1>1. IsFiniteSet(1..Len(c))
  BY FS_Interval
<1>2. Ours(c, i) \subseteq 1..Len(c)
  BY DEF Ours
<1>3. IsFiniteSet(Ours(c, i))
  BY <1>1, <1>2, FS_Subset
<1> QED
  BY <1>3, FS_CardinalityType DEF Count

LEMMA CountGrows ==
  ASSUME NEW c \in Seq(Blocks), NEW i \in Int, NEW j \in Int, i <= j
  PROVE  Count(c, i) <= Count(c, j)
<1>1. Ours(c, i) \subseteq Ours(c, j)
  BY DEF Ours
<1> QED
  BY <1>1, OursFinite, FS_Subset DEF Count

LEMMA SamePrefix ==
  ASSUME NEW c \in Seq(Blocks), NEW d \in Seq(Blocks), NEW i \in Int,
         i <= Len(c), i <= Len(d), \A b \in 1..i : c[b] = d[b]
  PROVE  Ours(c, i) = Ours(d, i) /\ Count(c, i) = Count(d, i)
<1>1. ASSUME NEW b \in Int PROVE b \in Ours(c, i) <=> b \in Ours(d, i)
  BY DEF Ours
<1>2. Ours(c, i) \subseteq Int /\ Ours(d, i) \subseteq Int
  BY DEF Ours
<1>3. Ours(c, i) = Ours(d, i)
  BY <1>1, <1>2
<1> QED
  BY <1>3 DEF Count

LEMMA CountStep ==
  ASSUME NEW c \in Seq(Blocks), NEW i \in 0..Len(c) - 1
  PROVE  /\ Ours(c, i + 1) = IF c[i + 1].tx = NoTx THEN Ours(c, i)
                                                   ELSE Ours(c, i) \cup {i + 1}
         /\ Count(c, i + 1) = IF c[i + 1].tx = NoTx THEN Count(c, i) ELSE Count(c, i) + 1
<1>1. Ours(c, i + 1) = IF c[i + 1].tx = NoTx THEN Ours(c, i) ELSE Ours(c, i) \cup {i + 1}
  BY DEF Ours
<1>2. i + 1 \notin Ours(c, i)
  BY DEF Ours
<1> QED
  BY <1>1, <1>2, OursFinite, FS_AddElement DEF Count

LEMMA CountIsAll ==
  ASSUME NEW c \in Seq(Blocks)
  PROVE  Cardinality({b \in DOMAIN c : c[b].tx # NoTx}) = Count(c, Len(c))
<1>1. {b \in DOMAIN c : c[b].tx # NoTx} = Ours(c, Len(c))
  BY DEF Ours
<1> QED
  BY <1>1 DEF Count

LEMMA AccNonceIsCount ==
  ASSUME chain \in Seq(Blocks)
  PROVE  AccNonce = Count(chain, Len(chain)) /\ AccNonce \in Nat
BY CountIsAll, OursFinite DEF AccNonce

LEMMA AccNonceIsCountNext ==
  ASSUME chain' \in Seq(Blocks)
  PROVE  AccNonce' = Count(chain', Len(chain'))
BY CountIsAll DEF AccNonce

Nonces(c, i) == {c[b].tx.nonce : b \in Ours(c, i)}

\* the nonces on a chain are 0, 1, 2, ... in this order
NoncesInOrder(c) ==
  /\ \A b \in Ours(c, Len(c)) : c[b].tx.nonce = Count(c, b - 1)
  /\ \A i \in 0..Len(c) : Nonces(c, i) = 0..Count(c, i) - 1

LEMMA SameNonces ==
  ASSUME NEW c \in Seq(Blocks), NEW d \in Seq(Blocks), NEW i \in Int,
         i <= Len(c), i <= Len(d), \A b \in 1..i : c[b] = d[b]
  PROVE  Nonces(c, i) = Nonces(d, i)
<1>1. Ours(c, i) = Ours(d, i)
  BY SamePrefix
<1>2. \A b \in Ours(c, i) : c[b].tx.nonce = d[b].tx.nonce
  BY DEF Ours
<1> QED
  BY <1>1, <1>2 DEF Nonces

LEMMA BlockAppended ==
  ASSUME NEW c \in Seq(Blocks), NEW block \in Blocks, NoncesInOrder(c),
         block.tx = NoTx \/ block.tx.nonce = Count(c, Len(c)),
         NEW d, d = Append(c, block)
  PROVE  /\ d \in Seq(Blocks) /\ NoncesInOrder(d)
         /\ Count(d, Len(d)) = IF block.tx = NoTx THEN Count(c, Len(c)) ELSE Count(c, Len(c)) + 1
         /\ Ours(d, Len(d)) = IF block.tx = NoTx THEN Ours(c, Len(c))
                                                 ELSE Ours(c, Len(c)) \cup {Len(d)}
<1> DEFINE n == Len(c)
<1>1. d \in Seq(Blocks) /\ Len(d) = n + 1 /\ d[n + 1] = block /\ n \in Nat
      /\ \A b \in 1..n : d[b] = c[b]
  OBVIOUS
<1>2. ASSUME NEW i \in 0..n
      PROVE  Ours(d, i) = Ours(c, i) /\ Count(d, i) = Count(c, i) /\ Nonces(d, i) = Nonces(c, i)
  <2>1. i \in Int /\ i <= Len(c) /\ i <= Len(d) /\ \A b \in 1..i : d[b] = c[b]
    BY <1>1
  <2> QED
    BY <1>1, <2>1, SamePrefix, SameNonces
<1>3. /\ Ours(d, n + 1) = IF block.tx = NoTx THEN Ours(c, n) ELSE Ours(c, n) \cup {n + 1}
      /\ Count(d, n + 1) = IF block.tx = NoTx THEN Count(c, n) ELSE Count(c, n) + 1
  <2>1. n \in 0..Len(d) - 1 /\ n \in 0..n
    BY <1>1
  <2> QED
    BY <1>1, <1>2, <2>1, CountStep
<1>4. \A i \in Int : Ours(c, i) \subseteq 1..n
  BY DEF Ours
<1>5. ASSUME NEW b \in Ours(d, Len(d)) PROVE d[b].tx.nonce = Count(d, b - 1)
  <2>1. CASE b = n + 1 /\ block.tx # NoTx
    BY <2>1, <1>1, <1>2
  <2>2. CASE b \in Ours(c, n)
    <3>1. b \in 1..n /\ b - 1 \in 0..n
      BY <2>2, <1>4, <1>1
    <3> QED
      BY <2>2, <3>1, <1>1, <1>2 DEF NoncesInOrder
  <2> QED
    BY <2>1, <2>2, <1>1, <1>3
<1>6. ASSUME NEW i \in 0..n PROVE Nonces(d, i) = 0..Count(d, i) - 1
  BY <1>2 DEF NoncesInOrder
<1>7. Nonces(d, n + 1) = 0..Count(d, n + 1) - 1
  <2>0. n \in 0..n
    BY <1>1
  <2>1. CASE block.tx = NoTx
    <3>1. Ours(d, n + 1) = Ours(d, n) /\ Count(d, n + 1) = Count(d, n)
      BY <2>0, <2>1, <1>2, <1>3
    <3> QED
      BY <2>0, <3>1, <1>6 DEF Nonces
  <2>2. CASE block.tx # NoTx
    <3>1. Ours(d, n + 1) = Ours(d, n) \cup {n + 1}
      BY <2>0, <2>2, <1>2, <1>3
    <3>2. Nonces(d, n + 1) = Nonces(d, n) \cup {Count(c, n)}
      <4>1. d[n + 1].tx.nonce = Count(c, n)
        BY <2>2, <1>1
      <4> QED
        BY <3>1, <4>1, Zenon DEF Nonces
    <3>3. Nonces(d, n) = 0..Count(c, n) - 1
      BY <2>0, <1>2, <1>6
    <3>4. Count(c, n) \in Nat /\ Count(d, n + 1) = Count(c, n) + 1
      BY <2>2, <1>3, OursFinite
    <3>5. 0..(Count(c, n) + 1) - 1 = (0..Count(c, n) - 1) \cup {Count(c, n)}
      BY <3>4
    <3> QED
      BY <3>2, <3>3, <3>4, <3>5
  <2> QED
    BY <2>1, <2>2
<1>8. \A i \in 0..Len(d) : i \in 0..n \/ i = n + 1
  BY <1>1
<1> QED
  BY <1>1, <1>3, <1>5, <1>6, <1>7, <1>8 DEF NoncesInOrder

\* the chain whose blocks above height k are replaced, with one more
Forked(c, k, root) ==
  SubSeq(c, 1, k) \o [i \in 1..Len(c) + 1 - k |-> [tx |-> NoTx, root |-> root, ok |-> TRUE]]

LEMMA ChainForked ==
  ASSUME NEW c \in Seq(Blocks), NoncesInOrder(c), NEW k \in 0..Len(c) - 1, NEW root \in Roots,
         NEW d, d = Forked(c, k, root)
  PROVE  /\ d \in Seq(Blocks) /\ NoncesInOrder(d) /\ Len(d) = Len(c) + 1
         /\ \A b \in 1..k : d[b] = c[b]
         /\ \A b \in k + 1..Len(d) : d[b].tx = NoTx
         /\ Ours(d, Len(d)) = Ours(c, k) /\ Count(d, Len(d)) = Count(c, k)
<1> DEFINE e == [i \in 1..Len(c) + 1 - k |-> [tx |-> NoTx, root |-> root, ok |-> TRUE]]
           p == SubSeq(c, 1, k)
<1>1. [tx |-> NoTx, root |-> root, ok |-> TRUE] \in Blocks
  BY DEF Blocks
<1>2. e \in Seq(Blocks) /\ Len(e) = Len(c) + 1 - k /\ Len(c) \in Nat
      /\ \A i \in 1..Len(c) + 1 - k : e[i].tx = NoTx
  BY <1>1, IsASeq
<1>3. p \in Seq(Blocks) /\ Len(p) = k /\ \A b \in 1..k : p[b] = c[b]
  OBVIOUS
<1>4. d = p \o e
  BY DEF Forked
<1> HIDE DEF e, p
<1>5. /\ d \in Seq(Blocks) /\ Len(d) = Len(c) + 1
      /\ \A b \in 1..k : d[b] = c[b]
      /\ \A b \in k + 1..Len(d) : d[b].tx = NoTx
  <2>1. d \in Seq(Blocks) /\ Len(d) = Len(p) + Len(e)
        /\ \A i \in 1..Len(p) + Len(e) : d[i] = IF i <= Len(p) THEN p[i] ELSE e[i - Len(p)]
    <3>1. p \o e \in Seq(Blocks) /\ Len(p \o e) = Len(p) + Len(e)
          /\ \A i \in 1..Len(p) + Len(e) : (p \o e)[i] = IF i <= Len(p) THEN p[i] ELSE e[i - Len(p)]
      BY <1>2, <1>3, ConcatProperties
    <3> QED
      BY <3>1, <1>4
  <2>2. Len(d) = Len(c) + 1
    BY <1>2, <1>3, <2>1
  <2>3. \A b \in 1..k : d[b] = c[b]
    BY <1>2, <1>3, <2>1
  <2>4. ASSUME NEW b \in k + 1..Len(d) PROVE d[b].tx = NoTx
    <3>1. b \in 1..Len(p) + Len(e) /\ ~(b <= Len(p)) /\ b - Len(p) \in 1..Len(c) + 1 - k
      BY <1>2, <1>3, <2>2
    <3> QED
      BY <1>2, <2>1, <3>1
  <2> QED
    BY <2>1, <2>2, <2>3, <2>4
<1>6. ASSUME NEW i \in 0..k
      PROVE  Ours(d, i) = Ours(c, i) /\ Count(d, i) = Count(c, i) /\ Nonces(d, i) = Nonces(c, i)
  <2>1. i \in Int /\ i <= Len(c) /\ i <= Len(d) /\ \A b \in 1..i : d[b] = c[b]
    BY <1>2, <1>5
  <2> QED
    BY <1>5, <2>1, SamePrefix, SameNonces
<1>7. \A i \in k..Len(d) : Ours(d, i) = Ours(d, k) /\ Count(d, i) = Count(d, k)
  <2>1. ASSUME NEW i \in k..Len(d) PROVE Ours(d, i) = Ours(d, k)
    <3>1. \A b \in DOMAIN d : b <= i /\ d[b].tx # NoTx <=> b <= k /\ d[b].tx # NoTx
      BY <1>5, <1>2
    <3> QED
      BY <3>1 DEF Ours
  <2> QED
    BY <2>1 DEF Count
<1>8. \A b \in Ours(d, Len(d)) : b \in Ours(c, k) /\ b \in 1..k
  BY <1>5, <1>6, <1>7, <1>2 DEF Ours
<1>9. \A b \in Ours(d, Len(d)) : d[b].tx.nonce = Count(d, b - 1)
  <2> SUFFICES ASSUME NEW b \in Ours(d, Len(d)) PROVE d[b].tx.nonce = Count(d, b - 1)
    OBVIOUS
  <2>1. b \in Ours(c, Len(c)) /\ b \in 1..k
    BY <1>8 DEF Ours
  <2>2. c[b].tx.nonce = Count(c, b - 1)
    BY <2>1 DEF NoncesInOrder
  <2>3. b - 1 \in 0..k
    BY <2>1
  <2> QED
    BY <2>1, <2>2, <2>3, <1>5, <1>6
<1>10. ASSUME NEW i \in 0..k PROVE Nonces(d, i) = 0..Count(d, i) - 1
  <2>1. i \in 0..Len(c)
    OBVIOUS
  <2> QED
    BY <2>1, <1>6 DEF NoncesInOrder
<1>11. ASSUME NEW i \in 0..Len(d) PROVE Nonces(d, i) = 0..Count(d, i) - 1
  <2>1. CASE i \in 0..k
    BY <2>1, <1>10
  <2>2. CASE i \in k..Len(d)
    <3>1. k \in 0..k /\ \A b \in Ours(d, i) : b <= k
      BY <2>2, <1>5, <1>7 DEF Ours
    <3>2. Ours(d, i) = Ours(d, k) /\ Count(d, i) = Count(d, k)
      BY <2>2, <1>7
    <3> QED
      BY <3>1, <3>2, <1>10 DEF Nonces
  <2> QED
    BY <2>1, <2>2
<1>12. k \in 0..k /\ Len(d) \in k..Len(d)
  BY <1>2, <1>5
<1> QED
  BY <1>2, <1>5, <1>6, <1>7, <1>9, <1>11, <1>12 DEF NoncesInOrder

-----------------------------------------------------------------------------
(* The invariant. *)

Typed ==
  /\ chain \in Seq(Blocks) /\ seen \in 0..Len(chain)
  /\ IsFiniteSet(DOMAIN mempool) /\ DOMAIN mempool \subseteq Nat
  /\ mempool \in [DOMAIN mempool -> OurTxs]
  /\ dropped \subseteq Nat
  /\ pl \in 0..MaxPipelines /\ running \in BOOLEAN /\ last \in Roots /\ stops \in Nat
  /\ batchCh \in Seq(Batches) /\ discardCh \in Seq(0..MaxPipelines)
  /\ minPl \in 0..MaxPipelines + 1 /\ queue \in Seq(Entries) /\ nextNonce \in Nat
  /\ pc \in {"loop", "resend", "scan"} /\ pos \in Nat \ {0}
  /\ scanned \in BOOLEAN /\ silent \in BOOLEAN

MempoolAhead == \A n \in DOMAIN mempool : mempool[n].nonce = n /\ n >= AccNonce

\* a nonce that is used up, or waits, or waited until the mempool forgot it
Covered(n) == n < AccNonce \/ n \in DOMAIN mempool \cup dropped
Reached(n) == \A m \in 0..n - 1 : Covered(m)

NothingSkipped ==
  /\ \A n \in DOMAIN mempool : Reached(n)
  /\ Reached(nextNonce)
  /\ \A i \in DOMAIN queue : Reached(queue[i].auth)

EntryAgrees(e) ==
  /\ e.pl = Last(e.root) /\ e.txs # <<>>
  /\ \A j \in DOMAIN e.txs : e.txs[j].root = e.root

Positions ==
  /\ IF queue = <<>> THEN next = 1 ELSE next \in DOMAIN queue
  /\ pc = "resend" => pos \in DOMAIN queue
  /\ scanned => pc = "scan"

Alive == {mempool[n] : n \in DOMAIN mempool} \cup {chain[b].tx : b \in Ours(chain, Len(chain))}

\* the pipelines of everything around have been started, and those to be discarded
\* are over
Numbers ==
  /\ running => pl >= 1
  /\ minPl <= pl + 1
  /\ \A i \in DOMAIN discardCh : discardCh[i] <= pl /\ (running => discardCh[i] < pl)
  /\ \A i \in DOMAIN batchCh : batchCh[i].pl = Last(batchCh[i].root) /\ batchCh[i].pl <= pl
  /\ \A i \in DOMAIN queue : EntryAgrees(queue[i]) /\ queue[i].pl <= pl
  /\ \A tx \in Alive : Last(tx.root) <= pl

Confirmed(root) ==
  \E b \in DOMAIN chain :
    chain[b].tx.root = root /\ chain[b].ok /\ seen - b >= ConfirmBlocks

InQueue(tx) == \E i \in DOMAIN queue : \E j \in DOMAIN queue[i].txs : queue[i].txs[j] = tx

\* nothing has happened of which the Coordinator is told, or should have been
Quiet == running /\ ~silent /\ stops = 0 /\ ~scanned

Watched ==
  Quiet => /\ minPl <= pl
           /\ \A tx \in Alive : Last(tx.root) = pl => Confirmed(tx.root) \/ InQueue(tx)

IInv == Typed /\ NoncesInOrder(chain) /\ MempoolAhead /\ NothingSkipped /\ Positions
        /\ Numbers /\ Watched

-----------------------------------------------------------------------------
(* The nonces that the node accepts. *)

LEMMA FirstFreeType ==
  ASSUME Typed
  PROVE  FirstFree \in Nat /\ FirstFree >= AccNonce
<1>1. \E n \in AccNonce..AccNonce + Cardinality(DOMAIN mempool) :
        n \notin DOMAIN mempool /\ AccNonce..n - 1 \subseteq DOMAIN mempool
  BY AccNonceIsCount, FreeNumber DEF Typed
<1>2. FirstFree \in AccNonce..AccNonce + Cardinality(DOMAIN mempool)
  BY <1>1, Zenon DEF FirstFree
<1> QED
  BY <1>2, AccNonceIsCount DEF Typed

LEMMA AcceptedIsReached ==
  ASSUME Typed, NEW k \in Nat, Reached(k), NEW n \in Accepted(k)
  PROVE  n \in Nat /\ n >= AccNonce /\ Reached(n)
<1>1. AccNonce \in Nat
  BY AccNonceIsCount DEF Typed
<1>2. CASE n = Max({k, AccNonce})
  <2>1. n \in {k, AccNonce} /\ n >= AccNonce
    BY <1>1, <1>2, MaxOfTwo
  <2> QED
    BY <1>1, <2>1 DEF Reached, Covered
<1>3. CASE n = FirstFree /\ k > FirstFree
  BY <1>1, <1>3, FirstFreeType DEF Reached
<1> QED
  BY <1>2, <1>3 DEF Accepted

(* A transaction more in the mempool, at a nonce that the node accepts. *)
LEMMA Submitted ==
  ASSUME IInv, NEW k \in Nat, Reached(k), NEW n \in Accepted(k),
         NEW b, b.root \in BatchRoots, Submit(b, n)
  PROVE  /\ n \in Nat /\ Reached(n)' /\ Tx(b, n) \in OurTxs
         /\ IsFiniteSet(DOMAIN mempool') /\ DOMAIN mempool' \subseteq Nat
         /\ mempool' \in [DOMAIN mempool' -> OurTxs]
         /\ MempoolAhead'
         /\ \A m \in Nat : Covered(m) => Covered(m)'
         /\ \A m \in DOMAIN mempool' : m \in DOMAIN mempool \/ m = n
         /\ Alive' \subseteq Alive \cup {Tx(b, n)}
<1>1. n \in Nat /\ n >= AccNonce /\ Reached(n)
  BY AcceptedIsReached DEF IInv
<1>2. Tx(b, n) \in OurTxs /\ Tx(b, n).nonce = n
  BY <1>1 DEF Tx, OurTxs
<1>3. DOMAIN mempool' = DOMAIN mempool \cup {n} /\ mempool'[n] = Tx(b, n)
      /\ \A m \in DOMAIN mempool \ {n} : mempool'[m] = mempool[m]
  BY DEF Submit
<1>4. mempool' = [m \in DOMAIN mempool' |-> mempool'[m]]
  BY DEF Submit
<1>5. chain' = chain /\ dropped' = dropped /\ AccNonce' = AccNonce
  BY DEF Submit, AccNonce
<1>6. IsFiniteSet(DOMAIN mempool') /\ DOMAIN mempool' \subseteq Nat
  <2>1. IsFiniteSet(DOMAIN mempool \cup {n})
    BY FS_AddElement DEF IInv, Typed
  <2> QED
    BY <1>1, <1>3, <2>1 DEF IInv, Typed
<1>7. \A m \in DOMAIN mempool' : mempool'[m] \in OurTxs
  BY <1>2, <1>3 DEF IInv, Typed
<1>8. mempool' \in [DOMAIN mempool' -> OurTxs]
  BY <1>4, <1>7
<1>9. MempoolAhead'
  BY <1>1, <1>2, <1>3, <1>5 DEF IInv, MempoolAhead
<1>10. \A m \in Nat : Covered(m) => Covered(m)'
  BY <1>3, <1>5 DEF Covered
<1>11. Reached(n)'
  BY <1>1, <1>10 DEF Reached
<1>12. Alive' \subseteq Alive \cup {Tx(b, n)}
  BY <1>3, <1>5 DEF Alive
<1> QED
  BY <1>1, <1>2, <1>3, <1>6, <1>8, <1>9, <1>10, <1>11, <1>12

-----------------------------------------------------------------------------
(* Types of what stands on the chain and in the mempool. *)

LEMMA RootAtType ==
  ASSUME NEW c \in Seq(Blocks)
  PROVE  RootAt(c) \in Roots
<1>1. CASE c = <<>>
  BY <1>1 DEF RootAt, Roots
<1>2. CASE c # <<>>
  <2>1. c[Len(c)] \in Blocks
    BY <1>2
  <2>2. RootAt(c) = c[Len(c)].root
    BY <1>2 DEF RootAt, Last
  <2> QED
    BY <2>1, <2>2 DEF Blocks
<1> QED
  BY <1>1, <1>2

LEMMA AliveType ==
  ASSUME Typed
  PROVE  Alive \subseteq OurTxs
<1>1. \A n \in DOMAIN mempool : mempool[n] \in OurTxs
  BY DEF Typed
<1>2. ASSUME NEW b \in Ours(chain, Len(chain)) PROVE chain[b].tx \in OurTxs
  <2>1. chain[b] \in Blocks /\ chain[b].tx # NoTx
    BY DEF Typed, Ours
  <2> QED
    BY <2>1 DEF Blocks
<1> QED
  BY <1>1, <1>2 DEF Alive

LEMMA SeqElement ==
  ASSUME NEW S, NEW s \in Seq(S), NEW i \in DOMAIN s
  PROVE  s[i] \in S
OBVIOUS

LEMMA LastOfBatch ==
  ASSUME NEW root \in BatchRoots
  PROVE  Last(root) \in 0..MaxPipelines /\ Last(root) \in Nat
<1>1. root \in Seq(0..MaxPipelines) /\ root # <<>>
  BY DEF BatchRoots, Roots
<1>2. Len(root) \in DOMAIN root
  <2> DEFINE S == 0..MaxPipelines
  <2>1. root \in Seq(S) /\ root # <<>>
    BY <1>1
  <2> HIDE DEF S
  <2> QED
    BY <2>1
<1>3. root[Len(root)] \in 0..MaxPipelines
  BY <1>1, <1>2, SeqElement
<1> QED
  BY <1>3, TxManagerAssumption DEF Last

LEMMA AliveLast ==
  ASSUME Typed, Numbers, NEW tx \in Alive
  PROVE  tx.root \in BatchRoots /\ Last(tx.root) \in Nat /\ Last(tx.root) <= pl
<1>1. tx.root \in BatchRoots
  BY AliveType DEF OurTxs
<1> QED
  BY <1>1, LastOfBatch DEF Numbers

LEMMA NumbersType ==
  ASSUME Typed
  PROVE  /\ pl \in Nat /\ minPl \in Nat /\ seen \in Nat /\ Len(chain) \in Nat
         /\ ConfirmBlocks \in Nat /\ AccNonce \in Nat /\ stops \in Nat
<1>1. AccNonce \in Nat
  BY AccNonceIsCount DEF Typed
<1>2. Len(chain) \in Nat
  BY DEF Typed
<1> QED
  BY <1>1, <1>2, TxManagerAssumption DEF Typed

LEMMA EntryType ==
  ASSUME Typed, NEW i \in DOMAIN queue
  PROVE  /\ queue[i] \in Entries /\ queue[i].root \in BatchRoots
         /\ queue[i].pl \in 1..MaxPipelines /\ queue[i].pl \in Nat
         /\ queue[i].txs \in Seq(OurTxs)
         /\ queue[i].auth \in Nat /\ queue[i].receipt \in Receipts
<1>1. queue[i] \in Entries
  BY DEF Typed
<1> QED
  BY <1>1, TxManagerAssumption DEF Entries

LEMMA ChannelTypes ==
  ASSUME Typed
  PROVE  /\ \A i \in DOMAIN discardCh : discardCh[i] \in 0..MaxPipelines /\ discardCh[i] \in Nat
         /\ \A i \in DOMAIN batchCh : batchCh[i] \in Batches /\ batchCh[i].pl \in Nat
<1>1. \A i \in DOMAIN discardCh : discardCh[i] \in 0..MaxPipelines
  BY SeqElement DEF Typed
<1>2. \A i \in DOMAIN batchCh : batchCh[i] \in Batches
  BY DEF Typed
<1>3. \A b \in Batches : b.pl \in Nat
  BY TxManagerAssumption DEF Batches
<1> QED
  BY <1>1, <1>2, <1>3, TxManagerAssumption

-----------------------------------------------------------------------------
(* The steps of the chain and the mempool leave the TxManager alone. *)

LEMMA EnvironmentStep ==
  ASSUME IInv,
         UNCHANGED <<seen, pl, running, last, delivered, stops, chVars, minPl, queue, next,
                     nextNonce, pc, pos, why, scanned>>,
         chain' \in Seq(Blocks), NoncesInOrder(chain'), Len(chain) <= Len(chain'),
         IsFiniteSet(DOMAIN mempool'), DOMAIN mempool' \subseteq Nat,
         mempool' \in [DOMAIN mempool' -> OurTxs], MempoolAhead',
         dropped' \subseteq Nat, silent' \in BOOLEAN, silent => silent',
         \A m \in Nat : Covered(m) => Covered(m)',
         \A n \in DOMAIN mempool' : Reached(n) \/ Reached(n)',
         Alive' \subseteq Alive,
         \A root \in BatchRoots : Confirmed(root) => Confirmed(root)' \/ silent'
  PROVE  IInv'
<1>1. Typed'
  BY DEF IInv, Typed, chVars
<1>2. \A n : Reached(n) => Reached(n)'
  BY DEF Reached
<1>3. NothingSkipped'
  BY <1>2 DEF IInv, NothingSkipped
<1>4. Positions'
  BY DEF IInv, Positions
<1>5. Numbers'
  BY DEF IInv, Numbers, chVars
<1>6. \A tx \in Alive : tx.root \in BatchRoots
  BY AliveType DEF IInv, OurTxs
<1>7. Watched'
  <2> SUFFICES ASSUME Quiet'
               PROVE  /\ minPl' <= pl'
                      /\ \A tx \in Alive' :
                           Last(tx.root) = pl' => Confirmed(tx.root)' \/ InQueue(tx)'
    BY DEF Watched
  <2>1. Quiet /\ ~silent'
    BY DEF Quiet, IInv, Typed
  <2>2. \A tx : InQueue(tx) => InQueue(tx)'
    BY DEF InQueue
  <2> QED
    BY <2>1, <2>2, <1>6 DEF IInv, Watched
<1> QED
  BY <1>1, <1>3, <1>4, <1>5, <1>7 DEF IInv

LEMMA MineKeeps ==
  ASSUME IInv, Mine
  PROVE  IInv'
<1> DEFINE a == AccNonce
           tx == mempool[a]
           ok == Front(tx.root) = RootAt(chain)
           root == IF ok THEN tx.root ELSE RootAt(chain)
           block == [tx |-> tx, root |-> root, ok |-> ok]
<1>1. a \in DOMAIN mempool /\ a \in Nat /\ tx \in OurTxs /\ tx.nonce = a
      /\ a = Count(chain, Len(chain))
  BY AccNonceIsCount DEF Mine, IInv, Typed, MempoolAhead
<1>2. RootAt(chain) \in Roots
  BY RootAtType DEF IInv, Typed
<1>3. block \in Blocks /\ tx # NoTx
  BY <1>1, <1>2 DEF Blocks, OurTxs, BatchRoots, NoTx
<1>4. chain' = Append(chain, block)
  BY DEF Mine, AddBlock
<1>5. mempool' = [m \in DOMAIN mempool \ {a} |-> mempool[m]]
  BY DEF Mine, Restrict
<1>6. UNCHANGED <<dropped, seen, pl, running, last, reorgCh, delivered, stops, chVars, minPl,
                  queue, next, nextNonce, pc, pos, why, scanned, silent>>
  BY DEF Mine, AddBlock, coVars, tmVars, scanVars
<1> HIDE DEF block, root, ok, tx, a
<1>7. /\ chain' \in Seq(Blocks) /\ NoncesInOrder(chain')
      /\ Count(chain', Len(chain')) = a + 1
      /\ Ours(chain', Len(chain')) = Ours(chain, Len(chain)) \cup {Len(chain')}
  <2>1. block.tx = tx
    BY DEF block
  <2> QED
    BY <1>1, <1>3, <1>4, <2>1, BlockAppended DEF IInv, Typed
<1>8. AccNonce' = a + 1
  BY <1>7, AccNonceIsCountNext
<1>9. /\ DOMAIN mempool' = DOMAIN mempool \ {a}
      /\ \A n \in DOMAIN mempool' : mempool'[n] = mempool[n]
  BY <1>5
<1>10. IsFiniteSet(DOMAIN mempool') /\ mempool' \in [DOMAIN mempool' -> OurTxs]
  BY <1>5, <1>9, FS_RemoveElement DEF IInv, Typed
<1>11. MempoolAhead'
  <2> SUFFICES ASSUME NEW n \in DOMAIN mempool'
               PROVE  mempool'[n].nonce = n /\ n >= AccNonce'
    BY DEF MempoolAhead
  <2>1. n \in Nat /\ n # a /\ n >= a /\ mempool'[n].nonce = n
    BY <1>9 DEF IInv, Typed, MempoolAhead, a
  <2> QED
    BY <2>1, <1>1, <1>8
<1>12. \A m \in Nat : Covered(m) => Covered(m)'
  <2>1. AccNonce = a
    BY DEF a
  <2> QED
    BY <2>1, <1>1, <1>6, <1>8, <1>9 DEF Covered
<1>13. Alive' \subseteq Alive
  <2>1. \A n \in DOMAIN mempool' : mempool'[n] \in Alive
    BY <1>9 DEF Alive
  <2>2. ASSUME NEW b \in Ours(chain, Len(chain))
        PROVE  chain'[b].tx \in Alive
    <3>1. b \in DOMAIN chain /\ chain[b].tx \in Alive
      BY DEF Alive, Ours
    <3>2. chain'[b] = chain[b]
      BY <3>1, <1>3, <1>4 DEF IInv, Typed
    <3> QED
      BY <3>1, <3>2
  <2>3. chain'[Len(chain')].tx = tx
    BY <1>4, <1>3 DEF IInv, Typed, block
  <2>4. tx \in Alive
    BY <1>1 DEF Alive, tx
  <2> QED
    BY <2>1, <2>2, <2>3, <2>4, <1>7 DEF Alive
<1>14. \A r \in BatchRoots : Confirmed(r) => Confirmed(r)'
  <2>1. \A b \in DOMAIN chain : b \in DOMAIN chain' /\ chain'[b] = chain[b]
    BY <1>3, <1>4 DEF IInv, Typed
  <2> QED
    BY <2>1, <1>6 DEF Confirmed
<1>15. \A n \in DOMAIN mempool' : Reached(n)
  BY <1>9 DEF IInv, NothingSkipped
<1>16. Len(chain) <= Len(chain') /\ dropped' \subseteq Nat /\ silent' \in BOOLEAN /\ (silent => silent')
       /\ DOMAIN mempool' \subseteq Nat
  BY <1>3, <1>4, <1>6, <1>9 DEF IInv, Typed
<1> QED
  BY <1>6, <1>7, <1>10, <1>11, <1>12, <1>13, <1>14, <1>15, <1>16, EnvironmentStep

\* a block without a transaction of ours
LEMMA OtherBlockKeeps ==
  ASSUME IInv, NEW root \in Roots, AddBlock(NoTx, root, TRUE), UNCHANGED mempool
  PROVE  IInv'
<1> DEFINE block == [tx |-> NoTx, root |-> root, ok |-> TRUE]
<1>1. block \in Blocks /\ block.tx = NoTx
  BY DEF Blocks
<1>2. chain' = Append(chain, block)
  BY DEF AddBlock
<1> HIDE DEF block
<1>3. UNCHANGED <<dropped, seen, pl, running, last, reorgCh, delivered, stops, chVars, minPl,
                  queue, next, nextNonce, pc, pos, why, scanned, silent>>
  BY DEF AddBlock, coVars, tmVars, scanVars
<1>4. /\ chain' \in Seq(Blocks) /\ NoncesInOrder(chain')
      /\ Count(chain', Len(chain')) = Count(chain, Len(chain))
      /\ Ours(chain', Len(chain')) = Ours(chain, Len(chain))
  BY <1>1, <1>2, BlockAppended DEF IInv, Typed
<1>5. AccNonce' = AccNonce
  BY <1>4, AccNonceIsCount, AccNonceIsCountNext DEF IInv, Typed
<1>6. \A b \in DOMAIN chain : b \in DOMAIN chain' /\ chain'[b] = chain[b]
  BY <1>1, <1>2 DEF IInv, Typed
<1>7. MempoolAhead' /\ \A m \in Nat : Covered(m) => Covered(m)'
  BY <1>3, <1>5 DEF IInv, MempoolAhead, Covered
<1>8. Alive' \subseteq Alive
  BY <1>4, <1>6 DEF Alive, Ours
<1>9. \A r \in BatchRoots : Confirmed(r) => Confirmed(r)'
  BY <1>3, <1>6 DEF Confirmed
<1>10. Len(chain) <= Len(chain')
  BY <1>1, <1>2 DEF IInv, Typed
<1>11. \A n \in DOMAIN mempool' : Reached(n)
  BY DEF IInv, NothingSkipped
<1>12. Typed
  BY DEF IInv
<1> QED
  BY <1>3, <1>4, <1>7, <1>8, <1>9, <1>10, <1>11, <1>12, EnvironmentStep DEF Typed

LEMMA DropKeeps ==
  ASSUME IInv, Drop
  PROVE  IInv'
<1>1. PICK a \in DOMAIN mempool :
        /\ mempool' = [m \in DOMAIN mempool \ {a} |-> mempool[m]]
        /\ dropped' = dropped \cup {a}
  BY DEF Drop, Restrict
<1>2. UNCHANGED <<chain, seen, pl, running, last, reorgCh, delivered, stops, chVars, minPl,
                  queue, next, nextNonce, pc, pos, why, scanned, silent>>
  BY DEF Drop, coVars, tmVars, scanVars
<1>3. AccNonce' = AccNonce
  BY <1>2 DEF AccNonce
<1>4. DOMAIN mempool' = DOMAIN mempool \ {a} /\ \A n \in DOMAIN mempool' : mempool'[n] = mempool[n]
  BY <1>1
<1>5. IsFiniteSet(DOMAIN mempool') /\ mempool' \in [DOMAIN mempool' -> OurTxs]
      /\ DOMAIN mempool' \subseteq Nat /\ dropped' \subseteq Nat
  BY <1>1, <1>4, FS_RemoveElement DEF IInv, Typed
<1>6. MempoolAhead'
  BY <1>3, <1>4 DEF IInv, MempoolAhead
<1>7. \A m \in Nat : Covered(m) => Covered(m)'
  BY <1>1, <1>3, <1>4 DEF Covered
<1>8. Alive' \subseteq Alive
  BY <1>2, <1>4 DEF Alive
<1>9. \A r \in BatchRoots : Confirmed(r) => Confirmed(r)'
  BY <1>2 DEF Confirmed
<1>10. \A n \in DOMAIN mempool' : Reached(n)
  BY <1>4 DEF IInv, NothingSkipped
<1>11. chain' \in Seq(Blocks) /\ NoncesInOrder(chain') /\ Len(chain) <= Len(chain')
       /\ silent' \in BOOLEAN /\ (silent => silent')
  BY <1>2 DEF IInv, Typed
<1> QED
  BY <1>2, <1>5, <1>6, <1>7, <1>8, <1>9, <1>10, <1>11, EnvironmentStep

(* A fork gives back to the mempool the nonces that the account loses, all of
   them and no other. *)
LEMMA ReorgKeeps ==
  ASSUME IInv, Reorg
  PROVE  IInv'
<1> DEFINE a == AccNonce
           back(k)   == {b \in k+1..Len(chain) : chain[b].tx # NoTx}
           nonces(k) == {chain[b].tx.nonce : b \in back(k)}
           kept(k)   == SubSeq(chain, 1, k)
           empty(k)  == [tx |-> NoTx, root |-> RootAt(kept(k)), ok |-> TRUE]
<1>1. PICK k \in 0..Len(chain) - 1 :
        /\ chain' = kept(k) \o [i \in 1..Len(chain) + 1 - k |-> empty(k)]
        /\ mempool' = [n \in DOMAIN mempool \cup nonces(k) |->
                        IF n \in nonces(k)
                        THEN chain[CHOOSE b \in back(k) : chain[b].tx.nonce = n].tx
                        ELSE mempool[n]]
        /\ silent' = (silent \/ \E b \in back(k) : seen - b >= ConfirmBlocks)
  BY DEF Reorg
<1>2. UNCHANGED <<dropped, seen, pl, running, last, delivered, stops, chVars, minPl, queue,
                  next, nextNonce, pc, pos, why, scanned>>
  BY DEF Reorg
<1> DEFINE lost == Count(chain, k)
<1>3. chain \in Seq(Blocks) /\ NoncesInOrder(chain) /\ Len(chain) \in Nat /\ a \in Nat
      /\ a = Count(chain, Len(chain)) /\ lost \in Nat /\ lost <= a
  <2>1. chain \in Seq(Blocks) /\ NoncesInOrder(chain)
    BY DEF IInv, Typed
  <2>2. Len(chain) \in Nat /\ k \in Int /\ Len(chain) \in Int /\ k <= Len(chain)
    BY <2>1
  <2> QED
    BY <2>1, <2>2, AccNonceIsCount, OursFinite, CountGrows
<1>4. RootAt(kept(k)) \in Roots
  <2>1. kept(k) \in Seq(Blocks)
    BY <1>3
  <2> QED
    BY <2>1, RootAtType
<1>5. /\ chain' \in Seq(Blocks) /\ NoncesInOrder(chain') /\ Len(chain') = Len(chain) + 1
      /\ \A b \in 1..k : chain'[b] = chain[b]
      /\ Ours(chain', Len(chain')) = Ours(chain, k) /\ Count(chain', Len(chain')) = lost
  <2> DEFINE root == RootAt(kept(k))
  <2>1. /\ root \in Roots
        /\ chain' = Forked(chain, k, root)
    BY <1>1, <1>4 DEF Forked
  <2> HIDE DEF root
  <2> QED
    BY <2>1, <1>3, ChainForked
<1>6. AccNonce' = lost
  BY <1>5, AccNonceIsCountNext
<1>7. back(k) \subseteq Ours(chain, Len(chain))
  BY <1>3 DEF Ours
<1>8. nonces(k) \subseteq lost..a - 1
  <2> SUFFICES ASSUME NEW b \in back(k) PROVE chain[b].tx.nonce \in lost..a - 1
    OBVIOUS
  <2>1. b \in Ours(chain, Len(chain)) /\ b \in Int /\ k <= b - 1
    BY <1>7
  <2>2. chain[b].tx.nonce = Count(chain, b - 1)
    BY <2>1, <1>3 DEF NoncesInOrder
  <2>3. lost <= Count(chain, b - 1)
    BY <2>1, <1>3, CountGrows
  <2>4. chain[b].tx.nonce \in Nonces(chain, Len(chain))
    BY <2>1 DEF Nonces
  <2>5. Nonces(chain, Len(chain)) = 0..a - 1
    BY <1>3 DEF NoncesInOrder
  <2> QED
    BY <2>2, <2>3, <2>4, <2>5, <1>3
<1>9. \A m \in lost..a - 1 : m \in nonces(k)
  <2> SUFFICES ASSUME NEW m \in lost..a - 1 PROVE m \in nonces(k)
    OBVIOUS
  <2>1. m \in Nonces(chain, Len(chain)) /\ m \notin Nonces(chain, k)
    <3>1. Nonces(chain, Len(chain)) = 0..a - 1 /\ Nonces(chain, k) = 0..lost - 1
      BY <1>3 DEF NoncesInOrder
    <3> QED
      BY <3>1, <1>3
  <2>2. PICK b \in Ours(chain, Len(chain)) : m = chain[b].tx.nonce
    BY <2>1 DEF Nonces
  <2>3. b \notin Ours(chain, k)
    BY <2>1, <2>2 DEF Nonces
  <2>4. b \in back(k)
    BY <2>2, <2>3, <1>3 DEF Ours
  <2> QED
    BY <2>2, <2>4
<1>10. /\ DOMAIN mempool' = DOMAIN mempool \cup nonces(k)
       /\ \A n \in nonces(k) : \E b \in back(k) :
             mempool'[n] = chain[b].tx /\ chain[b].tx.nonce = n
       /\ \A n \in DOMAIN mempool \ nonces(k) : mempool'[n] = mempool[n]
       /\ mempool' = [n \in DOMAIN mempool' |-> mempool'[n]]
  <2>1. DOMAIN mempool' = DOMAIN mempool \cup nonces(k)
    BY <1>1
  <2>2. ASSUME NEW n \in nonces(k)
        PROVE  \E b \in back(k) : mempool'[n] = chain[b].tx /\ chain[b].tx.nonce = n
    <3> DEFINE b == CHOOSE b \in back(k) : chain[b].tx.nonce = n
    <3>1. b \in back(k) /\ chain[b].tx.nonce = n
      BY Zenon
    <3>2. mempool'[n] = chain[b].tx
      BY <1>1
    <3> QED
      BY <3>1, <3>2
  <2>3. \A n \in DOMAIN mempool \ nonces(k) : mempool'[n] = mempool[n]
    BY <1>1
  <2>4. mempool' = [n \in DOMAIN mempool' |-> mempool'[n]]
    BY <1>1
  <2> QED
    BY <2>1, <2>2, <2>3, <2>4
<1> HIDE DEF nonces
<1>11. \A b \in back(k) : chain[b].tx \in Alive /\ chain[b].tx \in OurTxs
  BY <1>7, AliveType DEF Alive, IInv
<1>12. \A n \in DOMAIN mempool' : mempool'[n] \in Alive
  BY <1>10, <1>11 DEF Alive
<1>13. /\ IsFiniteSet(DOMAIN mempool') /\ DOMAIN mempool' \subseteq Nat
       /\ mempool' \in [DOMAIN mempool' -> OurTxs]
  <2>1. IsFiniteSet(nonces(k)) /\ nonces(k) \subseteq Nat
    <3>1. IsFiniteSet(lost..a - 1) /\ lost..a - 1 \subseteq Nat
      <4>1. lost \in Int /\ a - 1 \in Int /\ lost..a - 1 \subseteq Nat
        BY <1>3
      <4> HIDE DEF lost, a
      <4> QED
        BY <4>1, FS_Interval
    <3> QED
      BY <3>1, <1>8, FS_Subset
  <2>2. IsFiniteSet(DOMAIN mempool \cup nonces(k))
    BY <2>1, FS_Union DEF IInv, Typed
  <2>3. \A n \in DOMAIN mempool' : mempool'[n] \in OurTxs
    BY <1>12, AliveType DEF IInv
  <2> QED
    BY <2>1, <2>2, <2>3, <1>10 DEF IInv, Typed
<1>14. MempoolAhead'
  <2> SUFFICES ASSUME NEW n \in DOMAIN mempool'
               PROVE  mempool'[n].nonce = n /\ n >= AccNonce'
    BY DEF MempoolAhead
  <2>1. CASE n \in nonces(k)
    BY <2>1, <1>3, <1>6, <1>8, <1>10
  <2>2. CASE n \notin nonces(k)
    <3>1. n \in DOMAIN mempool /\ n \in Nat /\ n >= a
      BY <2>2, <1>10 DEF IInv, Typed, MempoolAhead
    <3> QED
      BY <2>2, <3>1, <1>3, <1>6, <1>10 DEF IInv, MempoolAhead
  <2> QED
    BY <2>1, <2>2
<1>15. \A m \in Nat : Covered(m) => Covered(m)'
  <2> SUFFICES ASSUME NEW m \in Nat, Covered(m) PROVE Covered(m)'
    OBVIOUS
  <2>1. CASE m < a /\ m >= lost
    BY <2>1, <1>3, <1>9, <1>10 DEF Covered
  <2>2. CASE m < lost
    BY <2>2, <1>6 DEF Covered
  <2>3. CASE m \in DOMAIN mempool \cup dropped
    BY <2>3, <1>2, <1>10 DEF Covered
  <2> QED
    BY <2>1, <2>2, <2>3, <1>3 DEF Covered
<1>16. \A n \in DOMAIN mempool' : Reached(n)
  <2>1. ASSUME NEW n \in nonces(k) PROVE Reached(n)
    <3>1. n \in Nat /\ n < a
      BY <1>3, <1>8
    <3>2. \A m \in 0..n - 1 : m < AccNonce
      BY <3>1, <1>3
    <3> QED
      BY <3>2 DEF Reached, Covered
  <2> QED
    BY <2>1, <1>10 DEF IInv, NothingSkipped
<1>17. Alive' \subseteq Alive
  <2>1. ASSUME NEW b \in Ours(chain, k) PROVE chain'[b].tx \in Alive
    <3>1. b \in 1..k /\ b \in Ours(chain, Len(chain))
      BY <1>3 DEF Ours
    <3> QED
      BY <3>1, <1>5 DEF Alive
  <2> QED
    BY <2>1, <1>5, <1>12 DEF Alive
<1>18. \A r \in BatchRoots : Confirmed(r) => Confirmed(r)' \/ silent'
  <2> SUFFICES ASSUME NEW r \in BatchRoots, Confirmed(r) PROVE Confirmed(r)' \/ silent'
    OBVIOUS
  <2>1. PICK b \in DOMAIN chain :
          chain[b].tx.root = r /\ chain[b].ok /\ seen - b >= ConfirmBlocks
    BY DEF Confirmed
  <2>2. CASE b <= k
    <3>1. b \in 1..k /\ b \in DOMAIN chain'
      BY <2>2, <1>3, <1>5
    <3> QED
      BY <2>1, <3>1, <1>2, <1>5 DEF Confirmed
  <2>3. CASE ~(b <= k)
    <3>1. chain[b].tx # NoTx
      BY <2>1 DEF NoTx, BatchRoots
    <3>2. b \in back(k)
      BY <2>3, <3>1, <1>3
    <3> QED
      BY <2>1, <3>2, <1>1
  <2> QED
    BY <2>2, <2>3
<1>19. Len(chain) <= Len(chain') /\ dropped' \subseteq Nat /\ silent' \in BOOLEAN
       /\ (silent => silent')
  <2>1. silent' \in BOOLEAN /\ (silent => silent')
    BY <1>1, Zenon DEF IInv, Typed
  <2> QED
    BY <2>1, <1>2, <1>3, <1>5 DEF IInv, Typed
<1> QED
  BY <1>2, <1>5, <1>13, <1>14, <1>15, <1>16, <1>17, <1>18, <1>19, EnvironmentStep

-----------------------------------------------------------------------------
(* The steps that leave the chain, the mempool and the queue alone. *)

DiscardsAreOver ==
  \A i \in DOMAIN discardCh : discardCh[i] <= pl /\ (running => discardCh[i] < pl)

BatchesAgree ==
  \A i \in DOMAIN batchCh : batchCh[i].pl = Last(batchCh[i].root) /\ batchCh[i].pl <= pl

LEMMA QueueUntouched ==
  ASSUME IInv, UNCHANGED <<chain, mempool, dropped, queue>>, Typed', Positions',
         seen <= seen', pl <= pl', running' => pl' >= 1, minPl' <= pl' + 1,
         DiscardsAreOver', BatchesAgree',
         nextNonce' = nextNonce \/ nextNonce' = AccNonce,
         Quiet' => minPl' <= pl' /\ (pl < pl' \/ (pl' = pl /\ Quiet))
  PROVE  IInv'
<1>1. AccNonce' = AccNonce /\ Alive' = Alive /\ Typed
  BY DEF AccNonce, Alive, IInv
<1>2. \A n : Reached(n) <=> Reached(n)'
  BY <1>1 DEF Reached, Covered
<1>3. Reached(AccNonce)
  <2>1. \A m \in 0..AccNonce - 1 : m < AccNonce
    BY <1>1, NumbersType
  <2> QED
    BY <2>1 DEF Reached, Covered
<1>4. NothingSkipped'
  <2>1. Reached(nextNonce)'
    <3>1. CASE nextNonce' = nextNonce
      BY <3>1, <1>1 DEF IInv, NothingSkipped, Reached, Covered
    <3>2. CASE nextNonce' = AccNonce
      BY <3>2, <1>1, <1>3 DEF Reached, Covered
    <3> QED
      BY <3>1, <3>2
  <2> QED
    BY <2>1, <1>2 DEF IInv, NothingSkipped
<1>5. NoncesInOrder(chain)' /\ MempoolAhead'
  BY <1>1 DEF IInv, MempoolAhead
<1>6. pl \in Nat /\ pl' \in Nat
  BY <1>1 DEF Typed
<1>7. Numbers'
  <2>1. \A i \in DOMAIN queue' : EntryAgrees(queue'[i]) /\ queue'[i].pl <= pl'
    <3> SUFFICES ASSUME NEW i \in DOMAIN queue
                 PROVE  EntryAgrees(queue[i]) /\ queue[i].pl <= pl'
      OBVIOUS
    <3>1. EntryAgrees(queue[i]) /\ queue[i].pl <= pl /\ queue[i].pl \in Nat
      BY <1>1, EntryType DEF IInv, Numbers
    <3> QED
      BY <3>1, <1>6
  <2>2. \A tx \in Alive' : Last(tx.root) <= pl'
    <3> SUFFICES ASSUME NEW tx \in Alive PROVE Last(tx.root) <= pl'
      BY <1>1
    <3>1. Last(tx.root) \in Nat /\ Last(tx.root) <= pl
      BY <1>1, AliveLast DEF IInv
    <3> QED
      BY <3>1, <1>6
  <2> QED
    BY <2>1, <2>2 DEF Numbers, DiscardsAreOver, BatchesAgree
<1>8. Watched'
  <2> SUFFICES ASSUME Quiet'
               PROVE  \A tx \in Alive : Last(tx.root) = pl' => Confirmed(tx.root)' \/ InQueue(tx)'
    BY <1>1 DEF Watched
  <2>1. CASE pl < pl'
    <3> SUFFICES ASSUME NEW tx \in Alive PROVE Last(tx.root) # pl'
      OBVIOUS
    <3>1. Last(tx.root) \in Nat /\ Last(tx.root) <= pl
      BY <1>1, AliveLast DEF IInv
    <3> QED
      BY <2>1, <3>1, <1>6
  <2>2. CASE pl' = pl /\ Quiet
    <3>1. ASSUME NEW r, Confirmed(r) PROVE Confirmed(r)'
      <4>1. PICK b \in DOMAIN chain :
              chain[b].tx.root = r /\ chain[b].ok /\ seen - b >= ConfirmBlocks
        BY <3>1 DEF Confirmed
      <4>2. seen' - b >= ConfirmBlocks
        <5>1. seen \in Nat /\ seen' \in Nat /\ b \in Nat /\ ConfirmBlocks \in Nat
          <6>1. seen' \in 0..Len(chain)
            BY DEF Typed
          <6>2. seen \in Nat /\ ConfirmBlocks \in Nat /\ Len(chain) \in Nat
            BY <1>1, NumbersType
          <6>3. chain \in Seq(Blocks)
            BY <1>1 DEF Typed
          <6> QED
            BY <6>1, <6>2, <6>3
        <5> QED
          BY <4>1, <5>1
      <4> QED
        BY <4>1, <4>2 DEF Confirmed
    <3>2. \A tx : InQueue(tx) => InQueue(tx)'
      BY DEF InQueue
    <3> QED
      BY <2>2, <3>1, <3>2 DEF IInv, Watched
  <2> QED
    BY <2>1, <2>2
<1> QED
  BY <1>4, <1>5, <1>7, <1>8 DEF IInv

LEMMA StartPipelineKeeps ==
  ASSUME IInv, StartPipeline
  PROVE  IInv'
<1>1. UNCHANGED <<chain, mempool, dropped, seen, stops, batchCh, discardCh, minPl, queue, next,
                  nextNonce, pc, pos, why, scanned, silent>>
  BY DEF StartPipeline, envVars, chVars, tmVars, scanVars
<1>2. pl' = pl + 1 /\ pl' \in 0..MaxPipelines /\ running' /\ last' \in Roots /\ running' \in BOOLEAN
  <2>1. RootAt(chain) \in Roots
    BY RootAtType DEF IInv, Typed
  <2>2. pl' = pl + 1 /\ pl' \in 0..MaxPipelines
    <3>1. pl \in Nat /\ pl < MaxPipelines /\ pl' = pl + 1 /\ MaxPipelines \in Nat
      BY NumbersType, TxManagerAssumption DEF StartPipeline, IInv
    <3> QED
      BY <3>1
  <2> QED
    BY <2>1, <2>2 DEF StartPipeline, IInv, Typed
<1>3. Typed' /\ Positions'
  BY <1>1, <1>2 DEF IInv, Typed, Positions
<1>4. pl \in Nat /\ minPl \in Nat /\ minPl <= pl + 1 /\ seen \in Nat
  BY NumbersType DEF IInv, Numbers
<1>5. DiscardsAreOver' /\ BatchesAgree'
  <2>1. ASSUME NEW i \in DOMAIN discardCh PROVE discardCh[i] <= pl' /\ discardCh[i] < pl'
    <3>1. discardCh[i] \in Nat /\ discardCh[i] <= pl
      BY ChannelTypes DEF IInv, Numbers
    <3> QED
      BY <3>1, <1>2, <1>4
  <2>2. ASSUME NEW i \in DOMAIN batchCh
        PROVE  batchCh[i].pl = Last(batchCh[i].root) /\ batchCh[i].pl <= pl'
    <3>1. batchCh[i].pl \in Nat /\ batchCh[i].pl = Last(batchCh[i].root) /\ batchCh[i].pl <= pl
      BY ChannelTypes DEF IInv, Numbers
    <3> QED
      BY <3>1, <1>2, <1>4
  <2> QED
    BY <2>1, <2>2, <1>1 DEF DiscardsAreOver, BatchesAgree
<1> QED
  BY <1>1, <1>2, <1>3, <1>4, <1>5, QueueUntouched

LEMMA DeliverKeeps ==
  ASSUME IInv, Deliver
  PROVE  IInv'
<1>1. UNCHANGED <<chain, mempool, dropped, seen, pl, running, stops, discardCh, minPl, queue, next,
                  nextNonce, pc, pos, why, scanned, silent>>
  BY DEF Deliver, envVars, tmVars, scanVars
<1>2. running /\ last' = Append(last, pl) /\ batchCh' = Append(batchCh, [root |-> last', pl |-> pl])
  BY DEF Deliver
<1>3. pl \in 1..MaxPipelines /\ pl \in 0..MaxPipelines /\ seen \in Nat /\ minPl \in Nat
      /\ minPl <= pl + 1
  BY <1>2, TxManagerAssumption DEF IInv, Typed, Numbers
<1>4. last' \in BatchRoots /\ Last(last') = pl
  <2>1. last \in Seq(0..MaxPipelines)
    BY DEF IInv, Typed, Roots
  <2>2. last' \in Seq(0..MaxPipelines) /\ Len(last') = Len(last) + 1 /\ last'[Len(last')] = pl
    BY <2>1, <1>2, <1>3
  <2>3. last' # <<>>
    BY <2>1, <2>2
  <2> QED
    BY <2>2, <2>3 DEF Roots, BatchRoots, Last
<1>5. [root |-> last', pl |-> pl] \in Batches
  BY <1>3, <1>4 DEF Batches
<1>6. batchCh' \in Seq(Batches)
  BY <1>2, <1>5 DEF IInv, Typed
<1>7. Typed' /\ Positions'
  BY <1>1, <1>4, <1>6 DEF IInv, Typed, Positions, BatchRoots
<1>8. DiscardsAreOver' /\ BatchesAgree'
  <2>1. DiscardsAreOver'
    BY <1>1 DEF DiscardsAreOver, IInv, Numbers
  <2>2. ASSUME NEW i \in DOMAIN batchCh'
        PROVE  batchCh'[i].pl = Last(batchCh'[i].root) /\ batchCh'[i].pl <= pl
    <3>1. CASE i \in DOMAIN batchCh
      BY <3>1, <1>2, <1>5 DEF IInv, Typed, Numbers
    <3>2. CASE i = Len(batchCh) + 1
      <4>1. batchCh'[i] = [root |-> last', pl |-> pl]
        BY <3>2, <1>2, <1>5 DEF IInv, Typed
      <4> QED
        BY <4>1, <1>3, <1>4
    <3> QED
      BY <3>1, <3>2, <1>2, <1>5 DEF IInv, Typed
  <2> QED
    BY <2>1, <2>2, <1>1 DEF BatchesAgree
<1>9. Quiet' => Quiet /\ minPl' <= pl'
  BY <1>1 DEF Quiet, IInv, Watched
<1>10. running' => pl' >= 1
  BY <1>1, <1>3
<1> QED
  BY <1>1, <1>3, <1>7, <1>8, <1>9, <1>10, QueueUntouched

LEMMA HandleStopKeeps ==
  ASSUME IInv, HandleStop
  PROVE  IInv'
<1>1. /\ UNCHANGED <<chain, mempool, dropped, seen, pl, last, batchCh, discardCh, minPl, queue, next,
                     nextNonce, pc, pos, why, scanned, silent>>
      /\ running' = FALSE
  BY DEF HandleStop, envVars, chVars, tmVars, scanVars
<1>2. stops' \in Nat
  BY DEF HandleStop, IInv, Typed
<1>3. Typed' /\ Positions'
  BY <1>1, <1>2 DEF IInv, Typed, Positions
<1>4. DiscardsAreOver' /\ BatchesAgree' /\ minPl' <= pl' + 1
  BY <1>1 DEF DiscardsAreOver, BatchesAgree, IInv, Numbers
<1>5. ~Quiet'
  BY <1>1 DEF Quiet
<1>6. pl \in Nat /\ seen \in Nat
  BY NumbersType DEF IInv
<1> QED
  BY <1>1, <1>3, <1>4, <1>5, <1>6, QueueUntouched

LEMMA HandleReorgKeeps ==
  ASSUME IInv, HandleReorg
  PROVE  IInv'
<1>1. UNCHANGED <<chain, mempool, dropped, seen, pl, last, stops, batchCh, minPl, queue, next,
                  nextNonce, pc, pos, why, scanned, silent>>
  BY DEF HandleReorg, envVars, tmVars, scanVars
<1>2. pl \in Nat /\ seen \in Nat /\ pl \in 0..MaxPipelines /\ discardCh \in Seq(0..MaxPipelines)
  BY NumbersType DEF IInv, Typed
<1>3. BatchesAgree' /\ minPl' <= pl' + 1 /\ Positions'
  BY <1>1 DEF BatchesAgree, IInv, Numbers, Positions
<1>4. CASE UNCHANGED <<running, discardCh>>
  <2>1. Typed' /\ DiscardsAreOver' /\ (running' => pl' >= 1)
    BY <1>1, <1>4 DEF IInv, Typed, DiscardsAreOver, Numbers
  <2>2. Quiet' => Quiet /\ minPl' <= pl'
    BY <1>1, <1>4 DEF Quiet, IInv, Watched
  <2> QED
    BY <1>1, <1>2, <1>3, <2>1, <2>2, QueueUntouched
<1>5. CASE discardCh' = Append(discardCh, pl) /\ running' = FALSE
  <2> DEFINE S == 0..MaxPipelines
  <2>1. discardCh \in Seq(S) /\ pl \in S
    BY <1>2
  <2> HIDE DEF S
  <2>2. /\ discardCh' \in Seq(S) /\ Len(discardCh') = Len(discardCh) + 1
        /\ \A i \in 1..Len(discardCh) : discardCh'[i] = discardCh[i]
        /\ discardCh'[Len(discardCh) + 1] = pl
        /\ Len(discardCh) \in Nat
    BY <1>5, <2>1
  <2>3. DiscardsAreOver'
    <3> SUFFICES ASSUME NEW i \in DOMAIN discardCh' PROVE discardCh'[i] <= pl
      BY <1>1, <1>5 DEF DiscardsAreOver
    <3>1. i \in 1..Len(discardCh) \/ i = Len(discardCh) + 1
      BY <2>2
    <3>2. CASE i \in 1..Len(discardCh)
      <4>1. i \in DOMAIN discardCh
        BY <3>2, <2>1
      <4> QED
        BY <3>2, <4>1, <2>2 DEF IInv, Numbers
    <3>3. CASE i = Len(discardCh) + 1
      BY <3>3, <2>2, <1>2
    <3> QED
      BY <3>1, <3>2, <3>3
  <2>4. discardCh' \in Seq(0..MaxPipelines) /\ running' \in BOOLEAN
    BY <1>5, <2>2 DEF S
  <2>5. Typed'
    BY <1>1, <2>4 DEF IInv, Typed
  <2>6. ~Quiet' /\ ~running'
    BY <1>5 DEF Quiet
  <2> QED
    BY <1>1, <1>2, <1>3, <2>3, <2>5, <2>6, QueueUntouched
<1> QED
  BY <1>4, <1>5 DEF HandleReorg

LEMMA SetSyncStatsKeeps ==
  ASSUME IInv, SetSyncStats
  PROVE  IInv'
<1>1. UNCHANGED <<chain, mempool, dropped, pl, running, last, stops, batchCh, discardCh, minPl, queue,
                  next, nextNonce, pc, pos, why, scanned, silent>>
  BY DEF SetSyncStats, envVars, coVars, chVars, tmVars, scanVars
<1>2. pl \in Nat /\ seen \in Nat /\ Len(chain) \in Nat
  BY NumbersType DEF IInv
<1>3. seen' \in 0..Len(chain) /\ seen <= seen'
  BY <1>2 DEF SetSyncStats
<1>4. Typed' /\ Positions'
  BY <1>1, <1>3 DEF IInv, Typed, Positions
<1>5. DiscardsAreOver' /\ BatchesAgree' /\ minPl' <= pl' + 1 /\ (running' => pl' >= 1)
  BY <1>1 DEF DiscardsAreOver, BatchesAgree, IInv, Numbers
<1>6. Quiet' => Quiet /\ minPl' <= pl'
  BY <1>1 DEF Quiet, IInv, Watched
<1> QED
  BY <1>1, <1>2, <1>3, <1>4, <1>5, <1>6, QueueUntouched

LEMMA TailElements ==
  ASSUME NEW S, NEW s \in Seq(S), s # <<>>
  PROVE  /\ Head(s) = s[1] /\ 1 \in DOMAIN s /\ Tail(s) \in Seq(S)
         /\ \A i \in DOMAIN Tail(s) : i + 1 \in DOMAIN s /\ Tail(s)[i] = s[i + 1]
OBVIOUS

LEMMA TakeDiscardKeeps ==
  ASSUME IInv, TakeDiscard
  PROVE  IInv'
<1>1. /\ UNCHANGED <<chain, mempool, dropped, seen, pl, running, last, stops, batchCh, queue, next,
                     nextNonce, silent>>
      /\ discardCh # <<>> /\ discardCh' = Tail(discardCh) /\ minPl' = Head(discardCh) + 1
      /\ pc' = "scan" /\ pos' = 1 /\ scanned' = FALSE
      /\ pc = "loop"
  BY DEF TakeDiscard, envVars, coVars
<1>2. discardCh \in Seq(0..MaxPipelines) /\ pl \in Nat /\ seen \in Nat /\ minPl \in Nat
  BY NumbersType DEF IInv, Typed
<1>3. /\ Head(discardCh) = discardCh[1] /\ 1 \in DOMAIN discardCh
      /\ discardCh' \in Seq(0..MaxPipelines)
      /\ \A i \in DOMAIN discardCh' : i + 1 \in DOMAIN discardCh /\ discardCh'[i] = discardCh[i + 1]
  BY <1>1, <1>2, TailElements
<1>4. /\ Head(discardCh) \in 0..MaxPipelines /\ Head(discardCh) \in Nat
      /\ Head(discardCh) <= pl /\ (running => Head(discardCh) < pl)
  BY <1>3, ChannelTypes DEF IInv, Numbers
<1>5. minPl' \in 0..MaxPipelines + 1 /\ minPl' <= pl + 1 /\ (running => minPl' <= pl)
  BY <1>1, <1>2, <1>4, TxManagerAssumption
<1>6. Typed' /\ Positions'
  <2>0. pos' \in Nat \ {0} /\ pc' \in {"loop", "resend", "scan"} /\ scanned' \in BOOLEAN
    <3>1. pos' \in Nat \ {0}
      BY <1>1
    <3>2. pc' \in {"loop", "resend", "scan"}
      BY <1>1
    <3>3. scanned' \in BOOLEAN
      BY <1>1
    <3> QED
      BY <3>1, <3>2, <3>3
  <2>1. Typed'
    BY <1>1, <1>3, <1>5, <2>0 DEF IInv, Typed
  <2>2. Positions'
    BY <1>1 DEF IInv, Positions
  <2> QED
    BY <2>1, <2>2
<1>7. DiscardsAreOver' /\ BatchesAgree' /\ (running' => pl' >= 1)
  BY <1>1, <1>3 DEF DiscardsAreOver, BatchesAgree, IInv, Numbers
<1>8. Quiet' => Quiet /\ minPl' <= pl'
  BY <1>1, <1>5 DEF Quiet, IInv, Positions
<1> QED
  BY <1>1, <1>2, <1>5, <1>6, <1>7, <1>8, QueueUntouched

LEMMA EndScanKeeps ==
  ASSUME IInv, ReadNonce \/ ReadNonceFails
  PROVE  IInv'
<1>1. /\ UNCHANGED <<chain, mempool, dropped, seen, pl, running, last, batchCh, discardCh, minPl, queue,
                     next>>
      /\ pc' = "loop" /\ pos' = 1 /\ scanned' = FALSE
  BY DEF ReadNonce, ReadNonceFails, EndScan, envVars, coVars, chVars
<1>2. nextNonce' = nextNonce \/ nextNonce' = AccNonce
  BY DEF ReadNonce, ReadNonceFails
<1>3. pl \in Nat /\ seen \in Nat /\ AccNonce \in Nat /\ stops \in Nat
  BY NumbersType DEF IInv
<1>4. \/ stops' = stops + 1 /\ silent' = silent
      \/ stops' = stops /\ silent' = (silent \/ scanned)
  BY DEF ReadNonce, ReadNonceFails, Tell
<1>5. nextNonce' \in Nat
  BY <1>2, <1>3 DEF IInv, Typed
<1>6. stops' \in Nat /\ silent' \in BOOLEAN
  BY <1>3, <1>4 DEF IInv, Typed
<1>7. Typed' /\ Positions'
  <2>0. pos' \in Nat \ {0} /\ pc' \in {"loop", "resend", "scan"} /\ scanned' \in BOOLEAN
    <3>1. pos' \in Nat \ {0}
      BY <1>1
    <3>2. pc' \in {"loop", "resend", "scan"}
      BY <1>1
    <3>3. scanned' \in BOOLEAN
      BY <1>1
    <3> QED
      BY <3>1, <3>2, <3>3
  <2>1. Typed'
    BY <1>1, <1>5, <1>6, <2>0 DEF IInv, Typed
  <2>2. Positions'
    BY <1>1 DEF IInv, Positions
  <2> QED
    BY <2>1, <2>2
<1>8. DiscardsAreOver' /\ BatchesAgree' /\ minPl' <= pl' + 1 /\ (running' => pl' >= 1)
  BY <1>1 DEF DiscardsAreOver, BatchesAgree, IInv, Numbers
<1>9. Quiet' => Quiet
  <2> SUFFICES ASSUME Quiet' PROVE Quiet
    OBVIOUS
  <2>1. running /\ ~silent' /\ stops' = 0
    BY <1>1 DEF Quiet
  <2>2. stops' # stops + 1
    BY <2>1, <1>3
  <2>3. stops' = stops /\ ~silent /\ ~scanned
    BY <2>1, <2>2, <1>4, Zenon
  <2> QED
    BY <2>1, <2>3 DEF Quiet
<1>10. Quiet' => minPl' <= pl'
  BY <1>1, <1>9 DEF IInv, Watched
<1> QED
  BY <1>1, <1>2, <1>3, <1>7, <1>8, <1>9, <1>10, QueueUntouched

LEMMA ScanEntryFailsKeeps ==
  ASSUME IInv, ScanEntryFails
  PROVE  IInv'
<1>1. /\ UNCHANGED <<chain, mempool, dropped, seen, pl, running, last, stops, batchCh, discardCh, minPl,
                     queue, next, nextNonce, pc, scanned, silent>>
      /\ pos' = pos + 1 /\ pc = "scan"
  BY DEF ScanEntryFails, envVars, coVars, chVars
<1>2. Typed' /\ Positions' /\ pl \in Nat /\ seen \in Nat
  <2>1. pos' \in Nat \ {0}
    BY <1>1 DEF IInv, Typed
  <2>2. Typed'
    BY <1>1, <2>1 DEF IInv, Typed
  <2>3. Positions'
    BY <1>1 DEF IInv, Positions
  <2> QED
    BY <2>2, <2>3, NumbersType DEF IInv
<1>3. DiscardsAreOver' /\ BatchesAgree' /\ minPl' <= pl' + 1 /\ (running' => pl' >= 1)
  BY <1>1 DEF DiscardsAreOver, BatchesAgree, IInv, Numbers
<1>4. Quiet' => Quiet /\ minPl' <= pl'
  BY <1>1 DEF Quiet, IInv, Watched
<1> QED
  BY <1>1, <1>2, <1>3, <1>4, QueueUntouched

-----------------------------------------------------------------------------
(* The steps that send. *)

\* what every step of the TxManager keeps of the nonces and of the queue, given what
\* it does to the mempool and to the entries
LEMMA ManagerStep ==
  ASSUME IInv, UNCHANGED <<chain, dropped, seen, pl, running, last, discardCh>>,
         batchCh' \in Seq(Batches), BatchesAgree',
         IsFiniteSet(DOMAIN mempool'), DOMAIN mempool' \subseteq Nat,
         mempool' \in [DOMAIN mempool' -> OurTxs], MempoolAhead',
         \A m \in Nat : Covered(m) => Covered(m)',
         \A n \in DOMAIN mempool' : n \in DOMAIN mempool \/ Reached(n)',
         \A tx \in Alive' : tx \in Alive \/ Last(tx.root) <= pl,
         queue' \in Seq(Entries),
         \A i \in DOMAIN queue' :
           /\ EntryAgrees(queue'[i]) /\ queue'[i].pl <= pl
           /\ Reached(queue'[i].auth) \/ Reached(queue[i].auth)',
         nextNonce' \in Nat, nextNonce' = nextNonce \/ Reached(nextNonce)',
         minPl' \in 0..MaxPipelines + 1, minPl' <= pl + 1, stops' \in Nat,
         pc' \in {"loop", "resend", "scan"}, pos' \in Nat \ {0},
         scanned' \in BOOLEAN, silent' \in BOOLEAN, Positions',
         Watched'
  PROVE  IInv'
<1>1. Typed'
  BY DEF IInv, Typed
<1>2. \A n : Reached(n) => Reached(n)'
  BY DEF Reached
<1>3. NothingSkipped'
  <2>1. \A n \in DOMAIN mempool' : Reached(n)'
    BY <1>2 DEF IInv, NothingSkipped
  <2>2. Reached(nextNonce)'
    BY DEF IInv, NothingSkipped, Reached
  <2>3. \A i \in DOMAIN queue' : Reached(queue[i].auth)'
    BY DEF Reached
  <2> QED
    BY <2>1, <2>2, <2>3 DEF NothingSkipped
<1>4. Numbers'
  BY DEF IInv, Numbers, BatchesAgree
<1> QED
  BY <1>1, <1>3, <1>4 DEF IInv

LEMMA TakenBatch ==
  ASSUME IInv, NEW b, TakeBatch(b)
  PROVE  /\ UNCHANGED <<seen, pl, running, last, discardCh, minPl, next, pc, pos, scanned, silent>>
         /\ b \in Batches /\ b.root \in BatchRoots /\ b.pl \in 1..MaxPipelines
         /\ b.pl = Last(b.root) /\ b.pl <= pl
         /\ batchCh' \in Seq(Batches) /\ BatchesAgree'
         /\ pc = "loop"
<1>1. UNCHANGED <<seen, pl, running, last, discardCh, minPl, next, pc, pos, scanned, silent>>
      /\ pc = "loop" /\ batchCh # <<>> /\ b = Head(batchCh) /\ batchCh' = Tail(batchCh)
  BY DEF TakeBatch, coVars, scanVars
<1>2. batchCh \in Seq(Batches)
  BY DEF IInv, Typed
<1>3. /\ b = batchCh[1] /\ 1 \in DOMAIN batchCh /\ batchCh' \in Seq(Batches)
      /\ \A i \in DOMAIN batchCh' : i + 1 \in DOMAIN batchCh /\ batchCh'[i] = batchCh[i + 1]
  BY <1>1, <1>2, TailElements
<1>4. b \in Batches /\ b.pl = Last(b.root) /\ b.pl <= pl
  BY <1>2, <1>3, SeqElement DEF IInv, Numbers
<1>5. BatchesAgree'
  BY <1>1, <1>3 DEF BatchesAgree, IInv, Numbers
<1> QED
  BY <1>1, <1>3, <1>4, <1>5 DEF Batches

LEMMA QueueFacts ==
  ASSUME IInv
  PROVE  /\ Typed /\ queue \in Seq(Entries) /\ Positions /\ NothingSkipped
         /\ \A i \in DOMAIN queue :
              /\ EntryAgrees(queue[i]) /\ queue[i].pl <= pl
              /\ Reached(queue[i].auth) /\ queue[i].auth \in Nat
         /\ minPl <= pl + 1 /\ minPl \in 0..MaxPipelines + 1
         /\ nextNonce \in Nat /\ Reached(nextNonce)
BY EntryType DEF IInv, Typed, Numbers, NothingSkipped

\* the batch is not sent, or it is and nobody knows, but the Coordinator is told
LEMMA BatchLostKeeps ==
  ASSUME IInv, NEW b, RefuseBatch(b) \/ SendFails(b) \/ SendUnmarked(b)
  PROVE  IInv'
<1>1. TakeBatch(b) /\ UNCHANGED queue /\ stops' = stops + 1
  BY DEF RefuseBatch, SendFails, SendUnmarked, Tell
<1>2. /\ UNCHANGED <<seen, pl, running, last, discardCh, minPl, next, pc, pos, scanned, silent>>
      /\ b.root \in BatchRoots /\ b.pl = Last(b.root) /\ b.pl <= pl
      /\ batchCh' \in Seq(Batches) /\ BatchesAgree'
  BY <1>1, TakenBatch
<1>3. stops' \in Nat /\ pl \in Nat /\ seen \in Nat /\ ~Quiet'
  BY <1>1, NumbersType DEF IInv, Quiet
<1>4. Positions' /\ Watched'
  BY <1>1, <1>2, <1>3 DEF IInv, Positions, Watched
<1>5. CASE UNCHANGED <<chain, mempool, dropped, nextNonce>>
  <2>1. Typed'
    BY <1>1, <1>2, <1>3, <1>5 DEF IInv, Typed
  <2>2. DiscardsAreOver' /\ minPl' <= pl' + 1 /\ (running' => pl' >= 1)
    BY <1>2 DEF DiscardsAreOver, IInv, Numbers
  <2> QED
    BY <1>1, <1>2, <1>3, <1>4, <1>5, <2>1, <2>2, QueueUntouched
<1>6. CASE \E n \in Accepted(nextNonce) :
             Submit(b, n) /\ (nextNonce' = nextNonce \/ nextNonce' = n + 1)
  <2>1. PICK n \in Accepted(nextNonce) :
             Submit(b, n) /\ (nextNonce' = nextNonce \/ nextNonce' = n + 1)
    BY <1>6
  <2>2. nextNonce \in Nat /\ Reached(nextNonce)
    BY QueueFacts
  <2>3. /\ n \in Nat /\ Reached(n)' /\ n \in DOMAIN mempool'
        /\ IsFiniteSet(DOMAIN mempool') /\ DOMAIN mempool' \subseteq Nat
        /\ mempool' \in [DOMAIN mempool' -> OurTxs]
        /\ MempoolAhead'
        /\ \A m \in Nat : Covered(m) => Covered(m)'
        /\ \A m \in DOMAIN mempool' : m \in DOMAIN mempool \/ m = n
        /\ Alive' \subseteq Alive \cup {Tx(b, n)}
    BY <1>2, <2>1, <2>2, Submitted DEF Submit
  <2>4. nextNonce' \in Nat /\ (nextNonce' = nextNonce \/ Reached(nextNonce)')
    <3>1. CASE nextNonce' = n + 1
      <4>1. \A m \in 0..(n + 1) - 1 : m \in 0..n - 1 \/ m = n
        BY <2>3
      <4> QED
        BY <3>1, <4>1, <2>3 DEF Reached, Covered
    <3> QED
      BY <2>1, <2>2, <3>1
  <2>5. \A m \in DOMAIN mempool' : m \in DOMAIN mempool \/ Reached(m)'
    BY <2>3 DEF Reached
  <2>6. \A tx \in Alive' : tx \in Alive \/ Last(tx.root) <= pl
    BY <1>2, <2>3 DEF Tx
  <2>7. UNCHANGED <<chain, dropped>>
    BY <2>1 DEF Submit
  <2>8. /\ queue' \in Seq(Entries)
        /\ \A i \in DOMAIN queue' :
             EntryAgrees(queue'[i]) /\ queue'[i].pl <= pl /\ Reached(queue'[i].auth)
        /\ minPl' \in 0..MaxPipelines + 1 /\ minPl' <= pl + 1
    BY <1>1, <1>2, QueueFacts
  <2>9. pc' \in {"loop", "resend", "scan"} /\ pos' \in Nat \ {0} /\ scanned' \in BOOLEAN
        /\ silent' \in BOOLEAN
    BY <1>2 DEF IInv, Typed
  <2> QED
    BY <1>2, <1>3, <1>4, <2>3, <2>4, <2>5, <2>6, <2>7, <2>8, <2>9, ManagerStep
<1> QED
  BY <1>5, <1>6 DEF RefuseBatch, SendFails, SendUnmarked, envVars

\* the batches of the current pipeline are watched as before, or by another entry
LEMMA WatchedStep ==
  ASSUME IInv, UNCHANGED <<chain, seen, pl>>, Quiet' => Quiet /\ minPl' <= pl,
         Quiet' => \A tx \in Alive' :
           \/ InQueue(tx)'
           \/ /\ tx \in Alive
              /\ InQueue(tx) /\ Last(tx.root) = pl => InQueue(tx)' \/ Confirmed(tx.root)
  PROVE  Watched'
<1> SUFFICES ASSUME Quiet', NEW tx \in Alive', Last(tx.root) = pl
             PROVE  Confirmed(tx.root)' \/ InQueue(tx)'
  BY DEF Watched
<1>1. Confirmed(tx.root) => Confirmed(tx.root)'
  BY DEF Confirmed
<1>2. CASE InQueue(tx)'
  BY <1>2
<1>3. CASE /\ tx \in Alive
           /\ InQueue(tx) /\ Last(tx.root) = pl => InQueue(tx)' \/ Confirmed(tx.root)
  <2>1. Confirmed(tx.root) \/ InQueue(tx)
    BY <1>3 DEF IInv, Watched
  <2> QED
    BY <2>1, <1>1, <1>3
<1> QED
  BY <1>2, <1>3

LEMMA NoneIsReceipt == None \in Receipts
BY DEF None, Receipts

LEMMA SendBatchKeeps ==
  ASSUME IInv, NEW b, SendBatch(b)
  PROVE  IInv'
<1> DEFINE entry(n) == [root |-> b.root, pl |-> b.pl, txs |-> <<Tx(b, n)>>, auth |-> n,
                        receipt |-> None]
<1>1. PICK n \in Accepted(nextNonce) :
        Submit(b, n) /\ nextNonce' = n + 1 /\ queue' = Append(queue, entry(n))
  BY DEF SendBatch
<1>2. /\ UNCHANGED <<seen, pl, running, last, discardCh, minPl, next, pc, pos, scanned, silent, stops>>
      /\ b.root \in BatchRoots /\ b.pl = Last(b.root) /\ b.pl <= pl /\ b.pl \in 1..MaxPipelines
      /\ batchCh' \in Seq(Batches) /\ BatchesAgree' /\ pc = "loop"
  BY TakenBatch DEF SendBatch
<1>3. nextNonce \in Nat /\ Reached(nextNonce) /\ queue \in Seq(Entries) /\ Typed /\ Positions
  BY QueueFacts
<1>4. /\ n \in Nat /\ Reached(n)' /\ n \in DOMAIN mempool' /\ Tx(b, n) \in OurTxs
      /\ IsFiniteSet(DOMAIN mempool') /\ DOMAIN mempool' \subseteq Nat
      /\ mempool' \in [DOMAIN mempool' -> OurTxs]
      /\ MempoolAhead'
      /\ \A m \in Nat : Covered(m) => Covered(m)'
      /\ \A m \in DOMAIN mempool' : m \in DOMAIN mempool \/ m = n
      /\ Alive' \subseteq Alive \cup {Tx(b, n)}
  BY <1>1, <1>2, <1>3, Submitted DEF Submit
<1>5. entry(n) \in Entries /\ EntryAgrees(entry(n))
  <2>1. <<Tx(b, n)>> \in Seq(OurTxs) /\ <<Tx(b, n)>> # <<>>
        /\ \A j \in DOMAIN <<Tx(b, n)>> : <<Tx(b, n)>>[j] = Tx(b, n)
    BY <1>4
  <2>2. Tx(b, n).root = b.root
    BY DEF Tx
  <2> QED
    BY <1>2, <1>4, <2>1, <2>2, NoneIsReceipt DEF Entries, EntryAgrees
<1>6. /\ queue' \in Seq(Entries) /\ Len(queue') = Len(queue) + 1 /\ Len(queue) \in Nat
      /\ \A i \in DOMAIN queue : i \in DOMAIN queue' /\ queue'[i] = queue[i]
      /\ queue'[Len(queue')] = entry(n) /\ Len(queue') \in DOMAIN queue'
      /\ \A i \in DOMAIN queue' : i \in DOMAIN queue \/ i = Len(queue')
  <2> HIDE DEF entry
  <2> QED
    BY <1>1, <1>3, <1>5
<1>7. UNCHANGED <<chain, dropped>>
  BY <1>1 DEF Submit
<1>8. ASSUME NEW i \in DOMAIN queue'
      PROVE  /\ EntryAgrees(queue'[i]) /\ queue'[i].pl <= pl
             /\ Reached(queue'[i].auth) \/ Reached(queue[i].auth)'
  <2>1. CASE i \in DOMAIN queue
    BY <2>1, <1>6, QueueFacts
  <2>2. CASE i = Len(queue')
    <3>1. queue'[i] = entry(n)
      BY <2>2, <1>6
    <3>2. Reached(queue[i].auth)'
      BY <3>1, <1>4 DEF Reached
    <3> QED
      BY <3>1, <3>2, <1>2, <1>5
  <2> QED
    BY <2>1, <2>2, <1>6
<1>9. Reached(nextNonce)' /\ nextNonce' \in Nat
  <2>1. \A m \in 0..(n + 1) - 1 : m \in 0..n - 1 \/ m = n
    BY <1>4
  <2> QED
    BY <1>1, <2>1, <1>4 DEF Reached, Covered
<1>10. Positions'
  <2>1. next' \in DOMAIN queue' /\ queue' # <<>>
    BY <1>2, <1>3, <1>6 DEF Positions
  <2> QED
    BY <2>1, <1>2, <1>3 DEF Positions
<1>11. Watched'
  <2>1. Quiet' => Quiet /\ minPl' <= pl
    BY <1>2 DEF Quiet, IInv, Watched
  <2>2. \A tx : InQueue(tx) => InQueue(tx)'
    BY <1>6 DEF InQueue
  <2>3. InQueue(Tx(b, n))'
    <3>1. queue'[Len(queue')].txs = <<Tx(b, n)>>
      BY <1>6
    <3>2. 1 \in DOMAIN <<Tx(b, n)>> /\ <<Tx(b, n)>>[1] = Tx(b, n)
      OBVIOUS
    <3> QED
      BY <3>1, <3>2, <1>6 DEF InQueue
  <2>4. ASSUME NEW tx \in Alive'
        PROVE  InQueue(tx)' \/ (tx \in Alive /\ (InQueue(tx) => InQueue(tx)'))
    <3>1. CASE tx = Tx(b, n)
      BY <3>1, <2>3 DEF InQueue
    <3>2. CASE tx \in Alive
      BY <3>2, <2>2
    <3> QED
      BY <3>1, <3>2, <1>4
  <2> QED
    BY <2>1, <2>4, <1>2, <1>7, WatchedStep
<1>12. \A m \in DOMAIN mempool' : m \in DOMAIN mempool \/ Reached(m)'
  BY <1>4 DEF Reached
<1>13. \A tx \in Alive' : tx \in Alive \/ Last(tx.root) <= pl
  BY <1>2, <1>4 DEF Tx
<1>14. minPl' \in 0..MaxPipelines + 1 /\ minPl' <= pl + 1
  BY <1>2, QueueFacts
<1>15. pc' \in {"loop", "resend", "scan"} /\ pos' \in Nat \ {0} /\ scanned' \in BOOLEAN
       /\ silent' \in BOOLEAN /\ stops' \in Nat
  BY <1>2 DEF IInv, Typed
<1> QED
  BY <1>2, <1>4, <1>6, <1>7, <1>8, <1>9, <1>10, <1>11, <1>12, <1>13, <1>14, <1>15, ManagerStep

-----------------------------------------------------------------------------
(* The entries of the queue: what is remembered, what is removed. *)

LEMMA RemoveAtElements ==
  ASSUME NEW S, NEW q \in Seq(S), NEW p \in DOMAIN q, NEW r, r = RemoveAt(q, p)
  PROVE  /\ r \in Seq(S) /\ Len(r) = Len(q) - 1
         /\ \A j \in DOMAIN r : \E i \in DOMAIN q : r[j] = q[i]
         /\ \A i \in DOMAIN q : i # p => \E j \in DOMAIN r : r[j] = q[i]
<1> DEFINE u == SubSeq(q, 1, p - 1)
           v == SubSeq(q, p + 1, Len(q))
<1>1. p \in 1..Len(q) /\ Len(q) \in Nat /\ DOMAIN q = 1..Len(q)
  OBVIOUS
<1>2. u \in Seq(S) /\ Len(u) = p - 1 /\ \A j \in 1..p - 1 : u[j] = q[j]
  BY <1>1, SubSeqProperties
<1>3. v \in Seq(S) /\ Len(v) = Len(q) - p /\ \A j \in 1..Len(q) - p : v[j] = q[p + j]
  BY <1>1, SubSeqProperties
<1>4. r = u \o v
  BY DEF RemoveAt
<1> HIDE DEF u, v
<1>5. /\ u \o v \in Seq(S) /\ Len(u \o v) = Len(u) + Len(v)
      /\ \A i \in 1..Len(u) + Len(v) : (u \o v)[i] = IF i <= Len(u) THEN u[i] ELSE v[i - Len(u)]
  BY <1>2, <1>3, ConcatProperties
<1>6. r \in Seq(S) /\ Len(r) = Len(q) - 1 /\ DOMAIN r = 1..Len(q) - 1
      /\ \A j \in 1..Len(q) - 1 : r[j] = IF j <= p - 1 THEN u[j] ELSE v[j - (p - 1)]
  <2>1. r \in Seq(S) /\ Len(r) = Len(q) - 1
    BY <1>1, <1>2, <1>3, <1>4, <1>5
  <2>2. DOMAIN r = 1..Len(q) - 1
    BY <2>1
  <2>3. Len(u) + Len(v) = Len(q) - 1 /\ Len(u) = p - 1
    BY <1>1, <1>2, <1>3
  <2> QED
    BY <2>1, <2>2, <2>3, <1>4, <1>5
<1>7. \A j \in 1..Len(q) - 1 : r[j] = IF j <= p - 1 THEN q[j] ELSE q[j + 1]
  <2> SUFFICES ASSUME NEW j \in 1..Len(q) - 1
               PROVE  r[j] = IF j <= p - 1 THEN q[j] ELSE q[j + 1]
    OBVIOUS
  <2>1. CASE j <= p - 1
    BY <2>1, <1>1, <1>2, <1>6
  <2>2. CASE ~(j <= p - 1)
    <3>1. j - (p - 1) \in 1..Len(q) - p /\ p + (j - (p - 1)) = j + 1
      BY <2>2, <1>1
    <3> QED
      BY <2>2, <3>1, <1>1, <1>3, <1>6
  <2> QED
    BY <2>1, <2>2
<1>8. ASSUME NEW j \in DOMAIN r PROVE \E i \in DOMAIN q : r[j] = q[i]
  <2>1. j \in DOMAIN q /\ j + 1 \in DOMAIN q
    BY <1>1, <1>6
  <2> QED
    BY <2>1, <1>6, <1>7
<1>9. ASSUME NEW i \in DOMAIN q, i # p PROVE \E j \in DOMAIN r : r[j] = q[i]
  <2>1. CASE i < p
    <3>1. i \in DOMAIN r /\ i <= p - 1
      BY <2>1, <1>1, <1>6
    <3> QED
      BY <3>1, <1>6, <1>7
  <2>2. CASE i > p
    <3>1. i - 1 \in DOMAIN r /\ ~(i - 1 <= p - 1) /\ (i - 1) + 1 = i
      BY <2>2, <1>1, <1>6
    <3> QED
      BY <3>1, <1>6, <1>7
  <2> QED
    BY <2>1, <2>2, <1>1, <1>9
<1> QED
  BY <1>6, <1>8, <1>9

\* entries that differ in the receipt alone
Same(e, f) == e.root = f.root /\ e.pl = f.pl /\ e.txs = f.txs /\ e.auth = f.auth

FromQueue ==
  /\ queue' \in Seq(Entries)
  /\ \A j \in DOMAIN queue' : \E i \in DOMAIN queue : Same(queue'[j], queue[i])

RemainsBut(p) ==
  \A i \in DOMAIN queue : i # p => \E j \in DOMAIN queue' : Same(queue'[j], queue[i])

LEMMA Remembered ==
  ASSUME Typed, NEW p \in DOMAIN queue, NEW r \in Receipts, Remember(p, r)
  PROVE  FromQueue /\ RemainsBut(0) /\ DOMAIN queue' = DOMAIN queue /\ Len(queue') = Len(queue)
<1>1. queue \in Seq(Entries) /\ queue' = [queue EXCEPT ![p].receipt = r]
  BY DEF Typed, Remember
<1>2. [queue[p] EXCEPT !.receipt = r] \in Entries /\ Same([queue[p] EXCEPT !.receipt = r], queue[p])
  BY EntryType DEF Entries, Same
<1>3. queue' = [queue EXCEPT ![p] = [queue[p] EXCEPT !.receipt = r]]
  BY <1>1
<1> DEFINE e == [queue[p] EXCEPT !.receipt = r]
<1> HIDE DEF e
<1>4. /\ queue' \in Seq(Entries) /\ Len(queue') = Len(queue) /\ DOMAIN queue' = DOMAIN queue
      /\ \A i \in DOMAIN queue : queue'[i] = IF i = p THEN e ELSE queue[i]
  <2>1. queue' = [queue EXCEPT ![p] = e] /\ e \in Entries
    BY <1>2, <1>3 DEF e
  <2> QED
    BY <2>1, <1>1, ExceptSeq
<1>5. \A i \in DOMAIN queue : Same(queue'[i], queue[i])
  BY <1>2, <1>4 DEF Same, e
<1> QED
  BY <1>4, <1>5 DEF FromQueue, RemainsBut

LEMMA Removed ==
  ASSUME Typed, NEW p \in DOMAIN queue, RemoveEntry(p)
  PROVE  /\ FromQueue /\ RemainsBut(p)
         /\ IF queue' = <<>> THEN next' = 1 ELSE next' \in DOMAIN queue'
<1>1. queue \in Seq(Entries) /\ queue' = RemoveAt(queue, p) /\ p \in 1..Len(queue)
  BY DEF Typed, RemoveEntry
<1>2. /\ queue' \in Seq(Entries) /\ Len(queue') = Len(queue) - 1
      /\ \A j \in DOMAIN queue' : \E i \in DOMAIN queue : queue'[j] = queue[i]
      /\ \A i \in DOMAIN queue : i # p => \E j \in DOMAIN queue' : queue'[j] = queue[i]
  BY <1>1, RemoveAtElements
<1>3. FromQueue /\ RemainsBut(p)
  BY <1>2 DEF FromQueue, RemainsBut, Same
<1>4. CASE Len(queue) = 1
  <2>1. queue' = <<>>
    BY <1>2, <1>4, EmptySeq
  <2> QED
    BY <2>1, <1>3, <1>4 DEF RemoveEntry
<1>5. CASE Len(queue) # 1
  <2>1. Len(queue) - 1 \in Nat \ {0} /\ p - 1 \in Nat
    BY <1>1, <1>5
  <2>2. (p - 1) % (Len(queue) - 1) \in 0..(Len(queue) - 1) - 1
    BY <2>1, Modulo
  <2>3. next' = ((p - 1) % (Len(queue) - 1)) + 1
    BY <1>5 DEF RemoveEntry
  <2>4. next' \in 1..Len(queue')
    BY <2>1, <2>2, <2>3, <1>2
  <2>5. next' \in DOMAIN queue' /\ queue' # <<>>
    BY <2>4, <1>2
  <2> QED
    BY <2>5, <1>3
<1> QED
  BY <1>4, <1>5

LEMMA Advanced ==
  ASSUME Typed, queue # <<>>, next \in DOMAIN queue, NextPosition
  PROVE  next' \in DOMAIN queue
<1>1. Len(queue) \in Nat \ {0} /\ DOMAIN queue = 1..Len(queue) /\ next \in Nat
  BY DEF Typed
<1>2. next % Len(queue) \in 0..Len(queue) - 1
  BY <1>1, Modulo
<1> QED
  BY <1>1, <1>2 DEF NextPosition

(* What the receipt of an entry tells. *)
LEMMA ReceiptTells ==
  ASSUME Typed, NEW e \in Entries
  PROVE  /\ Receipt(e) \in Receipts
         /\ Receipt(e) # None =>
              \E j \in DOMAIN e.txs : \E b \in DOMAIN chain :
                /\ chain[b].tx = e.txs[j]
                /\ Receipt(e).block = b /\ (Receipt(e).ok <=> chain[b].ok)
         /\ (\E j \in DOMAIN e.txs : Mined(e.txs[j])) => Receipt(e) # None
<1> DEFINE mined == {j \in DOMAIN e.txs : Mined(e.txs[j])}
           b == CHOOSE b \in DOMAIN chain : chain[b].tx = e.txs[Max(mined)]
           ok == chain[b].ok
<1>1. Receipt(e) = IF mined = {} THEN None ELSE [block |-> b, ok |-> ok]
  BY DEF Receipt
<1>2. CASE mined = {}
  BY <1>1, <1>2, NoneIsReceipt
<1>3. CASE mined # {}
  <2>1. Max(mined) \in mined
    <3>1. e.txs \in Seq(OurTxs)
      BY DEF Entries
    <3>2. Len(e.txs) \in Nat /\ mined \subseteq 0..Len(e.txs)
      BY <3>1
    <3> QED
      BY <1>3, <3>2, GreatestElement
  <2>2. \E c \in DOMAIN chain : chain[c].tx = e.txs[Max(mined)]
    BY <2>1 DEF Mined
  <2>3. b \in DOMAIN chain /\ chain[b].tx = e.txs[Max(mined)]
    BY <2>2, Zenon
  <2>4. Max(mined) \in DOMAIN e.txs
    BY <2>1
  <2>5. b \in Nat /\ b # 0
    <3>1. \A c \in DOMAIN chain : c \in Nat /\ c # 0
      BY DEF Typed
    <3> HIDE DEF b
    <3> QED
      BY <2>3, <3>1
  <2>6. ok \in BOOLEAN
    <3>1. ASSUME NEW c \in DOMAIN chain PROVE chain[c].ok \in BOOLEAN
      <4>1. chain[c] \in Blocks
        BY DEF Typed
      <4> QED
        BY <4>1 DEF Blocks
    <3> HIDE DEF b
    <3> QED
      BY <2>3, <3>1, Zenon
  <2> HIDE DEF b, ok, mined
  <2>7. Receipt(e) = [block |-> b, ok |-> ok]
    BY <1>1, <1>3
  <2>8. Receipt(e) \in Receipts /\ Receipt(e).block = b /\ Receipt(e).ok = ok
    BY <2>5, <2>6, <2>7 DEF Receipts
  <2>9. Receipt(e) # None
    BY <2>5, <2>8 DEF None
  <2>10. Receipt(e).ok <=> chain[b].ok
    BY <2>8 DEF ok
  <2> QED
    BY <2>3, <2>4, <2>8, <2>9, <2>10
<1> QED
  BY <1>2, <1>3

LEMMA QueueStep ==
  ASSUME IInv, UNCHANGED <<chain, mempool, dropped, seen, pl, running, last, discardCh, batchCh,
                           nextNonce>>,
         FromQueue,
         minPl' \in 0..MaxPipelines + 1, minPl' <= pl + 1, stops' \in Nat,
         pc' \in {"loop", "resend", "scan"}, pos' \in Nat \ {0},
         scanned' \in BOOLEAN, silent' \in BOOLEAN, Positions',
         Watched'
  PROVE  IInv'
<1>1. /\ IsFiniteSet(DOMAIN mempool') /\ DOMAIN mempool' \subseteq Nat
      /\ mempool' \in [DOMAIN mempool' -> OurTxs] /\ batchCh' \in Seq(Batches)
      /\ nextNonce' \in Nat
  BY DEF IInv, Typed
<1>2. AccNonce' = AccNonce /\ Alive' = Alive
  BY DEF AccNonce, Alive
<1>3. MempoolAhead' /\ \A m \in Nat : Covered(m) => Covered(m)'
  BY <1>2 DEF IInv, MempoolAhead, Covered
<1>4. BatchesAgree'
  BY DEF BatchesAgree, IInv, Numbers
<1>5. ASSUME NEW j \in DOMAIN queue'
      PROVE  EntryAgrees(queue'[j]) /\ queue'[j].pl <= pl /\ Reached(queue'[j].auth)
  <2>1. PICK i \in DOMAIN queue : Same(queue'[j], queue[i])
    BY DEF FromQueue
  <2>2. EntryAgrees(queue[i]) /\ queue[i].pl <= pl /\ Reached(queue[i].auth)
    BY QueueFacts
  <2> QED
    BY <2>1, <2>2 DEF Same, EntryAgrees
<1>6. queue' \in Seq(Entries)
  BY DEF FromQueue
<1> QED
  BY <1>1, <1>2, <1>3, <1>4, <1>5, <1>6, ManagerStep

\* an entry that remains goes on watching
LEMMA RemainsWatched ==
  ASSUME NEW p, RemainsBut(p), NEW tx, InQueue(tx),
         p \in DOMAIN queue => \A j \in DOMAIN queue[p].txs : queue[p].txs[j] # tx
  PROVE  InQueue(tx)'
<1>1. PICK i \in DOMAIN queue : \E j \in DOMAIN queue[i].txs : queue[i].txs[j] = tx
  BY DEF InQueue
<1>2. i # p
  BY <1>1
<1>3. PICK k \in DOMAIN queue' : Same(queue'[k], queue[i])
  BY <1>2 DEF RemainsBut
<1> QED
  BY <1>1, <1>3 DEF Same, InQueue

LEMMA ZeroIsNoPosition ==
  ASSUME Typed
  PROVE  0 \notin DOMAIN queue
BY DEF Typed

-----------------------------------------------------------------------------
(* The timer: the next entry of the queue. *)

LEMMA PositionsBefore ==
  ASSUME IInv, queue # <<>>
  PROVE  next \in DOMAIN queue /\ next \in Nat \ {0}
<1>1. next \in DOMAIN queue
  BY DEF IInv, Positions
<1> QED
  BY <1>1 DEF IInv, Typed

LEMMA ReceiptHandled ==
  ASSUME IInv, queue # <<>>, pc = "loop", NEW r \in Receipts, NEW late \in BOOLEAN,
         HandleReceipt(r, late)
  PROVE  /\ FromQueue /\ Positions'
         /\ pc' \in {"loop", "resend", "scan"} /\ pos' \in Nat \ {0}
         /\ scanned' = FALSE
         /\ \/ RemainsBut(0)
            \/ RemainsBut(next) /\ r # None /\ r.ok /\ seen - r.block >= ConfirmBlocks
<1>1. Typed /\ next \in DOMAIN queue /\ next \in Nat \ {0} /\ ~scanned /\ scanned \in BOOLEAN
      /\ pos \in Nat \ {0}
  BY PositionsBefore DEF IInv, Positions, Typed
<1>2. CASE RemoveEntry(next) /\ UNCHANGED <<pc, pos, why, scanned>>
           /\ r # None /\ r.ok /\ seen - r.block >= ConfirmBlocks
  <2>1. FromQueue /\ RemainsBut(next)
        /\ IF queue' = <<>> THEN next' = 1 ELSE next' \in DOMAIN queue'
    BY <1>1, <1>2, Removed
  <2>2. Positions'
    BY <1>1, <1>2, <2>1 DEF Positions
  <2> QED
    BY <1>1, <1>2, <2>1, <2>2
<1>3. CASE Remember(next, r) /\ NextPosition
           /\ \/ pc' = "scan" /\ pos' = 1 /\ scanned' = FALSE
              \/ pc' = "resend" /\ pos' = next /\ UNCHANGED scanned
              \/ UNCHANGED <<pc, pos, scanned>>
  <2>1. FromQueue /\ RemainsBut(0) /\ DOMAIN queue' = DOMAIN queue /\ Len(queue') = Len(queue)
    BY <1>1, <1>3, Remembered
  <2>2. next' \in DOMAIN queue'
    BY <1>1, <1>3, <2>1, Advanced
  <2>3. queue' # <<>>
    BY <1>1, <2>1
  <2>4. scanned' = FALSE
    BY <1>1, <1>3
  <2>5. pc' \in {"loop", "resend", "scan"}
    BY <1>3
  <2>6. pos' \in Nat \ {0}
    BY <1>1, <1>3
  <2>7. pc' = "resend" => pos' \in DOMAIN queue'
    BY <1>1, <1>3, <2>1
  <2>8. Positions'
    BY <2>2, <2>3, <2>4, <2>7 DEF Positions
  <2> QED
    BY <2>1, <2>4, <2>5, <2>6, <2>8
<1> QED
  BY <1>2, <1>3 DEF HandleReceipt, Pending, Rejected

LEMMA CheckNextKeeps ==
  ASSUME IInv, NEW late \in BOOLEAN, CheckNext(late)
  PROVE  IInv'
<1> DEFINE r == Receipt(queue[next])
<1>1. /\ pc = "loop" /\ queue # <<>> /\ HandleReceipt(r, late)
      /\ UNCHANGED <<chain, mempool, dropped, seen, pl, running, last, stops, batchCh, discardCh,
                     minPl, nextNonce, silent>>
  BY DEF CheckNext, envVars, coVars, chVars
<1>2. next \in DOMAIN queue /\ queue[next] \in Entries /\ Typed /\ EntryAgrees(queue[next])
  BY <1>1, PositionsBefore, EntryType, QueueFacts
<1>3. /\ r \in Receipts
      /\ r # None => \E j \in DOMAIN queue[next].txs : \E b \in DOMAIN chain :
           chain[b].tx = queue[next].txs[j] /\ r.block = b /\ (r.ok <=> chain[b].ok)
  BY <1>2, ReceiptTells
<1> HIDE DEF r
<1>4. /\ FromQueue /\ Positions'
      /\ pc' \in {"loop", "resend", "scan"} /\ pos' \in Nat \ {0}
      /\ scanned' = FALSE
      /\ \/ RemainsBut(0)
         \/ RemainsBut(next) /\ r # None /\ r.ok /\ seen - r.block >= ConfirmBlocks
  BY <1>1, <1>3, ReceiptHandled
<1>5. ~scanned
  BY <1>1 DEF IInv, Positions
<1>6. Watched'
  <2>1. Quiet' => Quiet /\ minPl' <= pl
    BY <1>1, <1>5 DEF Quiet, IInv, Watched
  <2>2. Alive' = Alive
    BY <1>1 DEF Alive
  <2>3. CASE RemainsBut(0)
    <3>1. \A tx : InQueue(tx) => InQueue(tx)'
      BY <2>3, <1>2, RemainsWatched, ZeroIsNoPosition
    <3> QED
      BY <2>1, <2>2, <3>1, <1>1, WatchedStep
  <2>4. CASE RemainsBut(next) /\ r # None /\ r.ok /\ seen - r.block >= ConfirmBlocks
    <3>1. Confirmed(queue[next].root)
      <4>1. PICK j \in DOMAIN queue[next].txs : \E b \in DOMAIN chain :
              chain[b].tx = queue[next].txs[j] /\ r.block = b
              /\ (r.ok <=> chain[b].ok)
        BY <2>4, <1>3
      <4> QED
        BY <4>1, <2>4, <1>2 DEF Confirmed, EntryAgrees
    <3>2. ASSUME NEW tx, InQueue(tx) PROVE InQueue(tx)' \/ Confirmed(tx.root)
      <4>1. CASE \E j \in DOMAIN queue[next].txs : queue[next].txs[j] = tx
        BY <4>1, <3>1, <1>2 DEF EntryAgrees
      <4>2. CASE ~\E j \in DOMAIN queue[next].txs : queue[next].txs[j] = tx
        BY <4>2, <3>2, <2>4, RemainsWatched
      <4> QED
        BY <4>1, <4>2
    <3> QED
      BY <2>1, <2>2, <3>2, <1>1, WatchedStep
  <2> QED
    BY <2>3, <2>4, <1>4
<1>7. minPl' \in 0..MaxPipelines + 1 /\ minPl' <= pl + 1
  BY <1>1, QueueFacts
<1>8. scanned' \in BOOLEAN /\ silent' \in BOOLEAN /\ stops' \in Nat
  BY <1>1, <1>4 DEF IInv, Typed
<1> QED
  BY <1>1, <1>4, <1>6, <1>7, <1>8, QueueStep

LEMMA CheckNextFailsKeeps ==
  ASSUME IInv, NEW late \in BOOLEAN, CheckNextFails(late)
  PROVE  IInv'
<1> DEFINE r == queue[next].receipt
<1>1. /\ pc = "loop" /\ queue # <<>> /\ HandleReceipt(r, late) /\ stops' = stops + 1
      /\ UNCHANGED <<chain, mempool, dropped, seen, pl, running, last, batchCh, discardCh,
                     minPl, nextNonce, silent>>
  BY DEF CheckNextFails, envVars, coVars, chVars, Tell
<1>2. r \in Receipts
  BY <1>1, PositionsBefore, EntryType DEF IInv
<1> HIDE DEF r
<1>3. /\ FromQueue /\ Positions'
      /\ pc' \in {"loop", "resend", "scan"} /\ pos' \in Nat \ {0}
      /\ scanned' = FALSE
  BY <1>1, <1>2, ReceiptHandled
<1>4. stops' \in Nat /\ stops' # 0 /\ scanned' \in BOOLEAN /\ silent' \in BOOLEAN
  <2>1. stops' \in Nat /\ stops' # 0
    BY <1>1, NumbersType DEF IInv
  <2>2. scanned' \in BOOLEAN
    BY <1>3
  <2>3. silent' \in BOOLEAN
    BY <1>1 DEF IInv, Typed
  <2> QED
    BY <2>1, <2>2, <2>3
<1>5. Watched'
  BY <1>4 DEF Watched, Quiet
<1>6. minPl' \in 0..MaxPipelines + 1 /\ minPl' <= pl + 1
  BY <1>1, QueueFacts
<1> QED
  BY <1>1, <1>3, <1>4, <1>5, <1>6, QueueStep

-----------------------------------------------------------------------------
(* The scan. *)

LEMMA ScanEntryKeeps ==
  ASSUME IInv, ScanEntry
  PROVE  IInv'
<1> DEFINE r == Receipt(queue[pos])
<1>1. /\ pc = "scan" /\ pos <= Len(queue)
      /\ UNCHANGED <<chain, mempool, dropped, seen, pl, running, last, stops, batchCh, discardCh,
                     nextNonce, pc, silent>>
  BY DEF ScanEntry, envVars, coVars, chVars
<1>2. \/ /\ minPl' = Max({minPl, queue[pos].pl + 1})
         /\ RemoveEntry(pos) /\ scanned' = TRUE /\ UNCHANGED pos
      \/ /\ queue[pos].pl < minPl
         /\ RemoveEntry(pos) /\ UNCHANGED <<minPl, scanned, pos>>
      \/ /\ Remember(pos, r) /\ pos' = pos + 1
         /\ UNCHANGED <<minPl, scanned, next>>
  BY DEF ScanEntry
<1>3. Typed /\ pos \in DOMAIN queue /\ pos \in Nat \ {0} /\ minPl \in Nat /\ pl \in Nat
      /\ minPl <= pl + 1 /\ minPl \in 0..MaxPipelines + 1
  BY <1>1, QueueFacts, NumbersType DEF Typed
<1>4. /\ queue[pos] \in Entries /\ EntryAgrees(queue[pos]) /\ queue[pos].pl <= pl
      /\ queue[pos].pl \in 1..MaxPipelines /\ queue[pos].pl \in Nat
  BY <1>3, EntryType, QueueFacts
<1>5. r \in Receipts
  BY <1>3, <1>4, ReceiptTells
<1> HIDE DEF r
<1>6. Alive' = Alive /\ pc' \in {"loop", "resend", "scan"} /\ silent' \in BOOLEAN /\ stops' \in Nat
      /\ pc' # "resend"
  BY <1>1 DEF Alive, IInv, Typed
<1>7. CASE /\ minPl' = Max({minPl, queue[pos].pl + 1})
           /\ RemoveEntry(pos) /\ scanned' = TRUE /\ UNCHANGED pos
  <2>1. FromQueue /\ IF queue' = <<>> THEN next' = 1 ELSE next' \in DOMAIN queue'
    BY <1>3, <1>7, Removed
  <2>2. Positions'
    BY <1>1, <1>6, <2>1 DEF Positions
  <2>3. Watched'
    BY <1>7 DEF Watched, Quiet
  <2>4. minPl' \in 0..MaxPipelines + 1 /\ minPl' <= pl + 1
    <3>1. queue[pos].pl + 1 \in Nat /\ queue[pos].pl + 1 \in 0..MaxPipelines + 1
          /\ queue[pos].pl + 1 <= pl + 1
      BY <1>3, <1>4, TxManagerAssumption
    <3>2. minPl' \in {minPl, queue[pos].pl + 1}
      BY <3>1, <1>3, <1>7, MaxOfTwo
    <3> QED
      BY <3>1, <3>2, <1>3
  <2>5. scanned' \in BOOLEAN /\ pos' \in Nat \ {0}
    BY <1>3, <1>7
  <2> QED
    BY <1>1, <1>6, <2>1, <2>2, <2>3, <2>4, <2>5, QueueStep
<1>8. CASE /\ queue[pos].pl < minPl
           /\ RemoveEntry(pos) /\ UNCHANGED <<minPl, scanned, pos>>
  <2>1. FromQueue /\ RemainsBut(pos) /\ IF queue' = <<>> THEN next' = 1 ELSE next' \in DOMAIN queue'
    BY <1>3, <1>8, Removed
  <2>2. Positions'
    BY <1>1, <1>6, <2>1 DEF Positions
  <2>3. Quiet' => Quiet /\ minPl' <= pl
    BY <1>1, <1>8 DEF Quiet, IInv, Watched
  <2>4. Watched'
    <3>1. ASSUME Quiet', NEW tx, InQueue(tx), Last(tx.root) = pl PROVE InQueue(tx)'
      <4>1. queue[pos].pl # pl
        BY <3>1, <2>3, <1>3, <1>4, <1>8
      <4>2. \A j \in DOMAIN queue[pos].txs : queue[pos].txs[j] # tx
        BY <3>1, <4>1, <1>4 DEF EntryAgrees
      <4> QED
        BY <3>1, <4>2, <2>1, RemainsWatched
    <3> QED
      BY <2>3, <3>1, <1>1, <1>6, WatchedStep
  <2>5. scanned' \in BOOLEAN /\ pos' \in Nat \ {0} /\ minPl' \in 0..MaxPipelines + 1 /\ minPl' <= pl + 1
    BY <1>3, <1>8 DEF Typed
  <2> QED
    BY <1>1, <1>6, <2>1, <2>2, <2>4, <2>5, QueueStep
<1>9. CASE /\ Remember(pos, r) /\ pos' = pos + 1
           /\ UNCHANGED <<minPl, scanned, next>>
  <2>1. FromQueue /\ RemainsBut(0) /\ DOMAIN queue' = DOMAIN queue /\ Len(queue') = Len(queue)
    BY <1>3, <1>5, <1>9, Remembered
  <2>2. Positions'
    <3>1. next \in DOMAIN queue /\ queue' # <<>>
      BY <1>3, <2>1, PositionsBefore
    <3> QED
      BY <3>1, <1>1, <1>6, <1>9, <2>1 DEF Positions
  <2>3. Quiet' => Quiet /\ minPl' <= pl
    BY <1>1, <1>9 DEF Quiet, IInv, Watched
  <2>4. Watched'
    <3>1. \A tx : InQueue(tx) => InQueue(tx)'
      BY <2>1, <1>3, RemainsWatched, ZeroIsNoPosition
    <3> QED
      BY <2>3, <3>1, <1>1, <1>6, WatchedStep
  <2>5. pos' \in Nat \ {0}
    BY <1>3, <1>9
  <2>6. scanned' \in BOOLEAN /\ minPl' \in 0..MaxPipelines + 1 /\ minPl' <= pl + 1
    BY <1>3, <1>9 DEF Typed
  <2> QED
    BY <1>1, <1>6, <2>1, <2>2, <2>4, <2>5, <2>6, QueueStep
<1> QED
  BY <1>2, <1>7, <1>8, <1>9

-----------------------------------------------------------------------------
(* Sending again. *)

\* the entry at pos is sent with nonce n; it remembers the transaction or does not
LEMMA EntryResent ==
  ASSUME IInv, pos \in DOMAIN queue, NEW n \in Nat, Tx(queue[pos], n) \in OurTxs, Reached(n)',
         Sent(n) \/ queue' = [queue EXCEPT ![pos].auth = n]
  PROVE  /\ queue' \in Seq(Entries) /\ DOMAIN queue' = DOMAIN queue /\ queue' # <<>>
         /\ \A i \in DOMAIN queue' :
              /\ EntryAgrees(queue'[i]) /\ queue'[i].pl <= pl
              /\ Reached(queue'[i].auth) \/ Reached(queue[i].auth)'
         /\ \A tx : InQueue(tx) => InQueue(tx)'
         /\ Sent(n) => \A tx : tx = Tx(queue[pos], n) => InQueue(tx)'
<1> DEFINE tx == Tx(queue[pos], n)
           txs == IF ~Sent(n) \/ Last(queue[pos].txs) = tx THEN queue[pos].txs
                                                         ELSE Append(queue[pos].txs, tx)
           e == [queue[pos] EXCEPT !.auth = n, !.txs = txs]
<1>1. Typed /\ queue \in Seq(Entries) /\ queue[pos] \in Entries /\ EntryAgrees(queue[pos])
      /\ queue[pos].pl <= pl /\ queue[pos].txs \in Seq(OurTxs)
  BY QueueFacts, EntryType
<1>2. tx \in OurTxs /\ tx.root = queue[pos].root
  BY DEF Tx
<1>3. /\ txs \in Seq(OurTxs) /\ txs # <<>>
      /\ \A j \in DOMAIN txs : txs[j].root = queue[pos].root
      /\ \A j \in DOMAIN queue[pos].txs : j \in DOMAIN txs /\ txs[j] = queue[pos].txs[j]
      /\ Sent(n) => \E j \in DOMAIN txs : txs[j] = tx
  <2> HIDE DEF tx
  <2>1. CASE ~Sent(n)
    BY <2>1, <1>1 DEF EntryAgrees
  <2>2. CASE Sent(n) /\ Last(queue[pos].txs) = tx
    <3>1. txs = queue[pos].txs
      BY <2>2
    <3> HIDE DEF txs
    <3>2. Len(queue[pos].txs) \in DOMAIN queue[pos].txs
      BY <1>1 DEF EntryAgrees
    <3>3. txs[Len(queue[pos].txs)] = tx
      BY <2>2, <3>1 DEF Last
    <3> QED
      BY <3>1, <3>2, <3>3, <1>1 DEF EntryAgrees
  <2>3. CASE Sent(n) /\ Last(queue[pos].txs) # tx
    <3>1. txs = Append(queue[pos].txs, tx)
      BY <2>3
    <3> HIDE DEF txs
    <3>2. /\ txs \in Seq(OurTxs) /\ Len(txs) = Len(queue[pos].txs) + 1
          /\ \A j \in 1..Len(queue[pos].txs) : txs[j] = queue[pos].txs[j]
          /\ txs[Len(txs)] = tx /\ Len(queue[pos].txs) \in Nat
          /\ DOMAIN queue[pos].txs = 1..Len(queue[pos].txs)
      BY <3>1, <1>1, <1>2
    <3>3. Len(txs) \in DOMAIN txs /\ DOMAIN txs = 1..Len(queue[pos].txs) + 1
      BY <3>2
    <3>4. txs # <<>>
      BY <3>2
    <3>5. ASSUME NEW j \in DOMAIN txs PROVE txs[j].root = queue[pos].root
      <4>1. CASE j \in 1..Len(queue[pos].txs)
        BY <4>1, <3>2, <1>1 DEF EntryAgrees
      <4>2. CASE j = Len(txs)
        BY <4>2, <3>2, <1>2
      <4> QED
        BY <4>1, <4>2, <3>2, <3>3
    <3>6. \A j \in DOMAIN queue[pos].txs : j \in DOMAIN txs /\ txs[j] = queue[pos].txs[j]
      BY <3>2, <3>3
    <3> QED
      BY <3>2, <3>3, <3>4, <3>5, <3>6
  <2> QED
    BY <2>1, <2>2, <2>3
<1>4. queue' = [queue EXCEPT ![pos] = e]
  <2>1. CASE Sent(n)
    BY <2>1, <1>1 DEF Sent
  <2>2. CASE ~Sent(n)
    <3>1. e = [queue[pos] EXCEPT !.auth = n]
      BY <2>2, <1>1 DEF Entries
    <3> QED
      BY <2>2, <3>1, <1>1
  <2> QED
    BY <2>1, <2>2
<1> HIDE DEF txs, tx
<1>5. e \in Entries /\ e.root = queue[pos].root /\ e.pl = queue[pos].pl /\ e.txs = txs /\ e.auth = n
  BY <1>1, <1>3 DEF Entries
<1> HIDE DEF e
<1>6. /\ queue' \in Seq(Entries) /\ DOMAIN queue' = DOMAIN queue
      /\ \A i \in DOMAIN queue : queue'[i] = IF i = pos THEN e ELSE queue[i]
  BY <1>1, <1>4, <1>5, ExceptSeq
<1>7. queue' # <<>>
  BY <1>6
<1>8. ASSUME NEW i \in DOMAIN queue'
      PROVE  /\ EntryAgrees(queue'[i]) /\ queue'[i].pl <= pl
             /\ Reached(queue'[i].auth) \/ Reached(queue[i].auth)'
  <2>1. CASE i = pos
    <3>1. queue'[i] = e
      BY <2>1, <1>6
    <3>2. Reached(queue[i].auth)'
      BY <3>1, <1>5 DEF Reached
    <3>3. EntryAgrees(e) /\ e.pl <= pl
      BY <1>1, <1>3, <1>5 DEF EntryAgrees
    <3> QED
      BY <3>1, <3>2, <3>3
  <2>2. CASE i # pos
    BY <2>2, <1>6, QueueFacts
  <2> QED
    BY <2>1, <2>2
<1>9. ASSUME NEW t, InQueue(t) PROVE InQueue(t)'
  <2>1. PICK i \in DOMAIN queue : \E j \in DOMAIN queue[i].txs : queue[i].txs[j] = t
    BY <1>9 DEF InQueue
  <2>2. \E j \in DOMAIN queue'[i].txs : queue'[i].txs[j] = t
    BY <2>1, <1>3, <1>5, <1>6
  <2> QED
    BY <2>1, <2>2, <1>6 DEF InQueue
<1>10. ASSUME Sent(n), NEW t, t = tx PROVE InQueue(t)'
  <2>1. PICK j \in DOMAIN txs : txs[j] = t
    BY <1>3, <1>10
  <2>2. pos \in DOMAIN queue' /\ queue'[pos].txs = txs
    BY <1>5, <1>6
  <2> QED
    BY <2>1, <2>2 DEF InQueue
<1> QED
  BY <1>6, <1>7, <1>8, <1>9, <1>10 DEF tx

LEMMA ResendKeeps ==
  ASSUME IInv, Resend \/ ResendFails
  PROVE  IInv'
<1>1. /\ UNCHANGED <<seen, pl, running, last, batchCh, discardCh, minPl, next, nextNonce, scanned,
                     silent>>
      /\ pc = "resend" /\ pc' = "loop" /\ pos' = 1
      /\ (Resend /\ stops' = stops) \/ (ResendFails /\ stops' = stops + 1)
  BY DEF Resend, ResendFails, EndResend, coVars, chVars, Tell
<1>2. /\ Typed /\ pos \in DOMAIN queue /\ Reached(queue[pos].auth) /\ queue[pos].auth \in Nat
      /\ queue[pos].root \in BatchRoots /\ queue \in Seq(Entries) /\ Positions
      /\ stops \in Nat /\ pl \in Nat /\ seen \in Nat
  BY <1>1, QueueFacts, EntryType, NumbersType DEF Positions
<1>3. minPl' \in 0..MaxPipelines + 1 /\ minPl' <= pl + 1
  BY <1>1, QueueFacts
<1>4. pc' \in {"loop", "resend", "scan"} /\ pos' \in Nat \ {0} /\ scanned' \in BOOLEAN
      /\ silent' \in BOOLEAN /\ stops' \in Nat
  <2>1. pos' \in Nat \ {0}
    BY <1>1
  <2>2. pc' \in {"loop", "resend", "scan"}
    BY <1>1
  <2>3. scanned' \in BOOLEAN /\ silent' \in BOOLEAN /\ stops' \in Nat
    BY <1>1, <1>2 DEF Typed
  <2> QED
    BY <2>1, <2>2, <2>3
<1>5. BatchesAgree' /\ DiscardsAreOver' /\ (running' => pl' >= 1)
  BY <1>1 DEF BatchesAgree, DiscardsAreOver, IInv, Numbers
<1>6. ResendFails => ~Quiet'
  BY <1>1, <1>2 DEF Quiet, Resend, ResendFails, Tell
<1>7. ASSUME queue' # <<>>, DOMAIN queue' = DOMAIN queue PROVE Positions'
  BY <1>1, <1>2, <1>7 DEF Positions
<1>8. CASE ResendFails /\ UNCHANGED <<chain, mempool, dropped, queue>>
  <2>1. Typed'
    BY <1>1, <1>3, <1>4, <1>8 DEF IInv, Typed
  <2>2. Positions'
    BY <1>2, <1>7, <1>8
  <2> QED
    BY <1>1, <1>2, <1>3, <1>5, <1>6, <1>8, <2>1, <2>2, QueueUntouched
<1>9. CASE \E n \in Accepted(queue[pos].auth) :
             /\ Submit(queue[pos], n) \/ (ResendFails /\ UNCHANGED <<chain, mempool, dropped>>)
             /\ Sent(n) \/ (ResendFails /\ queue' = [queue EXCEPT ![pos].auth = n])
  <2>1. PICK n \in Accepted(queue[pos].auth) :
             /\ Submit(queue[pos], n) \/ (ResendFails /\ UNCHANGED <<chain, mempool, dropped>>)
             /\ Sent(n) \/ (ResendFails /\ queue' = [queue EXCEPT ![pos].auth = n])
    BY <1>9
  <2>2. n \in Nat /\ Reached(n)
    BY <1>2, AcceptedIsReached
  <2>3. Tx(queue[pos], n) \in OurTxs
    BY <1>2, <2>2 DEF Tx, OurTxs
  <2>4. /\ Reached(n)' /\ UNCHANGED <<chain, dropped>>
        /\ IsFiniteSet(DOMAIN mempool') /\ DOMAIN mempool' \subseteq Nat
        /\ mempool' \in [DOMAIN mempool' -> OurTxs]
        /\ MempoolAhead'
        /\ \A m \in Nat : Covered(m) => Covered(m)'
        /\ \A m \in DOMAIN mempool' : m \in DOMAIN mempool \/ m = n
        /\ Alive' \subseteq Alive \cup {Tx(queue[pos], n)}
    <3>1. CASE Submit(queue[pos], n)
      <4>1. UNCHANGED <<chain, dropped>>
        BY <3>1 DEF Submit
      <4> QED
        BY <3>1, <4>1, <1>2, Submitted
    <3>2. CASE UNCHANGED <<chain, mempool, dropped>>
      <4>1. AccNonce' = AccNonce /\ Alive' = Alive
        BY <3>2 DEF AccNonce, Alive
      <4>2. MempoolAhead' /\ \A m : Covered(m) <=> Covered(m)'
        BY <3>2, <4>1 DEF IInv, MempoolAhead, Covered
      <4>3. Reached(n)'
        BY <2>2, <4>2 DEF Reached
      <4> QED
        BY <3>2, <4>1, <4>2, <4>3 DEF IInv, Typed
    <3> QED
      BY <2>1, <3>1, <3>2
  <2>5. /\ queue' \in Seq(Entries) /\ DOMAIN queue' = DOMAIN queue /\ queue' # <<>>
        /\ \A i \in DOMAIN queue' :
             /\ EntryAgrees(queue'[i]) /\ queue'[i].pl <= pl
             /\ Reached(queue'[i].auth) \/ Reached(queue[i].auth)'
        /\ \A tx : InQueue(tx) => InQueue(tx)'
        /\ Sent(n) => \A tx : tx = Tx(queue[pos], n) => InQueue(tx)'
    BY <1>2, <2>1, <2>2, <2>3, <2>4, EntryResent
  <2>6. Watched'
    <3>1. CASE ResendFails
      BY <3>1, <1>6 DEF Watched
    <3>2. CASE ~ResendFails
      <4>1. Sent(n)
        BY <2>1, <3>2
      <4>2. Quiet' => Quiet /\ minPl' <= pl
        BY <1>1, <3>2 DEF Quiet, IInv, Watched
      <4>3. ASSUME NEW tx \in Alive'
            PROVE  InQueue(tx)' \/ (tx \in Alive /\ (InQueue(tx) => InQueue(tx)'))
        BY <2>4, <2>5, <4>1
      <4> QED
        BY <1>1, <2>4, <4>2, <4>3, WatchedStep
    <3> QED
      BY <3>1, <3>2
  <2>7. \A m \in DOMAIN mempool' : m \in DOMAIN mempool \/ Reached(m)'
    BY <2>4 DEF Reached
  <2>8. \A tx \in Alive' : tx \in Alive \/ Last(tx.root) <= pl
    <3>1. Last(queue[pos].root) <= pl
      BY <1>2, QueueFacts DEF EntryAgrees
    <3> QED
      BY <3>1, <2>4 DEF Tx
  <2>9. Positions' /\ batchCh' \in Seq(Batches) /\ nextNonce' \in Nat
    BY <1>1, <1>2, <1>7, <2>5 DEF Typed
  <2> QED
    BY <1>1, <1>3, <1>4, <1>5, <2>4, <2>5, <2>6, <2>7, <2>8, <2>9, ManagerStep
<1>10. CASE Resend
  BY <1>9, <1>10 DEF Resend
<1>11. CASE ResendFails
  BY <1>8, <1>9, <1>11 DEF ResendFails, envVars
<1> QED
  BY <1>10, <1>11

-----------------------------------------------------------------------------
(* The theorems. *)

LEMMA InitHolds ==
  ASSUME Init
  PROVE  IInv /\ troubles \in Nat
<1>1. /\ chain = <<>> /\ mempool = <<>> /\ dropped = {} /\ seen = 0 /\ pl = 0 /\ running = FALSE
      /\ last = <<>> /\ stops = 0 /\ batchCh = <<>> /\ discardCh = <<>> /\ minPl = 0
      /\ queue = <<>> /\ next = 1 /\ nextNonce = 0 /\ pc = "loop" /\ pos = 1
      /\ scanned = FALSE /\ silent = FALSE
  BY DEF Init
<1>2. DOMAIN mempool = {} /\ DOMAIN chain = {} /\ DOMAIN queue = {} /\ DOMAIN discardCh = {}
      /\ DOMAIN batchCh = {} /\ Len(chain) = 0
  BY <1>1
<1>3. \A i : Ours(chain, i) = {}
  BY <1>2 DEF Ours
<1>4. \A i : Count(chain, i) = 0
  BY <1>3, FS_EmptySet DEF Count
<1>5. Typed
  <2>1. chain \in Seq(Blocks) /\ batchCh \in Seq(Batches) /\ discardCh \in Seq(0..MaxPipelines)
        /\ queue \in Seq(Entries) /\ last \in Roots
    BY <1>1 DEF Roots
  <2>2. IsFiniteSet(DOMAIN mempool) /\ DOMAIN mempool \subseteq Nat
        /\ mempool \in [DOMAIN mempool -> OurTxs]
    BY <1>1, <1>2, FS_EmptySet
  <2>3. seen \in 0..Len(chain) /\ pl \in 0..MaxPipelines /\ minPl \in 0..MaxPipelines + 1
    BY <1>1, <1>2, TxManagerAssumption
  <2>4. pos \in Nat \ {0} /\ nextNonce \in Nat /\ stops \in Nat /\ dropped \subseteq Nat
    BY <1>1
  <2>5. pc \in {"loop", "resend", "scan"}
    BY <1>1
  <2>6. running \in BOOLEAN /\ scanned \in BOOLEAN /\ silent \in BOOLEAN
    BY <1>1
  <2> QED
    BY <2>1, <2>2, <2>3, <2>4, <2>5, <2>6 DEF Typed
<1>6. NoncesInOrder(chain)
  <2>1. \A i : Nonces(chain, i) = {}
    BY <1>3 DEF Nonces
  <2>2. 0..0 - 1 = {}
    OBVIOUS
  <2> QED
    BY <2>1, <2>2, <1>3, <1>4 DEF NoncesInOrder
<1>7. MempoolAhead
  BY <1>2 DEF MempoolAhead
<1>8. NothingSkipped
  <2>1. 0..nextNonce - 1 = {}
    BY <1>1
  <2> QED
    BY <2>1, <1>2 DEF NothingSkipped, Reached
<1>9. Alive = {}
  BY <1>2, <1>3 DEF Alive
<1>10. Positions
  BY <1>1 DEF Positions
<1>11. Numbers
  BY <1>1, <1>2, <1>9 DEF Numbers
<1>12. Watched
  BY <1>1 DEF Watched, Quiet
<1> QED
  BY <1>5, <1>6, <1>7, <1>8, <1>10, <1>11, <1>12, TxManagerAssumption DEF IInv, Init

LEMMA StutterKeeps ==
  ASSUME IInv, UNCHANGED vars
  PROVE  IInv'
<1>1. UNCHANGED <<chain, mempool, dropped, seen, pl, running, last, stops, batchCh, discardCh, minPl,
                  queue, next, nextNonce, pc, pos, why, scanned, silent>>
  BY DEF vars, envVars, coVars, chVars, tmVars, scanVars
<1>2. Typed' /\ Positions' /\ DiscardsAreOver' /\ BatchesAgree' /\ minPl' <= pl' + 1
      /\ (running' => pl' >= 1)
  BY <1>1 DEF IInv, Typed, Positions, DiscardsAreOver, BatchesAgree, Numbers
<1>3. Quiet' => Quiet /\ minPl' <= pl'
  BY <1>1 DEF Quiet, IInv, Watched
<1>4. pl \in Nat /\ seen \in Nat
  BY NumbersType DEF IInv
<1> QED
  BY <1>1, <1>2, <1>3, <1>4, QueueUntouched

LEMMA NextKeeps ==
  ASSUME IInv, [Next]_vars
  PROVE  IInv'
<1>1. CASE Mine
  BY <1>1, MineKeeps
<1>2. CASE MineOther \/ MineEmpty
  <2>1. RootAt(chain) \in Roots
    BY RootAtType DEF IInv, Typed
  <2>2. Append(RootAt(chain), 0) \in Roots
    <3> DEFINE S == 0..MaxPipelines
    <3>1. 0 \in S /\ RootAt(chain) \in Seq(S)
      BY <2>1, TxManagerAssumption DEF Roots
    <3> HIDE DEF S
    <3>2. Append(RootAt(chain), 0) \in Seq(S)
      BY <3>1
    <3> QED
      BY <3>2 DEF S, Roots
  <2> QED
    BY <1>2, <2>1, <2>2, OtherBlockKeeps DEF MineOther, MineEmpty
<1>3. CASE Reorg
  BY <1>3, ReorgKeeps
<1>4. CASE Drop
  BY <1>4, DropKeeps
<1>5. CASE StartPipeline
  BY <1>5, StartPipelineKeeps
<1>6. CASE Deliver
  BY <1>6, DeliverKeeps
<1>7. CASE HandleStop
  BY <1>7, HandleStopKeeps
<1>8. CASE HandleReorg
  BY <1>8, HandleReorgKeeps
<1>9. CASE SetSyncStats
  BY <1>9, SetSyncStatsKeeps
<1>10. CASE TakeAny
  BY <1>10, BatchLostKeeps, SendBatchKeeps DEF TakeAny
<1>11. CASE TakeDiscard
  BY <1>11, TakeDiscardKeeps
<1>12. CASE \E late \in BOOLEAN : CheckNext(late) \/ CheckNextFails(late)
  BY <1>12, CheckNextKeeps, CheckNextFailsKeeps
<1>13. CASE Resend \/ ResendFails
  BY <1>13, ResendKeeps
<1>14. CASE ScanEntry
  BY <1>14, ScanEntryKeeps
<1>15. CASE ScanEntryFails
  BY <1>15, ScanEntryFailsKeeps
<1>16. CASE ReadNonce \/ ReadNonceFails
  BY <1>16, EndScanKeeps
<1>17. CASE UNCHANGED vars
  BY <1>17, StutterKeeps
<1> QED
  BY <1>1, <1>2, <1>3, <1>4, <1>5, <1>6, <1>7, <1>8, <1>9, <1>10, <1>11, <1>12, <1>13, <1>14, <1>15,
     <1>16, <1>17 DEF Next

(* The invariant holds in every state that the TxManager reaches, however many
   batches, pipelines, forks and failures there are. *)
THEOREM TxManagerInductive == Spec => []IInv
BY InitHolds, NextKeeps, PTL DEF Spec

(* No nonce is left out by the TxManager: below each pending transaction every
   nonce of the account is pending too, or has been forgotten by the mempool,
   whatever sendRollupForgeBatch and removeBadBatchInfos do to accNextNonce and
   however the chain forks. *)
THEOREM NoncesHaveNoGap == Spec => []NoGap
<1>1. ASSUME IInv PROVE NoGap
  <2> SUFFICES ASSUME NEW n \in DOMAIN mempool, NEW m \in AccNonce..n
               PROVE  m \in DOMAIN mempool \cup dropped
    BY DEF NoGap
  <2>1. n \in Nat /\ Reached(n) /\ AccNonce \in Nat
    BY <1>1, NumbersType DEF IInv, Typed, NothingSkipped
  <2>2. m = n \/ m \in 0..n - 1
    BY <2>1
  <2>3. ~(m < AccNonce)
    BY <2>1
  <2> QED
    BY <2>1, <2>2, <2>3 DEF Reached, Covered
<1> QED
  BY <1>1, TxManagerInductive, PTL

(* A rejected batch of the running pipeline is never overlooked: the message that
   stops the pipeline is on its way, the scan has begun, or an entry of the queue
   shows the rejection to the next look at its receipt. *)
THEOREM RejectionIsNotMissed == Spec => []RejectionIsKnown
<1>1. ASSUME IInv PROVE RejectionIsKnown
  <2> SUFFICES ASSUME running, RejectedOf(pl), ~silent, ~(stops > 0), pc # "scan"
               PROVE  \E i \in DOMAIN queue : Rejected(Receipt(queue[i]))
    BY DEF RejectionIsKnown
  <2>1. Quiet /\ Typed
    BY <1>1, NumbersType DEF Quiet, IInv, Positions
  <2>2. PICK b \in DOMAIN chain :
          /\ chain[b].tx # NoTx /\ Last(chain[b].tx.root) = pl
          /\ ~MinedOK(chain[b].tx.root)
    BY DEF RejectedOf
  <2> DEFINE tx == chain[b].tx
  <2>3. tx \in Alive
    <3>1. b \in Ours(chain, Len(chain))
      BY <2>1, <2>2 DEF Ours, Typed
    <3> QED
      BY <3>1 DEF Alive
  <2>4. Confirmed(tx.root) \/ InQueue(tx)
    BY <1>1, <2>1, <2>2, <2>3 DEF IInv, Watched
  <2>5. ~Confirmed(tx.root)
    BY <2>2 DEF Confirmed, MinedOK
  <2>6. PICK i \in DOMAIN queue : \E j \in DOMAIN queue[i].txs : queue[i].txs[j] = tx
    BY <2>4, <2>5 DEF InQueue
  <2>7. queue[i] \in Entries /\ EntryAgrees(queue[i])
    BY <1>1, <2>1, EntryType, QueueFacts
  <2>8. tx.root = queue[i].root
    BY <2>6, <2>7 DEF EntryAgrees
  <2>9. Receipt(queue[i]) # None
    <3>1. \E j \in DOMAIN queue[i].txs : Mined(queue[i].txs[j])
      BY <2>6 DEF Mined
    <3> QED
      BY <3>1, <2>1, <2>7, ReceiptTells
  <2>10. ~Receipt(queue[i]).ok
    <3>1. PICK j \in DOMAIN queue[i].txs : \E c \in DOMAIN chain :
            /\ chain[c].tx = queue[i].txs[j]
            /\ (Receipt(queue[i]).ok <=> chain[c].ok)
      BY <2>1, <2>7, <2>9, ReceiptTells
    <3>2. queue[i].txs[j].root = queue[i].root
      BY <2>7 DEF EntryAgrees
    <3> QED
      BY <2>2, <2>8, <3>1, <3>2 DEF MinedOK
  <2> QED
    BY <2>9, <2>10 DEF Rejected
<1> QED
  BY <1>1, TxManagerInductive, PTL

-----------------------------------------------------------------------------
(* What is forgotten as confirmed. *)

LEMMA TroublesStay ==
  ASSUME troubles \in Nat, [Next]_vars
  PROVE  troubles' \in Nat
<1>1. CASE Mine \/ MineOther \/ MineEmpty \/ Reorg \/ Drop
  <2>1. troubles' = troubles \/ Trouble
    BY <1>1 DEF Mine, MineOther, MineEmpty, AddBlock, Reorg, Drop
  <2> QED
    BY <2>1 DEF Trouble
<1>2. CASE StartPipeline \/ Deliver \/ HandleStop \/ HandleReorg \/ SetSyncStats \/ TakeDiscard
  BY <1>2 DEF StartPipeline, Deliver, HandleStop, HandleReorg, SetSyncStats, TakeDiscard
<1>3. CASE TakeAny
  BY <1>3 DEF TakeAny, RefuseBatch, SendBatch, SendFails, SendUnmarked, Trouble, Works
<1>4. CASE \E late \in BOOLEAN : CheckNext(late) \/ CheckNextFails(late)
  BY <1>4 DEF CheckNext, CheckNextFails, Trouble, Works
<1>5. CASE Resend \/ ResendFails
  BY <1>5 DEF Resend, ResendFails, Trouble, Works
<1>6. CASE ScanEntry \/ ScanEntryFails \/ ReadNonce \/ ReadNonceFails
  BY <1>6 DEF ScanEntry, ScanEntryFails, ReadNonce, ReadNonceFails, Trouble, Works
<1>7. CASE UNCHANGED vars
  BY <1>7 DEF vars
<1> QED
  BY <1>1, <1>2, <1>3, <1>4, <1>5, <1>6, <1>7 DEF Next

\* an entry whose root is not in the queue any more has been removed
LEMMA GoneIsRemoved ==
  ASSUME NEW p, RemainsBut(p), NEW i \in DOMAIN queue,
         \A j \in DOMAIN queue' : queue'[j].root # queue[i].root
  PROVE  i = p
BY DEF RemainsBut, Same

LEMMA CheckNextForgets ==
  ASSUME IInv, NEW late \in BOOLEAN, CheckNext(late), NEW i \in DOMAIN queue,
         \A j \in DOMAIN queue' : queue'[j].root # queue[i].root
  PROVE  Deep(queue[i].root)
<1> DEFINE r == Receipt(queue[next])
<1>1. pc = "loop" /\ queue # <<>> /\ HandleReceipt(r, late)
  BY DEF CheckNext
<1>2. /\ next \in DOMAIN queue /\ queue[next] \in Entries /\ Typed
      /\ EntryAgrees(queue[next]) /\ chain \in Seq(Blocks)
      /\ seen \in Nat /\ seen <= Len(chain)
  BY <1>1, PositionsBefore, EntryType, QueueFacts DEF Typed
<1>3. /\ r \in Receipts
      /\ r # None => \E j \in DOMAIN queue[next].txs : \E b \in DOMAIN chain :
           chain[b].tx = queue[next].txs[j] /\ r.block = b /\ (r.ok <=> chain[b].ok)
  BY <1>2, ReceiptTells
<1> HIDE DEF r
<1>4. \/ RemainsBut(0)
      \/ RemainsBut(next) /\ r # None /\ r.ok /\ seen - r.block >= ConfirmBlocks
  BY <1>1, <1>3, ReceiptHandled
<1>5. i = next /\ r # None /\ r.ok /\ seen - r.block >= ConfirmBlocks
  BY <1>2, <1>4, GoneIsRemoved, ZeroIsNoPosition
<1>6. PICK j \in DOMAIN queue[next].txs : \E b \in DOMAIN chain :
        chain[b].tx = queue[next].txs[j] /\ r.block = b /\ (r.ok <=> chain[b].ok)
  BY <1>3, <1>5
<1>7. PICK b \in DOMAIN chain :
        chain[b].tx = queue[next].txs[j] /\ r.block = b /\ (r.ok <=> chain[b].ok)
  BY <1>6
<1>8. chain[b].tx.root = queue[i].root /\ chain[b].ok
  BY <1>2, <1>5, <1>7 DEF EntryAgrees
<1>9. Len(chain) - b >= ConfirmBlocks
  <2>1. b \in Nat /\ Len(chain) \in Nat /\ ConfirmBlocks \in Nat
    BY <1>2, TxManagerAssumption
  <2> QED
    BY <2>1, <1>2, <1>5, <1>7
<1> QED
  BY <1>8, <1>9 DEF Deep

\* no other step takes an entry away while the TxManager waits
LEMMA OthersForgetNothing ==
  ASSUME IInv, troubles \in Nat, [Next]_vars, pc = "loop", troubles' = troubles,
         \A late \in BOOLEAN : ~CheckNext(late),
         NEW i \in DOMAIN queue
  PROVE  \E j \in DOMAIN queue' : queue'[j].root = queue[i].root
<1>1. troubles' # troubles + 1
  OBVIOUS
<1>2. queue \in Seq(Entries)
  BY QueueFacts
<1>3. CASE queue' = queue
  BY <1>3
<1>4. CASE \E e : queue' = Append(queue, e)
  <2>1. PICK e : queue' = Append(queue, e)
    BY <1>4
  <2>2. i \in DOMAIN queue' /\ queue'[i] = queue[i]
    BY <2>1, <1>2
  <2> QED
    BY <2>2
<1>5. queue' = queue \/ \E e : queue' = Append(queue, e)
  <2>1. CASE Mine \/ MineOther \/ MineEmpty \/ Reorg \/ Drop
    BY <2>1 DEF Mine, MineOther, MineEmpty, AddBlock, Reorg, Drop, tmVars
  <2>2. CASE StartPipeline \/ Deliver \/ HandleStop \/ HandleReorg \/ SetSyncStats \/ TakeDiscard
    BY <2>2 DEF StartPipeline, Deliver, HandleStop, HandleReorg, SetSyncStats, TakeDiscard, tmVars
  <2>3. CASE TakeAny
    BY <2>3, <1>1 DEF TakeAny, RefuseBatch, SendBatch, SendFails, SendUnmarked, Trouble
  <2>4. CASE \E late \in BOOLEAN : CheckNext(late) \/ CheckNextFails(late)
    BY <2>4, <1>1 DEF CheckNextFails, Trouble
  <2>5. CASE Resend \/ ResendFails \/ ScanEntry \/ ScanEntryFails \/ ReadNonce \/ ReadNonceFails
    BY <2>5 DEF Resend, ResendFails, EndResend, ScanEntry, ScanEntryFails, ReadNonce,
                ReadNonceFails, EndScan
  <2>6. CASE UNCHANGED vars
    BY <2>6 DEF vars, tmVars
  <2> QED
    BY <2>1, <2>2, <2>3, <2>4, <2>5, <2>6 DEF Next
<1> QED
  BY <1>3, <1>4, <1>5

(* The TxManager forgets a batch as confirmed only when the contract has
   accepted it and ConfirmBlocks blocks are above it: handleReceipt never removes
   an entry for less, and no other step of Run does while the node answers. *)
THEOREM ForgottenOnlyWhenFinal == Spec => ForgottenIsFinal
<1> DEFINE Step ==
      pc = "loop" /\ troubles' = troubles =>
        \A i \in DOMAIN queue :
          (\A j \in DOMAIN queue' : queue'[j].root # queue[i].root) => Deep(queue[i].root)
           TroublesCounted == troubles \in Nat
<1>1. ASSUME IInv, TroublesCounted, [Next]_vars PROVE Step
  <2> SUFFICES ASSUME pc = "loop", troubles' = troubles, NEW i \in DOMAIN queue,
                      \A j \in DOMAIN queue' : queue'[j].root # queue[i].root
               PROVE  Deep(queue[i].root)
    OBVIOUS
  <2>1. PICK late \in BOOLEAN : CheckNext(late)
    BY <1>1, OthersForgetNothing
  <2> QED
    BY <1>1, <2>1, CheckNextForgets
<1>2. Spec => []TroublesCounted
  <2>1. Init => TroublesCounted
    BY InitHolds
  <2>2. TroublesCounted /\ [Next]_vars => TroublesCounted'
    BY TroublesStay
  <2> QED
    BY <2>1, <2>2, PTL DEF Spec
<1>3. ASSUME IInv, TroublesCounted, [Next]_vars PROVE [Step]_vars
  BY <1>1, <1>3
<1> QED
  BY <1>2, <1>3, TxManagerInductive, PTL DEF Spec, ForgottenIsFinal
=============================================================================
