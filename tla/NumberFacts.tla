---------------------------- MODULE NumberFacts ----------------------------
(***************************************************************************)
(* Facts about numbers that the proofs about several components need:      *)
(* least and greatest elements, induction over the members of a set, which *)
(* takes the place of induction over a formula, sums over finite sets, and *)
(* quotients by a divisor that is not known.                               *)
(***************************************************************************)
EXTENDS Integers, FiniteSetsExt, FiniteSetTheorems, TLAPS

\* A set of naturals that is not empty has a least element.
LEMMA LeastElement ==
  ASSUME NEW S, S \subseteq Nat, S # {}
  PROVE  \E n \in S : \A m \in S : n <= m
<1>1. PICK n \in S : \A m \in S : ~(<<m, n>> \in OpToRel(<, Nat))
  BY WFMin, NatLessThanWellFounded
<1>2. ASSUME NEW m \in S PROVE n <= m
  <2>1. m \in Nat /\ n \in Nat /\ ~(<<m, n>> \in OpToRel(<, Nat))
    BY <1>1
  <2> QED
    BY <2>1 DEF OpToRel
<1> QED
  BY <1>2

\* Induction over the naturals, and over finite sets, for a property that is given
\* as the set of the things that have it.
LEMMA EveryNatural ==
  ASSUME NEW Q, 0 \in Q, \A n \in Nat : n \in Q => n + 1 \in Q
  PROVE  \A n \in Nat : n \in Q
<1> SUFFICES ASSUME ~(\A n \in Nat : n \in Q) PROVE FALSE
  OBVIOUS
<1>1. PICK n \in Nat \ Q : \A m \in Nat \ Q : n <= m
  <2>1. Nat \ Q # {} /\ Nat \ Q \subseteq Nat
    OBVIOUS
  <2> QED
    BY <2>1, LeastElement
<1>2. n # 0 /\ n - 1 \in Nat /\ ~(n <= n - 1)
  OBVIOUS
<1>3. n - 1 \in Q
  BY <1>1, <1>2
<1>4. (n - 1) + 1 \in Q
  BY <1>2, <1>3
<1> QED
  BY <1>4

LEMMA OneLess ==
  ASSUME NEW T, IsFiniteSet(T), NEW x \in T
  PROVE  /\ Cardinality(T) \in Nat /\ Cardinality(T) > 0
         /\ IsFiniteSet(T \ {x}) /\ Cardinality(T \ {x}) = Cardinality(T) - 1
<1>1. Cardinality(T) \in Nat
  BY FS_CardinalityType
<1>2. Cardinality(T) # 0
  <2>1. Cardinality(T) = 0 => T = {}
    BY FS_EmptySet
  <2> QED
    BY <2>1
<1>3. IsFiniteSet(T \ {x}) /\ Cardinality(T \ {x}) = Cardinality(T) - 1
  BY FS_RemoveElement
<1> QED
  BY <1>1, <1>2, <1>3

LEMMA EveryFiniteSet ==
  ASSUME NEW S, IsFiniteSet(S), NEW F, {} \in F,
         \A T \in SUBSET S : \A x \in S \ T : T \in F => T \cup {x} \in F
  PROVE  S \in F
<1> DEFINE Q == {n \in Nat : \A T \in SUBSET S : Cardinality(T) = n => T \in F}
<1>1. 0 \in Q
  <2> SUFFICES ASSUME NEW T \in SUBSET S, Cardinality(T) = 0 PROVE T \in F
    OBVIOUS
  <2>1. T = {}
    BY FS_Subset, FS_EmptySet
  <2> QED
    BY <2>1
<1>2. ASSUME NEW n \in Nat, n \in Q PROVE n + 1 \in Q
  <2> SUFFICES ASSUME NEW T \in SUBSET S, Cardinality(T) = n + 1 PROVE T \in F
    OBVIOUS
  <2>1. IsFiniteSet(T)
    BY FS_Subset
  <2>2. T # {}
    <3>1. Cardinality({}) = 0
      BY FS_EmptySet
    <3> QED
      BY <3>1
  <2>3. PICK x \in T : TRUE
    BY <2>2
  <2>4. Cardinality(T \ {x}) = n
    BY <2>1, <2>3, OneLess
  <2>5. T \ {x} \in F
    BY <2>4, <1>2
  <2>6. (T \ {x}) \cup {x} \in F
    BY <2>5, <2>3
  <2>7. (T \ {x}) \cup {x} = T
    BY <2>3
  <2> QED
    BY <2>6, <2>7
<1>3. \A n \in Nat : n \in Q
  <2> HIDE DEF Q
  <2> QED
    BY <1>1, <1>2, EveryNatural
<1>4. Cardinality(S) \in Nat
  BY FS_CardinalityType
<1> QED
  BY <1>3, <1>4

LEMMA GreatestElement ==
  ASSUME NEW n \in Nat, NEW S, S \subseteq 0..n, S # {}
  PROVE  Max(S) \in S /\ \A m \in S : m <= Max(S)
<1> DEFINE T == {n - m : m \in S}
<1>1. T \subseteq Nat /\ T # {}
  OBVIOUS
<1>2. PICK t \in T : \A u \in T : t <= u
  BY <1>1, LeastElement
<1>3. PICK m \in S : t = n - m
  BY <1>2
<1>4. \A k \in S : k <= m
  <2> SUFFICES ASSUME NEW k \in S PROVE k <= m
    OBVIOUS
  <2>1. n - k \in T
    OBVIOUS
  <2>2. t <= n - k
    BY <2>1, <1>2
  <2>3. k \in 0..n /\ m \in 0..n
    OBVIOUS
  <2> QED
    BY <2>2, <2>3, <1>3
<1>5. \E x \in S : \A y \in S : x >= y
  BY <1>4
<1> QED
  BY <1>5 DEF Max

LEMMA MaxOfTwo ==
  ASSUME NEW a \in Nat, NEW b \in Nat
  PROVE  /\ Max({a, b}) \in {a, b}
         /\ Max({a, b}) >= a /\ Max({a, b}) >= b
<1>1. \E x \in {a, b} : \A y \in {a, b} : x >= y
  <2>1. CASE a >= b
    BY <2>1
  <2>2. CASE ~(a >= b)
    BY <2>2
  <2> QED
    BY <2>1, <2>2
<1>2. DEFINE m == CHOOSE x \in {a, b} : \A y \in {a, b} : x >= y
<1>3. m \in {a, b} /\ \A y \in {a, b} : m >= y
  BY <1>1
<1> QED
  BY <1>3 DEF Max

LEMMA Modulo ==
  ASSUME NEW a \in Nat, NEW n \in Nat \ {0}
  PROVE  a % n \in 0..n - 1
OBVIOUS

-----------------------------------------------------------------------------
(* Sums. *)

One(T) == CHOOSE x \in T : TRUE

IsSum(g, S, G) ==
  G = [T \in SUBSET S |-> IF T = {} THEN 0 ELSE g[One(T)] + G[T \ {One(T)}]]

LEMMA OneIsIn ==
  ASSUME NEW T, T # {}
  PROVE  One(T) \in T
BY DEF One

LEMMA SumExists ==
  ASSUME NEW g, NEW S, IsFiniteSet(S)
  PROVE  \E G : IsSum(g, S, G)
<1> DEFINE D(n) == {T \in SUBSET S : Cardinality(T) <= n}
           E(G, n) == G = [T \in D(n) |-> IF T = {} THEN 0 ELSE g[One(T)] + G[T \ {One(T)}]]
           Q == {n \in Nat : \E G : E(G, n)}
<1>0. ASSUME NEW T \in SUBSET S, T # {}
      PROVE  /\ One(T) \in T /\ T \ {One(T)} \in SUBSET S
             /\ Cardinality(T) \in Nat /\ Cardinality(T) > 0
             /\ Cardinality(T \ {One(T)}) = Cardinality(T) - 1
  <2>1. One(T) \in T /\ T \ {One(T)} \in SUBSET S
    BY <1>0, OneIsIn
  <2>2. IsFiniteSet(T)
    BY FS_Subset
  <2> QED
    BY <2>1, <2>2, OneLess
<1>1. 0 \in Q
  <2> DEFINE G == [T \in D(0) |-> 0]
  <2>1. \A T \in D(0) : T = {}
    <3> SUFFICES ASSUME NEW T \in SUBSET S, Cardinality(T) <= 0, T # {} PROVE FALSE
      OBVIOUS
    <3>1. Cardinality(T) > 0 /\ Cardinality(T) \in Nat
      BY <1>0
    <3> QED
      BY <3>1
  <2>2. E(G, 0)
    BY <2>1
  <2> QED
    BY <2>2
<1>2. ASSUME NEW n \in Nat, n \in Q PROVE n + 1 \in Q
  <2>1. PICK G : E(G, n)
    BY <1>2
  <2> DEFINE H == [T \in D(n + 1) |-> IF T = {} THEN 0 ELSE g[One(T)] + G[T \ {One(T)}]]
  <2>2. ASSUME NEW T \in D(n + 1), T # {}
        PROVE  /\ T \ {One(T)} \in D(n) /\ T \ {One(T)} \in D(n + 1)
    BY <1>0, <2>2
  <2>3. ASSUME NEW T \in D(n) PROVE T \in D(n + 1) /\ H[T] = G[T]
    <3>1. T \in D(n + 1)
      BY FS_Subset, FS_CardinalityType
    <3>2. H[T] = IF T = {} THEN 0 ELSE g[One(T)] + G[T \ {One(T)}]
      BY <3>1
    <3>3. G[T] = IF T = {} THEN 0 ELSE g[One(T)] + G[T \ {One(T)}]
      BY <2>1
    <3> QED
      BY <3>1, <3>2, <3>3
  <2>4. \A T \in D(n + 1) : T # {} => H[T \ {One(T)}] = G[T \ {One(T)}]
    BY <2>2, <2>3
  <2>5. E(H, n + 1)
    <3> HIDE DEF D
    <3> QED
      BY <2>4
  <2>6. \E X : E(X, n + 1)
    <3> HIDE DEF H
    <3> QED
      BY <2>5
  <2> HIDE DEF E
  <2> QED
    BY <2>6
<1>3. \A n \in Nat : n \in Q
  <2> HIDE DEF Q
  <2> QED
    BY <1>1, <1>2, EveryNatural
<1>4. Cardinality(S) \in Nat /\ D(Cardinality(S)) = SUBSET S
  BY FS_CardinalityType, FS_Subset
<1>5. PICK G : E(G, Cardinality(S))
  BY <1>3, <1>4
<1> QED
  BY <1>4, <1>5 DEF IsSum

LEMMA SumIsSum ==
  ASSUME NEW g, NEW S, IsFiniteSet(S)
  PROVE  \E G : IsSum(g, S, G) /\ SumFunctionOnSet(g, S) = G[S]
<1> DEFINE G == CHOOSE G : IsSum(g, S, G)
<1>1. IsSum(g, S, G)
  BY SumExists
<1>2. SumFunctionOnSet(g, S) = G[S]
  BY DEF SumFunctionOnSet, FoldFunctionOnSet, MapThenFoldSet, IsSum, One
<1> QED
  BY <1>1, <1>2

\* the sums of the parts of a set do not depend on the set
LEMMA SumsAgree ==
  ASSUME NEW g, NEW S, IsFiniteSet(S), NEW T \in SUBSET S,
         NEW G, IsSum(g, S, G), NEW H, IsSum(g, T, H)
  PROVE  \A U \in SUBSET T : G[U] = H[U]
<1> DEFINE Q == {n \in Nat : \A U \in SUBSET T : Cardinality(U) = n => G[U] = H[U]}
<1>0. ASSUME NEW U \in SUBSET T
      PROVE  /\ IsFiniteSet(U) /\ Cardinality(U) \in Nat
             /\ G[U] = IF U = {} THEN 0 ELSE g[One(U)] + G[U \ {One(U)}]
             /\ H[U] = IF U = {} THEN 0 ELSE g[One(U)] + H[U \ {One(U)}]
  <2>1. IsFiniteSet(U)
    BY FS_Subset
  <2>2. U \in SUBSET S
    OBVIOUS
  <2> QED
    BY <2>1, <2>2, FS_CardinalityType DEF IsSum
<1>1. 0 \in Q
  <2> SUFFICES ASSUME NEW U \in SUBSET T, Cardinality(U) = 0 PROVE G[U] = H[U]
    OBVIOUS
  <2>1. U = {}
    BY <1>0, FS_EmptySet
  <2> QED
    BY <2>1, <1>0
<1>2. ASSUME NEW n \in Nat, n \in Q PROVE n + 1 \in Q
  <2> SUFFICES ASSUME NEW U \in SUBSET T, Cardinality(U) = n + 1 PROVE G[U] = H[U]
    OBVIOUS
  <2>1. CASE U = {}
    BY <2>1, <1>0
  <2>2. CASE U # {}
    <3>1. One(U) \in U /\ IsFiniteSet(U)
      BY <2>2, <1>0, OneIsIn
    <3>2. Cardinality(U \ {One(U)}) = n
      BY <3>1, OneLess
    <3>3. G[U \ {One(U)}] = H[U \ {One(U)}]
      BY <3>2, <1>2
    <3> QED
      BY <3>3, <1>0
  <2> QED
    BY <2>1, <2>2
<1>3. \A n \in Nat : n \in Q
  <2> HIDE DEF Q
  <2> QED
    BY <1>1, <1>2, EveryNatural
<1> QED
  BY <1>0, <1>3

LEMMA SumOfNone ==
  ASSUME NEW g
  PROVE  SumFunctionOnSet(g, {}) = 0
<1>1. IsFiniteSet({})
  BY FS_EmptySet
<1>2. PICK G : IsSum(g, {}, G) /\ SumFunctionOnSet(g, {}) = G[{}]
  BY <1>1, SumIsSum
<1> QED
  BY <1>2 DEF IsSum

LEMMA SumStep ==
  ASSUME NEW g, NEW S, IsFiniteSet(S), S # {}
  PROVE  SumFunctionOnSet(g, S) = g[One(S)] + SumFunctionOnSet(g, S \ {One(S)})
<1> DEFINE T == S \ {One(S)}
<1>1. IsFiniteSet(T) /\ T \in SUBSET S
  BY FS_RemoveElement
<1>2. PICK G : IsSum(g, S, G) /\ SumFunctionOnSet(g, S) = G[S]
  BY SumIsSum
<1>3. PICK H : IsSum(g, T, H) /\ SumFunctionOnSet(g, T) = H[T]
  BY <1>1, SumIsSum
<1>4. G[T] = H[T]
  BY <1>1, <1>2, <1>3, SumsAgree
<1>5. G[S] = g[One(S)] + G[T]
  BY <1>2 DEF IsSum
<1> QED
  BY <1>2, <1>3, <1>4, <1>5

LEMMA SumIsInt ==
  ASSUME NEW g, NEW S, IsFiniteSet(S), NEW K \in {Nat, Int}, \A x \in S : g[x] \in K
  PROVE  SumFunctionOnSet(g, S) \in K
<1> DEFINE Sum(T) == SumFunctionOnSet(g, T)
           Q == {n \in Nat : \A T \in SUBSET S : Cardinality(T) = n => Sum(T) \in K}
<1>0. ASSUME NEW T \in SUBSET S PROVE IsFiniteSet(T) /\ Cardinality(T) \in Nat
  BY FS_Subset, FS_CardinalityType
<1>1. 0 \in Q
  <2> SUFFICES ASSUME NEW T \in SUBSET S, Cardinality(T) = 0 PROVE Sum(T) \in K
    OBVIOUS
  <2>1. T = {}
    BY <1>0, FS_EmptySet
  <2> QED
    BY <2>1, SumOfNone
<1>2. ASSUME NEW n \in Nat, n \in Q PROVE n + 1 \in Q
  <2> SUFFICES ASSUME NEW T \in SUBSET S, Cardinality(T) = n + 1 PROVE Sum(T) \in K
    OBVIOUS
  <2>1. T # {}
    <3>1. Cardinality({}) = 0
      BY FS_EmptySet
    <3> QED
      BY <3>1
  <2>2. One(T) \in T /\ IsFiniteSet(T)
    BY <2>1, <1>0, OneIsIn
  <2>3. Cardinality(T \ {One(T)}) = n
    BY <2>2, OneLess
  <2>4. Sum(T \ {One(T)}) \in K /\ g[One(T)] \in K
    BY <2>2, <2>3, <1>2
  <2>5. Sum(T) = g[One(T)] + Sum(T \ {One(T)})
    BY <2>1, <2>2, SumStep
  <2> HIDE DEF Sum
  <2> QED
    BY <2>4, <2>5
<1>3. \A n \in Nat : n \in Q
  <2> HIDE DEF Q
  <2> QED
    BY <1>1, <1>2, EveryNatural
<1> QED
  BY <1>0, <1>3

\* one element of a sum, whichever it is
LEMMA SumWith ==
  ASSUME NEW g, NEW S, IsFiniteSet(S), \A x \in S : g[x] \in Int, NEW x \in S
  PROVE  SumFunctionOnSet(g, S) = g[x] + SumFunctionOnSet(g, S \ {x})
<1> DEFINE Sum(T) == SumFunctionOnSet(g, T)
           Q == {n \in Nat : \A T \in SUBSET S : Cardinality(T) = n =>
                   \A y \in T : Sum(T) = g[y] + Sum(T \ {y})}
<1>0. ASSUME NEW T \in SUBSET S
      PROVE  /\ IsFiniteSet(T) /\ Cardinality(T) \in Nat /\ Sum(T) \in Int
             /\ T # {} => One(T) \in T /\ Sum(T) = g[One(T)] + Sum(T \ {One(T)})
  <2>1. IsFiniteSet(T)
    BY FS_Subset
  <2> QED
    BY <2>1, FS_CardinalityType, SumIsInt, OneIsIn, SumStep
<1> HIDE DEF Sum
<1>1. 0 \in Q
  <2> SUFFICES ASSUME NEW T \in SUBSET S, Cardinality(T) = 0, NEW y \in T PROVE FALSE
    OBVIOUS
  <2> QED
    BY <1>0, FS_EmptySet
<1>2. ASSUME NEW n \in Nat, n \in Q PROVE n + 1 \in Q
  <2> SUFFICES ASSUME NEW T \in SUBSET S, Cardinality(T) = n + 1, NEW y \in T
               PROVE  Sum(T) = g[y] + Sum(T \ {y})
    OBVIOUS
  <2>1. One(T) \in T /\ Sum(T) = g[One(T)] + Sum(T \ {One(T)}) /\ IsFiniteSet(T)
    BY <1>0
  <2>2. CASE y = One(T)
    BY <2>1, <2>2
  <2>3. CASE y # One(T)
    <3> DEFINE z == One(T)
               R == (T \ {y}) \ {z}
    <3>1. y \in T \ {z} /\ z \in T \ {y} /\ (T \ {z}) \ {y} = R
      BY <2>1, <2>3
    <3>2. Cardinality(T \ {z}) = n /\ Cardinality(T \ {y}) = n
      BY <2>1, OneLess
    <3>3. Sum(T \ {z}) = g[y] + Sum(R)
      BY <3>1, <3>2, <1>2
    <3>4. Sum(T \ {y}) = g[z] + Sum(R)
      BY <3>1, <3>2, <1>2
    <3>5. g[y] \in Int /\ g[z] \in Int /\ Sum(R) \in Int
      BY <1>0, <2>1
    <3> HIDE DEF R
    <3> QED
      BY <2>1, <3>3, <3>4, <3>5
  <2> QED
    BY <2>2, <2>3
<1>3. \A n \in Nat : n \in Q
  <2> HIDE DEF Q
  <2> QED
    BY <1>1, <1>2, EveryNatural
<1> QED
  BY <1>0, <1>3 DEF Sum

LEMMA SumOfSame ==
  ASSUME NEW g, NEW h, NEW S, IsFiniteSet(S),
         \A x \in S : g[x] \in Int /\ h[x] = g[x]
  PROVE  SumFunctionOnSet(h, S) = SumFunctionOnSet(g, S)
<1> DEFINE F == {T \in SUBSET S : SumFunctionOnSet(h, T) = SumFunctionOnSet(g, T)}
<1>1. {} \in F
  BY SumOfNone
<1>2. ASSUME NEW T \in SUBSET S, NEW x \in S \ T, T \in F PROVE T \cup {x} \in F
  <2> DEFINE U == T \cup {x}
  <2>1. U \in SUBSET S /\ x \in U /\ U \ {x} = T
    OBVIOUS
  <2>2. IsFiniteSet(U)
    BY <2>1, FS_Subset
  <2>3. \A y \in U : g[y] \in Int /\ h[y] \in Int
    BY <2>1
  <2>4. SumFunctionOnSet(g, U) = g[x] + SumFunctionOnSet(g, T)
    BY <2>1, <2>2, <2>3, SumWith
  <2>5. SumFunctionOnSet(h, U) = h[x] + SumFunctionOnSet(h, T)
    BY <2>1, <2>2, <2>3, SumWith
  <2> QED
    BY <2>1, <2>4, <2>5, <1>2
<1>3. S \in F
  <2> HIDE DEF F
  <2> QED
    BY <1>1, <1>2, EveryFiniteSet
<1> QED
  BY <1>3

-----------------------------------------------------------------------------
(* Quotients. *)

LEMMA Quotient ==
  ASSUME NEW a \in Nat, NEW d \in Nat \ {0}
  PROVE  /\ a \div d \in Nat
         /\ (a \div d) * d <= a /\ a < (a \div d) * d + d
OBVIOUS

LEMMA ProductGrows ==
  ASSUME NEW p \in Int, NEW q \in Int, NEW d \in Nat \ {0}, p < q
  PROVE  p * d + d <= q * d
OBVIOUS

LEMMA QuotientGrows ==
  ASSUME NEW a \in Nat, NEW b \in Nat, NEW d \in Nat \ {0}, a <= b
  PROVE  a \div d <= b \div d
<1> DEFINE p == a \div d
           q == b \div d
<1>1. p \in Nat /\ p * d <= a /\ q \in Nat /\ b < q * d + d /\ p * d \in Int /\ q * d \in Int
  BY Quotient
<1> HIDE DEF p, q
<1>2. ~(q < p)
  BY <1>1, ProductGrows
<1>3. p <= q
  BY <1>1, <1>2
<1> QED
  BY <1>3 DEF p, q

LEMMA ExactQuotient ==
  ASSUME NEW q \in Nat, NEW d \in Nat \ {0}
  PROVE  (q * d) \div d = q
<1> DEFINE a == q * d
           r == a \div d
<1>1. a \in Nat /\ r \in Nat /\ r * d <= a /\ a < r * d + d /\ r * d \in Int
  BY Quotient
<1> HIDE DEF r
<1>2. ~(r < q)
  BY <1>1, ProductGrows
<1>3. ~(q < r)
  BY <1>1, ProductGrows
<1>4. r = q
  BY <1>1, <1>2, <1>3
<1> QED
  BY <1>4 DEF r

LEMMA NoRest ==
  ASSUME NEW a \in Nat, NEW d \in Nat \ {0}, a % d = 0
  PROVE  a \div d \in Nat /\ a = (a \div d) * d
OBVIOUS

LEMMA SmallModulo ==
  ASSUME NEW n \in Nat \ {0}, NEW a \in 0..n - 1
  PROVE  a % n = a
OBVIOUS
=============================================================================
