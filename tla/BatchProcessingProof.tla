------------------------ MODULE BatchProcessingProof ------------------------
(***************************************************************************)
(* Proofs about the accounts, for any tokens, addresses, keys, amounts,    *)
(* fees, limits and number of batches, and any accounts to begin with.     *)
(*                                                                         *)
(* IInv is inductive.  Conservation of money alone is not: a step moves it *)
(* between the accounts, the exit tree and the fees to distribute, and     *)
(* what it moves is all there only because accounts are numbered without   *)
(* gaps and hold no less than zero (Ready), because fees are counted for   *)
(* one account of each token at most (Collecting), and because what the    *)
(* other database does is the same (Twins).                                *)
(*                                                                         *)
(* Two things are proved in a round about way.  The sums over accounts and *)
(* the folds over the transactions' fees are data that cannot be proved by *)
(* induction as they stand: a fold is shown to be the last of the values   *)
(* that it goes through, and what holds of each of them is a set of        *)
(* numbers, or of sets, that nothing is missing from (NumberFacts).        *)
(***************************************************************************)
EXTENDS BatchProcessing, NumberFacts, SequenceTheorems

-----------------------------------------------------------------------------
(* Float40. *)

LEMMA PowerIs ==
  /\ Power[0] = 1
  /\ \A e \in Nat : Power[e + 1] = Radix * Power[e]
<1> DEFINE E(P, n) == P = [e \in 0..n |-> IF e = 0 THEN 1 ELSE Radix * P[e - 1]]
           Q == {n \in Nat : \E P : E(P, n)}
<1>1. 0 \in Q
  <2>1. E([e \in 0..0 |-> 1], 0)
    OBVIOUS
  <2>2. \E P : E(P, 0)
    BY <2>1
  <2> QED
    BY <2>2
<1>2. ASSUME NEW n \in Nat, n \in Q PROVE n + 1 \in Q
  <2>1. PICK P : E(P, n)
    BY <1>2
  <2> DEFINE R == [e \in 0..n + 1 |-> IF e = 0 THEN 1 ELSE Radix * P[e - 1]]
  <2>2. \A e \in 0..n : R[e] = P[e]
    BY <2>1
  <2>3. E(R, n + 1)
    <3> SUFFICES ASSUME NEW e \in 0..n + 1, e # 0 PROVE P[e - 1] = R[e - 1]
      OBVIOUS
    <3> QED
      BY <2>2
  <2>4. \E X : E(X, n + 1)
    <3> HIDE DEF R
    <3> QED
      BY <2>3
  <2> HIDE DEF E
  <2> QED
    BY <2>4
<1>3. \A n \in Nat : n \in Q
  <2> HIDE DEF Q
  <2> QED
    BY <1>1, <1>2, EveryNatural
<1> DEFINE At(n) == CHOOSE P : E(P, n)
<1>4. \A n \in Nat : E(At(n), n)
  <2> SUFFICES ASSUME NEW n \in Nat PROVE E(At(n), n)
    OBVIOUS
  <2>1. \E P : E(P, n)
    BY <1>3
  <2> HIDE DEF E
  <2> QED
    BY <2>1
<1> HIDE DEF At, Q
<1> DEFINE P == [e \in Nat |-> At(e)[e]]
           S == {n \in Nat : \A m \in Nat : m <= n => At(n)[m] = P[m]}
<1>5. \A n \in Nat : n \in S
  <2>1. 0 \in S
    OBVIOUS
  <2>2. ASSUME NEW n \in Nat, n \in S PROVE n + 1 \in S
    <3> SUFFICES ASSUME NEW m \in Nat, m <= n + 1, m # n + 1 PROVE At(n + 1)[m] = P[m]
      OBVIOUS
    <3> DEFINE U == {k \in Nat : k <= n => At(n + 1)[k] = At(n)[k]}
    <3>1. 0 \in U
      BY <1>4
    <3>2. ASSUME NEW k \in Nat, k \in U PROVE k + 1 \in U
      <4> SUFFICES ASSUME k + 1 <= n PROVE At(n + 1)[k + 1] = At(n)[k + 1]
        OBVIOUS
      <4>1. At(n + 1)[k + 1] = Radix * At(n + 1)[k]
        BY <1>4
      <4>2. At(n)[k + 1] = Radix * At(n)[k]
        BY <1>4
      <4> QED
        BY <3>2, <4>1, <4>2
    <3>3. \A k \in Nat : k \in U
      <4> HIDE DEF U
      <4> QED
        BY <3>1, <3>2, EveryNatural
    <3> QED
      BY <2>2, <3>3
  <2> HIDE DEF S
  <2> QED
    BY <2>1, <2>2, EveryNatural
<1>6. P = [e \in Nat |-> IF e = 0 THEN 1 ELSE Radix * P[e - 1]]
  <2> SUFFICES ASSUME NEW e \in Nat
               PROVE  P[e] = IF e = 0 THEN 1 ELSE Radix * P[e - 1]
    OBVIOUS
  <2>1. At(e)[e] = IF e = 0 THEN 1 ELSE Radix * At(e)[e - 1]
    BY <1>4
  <2>2. e # 0 => At(e)[e - 1] = P[e - 1]
    BY <1>5
  <2> QED
    BY <2>1, <2>2
<1>7. Power = [e \in Nat |-> IF e = 0 THEN 1 ELSE Radix * Power[e - 1]]
  <2>1. \E X : X = [e \in Nat |-> IF e = 0 THEN 1 ELSE Radix * X[e - 1]]
    <3> HIDE DEF P
    <3> QED
      BY <1>6
  <2> QED
    BY <2>1 DEF Power
<1>8. \A e \in Nat : Power[e] = IF e = 0 THEN 1 ELSE Radix * Power[e - 1]
  BY <1>7
<1>9. \A e \in Nat : e + 1 \in Nat /\ e + 1 # 0 /\ (e + 1) - 1 = e
  OBVIOUS
<1> QED
  BY <1>8, <1>9

LEMMA PowersArePositive ==
  \A e \in Nat : Power[e] \in Nat \ {0}
<1> DEFINE Q == {e \in Nat : Power[e] \in Nat \ {0}}
<1>1. 0 \in Q
  BY PowerIs
<1>2. ASSUME NEW e \in Nat, e \in Q PROVE e + 1 \in Q
  <2>1. Power[e + 1] = Radix * Power[e] /\ Radix \in Nat \ {0} /\ Power[e] \in Nat \ {0}
    BY <1>2, PowerIs, FloatAssumption
  <2>2. \A x, y \in Nat \ {0} : x * y \in Nat \ {0}
    OBVIOUS
  <2> QED
    BY <2>1, <2>2
<1>3. \A e \in Nat : e \in Q
  <2> HIDE DEF Q
  <2> QED
    BY <1>1, <1>2, EveryNatural
<1> QED
  BY <1>3

\* An amount that has a Float40 is the amount of it: zeros that go to the exponent
\* are not lost.
LEMMA ExactFloat ==
  ASSUME NEW a \in Nat
  PROVE  /\ BigInt(NewFloat40(a)) \in Nat
         /\ NewFloat40(a) # NotExact => BigInt(NewFloat40(a)) = a
<1> DEFINE m(e) == a \div Power[e]
           MayShift(e) == m(e) % Radix = 0 /\ m(e) >= Mantissa
           Shifts == {n \in 0 .. MaxExponent : \A k \in 0 .. n : MayShift(k)}
           j == Cardinality(Shifts)
<1>1. Radix \in Nat \ {0} /\ Mantissa \in Nat \ {0} /\ MaxExponent \in Nat
  BY FloatAssumption
<1>2. \A e \in Nat : m(e) \in Nat
  BY PowersArePositive, Quotient
<1>3. \E d \in Nat : Shifts = 0 .. d - 1
  <2> HIDE DEF MayShift
  <2>1. CASE 0 .. MaxExponent \subseteq Shifts
    <3>1. Shifts = 0 .. (MaxExponent + 1) - 1 /\ MaxExponent + 1 \in Nat
      BY <2>1, <1>1
    <3> QED
      BY <3>1
  <2>2. CASE ~(0 .. MaxExponent \subseteq Shifts)
    <3> DEFINE R == (0 .. MaxExponent) \ Shifts
    <3>1. R # {} /\ R \subseteq Nat
      BY <2>2
    <3>2. PICK d \in R : \A k \in R : d <= k
      BY <3>1, LeastElement
    <3>3. ASSUME NEW n \in Shifts PROVE n \in 0 .. d - 1
      <4>1. n \in 0 .. MaxExponent /\ d \in 0 .. MaxExponent /\ d \notin Shifts
        BY <3>2
      <4>2. ~(d <= n)
        <5> SUFFICES ASSUME d <= n PROVE d \in Shifts
          BY <4>1
        <5>1. \A k \in 0 .. d : k \in 0 .. n
          BY <4>1
        <5> QED
          BY <5>1, <4>1
      <4> QED
        BY <4>1, <4>2
    <3>4. ASSUME NEW n \in 0 .. d - 1 PROVE n \in Shifts
      <4>1. d \in 0 .. MaxExponent /\ n \in 0 .. MaxExponent /\ ~(d <= n)
        BY <3>2, <1>1
      <4>2. n \notin R
        BY <4>1, <3>2
      <4> QED
        BY <4>1, <4>2
    <3>5. d \in Nat
      BY <3>2
    <3> HIDE DEF Shifts
    <3> QED
      BY <3>3, <3>4, <3>5
  <2> QED
    BY <2>1, <2>2
<1>4. Shifts = 0 .. j - 1 /\ j \in Nat
  <2>1. PICK d \in Nat : Shifts = 0 .. d - 1
    BY <1>3
  <2>2. Cardinality(0 .. d - 1) = d
    BY FS_Interval
  <2> QED
    BY <2>1, <2>2
<1>5. \A k \in 0 .. j - 1 : MayShift(k)
  <2> HIDE DEF j, MayShift
  <2> SUFFICES ASSUME NEW k \in 0 .. j - 1 PROVE MayShift(k)
    OBVIOUS
  <2>1. k \in Shifts /\ k \in 0 .. k
    BY <1>4
  <2> QED
    BY <2>1
<1> HIDE DEF Shifts, j
<1>6. \A k \in Nat : k <= j => a = m(k) * Power[k]
  <2> DEFINE Q == {k \in Nat : k <= j => a = m(k) * Power[k]}
  <2>1. 0 \in Q
    <3>1. Power[0] = 1 /\ a \div 1 = a
      BY PowerIs
    <3> QED
      BY <3>1
  <2>2. ASSUME NEW k \in Nat, k \in Q PROVE k + 1 \in Q
    <3> SUFFICES ASSUME k + 1 <= j PROVE a = m(k + 1) * Power[k + 1]
      OBVIOUS
    <3> DEFINE P == Power[k]
               q == m(k) \div Radix
    <3>1. P \in Nat \ {0} /\ Power[k + 1] \in Nat \ {0} /\ Power[k + 1] = Radix * P
      BY PowersArePositive, PowerIs
    <3>2. a = m(k) * P /\ MayShift(k)
      BY <2>2, <1>4, <1>5
    <3>3. q \in Nat /\ m(k) = q * Radix
      BY <3>2, <1>1, <1>2, NoRest
    <3>4. a = q * Power[k + 1]
      <4> HIDE DEF q, P, m
      <4>1. a = (q * Radix) * P
        BY <3>2, <3>3
      <4>2. \A x, y, z \in Nat : (x * y) * z = x * (y * z)
        OBVIOUS
      <4> QED
        BY <4>1, <4>2, <3>1, <3>3, <1>1
    <3>5. m(k + 1) = q
      <4> HIDE DEF q
      <4> QED
        BY <3>1, <3>3, <3>4, ExactQuotient
    <3> QED
      BY <3>4, <3>5
  <2>3. \A k \in Nat : k \in Q
    <3> HIDE DEF Q
    <3> QED
      BY <2>1, <2>2, EveryNatural
  <2> QED
    BY <2>3
<1>7. NewFloat40(a) = IF j > MaxExponent \/ m(j) >= Mantissa THEN NotExact
                      ELSE [e |-> j, m |-> m(j)]
  BY DEF NewFloat40, j, Shifts
<1>8. CASE NewFloat40(a) = NotExact
  <2>1. BigInt(NotExact) = Mantissa * 1
    BY PowerIs DEF BigInt, NotExact
  <2> QED
    BY <2>1, <1>1, <1>8
<1>9. CASE NewFloat40(a) # NotExact
  <2>1. NewFloat40(a) = [e |-> j, m |-> m(j)]
    BY <1>7, <1>9
  <2>2. BigInt(NewFloat40(a)) = m(j) * Power[j]
    BY <2>1 DEF BigInt
  <2> QED
    BY <2>2, <1>6, <1>4
<1> QED
  BY <1>8, <1>9

LEMMA FloatOfNothing ==
  BigInt(Zero) = 0
<1>1. Radix \in Nat \ {0} /\ Mantissa \in Nat \ {0} /\ MaxExponent \in Nat
  BY FloatAssumption
<1>2. \A e \in Nat : 0 \div Power[e] = 0
  <2> SUFFICES ASSUME NEW e \in Nat PROVE 0 \div Power[e] = 0
    OBVIOUS
  <2>1. Power[e] \in Nat \ {0}
    BY PowersArePositive
  <2>2. (0 * Power[e]) \div Power[e] = 0
    BY <2>1, ExactQuotient
  <2> QED
    BY <2>1, <2>2
<1> DEFINE Shifts == {n \in 0 .. MaxExponent :
                         \A k \in 0 .. n : (0 \div Power[k]) % Radix = 0 /\ 0 \div Power[k] >= Mantissa}
<1>3. Shifts = {}
  BY <1>1, <1>2
<1>4. Cardinality(Shifts) = 0
  BY <1>3, FS_EmptySet
<1>5. NewFloat40(0) = [e |-> 0, m |-> 0]
  BY <1>1, <1>2, <1>4 DEF NewFloat40
<1> QED
  BY <1>5, PowerIs DEF Zero, BigInt

-----------------------------------------------------------------------------
(* Sums by token. *)

LEMMA OfTokenIsNat ==
  ASSUME NEW amounts, NEW account, NEW t, IsFiniteSet(DOMAIN amounts),
         \A x \in DOMAIN amounts : amounts[x] \in Nat
  PROVE  OfToken(amounts, account, t) \in Nat
<1> DEFINE S == {x \in DOMAIN amounts : account[x].token = t}
<1>1. IsFiniteSet(S) /\ \A x \in S : amounts[x] \in Nat
  BY FS_Subset
<1>2. SumFunctionOnSet(amounts, S) \in Nat
  <2> HIDE DEF S
  <2> QED
    BY <1>1, SumIsInt
<1> QED
  BY <1>2 DEF OfToken

LEMMA OfTokenPut ==
  ASSUME NEW amounts, NEW account, NEW t, NEW i, NEW v \in Int, IsFiniteSet(DOMAIN amounts),
         \A x \in DOMAIN amounts : amounts[x] \in Int,
         NEW put, put = Put(amounts, i, v)
  PROVE  OfToken(put, account, t) =
             OfToken(amounts, account, t)
             + IF account[i].token = t
               THEN v - (IF i \in DOMAIN amounts THEN amounts[i] ELSE 0)
               ELSE 0
<1> DEFINE S == {x \in DOMAIN amounts : account[x].token = t}
           U == {x \in DOMAIN put : account[x].token = t}
<1>1. DOMAIN put = DOMAIN amounts \cup {i} /\ put[i] = v
  BY DEF Put
<1>2. \A x \in DOMAIN amounts : x # i => put[x] = amounts[x]
  BY DEF Put
<1>3. IsFiniteSet(S) /\ IsFiniteSet(S \ {i}) /\ IsFiniteSet(U)
  <2>1. IsFiniteSet(DOMAIN put)
    BY <1>1, FS_AddElement
  <2> QED
    BY <2>1, FS_Subset
<1>4. SumFunctionOnSet(amounts, S) \in Int /\ SumFunctionOnSet(amounts, S \ {i}) \in Int
  <2>1. \A x \in S : amounts[x] \in Int
    OBVIOUS
  <2> HIDE DEF S
  <2> QED
    BY <2>1, <1>3, SumIsInt
<1>5. SumFunctionOnSet(put, S \ {i}) = SumFunctionOnSet(amounts, S \ {i})
  <2>1. \A x \in S \ {i} : amounts[x] \in Int /\ put[x] = amounts[x]
    BY <1>2
  <2> HIDE DEF S
  <2> QED
    BY <2>1, <1>3, SumOfSame
<1>6. CASE account[i].token # t
  <2>1. U = S /\ S \ {i} = S
    BY <1>1, <1>6
  <2>2. OfToken(put, account, t) = SumFunctionOnSet(put, U)
    BY DEF OfToken
  <2>3. OfToken(amounts, account, t) = SumFunctionOnSet(amounts, S)
    BY DEF OfToken
  <2> HIDE DEF S, U
  <2>4. SumFunctionOnSet(put, U) = SumFunctionOnSet(put, S \ {i})
    BY <2>1
  <2>5. SumFunctionOnSet(amounts, S) = SumFunctionOnSet(amounts, S \ {i})
    BY <2>1
  <2>6. OfToken(put, account, t) = OfToken(amounts, account, t) /\ OfToken(amounts, account, t) \in Int
    BY <2>2, <2>3, <2>4, <2>5, <1>4, <1>5
  <2> QED
    BY <2>6, <1>6
<1>7. CASE account[i].token = t
  <2>1. i \in U /\ U \ {i} = S \ {i}
    BY <1>1, <1>7
  <2>2. SumFunctionOnSet(put, U) = v + SumFunctionOnSet(put, U \ {i})
    <3>1. \A x \in U : put[x] \in Int
      BY <1>1, <1>2
    <3> HIDE DEF U
    <3> QED
      BY <3>1, <2>1, <1>1, <1>3, SumWith
  <2>3. SumFunctionOnSet(amounts, S) =
            (IF i \in DOMAIN amounts THEN amounts[i] ELSE 0) + SumFunctionOnSet(amounts, S \ {i})
    <3>1. CASE i \in DOMAIN amounts
      <4>1. i \in S /\ \A x \in S : amounts[x] \in Int
        BY <3>1, <1>7
      <4> HIDE DEF S
      <4> QED
        BY <4>1, <3>1, <1>3, SumWith
    <3>2. CASE i \notin DOMAIN amounts
      <4>1. S \ {i} = S
        BY <3>2
      <4> HIDE DEF S
      <4> QED
        BY <4>1, <3>2, <1>4
    <3> QED
      BY <3>1, <3>2
  <2>4. OfToken(put, account, t) = v + SumFunctionOnSet(amounts, S \ {i})
    <3> HIDE DEF S
    <3> QED
      BY <2>1, <2>2, <1>5 DEF OfToken, U
  <2>5. OfToken(amounts, account, t) = SumFunctionOnSet(amounts, S)
    BY DEF OfToken
  <2>6. i \in DOMAIN amounts => amounts[i] \in Int
    OBVIOUS
  <2> HIDE DEF S
  <2> QED
    BY <2>3, <2>4, <2>5, <2>6, <1>4, <1>7
<1> QED
  BY <1>6, <1>7

LEMMA OfTokenSame ==
  ASSUME NEW amounts, NEW account, NEW other, NEW t,
         \A x \in DOMAIN amounts : other[x].token = account[x].token
  PROVE  OfToken(amounts, other, t) = OfToken(amounts, account, t)
<1>1. {x \in DOMAIN amounts : other[x].token = t} = {x \in DOMAIN amounts : account[x].token = t}
  OBVIOUS
<1> QED
  BY <1>1 DEF OfToken

LEMMA OfTokenOfNone ==
  ASSUME NEW amounts, NEW account, NEW t, DOMAIN amounts = {}
  PROVE  OfToken(amounts, account, t) = 0
<1>1. {x \in DOMAIN amounts : account[x].token = t} = {}
  OBVIOUS
<1> QED
  BY <1>1, SumOfNone DEF OfToken

-----------------------------------------------------------------------------
(* What the parts of a transaction do to a processor. *)

Bal(account, t) == OfToken(Balances(account), account, t)

Total(p, t) ==
  Bal(p.db.account, t) + OfToken(p.exitTree, p.db.account, t)
  + OfToken(p.accumulatedFees, p.db.account, t)

Fields(p) ==
  /\ DOMAIN p = {"kind", "db", "failed", "txIndex", "accumulatedFees", "collectedFees",
                 "exitTree", "exits", "createdAccounts", "updatedAccounts"}
  /\ DOMAIN p.db = {"account", "currentIdx", "byAddr", "byAddrBJJ"}

\* A processor with the accounts up to n, in the middle of a batch.
Sound(p, n) ==
  /\ Fields(p) /\ p.failed = FALSE
  /\ n \in Nat /\ p.db.account \in [UserThreshold .. n -> AccountType]
  /\ \A amounts \in {p.exitTree, p.accumulatedFees} :
        /\ DOMAIN amounts \subseteq UserThreshold .. n
        /\ \A i \in DOMAIN amounts : amounts[i] \in Nat

\* r is p after d of a token came in.
Moved(p, r, n, token, d) ==
  /\ Sound(r, n)
  /\ r.kind = p.kind /\ r.db.currentIdx = p.db.currentIdx
  /\ \A i \in DOMAIN p.db.account :
        i \in DOMAIN r.db.account /\ r.db.account[i].token = p.db.account[i].token
  /\ \A t : Total(r, t) = Total(p, t) + IF t = token THEN d ELSE 0

LEMMA SumsAreNat ==
  ASSUME NEW p, NEW n, Sound(p, n), NEW t
  PROVE  /\ IsFiniteSet(DOMAIN p.db.account) /\ IsFiniteSet(DOMAIN p.exitTree)
         /\ IsFiniteSet(DOMAIN p.accumulatedFees)
         /\ Bal(p.db.account, t) \in Nat
         /\ OfToken(p.exitTree, p.db.account, t) \in Nat
         /\ OfToken(p.accumulatedFees, p.db.account, t) \in Nat
         /\ Total(p, t) \in Nat
<1>1. n \in Nat /\ p.db.account \in [UserThreshold .. n -> AccountType]
  BY DEF Sound
<1>2. IsFiniteSet(UserThreshold .. n)
  BY <1>1, FS_Interval DEF UserThreshold
<1>3. /\ IsFiniteSet(DOMAIN p.exitTree) /\ IsFiniteSet(DOMAIN p.accumulatedFees)
      /\ \A i \in DOMAIN p.exitTree : p.exitTree[i] \in Nat
      /\ \A i \in DOMAIN p.accumulatedFees : p.accumulatedFees[i] \in Nat
  BY <1>2, FS_Subset DEF Sound
<1>4. /\ DOMAIN Balances(p.db.account) = UserThreshold .. n
      /\ \A i \in UserThreshold .. n : Balances(p.db.account)[i] \in Nat
  BY <1>1 DEF Balances, AccountType
<1>5. Bal(p.db.account, t) \in Nat
  BY <1>2, <1>4, OfTokenIsNat DEF Bal
<1>6. OfToken(p.exitTree, p.db.account, t) \in Nat
  BY <1>3, OfTokenIsNat
<1>7. OfToken(p.accumulatedFees, p.db.account, t) \in Nat
  BY <1>3, OfTokenIsNat
<1> QED
  BY <1>1, <1>2, <1>3, <1>5, <1>6, <1>7 DEF Total

\* An account is set, an old one with its token or a new one.
LEMMA BalAfterPut ==
  ASSUME NEW account, IsFiniteSet(DOMAIN account),
         \A x \in DOMAIN account : account[x] \in AccountType,
         NEW a \in AccountType, NEW i, i \in DOMAIN account => a.token = account[i].token,
         NEW t, NEW b, b = Put(account, i, a)
  PROVE  Bal(b, t) =
           Bal(account, t)
           + IF a.token = t
             THEN a.balance - (IF i \in DOMAIN account THEN account[i].balance ELSE 0)
             ELSE 0
<1> DEFINE g == Balances(account)
           h == Balances(b)
<1>1. DOMAIN b = DOMAIN account \cup {i} /\ b[i] = a
  BY DEF Put
<1>2. \A x \in DOMAIN account : x # i => b[x] = account[x]
  BY DEF Put
<1>3. h = Put(g, i, a.balance)
  BY <1>1, <1>2 DEF Balances, Put
<1>4. /\ DOMAIN g = DOMAIN account
      /\ \A x \in DOMAIN account : g[x] = account[x].balance /\ g[x] \in Int
  BY DEF Balances, AccountType
<1>6. a.balance \in Int
  BY DEF AccountType
<1> DEFINE v == a.balance
<1> HIDE DEF g, h, v
<1>7. OfToken(h, b, t) =
        OfToken(g, b, t)
        + IF b[i].token = t THEN v - (IF i \in DOMAIN g THEN g[i] ELSE 0) ELSE 0
  <2>1. h = Put(g, i, v) /\ v \in Int /\ \A x \in DOMAIN g : g[x] \in Int
    BY <1>3, <1>4, <1>6 DEF v
  <2> QED
    BY <2>1, <1>4, OfTokenPut
<1>8. OfToken(g, b, t) = OfToken(g, account, t)
  <2>1. \A x \in DOMAIN g : b[x].token = account[x].token
    BY <1>1, <1>2, <1>4
  <2> QED
    BY <2>1, OfTokenSame
<1> QED
  BY <1>1, <1>4, <1>7, <1>8 DEF Bal, g, h, v

\* r is p with the account a at i.
AccountSet(p, r, i, a) ==
  /\ Fields(r)
  /\ r.kind = p.kind /\ r.failed = p.failed /\ r.txIndex = p.txIndex
  /\ r.exitTree = p.exitTree /\ r.exits = p.exits
  /\ r.accumulatedFees = p.accumulatedFees /\ r.createdAccounts = p.createdAccounts
  /\ r.db.account = Put(p.db.account, i, a) /\ r.db.currentIdx = p.db.currentIdx
  /\ r.updatedAccounts = IF p.kind = "Synchronizer" THEN Put(p.updatedAccounts, i, a)
                         ELSE p.updatedAccounts

LEMMA UpdateAccountSets ==
  ASSUME NEW p, Fields(p), NEW i, NEW a, NEW r, r = UpdateAccount(p, i, a)
  PROVE  AccountSet(p, r, i, a)
BY DEF UpdateAccount, AccountSet, Fields

LEMMA CreateAccountSets ==
  ASSUME NEW p, Fields(p), NEW i, ~Has(p.db, i), NEW a, NEW r, r = CreateAccount(p, i, a)
  PROVE  AccountSet(p, r, i, a)
<1> DEFINE u == UpdateAccount(p, i, a)
           db == SetIdxByEthAddrBJJ(u.db, i, a.eth, a.bjj, a.token)
<1>1. AccountSet(p, u, i, a)
  BY UpdateAccountSets
<1>2. r = [u EXCEPT !.db = db]
  BY DEF CreateAccount
<1>3. DOMAIN u.db = {"account", "currentIdx", "byAddr", "byAddrBJJ"} /\ Fields(u)
  BY <1>1 DEF AccountSet, Fields
<1> HIDE DEF u
<1>4. DOMAIN db = DOMAIN u.db /\ db.account = u.db.account /\ db.currentIdx = u.db.currentIdx
  BY <1>3 DEF SetIdxByEthAddrBJJ
<1> HIDE DEF db
<1> QED
  BY <1>1, <1>2, <1>3, <1>4 DEF AccountSet, Fields

\* An account that is there keeps its token; the next one is new.
MaySet(p, n, m, i, a) ==
  /\ Sound(p, n) /\ m \in {n, n + 1} /\ i \in UserThreshold .. m /\ a \in AccountType
  /\ m = n + 1 => i = m
  /\ i \in UserThreshold .. n => a.token = p.db.account[i].token

LEMMA TotalAfterPut ==
  ASSUME NEW account, NEW exits, NEW fees, IsFiniteSet(DOMAIN account),
         \A x \in DOMAIN account : account[x] \in AccountType,
         DOMAIN exits \subseteq DOMAIN account, DOMAIN fees \subseteq DOMAIN account,
         \A x \in DOMAIN exits : exits[x] \in Nat,
         \A x \in DOMAIN fees : fees[x] \in Nat,
         NEW a \in AccountType, NEW i, i \in DOMAIN account => a.token = account[i].token,
         NEW t, NEW b, b = Put(account, i, a)
  PROVE  Bal(b, t) + OfToken(exits, b, t) + OfToken(fees, b, t) =
           Bal(account, t) + OfToken(exits, account, t) + OfToken(fees, account, t)
           + IF t = a.token
             THEN a.balance - (IF i \in DOMAIN account THEN account[i].balance ELSE 0)
             ELSE 0
<1>1. Bal(b, t) =
        Bal(account, t)
        + IF a.token = t
          THEN a.balance - (IF i \in DOMAIN account THEN account[i].balance ELSE 0)
          ELSE 0
  BY BalAfterPut
<1>2. \A x \in DOMAIN account : b[x].token = account[x].token
  BY DEF Put
<1>3. /\ OfToken(exits, b, t) = OfToken(exits, account, t)
      /\ OfToken(fees, b, t) = OfToken(fees, account, t)
  <2>1. /\ \A x \in DOMAIN exits : b[x].token = account[x].token
        /\ \A x \in DOMAIN fees : b[x].token = account[x].token
    BY <1>2
  <2> QED
    BY <2>1, OfTokenSame
<1>4. OfToken(exits, account, t) \in Nat /\ OfToken(fees, account, t) \in Nat
  <2>1. IsFiniteSet(DOMAIN exits) /\ IsFiniteSet(DOMAIN fees)
    BY FS_Subset
  <2> QED
    BY <2>1, OfTokenIsNat
<1>5. Bal(account, t) \in Nat
  <2>1. /\ DOMAIN Balances(account) = DOMAIN account
        /\ \A x \in DOMAIN account : Balances(account)[x] \in Nat
    BY DEF Balances, AccountType
  <2> QED
    BY <2>1, OfTokenIsNat DEF Bal
<1>6. \A x \in AccountType : x.balance \in Nat
  BY DEF AccountType
<1> QED
  BY <1>1, <1>3, <1>4, <1>5, <1>6

LEMMA SettingMoves ==
  ASSUME NEW p, NEW n, NEW m, NEW i, NEW a, MaySet(p, n, m, i, a),
         NEW r, AccountSet(p, r, i, a)
  PROVE  Moved(p, r, m, a.token,
               a.balance - IF i \in DOMAIN p.db.account THEN p.db.account[i].balance ELSE 0)
<1> DEFINE account == p.db.account
           after == r.db.account
<1>1. /\ n \in Nat /\ account \in [UserThreshold .. n -> AccountType]
      /\ after = Put(account, i, a) /\ a \in AccountType /\ m \in Nat
      /\ r.exitTree = p.exitTree /\ r.accumulatedFees = p.accumulatedFees
  BY DEF Sound, AccountSet, MaySet
<1>2. \A x \in UserThreshold .. n : x # i => after[x] = account[x]
  BY <1>1 DEF Put
<1>3. after[i] = a /\ DOMAIN after = (UserThreshold .. n) \cup {i}
  BY <1>1 DEF Put
<1>4. DOMAIN after = UserThreshold .. m /\ UserThreshold .. n \subseteq UserThreshold .. m
  BY <1>1, <1>3 DEF MaySet
<1>5. after \in [UserThreshold .. m -> AccountType]
  <2>1. \A x \in UserThreshold .. m : after[x] \in AccountType
    BY <1>1, <1>2, <1>3, <1>4
  <2>2. after = [x \in DOMAIN after |-> after[x]]
    BY <1>1 DEF Put
  <2> HIDE DEF after
  <2> QED
    BY <2>1, <2>2, <1>4
<1>6. Sound(r, m)
  BY <1>1, <1>4, <1>5 DEF Sound, AccountSet, MaySet
<1>7. i \in DOMAIN account => a.token = account[i].token
  BY <1>1 DEF MaySet
<1>8. \A x \in DOMAIN account : x \in DOMAIN after /\ after[x].token = account[x].token
  BY <1>1, <1>2, <1>3, <1>7
<1>9. ASSUME NEW t
      PROVE  Total(r, t) = Total(p, t) + IF t = a.token
                 THEN a.balance - (IF i \in DOMAIN account THEN account[i].balance ELSE 0)
                 ELSE 0
  <2> DEFINE exits == p.exitTree
             fees == p.accumulatedFees
  <2>1. DOMAIN account = UserThreshold .. n /\ IsFiniteSet(DOMAIN account)
    <3>1. IsFiniteSet(UserThreshold .. n)
      BY <1>1, FS_Interval DEF UserThreshold
    <3> QED
      BY <1>1, <3>1
  <2>2. /\ DOMAIN exits \subseteq DOMAIN account /\ DOMAIN fees \subseteq DOMAIN account
        /\ \A x \in DOMAIN exits : exits[x] \in Nat
        /\ \A x \in DOMAIN fees : fees[x] \in Nat
    BY <2>1 DEF Sound, MaySet
  <2>3. \A x \in DOMAIN account : account[x] \in AccountType
    BY <1>1
  <2>5. after = Put(account, i, a) /\ a \in AccountType /\ IsFiniteSet(DOMAIN account)
    BY <1>1, <2>1
  <2> HIDE DEF account, after, exits, fees
  <2>4. Bal(after, t) + OfToken(exits, after, t) + OfToken(fees, after, t) =
           Bal(account, t) + OfToken(exits, account, t) + OfToken(fees, account, t)
           + IF t = a.token
             THEN a.balance - (IF i \in DOMAIN account THEN account[i].balance ELSE 0)
             ELSE 0
    BY <1>7, <2>2, <2>3, <2>5, TotalAfterPut
  <2> QED
    BY <2>4, <1>1 DEF Total, account, after, exits, fees
<1> QED
  BY <1>1, <1>6, <1>8, <1>9 DEF Moved, AccountSet

LEMMA MovesAdd ==
  ASSUME NEW p, NEW q, NEW r, NEW n, NEW m, NEW k, NEW token, NEW d \in Int, NEW e \in Int,
         Sound(p, n), Moved(p, q, m, token, d), Moved(q, r, k, token, e)
  PROVE  Moved(p, r, k, token, d + e)
<1>1. ASSUME NEW t PROVE Total(r, t) = Total(p, t) + IF t = token THEN d + e ELSE 0
  <2>1. Total(q, t) = Total(p, t) + IF t = token THEN d ELSE 0
    BY DEF Moved
  <2>2. Total(r, t) = Total(q, t) + IF t = token THEN e ELSE 0
    BY DEF Moved
  <2>3. Total(p, t) \in Int
    BY SumsAreNat
  <2> QED
    BY <2>1, <2>2, <2>3
<1>2. \A i \in DOMAIN p.db.account :
         i \in DOMAIN r.db.account /\ r.db.account[i].token = p.db.account[i].token
  BY DEF Moved
<1> QED
  BY <1>1, <1>2 DEF Moved

LEMMA WithBalance ==
  ASSUME NEW a \in AccountType, NEW v \in Nat, NEW b, b = [a EXCEPT !.balance = v]
  PROVE  b \in AccountType /\ b.token = a.token /\ b.balance = v /\ a.balance \in Nat
BY DEF AccountType

\* The balance of an account is set.
LEMMA BalanceMoves ==
  ASSUME NEW p, NEW n, Sound(p, n), NEW i, i \in UserThreshold .. n, NEW v, v \in Nat,
         NEW a, a \in AccountType, a.token = p.db.account[i].token, a.balance = v,
         NEW r, AccountSet(p, r, i, a)
  PROVE  Moved(p, r, n, p.db.account[i].token, v - p.db.account[i].balance)
<1>1. n \in Nat /\ DOMAIN p.db.account = UserThreshold .. n
  BY DEF Sound
<1>2. MaySet(p, n, n, i, a)
  BY <1>1 DEF MaySet
<1>3. Moved(p, r, n, a.token,
            a.balance - IF i \in DOMAIN p.db.account THEN p.db.account[i].balance ELSE 0)
  BY <1>2, SettingMoves
<1> QED
  BY <1>1, <1>3

Paid(p, i, d) == [p.db.account[i] EXCEPT !.balance = @ + d]

LEMMA PayingMoves ==
  ASSUME NEW p, NEW n, Sound(p, n), NEW i, i \in UserThreshold .. n, NEW d, d \in Int,
         p.db.account[i].balance + d \in Nat,
         NEW r, r = UpdateAccount(p, i, Paid(p, i, d))
  PROVE  /\ Moved(p, r, n, p.db.account[i].token, d)
         /\ AccountSet(p, r, i, Paid(p, i, d))
<1> DEFINE account == p.db.account[i]
           a == Paid(p, i, d)
<1>1. account \in AccountType /\ Fields(p)
  BY DEF Sound
<1>2. a \in AccountType /\ a.token = account.token /\ a.balance = account.balance + d
  BY <1>1, WithBalance DEF Paid
<1>3. account.balance \in Nat
  BY <1>1 DEF AccountType
<1>4. AccountSet(p, r, i, a)
  BY <1>1, UpdateAccountSets
<1> HIDE DEF a
<1>5. Moved(p, r, n, account.token, (account.balance + d) - account.balance)
  BY <1>2, <1>4, BalanceMoves
<1>6. (account.balance + d) - account.balance = d
  <2> HIDE DEF account
  <2> QED
    BY <1>3
<1> QED
  BY <1>4, <1>5, <1>6 DEF a

LEMMA CreditMoves ==
  ASSUME NEW p, NEW n, Sound(p, n), NEW to, to \in UserThreshold .. n,
         NEW amount, amount \in Nat, NEW r, r = Credit(p, to, amount)
  PROVE  /\ Moved(p, r, n, p.db.account[to].token, amount)
         /\ AccountSet(p, r, to, Paid(p, to, amount))
<1>1. p.failed = FALSE /\ Has(p.db, to) /\ p.db.account[to] \in AccountType
  BY DEF Sound, Has
<1>2. r = UpdateAccount(p, to, Paid(p, to, amount))
  BY <1>1 DEF Credit, Paid
<1>3. p.db.account[to].balance + amount \in Nat
  <2>1. \A a \in AccountType : a.balance \in Nat
    BY DEF AccountType
  <2> QED
    BY <2>1, <1>1
<1> QED
  BY <1>2, <1>3, PayingMoves

LEMMA DebitMoves ==
  ASSUME NEW p, NEW n, Sound(p, n), NEW from, from \in UserThreshold .. n,
         NEW amount, amount \in Nat, p.db.account[from].balance >= amount,
         NEW r, r = DebitL1(p, from, amount)
  PROVE  /\ Moved(p, r, n, p.db.account[from].token, -amount)
         /\ AccountSet(p, r, from, Paid(p, from, -amount))
<1> DEFINE account == p.db.account[from]
<1>1. account \in AccountType
  BY DEF Sound
<1>2. account.balance \in Nat
  BY <1>1 DEF AccountType
<1>3. /\ ~(account.balance < amount)
      /\ account.balance - amount = account.balance + (-amount)
      /\ account.balance + (-amount) \in Nat
  <2> account.balance >= amount
    OBVIOUS
  <2> HIDE DEF account
  <2> QED
    BY <1>2
<1>4. Paid(p, from, -amount) = [account EXCEPT !.balance = @ - amount]
  BY <1>1, <1>3 DEF Paid, AccountType
<1>5. r = UpdateAccount(p, from, Paid(p, from, -amount))
  BY <1>3, <1>4 DEF DebitL1
<1> QED
  BY <1>3, <1>5, PayingMoves

OrZero(f, i) == IF i \in DOMAIN f THEN f[i] ELSE 0

\* An amount is added to what an account has in the exit tree, or in fees.
LEMMA OfTokenAdd ==
  ASSUME NEW amounts, IsFiniteSet(DOMAIN amounts),
         \A x \in DOMAIN amounts : amounts[x] \in Nat,
         NEW account, NEW i, NEW d, d \in Nat, NEW v, v = OrZero(amounts, i) + d,
         NEW put, put = Put(amounts, i, v), NEW t
  PROVE  OfToken(put, account, t) =
           OfToken(amounts, account, t) + IF account[i].token = t THEN d ELSE 0
<1>1. OrZero(amounts, i) \in Nat /\ v \in Int
  BY DEF OrZero
<1>2. OfToken(put, account, t) =
        OfToken(amounts, account, t)
        + IF account[i].token = t
          THEN v - (IF i \in DOMAIN amounts THEN amounts[i] ELSE 0)
          ELSE 0
  <2>1. \A x \in DOMAIN amounts : amounts[x] \in Int
    OBVIOUS
  <2> QED
    BY <1>1, <2>1, OfTokenPut
<1>3. v - (IF i \in DOMAIN amounts THEN amounts[i] ELSE 0) = d
  BY <1>1 DEF OrZero
<1> QED
  BY <1>2, <1>3

LEMMA PutMore ==
  ASSUME NEW amounts, \A x \in DOMAIN amounts : amounts[x] \in Nat,
         NEW i, NEW d, d \in Nat, NEW v, v = OrZero(amounts, i) + d,
         NEW put, put = Put(amounts, i, v)
  PROVE  /\ DOMAIN put = DOMAIN amounts \cup {i}
         /\ \A x \in DOMAIN put : put[x] \in Nat
<1>1. v \in Nat
  BY DEF OrZero
<1> QED
  BY <1>1 DEF Put

\* r is p with d more in the exit tree, or in the fees, of account i.
AmountAdded(p, r, i, v, d) ==
  /\ i \in DOMAIN p.db.account /\ d \in Nat
  /\ Fields(r) /\ r.kind = p.kind /\ r.failed = p.failed /\ r.db = p.db
  /\ \/ /\ r.accumulatedFees = p.accumulatedFees
        /\ v = OrZero(p.exitTree, i) + d
        /\ r.exitTree = Put(p.exitTree, i, v)
     \/ /\ r.exitTree = p.exitTree
        /\ v = OrZero(p.accumulatedFees, i) + d
        /\ r.accumulatedFees = Put(p.accumulatedFees, i, v)

LEMMA AmountsMove ==
  ASSUME NEW p, NEW n, Sound(p, n), NEW i, NEW v, NEW d, NEW r, AmountAdded(p, r, i, v, d)
  PROVE  Moved(p, r, n, p.db.account[i].token, d)
<1> DEFINE account == p.db.account
           exits == p.exitTree
           fees == p.accumulatedFees
<1>1. /\ IsFiniteSet(DOMAIN exits) /\ IsFiniteSet(DOMAIN fees)
      /\ \A t : /\ Bal(account, t) \in Nat /\ OfToken(exits, account, t) \in Nat
                /\ OfToken(fees, account, t) \in Nat
  BY SumsAreNat
<1>2. /\ n \in Nat /\ account \in [UserThreshold .. n -> AccountType]
      /\ DOMAIN exits \subseteq UserThreshold .. n /\ DOMAIN fees \subseteq UserThreshold .. n
      /\ \A x \in DOMAIN exits : exits[x] \in Nat
      /\ \A x \in DOMAIN fees : fees[x] \in Nat
  BY DEF Sound
<1>3. CASE /\ r.accumulatedFees = fees
           /\ r.exitTree = Put(exits, i, v) /\ v = OrZero(exits, i) + d
  <2> DEFINE put == r.exitTree
  <2>1. /\ DOMAIN put = DOMAIN exits \cup {i}
        /\ \A x \in DOMAIN put : put[x] \in Nat
        /\ \A t : OfToken(put, account, t) =
                    OfToken(exits, account, t) + IF account[i].token = t THEN d ELSE 0
    <3>1. \A x \in DOMAIN exits : exits[x] \in Nat
      BY <1>2
    <3>2. put = Put(exits, i, v) /\ v = OrZero(exits, i) + d /\ d \in Nat /\ IsFiniteSet(DOMAIN exits)
      BY <1>1, <1>3 DEF AmountAdded
    <3> HIDE DEF put, exits, account
    <3>3. DOMAIN put = DOMAIN exits \cup {i} /\ \A x \in DOMAIN put : put[x] \in Nat
      BY <3>1, <3>2, PutMore
    <3>4. ASSUME NEW t
          PROVE  OfToken(put, account, t) =
                   OfToken(exits, account, t) + IF account[i].token = t THEN d ELSE 0
      BY <3>1, <3>2, OfTokenAdd
    <3> QED
      BY <3>3, <3>4
  <2>2. Sound(r, n)
    BY <2>1, <1>2, <1>3 DEF Sound, AmountAdded
  <2>3. \A t : Total(r, t) = Total(p, t) + IF t = account[i].token THEN d ELSE 0
    <3> SUFFICES ASSUME NEW t
                 PROVE  Total(r, t) = Total(p, t) + IF t = account[i].token THEN d ELSE 0
      OBVIOUS
    <3>1. /\ Total(r, t) = Bal(account, t) + OfToken(put, account, t) + OfToken(fees, account, t)
          /\ Total(p, t) = Bal(account, t) + OfToken(exits, account, t) + OfToken(fees, account, t)
      BY <1>3 DEF Total, AmountAdded
    <3> HIDE DEF put, exits, account, fees
    <3> QED
      BY <3>1, <2>1, <1>1 DEF AmountAdded
  <2> QED
    BY <2>2, <2>3 DEF Moved, AmountAdded
<1>4. CASE /\ r.exitTree = exits
           /\ r.accumulatedFees = Put(fees, i, v) /\ v = OrZero(fees, i) + d
  <2> DEFINE put == r.accumulatedFees
  <2>1. /\ DOMAIN put = DOMAIN fees \cup {i}
        /\ \A x \in DOMAIN put : put[x] \in Nat
        /\ \A t : OfToken(put, account, t) =
                    OfToken(fees, account, t) + IF account[i].token = t THEN d ELSE 0
    <3>1. \A x \in DOMAIN fees : fees[x] \in Nat
      BY <1>2
    <3>2. put = Put(fees, i, v) /\ v = OrZero(fees, i) + d /\ d \in Nat /\ IsFiniteSet(DOMAIN fees)
      BY <1>1, <1>4 DEF AmountAdded
    <3> HIDE DEF put, fees, account
    <3>3. DOMAIN put = DOMAIN fees \cup {i} /\ \A x \in DOMAIN put : put[x] \in Nat
      BY <3>1, <3>2, PutMore
    <3>4. ASSUME NEW t
          PROVE  OfToken(put, account, t) =
                   OfToken(fees, account, t) + IF account[i].token = t THEN d ELSE 0
      BY <3>1, <3>2, OfTokenAdd
    <3> QED
      BY <3>3, <3>4
  <2>2. Sound(r, n)
    BY <2>1, <1>2, <1>4 DEF Sound, AmountAdded
  <2>3. \A t : Total(r, t) = Total(p, t) + IF t = account[i].token THEN d ELSE 0
    <3> SUFFICES ASSUME NEW t
                 PROVE  Total(r, t) = Total(p, t) + IF t = account[i].token THEN d ELSE 0
      OBVIOUS
    <3>1. /\ Total(r, t) = Bal(account, t) + OfToken(exits, account, t) + OfToken(put, account, t)
          /\ Total(p, t) = Bal(account, t) + OfToken(exits, account, t) + OfToken(fees, account, t)
      BY <1>4 DEF Total, AmountAdded
    <3> HIDE DEF put, exits, account, fees
    <3> QED
      BY <3>1, <2>1, <1>1 DEF AmountAdded
  <2> QED
    BY <2>2, <2>3 DEF Moved, AmountAdded
<1>5. \/ /\ r.accumulatedFees = fees
         /\ r.exitTree = Put(exits, i, v) /\ v = OrZero(exits, i) + d
      \/ /\ r.exitTree = exits
         /\ r.accumulatedFees = Put(fees, i, v) /\ v = OrZero(fees, i) + d
  BY DEF AmountAdded
<1> HIDE DEF account, exits, fees
<1> QED
  BY <1>3, <1>4, <1>5 DEF account

LEMMA NothingMoves ==
  ASSUME NEW p, NEW n, Sound(p, n), NEW token
  PROVE  Moved(p, p, n, token, 0)
<1>1. \A t : Total(p, t) \in Nat
  BY SumsAreNat
<1>2. \A t : Total(p, t) = Total(p, t) + IF t = token THEN 0 ELSE 0
  BY <1>1
<1> QED
  BY <1>2 DEF Moved

LEMMA AddExitMoves ==
  ASSUME NEW p, NEW n, Sound(p, n), HasExitTree(p), NEW from, from \in DOMAIN p.db.account,
         NEW original, NEW amount, amount \in Nat, original = 0 => amount = 0,
         NEW r, r = AddExit(p, from, original, amount)
  PROVE  /\ Moved(p, r, n, p.db.account[from].token, amount)
         /\ r.db = p.db
<1>1. p.failed = FALSE /\ Fields(p)
  BY DEF Sound
<1>2. CASE original = 0
  <2>1. r = p
    BY <1>2 DEF AddExit
  <2> QED
    BY <2>1, <1>2, NothingMoves
<1>3. CASE original # 0
  <2> DEFINE v == OrZero(p.exitTree, from) + amount
  <2>1. r = [p EXCEPT !.exitTree = Put(@, from, v),
                      !.exits = Put(@, p.txIndex, [idx |-> from, balance |-> v])]
    BY <1>1, <1>3 DEF AddExit, OrZero
  <2>2. AmountAdded(p, r, from, v, amount)
    BY <2>1, <1>1 DEF AmountAdded, Fields
  <2> HIDE DEF v
  <2> QED
    BY <2>2, AmountsMove DEF AmountAdded
<1> QED
  BY <1>2, <1>3

\* Where fees go, by token.
FeeIdxs(p, idxs) ==
  \A t \in DOMAIN idxs : idxs[t] \in DOMAIN p.db.account /\ p.db.account[idxs[t]].token = t

LEMMA CollectFeeMoves ==
  ASSUME NEW p, NEW n, Sound(p, n), NEW idxs, FeeIdxs(p, idxs),
         NEW token, NEW fee, fee \in Nat, NEW d, d = IF token \in DOMAIN idxs THEN fee ELSE 0,
         NEW r, r = CollectFee(p, idxs, token, fee)
  PROVE  /\ Moved(p, r, n, token, d)
         /\ r.db = p.db
<1>1. Fields(p)
  BY DEF Sound
<1>2. CASE token \notin DOMAIN idxs
  <2>1. r = p /\ d = 0
    BY <1>2 DEF CollectFee
  <2> QED
    BY <2>1, NothingMoves
<1>3. CASE token \in DOMAIN idxs
  <2> DEFINE i == idxs[token]
             v == OrZero(p.accumulatedFees, i) + fee
  <2>1. i \in DOMAIN p.db.account /\ p.db.account[i].token = token /\ d = fee
    BY <1>3 DEF FeeIdxs
  <2>2. r = [p EXCEPT !.accumulatedFees = Put(@, i, v),
                      !.collectedFees = IF HasExitTree(p)
                                        THEN [@ EXCEPT ![token] = @ + fee] ELSE @]
    BY <2>1, <1>3 DEF CollectFee, OrZero, Has
  <2>3. AmountAdded(p, r, i, v, fee)
    BY <2>1, <2>2, <1>1 DEF AmountAdded, Fields
  <2> HIDE DEF v, i
  <2> QED
    BY <2>1, <2>3, AmountsMove DEF AmountAdded
<1> QED
  BY <1>2, <1>3

LEMMA FeeIsNat ==
  ASSUME NEW amount \in Nat, NEW fee \in Nat
  PROVE  FeeAmount(amount, fee) \in Nat
<1>1. amount * fee \in Nat
  OBVIOUS
<1> QED
  BY <1>1, Quotient DEF FeeAmount

\* The sender pays amount and fee; the fee stays if an account is there for it.
LEMMA DebitL2Moves ==
  ASSUME NEW p, NEW n, Sound(p, n), NEW idxs, FeeIdxs(p, idxs), NEW tx,
         tx.from \in DOMAIN p.db.account, NEW token, token = p.db.account[tx.from].token,
         NEW amount, amount = tx.amount, amount \in Nat,
         NEW fee, fee = FeeAmount(tx.amount, tx.fee), fee \in Nat,
         p.db.account[tx.from].balance >= amount + fee,
         NEW r, r = DebitL2(p, idxs, tx)
  PROVE  Moved(p, r, n, token, -amount - IF token \in DOMAIN idxs THEN 0 ELSE fee)
<1> DEFINE q == CollectFee(p, idxs, token, fee)
           account == p.db.account[tx.from]
           d == IF token \in DOMAIN idxs THEN fee ELSE 0
           a == [account EXCEPT !.balance = @ - amount - fee, !.nonce = @ + 1]
<1>1. Moved(p, q, n, token, d) /\ q.db = p.db
  BY CollectFeeMoves
<1>2. Sound(q, n) /\ q.failed = FALSE /\ Fields(q)
  BY <1>1 DEF Moved, Sound
<1>3. account \in AccountType /\ account.token = token
  BY DEF Sound
<1>4. account.balance \in Nat /\ ~(account.balance < amount + fee)
  <2>1. account.balance \in Nat /\ account.balance >= amount + fee
    BY <1>3 DEF AccountType
  <2> HIDE DEF account
  <2> QED
    BY <2>1
<1>5. /\ a \in AccountType /\ a.token = token
      /\ a.balance = account.balance - amount - fee
      /\ account.balance - amount - fee \in Nat
  <2>1. account.balance - amount - fee \in Nat
    <3> HIDE DEF account
    <3> QED
      BY <1>4
  <2>2. account.nonce + 1 \in Nat
    BY <1>3 DEF AccountType
  <2> HIDE DEF account
  <2> QED
    BY <1>3, <2>1, <2>2 DEF AccountType
<1>6. r = UpdateAccount(q, tx.from, a)
  BY <1>2, <1>4 DEF DebitL2
<1>7. AccountSet(q, r, tx.from, a)
  <2> HIDE DEF a, q
  <2> QED
    BY <1>2, <1>6, UpdateAccountSets
<1>8. tx.from \in UserThreshold .. n
  BY DEF Sound
<1>9. Moved(q, r, n, token, (account.balance - amount - fee) - account.balance)
  <2> DEFINE v == account.balance - amount - fee
             i == tx.from
  <2>1. q.db.account[i] = account
    BY <1>1
  <2>2. v \in Nat /\ a.balance = v /\ a \in AccountType /\ a.token = q.db.account[i].token
    BY <1>3, <1>5, <2>1
  <2> HIDE DEF v, i, a, q
  <2>3. Moved(q, r, n, q.db.account[i].token, v - q.db.account[i].balance)
    BY <1>2, <1>7, <1>8, <2>2, BalanceMoves DEF i
  <2>4. q.db.account[i].token = token
    BY <2>1, <1>3
  <2> HIDE DEF account
  <2> QED
    BY <2>1, <2>3, <2>4 DEF v
<1>10. /\ (account.balance - amount - fee) - account.balance = -amount - fee
       /\ d + (-amount - fee) = -amount - IF token \in DOMAIN idxs THEN 0 ELSE fee
       /\ d \in Int /\ -amount - fee \in Int
  <2> HIDE DEF account
  <2> QED
    BY <1>4
<1> DEFINE e == -amount - fee
<1>11. Moved(q, r, n, token, e) /\ e \in Int /\ d \in Int
  <2> HIDE DEF account, q
  <2> QED
    BY <1>9, <1>10
<1> HIDE DEF d, e, q, account
<1>12. Moved(p, r, n, token, d + e)
  BY <1>1, <1>11, MovesAdd
<1> QED
  BY <1>10, <1>12 DEF e

LEMMA MovesAs ==
  ASSUME NEW p, NEW r, NEW n, NEW token, NEW d, Moved(p, r, n, token, d),
         NEW other, d = 0 \/ other = token
  PROVE  Moved(p, r, n, other, d)
<1>1. CASE other = token
  BY <1>1
<1>2. CASE d = 0
  <2>1. \A t : Total(r, t) = Total(p, t) + IF t = other THEN d ELSE 0
    BY <1>2 DEF Moved
  <2> QED
    BY <2>1 DEF Moved
<1> QED
  BY <1>1, <1>2

-----------------------------------------------------------------------------
(* An L1 transaction. *)

\* What the contract, or the coordinator, may ask of the accounts of p.
ValidL1(p, tx) ==
  /\ tx.type \in L1Types /\ tx.token \in Tokens /\ tx.deposit \in Nat /\ tx.amount \in Nat
  /\ tx.type \in CreateTypes =>
       /\ tx.from = NoIdx /\ p.db.currentIdx < MaxIdx
       /\ tx.eth \in EthAddrs \cup {FFAddr} /\ tx.bjj \in BJJs
  /\ tx.type \notin CreateTypes => tx.from \in DOMAIN p.db.account
  /\ tx.type \in {"CreateAccountDepositTransfer", "DepositTransfer", "ForceTransfer"} =>
       tx.to \in DOMAIN p.db.account
  /\ tx.type = "Deposit" => tx.amount = 0
  /\ tx.type \in {"ForceTransfer", "ForceExit"} => tx.deposit = 0
  /\ tx.type = "ForceExit" => tx.to = ExitIdx

EffectiveOK(p, tx, deposit, amount) ==
  /\ deposit \in Nat /\ amount \in Nat /\ deposit <= tx.deposit /\ amount <= tx.amount
  /\ tx.type = "CreateAccountDepositTransfer" =>
       amount <= deposit /\ (amount # 0 => p.db.account[tx.to].token = tx.token)
  /\ tx.type \in L1Types \ CreateTypes =>
       /\ amount <= p.db.account[tx.from].balance + deposit
       /\ deposit # 0 \/ amount # 0 => p.db.account[tx.from].token = tx.token
  /\ tx.type \in {"DepositTransfer", "ForceTransfer"} =>
       (amount # 0 => p.db.account[tx.to].token = tx.token)

LEMMA EffectiveFits ==
  ASSUME NEW p, NEW n, Sound(p, n), NEW tx, ValidL1(p, tx)
  PROVE  EffectiveOK(p, tx, Effective(p.db, tx).deposit, Effective(p.db, tx).amount)
<1> DEFINE deposit == Effective(p.db, tx).deposit
           amount == Effective(p.db, tx).amount
<1>1. /\ deposit = IF DepositCounts(p.db, tx) THEN tx.deposit ELSE 0
      /\ amount = IF AmountCounts(p.db, tx) THEN tx.amount ELSE 0
  BY DEF Effective
<1>2. tx.deposit \in Nat /\ tx.amount \in Nat
  BY DEF ValidL1
<1>3. DOMAIN p.db.account = UserThreshold .. n /\ n \in Nat
  BY DEF Sound
<1>4. ASSUME tx.type = "CreateAccountDepositTransfer"
      PROVE  amount <= deposit /\ (amount # 0 => p.db.account[tx.to].token = tx.token)
  <2>1. CreatesAndTransfers(tx)
    BY <1>3, <1>4 DEF CreatesAndTransfers, ValidL1, CreateTypes, UserThreshold
  <2>2. AmountCounts(p.db, tx) =>
          /\ DepositCounts(p.db, tx) /\ tx.deposit >= tx.amount
          /\ p.db.account[tx.to].token = tx.token
    BY <2>1, <1>4 DEF AmountCounts, DepositCounts, ReceiverMatches
  <2> HIDE DEF deposit, amount
  <2> QED
    BY <2>2, <1>1, <1>2
<1>5. ASSUME tx.type \in L1Types \ CreateTypes
      PROVE  /\ amount <= p.db.account[tx.from].balance + deposit
             /\ deposit # 0 \/ amount # 0 => p.db.account[tx.from].token = tx.token
             /\ tx.type \in {"DepositTransfer", "ForceTransfer"} =>
                  (amount # 0 => p.db.account[tx.to].token = tx.token)
  <2>1. tx.from \in UserThreshold .. n /\ ~CreatesAndTransfers(tx)
    BY <1>3, <1>5 DEF CreatesAndTransfers, ValidL1, UserThreshold, NoIdx
  <2>2. p.db.account[tx.from].balance \in Nat
    BY <2>1 DEF Sound, AccountType
  <2>3. DepositCounts(p.db, tx) => p.db.account[tx.from].token = tx.token
    BY <2>1, <1>5 DEF DepositCounts, SenderMatches, CreateTypes
  <2>4. AmountCounts(p.db, tx) =>
          /\ DepositCounts(p.db, tx) /\ p.db.account[tx.from].token = tx.token
          /\ p.db.account[tx.from].balance + tx.deposit >= tx.amount
          /\ tx.to <= ExitIdx \/ p.db.account[tx.to].token = tx.token
    BY <2>1, <1>5 DEF DepositCounts, AmountCounts, SenderMatches, ReceiverMatches, CreateTypes
  <2>5. tx.type \in {"DepositTransfer", "ForceTransfer"} => ~(tx.to <= ExitIdx)
    BY <1>3 DEF ValidL1, UserThreshold, ExitIdx
  <2>6. amount <= p.db.account[tx.from].balance + deposit
    <3> DEFINE balance == p.db.account[tx.from].balance
    <3> HIDE DEF deposit, amount, balance
    <3> QED
      BY <1>1, <1>2, <2>2, <2>4 DEF balance
  <2>7. deposit # 0 \/ amount # 0 => p.db.account[tx.from].token = tx.token
    BY <1>1, <2>3, <2>4
  <2>8. tx.type \in {"DepositTransfer", "ForceTransfer"} =>
           (amount # 0 => p.db.account[tx.to].token = tx.token)
    BY <1>1, <2>4, <2>5
  <2> QED
    BY <2>6, <2>7, <2>8
<1>6. deposit \in Nat /\ amount \in Nat /\ deposit <= tx.deposit /\ amount <= tx.amount
  BY <1>1, <1>2
<1> HIDE DEF deposit, amount
<1> QED
  BY <1>4, <1>5, <1>6 DEF EffectiveOK, L1Types, CreateTypes, deposit, amount

\* A processor between two transactions, and after one that brings d of a token.
Ready(p) ==
  Sound(p, p.db.currentIdx) /\ p.db.currentIdx \in UserThreshold - 1 .. MaxIdx

Gained(p, r, token, d) ==
  /\ Ready(r) /\ r.kind = p.kind
  /\ \A i \in DOMAIN p.db.account :
        i \in DOMAIN r.db.account /\ r.db.account[i].token = p.db.account[i].token
  /\ \A t : Total(r, t) = Total(p, t) + IF t = token THEN d ELSE 0

LEMMA MovedIsGained ==
  ASSUME NEW p, Ready(p), NEW r, NEW token, NEW d, Moved(p, r, p.db.currentIdx, token, d)
  PROVE  Gained(p, r, token, d)
BY DEF Ready, Moved, Gained

\* The next account, and what may be moved before currentIdx says so.
LEMMA CountedIsGained ==
  ASSUME NEW p, Ready(p), NEW n, n = p.db.currentIdx + 1, n <= MaxIdx,
         NEW q, NEW token, NEW d, Moved(p, q, n, token, d),
         NEW r, r = [q EXCEPT !.db.currentIdx = n]
  PROVE  Gained(p, r, token, d)
<1>1. Sound(q, n) /\ Fields(q) /\ q.kind = p.kind
  BY DEF Moved, Sound
<1>2. /\ Fields(r) /\ r.kind = q.kind /\ r.failed = q.failed
      /\ r.exitTree = q.exitTree /\ r.accumulatedFees = q.accumulatedFees
      /\ r.db.account = q.db.account /\ r.db.currentIdx = n
  BY <1>1 DEF Fields
<1>3. Sound(r, n)
  BY <1>1, <1>2 DEF Sound
<1>4. n \in UserThreshold - 1 .. MaxIdx
  BY BoundsAssumption DEF Ready, UserThreshold
<1>5. \A t : Total(r, t) = Total(q, t)
  BY <1>2 DEF Total
<1>6. \A t : Total(r, t) = Total(p, t) + IF t = token THEN d ELSE 0
  BY <1>5 DEF Moved
<1>7. \A i \in DOMAIN p.db.account :
         i \in DOMAIN r.db.account /\ r.db.account[i].token = p.db.account[i].token
  BY <1>2 DEF Moved
<1> QED
  BY <1>1, <1>2, <1>3, <1>4, <1>6, <1>7 DEF Gained, Ready

\* NewAccount at the next index.
LEMMA CreatingMoves ==
  ASSUME NEW p, Ready(p), NEW i, i = p.db.currentIdx + 1,
         NEW tx, tx.token \in Tokens, tx.eth \in EthAddrs \cup {FFAddr}, tx.bjj \in BJJs,
         NEW balance, balance \in Nat,
         NEW q, q = CreateAccount(p, i, NewAccount(tx, balance))
  PROVE  /\ Moved(p, q, i, tx.token, balance)
         /\ AccountSet(p, q, i, NewAccount(tx, balance)) /\ ~Has(p.db, i)
<1> DEFINE n == p.db.currentIdx
           a == NewAccount(tx, balance)
<1>1. /\ Sound(p, n) /\ n \in Nat /\ DOMAIN p.db.account = UserThreshold .. n
      /\ n >= UserThreshold - 1 /\ Fields(p)
  BY DEF Ready, Sound, UserThreshold
<1>2. i \notin DOMAIN p.db.account /\ i \in UserThreshold .. i
  BY <1>1 DEF UserThreshold
<1>3. a \in AccountType /\ a.token = tx.token /\ a.balance = balance
  BY DEF AccountType, NewAccount
<1>4. AccountSet(p, q, i, a)
  <2>1. ~Has(p.db, i)
    BY <1>2 DEF Has
  <2> HIDE DEF a
  <2> QED
    BY <2>1, <1>1, CreateAccountSets DEF a
<1>5. MaySet(p, n, i, i, a)
  <2> HIDE DEF a
  <2> QED
    BY <1>1, <1>2, <1>3 DEF MaySet
<1> HIDE DEF a, n
<1>6. Moved(p, q, i, a.token,
            a.balance - IF i \in DOMAIN p.db.account THEN p.db.account[i].balance ELSE 0)
  BY <1>4, <1>5, SettingMoves
<1>7. a.balance - (IF i \in DOMAIN p.db.account THEN p.db.account[i].balance ELSE 0) = balance
  BY <1>2, <1>3
<1> QED
  BY <1>2, <1>3, <1>4, <1>6, <1>7 DEF a, Has

LEMMA CreateGains ==
  ASSUME NEW p, Ready(p), NEW tx, ValidL1(p, tx), tx.type = "CreateAccountDeposit",
         NEW deposit, NEW amount, EffectiveOK(p, tx, deposit, amount),
         NEW effective, effective.deposit = deposit, effective.amount = amount,
         NEW r, r = ApplyCreateAccount(p, tx, effective)
  PROVE  Gained(p, r, tx.token, deposit)
<1> DEFINE i == p.db.currentIdx + 1
           q == CreateAccount(p, i, NewAccount(tx, deposit))
<1>1. /\ tx.token \in Tokens /\ tx.eth \in EthAddrs \cup {FFAddr} /\ tx.bjj \in BJJs
      /\ deposit \in Nat /\ i <= MaxIdx
  BY BoundsAssumption DEF ValidL1, CreateTypes, EffectiveOK, Ready, UserThreshold
<1>2. Moved(p, q, i, tx.token, deposit)
  BY <1>1, CreatingMoves
<1>3. q.failed = FALSE
  BY <1>2 DEF Moved, Sound
<1>4. r = [q EXCEPT !.db.currentIdx = i]
  BY <1>3 DEF ApplyCreateAccount
<1> HIDE DEF q, i
<1> QED
  BY <1>1, <1>2, <1>4, CountedIsGained DEF i

LEMMA CreateTransferGains ==
  ASSUME NEW p, Ready(p), NEW tx, ValidL1(p, tx), tx.type = "CreateAccountDepositTransfer",
         NEW deposit, NEW amount, EffectiveOK(p, tx, deposit, amount),
         NEW effective, effective.deposit = deposit, effective.amount = amount,
         NEW r, r = ApplyCreateAccountDepositTransfer(p, tx, effective)
  PROVE  Gained(p, r, tx.token, deposit)
<1> DEFINE i == p.db.currentIdx + 1
           kept == deposit - amount
           q == CreateAccount(p, i, NewAccount(tx, kept))
           u == Credit(q, tx.to, amount)
<1>1. /\ tx.token \in Tokens /\ tx.eth \in EthAddrs \cup {FFAddr} /\ tx.bjj \in BJJs
      /\ i <= MaxIdx /\ tx.to \in DOMAIN p.db.account
  BY BoundsAssumption DEF ValidL1, CreateTypes, Ready, UserThreshold
<1>2. /\ deposit \in Nat /\ amount \in Nat /\ amount <= deposit
      /\ amount # 0 => p.db.account[tx.to].token = tx.token
  BY DEF EffectiveOK
<1>3. kept \in Nat /\ kept + amount = deposit /\ ~(deposit < amount)
  BY <1>2
<1> HIDE DEF kept, i
<1>4. Moved(p, q, i, tx.token, kept)
  BY <1>1, <1>3, CreatingMoves DEF i
<1>5. /\ Sound(q, i) /\ tx.to \in DOMAIN q.db.account
      /\ q.db.account[tx.to].token = p.db.account[tx.to].token
  BY <1>1, <1>4 DEF Moved
<1>6. tx.to \in UserThreshold .. i
  BY <1>5 DEF Sound
<1> HIDE DEF q
<1>7. Moved(q, u, i, q.db.account[tx.to].token, amount)
  BY <1>2, <1>5, <1>6, CreditMoves
<1> HIDE DEF u
<1>8. Moved(q, u, i, tx.token, amount)
  BY <1>2, <1>5, <1>7, MovesAs
<1>9. Moved(p, u, i, tx.token, deposit)
  <2>1. Sound(p, p.db.currentIdx) /\ kept \in Int /\ amount \in Int
    BY <1>2, <1>3 DEF Ready
  <2>2. Moved(p, u, i, tx.token, kept + amount)
    BY <2>1, <1>4, <1>8, MovesAdd
  <2> QED
    BY <2>2, <1>3
<1>10. u.failed = FALSE
  BY <1>9 DEF Moved, Sound
<1>11. r = [u EXCEPT !.db.currentIdx = i]
  BY <1>3, <1>10 DEF ApplyCreateAccountDepositTransfer, u, q, i, kept
<1> QED
  BY <1>1, <1>9, <1>11, CountedIsGained DEF i

LEMMA DepositGains ==
  ASSUME NEW p, Ready(p), NEW tx, ValidL1(p, tx), tx.type \in {"Deposit", "DepositTransfer"},
         NEW deposit, NEW amount, EffectiveOK(p, tx, deposit, amount),
         NEW effective, effective.deposit = deposit, effective.amount = amount,
         NEW r, r = ApplyDeposit(p, tx, effective, tx.type = "DepositTransfer")
  PROVE  Gained(p, r, tx.token, deposit)
<1> DEFINE n == p.db.currentIdx
           from == tx.from
           account == p.db.account[from]
           d == deposit - amount
           q == UpdateAccount(p, from, Paid(p, from, d))
<1>1. /\ Sound(p, n) /\ from \in DOMAIN p.db.account
      /\ DOMAIN p.db.account = UserThreshold .. n
  BY DEF Ready, ValidL1, CreateTypes, Sound
<1>2. /\ deposit \in Nat /\ amount \in Nat /\ amount <= account.balance + deposit
      /\ deposit # 0 \/ amount # 0 => account.token = tx.token
      /\ tx.type = "DepositTransfer" =>
           tx.to \in DOMAIN p.db.account
           /\ (amount # 0 => p.db.account[tx.to].token = tx.token)
      /\ tx.type = "Deposit" => amount = 0
  BY DEF EffectiveOK, L1Types, CreateTypes, ValidL1
<1>3. account \in AccountType
  BY <1>1 DEF Sound
<1>4. account.balance \in Nat
  BY <1>3 DEF AccountType
<1>5. /\ account.balance + d \in Nat /\ d \in Int /\ d + amount = deposit
      /\ ~(account.balance + deposit < amount)
      /\ account.balance + deposit - amount = account.balance + d
  <2> HIDE DEF account
  <2> QED
    BY <1>2, <1>4
<1>6. Moved(p, q, n, account.token, d) /\ from \in UserThreshold .. n
  BY <1>1, <1>5, PayingMoves
<1>7. Moved(p, q, n, tx.token, d)
  <2>1. d = 0 \/ tx.token = account.token
    BY <1>2
  <2> HIDE DEF account, d, q
  <2> QED
    BY <2>1, <1>6, MovesAs
<1>8. r = IF tx.type = "DepositTransfer" THEN Credit(q, tx.to, amount) ELSE q
  <2>1. Has(p.db, from)
    BY <1>1 DEF Has
  <2>2. Paid(p, from, d) = [account EXCEPT !.balance = @ + deposit - amount]
    BY <1>5 DEF Paid
  <2> HIDE DEF d
  <2> QED
    BY <2>1, <2>2, <1>5 DEF ApplyDeposit
<1>9. CASE tx.type = "Deposit"
  <2>1. r = q /\ d = deposit
    BY <1>2, <1>8, <1>9
  <2> HIDE DEF d, q
  <2> QED
    BY <2>1, <1>7, MovedIsGained
<1>10. CASE tx.type = "DepositTransfer"
  <2>1. /\ r = Credit(q, tx.to, amount) /\ tx.to \in DOMAIN p.db.account
        /\ amount # 0 => p.db.account[tx.to].token = tx.token
    BY <1>2, <1>8, <1>10
  <2> HIDE DEF d, q, account
  <2>2. /\ Sound(q, n) /\ tx.to \in UserThreshold .. n
        /\ q.db.account[tx.to].token = p.db.account[tx.to].token
    BY <2>1, <1>1, <1>7 DEF Moved
  <2>3. Moved(q, r, n, q.db.account[tx.to].token, amount)
    BY <2>1, <2>2, <1>2, CreditMoves
  <2>4. Moved(q, r, n, tx.token, amount)
    BY <2>1, <2>2, <2>3, MovesAs
  <2>5. Moved(p, r, n, tx.token, d + amount)
    <3>1. d \in Int /\ amount \in Int
      BY <1>2, <1>5
    <3> QED
      BY <3>1, <2>4, <1>1, <1>7, MovesAdd
  <2> QED
    BY <2>5, <1>5, MovedIsGained
<1> QED
  BY <1>9, <1>10

LEMMA ForcedGains ==
  ASSUME NEW p, Ready(p), HasExitTree(p), NEW tx, ValidL1(p, tx),
         tx.type \in {"ForceTransfer", "ForceExit"},
         NEW deposit, NEW amount, EffectiveOK(p, tx, deposit, amount),
         NEW q, q = DebitL1(p, tx.from, amount),
         NEW r, r = IF tx.type = "ForceTransfer" THEN Credit(q, tx.to, amount)
                    ELSE AddExit(q, tx.from, tx.amount, amount)
  PROVE  Gained(p, r, tx.token, deposit)
<1> DEFINE n == p.db.currentIdx
           from == tx.from
           account == p.db.account[from]
           d == -amount
<1>1. /\ Sound(p, n) /\ from \in DOMAIN p.db.account
      /\ DOMAIN p.db.account = UserThreshold .. n
  BY DEF Ready, ValidL1, CreateTypes, Sound
<1>2. /\ deposit = 0 /\ amount \in Nat /\ amount <= account.balance + deposit
      /\ amount # 0 => account.token = tx.token
      /\ amount <= tx.amount /\ tx.amount \in Nat
      /\ tx.type = "ForceTransfer" =>
           tx.to \in DOMAIN p.db.account
           /\ (amount # 0 => p.db.account[tx.to].token = tx.token)
  BY DEF EffectiveOK, L1Types, CreateTypes, ValidL1
<1>3. account.balance \in Nat
  BY <1>1 DEF Sound, AccountType
<1>4. account.balance >= amount /\ d \in Int /\ d + amount = deposit /\ (d = 0 <=> amount = 0)
  <2> HIDE DEF account
  <2> QED
    BY <1>2, <1>3
<1>5. Moved(p, q, n, account.token, -amount)
  BY <1>1, <1>2, <1>4, DebitMoves
<1>6. Moved(p, q, n, tx.token, d)
  <2> HIDE DEF account
  <2>1. Moved(p, q, n, account.token, d) /\ (d = 0 \/ tx.token = account.token)
    BY <1>2, <1>4, <1>5
  <2> HIDE DEF d
  <2> QED
    BY <2>1, MovesAs
<1>7. /\ Sound(q, n) /\ HasExitTree(q) /\ DOMAIN q.db.account = UserThreshold .. n
      /\ \A i \in DOMAIN p.db.account : q.db.account[i].token = p.db.account[i].token
  BY <1>6 DEF Moved, HasExitTree, Sound
<1>8. Moved(q, r, n, tx.token, amount)
  <2>1. CASE tx.type = "ForceTransfer"
    <3>1. /\ r = Credit(q, tx.to, amount) /\ tx.to \in UserThreshold .. n
          /\ q.db.account[tx.to].token = p.db.account[tx.to].token
      BY <2>1, <1>1, <1>2, <1>7
    <3>2. Moved(q, r, n, q.db.account[tx.to].token, amount)
      BY <3>1, <1>2, <1>7, CreditMoves
    <3> QED
      BY <3>1, <3>2, <2>1, <1>2, MovesAs
  <2>2. CASE tx.type = "ForceExit"
    <3>1. /\ r = AddExit(q, from, tx.amount, amount) /\ from \in DOMAIN q.db.account
          /\ q.db.account[from].token = account.token
          /\ tx.amount = 0 => amount = 0
      BY <2>2, <1>1, <1>2, <1>7
    <3>2. Moved(q, r, n, q.db.account[from].token, amount)
      <4> HIDE DEF from, n
      <4> QED
        BY <3>1, <1>2, <1>7, AddExitMoves
    <3> QED
      BY <3>1, <3>2, <1>2, MovesAs
  <2> QED
    BY <2>1, <2>2
<1>9. Moved(p, r, n, tx.token, deposit)
  <2>1. d \in Int /\ amount \in Int
    BY <1>2, <1>4
  <2> HIDE DEF d
  <2>2. Moved(p, r, n, tx.token, d + amount)
    BY <2>1, <1>1, <1>6, <1>8, MovesAdd
  <2> QED
    BY <2>2, <1>4
<1> QED
  BY <1>9, MovedIsGained

LEMMA ProcessL1Gains ==
  ASSUME NEW p, Ready(p), HasExitTree(p), NEW tx, ValidL1(p, tx),
         NEW r, r = ProcessL1Tx(p, tx)
  PROVE  Gained(p, r, tx.token, Effective(p.db, tx).deposit)
<1> DEFINE effective == Effective(p.db, tx)
           debited == DebitL1(p, tx.from, effective.amount)
<1>1. EffectiveOK(p, tx, effective.deposit, effective.amount)
  BY EffectiveFits DEF Ready
<1>2. tx.type \in L1Types
  BY DEF ValidL1
<1>3. tx.type \notin CreateTypes => Has(p.db, tx.from)
  BY DEF ValidL1, Has
<1> HIDE DEF effective, debited
<1>4. CASE tx.type = "CreateAccountDeposit"
  <2>1. r = ApplyCreateAccount(p, tx, effective)
    BY <1>4 DEF ProcessL1Tx, effective
  <2> QED
    BY <2>1, <1>1, <1>4, CreateGains DEF effective
<1>5. CASE tx.type = "CreateAccountDepositTransfer"
  <2>1. r = ApplyCreateAccountDepositTransfer(p, tx, effective)
    BY <1>5 DEF ProcessL1Tx, effective
  <2> QED
    BY <2>1, <1>1, <1>5, CreateTransferGains DEF effective
<1>6. CASE tx.type \in {"Deposit", "DepositTransfer"}
  <2>1. r = ApplyDeposit(p, tx, effective, tx.type = "DepositTransfer")
    <3>1. CASE tx.type = "Deposit"
      <4>1. r = ApplyDeposit(p, tx, effective, FALSE)
        BY <3>1 DEF ProcessL1Tx, effective
      <4> QED
        BY <4>1, <3>1 DEF ApplyDeposit
    <3>2. CASE tx.type = "DepositTransfer"
      <4>1. r = ApplyDeposit(p, tx, effective, TRUE)
        BY <3>2 DEF ProcessL1Tx, effective
      <4> QED
        BY <4>1, <3>2 DEF ApplyDeposit
    <3> QED
      BY <3>1, <3>2, <1>6
  <2> QED
    BY <2>1, <1>1, <1>6, DepositGains DEF effective
<1>7. CASE tx.type \in {"ForceTransfer", "ForceExit"}
  <2>1. r = IF tx.type = "ForceTransfer" THEN Credit(debited, tx.to, effective.amount)
            ELSE AddExit(debited, tx.from, tx.amount, effective.amount)
    <3>1. Has(p.db, tx.from)
      BY <1>3, <1>7 DEF CreateTypes
    <3>2. CASE tx.type = "ForceTransfer"
      BY <3>1, <3>2 DEF ProcessL1Tx, effective, debited
    <3>3. CASE tx.type = "ForceExit"
      BY <3>1, <3>3 DEF ProcessL1Tx, effective, debited
    <3> QED
      BY <3>2, <3>3, <1>7
  <2> QED
    BY <2>1, <1>1, <1>7, ForcedGains DEF effective, debited
<1> QED
  BY <1>2, <1>4, <1>5, <1>6, <1>7 DEF L1Types, CreateTypes

\* r is q but for the counters of ProcessTxs.
SameMoney(q, r) ==
  /\ Fields(r) /\ r.kind = q.kind /\ r.failed = q.failed /\ r.db = q.db
  /\ r.exitTree = q.exitTree /\ r.accumulatedFees = q.accumulatedFees

LEMMA SameMoneyGains ==
  ASSUME NEW p, NEW q, NEW token, NEW d, Gained(p, q, token, d), NEW r, SameMoney(q, r)
  PROVE  Gained(p, r, token, d)
<1>1. Ready(r)
  BY DEF Gained, SameMoney, Ready, Sound
<1>2. \A t : Total(r, t) = Total(p, t) + IF t = token THEN d ELSE 0
  BY DEF Gained, SameMoney, Total
<1> QED
  BY <1>1, <1>2 DEF Gained, SameMoney

\* The queue never sticks at a transaction, and no money comes but what counts of it.
LEMMA L1Gains ==
  ASSUME NEW p, Ready(p), HasExitTree(p), NEW tx, ValidL1(p, tx),
         NEW r, r = ProcessL1InBatch(p, tx)
  PROVE  Gained(p, r, tx.token, Effective(p.db, tx).deposit)
<1> DEFINE done == ProcessL1Tx(p, tx)
<1>1. Gained(p, done, tx.token, Effective(p.db, tx).deposit)
  BY ProcessL1Gains
<1>2. p.failed = FALSE /\ done.failed = FALSE /\ Fields(done)
  BY <1>1 DEF Gained, Ready, Sound
<1>3. SameMoney(done, r)
  <2> HIDE DEF done
  <2> QED
    BY <1>2 DEF ProcessL1InBatch, SameMoney, Fields, done
<1> HIDE DEF done
<1> QED
  BY <1>1, <1>3, SameMoneyGains

-----------------------------------------------------------------------------
(* An L2 transaction. *)

\* The sender has what it pays, and receiver, if it is an account, has its token.
ValidL2(p, tx, receiver) ==
  /\ tx.from \in DOMAIN p.db.account
  /\ tx.amount \in Nat /\ FeeAmount(tx.amount, tx.fee) \in Nat
  /\ p.db.account[tx.from].balance >= tx.amount + FeeAmount(tx.amount, tx.fee)
  /\ receiver # ExitIdx =>
       /\ receiver \in DOMAIN p.db.account
       /\ p.db.account[receiver].token = p.db.account[tx.from].token

\* A transfer or an exit, when it is known which.
Pay(p, idxs, tx, receiver) ==
  LET debited == DebitL2(p, idxs, tx)
  IN  IF receiver = ExitIdx THEN AddExit(debited, tx.from, tx.amount, tx.amount)
      ELSE Credit(debited, receiver, tx.amount)

LEMMA PayGains ==
  ASSUME NEW p, Ready(p), HasExitTree(p), NEW idxs, FeeIdxs(p, idxs),
         NEW tx, NEW receiver, ValidL2(p, tx, receiver),
         NEW token, token = p.db.account[tx.from].token,
         NEW r, r = Pay(p, idxs, tx, receiver)
  PROVE  Gained(p, r, token,
                IF token \in DOMAIN idxs THEN 0 ELSE -FeeAmount(tx.amount, tx.fee))
<1> DEFINE n == p.db.currentIdx
           amount == tx.amount
           fee == FeeAmount(tx.amount, tx.fee)
           q == DebitL2(p, idxs, tx)
           d == -amount - IF token \in DOMAIN idxs THEN 0 ELSE fee
<1>1. /\ Sound(p, n) /\ tx.from \in DOMAIN p.db.account /\ amount \in Nat /\ fee \in Nat
      /\ p.db.account[tx.from].balance >= amount + fee
  BY DEF Ready, ValidL2
<1>2. Moved(p, q, n, token, d)
  <2> HIDE DEF fee, amount, q
  <2> QED
    BY <1>1, DebitL2Moves DEF fee, amount, q
<1>3. /\ Sound(q, n) /\ HasExitTree(q) /\ DOMAIN q.db.account = UserThreshold .. n
      /\ \A i \in DOMAIN p.db.account : q.db.account[i].token = p.db.account[i].token
      /\ DOMAIN p.db.account = UserThreshold .. n
  BY <1>1, <1>2 DEF Moved, HasExitTree, Sound
<1>4. d \in Int /\ d + amount = IF token \in DOMAIN idxs THEN 0 ELSE -fee
  <2> HIDE DEF fee, amount
  <2> QED
    BY <1>1
<1>5. Moved(q, r, n, token, amount)
  <2>1. CASE receiver = ExitIdx
    <3>1. r = AddExit(q, tx.from, amount, amount) /\ tx.from \in DOMAIN q.db.account
      BY <2>1, <1>1, <1>3 DEF Pay
    <3>2. q.db.account[tx.from].token = token
      BY <1>1, <1>3
    <3> DEFINE from == tx.from
    <3>3. /\ r = AddExit(q, from, amount, amount) /\ from \in DOMAIN q.db.account
          /\ amount \in Nat /\ Sound(q, n) /\ HasExitTree(q)
      BY <3>1, <1>1, <1>3
    <3> HIDE DEF q, amount, n, from
    <3>4. Moved(q, r, n, q.db.account[from].token, amount)
      BY <3>3, AddExitMoves
    <3> QED
      BY <3>2, <3>4 DEF from
  <2>2. CASE receiver # ExitIdx
    <3>1. r = Credit(q, receiver, amount)
      BY <2>2 DEF Pay
    <3>2. receiver \in UserThreshold .. n /\ q.db.account[receiver].token = token
      BY <2>2, <1>1, <1>3 DEF ValidL2
    <3> HIDE DEF q, amount, n
    <3> QED
      BY <3>1, <3>2, <1>1, <1>3, CreditMoves
  <2> QED
    BY <2>1, <2>2
<1>6. Moved(p, r, n, token, d + amount)
  <2>1. amount \in Int
    BY <1>1
  <2> HIDE DEF d, amount, q, n
  <2> QED
    BY <2>1, <1>1, <1>2, <1>4, <1>5, MovesAdd
<1> HIDE DEF d, amount, fee
<1> QED
  BY <1>4, <1>6, MovedIsGained DEF fee

-----------------------------------------------------------------------------
(* Whose fees are counted. *)

\* r is p, or what p has become, with the same fees to distribute.
SameFees(p, r) == Fields(r) /\ r.accumulatedFees = p.accumulatedFees

LEMMA FailedKeepsFees ==
  ASSUME NEW p, Fields(p), NEW r, r = Failed(p)
  PROVE  SameFees(p, r)
BY DEF Failed, SameFees, Fields

LEMMA UpdateKeepsFees ==
  ASSUME NEW p, Fields(p), NEW i, NEW a, NEW r, r = UpdateAccount(p, i, a)
  PROVE  SameFees(p, r)
BY UpdateAccountSets DEF AccountSet, SameFees

LEMMA CreateKeepsFees ==
  ASSUME NEW p, Fields(p), NEW i, NEW a, NEW r, r = CreateAccount(p, i, a)
  PROVE  SameFees(p, r)
<1>1. CASE Has(p.db, i)
  BY <1>1, FailedKeepsFees DEF CreateAccount
<1>2. CASE ~Has(p.db, i)
  BY <1>2, CreateAccountSets DEF AccountSet, SameFees
<1> QED
  BY <1>1, <1>2

LEMMA CreditKeepsFees ==
  ASSUME NEW p, Fields(p), NEW to, NEW amount, NEW r, r = Credit(p, to, amount)
  PROVE  SameFees(p, r)
<1>1. \/ r = Failed(p)
      \/ r = UpdateAccount(p, to, Paid(p, to, amount))
  BY DEF Credit, Paid
<1> QED
  BY <1>1, FailedKeepsFees, UpdateKeepsFees

LEMMA DebitKeepsFees ==
  ASSUME NEW p, Fields(p), NEW from, NEW amount, NEW r, r = DebitL1(p, from, amount)
  PROVE  SameFees(p, r)
<1> DEFINE a == [p.db.account[from] EXCEPT !.balance = @ - amount]
<1>1. r = Failed(p) \/ r = UpdateAccount(p, from, a)
  BY DEF DebitL1
<1> HIDE DEF a
<1> QED
  BY <1>1, FailedKeepsFees, UpdateKeepsFees

LEMMA AddExitKeepsFees ==
  ASSUME NEW p, Fields(p), NEW from, NEW original, NEW amount,
         NEW r, r = AddExit(p, from, original, amount)
  PROVE  SameFees(p, r)
BY DEF AddExit, SameFees, Fields

LEMMA FeesKeptTwice ==
  ASSUME NEW p, NEW q, NEW r, SameFees(p, q), SameFees(q, r)
  PROVE  SameFees(p, r)
BY DEF SameFees

\* currentIdx moves and nothing else.
LEMMA CountingKeepsFees ==
  ASSUME NEW p, Fields(p), NEW i, NEW r, r = [p EXCEPT !.db.currentIdx = i]
  PROVE  SameFees(p, r)
BY DEF SameFees, Fields

LEMMA ProcessL1KeepsFees ==
  ASSUME NEW p, Fields(p), NEW tx, tx.type \in L1Types, NEW r, r = ProcessL1Tx(p, tx)
  PROVE  SameFees(p, r)
<1> DEFINE effective == Effective(p.db, tx)
           debited == IF Has(p.db, tx.from) THEN DebitL1(p, tx.from, effective.amount)
                      ELSE Failed(p)
           i == p.db.currentIdx + 1
<1> HIDE DEF effective, i
<1>1. SameFees(p, debited) /\ Fields(debited)
  <2>1. SameFees(p, debited)
    BY FailedKeepsFees, DebitKeepsFees
  <2> QED
    BY <2>1 DEF SameFees
<1> HIDE DEF debited
<1>2. CASE tx.type = "ForceTransfer"
  <2>1. r = Credit(debited, tx.to, effective.amount)
    BY <1>2 DEF ProcessL1Tx, debited, effective
  <2> QED
    BY <2>1, <1>1, CreditKeepsFees, FeesKeptTwice
<1>3. CASE tx.type = "ForceExit"
  <2>1. r = AddExit(debited, tx.from, tx.amount, effective.amount)
    BY <1>3 DEF ProcessL1Tx, debited, effective
  <2> QED
    BY <2>1, <1>1, AddExitKeepsFees, FeesKeptTwice
<1>4. CASE tx.type = "CreateAccountDeposit"
  <2> DEFINE created == CreateAccount(p, i, NewAccount(tx, effective.deposit))
  <2>1. r = IF created.failed THEN created ELSE [created EXCEPT !.db.currentIdx = i]
    BY <1>4 DEF ProcessL1Tx, ApplyCreateAccount, effective, i
  <2>2. SameFees(p, created) /\ Fields(created)
    <3>1. SameFees(p, created)
      BY CreateKeepsFees
    <3> QED
      BY <3>1 DEF SameFees
  <2> HIDE DEF created
  <2> QED
    BY <2>1, <2>2, CountingKeepsFees, FeesKeptTwice
<1>5. CASE tx.type = "CreateAccountDepositTransfer"
  <2> DEFINE created == CreateAccount(p, i, NewAccount(tx, effective.deposit - effective.amount))
             paid == Credit(created, tx.to, effective.amount)
  <2>1. \/ r = Failed(p) \/ r = paid
        \/ r = [paid EXCEPT !.db.currentIdx = i]
    BY <1>5 DEF ProcessL1Tx, ApplyCreateAccountDepositTransfer, effective, i
  <2>2. SameFees(p, created) /\ Fields(created)
    <3>1. SameFees(p, created)
      BY CreateKeepsFees
    <3> QED
      BY <3>1 DEF SameFees
  <2> HIDE DEF created
  <2>3. SameFees(p, paid) /\ Fields(paid)
    <3>1. SameFees(p, paid)
      BY <2>2, CreditKeepsFees, FeesKeptTwice
    <3> QED
      BY <3>1 DEF SameFees
  <2> HIDE DEF paid
  <2> QED
    BY <2>1, <2>3, FailedKeepsFees, CountingKeepsFees, FeesKeptTwice
<1>6. CASE tx.type \in {"Deposit", "DepositTransfer"}
  <2> DEFINE a == [p.db.account[tx.from] EXCEPT
                       !.balance = @ + effective.deposit - effective.amount]
             paid == UpdateAccount(p, tx.from, a)
  <2>1. r = Failed(p) \/ r = paid \/ r = Credit(paid, tx.to, effective.amount)
    BY <1>6 DEF ProcessL1Tx, ApplyDeposit, effective
  <2> HIDE DEF a
  <2>2. SameFees(p, paid) /\ Fields(paid)
    <3>1. SameFees(p, paid)
      BY UpdateKeepsFees
    <3> QED
      BY <3>1 DEF SameFees
  <2> HIDE DEF paid
  <2> QED
    BY <2>1, <2>2, FailedKeepsFees, CreditKeepsFees, FeesKeptTwice
<1> QED
  BY <1>2, <1>3, <1>4, <1>5, <1>6 DEF L1Types, CreateTypes

LEMMA L1KeepsFees ==
  ASSUME NEW p, Fields(p), NEW tx, tx.type \in L1Types, NEW r, r = ProcessL1InBatch(p, tx)
  PROVE  SameFees(p, r)
<1> DEFINE done == ProcessL1Tx(p, tx)
<1>1. SameFees(p, done)
  BY ProcessL1KeepsFees
<1> HIDE DEF done
<1> QED
  BY <1>1 DEF ProcessL1InBatch, done, Failed, SameFees, Fields

\* A fee is only ever added where there is one.
LEMMA PayKeepsWhose ==
  ASSUME NEW p, Fields(p), NEW idxs, NEW tx, NEW receiver,
         \A t \in DOMAIN idxs : idxs[t] \in DOMAIN p.accumulatedFees,
         NEW r, r = Pay(p, idxs, tx, receiver)
  PROVE  Fields(r) /\ DOMAIN r.accumulatedFees = DOMAIN p.accumulatedFees
<1> DEFINE account == p.db.account[tx.from]
           fee == FeeAmount(tx.amount, tx.fee)
           collected == CollectFee(p, idxs, account.token, fee)
           debited == DebitL2(p, idxs, tx)
           a == [account EXCEPT !.balance = @ - tx.amount - fee, !.nonce = @ + 1]
<1>1. Fields(collected) /\ DOMAIN collected.accumulatedFees = DOMAIN p.accumulatedFees
  <2> HIDE DEF account, fee
  <2> QED
    BY DEF CollectFee, Fields, Failed, Put
<1>2. \/ debited = Failed(p) \/ debited = collected
      \/ debited = UpdateAccount(collected, tx.from, a)
  BY DEF DebitL2
<1>3. Fields(debited) /\ DOMAIN debited.accumulatedFees = DOMAIN p.accumulatedFees
  <2> HIDE DEF a, collected, debited
  <2>1. \/ SameFees(p, debited) \/ debited = collected \/ SameFees(collected, debited)
    BY <1>1, <1>2, FailedKeepsFees, UpdateKeepsFees
  <2> QED
    BY <2>1, <1>1 DEF SameFees
<1>4. SameFees(debited, r)
  <2> HIDE DEF debited
  <2>1. \/ r = AddExit(debited, tx.from, tx.amount, tx.amount)
        \/ r = Credit(debited, receiver, tx.amount)
    BY DEF Pay, debited
  <2> QED
    BY <2>1, <1>3, AddExitKeepsFees, CreditKeepsFees
<1> HIDE DEF debited
<1> QED
  BY <1>3, <1>4 DEF SameFees

-----------------------------------------------------------------------------
(* The two databases. *)

Twins(p, q) ==
  /\ Fields(p) /\ Fields(q)
  /\ p.kind = "Synchronizer" /\ q.kind = "BatchBuilder"
  /\ p.db = q.db /\ p.failed = q.failed
  /\ p.exitTree = q.exitTree /\ p.accumulatedFees = q.accumulatedFees

LEMMA TwinsFail ==
  ASSUME NEW p, NEW q, Twins(p, q)
  PROVE  Twins(Failed(p), Failed(q))
BY DEF Twins, Failed, Fields

LEMMA TwinsUpdate ==
  ASSUME NEW p, NEW q, Twins(p, q), NEW i, NEW a
  PROVE  Twins(UpdateAccount(p, i, a), UpdateAccount(q, i, a))
BY DEF Twins, UpdateAccount, Fields

LEMMA TwinsCreate ==
  ASSUME NEW p, NEW q, Twins(p, q), NEW i, NEW a
  PROVE  Twins(CreateAccount(p, i, a), CreateAccount(q, i, a))
<1> DEFINE u == UpdateAccount(p, i, a)
           v == UpdateAccount(q, i, a)
           db == SetIdxByEthAddrBJJ(u.db, i, a.eth, a.bjj, a.token)
<1>1. Twins(u, v)
  BY TwinsUpdate
<1>2. CASE Has(p.db, i)
  BY <1>2, TwinsFail DEF CreateAccount, Twins
<1>3. CASE ~Has(p.db, i)
  <2>1. CreateAccount(p, i, a) = [u EXCEPT !.db = db]
    BY <1>3 DEF CreateAccount
  <2>2. CreateAccount(q, i, a) = [v EXCEPT !.db = db]
    BY <1>1, <1>3 DEF CreateAccount, Twins
  <2>3. DOMAIN db = DOMAIN u.db
    <3> HIDE DEF u
    <3> QED
      BY <1>1 DEF Twins, Fields, SetIdxByEthAddrBJJ
  <2> HIDE DEF u, v, db
  <2> QED
    BY <1>1, <2>1, <2>2, <2>3 DEF Twins, Fields
<1> QED
  BY <1>2, <1>3

LEMMA TwinsCredit ==
  ASSUME NEW p, NEW q, Twins(p, q), NEW to, NEW amount
  PROVE  Twins(Credit(p, to, amount), Credit(q, to, amount))
<1> DEFINE a == Paid(p, to, amount)
<1>1. Twins(UpdateAccount(p, to, a), UpdateAccount(q, to, a)) /\ Twins(Failed(p), Failed(q))
  BY TwinsUpdate, TwinsFail
<1>2. Credit(p, to, amount) =
        IF p.failed \/ ~Has(p.db, to) THEN Failed(p) ELSE UpdateAccount(p, to, a)
  BY DEF Credit, Paid
<1>3. Credit(q, to, amount) =
        IF p.failed \/ ~Has(p.db, to) THEN Failed(q) ELSE UpdateAccount(q, to, a)
  BY DEF Credit, Paid, Twins
<1> HIDE DEF a
<1> QED
  BY <1>1, <1>2, <1>3

LEMMA TwinsDebit ==
  ASSUME NEW p, NEW q, Twins(p, q), NEW from, NEW amount
  PROVE  Twins(DebitL1(p, from, amount), DebitL1(q, from, amount))
<1> DEFINE account == p.db.account[from]
           a == [account EXCEPT !.balance = @ - amount]
<1>1. Twins(UpdateAccount(p, from, a), UpdateAccount(q, from, a)) /\ Twins(Failed(p), Failed(q))
  BY TwinsUpdate, TwinsFail
<1>2. DebitL1(p, from, amount) =
        IF account.balance < amount THEN Failed(p) ELSE UpdateAccount(p, from, a)
  BY DEF DebitL1
<1>3. DebitL1(q, from, amount) =
        IF account.balance < amount THEN Failed(q) ELSE UpdateAccount(q, from, a)
  BY DEF DebitL1, Twins
<1> HIDE DEF account, a
<1> QED
  BY <1>1, <1>2, <1>3

LEMMA TwinsAddExit ==
  ASSUME NEW p, NEW q, Twins(p, q), NEW from, NEW original, NEW amount
  PROVE  Twins(AddExit(p, from, original, amount), AddExit(q, from, original, amount))
BY DEF Twins, AddExit, Fields, HasExitTree

LEMMA TwinsCount ==
  ASSUME NEW p, NEW q, Twins(p, q), NEW i
  PROVE  Twins([p EXCEPT !.db.currentIdx = i], [q EXCEPT !.db.currentIdx = i])
BY DEF Twins, Fields

LEMMA TwinsProcessL1 ==
  ASSUME NEW p, NEW q, Twins(p, q), NEW tx, tx.type \in L1Types
  PROVE  Twins(ProcessL1Tx(p, tx), ProcessL1Tx(q, tx))
<1> DEFINE effective == Effective(p.db, tx)
           deposit == effective.deposit
           amount == effective.amount
           Debited(r) == IF Has(p.db, tx.from) THEN DebitL1(r, tx.from, amount) ELSE Failed(r)
           i == p.db.currentIdx + 1
<1>0. q.db = p.db
  BY DEF Twins
<1> HIDE DEF effective, i
<1>1. Twins(Debited(p), Debited(q))
  BY TwinsFail, TwinsDebit
<1>2. CASE tx.type = "ForceTransfer"
  <2>1. /\ ProcessL1Tx(p, tx) = Credit(Debited(p), tx.to, amount)
        /\ ProcessL1Tx(q, tx) = Credit(Debited(q), tx.to, amount)
    BY <1>0, <1>2 DEF ProcessL1Tx, effective
  <2> HIDE DEF Debited, amount
  <2> QED
    BY <2>1, <1>1, TwinsCredit
<1>3. CASE tx.type = "ForceExit"
  <2>1. /\ ProcessL1Tx(p, tx) = AddExit(Debited(p), tx.from, tx.amount, amount)
        /\ ProcessL1Tx(q, tx) = AddExit(Debited(q), tx.from, tx.amount, amount)
    BY <1>0, <1>3 DEF ProcessL1Tx, effective
  <2> HIDE DEF Debited, amount
  <2> QED
    BY <2>1, <1>1, TwinsAddExit
<1>4. CASE tx.type = "CreateAccountDeposit"
  <2> DEFINE Created(r) == CreateAccount(r, i, NewAccount(tx, deposit))
             Done(r) == IF Created(r).failed THEN Created(r)
                        ELSE [Created(r) EXCEPT !.db.currentIdx = i]
  <2>1. ProcessL1Tx(p, tx) = Done(p) /\ ProcessL1Tx(q, tx) = Done(q)
    BY <1>0, <1>4 DEF ProcessL1Tx, ApplyCreateAccount, effective, i
  <2>2. Twins(Created(p), Created(q))
    BY TwinsCreate
  <2>3. Created(p).failed = Created(q).failed
    BY <2>2 DEF Twins
  <2> HIDE DEF Created
  <2>4. Twins([Created(p) EXCEPT !.db.currentIdx = i], [Created(q) EXCEPT !.db.currentIdx = i])
    BY <2>2, TwinsCount
  <2>5. Twins(Done(p), Done(q))
    BY <2>2, <2>3, <2>4
  <2> HIDE DEF Done
  <2> QED
    BY <2>1, <2>5
<1>5. CASE tx.type = "CreateAccountDepositTransfer"
  <2> DEFINE Created(r) == CreateAccount(r, i, NewAccount(tx, deposit - amount))
             Credited(r) == Credit(Created(r), tx.to, amount)
             Done(r) == IF deposit < amount THEN Failed(r)
                        ELSE IF Credited(r).failed THEN Credited(r)
                        ELSE [Credited(r) EXCEPT !.db.currentIdx = i]
  <2>1. ProcessL1Tx(p, tx) = Done(p) /\ ProcessL1Tx(q, tx) = Done(q)
    BY <1>0, <1>5 DEF ProcessL1Tx, ApplyCreateAccountDepositTransfer, effective, i
  <2>2. Twins(Created(p), Created(q))
    BY TwinsCreate
  <2> HIDE DEF Created
  <2>3. Twins(Credited(p), Credited(q))
    BY <2>2, TwinsCredit
  <2>4. Credited(p).failed = Credited(q).failed
    BY <2>3 DEF Twins
  <2> HIDE DEF Credited, deposit, amount
  <2>5. Twins([Credited(p) EXCEPT !.db.currentIdx = i], [Credited(q) EXCEPT !.db.currentIdx = i])
    BY <2>3, TwinsCount
  <2>6. Twins(Failed(p), Failed(q))
    BY TwinsFail
  <2>7. Twins(Done(p), Done(q))
    BY <2>3, <2>4, <2>5, <2>6
  <2> HIDE DEF Done
  <2> QED
    BY <2>1, <2>7
<1>6. CASE tx.type \in {"Deposit", "DepositTransfer"}
  <2> DEFINE account == p.db.account[tx.from]
             a == [account EXCEPT !.balance = @ + deposit - amount]
             Updated(r) == UpdateAccount(r, tx.from, a)
             Done(r) == IF ~Has(p.db, tx.from) THEN Failed(r)
                        ELSE IF account.balance + deposit < amount THEN Failed(r)
                        ELSE IF tx.type = "DepositTransfer" THEN Credit(Updated(r), tx.to, amount)
                        ELSE Updated(r)
  <2>1. ProcessL1Tx(p, tx) = Done(p) /\ ProcessL1Tx(q, tx) = Done(q)
    <3>1. CASE tx.type = "Deposit"
      BY <3>1, <1>0 DEF ProcessL1Tx, ApplyDeposit, effective
    <3>2. CASE tx.type = "DepositTransfer"
      BY <3>2, <1>0 DEF ProcessL1Tx, ApplyDeposit, effective
    <3> QED
      BY <3>1, <3>2, <1>6
  <2> HIDE DEF a
  <2>2. Twins(Updated(p), Updated(q))
    BY TwinsUpdate
  <2> HIDE DEF Updated
  <2>3. Twins(Credit(Updated(p), tx.to, amount), Credit(Updated(q), tx.to, amount))
    BY <2>2, TwinsCredit
  <2>4. Twins(Failed(p), Failed(q))
    BY TwinsFail
  <2> HIDE DEF account, amount, deposit
  <2>5. Twins(Done(p), Done(q))
    BY <2>2, <2>3, <2>4
  <2> HIDE DEF Done
  <2> QED
    BY <2>1, <2>5
<1> QED
  BY <1>2, <1>3, <1>4, <1>5, <1>6 DEF L1Types, CreateTypes

LEMMA TwinsL1 ==
  ASSUME NEW p, NEW q, Twins(p, q), NEW tx, tx.type \in L1Types
  PROVE  Twins(ProcessL1InBatch(p, tx), ProcessL1InBatch(q, tx))
<1> DEFINE Done(r) == ProcessL1Tx(r, tx)
<1>1. Twins(Done(p), Done(q))
  BY TwinsProcessL1
<1> HIDE DEF Done
<1> QED
  BY <1>1 DEF ProcessL1InBatch, Done, Twins, Failed, Fields

LEMMA TwinsPay ==
  ASSUME NEW p, NEW q, Twins(p, q), NEW idxs, NEW tx, NEW receiver,
         NEW other, other.from = tx.from, other.amount = tx.amount, other.fee = tx.fee
  PROVE  Twins(Pay(p, idxs, tx, receiver), Pay(q, idxs, other, receiver))
<1> DEFINE account == p.db.account[tx.from]
           token == account.token
           fee == FeeAmount(tx.amount, tx.fee)
           Collected(r) == CollectFee(r, idxs, token, fee)
           a == [account EXCEPT !.balance = @ - tx.amount - fee, !.nonce = @ + 1]
           Debited(r) == IF account.balance < tx.amount + fee THEN Failed(r)
                         ELSE IF Collected(r).failed THEN Collected(r)
                         ELSE UpdateAccount(Collected(r), tx.from, a)
<1>1. q.db = p.db
  BY DEF Twins
<1>2. DebitL2(p, idxs, tx) = Debited(p) /\ DebitL2(q, idxs, other) = Debited(q)
  BY <1>1 DEF DebitL2
<1>3. Twins(Collected(p), Collected(q))
  <2> HIDE DEF account, fee, token
  <2> QED
    BY DEF Twins, CollectFee, Failed, Fields, HasExitTree
<1>4. Collected(p).failed = Collected(q).failed
  BY <1>3 DEF Twins
<1> HIDE DEF a, Collected
<1>5. Twins(UpdateAccount(Collected(p), tx.from, a), UpdateAccount(Collected(q), tx.from, a))
  BY <1>3, TwinsUpdate
<1>6. Twins(Failed(p), Failed(q))
  BY TwinsFail
<1> HIDE DEF account, fee
<1>7. Twins(Debited(p), Debited(q))
  BY <1>3, <1>4, <1>5, <1>6
<1> HIDE DEF Debited
<1>8. CASE receiver = ExitIdx
  <2>1. /\ Pay(p, idxs, tx, receiver) = AddExit(Debited(p), tx.from, tx.amount, tx.amount)
        /\ Pay(q, idxs, other, receiver) = AddExit(Debited(q), tx.from, tx.amount, tx.amount)
    BY <1>2, <1>8 DEF Pay
  <2> QED
    BY <2>1, <1>7, TwinsAddExit
<1>9. CASE receiver # ExitIdx
  <2>1. /\ Pay(p, idxs, tx, receiver) = Credit(Debited(p), receiver, tx.amount)
        /\ Pay(q, idxs, other, receiver) = Credit(Debited(q), receiver, tx.amount)
    BY <1>2, <1>9 DEF Pay
  <2> QED
    BY <2>1, <1>7, TwinsCredit
<1> QED
  BY <1>8, <1>9

\* ProcessL2Tx finds the receiver, and pays.
LEMMA ProcessL2Pays ==
  ASSUME NEW p, NEW idxs, NEW tx, NEW receiver, Has(p.db, tx.from), receiver # NoIdx,
         Receiver(p, tx) = receiver,
         ~(p.kind = "Synchronizer" /\ tx.to = NoIdx /\ tx.auxTo = NoIdx),
         tx.type \in L2Types, tx.type = "Exit" <=> receiver = ExitIdx
  PROVE  ProcessL2Tx(p, idxs, tx) = Pay(p, idxs, tx, receiver)
BY DEF ProcessL2Tx, Pay

\* With the counters of the batch.
LEMMA ProcessL2InBatchPays ==
  ASSUME NEW p, p.failed = FALSE, NEW idxs, NEW tx, NEW done,
         done = ProcessL2Tx(p, idxs, tx), Fields(done), done.failed = FALSE,
         NEW r, r = ProcessL2InBatch(p, idxs, tx)
  PROVE  SameMoney(done, r)
BY DEF ProcessL2InBatch, SameMoney, Fields

\* What L2Txs gives.
TxOK(tx) ==
  /\ tx.from \in Accounts /\ tx.amount \in Nat /\ tx.fee \in Nat /\ tx.auxTo = NoIdx
  /\ DOMAIN tx = {"type", "from", "to", "auxTo", "toEth", "toBJJ", "amount", "fee"}
  /\ \/ tx.type = "Transfer" /\ tx.to \in Accounts
     \/ tx.type \in {"TransferToEthAddr", "TransferToBJJ"} /\ tx.to = NoIdx
     \/ tx.type = "Exit" /\ tx.to = ExitIdx

LEMMA L2TxsAreOK ==
  ASSUME NEW tx \in L2Txs
  PROVE  TxOK(tx)
<1>0. Amounts \subseteq Nat /\ Fees \subseteq Nat
  BY BoundsAssumption
<1>1. CASE tx \in {L2Tx("Transfer", from, to, NoAddr, NoBJJ, a, f) :
                     from \in Accounts, to \in Accounts, a \in Amounts, f \in Fees}
  <2>1. PICK from \in Accounts, to \in Accounts, a \in Amounts, f \in Fees :
           tx = L2Tx("Transfer", from, to, NoAddr, NoBJJ, a, f)
    BY <1>1
  <2> QED
    BY <2>1, <1>0 DEF L2Tx, TxOK
<1>2. CASE tx \in {L2Tx("TransferToEthAddr", from, NoIdx, e, NoBJJ, a, f) :
                     from \in Accounts, e \in EthAddrs, a \in Amounts, f \in Fees}
  <2>1. PICK from \in Accounts, e \in EthAddrs, a \in Amounts, f \in Fees :
           tx = L2Tx("TransferToEthAddr", from, NoIdx, e, NoBJJ, a, f)
    BY <1>2
  <2> QED
    BY <2>1, <1>0 DEF L2Tx, TxOK
<1>3. CASE tx \in {L2Tx("TransferToBJJ", from, NoIdx, FFAddr, b, a, f) :
                     from \in Accounts, b \in BJJs, a \in Amounts, f \in Fees}
  <2>1. PICK from \in Accounts, b \in BJJs, a \in Amounts, f \in Fees :
           tx = L2Tx("TransferToBJJ", from, NoIdx, FFAddr, b, a, f)
    BY <1>3
  <2> QED
    BY <2>1, <1>0 DEF L2Tx, TxOK
<1>4. CASE tx \in {L2Tx("Exit", from, ExitIdx, NoAddr, NoBJJ, a, f) :
                     from \in Accounts, a \in Amounts, f \in Fees}
  <2>1. PICK from \in Accounts, a \in Amounts, f \in Fees :
           tx = L2Tx("Exit", from, ExitIdx, NoAddr, NoBJJ, a, f)
    BY <1>4
  <2> QED
    BY <2>1, <1>0 DEF L2Tx, TxOK
<1> QED
  BY <1>1, <1>2, <1>3, <1>4 DEF L2Txs

\* The way over the contract does not change what a transaction does.
LEMMA ForgedIs ==
  ASSUME NEW tx, TxOK(tx), NewFloat40(tx.amount) # NotExact,
         sync.db.currentIdx \in Nat, sync.db.currentIdx <= MaxIdx,
         DOMAIN sync.db.account = UserThreshold .. sync.db.currentIdx,
         NEW receiver, receiver = ReceiverOf(tx), receiver \in Accounts \/ receiver = ExitIdx,
         NEW forged, forged = Forged(tx)
  PROVE  /\ forged.from = tx.from /\ forged.to = receiver /\ forged.auxTo = NoIdx
         /\ forged.amount = tx.amount /\ forged.fee = tx.fee
         /\ forged.type = IF receiver = ExitIdx THEN "Exit" ELSE "Transfer"
<1> DEFINE aux == AuxToIdx(builder, tx)
           l2 == PoolL2Tx_L2Tx([tx EXCEPT !.auxTo = aux])
           data == DataAvailability(l2, tx.amount, tx.fee)
<1>1. /\ l2.from = tx.from
      /\ l2.to = IF tx.to = NoIdx THEN aux ELSE tx.to
  <2> HIDE DEF aux
  <2> QED
    BY DEF PoolL2Tx_L2Tx, TxOK
<1>2. l2.to = receiver
  BY <1>1 DEF ReceiverOf
<1>3. forged = L2TxFromData(data)
  <2> DEFINE x == [tx EXCEPT !.auxTo = aux]
  <2>1. x.amount = tx.amount /\ x.fee = tx.fee
    <3> HIDE DEF aux
    <3> QED
      BY DEF TxOK
  <2>2. L2Data(x) = DataAvailability(PoolL2Tx_L2Tx(x), x.amount, x.fee)
    BY DEF L2Data
  <2>3. forged = L2TxFromData(L2Data(x))
    BY DEF Forged
  <2>4. l2 = PoolL2Tx_L2Tx(x)
    OBVIOUS
  <2> HIDE DEF x, l2
  <2> QED
    BY <2>1, <2>2, <2>3, <2>4
<1> HIDE DEF l2
<1>4. /\ IdxRange \in Nat \ {0} /\ {ExitIdx, MaxIdx} \subseteq 0 .. IdxRange - 1
      /\ MaxIdx \in Nat
  BY FloatAssumption, BoundsAssumption
<1>5. \A i \in Accounts \cup {ExitIdx} : i \in 0 .. IdxRange - 1
  BY <1>4 DEF Accounts, UserThreshold, ExitIdx
<1>6. l2.from % IdxRange = tx.from /\ l2.to % IdxRange = receiver
  <2>1. tx.from \in 0 .. IdxRange - 1 /\ receiver \in 0 .. IdxRange - 1
    BY <1>5 DEF TxOK
  <2> QED
    BY <2>1, <1>1, <1>2, <1>4, SmallModulo
<1>7. BigInt(NewFloat40(tx.amount)) = tx.amount
  BY ExactFloat DEF TxOK
<1>8. /\ data.from = tx.from /\ data.to = receiver /\ data.fee = tx.fee
      /\ data.amount = NewFloat40(tx.amount)
  BY <1>6 DEF DataAvailability
<1>9. L2TypeOf(data) = IF receiver = ExitIdx THEN "Exit" ELSE "Transfer"
  <2>1. receiver # ExitIdx => receiver >= UserThreshold
    BY DEF Accounts, UserThreshold
  <2>2. data.to = receiver
    BY <1>8
  <2> HIDE DEF data
  <2>3. CASE receiver = ExitIdx
    <3>1. data.to = ExitIdx
      BY <2>2, <2>3
    <3> QED
      BY <3>1, <2>3 DEF L2TypeOf, ExitIdx, UserThreshold
  <2>4. CASE receiver # ExitIdx
    <3>1. data.to # ExitIdx /\ data.to >= UserThreshold
      BY <2>1, <2>2, <2>4
    <3> QED
      BY <3>1, <2>4 DEF L2TypeOf
  <2> QED
    BY <2>3, <2>4
<1> HIDE DEF data
<1> QED
  BY <1>3, <1>7, <1>8, <1>9 DEF L2TxFromData

LEMMA SameMoneyTwins ==
  ASSUME NEW p, NEW q, Twins(p, q), NEW r, SameMoney(p, r), NEW s, SameMoney(q, s)
  PROVE  Twins(r, s)
BY DEF Twins, SameMoney

\* The one looks the receiver up and the other is told it, and both pay the same.
LEMMA L2Step ==
  ASSUME Twins(sync, builder), Ready(sync), FeeIdxs(sync, IdxOfToken),
         \A t \in DOMAIN IdxOfToken : IdxOfToken[t] \in DOMAIN sync.accumulatedFees,
         NEW tx, TxOK(tx), Provable(tx), NEW token, token = TokenOf(tx.from),
         NEW r, r = ProcessL2InBatch(sync, IdxOfToken, Forged(tx)),
         NEW s, s = ProcessL2InBatch(builder, IdxOfToken, tx)
  PROVE  /\ Gained(sync, r, token, IF token \in DOMAIN IdxOfToken THEN 0
                                   ELSE -FeeAmount(tx.amount, tx.fee))
         /\ Twins(r, s)
         /\ DOMAIN r.accumulatedFees = DOMAIN sync.accumulatedFees
         /\ \E receiver, paid :
               /\ paid = Pay(sync, IdxOfToken, Forged(tx), receiver)
               /\ paid = ProcessL2Tx(sync, IdxOfToken, Forged(tx)) /\ Ready(paid)
<1> DEFINE idxs == IdxOfToken
           forged == Forged(tx)
           receiver == ReceiverOf(tx)
           d == IF token \in DOMAIN idxs THEN 0 ELSE -FeeAmount(tx.amount, tx.fee)
           paid == Pay(sync, idxs, forged, receiver)
           built == Pay(builder, idxs, tx, receiver)
<1>1. /\ sync.db.currentIdx \in Nat /\ sync.db.currentIdx <= MaxIdx
      /\ DOMAIN sync.db.account = UserThreshold .. sync.db.currentIdx
      /\ sync.failed = FALSE /\ Fields(sync)
  BY DEF Ready, Sound
<1>2. /\ builder.db = sync.db /\ builder.failed = FALSE /\ Fields(builder)
      /\ sync.kind = "Synchronizer" /\ builder.kind = "BatchBuilder"
  BY <1>1 DEF Twins
<1>3. receiver \in Accounts \/ receiver = ExitIdx
  BY DEF Provable, TxOK, ReceiverOf, NoIdx, ExitIdx
<1>4. receiver # NoIdx
  BY <1>1, <1>3 DEF Accounts, NoIdx, ExitIdx, UserThreshold
<1>5. tx.type = "Exit" <=> receiver = ExitIdx
  BY <1>1 DEF Provable, TxOK, ReceiverOf, NoIdx, ExitIdx, Accounts, UserThreshold
<1>6. Receiver(builder, tx) = receiver
  BY <1>4 DEF Receiver, ReceiverOf, AuxToIdx, TxOK
<1>7. /\ forged.from = tx.from /\ forged.to = receiver /\ forged.auxTo = NoIdx
      /\ forged.amount = tx.amount /\ forged.fee = tx.fee
      /\ forged.type = IF receiver = ExitIdx THEN "Exit" ELSE "Transfer"
  <2> NewFloat40(tx.amount) # NotExact
    BY DEF Provable
  <2> HIDE DEF forged, receiver
  <2> QED
    BY <1>1, <1>3, ForgedIs DEF forged, receiver
<1> HIDE DEF idxs, forged, receiver
<1>8. Receiver(sync, forged) = receiver
  BY <1>4, <1>7 DEF Receiver, AuxToIdx
<1>9. tx.from \in DOMAIN sync.db.account
  BY DEF TxOK, Accounts
<1>10. ProcessL2Tx(sync, idxs, forged) = paid
  <2>1. forged.type \in L2Types /\ (forged.type = "Exit" <=> receiver = ExitIdx)
    BY <1>7 DEF L2Types
  <2>2. Has(sync.db, forged.from) /\ forged.to # NoIdx
    BY <1>4, <1>7, <1>9 DEF Has
  <2> QED
    BY <2>1, <2>2, <1>4, <1>8, ProcessL2Pays
<1>11. ProcessL2Tx(builder, idxs, tx) = built
  <2>1. tx.type \in L2Types /\ Has(builder.db, tx.from)
    BY <1>2, <1>9 DEF TxOK, L2Types, Has
  <2> QED
    BY <2>1, <1>2, <1>4, <1>5, <1>6, ProcessL2Pays
<1>12. ValidL2(sync, forged, receiver)
  <2>1. FeeAmount(tx.amount, tx.fee) \in Nat /\ tx.amount \in Nat
    BY FeeIsNat DEF TxOK
  <2>2. sync.db.account[tx.from].balance >= tx.amount + FeeAmount(tx.amount, tx.fee)
    BY DEF Provable, CheckEnoughBalance
  <2>3. receiver # ExitIdx =>
          /\ receiver \in DOMAIN sync.db.account
          /\ sync.db.account[receiver].token = sync.db.account[tx.from].token
    BY <1>5 DEF Provable, receiver, Accounts, TokenOf
  <2> QED
    BY <2>1, <2>2, <2>3, <1>7, <1>9 DEF ValidL2
<1> HIDE DEF paid, built
<1>13. Gained(sync, paid, token, d)
  <2>1. HasExitTree(sync) /\ FeeIdxs(sync, idxs)
    BY <1>2 DEF HasExitTree, idxs
  <2>2. token = sync.db.account[forged.from].token
    BY <1>7 DEF TokenOf
  <2>3. Gained(sync, paid, token,
               IF token \in DOMAIN idxs THEN 0 ELSE -FeeAmount(forged.amount, forged.fee))
    BY <2>1, <2>2, <1>12, PayGains DEF paid
  <2> QED
    BY <2>3, <1>7
<1>14. Twins(paid, built)
  BY <1>7, TwinsPay DEF paid, built
<1>15. DOMAIN paid.accumulatedFees = DOMAIN sync.accumulatedFees
  BY <1>1, PayKeepsWhose DEF paid, idxs
<1>16. /\ Fields(paid) /\ paid.failed = FALSE
       /\ Fields(built) /\ built.failed = FALSE
  BY <1>13, <1>14 DEF Gained, Ready, Sound, Twins
<1>17. SameMoney(paid, r)
  BY <1>1, <1>10, <1>16, ProcessL2InBatchPays DEF idxs, forged
<1>18. SameMoney(built, s)
  BY <1>2, <1>11, <1>16, ProcessL2InBatchPays DEF idxs
<1>19. Gained(sync, r, token, d)
  <2> HIDE DEF d
  <2> QED
    BY <1>13, <1>17, SameMoneyGains
<1>20. Twins(r, s)
  BY <1>14, <1>17, <1>18, SameMoneyTwins
<1>21. \E x, y : /\ y = Pay(sync, idxs, forged, x)
                 /\ y = ProcessL2Tx(sync, idxs, forged) /\ Ready(y)
  <2>1. paid = Pay(sync, idxs, forged, receiver)
    BY DEF paid
  <2>2. Ready(paid)
    BY <1>13 DEF Gained
  <2> QED
    BY <1>10, <2>1, <2>2
<1> QED
  BY <1>15, <1>17, <1>19, <1>20, <1>21 DEF SameMoney, idxs, forged

-----------------------------------------------------------------------------
(* What comes to a batch. *)

LEMMA FloatsAreNat ==
  /\ \A f \in L1Deposits \cup L1Amounts \cup {Zero} : BigInt(f) \in Nat
  /\ BigInt(Zero) = 0
<1>1. BigInt(Zero) = 0
  BY FloatOfNothing DEF Zero
<1>2. Deposits \subseteq Nat /\ Amounts \subseteq Nat
  BY BoundsAssumption
<1>3. ASSUME NEW f \in L1Deposits PROVE BigInt(f) \in Nat
  <2>1. PICK a \in Deposits : f = NewFloat40(a)
    BY <1>3 DEF L1Deposits
  <2> QED
    BY <2>1, <1>2, ExactFloat
<1>4. ASSUME NEW f \in L1Amounts PROVE BigInt(f) \in Nat
  <2>1. PICK a \in Amounts : f = NewFloat40(a)
    BY <1>4 DEF L1Amounts
  <2> QED
    BY <2>1, <1>2, ExactFloat
<1> QED
  BY <1>1, <1>3, <1>4

\* The fields of an event.
EventFields(tx, from, to, t, deposit, amount, e, b) ==
  /\ tx.type = L1TypeOf(from, to, deposit) /\ tx.userOrigin = TRUE
  /\ tx.from = from /\ tx.to = to /\ tx.token = t
  /\ tx.deposit = deposit /\ tx.amount = amount /\ tx.eth = e /\ tx.bjj = b

LEMMA L1UserTxsAreValid ==
  ASSUME Ready(sync), NEW tx, tx \in L1UserTxs, RoomFor(tx)
  PROVE  ValidL1(sync, tx) /\ tx.userOrigin
<1>0. /\ Accounts = DOMAIN sync.db.account
      /\ \A i \in Accounts : i # NoIdx /\ i # ExitIdx
  BY DEF Accounts, Ready, Sound, NoIdx, ExitIdx, UserThreshold
<1>1. CASE tx \in {L1UserTx(NoIdx, NoIdx, t, d, Zero, e, b) :
                     t \in Tokens, d \in L1Deposits, e \in EthAddrs, b \in BJJs}
  <2>1. PICK t \in Tokens, d \in L1Deposits, e \in EthAddrs, b \in BJJs :
           tx = L1UserTx(NoIdx, NoIdx, t, d, Zero, e, b)
    BY <1>1
  <2> DEFINE deposit == BigInt(d)
             amount == BigInt(Zero)
  <2>3. EventFields(tx, NoIdx, NoIdx, t, deposit, amount, e, b)
    BY <2>1 DEF L1UserTx, L1UserTxFromBytes, EventFields
  <2>4. deposit \in Nat /\ amount \in Nat /\ amount = 0
    BY FloatsAreNat
  <2> HIDE DEF deposit, amount
  <2>2. tx.type = "CreateAccountDeposit"
    BY <2>3, <1>0 DEF EventFields, L1TypeOf
  <2> QED
    BY <2>2, <2>3, <2>4, <1>0 DEF EventFields, ValidL1, RoomFor, L1Types, CreateTypes
<1>2. CASE tx \in {L1UserTx(NoIdx, to, t, d, a, e, b) :
                     to \in Accounts, t \in Tokens, d \in L1Deposits, a \in L1Amounts,
                     e \in EthAddrs, b \in BJJs}
  <2>1. PICK to \in Accounts, t \in Tokens, d \in L1Deposits, a \in L1Amounts,
             e \in EthAddrs, b \in BJJs : tx = L1UserTx(NoIdx, to, t, d, a, e, b)
    BY <1>2
  <2> DEFINE deposit == BigInt(d)
             amount == BigInt(a)
  <2>3. EventFields(tx, NoIdx, to, t, deposit, amount, e, b)
    BY <2>1 DEF L1UserTx, L1UserTxFromBytes, EventFields
  <2>4. deposit \in Nat /\ amount \in Nat
    BY FloatsAreNat
  <2> HIDE DEF deposit, amount
  <2>2. tx.type = "CreateAccountDepositTransfer"
    BY <2>3, <1>0 DEF EventFields, L1TypeOf
  <2> QED
    BY <2>2, <2>3, <2>4, <1>0 DEF EventFields, ValidL1, RoomFor, L1Types, CreateTypes
<1>3. CASE tx \in {L1UserTx(from, NoIdx, t, d, Zero, e, NoBJJ) :
                     from \in Accounts, t \in Tokens, d \in L1Deposits, e \in EthAddrs}
  <2>1. PICK from \in Accounts, t \in Tokens, d \in L1Deposits, e \in EthAddrs :
           tx = L1UserTx(from, NoIdx, t, d, Zero, e, NoBJJ)
    BY <1>3
  <2> DEFINE deposit == BigInt(d)
             amount == BigInt(Zero)
  <2>3. EventFields(tx, from, NoIdx, t, deposit, amount, e, NoBJJ)
    BY <2>1 DEF L1UserTx, L1UserTxFromBytes, EventFields
  <2>4. deposit \in Nat /\ amount \in Nat /\ amount = 0
    BY FloatsAreNat
  <2> HIDE DEF deposit, amount
  <2>2. tx.type = "Deposit"
    BY <2>3, <1>0 DEF EventFields, L1TypeOf, NoIdx, ExitIdx
  <2> QED
    BY <2>2, <2>3, <2>4, <1>0 DEF EventFields, ValidL1, L1Types, CreateTypes
<1>4. CASE tx \in {L1UserTx(from, to, t, d, a, e, NoBJJ) :
                     from \in Accounts, to \in Accounts, t \in Tokens,
                     d \in L1Deposits \cup {Zero}, a \in L1Amounts, e \in EthAddrs}
  <2>1. PICK from \in Accounts, to \in Accounts, t \in Tokens, d \in L1Deposits \cup {Zero},
             a \in L1Amounts, e \in EthAddrs : tx = L1UserTx(from, to, t, d, a, e, NoBJJ)
    BY <1>4
  <2> DEFINE deposit == BigInt(d)
             amount == BigInt(a)
  <2>3. EventFields(tx, from, to, t, deposit, amount, e, NoBJJ)
    BY <2>1 DEF L1UserTx, L1UserTxFromBytes, EventFields
  <2>4. deposit \in Nat /\ amount \in Nat
    BY FloatsAreNat
  <2> HIDE DEF deposit, amount
  <2>2. tx.type = IF deposit = 0 THEN "ForceTransfer" ELSE "DepositTransfer"
    BY <2>3, <1>0 DEF EventFields, L1TypeOf
  <2> QED
    BY <2>2, <2>3, <2>4, <1>0 DEF EventFields, ValidL1, L1Types, CreateTypes
<1>5. CASE tx \in {L1UserTx(from, ExitIdx, t, Zero, a, e, NoBJJ) :
                     from \in Accounts, t \in Tokens, a \in L1Amounts, e \in EthAddrs}
  <2>1. PICK from \in Accounts, t \in Tokens, a \in L1Amounts, e \in EthAddrs :
           tx = L1UserTx(from, ExitIdx, t, Zero, a, e, NoBJJ)
    BY <1>5
  <2> DEFINE deposit == BigInt(Zero)
             amount == BigInt(a)
  <2>3. EventFields(tx, from, ExitIdx, t, deposit, amount, e, NoBJJ)
    BY <2>1 DEF L1UserTx, L1UserTxFromBytes, EventFields
  <2>4. deposit \in Nat /\ amount \in Nat /\ deposit = 0
    BY FloatsAreNat
  <2> HIDE DEF deposit, amount
  <2>2. tx.type = "ForceExit"
    BY <2>3, <1>0 DEF EventFields, L1TypeOf, NoIdx, ExitIdx
  <2> QED
    BY <2>2, <2>3, <2>4, <1>0 DEF EventFields, ValidL1, L1Types, CreateTypes
<1> QED
  BY <1>1, <1>2, <1>3, <1>4, <1>5 DEF L1UserTxs

\* The authorization that goes to the contract gives back the address.
LEMMA L1CoordinatorTxIs ==
  ASSUME NEW t \in Tokens, NEW e \in EthAddrs \cup {FFAddr}, NEW b \in BJJs,
         NEW tx, tx = L1CoordinatorTx(t, e, b), Ready(sync), RoomFor(tx),
         NEW auth, auth = IF e = FFAddr THEN EmptyEthSignature ELSE Authorize(e, b)
  PROVE  /\ L1CoordinatorTxFromBytes(BytesCoordinatorTx(tx, auth)) = tx
         /\ ValidL1(sync, tx) /\ tx.deposit = 0 /\ tx.type = "CreateAccountDeposit"
<1>1. /\ tx.type = "CreateAccountDeposit" /\ tx.userOrigin = FALSE /\ tx.from = NoIdx
      /\ tx.to = NoIdx /\ tx.token = t /\ tx.deposit = 0 /\ tx.amount = 0
      /\ tx.eth = e /\ tx.bjj = b
  BY DEF L1CoordinatorTx
<1>2. ValidL1(sync, tx)
  BY <1>1 DEF ValidL1, RoomFor, L1Types, CreateTypes
<1>3. Authorize(e, b) # EmptyEthSignature
  BY DEF Authorize, EmptyEthSignature
<1> DEFINE bytes == BytesCoordinatorTx(tx, auth)
<1>4. bytes.auth = auth /\ bytes.bjj = b /\ bytes.token = t
  BY <1>1 DEF BytesCoordinatorTx
<1>5. (IF bytes.auth = EmptyEthSignature THEN FFAddr
       ELSE IF bytes.auth.bjj = bytes.bjj THEN bytes.auth.by ELSE NoAddr) = e
  BY <1>3, <1>4 DEF Authorize
<1> HIDE DEF bytes
<1> QED
  BY <1>1, <1>2, <1>4, <1>5 DEF L1CoordinatorTxFromBytes, bytes

-----------------------------------------------------------------------------
(* The accounts for the fees: the folds of StartFees and DistributeFees are *)
(* the last of the values that they go through.                             *)

IsPart(m, l, s) == m \in Nat /\ l = m + 1 /\ s \in SUBSET (1 .. l) /\ s # {}

LEMMA MaxOfPart ==
  ASSUME NEW m, NEW l, NEW s, IsPart(m, l, s)
  PROVE  /\ Max(s) \in s /\ s \ {Max(s)} \in SUBSET (1 .. m)
         /\ l \in s => Max(s) = l
         /\ l \notin s => s \in SUBSET (1 .. m)
<1>0. m \in Nat /\ l = m + 1 /\ s \in SUBSET (1 .. l) /\ s # {}
  BY DEF IsPart
<1>1. l \in Nat /\ s \subseteq 0 .. l
  BY <1>0
<1>2. Max(s) \in s /\ \A x \in s : x <= Max(s)
  BY <1>0, <1>1, GreatestElement
<1>3. \A x \in s : x # l => x \in 1 .. m
  BY <1>0
<1>4. l \in s => Max(s) = l
  <2>1. Max(s) \in 1 .. l
    BY <1>0, <1>2
  <2>2. l \in s => l <= Max(s)
    BY <1>2
  <2> QED
    BY <1>1, <2>1, <2>2
<1>5. \A x \in s : x # Max(s) => x # l
  BY <1>4
<1> QED
  BY <1>0, <1>2, <1>3, <1>4, <1>5

LEMMA MaxOfPrefix ==
  ASSUME NEW n \in Nat, NEW k \in 1 .. n, NEW s, s = 1 .. k
  PROVE  /\ s # {} /\ s \in SUBSET (1 .. n) /\ Max(s) = k
         /\ s \ {k} = 1 .. k - 1 /\ k - 1 \in 0 .. n /\ k \in 0 .. n
<1>1. s \subseteq 0 .. k /\ k \in s /\ s # {} /\ s \in SUBSET (1 .. n) /\ k \in Nat
  <2>1. k \in Nat /\ k >= 1 /\ k <= n
    OBVIOUS
  <2>2. \A x \in s : x \in 0 .. k /\ x \in 1 .. n
    BY <2>1
  <2>3. k \in s
    BY <2>1
  <2> QED
    BY <2>1, <2>2, <2>3
<1>2. Max(s) = k
  <2>1. Max(s) \in s /\ \A x \in s : x <= Max(s)
    BY <1>1, GreatestElement
  <2> QED
    BY <2>1
<1>3. s \ {k} = 1 .. k - 1 /\ k - 1 \in 0 .. n /\ k \in 0 .. n
  OBVIOUS
<1> QED
  BY <1>1, <1>2, <1>3

\* An account is kept unless one of its token is there already.
Keep(db, kept, i) ==
  IF \E j \in ToSet(kept) : db.account[j].token = db.account[i].token
  THEN kept ELSE Append(kept, i)

LEMMA FilterSteps ==
  ASSUME NEW db, NEW idxs, NEW n \in Nat, DOMAIN idxs = 1 .. n
  PROVE  \E v : /\ v[0] = <<>> /\ v[n] = FilterCoordIdxs(db, idxs)
                /\ \A k \in 1 .. n : v[k] = Keep(db, v[k - 1], idxs[k])
<1> DEFINE Op(r, k) == Keep(db, r, idxs[k])
           E(G, S) == G = [s \in SUBSET S |-> IF s = {} THEN <<>>
                                              ELSE Op(G[s \ {Max(s)}], Max(s))]
           Q == {m \in Nat : \E G : E(G, 1 .. m)}
           G == CHOOSE f : E(f, DOMAIN idxs)
<1>1. FilterCoordIdxs(db, idxs) = G[DOMAIN idxs]
  BY DEF FilterCoordIdxs, FoldLeft, MapThenFoldSet, Keep
<1> HIDE DEF Op
<1>2. 0 \in Q
  <2> DEFINE H == [s \in SUBSET (1 .. 0) |-> <<>>]
  <2>1. \A s \in SUBSET (1 .. 0) : s = {}
    OBVIOUS
  <2>2. E(H, 1 .. 0)
    BY <2>1
  <2> HIDE DEF E, H
  <2> QED
    BY <2>2
<1>3. ASSUME NEW m \in Nat, m \in Q PROVE m + 1 \in Q
  <2>1. PICK F : E(F, 1 .. m)
    BY <1>3
  <2> DEFINE l == m + 1
             H == [s \in SUBSET (1 .. l) |->
                     IF s = {} THEN <<>> ELSE IF l \in s THEN Op(F[s \ {l}], l) ELSE F[s]]
  <2>2. ASSUME NEW s \in SUBSET (1 .. l), s # {}
        PROVE  /\ Max(s) \in s /\ s \ {Max(s)} \in SUBSET (1 .. m)
               /\ l \in s => Max(s) = l
               /\ l \notin s => s \in SUBSET (1 .. m)
    <3>1. l = m + 1 /\ m \in Nat
      OBVIOUS
    <3> HIDE DEF l, H, Q, E
    <3>2. IsPart(m, l, s)
      BY <2>2, <3>1 DEF IsPart
    <3> QED
      BY <3>2, MaxOfPart
  <2> HIDE DEF l
  <2>3. {} \in SUBSET (1 .. m) /\ F[{}] = <<>>
    BY <2>1
  <2>4. ASSUME NEW s \in SUBSET (1 .. m) PROVE s \in SUBSET (1 .. l) /\ H[s] = F[s]
    <3>1. l \notin s /\ s \in SUBSET (1 .. l)
      BY DEF l
    <3> QED
      BY <3>1, <2>3
  <2>5. ASSUME NEW s \in SUBSET (1 .. l)
        PROVE  H[s] = IF s = {} THEN <<>> ELSE Op(H[s \ {Max(s)}], Max(s))
    <3>1. CASE s = {}
      BY <3>1
    <3>2. CASE s # {} /\ l \in s
      <4>1. Max(s) = l /\ s \ {l} \in SUBSET (1 .. m)
        BY <3>2, <2>2
      <4>2. H[s \ {l}] = F[s \ {l}]
        BY <4>1, <2>4
      <4>3. H[s] = Op(F[s \ {l}], l)
        BY <3>2
      <4> HIDE DEF H
      <4> QED
        BY <3>2, <4>1, <4>2, <4>3
    <3>3. CASE s # {} /\ l \notin s
      <4>1. s \in SUBSET (1 .. m) /\ s \ {Max(s)} \in SUBSET (1 .. m)
        BY <3>3, <2>2
      <4>2. H[s] = F[s] /\ H[s \ {Max(s)}] = F[s \ {Max(s)}]
        BY <4>1, <2>4
      <4>3. F[s] = Op(F[s \ {Max(s)}], Max(s))
        BY <2>1, <3>3, <4>1
      <4> HIDE DEF H
      <4> QED
        BY <3>3, <4>2, <4>3
    <3> QED
      BY <3>1, <3>2, <3>3
  <2>6. H = [s \in SUBSET (1 .. l) |-> H[s]]
    OBVIOUS
  <2>7. E(H, 1 .. l)
    <3> HIDE DEF H
    <3> QED
      BY <2>5, <2>6
  <2> HIDE DEF E, H
  <2> QED
    BY <2>7 DEF l
<1>4. n \in Q
  <2> HIDE DEF Q
  <2> QED
    BY <1>2, <1>3, EveryNatural
<1>5. E(G, 1 .. n)
  <2> HIDE DEF E
  <2> QED
    BY <1>4
<1> HIDE DEF G
<1> DEFINE v == [k \in 0 .. n |-> G[1 .. k]]
<1>6. v[0] = <<>> /\ v[n] = FilterCoordIdxs(db, idxs)
  <2>1. 1 .. 0 = {} /\ {} \in SUBSET (1 .. n)
    OBVIOUS
  <2>2. G[{}] = <<>>
    BY <1>5, <2>1
  <2> HIDE DEF E
  <2> QED
    BY <1>1, <2>1, <2>2
<1>7. ASSUME NEW k \in 1 .. n PROVE v[k] = Op(v[k - 1], k)
  <2> DEFINE s == 1 .. k
  <2>1. /\ s # {} /\ s \in SUBSET (1 .. n) /\ Max(s) = k
        /\ s \ {k} = 1 .. k - 1 /\ k - 1 \in 0 .. n /\ k \in 0 .. n
    BY MaxOfPrefix
  <2> HIDE DEF s
  <2>4. G[s] = Op(G[s \ {k}], k)
    BY <1>5, <2>1
  <2>5. v[k] = G[s] /\ v[k - 1] = G[1 .. k - 1]
    BY <2>1 DEF s
  <2> HIDE DEF v, E
  <2> QED
    BY <2>1, <2>4, <2>5
<1> HIDE DEF v
<1> QED
  BY <1>6, <1>7 DEF Op

\* One account for each token.
Distinct(db, S, idxs) ==
  /\ idxs \in Seq(S)
  /\ \A j, k \in DOMAIN idxs :
        db.account[idxs[j]].token = db.account[idxs[k]].token => j = k

LEMMA KeepIsDistinct ==
  ASSUME NEW db, NEW S, NEW kept, Distinct(db, S, kept), NEW i, i \in S,
         NEW r, r = Keep(db, kept, i)
  PROVE  Distinct(db, S, r)
<1> DEFINE token(x) == db.account[x].token
<1>1. kept \in Seq(S) /\ Len(kept) \in Nat /\ DOMAIN kept = 1 .. Len(kept)
  BY DEF Distinct
<1>2. CASE \E j \in ToSet(kept) : token(j) = token(i)
  BY <1>2 DEF Keep
<1>3. CASE ~ \E j \in ToSet(kept) : token(j) = token(i)
  <2>1. r = Append(kept, i)
    BY <1>3 DEF Keep
  <2>2. /\ r \in Seq(S) /\ DOMAIN r = 1 .. Len(kept) + 1 /\ r[Len(kept) + 1] = i
        /\ \A k \in DOMAIN kept : r[k] = kept[k]
    BY <1>1, <2>1
  <2>3. \A k \in DOMAIN kept : token(kept[k]) # token(i)
    BY <1>3 DEF ToSet
  <2>4. \A j, k \in DOMAIN kept : token(kept[j]) = token(kept[k]) => j = k
    BY DEF Distinct
  <2>5. \A k \in DOMAIN r : k \in DOMAIN kept \/ k = Len(kept) + 1
    BY <1>1, <2>2
  <2> HIDE DEF token
  <2>6. \A j, k \in DOMAIN r : token(r[j]) = token(r[k]) => j = k
    BY <2>2, <2>3, <2>4, <2>5
  <2> QED
    BY <2>2, <2>6 DEF Distinct, token
<1> QED
  BY <1>2, <1>3

LEMMA FilterIsDistinct ==
  ASSUME NEW db, NEW S, NEW idxs, NEW n, n \in Nat, DOMAIN idxs = 1 .. n,
         \A k \in 1 .. n : idxs[k] \in S, NEW kept, kept = FilterCoordIdxs(db, idxs)
  PROVE  Distinct(db, S, kept)
<1>1. PICK v : /\ v[0] = <<>> /\ v[n] = kept
               /\ \A k \in 1 .. n : v[k] = Keep(db, v[k - 1], idxs[k])
  BY FilterSteps
<1> DEFINE Q == {k \in Nat : k <= n => Distinct(db, S, v[k])}
<1>2. 0 \in Q
  <2>1. Distinct(db, S, <<>>)
    BY DEF Distinct
  <2> QED
    BY <1>1, <2>1
<1>3. ASSUME NEW k \in Nat, k \in Q PROVE k + 1 \in Q
  <2> SUFFICES ASSUME k + 1 <= n PROVE Distinct(db, S, v[k + 1])
    OBVIOUS
  <2>1. k + 1 \in 1 .. n /\ (k + 1) - 1 = k /\ k <= n
    OBVIOUS
  <2> DEFINE l == k + 1
  <2>2. v[l] = Keep(db, v[k], idxs[l]) /\ idxs[l] \in S
    BY <1>1, <2>1
  <2>3. Distinct(db, S, v[k])
    BY <1>3, <2>1
  <2> HIDE DEF l, Q
  <2>4. Distinct(db, S, v[l])
    BY <2>2, <2>3, KeepIsDistinct
  <2> QED
    BY <2>4 DEF l
<1>4. n \in Q
  <2> HIDE DEF Q
  <2> QED
    BY <1>2, <1>3, EveryNatural
<1> QED
  BY <1>1, <1>4

LEMMA OfTokenOfZeros ==
  ASSUME NEW amounts, IsFiniteSet(DOMAIN amounts), \A i \in DOMAIN amounts : amounts[i] = 0,
         NEW account, NEW t
  PROVE  OfToken(amounts, account, t) = 0
<1> DEFINE S == {i \in DOMAIN amounts : account[i].token = t}
           Sum(T) == SumFunctionOnSet(amounts, T)
           F == {T \in SUBSET S : Sum(T) = 0}
<1>1. IsFiniteSet(S) /\ \A i \in S : amounts[i] = 0
  BY FS_Subset
<1>2. {} \in F
  BY SumOfNone
<1> HIDE DEF S, Sum
<1>3. ASSUME NEW T \in SUBSET S, NEW x \in S \ T, T \in F PROVE T \cup {x} \in F
  <2> DEFINE U == T \cup {x}
  <2>1. IsFiniteSet(U) /\ \A i \in U : amounts[i] \in Int
    BY <1>1, FS_Subset
  <2>2. x \in U /\ U \ {x} = T /\ U \in SUBSET S /\ amounts[x] = 0
    BY <1>1
  <2> HIDE DEF U
  <2>3. Sum(U) = amounts[x] + Sum(U \ {x})
    BY <2>1, <2>2, SumWith DEF Sum
  <2>4. Sum(U) = 0
    BY <1>3, <2>2, <2>3
  <2> QED
    BY <2>2, <2>4 DEF U
<1>4. S \in F
  <2> HIDE DEF F
  <2> QED
    BY <1>1, <1>2, <1>3, EveryFiniteSet
<1> QED
  BY <1>4 DEF OfToken, S, Sum

\* p with fees to collect for idxs.
Started(p, r, idxs) ==
  /\ Fields(r) /\ r.kind = p.kind /\ r.failed = FALSE /\ r.db = p.db
  /\ r.exitTree = p.exitTree /\ r.accumulatedFees = [i \in ToSet(idxs) |-> 0]
  /\ r.exits = p.exits /\ r.txIndex = p.txIndex
  /\ r.createdAccounts = p.createdAccounts /\ r.updatedAccounts = p.updatedAccounts

LEMMA StartFeesStarts ==
  ASSUME NEW p, Fields(p), p.failed = FALSE,
         NEW idxs, \A i \in ToSet(idxs) : i \in DOMAIN p.db.account,
         NEW r, r = StartFees(p, idxs)
  PROVE  Started(p, r, FilterCoordIdxs(p.db, idxs))
<1> DEFINE kept == FilterCoordIdxs(p.db, idxs)
<1>1. ~(p.failed \/ \E i \in ToSet(idxs) : ~Has(p.db, i))
  BY DEF Has
<1> HIDE DEF kept
<1>2. r = [p EXCEPT !.accumulatedFees = [i \in ToSet(kept) |-> 0],
                    !.collectedFees =
                        IF HasExitTree(p)
                        THEN [t \in DOMAIN GetTokenIDsFromIdxs(p.db, kept) |-> 0] ELSE @]
  BY <1>1 DEF StartFees, kept
<1> QED
  BY <1>2 DEF Started, Fields, kept

LEMMA ToSetOfSeq ==
  ASSUME NEW S, NEW idxs, idxs \in Seq(S)
  PROVE  IsFiniteSet(ToSet(idxs)) /\ ToSet(idxs) \subseteq S
<1>1. DOMAIN idxs = 1 .. Len(idxs) /\ Len(idxs) \in Nat
  OBVIOUS
<1>2. IsFiniteSet(DOMAIN idxs)
  BY <1>1, FS_Interval
<1>3. idxs \in Surjection(DOMAIN idxs, ToSet(idxs))
  <2>1. idxs \in [DOMAIN idxs -> ToSet(idxs)]
    BY <1>1 DEF ToSet
  <2> QED
    BY <2>1 DEF Surjection, ToSet
<1>4. IsFiniteSet(ToSet(idxs))
  BY <1>2, <1>3, FS_Surjection
<1>5. ToSet(idxs) \subseteq S
  BY <1>1 DEF ToSet
<1> QED
  BY <1>4, <1>5

LEMMA StartedGains ==
  ASSUME NEW p, Ready(p), DOMAIN p.accumulatedFees = {},
         NEW kept, kept \in Seq(DOMAIN p.db.account), NEW r, Started(p, r, kept), NEW token
  PROVE  Gained(p, r, token, 0)
<1> DEFINE n == p.db.currentIdx
<1>1. Sound(p, n) /\ DOMAIN p.db.account = UserThreshold .. n
  BY DEF Ready, Sound
<1>2. IsFiniteSet(ToSet(kept)) /\ ToSet(kept) \subseteq DOMAIN p.db.account
  BY ToSetOfSeq
<1>3. /\ DOMAIN r.accumulatedFees = ToSet(kept)
      /\ \A i \in DOMAIN r.accumulatedFees : r.accumulatedFees[i] = 0
      /\ r.db = p.db /\ r.exitTree = p.exitTree /\ Fields(r) /\ r.failed = FALSE
      /\ r.kind = p.kind
  BY DEF Started
<1>4. Sound(r, n)
  BY <1>1, <1>2, <1>3 DEF Sound
<1>5. Ready(r)
  BY <1>3, <1>4 DEF Ready
<1>6. ASSUME NEW t PROVE Total(r, t) = Total(p, t) + IF t = token THEN 0 ELSE 0
  <2>1. OfToken(p.accumulatedFees, p.db.account, t) = 0
    BY OfTokenOfNone
  <2>2. OfToken(r.accumulatedFees, p.db.account, t) = 0
    BY <1>2, <1>3, OfTokenOfZeros
  <2>3. Bal(p.db.account, t) \in Nat /\ OfToken(p.exitTree, p.db.account, t) \in Nat
    BY <1>1, SumsAreNat
  <2> QED
    BY <1>3, <2>1, <2>2, <2>3 DEF Total
<1> QED
  BY <1>3, <1>5, <1>6 DEF Gained

LEMMA StartedTwins ==
  ASSUME NEW p, NEW q, Twins(p, q), NEW idxs, NEW r, Started(p, r, idxs),
         NEW s, Started(q, s, idxs)
  PROVE  Twins(r, s)
BY DEF Twins, Started

LEMMA IdxsOfTokens ==
  ASSUME NEW p, NEW kept, kept \in Seq(DOMAIN p.db.account),
         NEW idxs, idxs = GetTokenIDsFromIdxs(p.db, kept)
  PROVE  FeeIdxs(p, idxs) /\ \A t \in DOMAIN idxs : idxs[t] \in ToSet(kept)
<1>1. ToSet(kept) \subseteq DOMAIN p.db.account
  BY ToSetOfSeq
<1>2. ASSUME NEW t \in DOMAIN idxs
      PROVE  idxs[t] \in ToSet(kept) /\ p.db.account[idxs[t]].token = t
  <2>1. \E i \in ToSet(kept) : p.db.account[i].token = t
    BY DEF GetTokenIDsFromIdxs
  <2>2. idxs[t] = CHOOSE i \in ToSet(kept) : p.db.account[i].token = t
    BY DEF GetTokenIDsFromIdxs
  <2> QED
    BY <2>1, <2>2
<1> QED
  BY <1>1, <1>2 DEF FeeIdxs

PayFee(p, i) == Credit(p, i, p.accumulatedFees[i])

LEMMA DistributeSteps ==
  ASSUME NEW p, NEW idxs, NEW n \in Nat, DOMAIN idxs = 1 .. n
  PROVE  \E v : /\ v[0] = p /\ v[n] = DistributeFees(p, idxs)
                /\ \A k \in 1 .. n : v[k] = PayFee(v[k - 1], idxs[k])
<1> DEFINE Op(r, k) == PayFee(r, idxs[k])
           E(G, S) == G = [s \in SUBSET S |-> IF s = {} THEN p
                                              ELSE Op(G[s \ {Max(s)}], Max(s))]
           Q == {m \in Nat : \E G : E(G, 1 .. m)}
           G == CHOOSE f : E(f, DOMAIN idxs)
<1>1. DistributeFees(p, idxs) = G[DOMAIN idxs]
  BY DEF DistributeFees, FoldLeft, MapThenFoldSet, PayFee
<1> HIDE DEF Op
<1>2. 0 \in Q
  <2> DEFINE H == [s \in SUBSET (1 .. 0) |-> p]
  <2>1. \A s \in SUBSET (1 .. 0) : s = {}
    OBVIOUS
  <2>2. E(H, 1 .. 0)
    BY <2>1
  <2> HIDE DEF E, H
  <2> QED
    BY <2>2
<1>3. ASSUME NEW m \in Nat, m \in Q PROVE m + 1 \in Q
  <2>1. PICK F : E(F, 1 .. m)
    BY <1>3
  <2> DEFINE l == m + 1
             H == [s \in SUBSET (1 .. l) |->
                     IF s = {} THEN p ELSE IF l \in s THEN Op(F[s \ {l}], l) ELSE F[s]]
  <2>2. ASSUME NEW s \in SUBSET (1 .. l), s # {}
        PROVE  /\ Max(s) \in s /\ s \ {Max(s)} \in SUBSET (1 .. m)
               /\ l \in s => Max(s) = l
               /\ l \notin s => s \in SUBSET (1 .. m)
    <3>1. l = m + 1 /\ m \in Nat
      OBVIOUS
    <3> HIDE DEF l, H, Q, E
    <3>2. IsPart(m, l, s)
      BY <2>2, <3>1 DEF IsPart
    <3> QED
      BY <3>2, MaxOfPart
  <2> HIDE DEF l
  <2>3. {} \in SUBSET (1 .. m) /\ F[{}] = p
    BY <2>1
  <2>4. ASSUME NEW s \in SUBSET (1 .. m) PROVE s \in SUBSET (1 .. l) /\ H[s] = F[s]
    <3>1. l \notin s /\ s \in SUBSET (1 .. l)
      BY DEF l
    <3> QED
      BY <3>1, <2>3
  <2>5. ASSUME NEW s \in SUBSET (1 .. l)
        PROVE  H[s] = IF s = {} THEN p ELSE Op(H[s \ {Max(s)}], Max(s))
    <3>1. CASE s = {}
      BY <3>1
    <3>2. CASE s # {} /\ l \in s
      <4>1. Max(s) = l /\ s \ {l} \in SUBSET (1 .. m)
        BY <3>2, <2>2
      <4>2. H[s \ {l}] = F[s \ {l}]
        BY <4>1, <2>4
      <4>3. H[s] = Op(F[s \ {l}], l)
        BY <3>2
      <4> HIDE DEF H
      <4> QED
        BY <3>2, <4>1, <4>2, <4>3
    <3>3. CASE s # {} /\ l \notin s
      <4>1. s \in SUBSET (1 .. m) /\ s \ {Max(s)} \in SUBSET (1 .. m)
        BY <3>3, <2>2
      <4>2. H[s] = F[s] /\ H[s \ {Max(s)}] = F[s \ {Max(s)}]
        BY <4>1, <2>4
      <4>3. F[s] = Op(F[s \ {Max(s)}], Max(s))
        BY <2>1, <3>3, <4>1
      <4> HIDE DEF H
      <4> QED
        BY <3>3, <4>2, <4>3
    <3> QED
      BY <3>1, <3>2, <3>3
  <2>6. H = [s \in SUBSET (1 .. l) |-> H[s]]
    OBVIOUS
  <2>7. E(H, 1 .. l)
    <3> HIDE DEF H
    <3> QED
      BY <2>5, <2>6
  <2> HIDE DEF E, H
  <2> QED
    BY <2>7 DEF l
<1>4. n \in Q
  <2> HIDE DEF Q
  <2> QED
    BY <1>2, <1>3, EveryNatural
<1>5. E(G, 1 .. n)
  <2> HIDE DEF E
  <2> QED
    BY <1>4
<1> HIDE DEF G
<1> DEFINE v == [k \in 0 .. n |-> G[1 .. k]]
<1>6. v[0] = p /\ v[n] = DistributeFees(p, idxs)
  <2>1. 1 .. 0 = {} /\ {} \in SUBSET (1 .. n)
    OBVIOUS
  <2>2. G[{}] = p
    BY <1>5, <2>1
  <2> HIDE DEF E
  <2> QED
    BY <1>1, <2>1, <2>2
<1>7. ASSUME NEW k \in 1 .. n PROVE v[k] = Op(v[k - 1], k)
  <2> DEFINE s == 1 .. k
  <2>1. /\ s # {} /\ s \in SUBSET (1 .. n) /\ Max(s) = k
        /\ s \ {k} = 1 .. k - 1 /\ k - 1 \in 0 .. n /\ k \in 0 .. n
    BY MaxOfPrefix
  <2> HIDE DEF s
  <2>4. G[s] = Op(G[s \ {k}], k)
    BY <1>5, <2>1
  <2>5. v[k] = G[s] /\ v[k - 1] = G[1 .. k - 1]
    BY <2>1 DEF s
  <2> HIDE DEF v, E
  <2> QED
    BY <2>1, <2>4, <2>5
<1> HIDE DEF v
<1> QED
  BY <1>6, <1>7 DEF Op

\* A processor at the end of a batch that collects fees for idxs.
Collecting(p, idxs) ==
  /\ Ready(p) /\ Distinct(p.db, DOMAIN p.db.account, idxs)
  /\ DOMAIN p.accumulatedFees = ToSet(idxs)

\* The fees of the first k accounts.
FeesUpTo(p, idxs, k, t) ==
  SumFunctionOnSet(p.accumulatedFees,
                   {i \in {idxs[j] : j \in 1 .. k} : p.db.account[i].token = t})

LEMMA OneMoreFee ==
  ASSUME NEW p, NEW idxs, Collecting(p, idxs),
         NEW k, k \in Nat, NEW l, l = k + 1, l \in DOMAIN idxs, NEW t,
         NEW fee, fee = IF t = p.db.account[idxs[l]].token THEN p.accumulatedFees[idxs[l]] ELSE 0
  PROVE  /\ FeesUpTo(p, idxs, k, t) \in Nat
         /\ FeesUpTo(p, idxs, l, t) = FeesUpTo(p, idxs, k, t) + fee
<1> DEFINE fees == p.accumulatedFees
           token(i) == p.db.account[i].token
           First(m) == {idxs[j] : j \in 1 .. m}
           Part(m) == {i \in First(m) : token(i) = t}
<1>0. /\ Distinct(p.db, DOMAIN p.db.account, idxs)
      /\ ToSet(idxs) \subseteq DOMAIN p.accumulatedFees
      /\ \A i \in DOMAIN p.accumulatedFees : p.accumulatedFees[i] \in Nat
  BY DEF Collecting, Ready, Sound
<1>1. DOMAIN idxs = 1 .. Len(idxs) /\ Len(idxs) \in Nat /\ k \in Nat /\ l = k + 1 /\ l <= Len(idxs)
  BY <1>0 DEF Distinct
<1>2. \A j \in DOMAIN idxs : token(idxs[j]) = token(idxs[l]) => j = l
  BY <1>0 DEF Distinct
<1>3. First(l) = First(k) \cup {idxs[l]}
  <2>1. 1 .. l = (1 .. k) \cup {l}
    BY <1>1
  <2> QED
    BY <2>1
<1>4. First(l) \subseteq ToSet(idxs)
  BY <1>1 DEF ToSet
<1>5. idxs[l] \notin First(k)
  <2>1. \A j \in 1 .. k : j \in DOMAIN idxs /\ j # l
    BY <1>1
  <2> QED
    BY <2>1, <1>2
<1>6. IsFiniteSet(ToSet(idxs))
  BY <1>0, ToSetOfSeq DEF Distinct
<1> HIDE DEF First
<1>7. ASSUME NEW T, T \subseteq First(l)
      PROVE  /\ IsFiniteSet(T) /\ \A i \in T : fees[i] \in Nat
             /\ SumFunctionOnSet(fees, T) \in Nat
  <2>1. IsFiniteSet(T) /\ \A i \in T : fees[i] \in Nat
    BY <1>0, <1>4, <1>6, <1>7, FS_Subset
  <2> HIDE DEF fees
  <2> QED
    BY <2>1, SumIsInt
<1>8. /\ FeesUpTo(p, idxs, k, t) = SumFunctionOnSet(fees, Part(k))
      /\ FeesUpTo(p, idxs, l, t) = SumFunctionOnSet(fees, Part(l))
  BY DEF FeesUpTo, First
<1>9. Part(k) \subseteq First(l) /\ Part(l) \subseteq First(l)
  BY <1>3
<1>10. CASE token(idxs[l]) = t
  <2>1. idxs[l] \in Part(l) /\ Part(l) \ {idxs[l]} = Part(k)
    BY <1>3, <1>5, <1>10
  <2> DEFINE T == Part(l)
             x == idxs[l]
  <2>2. IsFiniteSet(T) /\ (\A i \in T : fees[i] \in Int) /\ x \in T
    <3>1. IsFiniteSet(T) /\ \A i \in T : fees[i] \in Nat
      BY <1>7, <1>9
    <3> HIDE DEF T, fees
    <3>2. \A i \in T : fees[i] \in Int
      BY <3>1
    <3> QED
      BY <2>1, <3>1, <3>2 DEF T
  <2> HIDE DEF T, x, fees
  <2>3. SumFunctionOnSet(fees, T) = fees[x] + SumFunctionOnSet(fees, T \ {x})
    BY <2>2, SumWith
  <2>4. /\ SumFunctionOnSet(fees, Part(l)) = fees[idxs[l]] + SumFunctionOnSet(fees, Part(k))
        /\ SumFunctionOnSet(fees, Part(k)) \in Nat /\ fees[idxs[l]] \in Nat
    BY <2>1, <2>3, <1>7, <1>9 DEF T, x
  <2> HIDE DEF Part
  <2> QED
    BY <2>4, <1>8, <1>10 DEF fees
<1>11. CASE token(idxs[l]) # t
  <2>1. Part(l) = Part(k)
    BY <1>3, <1>11
  <2>2. SumFunctionOnSet(fees, Part(k)) \in Nat
    BY <1>7, <1>9
  <2> HIDE DEF Part
  <2> QED
    BY <2>1, <2>2, <1>8, <1>11
<1> QED
  BY <1>10, <1>11

\* q is p after the first k accounts have their fees.
Distributed(p, q, idxs, k) ==
  /\ Sound(q, p.db.currentIdx) /\ q.kind = p.kind /\ q.db.currentIdx = p.db.currentIdx
  /\ q.exitTree = p.exitTree /\ q.accumulatedFees = p.accumulatedFees
  /\ \A i \in DOMAIN p.db.account :
        i \in DOMAIN q.db.account /\ q.db.account[i].token = p.db.account[i].token
  /\ \A t : Total(q, t) = Total(p, t) + FeesUpTo(p, idxs, k, t)

LEMMA PayFeeDistributes ==
  ASSUME NEW p, NEW idxs, Collecting(p, idxs),
         NEW k, k \in Nat, NEW l, l = k + 1, l \in DOMAIN idxs,
         NEW q, Distributed(p, q, idxs, k), NEW r, r = PayFee(q, idxs[l])
  PROVE  Distributed(p, r, idxs, l)
<1> DEFINE n == p.db.currentIdx
           i == idxs[l]
           fee == p.accumulatedFees[i]
<1>1. Sound(p, n) /\ Sound(q, n) /\ DOMAIN p.db.account = UserThreshold .. n
  BY DEF Collecting, Ready, Distributed, Sound
<1>2. i \in ToSet(idxs) /\ ToSet(idxs) \subseteq UserThreshold .. n
  <2>1. idxs \in Seq(DOMAIN p.db.account)
    BY DEF Collecting, Distinct
  <2> QED
    BY <2>1, <1>1, ToSetOfSeq DEF ToSet
<1>3. fee \in Nat /\ \A x \in DOMAIN p.accumulatedFees : p.accumulatedFees[x] \in Nat
  BY <1>1, <1>2 DEF Sound, Collecting
<1>4. r = Credit(q, i, fee) /\ q.db.account[i].token = p.db.account[i].token
  BY <1>1, <1>2 DEF Distributed, PayFee
<1>5. /\ Moved(q, r, n, p.db.account[i].token, fee)
      /\ AccountSet(q, r, i, Paid(q, i, fee))
  <2> HIDE DEF n, i, fee
  <2> QED
    BY <1>1, <1>2, <1>3, <1>4, CreditMoves
<1>6. /\ Sound(r, n) /\ r.kind = p.kind /\ r.db.currentIdx = n
      /\ r.exitTree = p.exitTree /\ r.accumulatedFees = p.accumulatedFees
  BY <1>5 DEF Moved, AccountSet, Distributed
<1>7. \A x \in DOMAIN p.db.account :
         x \in DOMAIN r.db.account /\ r.db.account[x].token = p.db.account[x].token
  BY <1>5 DEF Moved, Distributed
<1>8. ASSUME NEW t PROVE Total(r, t) = Total(p, t) + FeesUpTo(p, idxs, l, t)
  <2>1. Total(q, t) = Total(p, t) + FeesUpTo(p, idxs, k, t)
    BY DEF Distributed
  <2>2. Total(r, t) = Total(q, t) + IF t = p.db.account[i].token THEN fee ELSE 0
    BY <1>5 DEF Moved
  <2> DEFINE more == IF t = p.db.account[i].token THEN fee ELSE 0
  <2>3. /\ FeesUpTo(p, idxs, k, t) \in Nat
        /\ FeesUpTo(p, idxs, l, t) = FeesUpTo(p, idxs, k, t) + more
    <3>1. more = IF t = p.db.account[idxs[l]].token THEN p.accumulatedFees[idxs[l]] ELSE 0
      OBVIOUS
    <3> HIDE DEF more, i, fee, n
    <3> QED
      BY <3>1, OneMoreFee
  <2>4. Total(p, t) \in Nat
    BY <1>1, SumsAreNat
  <2> HIDE DEF fee, i
  <2> QED
    BY <2>1, <2>2, <2>3, <2>4, <1>3
<1> QED
  BY <1>6, <1>7, <1>8 DEF Distributed

LEMMA DistributeFeesPays ==
  ASSUME NEW p, NEW idxs, Collecting(p, idxs), NEW r, r = DistributeFees(p, idxs)
  PROVE  /\ Ready(r) /\ r.kind = p.kind
         /\ \A t : Bal(r.db.account, t) + OfToken(p.exitTree, p.db.account, t) = Total(p, t)
<1> DEFINE n == Len(idxs)
<1>1. n \in Nat /\ DOMAIN idxs = 1 .. n
  BY DEF Collecting, Distinct
<1>2. PICK v : /\ v[0] = p /\ v[n] = r
               /\ \A k \in 1 .. n : v[k] = PayFee(v[k - 1], idxs[k])
  <2> HIDE DEF n
  <2> QED
    BY <1>1, DistributeSteps
<1> DEFINE Q == {k \in Nat : k <= n => Distributed(p, v[k], idxs, k)}
<1>3. Sound(p, p.db.currentIdx)
  BY DEF Collecting, Ready
<1>4. 0 \in Q
  <2>1. \A t : FeesUpTo(p, idxs, 0, t) = 0
    <3> TAKE t
    <3>1. {i \in {idxs[j] : j \in 1 .. 0} : p.db.account[i].token = t} = {}
      OBVIOUS
    <3> QED
      BY <3>1, SumOfNone DEF FeesUpTo
  <2>2. \A t : Total(p, t) = Total(p, t) + FeesUpTo(p, idxs, 0, t)
    <3> TAKE t
    <3>1. Total(p, t) \in Nat
      BY <1>3, SumsAreNat
    <3> QED
      BY <2>1, <3>1
  <2>3. Distributed(p, p, idxs, 0)
    BY <1>3, <2>2 DEF Distributed
  <2> QED
    BY <1>2, <2>3
<1>5. ASSUME NEW k \in Nat, k \in Q PROVE k + 1 \in Q
  <2> SUFFICES ASSUME k + 1 <= n PROVE Distributed(p, v[k + 1], idxs, k + 1)
    OBVIOUS
  <2> DEFINE l == k + 1
  <2>1. l \in 1 .. n /\ l - 1 = k /\ k <= n /\ l = k + 1
    BY <1>1
  <2>2. Distributed(p, v[k], idxs, k)
    BY <1>5, <2>1
  <2> HIDE DEF l, Q, n
  <2>3. v[l] = PayFee(v[k], idxs[l]) /\ l \in DOMAIN idxs
    BY <1>1, <1>2, <2>1
  <2>4. Distributed(p, v[l], idxs, l)
    BY <2>1, <2>2, <2>3, PayFeeDistributes
  <2> QED
    BY <2>4 DEF l
<1>6. n \in Q
  <2> HIDE DEF Q
  <2> QED
    BY <1>1, <1>4, <1>5, EveryNatural
<1>7. Distributed(p, r, idxs, n)
  BY <1>1, <1>2, <1>6
<1> HIDE DEF n
<1>8. Ready(r) /\ r.kind = p.kind
  BY <1>7 DEF Distributed, Ready, Collecting
<1>9. ASSUME NEW t
      PROVE  Bal(r.db.account, t) + OfToken(p.exitTree, p.db.account, t) = Total(p, t)
  <2> DEFINE fees == p.accumulatedFees
             account == p.db.account
  <2>1. Total(r, t) = Total(p, t) + FeesUpTo(p, idxs, n, t)
    BY <1>7 DEF Distributed
  <2>2. FeesUpTo(p, idxs, n, t) = OfToken(fees, account, t)
    <3>1. {idxs[j] : j \in 1 .. n} = DOMAIN fees
      BY <1>1 DEF Collecting, ToSet
    <3> QED
      BY <3>1 DEF FeesUpTo, OfToken
  <2>3. OfToken(r.accumulatedFees, r.db.account, t) = OfToken(fees, account, t)
    <3>1. r.accumulatedFees = fees
      BY <1>7 DEF Distributed
    <3>2. \A x \in DOMAIN fees : r.db.account[x].token = account[x].token
      BY <1>3, <1>7 DEF Distributed, Sound
    <3> QED
      BY <3>1, <3>2, OfTokenSame
  <2>4. /\ Bal(r.db.account, t) \in Nat /\ OfToken(r.exitTree, r.db.account, t) \in Nat
        /\ OfToken(r.accumulatedFees, r.db.account, t) \in Nat
    BY <1>8, SumsAreNat DEF Ready
  <2>5. Total(p, t) \in Nat
    BY <1>3, SumsAreNat
  <2>6. OfToken(r.exitTree, r.db.account, t) = OfToken(p.exitTree, p.db.account, t)
    <3>1. r.exitTree = p.exitTree
      BY <1>7 DEF Distributed
    <3>2. \A x \in DOMAIN p.exitTree : r.db.account[x].token = account[x].token
      BY <1>3, <1>7 DEF Distributed, Sound
    <3> QED
      BY <3>1, <3>2, OfTokenSame
  <2> QED
    BY <2>1, <2>2, <2>3, <2>4, <2>5, <2>6 DEF Total
<1> QED
  BY <1>8, <1>9

LEMMA DistributeFeesTwins ==
  ASSUME NEW p, NEW q, Twins(p, q), NEW idxs, NEW n, n \in Nat, DOMAIN idxs = 1 .. n,
         NEW r, r = DistributeFees(p, idxs), NEW s, s = DistributeFees(q, idxs)
  PROVE  Twins(r, s)
<1>1. PICK v : /\ v[0] = p /\ v[n] = r
               /\ \A k \in 1 .. n : v[k] = PayFee(v[k - 1], idxs[k])
  BY DistributeSteps
<1>2. PICK w : /\ w[0] = q /\ w[n] = s
               /\ \A k \in 1 .. n : w[k] = PayFee(w[k - 1], idxs[k])
  BY DistributeSteps
<1> DEFINE Q == {k \in Nat : k <= n => Twins(v[k], w[k])}
<1>3. 0 \in Q
  BY <1>1, <1>2
<1>4. ASSUME NEW k \in Nat, k \in Q PROVE k + 1 \in Q
  <2> SUFFICES ASSUME k + 1 <= n PROVE Twins(v[k + 1], w[k + 1])
    OBVIOUS
  <2> DEFINE l == k + 1
             i == idxs[l]
  <2>1. l \in 1 .. n /\ l - 1 = k /\ k <= n
    OBVIOUS
  <2>2. Twins(v[k], w[k])
    BY <1>4, <2>1
  <2>3. v[k].accumulatedFees[i] = w[k].accumulatedFees[i]
    BY <2>2 DEF Twins
  <2> HIDE DEF l, Q
  <2>4. v[l] = PayFee(v[k], i) /\ w[l] = PayFee(w[k], i)
    BY <1>1, <1>2, <2>1
  <2> HIDE DEF i
  <2>5. Twins(v[l], w[l])
    BY <2>2, <2>3, <2>4, TwinsCredit DEF PayFee
  <2> QED
    BY <2>5 DEF l
<1>5. n \in Q
  <2> HIDE DEF Q
  <2> QED
    BY <1>3, <1>4, EveryNatural
<1> QED
  BY <1>1, <1>2, <1>5

-----------------------------------------------------------------------------
(* The specification. *)

FeesInv ==
  /\ pc \in {"L1User", "L1Coordinator"} => DOMAIN sync.accumulatedFees = {}
  /\ pc = "L2" => Collecting(sync, coordIdxs)

\* MoneyConserved, of any values.
Conserved(phase, p, out, in, taken) ==
  \A t \in Tokens :
     /\ (IF phase = "Idle" THEN Bal(p.db.account, t) ELSE Total(p, t)) + out[t] = in[t]
     /\ in[t] <= taken[t]

MoneyInv ==
  /\ funds \in [Tokens -> Nat] /\ credited \in [Tokens -> Nat] /\ left \in [Tokens -> Nat]
  /\ Conserved(pc, sync, left, credited, funds)

IInv ==
  /\ pc \in {"Idle", "L1User", "L1Coordinator", "L2"}
  /\ Twins(sync, builder) /\ Ready(sync)
  /\ FeesInv
  /\ MoneyInv

LEMMA NewIsReady ==
  ASSUME NEW db, DBTypeOK(db), NEW kind, NEW p, p = NewTxProcessor(kind, db)
  PROVE  /\ Ready(p) /\ p.kind = kind /\ p.db = db
         /\ DOMAIN p.accumulatedFees = {} /\ DOMAIN p.exitTree = {}
         /\ \A t : Total(p, t) = Bal(db.account, t)
<1>1. /\ Fields(p) /\ p.failed = FALSE /\ p.kind = kind /\ p.db = db
      /\ p.accumulatedFees = <<>> /\ p.exitTree = <<>>
  BY DEF NewTxProcessor, Fields, DBTypeOK
<1>2. DOMAIN <<>> = {}
  OBVIOUS
<1>3. db.currentIdx \in UserThreshold - 1 .. MaxIdx /\ db.currentIdx \in Nat
  BY BoundsAssumption DEF DBTypeOK, UserThreshold
<1>4. Ready(p)
  BY <1>1, <1>2, <1>3 DEF Ready, Sound, DBTypeOK
<1>5. ASSUME NEW t PROVE Total(p, t) = Bal(db.account, t)
  <2>1. OfToken(p.exitTree, db.account, t) = 0 /\ OfToken(p.accumulatedFees, db.account, t) = 0
    BY <1>1, <1>2, OfTokenOfNone
  <2>2. Bal(p.db.account, t) \in Nat
    BY <1>4, SumsAreNat DEF Ready
  <2> QED
    BY <1>1, <2>1, <2>2 DEF Total
<1> QED
  BY <1>1, <1>2, <1>4, <1>5

LEMMA NewAreTwins ==
  ASSUME NEW db, DBTypeOK(db)
  PROVE  Twins(NewTxProcessor("Synchronizer", db), NewTxProcessor("BatchBuilder", db))
BY DEF Twins, Fields, NewTxProcessor, DBTypeOK

LEMMA InitIInv ==
  ASSUME Init
  PROVE  IInv
<1>1. sync = NewTxProcessor("Synchronizer", FirstDB) /\ DBTypeOK(FirstDB) /\ pc = "Idle"
  BY FirstDBAssumption DEF Init
<1>2. Ready(sync) /\ sync.db = FirstDB
  BY <1>1, NewIsReady
<1>3. Twins(sync, builder)
  BY <1>1, NewAreTwins DEF Init
<1>4. \A t \in Tokens : Bal(FirstDB.account, t) \in Nat /\ FirstFunds[t] = Bal(FirstDB.account, t)
  BY <1>2, SumsAreNat DEF Ready, FirstFunds, Bal
<1>5. FirstFunds \in [Tokens -> Nat]
  <2>1. FirstFunds = [t \in Tokens |-> FirstFunds[t]]
    BY DEF FirstFunds
  <2> QED
    BY <1>4, <2>1
<1>6. MoneyInv
  <2>1. /\ funds = FirstFunds /\ credited = FirstFunds /\ left = [t \in Tokens |-> 0]
    BY DEF Init
  <2> QED
    BY <1>1, <1>2, <1>4, <1>5, <2>1 DEF MoneyInv, Conserved
<1> QED
  BY <1>1, <1>2, <1>3, <1>6 DEF IInv, FeesInv

LEMMA ReadyIsTyped ==
  ASSUME NEW p, Ready(p)
  PROVE  DBTypeOK(p.db)
BY DEF Ready, Sound, Fields, DBTypeOK

LEMMA BeginBatchKeeps ==
  ASSUME IInv, BeginBatch
  PROVE  IInv'
<1>1. /\ pc = "Idle" /\ pc' = "L1User"
      /\ sync' = NewTxProcessor("Synchronizer", sync.db)
      /\ builder' = NewTxProcessor("BatchBuilder", builder.db)
      /\ UNCHANGED <<funds, credited, left>>
  BY DEF BeginBatch
<1>2. DBTypeOK(sync.db) /\ builder.db = sync.db
  BY ReadyIsTyped DEF IInv, Twins
<1>3. Ready(sync)' /\ (DOMAIN sync.accumulatedFees)' = {}
      /\ \A t : Total(sync', t) = Bal(sync.db.account, t)
  BY <1>1, <1>2, NewIsReady
<1>4. Twins(sync', builder')
  BY <1>1, <1>2, NewAreTwins
<1>5. MoneyInv'
  BY <1>1, <1>3 DEF IInv, MoneyInv, Conserved
<1> QED
  BY <1>1, <1>3, <1>4, <1>5 DEF IInv, FeesInv

\* Money comes, or some of it goes, in the middle of a batch.
LEMMA MoneyComes ==
  ASSUME MoneyInv, pc # "Idle", pc' # "Idle", Ready(sync), NEW token, token \in Tokens,
         NEW d, d \in Nat, NEW e, e \in Nat, d <= e, Gained(sync, sync', token, d),
         funds' = [funds EXCEPT ![token] = @ + e],
         credited' = [credited EXCEPT ![token] = @ + d], left' = left
  PROVE  MoneyInv'
<1>1. /\ funds \in [Tokens -> Nat] /\ credited \in [Tokens -> Nat] /\ left \in [Tokens -> Nat]
      /\ \A t \in Tokens : Total(sync, t) + left[t] = credited[t] /\ credited[t] <= funds[t]
  BY DEF MoneyInv, Conserved
<1>2. /\ funds' \in [Tokens -> Nat] /\ credited' \in [Tokens -> Nat]
      /\ left' \in [Tokens -> Nat]
  BY <1>1
<1>3. ASSUME NEW t \in Tokens
      PROVE  Total(sync', t) + left'[t] = credited'[t] /\ credited'[t] <= funds'[t]
  <2>1. Total(sync', t) = Total(sync, t) + IF t = token THEN d ELSE 0
    BY DEF Gained
  <2>2. Total(sync, t) \in Nat
    BY SumsAreNat DEF Ready
  <2>3. /\ credited'[t] = credited[t] + IF t = token THEN d ELSE 0
        /\ funds'[t] = funds[t] + IF t = token THEN e ELSE 0
    BY <1>1
  <2>4. /\ credited[t] \in Nat /\ funds[t] \in Nat /\ left[t] \in Nat
        /\ Total(sync, t) + left[t] = credited[t] /\ credited[t] <= funds[t]
    BY <1>1
  <2> QED
    BY <2>1, <2>2, <2>3, <2>4
<1> QED
  BY <1>2, <1>3 DEF MoneyInv, Conserved

LEMMA MoneyGoes ==
  ASSUME MoneyInv, pc # "Idle", pc' # "Idle", Ready(sync), NEW token, token \in Tokens,
         NEW d, d \in Nat, NEW e, e = -d, Gained(sync, sync', token, e),
         left' = [left EXCEPT ![token] = @ + d], UNCHANGED <<funds, credited>>
  PROVE  MoneyInv'
<1>1. /\ funds \in [Tokens -> Nat] /\ credited \in [Tokens -> Nat] /\ left \in [Tokens -> Nat]
      /\ \A t \in Tokens : Total(sync, t) + left[t] = credited[t] /\ credited[t] <= funds[t]
  BY DEF MoneyInv, Conserved
<1>2. /\ funds' \in [Tokens -> Nat] /\ credited' \in [Tokens -> Nat]
      /\ left' \in [Tokens -> Nat]
  BY <1>1
<1>3. ASSUME NEW t \in Tokens
      PROVE  Total(sync', t) + left'[t] = credited'[t] /\ credited'[t] <= funds'[t]
  <2>1. Total(sync', t) = Total(sync, t) + IF t = token THEN e ELSE 0
    BY DEF Gained
  <2>2. Total(sync, t) \in Nat
    BY SumsAreNat DEF Ready
  <2>3. left'[t] = left[t] + IF t = token THEN d ELSE 0
    BY <1>1
  <2>4. /\ credited[t] \in Nat /\ funds[t] \in Nat /\ left[t] \in Nat
        /\ Total(sync, t) + left[t] = credited[t] /\ credited[t] <= funds[t]
    BY <1>1
  <2> QED
    BY <2>1, <2>2, <2>3, <2>4
<1> QED
  BY <1>2, <1>3 DEF MoneyInv, Conserved

LEMMA ProcessL1Keeps ==
  ASSUME IInv, pc \in {"L1User", "L1Coordinator"}, pc' \in {"L1User", "L1Coordinator"},
         NEW tx, ValidL1(sync, tx), ProcessL1(tx, tx)
  PROVE  IInv'
<1> DEFINE d == Effective(sync.db, tx).deposit
<1>1. /\ sync' = ProcessL1InBatch(sync, tx) /\ builder' = ProcessL1InBatch(builder, tx)
      /\ funds' = [funds EXCEPT ![tx.token] = @ + tx.deposit]
      /\ credited' = [credited EXCEPT ![tx.token] = @ + d]
      /\ left' = left
  BY DEF ProcessL1
<1>2. /\ tx.token \in Tokens /\ tx.deposit \in Nat /\ tx.type \in L1Types
      /\ Twins(sync, builder) /\ Ready(sync) /\ MoneyInv /\ DOMAIN sync.accumulatedFees = {}
      /\ Fields(sync) /\ sync.kind = "Synchronizer" /\ pc # "Idle" /\ pc' # "Idle"
  BY DEF ValidL1, IInv, Twins, FeesInv
<1>3. Gained(sync, sync', tx.token, d)
  BY <1>1, <1>2, L1Gains DEF HasExitTree
<1>4. d \in Nat /\ d <= tx.deposit
  <2>1. EffectiveOK(sync, tx, Effective(sync.db, tx).deposit, Effective(sync.db, tx).amount)
    BY <1>2, EffectiveFits DEF Ready
  <2> QED
    BY <2>1 DEF EffectiveOK
<1>5. Twins(sync', builder')
  BY <1>1, <1>2, TwinsL1
<1>6. SameFees(sync, sync')
  BY <1>1, <1>2, L1KeepsFees
<1> HIDE DEF d
<1>7. MoneyInv'
  <2> DEFINE token == tx.token
             e == tx.deposit
  <2>1. /\ token \in Tokens /\ e \in Nat /\ d <= e /\ Gained(sync, sync', token, d)
        /\ funds' = [funds EXCEPT ![token] = @ + e]
        /\ credited' = [credited EXCEPT ![token] = @ + d]
    BY <1>1, <1>2, <1>3, <1>4
  <2> HIDE DEF token, e
  <2> QED
    BY <2>1, <1>1, <1>2, <1>4, MoneyComes
<1> QED
  BY <1>2, <1>3, <1>5, <1>6, <1>7 DEF IInv, FeesInv, SameFees, Gained

LEMMA ProcessL1UserKeeps ==
  ASSUME IInv, ProcessL1User
  PROVE  IInv'
<1>1. PICK tx \in L1UserTxs : ProcessL1(tx, tx)
  BY DEF ProcessL1User
<1>2. pc = "L1User" /\ pc' = "L1User" /\ Ready(sync)
  BY DEF ProcessL1User, IInv
<1>3. ValidL1(sync, tx)
  BY <1>1, <1>2, L1UserTxsAreValid DEF ProcessL1
<1> QED
  BY <1>1, <1>2, <1>3, ProcessL1Keeps

LEMMA ProcessL1CoordinatorKeeps ==
  ASSUME IInv, ProcessL1Coordinator
  PROVE  IInv'
<1>1. PICK t \in Tokens, e \in EthAddrs \cup {FFAddr}, b \in BJJs :
         LET tx == L1CoordinatorTx(t, e, b)
             auth == IF e = FFAddr THEN EmptyEthSignature ELSE Authorize(e, b)
         IN  ProcessL1(tx, L1CoordinatorTxFromBytes(BytesCoordinatorTx(tx, auth)))
  BY DEF ProcessL1Coordinator
<1> DEFINE tx == L1CoordinatorTx(t, e, b)
           auth == IF e = FFAddr THEN EmptyEthSignature ELSE Authorize(e, b)
           forged == L1CoordinatorTxFromBytes(BytesCoordinatorTx(tx, auth))
<1>2. ProcessL1(tx, forged)
  BY <1>1
<1>3. pc \in {"L1User", "L1Coordinator"} /\ pc' = "L1Coordinator" /\ Ready(sync)
  BY DEF ProcessL1Coordinator, IInv
<1>4. RoomFor(tx)
  <2> HIDE DEF tx, forged
  <2> QED
    BY <1>2 DEF ProcessL1
<1>5. forged = tx /\ ValidL1(sync, tx)
  <2>1. tx = L1CoordinatorTx(t, e, b)
    OBVIOUS
  <2>2. auth = IF e = FFAddr THEN EmptyEthSignature ELSE Authorize(e, b)
    OBVIOUS
  <2>3. forged = L1CoordinatorTxFromBytes(BytesCoordinatorTx(tx, auth))
    OBVIOUS
  <2> HIDE DEF tx, auth, forged
  <2> QED
    BY <2>1, <2>2, <2>3, <1>3, <1>4, L1CoordinatorTxIs
<1> HIDE DEF tx, forged
<1>6. ProcessL1(tx, tx)
  BY <1>2, <1>5
<1> QED
  BY <1>3, <1>5, <1>6, ProcessL1Keeps

LEMMA ChooseCoordIdxsKeeps ==
  ASSUME IInv, ChooseCoordIdxs
  PROVE  IInv'
<1>1. /\ pc \in {"L1User", "L1Coordinator"} /\ pc' = "L2"
      /\ UNCHANGED <<funds, credited, left>>
  BY DEF ChooseCoordIdxs
<1>2. PICK idxs \in UNION {[1 .. n -> Accounts] : n \in 0 .. MaxFeeTx} :
         /\ sync' = StartFees(sync, idxs) /\ builder' = StartFees(builder, idxs)
         /\ coordIdxs' = FilterCoordIdxs(sync.db, idxs)
  BY DEF ChooseCoordIdxs
<1>3. PICK n \in 0 .. MaxFeeTx : idxs \in [1 .. n -> Accounts]
  BY <1>2
<1>4. /\ Ready(sync) /\ Twins(sync, builder) /\ DOMAIN sync.accumulatedFees = {} /\ MoneyInv
      /\ Fields(sync) /\ Fields(builder) /\ builder.db = sync.db
      /\ sync.failed = FALSE /\ builder.failed = FALSE
  BY <1>1 DEF IInv, FeesInv, Twins, Ready, Sound
<1> DEFINE S == DOMAIN sync.db.account
           kept == coordIdxs'
<1>5. Distinct(sync.db, S, kept)
  <2>1. n \in Nat /\ DOMAIN idxs = 1 .. n /\ \A k \in 1 .. n : idxs[k] \in S
    BY <1>3 DEF Accounts
  <2> HIDE DEF S
  <2> QED
    BY <2>1, <1>2, FilterIsDistinct
<1>6. kept \in Seq(S)
  BY <1>5 DEF Distinct
<1>7. \A i \in ToSet(idxs) : i \in S
  BY <1>3 DEF ToSet, Accounts
<1>8. Started(sync, sync', kept) /\ Started(builder, builder', kept)
  BY <1>2, <1>4, <1>7, StartFeesStarts
<1>9. \A token : Gained(sync, sync', token, 0)
  BY <1>4, <1>6, <1>8, StartedGains
<1>10. Twins(sync', builder')
  BY <1>4, <1>8, StartedTwins
<1>11. Collecting(sync', kept)
  <2>1. Ready(sync') /\ sync'.db = sync.db /\ DOMAIN sync'.accumulatedFees = ToSet(kept)
    BY <1>8, <1>9 DEF Gained, Started
  <2> HIDE DEF kept
  <2> QED
    BY <2>1, <1>5 DEF Collecting
<1>12. MoneyInv'
  <2>1. \A t : Total(sync', t) = Total(sync, t)
    <3> TAKE t
    <3>1. Total(sync, t) \in Nat
      BY <1>4, SumsAreNat DEF Ready
    <3>2. Total(sync', t) = Total(sync, t) + IF t = t THEN 0 ELSE 0
      BY <1>9 DEF Gained
    <3> QED
      BY <3>1, <3>2
  <2> QED
    BY <2>1, <1>1, <1>4 DEF MoneyInv, Conserved
<1> QED
  BY <1>1, <1>10, <1>11, <1>12 DEF IInv, FeesInv, Collecting

LEMMA ProcessL2Keeps ==
  ASSUME IInv, ProcessL2
  PROVE  IInv'
<1>1. pc = "L2" /\ pc' = "L2" /\ coordIdxs' = coordIdxs /\ UNCHANGED <<funds, credited>>
  BY DEF ProcessL2
<1> DEFINE idxs == IdxOfToken
<1>2. PICK tx \in L2Txs :
         /\ Provable(tx)
         /\ builder' = ProcessL2InBatch(builder, idxs, tx)
         /\ sync' = ProcessL2InBatch(sync, idxs, Forged(tx))
         /\ left' = IF TokenOf(tx.from) \in DOMAIN idxs THEN left
                    ELSE [left EXCEPT ![TokenOf(tx.from)] = @ + FeeAmount(tx.amount, tx.fee)]
  BY DEF ProcessL2
<1> DEFINE token == TokenOf(tx.from)
           fee == FeeAmount(tx.amount, tx.fee)
           d == IF token \in DOMAIN idxs THEN 0 ELSE fee
<1>3. /\ Ready(sync) /\ Twins(sync, builder) /\ MoneyInv /\ Collecting(sync, coordIdxs)
      /\ sync.db.account \in [DOMAIN sync.db.account -> AccountType]
  BY <1>1 DEF IInv, FeesInv, Ready, Sound
<1>4. FeeIdxs(sync, idxs) /\ \A t \in DOMAIN idxs : idxs[t] \in DOMAIN sync.accumulatedFees
  <2>1. coordIdxs \in Seq(DOMAIN sync.db.account)
    BY <1>3 DEF Collecting, Distinct
  <2>2. idxs = GetTokenIDsFromIdxs(sync.db, coordIdxs)
    BY DEF IdxOfToken
  <2> HIDE DEF idxs
  <2>3. FeeIdxs(sync, idxs) /\ \A t \in DOMAIN idxs : idxs[t] \in ToSet(coordIdxs)
    BY <2>1, <2>2, IdxsOfTokens
  <2> QED
    BY <2>3, <1>3 DEF Collecting
<1>5. TxOK(tx)
  BY L2TxsAreOK
<1>6. fee \in Nat /\ token \in Tokens
  <2>1. tx.from \in DOMAIN sync.db.account
    BY <1>5 DEF TxOK, Accounts
  <2> QED
    BY <2>1, <1>3, <1>5, FeeIsNat DEF TxOK, TokenOf, AccountType
<1>7. /\ Gained(sync, sync', token, IF token \in DOMAIN idxs THEN 0 ELSE -fee)
      /\ Twins(sync', builder')
      /\ DOMAIN sync'.accumulatedFees = DOMAIN sync.accumulatedFees
  BY <1>2, <1>3, <1>4, <1>5, L2Step
<1> HIDE DEF idxs, token, fee
<1>8. Gained(sync, sync', token, -d)
  <2>1. (IF token \in DOMAIN idxs THEN 0 ELSE -fee) = -d
    BY <1>6
  <2> HIDE DEF d
  <2> QED
    BY <2>1, <1>7
<1>9. left' = [left EXCEPT ![token] = @ + d]
  <2>1. CASE token \in DOMAIN idxs
    <3>1. left' = left /\ d = 0
      BY <2>1, <1>2 DEF token
    <3>2. left \in [Tokens -> Nat]
      BY <1>3 DEF MoneyInv
    <3> QED
      BY <3>1, <3>2, <1>6
  <2>2. CASE token \notin DOMAIN idxs
    BY <2>2, <1>2 DEF token, fee
  <2> QED
    BY <2>1, <2>2
<1>10. d \in Nat
  BY <1>6
<1> HIDE DEF d
<1>11. MoneyInv'
  <2> DEFINE e == -d
  <2>1. Gained(sync, sync', token, e) /\ e = -d
    BY <1>8
  <2> HIDE DEF e
  <2> QED
    BY <2>1, <1>1, <1>3, <1>6, <1>9, <1>10, MoneyGoes
<1>12. Collecting(sync', coordIdxs')
  <2> DEFINE S == DOMAIN sync.db.account
  <2>1. /\ coordIdxs \in Seq(S)
        /\ \A j, k \in DOMAIN coordIdxs :
              sync.db.account[coordIdxs[j]].token = sync.db.account[coordIdxs[k]].token => j = k
    BY <1>3 DEF Collecting, Distinct
  <2>2. \A i \in S : i \in DOMAIN sync'.db.account
                     /\ sync'.db.account[i].token = sync.db.account[i].token
    BY <1>7 DEF Gained
  <2>3. \A j \in DOMAIN coordIdxs : coordIdxs[j] \in S
    BY <2>1
  <2> HIDE DEF S
  <2>4. coordIdxs \in Seq(DOMAIN sync'.db.account)
    BY <2>1, <2>2, <2>3
  <2>5. Distinct(sync'.db, DOMAIN sync'.db.account, coordIdxs)
    BY <2>1, <2>2, <2>3, <2>4 DEF Distinct
  <2>6. Ready(sync') /\ DOMAIN sync'.accumulatedFees = ToSet(coordIdxs)
    BY <1>3, <1>7 DEF Gained, Collecting
  <2> QED
    BY <2>5, <2>6, <1>1 DEF Collecting
<1> QED
  BY <1>1, <1>7, <1>11, <1>12 DEF IInv, FeesInv, Collecting

LEMMA EndBatchKeeps ==
  ASSUME IInv, EndBatch
  PROVE  IInv'
<1>1. /\ pc = "L2" /\ pc' = "Idle"
      /\ sync' = DistributeFees(sync, coordIdxs) /\ builder' = DistributeFees(builder, coordIdxs)
      /\ left' = [t \in Tokens |-> left[t] + ExitsOf(t)]
      /\ UNCHANGED <<funds, credited>>
  BY DEF EndBatch
<1>2. Ready(sync) /\ Twins(sync, builder) /\ MoneyInv /\ Collecting(sync, coordIdxs)
  BY <1>1 DEF IInv, FeesInv
<1>3. /\ Ready(sync')
      /\ \A t : Bal(sync'.db.account, t) + OfToken(sync.exitTree, sync.db.account, t)
                = Total(sync, t)
  BY <1>1, <1>2, DistributeFeesPays
<1>4. Twins(sync', builder')
  <2>1. Len(coordIdxs) \in Nat /\ DOMAIN coordIdxs = 1 .. Len(coordIdxs)
    BY <1>2 DEF Collecting, Distinct
  <2> QED
    BY <2>1, <1>1, <1>2, DistributeFeesTwins
<1>5. \A t \in Tokens : ExitsOf(t) \in Nat /\ Bal(sync'.db.account, t) \in Nat
  BY <1>2, <1>3, SumsAreNat DEF Ready, ExitsOf
<1>6. MoneyInv'
  <2>1. /\ funds \in [Tokens -> Nat] /\ credited \in [Tokens -> Nat]
        /\ left \in [Tokens -> Nat]
        /\ \A t \in Tokens : Total(sync, t) + left[t] = credited[t] /\ credited[t] <= funds[t]
    BY <1>1, <1>2 DEF MoneyInv, Conserved
  <2>2. left' \in [Tokens -> Nat]
    BY <1>1, <1>5, <2>1
  <2>3. ASSUME NEW t \in Tokens
        PROVE  Bal(sync'.db.account, t) + left'[t] = credited[t]
    <3>1. Bal(sync'.db.account, t) + ExitsOf(t) = Total(sync, t)
      BY <1>3 DEF ExitsOf
    <3>2. left'[t] = left[t] + ExitsOf(t) /\ left[t] \in Nat
      BY <1>1, <2>1
    <3>3. Total(sync, t) + left[t] = credited[t]
      BY <2>1
    <3> QED
      BY <3>1, <3>2, <3>3, <1>5
  <2> QED
    BY <1>1, <2>1, <2>2, <2>3 DEF MoneyInv, Conserved
<1> QED
  BY <1>1, <1>3, <1>4, <1>6 DEF IInv, FeesInv

LEMMA StutterKeeps ==
  ASSUME IInv, UNCHANGED vars
  PROVE  IInv'
BY DEF IInv, vars, Twins, Ready, FeesInv, Collecting, MoneyInv, Conserved

\* The two databases stay the same, no balance goes below zero, fees are counted for
\* one account of a token, and the money adds up, whatever ProcessTxs is given.
THEOREM Invariance == Spec => []IInv
<1>1. Init => IInv
  BY InitIInv
<1>2. IInv /\ [Next]_vars => IInv'
  <2> SUFFICES ASSUME IInv, [Next]_vars PROVE IInv'
    OBVIOUS
  <2>1. CASE BeginBatch
    BY <2>1, BeginBatchKeeps
  <2>2. CASE ProcessL1User
    BY <2>2, ProcessL1UserKeeps
  <2>3. CASE ProcessL1Coordinator
    BY <2>3, ProcessL1CoordinatorKeeps
  <2>4. CASE ChooseCoordIdxs
    BY <2>4, ChooseCoordIdxsKeeps
  <2>5. CASE ProcessL2
    BY <2>5, ProcessL2Keeps
  <2>6. CASE EndBatch
    BY <2>6, EndBatchKeeps
  <2>7. CASE UNCHANGED vars
    BY <2>7, StutterKeeps
  <2> QED
    BY <2>1, <2>2, <2>3, <2>4, <2>5, <2>6, <2>7 DEF Next
<1> QED
  BY <1>1, <1>2, PTL DEF Spec

\* Accounts are numbered without gaps, nobody owes money, and amounts are numbers.
THEOREM TypeCorrect == Spec => []TypeOK
<1>1. IInv => TypeOK
  <2> SUFFICES ASSUME IInv PROVE TypeOK
    OBVIOUS
  <2>1. DBTypeOK(sync.db) /\ builder.db = sync.db
    BY ReadyIsTyped DEF IInv, Twins
  <2> QED
    BY <2>1 DEF TypeOK, IInv, MoneyInv
<1> QED
  BY <1>1, Invariance, PTL

\* Money is neither made nor lost, of any token, by any transactions that users
\* queue and the circuit accepts, over any number of batches.
THEOREM MoneyIsConserved == Spec => []MoneyConserved
<1>1. IInv => MoneyConserved
  <2> SUFFICES ASSUME IInv, NEW t \in Tokens
               PROVE  LET pending == IF pc = "Idle" THEN 0 ELSE ExitsOf(t) + FeesOf(t)
                      IN  /\ BalancesOf(t) + pending + left[t] = credited[t]
                          /\ credited[t] <= funds[t]
    BY DEF MoneyConserved
  <2>1. /\ (IF pc = "Idle" THEN Bal(sync.db.account, t) ELSE Total(sync, t)) + left[t]
             = credited[t]
        /\ credited[t] <= funds[t] /\ left[t] \in Nat
    BY DEF IInv, MoneyInv, Conserved
  <2>2. BalancesOf(t) = Bal(sync.db.account, t)
    BY DEF BalancesOf, Bal
  <2>3. Total(sync, t) = BalancesOf(t) + ExitsOf(t) + FeesOf(t)
    BY <2>2 DEF Total, ExitsOf, FeesOf
  <2>4. BalancesOf(t) \in Nat /\ ExitsOf(t) \in Nat /\ FeesOf(t) \in Nat
    BY <2>2, SumsAreNat DEF IInv, Ready, ExitsOf, FeesOf
  <2> QED
    BY <2>1, <2>2, <2>3, <2>4
<1> QED
  BY <1>1, Invariance, PTL

\* Whatever a user queues, ProcessTxs can apply it: what computeEffectiveAmounts lets
\* through, the code behind it can always do.
THEOREM QueueNeverSticks == Spec => []NeverStuck
<1>1. IInv => NeverStuck
  BY DEF IInv, Ready, Sound, Twins, NeverStuck
<1> QED
  BY <1>1, Invariance, PTL

\* The database that the proof is made from and the one that follows the contract
\* stay the same, although the second is told of less.
THEOREM DatabasesAgree == Spec => []SameAccounts
<1>1. IInv => SameAccounts
  BY DEF IInv, Twins, SameAccounts
<1> QED
  BY <1>1, Invariance, PTL

-----------------------------------------------------------------------------
(* What the Synchronizer tells of a batch. *)

\* Every account that is not as it was is among those that have been updated.
Told(p, accounts) ==
  /\ p.kind = "Synchronizer"
  /\ \A i \in DOMAIN p.db.account :
        p.db.account[i] = IF i \in DOMAIN p.updatedAccounts THEN p.updatedAccounts[i]
                          ELSE accounts[i]

\* The exit of the transaction j is the last of its account in the first n.
LastOf(p, n, j) ==
  /\ j \in DOMAIN p.exits /\ j < n
  /\ \A k \in DOMAIN p.exits : k < n /\ p.exits[k].idx = p.exits[j].idx => k <= j

\* The exits of the first n transactions are the leaves of the exit tree.
ExitsTell(p, n) ==
  /\ DOMAIN p.exits \subseteq 0 .. n - 1
  /\ \A j \in DOMAIN p.exits : p.exits[j].idx \in DOMAIN p.exitTree
  /\ \A i \in DOMAIN p.exitTree :
        \E j : LastOf(p, n, j) /\ p.exits[j].idx = i /\ p.exits[j].balance = p.exitTree[i]

\* r is p after accounts were written.
Wrote(p, r) ==
  /\ Fields(r) /\ r.kind = p.kind /\ r.txIndex = p.txIndex
  /\ r.exits = p.exits /\ r.exitTree = p.exitTree
  /\ r.createdAccounts = p.createdAccounts /\ r.db.currentIdx = p.db.currentIdx
  /\ \A accounts : Told(p, accounts) => Told(r, accounts)

LEMMA WroteTwice ==
  ASSUME NEW p, NEW q, NEW r, Wrote(p, q), Wrote(q, r)
  PROVE  Wrote(p, r)
BY DEF Wrote

LEMMA WroteNothing ==
  ASSUME NEW p, Fields(p)
  PROVE  Wrote(p, p)
BY DEF Wrote

LEMMA FailedWrites ==
  ASSUME NEW p, Fields(p), NEW r, r = Failed(p)
  PROVE  Wrote(p, r)
BY DEF Wrote, Failed, Fields, Told

LEMMA AccountSetWrites ==
  ASSUME NEW p, NEW i, NEW a, NEW r, AccountSet(p, r, i, a)
  PROVE  Wrote(p, r)
<1>1. ASSUME NEW accounts, Told(p, accounts) PROVE Told(r, accounts)
  <2>1. /\ r.kind = "Synchronizer" /\ r.db.account = Put(p.db.account, i, a)
        /\ r.updatedAccounts = Put(p.updatedAccounts, i, a)
    BY <1>1 DEF Told, AccountSet
  <2> SUFFICES ASSUME NEW x \in DOMAIN r.db.account
               PROVE  r.db.account[x] = IF x \in DOMAIN r.updatedAccounts
                                        THEN r.updatedAccounts[x] ELSE accounts[x]
    BY <2>1 DEF Told
  <2>2. CASE x = i
    BY <2>1, <2>2 DEF Put
  <2>3. CASE x # i
    <3>1. /\ x \in DOMAIN p.db.account /\ r.db.account[x] = p.db.account[x]
          /\ x \in DOMAIN r.updatedAccounts <=> x \in DOMAIN p.updatedAccounts
          /\ x \in DOMAIN p.updatedAccounts => r.updatedAccounts[x] = p.updatedAccounts[x]
      BY <2>1, <2>3 DEF Put
    <3> QED
      BY <3>1, <1>1 DEF Told
  <2> QED
    BY <2>2, <2>3
<1> QED
  BY <1>1 DEF Wrote, AccountSet

LEMMA UpdateWrites ==
  ASSUME NEW p, Fields(p), NEW i, NEW a, NEW r, r = UpdateAccount(p, i, a)
  PROVE  Wrote(p, r)
BY UpdateAccountSets, AccountSetWrites

LEMMA CreateWrites ==
  ASSUME NEW p, Fields(p), NEW i, NEW a, NEW r, r = CreateAccount(p, i, a)
  PROVE  Wrote(p, r)
<1>1. CASE Has(p.db, i)
  BY <1>1, FailedWrites DEF CreateAccount
<1>2. CASE ~Has(p.db, i)
  BY <1>2, CreateAccountSets, AccountSetWrites
<1> QED
  BY <1>1, <1>2

LEMMA CreditWrites ==
  ASSUME NEW p, Fields(p), NEW to, NEW amount, NEW r, r = Credit(p, to, amount)
  PROVE  Wrote(p, r)
<1>1. \/ r = Failed(p)
      \/ r = UpdateAccount(p, to, Paid(p, to, amount))
  BY DEF Credit, Paid
<1> QED
  BY <1>1, FailedWrites, UpdateWrites

LEMMA DebitWrites ==
  ASSUME NEW p, Fields(p), NEW from, NEW amount, NEW r, r = DebitL1(p, from, amount)
  PROVE  Wrote(p, r)
<1> DEFINE a == [p.db.account[from] EXCEPT !.balance = @ - amount]
<1>1. r = Failed(p) \/ r = UpdateAccount(p, from, a)
  BY DEF DebitL1
<1> HIDE DEF a
<1> QED
  BY <1>1, FailedWrites, UpdateWrites

LEMMA DebitL2Writes ==
  ASSUME NEW p, Fields(p), NEW idxs, NEW tx, NEW r, r = DebitL2(p, idxs, tx)
  PROVE  Wrote(p, r)
<1> DEFINE account == p.db.account[tx.from]
           fee == FeeAmount(tx.amount, tx.fee)
           collected == CollectFee(p, idxs, account.token, fee)
           a == [account EXCEPT !.balance = @ - tx.amount - fee, !.nonce = @ + 1]
<1>1. Wrote(p, collected) /\ Fields(collected)
  <2> HIDE DEF account, fee
  <2> QED
    BY DEF CollectFee, Fields, Failed, Wrote, Told
<1>2. \/ r = Failed(p) \/ r = collected
      \/ r = UpdateAccount(collected, tx.from, a)
  BY DEF DebitL2
<1> HIDE DEF a, collected
<1>3. Wrote(p, r) \/ Wrote(collected, r) \/ r = collected
  BY <1>1, <1>2, FailedWrites, UpdateWrites
<1> QED
  BY <1>1, <1>3, WroteTwice

LEMMA ExitsTellLater ==
  ASSUME NEW p, NEW n, n \in Nat, ExitsTell(p, n), NEW m, m = n + 1,
         NEW r, r.exits = p.exits, r.exitTree = p.exitTree
  PROVE  ExitsTell(r, m)
<1>1. \A j \in DOMAIN p.exits : j \in 0 .. n - 1 /\ j < n
  BY DEF ExitsTell
<1>2. \A j : LastOf(p, n, j) => LastOf(r, m, j)
  BY <1>1 DEF LastOf
<1>3. DOMAIN r.exits \subseteq 0 .. m - 1
  BY <1>1
<1> QED
  BY <1>2, <1>3 DEF ExitsTell

LEMMA ExitsAdded ==
  ASSUME NEW p, NEW n, n \in Nat, ExitsTell(p, n), NEW m, m = n + 1, NEW from, NEW v,
         NEW exit, exit = [idx |-> from, balance |-> v],
         NEW r, r.exits = Put(p.exits, n, exit), r.exitTree = Put(p.exitTree, from, v)
  PROVE  ExitsTell(r, m)
<1>1. /\ DOMAIN r.exits = DOMAIN p.exits \cup {n} /\ r.exits[n] = exit
      /\ exit.idx = from /\ exit.balance = v
      /\ DOMAIN r.exitTree = DOMAIN p.exitTree \cup {from} /\ r.exitTree[from] = v
      /\ \A i \in DOMAIN p.exitTree : i # from => r.exitTree[i] = p.exitTree[i]
  BY DEF Put
<1>2. \A j \in DOMAIN p.exits : j \in 0 .. n - 1 /\ j < n /\ j # n /\ r.exits[j] = p.exits[j]
  BY DEF ExitsTell, Put
<1>3. DOMAIN r.exits \subseteq 0 .. m - 1
  BY <1>1, <1>2
<1>4. \A j \in DOMAIN r.exits : r.exits[j].idx \in DOMAIN r.exitTree
  BY <1>1, <1>2 DEF ExitsTell
<1>5. LastOf(r, m, n)
  BY <1>1, <1>2 DEF LastOf
<1>6. ASSUME NEW i \in DOMAIN r.exitTree, i # from
      PROVE  \E j : LastOf(r, m, j) /\ r.exits[j].idx = i /\ r.exits[j].balance = r.exitTree[i]
  <2>1. PICK j : LastOf(p, n, j) /\ p.exits[j].idx = i /\ p.exits[j].balance = p.exitTree[i]
    BY <1>1, <1>6 DEF ExitsTell
  <2>2. j \in DOMAIN p.exits
    BY <2>1 DEF LastOf
  <2>3. \A k \in DOMAIN r.exits : r.exits[k].idx = i => k \in DOMAIN p.exits
    BY <1>1, <1>6
  <2>4. \A k \in DOMAIN p.exits : k < n /\ p.exits[k].idx = i => k <= j
    BY <2>1 DEF LastOf
  <2>5. LastOf(r, m, j)
    BY <1>1, <1>2, <2>1, <2>2, <2>3, <2>4 DEF LastOf
  <2> QED
    BY <1>1, <1>2, <1>6, <2>1, <2>2, <2>5
<1> QED
  BY <1>1, <1>3, <1>4, <1>5, <1>6 DEF ExitsTell

\* r is p after a transaction, but for its number and the index of a new account.
Did(p, r) ==
  /\ Fields(r) /\ r.kind = p.kind /\ r.txIndex = p.txIndex
  /\ r.createdAccounts = p.createdAccounts
  /\ \A accounts : Told(p, accounts) => Told(r, accounts)
  /\ \A n, m : n = p.txIndex /\ n \in Nat /\ m = n + 1 /\ ExitsTell(p, n) => ExitsTell(r, m)

LEMMA WroteIsDid ==
  ASSUME NEW p, NEW r, Wrote(p, r)
  PROVE  Did(p, r)
BY ExitsTellLater DEF Wrote, Did

LEMMA AddExitDoes ==
  ASSUME NEW p, NEW q, Wrote(p, q), p.kind = "Synchronizer",
         NEW from, NEW original, NEW amount, NEW r, r = AddExit(q, from, original, amount)
  PROVE  Did(p, r) /\ r.db = q.db
<1>1. CASE q.failed \/ original = 0
  <2>1. r = q
    BY <1>1 DEF AddExit
  <2> QED
    BY <2>1, WroteIsDid
<1>2. CASE ~(q.failed \/ original = 0)
  <2> DEFINE v == OrZero(q.exitTree, from) + amount
             exit == [idx |-> from, balance |-> v]
  <2>1. HasExitTree(q) /\ Fields(q)
    BY DEF Wrote, HasExitTree
  <2>2. r = [q EXCEPT !.exitTree = Put(@, from, v), !.exits = Put(@, q.txIndex, exit)]
    BY <2>1, <1>2 DEF AddExit, OrZero
  <2> HIDE DEF v, exit
  <2>3. /\ Fields(r) /\ r.kind = q.kind /\ r.txIndex = q.txIndex /\ r.db = q.db
        /\ r.createdAccounts = q.createdAccounts /\ r.updatedAccounts = q.updatedAccounts
        /\ r.exitTree = Put(q.exitTree, from, v) /\ r.exits = Put(q.exits, q.txIndex, exit)
    BY <2>1, <2>2 DEF Fields
  <2>4. \A accounts : Told(p, accounts) => Told(r, accounts)
    BY <2>3 DEF Wrote, Told
  <2>5. ASSUME NEW n, NEW m, n = p.txIndex, n \in Nat, m = n + 1, ExitsTell(p, n)
        PROVE  ExitsTell(r, m)
    <3>1. q.exits = p.exits /\ q.exitTree = p.exitTree /\ q.txIndex = n
      BY <2>5 DEF Wrote
    <3>2. r.exits = Put(p.exits, n, exit) /\ r.exitTree = Put(p.exitTree, from, v)
      BY <3>1, <2>3
    <3>3. exit = [idx |-> from, balance |-> v]
      BY DEF exit
    <3> QED
      BY <2>5, <3>2, <3>3, ExitsAdded
  <2> QED
    BY <2>3, <2>4, <2>5 DEF Did, Wrote
<1> QED
  BY <1>1, <1>2

\* currentIdx moves and nothing else.
Counted(q, r, i) == r = [q EXCEPT !.db.currentIdx = i]

LEMMA CountingDoes ==
  ASSUME NEW p, NEW q, Wrote(p, q), NEW i, NEW r, Counted(q, r, i)
  PROVE  /\ Did(p, r) /\ r.db.currentIdx = i
         /\ r.exits = p.exits /\ r.exitTree = p.exitTree
<1>1. Did(p, q) /\ Fields(q) /\ q.exits = p.exits /\ q.exitTree = p.exitTree
  BY WroteIsDid DEF Wrote
<1>2. /\ Fields(r) /\ r.kind = q.kind /\ r.txIndex = q.txIndex
      /\ r.createdAccounts = q.createdAccounts /\ r.exits = q.exits /\ r.exitTree = q.exitTree
      /\ r.updatedAccounts = q.updatedAccounts
      /\ r.db.account = q.db.account /\ r.db.currentIdx = i
  BY <1>1 DEF Fields, Counted
<1>3. \A accounts : Told(p, accounts) => Told(r, accounts)
  BY <1>1, <1>2 DEF Did, Told
<1>4. \A m : ExitsTell(q, m) => ExitsTell(r, m)
  BY <1>2 DEF ExitsTell, LastOf
<1> QED
  BY <1>1, <1>2, <1>3, <1>4 DEF Did

\* An exit leaves a leaf; a new account, once it is counted, is the last one.
L1Did(p, r, tx) ==
  /\ Did(p, r)
  /\ tx.type # "ForceExit" => r.exits = p.exits /\ r.exitTree = p.exitTree
  /\ r.db.currentIdx = IF tx.type \in CreateTypes THEN p.db.currentIdx + 1
                       ELSE p.db.currentIdx

LEMMA WroteIsL1Did ==
  ASSUME NEW p, NEW r, Wrote(p, r), NEW tx, tx.type \notin CreateTypes
  PROVE  L1Did(p, r, tx)
BY WroteIsDid DEF Wrote, L1Did

LEMMA ProcessL1Does ==
  ASSUME NEW p, Fields(p), p.kind = "Synchronizer", NEW tx, tx.type \in L1Types,
         NEW r, r = ProcessL1Tx(p, tx), r.failed = FALSE
  PROVE  L1Did(p, r, tx)
<1> DEFINE effective == Effective(p.db, tx)
           debited == IF Has(p.db, tx.from) THEN DebitL1(p, tx.from, effective.amount)
                      ELSE Failed(p)
           i == p.db.currentIdx + 1
<1>0. i = p.db.currentIdx + 1
  OBVIOUS
<1> HIDE DEF effective, i
<1>1. Wrote(p, debited) /\ Fields(debited)
  <2>1. Wrote(p, debited)
    BY FailedWrites, DebitWrites
  <2> QED
    BY <2>1 DEF Wrote
<1> HIDE DEF debited
<1>2. CASE tx.type = "ForceTransfer"
  <2>1. r = Credit(debited, tx.to, effective.amount)
    BY <1>2 DEF ProcessL1Tx, debited, effective
  <2>2. Wrote(p, r)
    BY <2>1, <1>1, CreditWrites, WroteTwice
  <2> QED
    BY <2>2, <1>2, WroteIsL1Did DEF CreateTypes
<1>3. CASE tx.type = "ForceExit"
  <2>1. r = AddExit(debited, tx.from, tx.amount, effective.amount)
    BY <1>3 DEF ProcessL1Tx, debited, effective
  <2>2. Did(p, r) /\ r.db = debited.db
    BY <2>1, <1>1, AddExitDoes
  <2> QED
    BY <2>2, <1>1, <1>3 DEF L1Did, Wrote, CreateTypes
<1>4. CASE tx.type = "CreateAccountDeposit"
  <2> DEFINE created == CreateAccount(p, i, NewAccount(tx, effective.deposit))
  <2>1. r = IF created.failed THEN created ELSE [created EXCEPT !.db.currentIdx = i]
    BY <1>4 DEF ProcessL1Tx, ApplyCreateAccount, effective, i
  <2>2. Wrote(p, created)
    BY CreateWrites
  <2> HIDE DEF created
  <2>3. Counted(created, r, i)
    BY <2>1 DEF Counted
  <2>4. Did(p, r) /\ r.db.currentIdx = i /\ r.exits = p.exits /\ r.exitTree = p.exitTree
    BY <2>2, <2>3, CountingDoes
  <2> QED
    BY <2>4, <1>0, <1>4 DEF L1Did, CreateTypes
<1>5. CASE tx.type = "CreateAccountDepositTransfer"
  <2> DEFINE created == CreateAccount(p, i, NewAccount(tx, effective.deposit - effective.amount))
             paid == Credit(created, tx.to, effective.amount)
  <2>1. r = IF effective.deposit < effective.amount THEN Failed(p)
            ELSE IF paid.failed THEN paid ELSE [paid EXCEPT !.db.currentIdx = i]
    BY <1>5 DEF ProcessL1Tx, ApplyCreateAccountDepositTransfer, effective, i
  <2>2. Wrote(p, created) /\ Fields(created)
    <3>1. Wrote(p, created)
      BY CreateWrites
    <3> QED
      BY <3>1 DEF Wrote
  <2> HIDE DEF created
  <2>3. Wrote(p, paid)
    BY <2>2, CreditWrites, WroteTwice
  <2> HIDE DEF paid
  <2>4. Failed(p).failed
    BY DEF Failed, Fields
  <2>5. Counted(paid, r, i)
    BY <2>1, <2>4 DEF Counted
  <2>6. Did(p, r) /\ r.db.currentIdx = i /\ r.exits = p.exits /\ r.exitTree = p.exitTree
    BY <2>3, <2>5, CountingDoes
  <2> QED
    BY <2>6, <1>0, <1>5 DEF L1Did, CreateTypes
<1>6. CASE tx.type \in {"Deposit", "DepositTransfer"}
  <2> DEFINE a == [p.db.account[tx.from] EXCEPT
                       !.balance = @ + effective.deposit - effective.amount]
             paid == UpdateAccount(p, tx.from, a)
  <2>1. r = Failed(p) \/ r = paid \/ r = Credit(paid, tx.to, effective.amount)
    BY <1>6 DEF ProcessL1Tx, ApplyDeposit, effective
  <2> HIDE DEF a
  <2>2. Wrote(p, paid) /\ Fields(paid)
    <3>1. Wrote(p, paid)
      BY UpdateWrites
    <3> QED
      BY <3>1 DEF Wrote
  <2> HIDE DEF paid
  <2>3. Wrote(p, r)
    BY <2>1, <2>2, FailedWrites, CreditWrites, WroteTwice
  <2> QED
    BY <2>3, <1>6, WroteIsL1Did DEF CreateTypes
<1> QED
  BY <1>2, <1>3, <1>4, <1>5, <1>6 DEF L1Types, CreateTypes

LEMMA PayDoes ==
  ASSUME NEW p, Fields(p), p.kind = "Synchronizer", NEW idxs, NEW tx, NEW receiver,
         NEW r, r = Pay(p, idxs, tx, receiver)
  PROVE  Did(p, r) /\ r.db.currentIdx = p.db.currentIdx
<1> DEFINE debited == DebitL2(p, idxs, tx)
<1>1. Wrote(p, debited) /\ Fields(debited)
  <2>1. Wrote(p, debited)
    BY DebitL2Writes
  <2> QED
    BY <2>1 DEF Wrote
<1>2. \/ r = AddExit(debited, tx.from, tx.amount, tx.amount)
      \/ r = Credit(debited, receiver, tx.amount)
  BY DEF Pay
<1> HIDE DEF debited
<1>3. CASE r = AddExit(debited, tx.from, tx.amount, tx.amount)
  <2>1. Did(p, r) /\ r.db = debited.db
    BY <1>1, <1>3, AddExitDoes
  <2> QED
    BY <2>1, <1>1 DEF Wrote
<1>4. CASE r = Credit(debited, receiver, tx.amount)
  <2>1. Wrote(p, r)
    BY <1>1, <1>4, CreditWrites, WroteTwice
  <2> QED
    BY <2>1, WroteIsDid DEF Wrote
<1> QED
  BY <1>2, <1>3, <1>4

LEMMA SameExitsTell ==
  ASSUME NEW p, NEW n, ExitsTell(p, n),
         NEW r, r.exits = p.exits, r.exitTree = p.exitTree
  PROVE  ExitsTell(r, n)
BY DEF ExitsTell, LastOf

LEMMA OneMoreCreated ==
  ASSUME NEW s, s \in Seq(Nat), NEW x, x \in Nat, NEW r, r = Append(s, x)
  PROVE  r \in Seq(Nat) /\ ToSet(r) = ToSet(s) \cup {x}
<1>1. /\ DOMAIN s = 1 .. Len(s) /\ DOMAIN r = 1 .. Len(s) + 1 /\ Len(s) \in Nat
      /\ r[Len(s) + 1] = x /\ \A k \in DOMAIN s : r[k] = s[k]
      /\ r \in Seq(Nat)
  OBVIOUS
<1>2. DOMAIN r = DOMAIN s \cup {Len(s) + 1}
  BY <1>1
<1> QED
  BY <1>1, <1>2 DEF ToSet

\* What the Synchronizer notes of the first n transactions of a batch that began
\* with these accounts.
Tells(p, accounts, n) ==
  /\ Told(p, accounts) /\ DOMAIN accounts \subseteq DOMAIN p.db.account
  /\ p.createdAccounts \in Seq(Nat)
  /\ ToSet(p.createdAccounts) = DOMAIN p.db.account \ DOMAIN accounts
  /\ p.txIndex \in 0 .. n
  /\ ExitsTell(p, p.txIndex)

LEMMA NewTells ==
  ASSUME NEW db, NEW p, p = NewTxProcessor("Synchronizer", db)
  PROVE  Tells(p, db.account, 0)
<1>1. /\ p.kind = "Synchronizer" /\ p.db = db /\ p.updatedAccounts = <<>>
      /\ p.createdAccounts = <<>> /\ p.exits = <<>> /\ p.exitTree = <<>> /\ p.txIndex = 0
  BY DEF NewTxProcessor
<1>2. DOMAIN <<>> = {} /\ <<>> \in Seq(Nat) /\ ToSet(<<>>) = {}
  BY DEF ToSet
<1>3. ExitsTell(p, 0)
  BY <1>1, <1>2 DEF ExitsTell
<1>4. Told(p, db.account)
  BY <1>1, <1>2 DEF Told
<1>5. p.createdAccounts \in Seq(Nat) /\ ToSet(p.createdAccounts) = {}
  BY <1>1, <1>2
<1>6. p.txIndex \in 0 .. 0 /\ ExitsTell(p, p.txIndex)
  BY <1>1, <1>3
<1>7. DOMAIN p.db.account \ DOMAIN db.account = {} /\ DOMAIN db.account \subseteq DOMAIN p.db.account
  BY <1>1
<1> QED
  BY <1>4, <1>5, <1>6, <1>7 DEF Tells

LEMMA L1Tells ==
  ASSUME NEW p, Ready(p), NEW accounts, NEW n, n \in Nat, Tells(p, accounts, n),
         NEW tx, ValidL1(p, tx), tx.userOrigin \/ tx.type = "CreateAccountDeposit",
         NEW m, m = n + 1, NEW r, r = ProcessL1InBatch(p, tx)
  PROVE  Tells(r, accounts, m)
<1> DEFINE done == ProcessL1Tx(p, tx)
           last == done.db.currentIdx
           index == IF tx.userOrigin THEN p.txIndex + 1 ELSE p.txIndex
           created == IF tx.type \in CreateTypes THEN Append(p.createdAccounts, last)
                      ELSE p.createdAccounts
<1>1. /\ Fields(p) /\ p.failed = FALSE /\ p.kind = "Synchronizer" /\ HasExitTree(p)
      /\ tx.type \in L1Types
  BY DEF Ready, Sound, Tells, Told, HasExitTree, ValidL1
<1>2. Ready(done) /\ done.failed = FALSE /\ Fields(done)
  <2>1. Gained(p, done, tx.token, Effective(p.db, tx).deposit)
    BY <1>1, ProcessL1Gains
  <2> QED
    BY <2>1 DEF Gained, Ready, Sound
<1>3. L1Did(p, done, tx)
  BY <1>1, <1>2, ProcessL1Does
<1> HIDE DEF done
<1>4. /\ done.kind = p.kind /\ done.txIndex = p.txIndex
      /\ done.createdAccounts = p.createdAccounts
  BY <1>3 DEF L1Did, Did
<1>5. /\ r.kind = done.kind /\ r.db = done.db /\ r.exits = done.exits
      /\ r.exitTree = done.exitTree /\ r.updatedAccounts = done.updatedAccounts
      /\ r.txIndex = index /\ r.createdAccounts = created
  <2>1. r = [done EXCEPT
                !.txIndex = IF tx.userOrigin \/ p.kind = "BatchBuilder" THEN @ + 1 ELSE @,
                !.createdAccounts = IF p.kind = "Synchronizer" /\ tx.type \in CreateTypes
                                    THEN Append(@, last) ELSE @]
    BY <1>1, <1>2 DEF ProcessL1InBatch, done
  <2> HIDE DEF last
  <2> QED
    BY <2>1, <1>1, <1>2, <1>4 DEF Fields
<1>6. Told(r, accounts)
  <2>1. Told(done, accounts)
    BY <1>3 DEF L1Did, Did, Tells
  <2> QED
    BY <2>1, <1>5 DEF Told
<1>7. /\ DOMAIN p.db.account = UserThreshold .. p.db.currentIdx
      /\ DOMAIN r.db.account = UserThreshold .. last
      /\ last = IF tx.type \in CreateTypes THEN p.db.currentIdx + 1 ELSE p.db.currentIdx
      /\ last \in Nat /\ p.db.currentIdx \in Nat /\ p.db.currentIdx >= UserThreshold - 1
  BY <1>2, <1>3, <1>5 DEF Ready, Sound, L1Did, UserThreshold
<1> HIDE DEF last
<1>8. DOMAIN r.db.account = DOMAIN p.db.account
                            \cup (IF tx.type \in CreateTypes THEN {last} ELSE {})
  BY <1>7 DEF UserThreshold
<1>9. tx.type \in CreateTypes => last \notin DOMAIN accounts
  BY <1>7 DEF Tells
<1>10. /\ created \in Seq(Nat)
       /\ ToSet(created) = ToSet(p.createdAccounts)
                           \cup (IF tx.type \in CreateTypes THEN {last} ELSE {})
  BY <1>7, OneMoreCreated DEF Tells
<1>11. ToSet(created) = DOMAIN r.db.account \ DOMAIN accounts
  <2> HIDE DEF created
  <2> QED
    BY <1>8, <1>9, <1>10 DEF Tells
<1>12. p.txIndex \in 0 .. n /\ ExitsTell(p, p.txIndex)
  BY DEF Tells
<1>13. index \in 0 .. m /\ ExitsTell(r, index)
  <2>1. CASE tx.userOrigin
    <3>1. index = p.txIndex + 1 /\ p.txIndex \in Nat /\ index \in 0 .. m
      BY <2>1, <1>12
    <3> HIDE DEF index
    <3>2. ExitsTell(done, index)
      BY <3>1, <1>3, <1>12 DEF L1Did, Did
    <3> QED
      BY <3>1, <3>2, <1>5, SameExitsTell
  <2>2. CASE ~tx.userOrigin
    <3>1. index = p.txIndex /\ index \in 0 .. m
      BY <2>2, <1>12
    <3> HIDE DEF index
    <3>2. r.exits = p.exits /\ r.exitTree = p.exitTree
      BY <2>2, <1>3, <1>5 DEF L1Did
    <3> QED
      BY <3>1, <3>2, <1>12, SameExitsTell
  <2> QED
    BY <2>1, <2>2
<1>14. DOMAIN accounts \subseteq DOMAIN r.db.account
  BY <1>8 DEF Tells
<1> HIDE DEF created, index
<1> QED
  BY <1>5, <1>6, <1>10, <1>11, <1>13, <1>14 DEF Tells

LEMMA StartedTells ==
  ASSUME NEW p, NEW accounts, NEW n, Tells(p, accounts, n),
         NEW r, NEW idxs, Started(p, r, idxs)
  PROVE  Tells(r, accounts, n)
<1>1. Told(r, accounts)
  BY DEF Started, Tells, Told
<1>2. ExitsTell(r, p.txIndex)
  BY SameExitsTell DEF Started, Tells
<1> QED
  BY <1>1, <1>2 DEF Started, Tells

LEMMA L2Tells ==
  ASSUME NEW p, Ready(p), NEW accounts, NEW n, n \in Nat, Tells(p, accounts, n),
         NEW idxs, NEW tx, NEW receiver, NEW done, done = Pay(p, idxs, tx, receiver),
         done = ProcessL2Tx(p, idxs, tx), Ready(done),
         NEW m, m = n + 1, NEW r, r = ProcessL2InBatch(p, idxs, tx)
  PROVE  Tells(r, accounts, m)
<1> DEFINE index == p.txIndex + 1
<1>1. /\ Fields(p) /\ p.failed = FALSE /\ p.kind = "Synchronizer" /\ HasExitTree(p)
      /\ Fields(done) /\ done.failed = FALSE
  BY DEF Ready, Sound, Tells, Told, HasExitTree
<1>2. Did(p, done) /\ done.db.currentIdx = p.db.currentIdx
  <2>1. done = Pay(p, idxs, tx, receiver)
    OBVIOUS
  <2> QED
    BY ONLY <1>1, <2>1, PayDoes
<1>3. /\ r.kind = done.kind /\ r.db = done.db /\ r.exits = done.exits
      /\ r.exitTree = done.exitTree /\ r.updatedAccounts = done.updatedAccounts
      /\ r.createdAccounts = done.createdAccounts /\ r.txIndex = index
  <2>1. r = [done EXCEPT !.txIndex = IF HasExitTree(p) THEN @ + 1 ELSE @]
    BY <1>1 DEF ProcessL2InBatch
  <2>2. done.txIndex = p.txIndex
    BY <1>2 DEF Did
  <2> QED
    BY <2>1, <2>2, <1>1 DEF Fields
<1>4. Told(r, accounts)
  <2>1. Told(done, accounts)
    BY <1>2 DEF Did, Tells
  <2> QED
    BY <2>1, <1>3 DEF Told
<1>5. DOMAIN r.db.account = DOMAIN p.db.account
  BY <1>2, <1>3 DEF Ready, Sound
<1>6. p.txIndex \in 0 .. n /\ ExitsTell(p, p.txIndex)
  BY DEF Tells
<1>7. index = p.txIndex + 1 /\ p.txIndex \in Nat /\ index \in 0 .. m
  BY <1>6
<1> HIDE DEF index
<1>8. ExitsTell(r, index)
  <2>1. ExitsTell(done, index)
    BY <1>2, <1>6, <1>7 DEF Did
  <2> QED
    BY <2>1, <1>3, SameExitsTell
<1>9. r.createdAccounts = p.createdAccounts
  BY <1>2, <1>3 DEF Did
<1> QED
  BY <1>3, <1>4, <1>5, <1>7, <1>8, <1>9 DEF Tells

LEMMA DistributeFeesWrites ==
  ASSUME NEW p, Fields(p), NEW idxs, NEW n, n \in Nat, DOMAIN idxs = 1 .. n,
         NEW r, r = DistributeFees(p, idxs)
  PROVE  Wrote(p, r)
<1>1. PICK v : /\ v[0] = p /\ v[n] = r
               /\ \A k \in 1 .. n : v[k] = PayFee(v[k - 1], idxs[k])
  BY DistributeSteps
<1> DEFINE Q == {k \in Nat : k <= n => Wrote(p, v[k])}
<1>2. 0 \in Q
  BY <1>1, WroteNothing
<1>3. ASSUME NEW k \in Nat, k \in Q PROVE k + 1 \in Q
  <2> SUFFICES ASSUME k + 1 <= n PROVE Wrote(p, v[k + 1])
    OBVIOUS
  <2> DEFINE l == k + 1
  <2>1. l \in 1 .. n /\ l - 1 = k /\ k <= n
    OBVIOUS
  <2>2. Wrote(p, v[k]) /\ Fields(v[k])
    BY <1>3, <2>1 DEF Wrote
  <2> HIDE DEF l, Q
  <2>3. v[l] = PayFee(v[k], idxs[l])
    BY <1>1, <2>1
  <2>4. Wrote(v[k], v[l])
    BY <2>2, <2>3, CreditWrites DEF PayFee
  <2>5. Wrote(p, v[l])
    BY <2>2, <2>4, WroteTwice
  <2> QED
    BY <2>5 DEF l
<1>4. n \in Q
  <2> HIDE DEF Q
  <2> QED
    BY <1>2, <1>3, EveryNatural
<1> QED
  BY <1>1, <1>4

LEMMA DistributedTells ==
  ASSUME NEW p, Ready(p), NEW accounts, NEW n, Tells(p, accounts, n),
         NEW r, Ready(r), Wrote(p, r)
  PROVE  Tells(r, accounts, n)
<1>1. /\ Told(r, accounts) /\ r.createdAccounts = p.createdAccounts /\ r.txIndex = p.txIndex
      /\ r.exits = p.exits /\ r.exitTree = p.exitTree
  BY DEF Wrote, Tells
<1>2. DOMAIN r.db.account = DOMAIN p.db.account
  BY DEF Wrote, Ready, Sound
<1>3. ExitsTell(r, p.txIndex)
  BY <1>1, SameExitsTell DEF Tells
<1> QED
  BY <1>1, <1>2, <1>3 DEF Tells

TellInv ==
  /\ nL1 \in Nat /\ nL2 \in Nat /\ nL1 + nL2 <= MaxTx
  /\ Tells(sync, before, nL1 + nL2)

LEMMA InitTells ==
  ASSUME Init
  PROVE  TellInv
<1>1. /\ sync = NewTxProcessor("Synchronizer", FirstDB) /\ before = FirstDB.account
      /\ nL1 = 0 /\ nL2 = 0
  BY DEF Init
<1>2. Tells(sync, before, 0)
  BY <1>1, NewTells
<1> QED
  BY <1>1, <1>2, LimitsAssumption DEF TellInv

LEMMA BeginBatchTells ==
  ASSUME BeginBatch
  PROVE  TellInv'
<1>1. /\ sync' = NewTxProcessor("Synchronizer", sync.db) /\ before' = sync.db.account
      /\ nL1' = 0 /\ nL2' = 0
  BY DEF BeginBatch
<1>2. Tells(sync', before', 0)
  BY <1>1, NewTells
<1>3. nL1' + nL2' = 0 /\ nL1' \in Nat /\ nL2' \in Nat /\ 0 <= MaxTx
  BY <1>1, LimitsAssumption
<1> QED
  BY <1>2, <1>3 DEF TellInv

LEMMA ProcessL1Tells ==
  ASSUME IInv, TellInv, NEW tx, ValidL1(sync, tx),
         tx.userOrigin \/ tx.type = "CreateAccountDeposit", ProcessL1(tx, tx)
  PROVE  TellInv'
<1> DEFINE n == nL1 + nL2
           m == n + 1
           accounts == before
<1>1. /\ sync' = ProcessL1InBatch(sync, tx) /\ before' = before
      /\ nL1' = nL1 + 1 /\ nL2' = nL2 /\ nL1 + nL2 + 1 + 0 <= MaxTx
  BY DEF ProcessL1, Room
<1>2. nL1 \in Nat /\ nL2 \in Nat /\ n \in Nat /\ m = n + 1 /\ Tells(sync, accounts, n)
  BY DEF TellInv
<1>3. /\ nL1' \in Nat /\ nL2' \in Nat /\ nL1' + nL2' <= MaxTx /\ nL1' + nL2' = m
  BY <1>1, <1>2
<1>4. Ready(sync)
  BY DEF IInv
<1> HIDE DEF n, m, accounts
<1>5. Tells(sync', accounts, m)
  BY <1>1, <1>2, <1>4, L1Tells
<1> QED
  BY <1>1, <1>3, <1>5 DEF TellInv, accounts

LEMMA ProcessL1UserTells ==
  ASSUME IInv, TellInv, ProcessL1User
  PROVE  TellInv'
<1>1. PICK tx \in L1UserTxs : ProcessL1(tx, tx)
  BY DEF ProcessL1User
<1>2. ValidL1(sync, tx) /\ tx.userOrigin
  BY <1>1, L1UserTxsAreValid DEF ProcessL1, IInv
<1> QED
  BY <1>1, <1>2, ProcessL1Tells

LEMMA ProcessL1CoordinatorTells ==
  ASSUME IInv, TellInv, ProcessL1Coordinator
  PROVE  TellInv'
<1>1. PICK t \in Tokens, e \in EthAddrs \cup {FFAddr}, b \in BJJs :
         LET tx == L1CoordinatorTx(t, e, b)
             auth == IF e = FFAddr THEN EmptyEthSignature ELSE Authorize(e, b)
         IN  ProcessL1(tx, L1CoordinatorTxFromBytes(BytesCoordinatorTx(tx, auth)))
  BY DEF ProcessL1Coordinator
<1> DEFINE tx == L1CoordinatorTx(t, e, b)
           auth == IF e = FFAddr THEN EmptyEthSignature ELSE Authorize(e, b)
           forged == L1CoordinatorTxFromBytes(BytesCoordinatorTx(tx, auth))
<1>2. ProcessL1(tx, forged)
  BY <1>1
<1>3. Ready(sync)
  BY DEF IInv
<1>4. RoomFor(tx)
  <2> HIDE DEF tx, forged
  <2> QED
    BY <1>2 DEF ProcessL1
<1>5. forged = tx /\ ValidL1(sync, tx) /\ tx.type = "CreateAccountDeposit"
  <2>1. tx = L1CoordinatorTx(t, e, b)
    OBVIOUS
  <2>2. auth = IF e = FFAddr THEN EmptyEthSignature ELSE Authorize(e, b)
    OBVIOUS
  <2>3. forged = L1CoordinatorTxFromBytes(BytesCoordinatorTx(tx, auth))
    OBVIOUS
  <2> HIDE DEF tx, auth, forged
  <2> QED
    BY <2>1, <2>2, <2>3, <1>3, <1>4, L1CoordinatorTxIs
<1> HIDE DEF tx, forged
<1>6. ProcessL1(tx, tx)
  BY <1>2, <1>5
<1> QED
  BY <1>5, <1>6, ProcessL1Tells

LEMMA ChooseCoordIdxsTells ==
  ASSUME IInv, TellInv, ChooseCoordIdxs
  PROVE  TellInv'
<1>1. PICK idxs \in UNION {[1 .. n -> Accounts] : n \in 0 .. MaxFeeTx} :
         sync' = StartFees(sync, idxs)
  BY DEF ChooseCoordIdxs
<1>2. UNCHANGED <<nL1, nL2, before>>
  BY DEF ChooseCoordIdxs
<1>3. PICK n \in 0 .. MaxFeeTx : idxs \in [1 .. n -> Accounts]
  BY <1>1
<1>4. \A i \in ToSet(idxs) : i \in DOMAIN sync.db.account
  BY <1>3 DEF ToSet, Accounts
<1>5. Fields(sync) /\ sync.failed = FALSE
  BY DEF IInv, Ready, Sound
<1>6. Started(sync, sync', FilterCoordIdxs(sync.db, idxs))
  BY <1>1, <1>4, <1>5, StartFeesStarts
<1>7. Tells(sync', before, nL1 + nL2)
  BY <1>6, StartedTells DEF TellInv
<1> QED
  BY <1>2, <1>7 DEF TellInv

LEMMA ProcessL2Tells ==
  ASSUME IInv, TellInv, ProcessL2
  PROVE  TellInv'
<1> DEFINE idxs == IdxOfToken
           n == nL1 + nL2
           m == n + 1
           accounts == before
<1>1. PICK tx \in L2Txs :
         /\ Provable(tx)
         /\ builder' = ProcessL2InBatch(builder, idxs, tx)
         /\ sync' = ProcessL2InBatch(sync, idxs, Forged(tx))
  BY DEF ProcessL2
<1>2. /\ pc = "L2" /\ before' = before /\ nL1' = nL1 /\ nL2' = nL2 + 1
      /\ nL1 + nL2 + 0 + 1 <= MaxTx
  BY DEF ProcessL2, Room
<1>3. /\ nL1 \in Nat /\ nL2 \in Nat /\ n \in Nat /\ m = n + 1
      /\ Tells(sync, accounts, n)
  BY DEF TellInv
<1>4. /\ nL1' \in Nat /\ nL2' \in Nat /\ nL1' + nL2' <= MaxTx /\ nL1' + nL2' = m
  BY <1>2, <1>3
<1>5. Ready(sync) /\ Twins(sync, builder) /\ Collecting(sync, coordIdxs)
  BY <1>2 DEF IInv, FeesInv
<1>6. FeeIdxs(sync, idxs) /\ \A t \in DOMAIN idxs : idxs[t] \in DOMAIN sync.accumulatedFees
  <2>1. coordIdxs \in Seq(DOMAIN sync.db.account)
    BY <1>5 DEF Collecting, Distinct
  <2>2. idxs = GetTokenIDsFromIdxs(sync.db, coordIdxs)
    BY DEF IdxOfToken
  <2> HIDE DEF idxs
  <2>3. FeeIdxs(sync, idxs) /\ \A t \in DOMAIN idxs : idxs[t] \in ToSet(coordIdxs)
    BY <2>1, <2>2, IdxsOfTokens
  <2> QED
    BY <2>3, <1>5 DEF Collecting
<1>7. PICK receiver, paid :
         /\ paid = Pay(sync, idxs, Forged(tx), receiver)
         /\ paid = ProcessL2Tx(sync, idxs, Forged(tx)) /\ Ready(paid)
  <2>1. TxOK(tx)
    BY L2TxsAreOK
  <2> QED
    BY <2>1, <1>1, <1>5, <1>6, L2Step
<1> DEFINE forged == Forged(tx)
<1> HIDE DEF idxs, n, m, accounts, forged
<1>8. Tells(sync', accounts, m)
  <2>1. /\ paid = Pay(sync, idxs, forged, receiver)
        /\ paid = ProcessL2Tx(sync, idxs, forged)
        /\ sync' = ProcessL2InBatch(sync, idxs, forged)
    BY <1>1, <1>7 DEF forged
  <2> QED
    BY ONLY <1>3, <1>5, <1>7, <2>1, L2Tells
<1> QED
  BY <1>2, <1>4, <1>8 DEF TellInv, accounts

LEMMA EndBatchTells ==
  ASSUME IInv, TellInv, EndBatch
  PROVE  TellInv'
<1>1. /\ pc = "L2" /\ sync' = DistributeFees(sync, coordIdxs)
      /\ UNCHANGED <<nL1, nL2, before>>
  BY DEF EndBatch
<1>2. Ready(sync) /\ Fields(sync) /\ Collecting(sync, coordIdxs)
  BY <1>1 DEF IInv, FeesInv, Ready, Sound
<1>3. Ready(sync')
  BY <1>1, <1>2, DistributeFeesPays
<1>4. Wrote(sync, sync')
  <2>1. Len(coordIdxs) \in Nat /\ DOMAIN coordIdxs = 1 .. Len(coordIdxs)
    BY <1>2 DEF Collecting, Distinct
  <2> QED
    BY <2>1, <1>1, <1>2, DistributeFeesWrites
<1>5. Tells(sync', before, nL1 + nL2)
  BY <1>2, <1>3, <1>4, DistributedTells DEF TellInv
<1> QED
  BY <1>1, <1>5 DEF TellInv

\* What the Synchronizer notes is right after each transaction.
LEMMA Telling == Spec => []TellInv
<1>1. Init => TellInv
  BY InitTells
<1>2. IInv /\ TellInv /\ [Next]_vars => TellInv'
  <2> SUFFICES ASSUME IInv, TellInv, [Next]_vars PROVE TellInv'
    OBVIOUS
  <2>1. CASE BeginBatch
    BY <2>1, BeginBatchTells
  <2>2. CASE ProcessL1User
    BY <2>2, ProcessL1UserTells
  <2>3. CASE ProcessL1Coordinator
    BY <2>3, ProcessL1CoordinatorTells
  <2>4. CASE ChooseCoordIdxs
    BY <2>4, ChooseCoordIdxsTells
  <2>5. CASE ProcessL2
    BY <2>5, ProcessL2Tells
  <2>6. CASE EndBatch
    BY <2>6, EndBatchTells
  <2>7. CASE UNCHANGED vars
    BY <2>7 DEF TellInv, Tells, vars
  <2> QED
    BY <2>1, <2>2, <2>3, <2>4, <2>5, <2>6, <2>7 DEF Next
<1> QED
  BY <1>1, <1>2, Invariance, PTL DEF Spec

-----------------------------------------------------------------------------
(* The exits, as ProcessTxs goes over them. *)

NoInfos == [idxs |-> <<>>, byIdx |-> <<>>]
Numbers == [n \in 1 .. MaxTx |-> n - 1]
Note(p, infos, k) == IF k \in DOMAIN p.exits THEN AddExitInfo(infos, p.exits[k]) ELSE infos

\* exitIdxs and exitInfosByIdx at the end.
InfosOf(p) ==
  FoldLeft(LAMBDA soFar, k : IF k \in DOMAIN p.exits
                             THEN AddExitInfo(soFar, p.exits[k]) ELSE soFar,
           [idxs |-> <<>>, byIdx |-> <<>>], [n \in 1 .. MaxTx |-> n - 1])

LEMMA ExitInfosAre ==
  ASSUME NEW p, NEW infos, infos = InfosOf(p)
  PROVE  ExitInfos(p) = [n \in DOMAIN infos.idxs |-> infos.byIdx[infos.idxs[n]]]
BY DEF ExitInfos, InfosOf

LEMMA InfosSteps ==
  ASSUME NEW p
  PROVE  \E v : /\ v[0] = NoInfos /\ v[MaxTx] = InfosOf(p)
                /\ \A k \in 1 .. MaxTx : v[k] = Note(p, v[k - 1], k - 1)
<1> DEFINE n == MaxTx
           Op(r, k) == Note(p, r, Numbers[k])
           E(G, S) == G = [s \in SUBSET S |-> IF s = {} THEN NoInfos
                                              ELSE Op(G[s \ {Max(s)}], Max(s))]
           Q == {m \in Nat : \E G : E(G, 1 .. m)}
           G == CHOOSE f : E(f, DOMAIN Numbers)
<1>0. n \in Nat /\ DOMAIN Numbers = 1 .. n
  BY LimitsAssumption DEF Numbers
<1>1. InfosOf(p) = G[DOMAIN Numbers]
  BY DEF InfosOf, FoldLeft, MapThenFoldSet, Note, NoInfos, Numbers
<1> HIDE DEF Op, n
<1>2. 0 \in Q
  <2> DEFINE H == [s \in SUBSET (1 .. 0) |-> NoInfos]
  <2>1. \A s \in SUBSET (1 .. 0) : s = {}
    OBVIOUS
  <2>2. E(H, 1 .. 0)
    BY <2>1
  <2> HIDE DEF E, H
  <2> QED
    BY <2>2
<1>3. ASSUME NEW m \in Nat, m \in Q PROVE m + 1 \in Q
  <2>1. PICK F : E(F, 1 .. m)
    BY <1>3
  <2> DEFINE l == m + 1
             H == [s \in SUBSET (1 .. l) |->
                     IF s = {} THEN NoInfos ELSE IF l \in s THEN Op(F[s \ {l}], l) ELSE F[s]]
  <2>2. ASSUME NEW s \in SUBSET (1 .. l), s # {}
        PROVE  /\ Max(s) \in s /\ s \ {Max(s)} \in SUBSET (1 .. m)
               /\ l \in s => Max(s) = l
               /\ l \notin s => s \in SUBSET (1 .. m)
    <3>1. l = m + 1 /\ m \in Nat
      OBVIOUS
    <3> HIDE DEF l, H, Q, E
    <3>2. IsPart(m, l, s)
      BY <2>2, <3>1 DEF IsPart
    <3> QED
      BY <3>2, MaxOfPart
  <2> HIDE DEF l
  <2>3. {} \in SUBSET (1 .. m) /\ F[{}] = NoInfos
    BY <2>1
  <2>4. ASSUME NEW s \in SUBSET (1 .. m) PROVE s \in SUBSET (1 .. l) /\ H[s] = F[s]
    <3>1. l \notin s /\ s \in SUBSET (1 .. l)
      BY DEF l
    <3> QED
      BY <3>1, <2>3
  <2>5. ASSUME NEW s \in SUBSET (1 .. l)
        PROVE  H[s] = IF s = {} THEN NoInfos ELSE Op(H[s \ {Max(s)}], Max(s))
    <3>1. CASE s = {}
      BY <3>1
    <3>2. CASE s # {} /\ l \in s
      <4>1. Max(s) = l /\ s \ {l} \in SUBSET (1 .. m)
        BY <3>2, <2>2
      <4>2. H[s \ {l}] = F[s \ {l}]
        BY <4>1, <2>4
      <4>3. H[s] = Op(F[s \ {l}], l)
        BY <3>2
      <4> HIDE DEF H
      <4> QED
        BY <3>2, <4>1, <4>2, <4>3
    <3>3. CASE s # {} /\ l \notin s
      <4>1. s \in SUBSET (1 .. m) /\ s \ {Max(s)} \in SUBSET (1 .. m)
        BY <3>3, <2>2
      <4>2. H[s] = F[s] /\ H[s \ {Max(s)}] = F[s \ {Max(s)}]
        BY <4>1, <2>4
      <4>3. F[s] = Op(F[s \ {Max(s)}], Max(s))
        BY <2>1, <3>3, <4>1
      <4> HIDE DEF H
      <4> QED
        BY <3>3, <4>2, <4>3
    <3> QED
      BY <3>1, <3>2, <3>3
  <2>6. H = [s \in SUBSET (1 .. l) |-> H[s]]
    OBVIOUS
  <2>7. E(H, 1 .. l)
    <3> HIDE DEF H
    <3> QED
      BY <2>5, <2>6
  <2> HIDE DEF E, H
  <2> QED
    BY <2>7 DEF l
<1>4. n \in Q
  <2> HIDE DEF Q
  <2> QED
    BY <1>0, <1>2, <1>3, EveryNatural
<1>5. E(G, 1 .. n)
  <2> HIDE DEF E
  <2> QED
    BY <1>0, <1>4
<1> HIDE DEF G
<1> DEFINE v == [k \in 0 .. n |-> G[1 .. k]]
<1>6. v[0] = NoInfos /\ v[n] = InfosOf(p)
  <2>1. 1 .. 0 = {} /\ {} \in SUBSET (1 .. n)
    OBVIOUS
  <2>2. G[{}] = NoInfos
    BY <1>5, <2>1
  <2> HIDE DEF E
  <2> QED
    BY <1>0, <1>1, <2>1, <2>2
<1>7. ASSUME NEW k \in 1 .. n PROVE v[k] = Op(v[k - 1], k)
  <2> DEFINE s == 1 .. k
  <2>1. /\ s # {} /\ s \in SUBSET (1 .. n) /\ Max(s) = k
        /\ s \ {k} = 1 .. k - 1 /\ k - 1 \in 0 .. n /\ k \in 0 .. n
    BY <1>0, MaxOfPrefix
  <2> HIDE DEF s
  <2>4. G[s] = Op(G[s \ {k}], k)
    BY <1>5, <2>1
  <2>5. v[k] = G[s] /\ v[k - 1] = G[1 .. k - 1]
    BY <2>1 DEF s
  <2> HIDE DEF v, E
  <2> QED
    BY <2>1, <2>4, <2>5
<1> HIDE DEF v
<1>8. \A k \in 1 .. n : Numbers[k] = k - 1
  BY DEF Numbers, n
<1> QED
  BY <1>6, <1>7, <1>8 DEF Op, n

\* s has every element of S once.
Lists(s, S) ==
  /\ s \in Seq(S) /\ ToSet(s) = S
  /\ \A j, k \in DOMAIN s : s[j] = s[k] => j = k

\* The accounts that have left in the first n transactions, each with its last exit.
Seen(p, n, infos) ==
  /\ Lists(infos.idxs, DOMAIN infos.byIdx)
  /\ \A j \in DOMAIN p.exits : j < n => p.exits[j].idx \in DOMAIN infos.byIdx
  /\ \A i \in DOMAIN infos.byIdx :
        \E j : LastOf(p, n, j) /\ p.exits[j].idx = i /\ infos.byIdx[i] = p.exits[j]

\* An account is listed once, when its first exit is noted.
LEMMA ListedOnce ==
  ASSUME NEW s, NEW S, Lists(s, S), NEW x, NEW r, r = IF x \in S THEN s ELSE Append(s, x),
         NEW T, T = S \cup {x}
  PROVE  Lists(r, T)
<1>0. /\ s \in Seq(S) /\ ToSet(s) = S
      /\ \A j, k \in DOMAIN s : s[j] = s[k] => j = k
  BY DEF Lists
<1>1. CASE x \in S
  <2>1. T = S /\ r = s
    BY <1>1
  <2> QED
    BY <2>1
<1>2. CASE x \notin S
  <2>1. /\ DOMAIN s = 1 .. Len(s) /\ DOMAIN r = 1 .. Len(s) + 1 /\ Len(s) \in Nat
        /\ r[Len(s) + 1] = x /\ \A k \in DOMAIN s : r[k] = s[k] /\ s[k] \in S
    BY <1>0, <1>2
  <2>2. DOMAIN r = DOMAIN s \cup {Len(s) + 1}
    BY <2>1
  <2>3. s \in Seq(S \cup {x}) /\ r = Append(s, x)
    BY <1>0, <1>2
  <2>4. r \in Seq(S \cup {x})
    BY <2>3
  <2>5. ToSet(r) = S \cup {x}
    BY <1>0, <2>1, <2>2 DEF ToSet
  <2>6. \A j, k \in DOMAIN r : r[j] = r[k] => j = k
    BY <1>0, <1>2, <2>1, <2>2
  <2> QED
    BY <2>4, <2>5, <2>6 DEF Lists
<1> QED
  BY <1>1, <1>2

LEMMA NoteSees ==
  ASSUME NEW p, DOMAIN p.exits \subseteq Nat, NEW n, n \in Nat, NEW m, m = n + 1,
         NEW infos, Seen(p, n, infos), NEW r, r = Note(p, infos, n)
  PROVE  Seen(p, m, r)
<1>1. \A k \in DOMAIN p.exits : /\ k < m <=> (k < n \/ k = n)
                                /\ k < m <=> k <= n
  OBVIOUS
<1>2. CASE n \notin DOMAIN p.exits
  <2>1. r = infos
    BY <1>2 DEF Note
  <2>2. \A k \in DOMAIN p.exits : k < m <=> k < n
    BY <1>1, <1>2
  <2>3. \A j : LastOf(p, n, j) => LastOf(p, m, j)
    BY <2>2 DEF LastOf
  <2> QED
    BY <2>1, <2>2, <2>3 DEF Seen
<1>3. CASE n \in DOMAIN p.exits
  <2> DEFINE exit == p.exits[n]
             i == exit.idx
  <2>1. /\ r.idxs = IF i \in DOMAIN infos.byIdx THEN infos.idxs ELSE Append(infos.idxs, i)
        /\ r.byIdx = Put(infos.byIdx, i, exit)
    BY <1>3 DEF Note, AddExitInfo
  <2>2. /\ DOMAIN r.byIdx = DOMAIN infos.byIdx \cup {i} /\ r.byIdx[i] = exit
        /\ \A x \in DOMAIN infos.byIdx : x # i => r.byIdx[x] = infos.byIdx[x]
    BY <2>1 DEF Put
  <2>3. Lists(r.idxs, DOMAIN r.byIdx)
    <3> DEFINE s == infos.idxs
               S == DOMAIN infos.byIdx
               t == r.idxs
               T == DOMAIN r.byIdx
    <3>1. Lists(s, S) /\ t = (IF i \in S THEN s ELSE Append(s, i)) /\ T = S \cup {i}
      BY <2>1, <2>2 DEF Seen
    <3> HIDE DEF s, S, t, T, i
    <3>2. Lists(t, T)
      BY ONLY <3>1, ListedOnce
    <3> QED
      BY <3>2 DEF t, T
  <2>4. \A j \in DOMAIN p.exits : j < m => p.exits[j].idx \in DOMAIN r.byIdx
    BY <1>1, <2>2 DEF Seen
  <2>5. LastOf(p, m, n) /\ p.exits[n].idx = i /\ r.byIdx[i] = p.exits[n]
    BY <1>1, <1>3, <2>2 DEF LastOf
  <2>6. ASSUME NEW x \in DOMAIN r.byIdx, x # i
        PROVE  \E j : LastOf(p, m, j) /\ p.exits[j].idx = x /\ r.byIdx[x] = p.exits[j]
    <3>1. x \in DOMAIN infos.byIdx /\ r.byIdx[x] = infos.byIdx[x]
      BY <2>2, <2>6
    <3>2. PICK j : LastOf(p, n, j) /\ p.exits[j].idx = x /\ infos.byIdx[x] = p.exits[j]
      BY <3>1 DEF Seen
    <3>3. \A k \in DOMAIN p.exits : k < m /\ p.exits[k].idx = x => k < n
      BY <1>1, <2>6
    <3>4. LastOf(p, m, j)
      BY <1>1, <3>2, <3>3 DEF LastOf
    <3> QED
      BY <3>1, <3>2, <3>4
  <2> HIDE DEF i, exit
  <2> QED
    BY <2>3, <2>4, <2>5, <2>6 DEF Seen
<1> QED
  BY <1>2, <1>3

LEMMA InfosAreSeen ==
  ASSUME NEW p, DOMAIN p.exits \subseteq Nat
  PROVE  Seen(p, MaxTx, InfosOf(p))
<1>1. PICK v : /\ v[0] = NoInfos /\ v[MaxTx] = InfosOf(p)
               /\ \A k \in 1 .. MaxTx : v[k] = Note(p, v[k - 1], k - 1)
  BY InfosSteps
<1> DEFINE Q == {k \in Nat : k <= MaxTx => Seen(p, k, v[k])}
<1>0. MaxTx \in Nat
  BY LimitsAssumption
<1>2. 0 \in Q
  <2> DEFINE none == v[0]
  <2>1. none.idxs = <<>> /\ none.byIdx = <<>>
    BY <1>1 DEF NoInfos
  <2>2. DOMAIN <<>> = {} /\ <<>> \in Seq({}) /\ ToSet(<<>>) = {}
    BY DEF ToSet
  <2>3. \A j \in DOMAIN p.exits : ~(j < 0)
    OBVIOUS
  <2> HIDE DEF none
  <2>4. Lists(none.idxs, DOMAIN none.byIdx)
    BY <2>1, <2>2 DEF Lists
  <2>5. DOMAIN none.byIdx = {}
    BY <2>1, <2>2
  <2>6. Seen(p, 0, none)
    BY <2>3, <2>4, <2>5 DEF Seen
  <2> QED
    BY <2>6 DEF none
<1>3. ASSUME NEW k \in Nat, k \in Q PROVE k + 1 \in Q
  <2> SUFFICES ASSUME k + 1 <= MaxTx PROVE Seen(p, k + 1, v[k + 1])
    OBVIOUS
  <2> DEFINE l == k + 1
  <2>1. l \in 1 .. MaxTx /\ l - 1 = k /\ k <= MaxTx /\ l = k + 1
    BY <1>0
  <2>2. Seen(p, k, v[k])
    BY <1>3, <2>1
  <2> HIDE DEF l, Q
  <2>3. v[l] = Note(p, v[k], k)
    BY <1>1, <2>1
  <2>4. Seen(p, l, v[l])
    BY <2>1, <2>2, <2>3, NoteSees
  <2> QED
    BY <2>4 DEF l
<1>4. MaxTx \in Q
  <2> HIDE DEF Q
  <2> QED
    BY <1>0, <1>2, <1>3, EveryNatural
<1> QED
  BY <1>0, <1>1, <1>4

LEMMA SeenTells ==
  ASSUME NEW p, NEW t, NEW n, t \in 0 .. n, n \in Nat, ExitsTell(p, t),
         NEW infos, Seen(p, n, infos), NEW byIdx, byIdx = infos.byIdx
  PROVE  /\ DOMAIN byIdx = DOMAIN p.exitTree
         /\ \A i \in DOMAIN byIdx : byIdx[i].idx = i /\ byIdx[i].balance = p.exitTree[i]
<1>1. \A j \in DOMAIN p.exits : j \in Nat /\ j < t /\ j < n
  BY DEF ExitsTell
<1>2. \A i \in DOMAIN byIdx : i \in DOMAIN p.exitTree
  <2> TAKE i \in DOMAIN byIdx
  <2>1. PICK j : LastOf(p, n, j) /\ p.exits[j].idx = i
    BY DEF Seen
  <2>2. j \in DOMAIN p.exits
    BY <2>1 DEF LastOf
  <2> QED
    BY <2>1, <2>2 DEF ExitsTell
<1>3. \A i \in DOMAIN p.exitTree : i \in DOMAIN byIdx
  <2> TAKE i \in DOMAIN p.exitTree
  <2>1. PICK j : LastOf(p, t, j) /\ p.exits[j].idx = i
    BY DEF ExitsTell
  <2>2. j \in DOMAIN p.exits /\ j < n
    BY <1>1, <2>1 DEF LastOf
  <2> QED
    BY <2>1, <2>2 DEF Seen
<1>4. ASSUME NEW i \in DOMAIN byIdx
      PROVE  byIdx[i].idx = i /\ byIdx[i].balance = p.exitTree[i]
  <2>1. PICK j : LastOf(p, n, j) /\ p.exits[j].idx = i /\ byIdx[i] = p.exits[j]
    BY DEF Seen
  <2>2. PICK k : LastOf(p, t, k) /\ p.exits[k].idx = i /\ p.exits[k].balance = p.exitTree[i]
    BY <1>2 DEF ExitsTell
  <2>3. j \in DOMAIN p.exits /\ k \in DOMAIN p.exits
    BY <2>1, <2>2 DEF LastOf
  <2>4. k <= j /\ j <= k
    BY <1>1, <2>1, <2>2, <2>3 DEF LastOf
  <2>5. j = k
    BY <1>1, <2>3, <2>4
  <2> QED
    BY <2>1, <2>2, <2>5
<1> QED
  BY <1>2, <1>3, <1>4

\* What the history database is told of a batch is what the batch did: an account
\* that changed is among the updated ones with its final state, the created ones are
\* the new ones, and the exits are the leaves of the exit tree, each account once and
\* with all that it has taken out (the maps of the StateDB of the Synchronizer, and
\* exitIdxs and exitInfosByIdx of ProcessTxs).
THEOREM HistoryIsToldRight == Spec => []OutputTells
<1>1. IInv /\ TellInv => OutputTells
  <2> SUFFICES ASSUME IInv, TellInv PROVE OutputTells
    OBVIOUS
  <2> DEFINE n == nL1 + nL2
  <2>1. /\ n \in Nat /\ n <= MaxTx /\ Tells(sync, before, n)
    BY DEF TellInv
  <2> HIDE DEF n
  <2>2. UpdatedAccountsTell
    BY <2>1 DEF Tells, Told, UpdatedAccountsTell, Accounts
  <2>3. ExitInfosTell
    <3> DEFINE infos == InfosOf(sync)
               byIdx == infos.byIdx
               idxs == infos.idxs
               exits == ExitInfos(sync)
               t == sync.txIndex
    <3>1. t \in 0 .. MaxTx /\ MaxTx \in Nat /\ ExitsTell(sync, t)
      BY <2>1, LimitsAssumption DEF Tells
    <3>2. DOMAIN sync.exits \subseteq Nat
      BY <3>1 DEF ExitsTell
    <3>3. Seen(sync, MaxTx, infos)
      BY <3>2, InfosAreSeen
    <3>4. exits = [k \in DOMAIN idxs |-> byIdx[idxs[k]]]
      BY ExitInfosAre
    <3> HIDE DEF infos, exits, t
    <3>5. /\ DOMAIN byIdx = DOMAIN sync.exitTree
          /\ \A i \in DOMAIN byIdx : byIdx[i].idx = i /\ byIdx[i].balance = sync.exitTree[i]
      BY <3>1, <3>3, SeenTells
    <3>6. /\ ToSet(idxs) = DOMAIN byIdx
          /\ \A j, k \in DOMAIN idxs : idxs[j] = idxs[k] => j = k
      BY <3>3 DEF Seen, Lists
    <3> HIDE DEF byIdx, idxs
    <3>7. /\ DOMAIN exits = DOMAIN idxs
          /\ \A k \in DOMAIN idxs : idxs[k] \in DOMAIN byIdx /\ exits[k] = byIdx[idxs[k]]
      BY <3>4, <3>6 DEF ToSet
    <3>8. \A k \in DOMAIN exits : /\ exits[k].idx = idxs[k]
                                  /\ exits[k].balance = sync.exitTree[exits[k].idx]
      BY <3>5, <3>7
    <3>9. {exits[k].idx : k \in DOMAIN exits} = DOMAIN sync.exitTree
      BY <3>5, <3>6, <3>7, <3>8 DEF ToSet
    <3> QED
      BY <3>6, <3>7, <3>8, <3>9 DEF ExitInfosTell, exits
  <2> QED
    BY <2>2, <2>3 DEF OutputTells
<1> QED
  BY <1>1, Invariance, Telling, PTL
=============================================================================
