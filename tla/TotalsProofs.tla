---------------------------- MODULE TotalsProofs ----------------------------
(* The laws of Total the ledger's proofs rest on, for every finite set and *)
(* every function the cap bounds.                                          *)
EXTENDS Totals, FiniteSetTheorems, TLAPS

\* The first n positive naturals are n.
LEMMA FirstNaturals ==
  ASSUME NEW n \in Nat
  PROVE  IsFiniteSet(1..n) /\ Cardinality(1..n) = n
<1>1. IsFiniteSet(1..n)
  BY FS_Interval
<1>2. Cardinality(1..n) = IF 1 > n THEN 0 ELSE n - 1 + 1
  BY FS_Interval
<1> QED
  BY <1>1, <1>2

\* The units of a finite set are finite, so a total is a natural number.
LEMMA TotalIsNat ==
  ASSUME NEW S, IsFiniteSet(S), NEW f, NEW cap \in Nat
  PROVE  IsFiniteSet(Units(S, f, cap)) /\ Total(S, f, cap) \in Nat
<1>1. IsFiniteSet(1..cap)
  BY FS_Interval
<1>2. IsFiniteSet(S \X (1..cap))
  BY <1>1, FS_Product
<1>3. Units(S, f, cap) \in SUBSET (S \X (1..cap))
  BY DEF Units
<1>4. IsFiniteSet(Units(S, f, cap))
  BY <1>2, <1>3, FS_Subset
<1> QED
  BY <1>4, FS_CardinalityType DEF Total

\* The total over no element is zero.
LEMMA TotalOfNone ==
  ASSUME NEW f, NEW cap \in Nat
  PROVE  Total({}, f, cap) = 0
<1>1. Units({}, f, cap) = {}
  BY DEF Units
<1> QED
  BY <1>1, FS_EmptySet DEF Total

\* The total over one element is its value.
LEMMA TotalOfOne ==
  ASSUME NEW x, NEW f, NEW cap \in Nat, f[x] \in 0..cap
  PROVE  Total({x}, f, cap) = f[x]
<1> DEFINE g == [k \in 1..f[x] |-> <<x, k>>]
<1>1. g \in Bijection(1..f[x], Units({x}, f, cap))
  <2>1. g \in [1..f[x] -> Units({x}, f, cap)]
    BY DEF Units
  <2>2. \A a, b \in 1..f[x] : g[a] = g[b] => a = b
    OBVIOUS
  <2>3. \A u \in Units({x}, f, cap) : \E k \in 1..f[x] : g[k] = u
    BY DEF Units
  <2> QED
    BY <2>1, <2>2, <2>3 DEF Bijection, Injection, Surjection, IsInjective
<1>2. \A n \in Nat : IsFiniteSet(1..n) /\ Cardinality(1..n) = n
  BY FirstNaturals
<1>3. f[x] \in Nat
  OBVIOUS
<1>4. IsFiniteSet(1..f[x]) /\ Cardinality(1..f[x]) = f[x]
  BY <1>2, <1>3
<1>5. ExistsBijection(1..f[x], Units({x}, f, cap))
  BY <1>1 DEF ExistsBijection
<1> QED
  BY <1>4, <1>5, FS_Bijection DEF Total

\* Totals over disjoint sets add up.
LEMMA TotalOfUnion ==
  ASSUME NEW S, NEW T, IsFiniteSet(S), IsFiniteSet(T), S \cap T = {},
         NEW f, NEW cap \in Nat
  PROVE  Total(S \cup T, f, cap) = Total(S, f, cap) + Total(T, f, cap)
<1> DEFINE A == Units(S, f, cap)
           B == Units(T, f, cap)
<1>1. Units(S \cup T, f, cap) = A \cup B
  BY DEF Units
<1>2. A \cap B = {}
  BY DEF Units
<1>3. IsFiniteSet(A) /\ IsFiniteSet(B)
  BY TotalIsNat
<1>4. Cardinality(A \cap B) = 0
  BY <1>2, FS_EmptySet
<1>5. Cardinality(A) \in Nat /\ Cardinality(B) \in Nat
  BY <1>3, FS_CardinalityType
<1>6. Cardinality(A \cup B) = Cardinality(A) + Cardinality(B) - Cardinality(A \cap B)
  BY <1>3, FS_Union
<1>7. /\ Total(S \cup T, f, cap) = Cardinality(A \cup B)
      /\ Total(S, f, cap) = Cardinality(A)
      /\ Total(T, f, cap) = Cardinality(B)
  BY <1>1 DEF Total
<1> HIDE DEF A, B
<1> QED
  BY <1>4, <1>5, <1>6, <1>7

\* A total depends only on the values over its set.
LEMMA TotalCongruent ==
  ASSUME NEW S, NEW f, NEW g, NEW cap \in Nat, \A x \in S : f[x] = g[x]
  PROVE  Total(S, f, cap) = Total(S, g, cap)
<1>1. Units(S, f, cap) = Units(S, g, cap)
  BY DEF Units
<1> QED
  BY <1>1 DEF Total

\* A pointwise larger function has a larger total.
LEMMA TotalMonotone ==
  ASSUME NEW S, IsFiniteSet(S), NEW f, NEW g, NEW cap \in Nat,
         \A x \in S : f[x] \in Int /\ g[x] \in Int /\ f[x] <= g[x]
  PROVE  Total(S, f, cap) <= Total(S, g, cap)
<1>1. Units(S, f, cap) \in SUBSET Units(S, g, cap)
  BY DEF Units
<1>2. IsFiniteSet(Units(S, g, cap))
  BY TotalIsNat
<1> QED
  BY <1>1, <1>2, FS_Subset DEF Total

\* Products of naturals: what the sums below need of multiplication.
LEMMA ProductLaws ==
  ASSUME NEW p \in Nat, NEW a \in Nat, NEW b \in Nat
  PROVE  /\ p * a \in Nat
         /\ p * (a + b) = p * a + p * b
         /\ a <= b => p * a <= p * b
OBVIOUS

\* A function at most c everywhere has a total of at most c for each element.
LEMMA TotalAtMost ==
  ASSUME NEW S, IsFiniteSet(S), NEW f, NEW cap \in Nat, NEW c \in 0..cap,
         \A x \in S : f[x] \in Int /\ f[x] <= c
  PROVE  Total(S, f, cap) <= c * Cardinality(S)
<1>1. Units(S, f, cap) \in SUBSET (S \X (1..c))
  <2>1. ASSUME NEW u \in Units(S, f, cap) PROVE u \in S \X (1..c)
    <3>1. u[1] \in S /\ u[2] \in 1..cap /\ u[2] <= f[u[1]] /\ u = <<u[1], u[2]>>
      BY DEF Units
    <3>2. f[u[1]] \in Int /\ f[u[1]] <= c
      BY <3>1
    <3>3. u[2] \in 1..c
      BY <3>1, <3>2
    <3> QED
      BY <3>1, <3>3
  <2> QED
    BY <2>1
<1>2. IsFiniteSet(1..c) /\ Cardinality(1..c) = c
  BY FirstNaturals
<1>3. IsFiniteSet(S \X (1..c)) /\ Cardinality(S \X (1..c)) = Cardinality(S) * Cardinality(1..c)
  BY <1>2, FS_Product
<1>4. Cardinality(Units(S, f, cap)) <= Cardinality(S \X (1..c))
  BY <1>1, <1>3, FS_Subset
<1>5. Cardinality(S) \in Nat
  BY FS_CardinalityType
<1>6. Cardinality(S) * c = c * Cardinality(S)
  BY <1>5
<1> QED
  BY <1>2, <1>3, <1>4, <1>6 DEF Total
=============================================================================
