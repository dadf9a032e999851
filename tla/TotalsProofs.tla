---------------------------- MODULE TotalsProofs ----------------------------
(***************************************************************************)
(* What the sums of Totals are when they have one summand, none, or one    *)
(* that changes.                                                           *)
(***************************************************************************)
EXTENDS Totals, FiniteSetTheorems, TLAPS

(* Sums of the sizes of sets.                                              *)

FiniteParts(F) == IsFiniteSet(DOMAIN F) /\ \A x \in DOMAIN F : IsFiniteSet(F[x])
Pairs(F, D)    == UNION {{x} \X F[x] : x \in D}

LEMMA PairsFinite ==
  ASSUME NEW F, NEW D, IsFiniteSet(D), \A x \in D : IsFiniteSet(F[x])
  PROVE  IsFiniteSet(Pairs(F, D))
<1> DEFINE f == [x \in D |-> {x} \X F[x]]
           T == {{x} \X F[x] : x \in D}
<1>1. f \in Surjection(D, T)
  BY DEF Surjection
<1>2. IsFiniteSet(T)
  BY <1>1, FS_Surjection
<1>3. ASSUME NEW x \in D PROVE IsFiniteSet({x} \X F[x])
  BY FS_Singleton, FS_Product
<1>4. \A S \in T : IsFiniteSet(S)
  BY <1>3
<1> QED BY <1>2, <1>4, FS_UNION DEF Pairs

LEMMA TotalNat ==
  ASSUME NEW F, FiniteParts(F)
  PROVE  Total(F) \in Nat
BY PairsFinite, FS_CardinalityType DEF FiniteParts, Total, Pairs

LEMMA TotalZero ==
  ASSUME NEW F, \A x \in DOMAIN F : F[x] = {}
  PROVE  Total(F) = 0
<1>1. UNION {{x} \X F[x] : x \in DOMAIN F} = {}
  OBVIOUS
<1> QED BY <1>1, FS_EmptySet DEF Total

LEMMA TotalSplit ==
  ASSUME NEW F, FiniteParts(F), NEW t \in DOMAIN F
  PROVE  /\ IsFiniteSet(Pairs(F, DOMAIN F \ {t}))
         /\ Total(F) = Cardinality(Pairs(F, DOMAIN F \ {t})) + Cardinality(F[t])
<1> DEFINE R == Pairs(F, DOMAIN F \ {t})
           A == {t} \X F[t]
<1>1. IsFiniteSet(DOMAIN F \ {t}) /\ IsFiniteSet(F[t])
  BY FS_RemoveElement DEF FiniteParts
<1>2. IsFiniteSet(R)
  BY <1>1, PairsFinite DEF FiniteParts
<1>3. IsFiniteSet(A) /\ Cardinality(A) = Cardinality(F[t])
  <2>1. IsFiniteSet({t}) /\ Cardinality({t}) = 1
    BY FS_Singleton
  <2>2. IsFiniteSet(A) /\ Cardinality(A) = Cardinality({t}) * Cardinality(F[t])
    BY <1>1, <2>1, FS_Product
  <2>3. Cardinality(F[t]) \in Nat
    BY <1>1, FS_CardinalityType
  <2> QED BY <2>1, <2>2, <2>3
<1>4. Pairs(F, DOMAIN F) = R \cup A
  BY DEF Pairs
<1>5. R \cap A = {}
  BY DEF Pairs
<1>6. Cardinality(R \cup A) = Cardinality(R) + Cardinality(A)
  <2>1. Cardinality(R \cup A) = Cardinality(R) + Cardinality(A) - Cardinality(R \cap A)
    BY <1>2, <1>3, FS_Union
  <2>2. Cardinality(R \cap A) = 0
    BY <1>5, FS_EmptySet
  <2>3. Cardinality(R) \in Nat /\ Cardinality(A) \in Nat
    BY <1>2, <1>3, FS_CardinalityType
  <2> QED BY <2>1, <2>2, <2>3
<1> QED BY <1>2, <1>3, <1>4, <1>6 DEF Total, Pairs

\* A sum changes as its one summand that changes.
LEMMA TotalChanges ==
  ASSUME NEW F, NEW G, FiniteParts(F), FiniteParts(G), DOMAIN G = DOMAIN F,
         NEW t \in DOMAIN F, \A x \in DOMAIN F \ {t} : G[x] = F[x]
  PROVE  /\ Total(F) \in Nat /\ Total(G) \in Nat
         /\ Cardinality(F[t]) \in Nat /\ Cardinality(G[t]) \in Nat
         /\ Total(G) = Total(F) + Cardinality(G[t]) - Cardinality(F[t])
<1>1. Pairs(F, DOMAIN F \ {t}) = Pairs(G, DOMAIN G \ {t})
  BY DEF Pairs
<1>2. PICK r \in Nat : r = Cardinality(Pairs(F, DOMAIN F \ {t}))
  BY TotalSplit, FS_CardinalityType
<1>3. Total(F) = r + Cardinality(F[t]) /\ Total(G) = r + Cardinality(G[t])
  BY <1>1, <1>2, TotalSplit
<1>4. Cardinality(F[t]) \in Nat /\ Cardinality(G[t]) \in Nat
  BY FS_CardinalityType DEF FiniteParts
<1> QED BY <1>2, <1>3, <1>4
-----------------------------------------------------------------------------
(* Sums of numbers.                                                        *)

LEMMA SumParts ==
  ASSUME NEW S, IsFiniteSet(S), NEW f \in [S -> Nat], NEW F, F = [x \in DOMAIN f |-> 1 .. f[x]]
  PROVE  /\ SumOf(f) = Total(F) /\ DOMAIN F = S /\ FiniteParts(F)
         /\ \A x \in S : F[x] = 1 .. f[x] /\ Cardinality(F[x]) = f[x]
<1>1. DOMAIN F = S /\ \A x \in S : F[x] = 1 .. f[x] /\ f[x] \in Nat
  OBVIOUS
<1>2. ASSUME NEW x \in S PROVE IsFiniteSet(F[x]) /\ Cardinality(F[x]) = f[x]
  <2>1. PICK n \in Nat : n = f[x]
    OBVIOUS
  <2>2. IsFiniteSet(1 .. n) /\ Cardinality(1 .. n) = n
    BY FS_Interval
  <2> QED BY <1>1, <2>1, <2>2
<1> QED BY <1>1, <1>2 DEF SumOf, FiniteParts

LEMMA SumNat ==
  ASSUME NEW S, IsFiniteSet(S), NEW f \in [S -> Nat]
  PROVE  SumOf(f) \in Nat
<1>1. PICK F : F = [x \in DOMAIN f |-> 1 .. f[x]]
  OBVIOUS
<1> QED BY <1>1, SumParts, TotalNat

\* One number changes.
LEMMA SumChanges ==
  ASSUME NEW S, IsFiniteSet(S), NEW f \in [S -> Nat], NEW g \in [S -> Nat], NEW t \in S,
         \A x \in S \ {t} : g[x] = f[x]
  PROVE  SumOf(f) \in Nat /\ SumOf(g) \in Nat /\ SumOf(g) = SumOf(f) + g[t] - f[t]
<1>1. PICK F : F = [x \in DOMAIN f |-> 1 .. f[x]]
  OBVIOUS
<1>2. PICK G : G = [x \in DOMAIN g |-> 1 .. g[x]]
  OBVIOUS
<1>3. /\ SumOf(f) = Total(F) /\ DOMAIN F = S /\ FiniteParts(F)
      /\ \A x \in S : F[x] = 1 .. f[x] /\ Cardinality(F[x]) = f[x]
  BY <1>1, SumParts
<1>4. /\ SumOf(g) = Total(G) /\ DOMAIN G = S /\ FiniteParts(G)
      /\ \A x \in S : G[x] = 1 .. g[x] /\ Cardinality(G[x]) = g[x]
  BY <1>2, SumParts
<1>5. \A x \in DOMAIN F \ {t} : G[x] = F[x]
  BY <1>3, <1>4
<1> QED BY <1>3, <1>4, <1>5, TotalChanges

\* Larger numbers have a larger sum.
LEMMA SumMonotone ==
  ASSUME NEW S, IsFiniteSet(S), NEW f \in [S -> Nat], NEW g \in [S -> Nat],
         \A x \in S : f[x] <= g[x]
  PROVE  SumOf(f) \in Nat /\ SumOf(g) \in Nat /\ SumOf(f) <= SumOf(g)
<1>1. PICK F : F = [x \in DOMAIN f |-> 1 .. f[x]]
  OBVIOUS
<1>2. PICK G : G = [x \in DOMAIN g |-> 1 .. g[x]]
  OBVIOUS
<1>3. /\ SumOf(f) = Total(F) /\ DOMAIN F = S /\ FiniteParts(F) /\ \A x \in S : F[x] = 1 .. f[x]
  BY <1>1, SumParts
<1>4. /\ SumOf(g) = Total(G) /\ DOMAIN G = S /\ FiniteParts(G) /\ \A x \in S : G[x] = 1 .. g[x]
  BY <1>2, SumParts
<1>5. ASSUME NEW x \in S PROVE F[x] \subseteq G[x]
  <2>1. f[x] \in Nat /\ g[x] \in Nat /\ f[x] <= g[x]
    OBVIOUS
  <2> QED BY <1>3, <1>4, <2>1
<1>6. Pairs(F, S) \subseteq Pairs(G, S)
  BY <1>5 DEF Pairs
<1>7. IsFiniteSet(Pairs(G, S))
  BY <1>4, PairsFinite DEF FiniteParts
<1>8. Cardinality(Pairs(F, S)) <= Cardinality(Pairs(G, S))
  BY <1>6, <1>7, FS_Subset
<1> QED BY <1>3, <1>4, <1>8, TotalNat DEF Total, Pairs

\* The same number k for the elements of T.
LEMMA SumSame ==
  ASSUME NEW S, IsFiniteSet(S), NEW T \in SUBSET S, NEW k \in Nat,
         NEW f \in [S -> Nat], \A x \in S : f[x] = IF x \in T THEN k ELSE 0
  PROVE  SumOf(f) = Cardinality(T) * k
<1>1. PICK F : F = [x \in DOMAIN f |-> 1 .. f[x]]
  OBVIOUS
<1>2. SumOf(f) = Total(F) /\ DOMAIN F = S /\ \A x \in S : F[x] = 1 .. f[x]
  BY <1>1, SumParts
<1>3. \A x \in S : F[x] = IF x \in T THEN 1 .. k ELSE {}
  BY <1>2
<1>4. UNION {{x} \X F[x] : x \in DOMAIN F} = T \X (1 .. k)
  BY <1>2, <1>3
<1>5. IsFiniteSet(T) /\ IsFiniteSet(1 .. k) /\ Cardinality(1 .. k) = k
  BY FS_Subset, FS_Interval
<1>6. Cardinality(T \X (1 .. k)) = Cardinality(T) * k
  BY <1>5, FS_Product
<1> QED BY <1>2, <1>4, <1>6 DEF Total

\* At most one number is not zero.
LEMMA SumSingle ==
  ASSUME NEW S, IsFiniteSet(S), NEW f \in [S -> Nat], NEW t \in S, \A x \in S \ {t} : f[x] = 0
  PROVE  SumOf(f) = f[t]
<1>1. {t} \in SUBSET S /\ f[t] \in Nat /\ \A x \in S : f[x] = IF x \in {t} THEN f[t] ELSE 0
  OBVIOUS
<1>2. SumOf(f) = Cardinality({t}) * f[t]
  BY <1>1, SumSame
<1>3. Cardinality({t}) = 1
  BY FS_Singleton
<1> QED BY <1>1, <1>2, <1>3

\* A sum is at least each of its numbers, and zero only if all of them are.
LEMMA SumBounds ==
  ASSUME NEW S, IsFiniteSet(S), NEW f \in [S -> Nat]
  PROVE  /\ SumOf(f) \in Nat /\ \A x \in S : f[x] <= SumOf(f)
         /\ SumOf(f) = 0 <=> \A x \in S : f[x] = 0
<1>1. ASSUME NEW t \in S PROVE f[t] <= SumOf(f)
  <2>1. PICK g : g = [x \in S |-> IF x = t THEN f[t] ELSE 0]
    OBVIOUS
  <2>2. g \in [S -> Nat] /\ g[t] = f[t] /\ (\A x \in S \ {t} : g[x] = 0) /\ \A x \in S : g[x] <= f[x]
    BY <2>1
  <2>3. SumOf(g) = f[t]
    BY <2>2, SumSingle
  <2> QED BY <2>2, <2>3, SumMonotone
<1>2. ASSUME \A x \in S : f[x] = 0 PROVE SumOf(f) = 0
  <2>1. {} \in SUBSET S /\ 0 \in Nat /\ \A x \in S : f[x] = IF x \in {} THEN 0 ELSE 0
    BY <1>2
  <2>2. SumOf(f) = Cardinality({}) * 0
    BY <2>1, SumSame
  <2> QED BY <2>2, FS_EmptySet
<1>3. ASSUME SumOf(f) = 0, NEW x \in S PROVE f[x] = 0
  <2>1. f[x] \in Nat /\ f[x] <= SumOf(f)
    BY <1>1
  <2> QED BY <1>3, <2>1
<1> QED BY <1>1, <1>2, <1>3, SumNat
=============================================================================
