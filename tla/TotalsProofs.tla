---------------------------- MODULE TotalsProofs ----------------------------
(***************************************************************************)
(* What a sum does when its set or its function changes. A sum is a number *)
(* of units, so that each fact is one about cardinalities of finite sets   *)
(* and none needs an induction of its own.                                 *)
(***************************************************************************)
EXTENDS Totals, Integers, FiniteSetTheorems, TLAPS

LEMMA UnitsOf ==
  ASSUME NEW n \in Nat, NEW x
  PROVE  IsFiniteSet({x} \X (1 .. n)) /\ Cardinality({x} \X (1 .. n)) = n
<1>1. IsFiniteSet({x}) /\ Cardinality({x}) = 1
  BY FS_Singleton
<1>2. IsFiniteSet(1 .. n) /\ Cardinality(1 .. n) = n
  BY FS_Interval
<1>3. /\ IsFiniteSet({x} \X (1 .. n))
      /\ Cardinality({x} \X (1 .. n)) = Cardinality({x}) * Cardinality(1 .. n)
  BY <1>1, <1>2, FS_Product
<1>4. 1 * n = n
  OBVIOUS
<1> QED
  BY <1>1, <1>2, <1>3, <1>4

\* A finite sum of naturals is a natural.
LEMMA TotalType ==
  ASSUME NEW S, IsFiniteSet(S), NEW f, \A x \in S : f[x] \in Nat
  PROVE  IsFiniteSet(Units(f, S)) /\ Total(f, S) \in Nat
<1> DEFINE Of(x) == {x} \X (1 .. f[x])
           Parts == {Of(x) : x \in S}
           g == [x \in S |-> Of(x)]
<1>1. \A T \in Parts : IsFiniteSet(T)
  BY UnitsOf
<1>2. g \in Surjection(S, Parts)
  BY DEF Surjection
<1>3. IsFiniteSet(Parts)
  <2> HIDE DEF Parts, g
  <2> QED BY <1>2, FS_Surjection
<1>4. IsFiniteSet(UNION Parts)
  <2> HIDE DEF Parts
  <2> QED BY <1>1, <1>3, FS_UNION
<1> QED
  BY <1>4, FS_CardinalityType DEF Units, Total

LEMMA TotalEmpty == ASSUME NEW f PROVE Total(f, {}) = 0
<1>1. Units(f, {}) = {}
  BY DEF Units
<1> QED
  BY <1>1, FS_EmptySet DEF Total

\* Only the values over the set count.
LEMMA TotalSame ==
  ASSUME NEW S, NEW f, NEW g, \A x \in S : f[x] = g[x]
  PROVE  Total(f, S) = Total(g, S)
<1>1. Units(f, S) = Units(g, S)
  BY DEF Units
<1> QED
  BY <1>1 DEF Total

LEMMA TotalAdd ==
  ASSUME NEW S, IsFiniteSet(S), NEW f, \A x \in S : f[x] \in Nat,
         NEW y, y \notin S, f[y] \in Nat
  PROVE  Total(f, S \cup {y}) = Total(f, S) + f[y]
<1> DEFINE new == {y} \X (1 .. f[y])
<1>1. Units(f, S \cup {y}) = Units(f, S) \cup new
  BY DEF Units
<1>2. Units(f, S) \cap new = {}
  BY DEF Units
<1>3. IsFiniteSet(new) /\ Cardinality(new) = f[y]
  BY UnitsOf
<1>4. IsFiniteSet(Units(f, S)) /\ Total(f, S) \in Nat
  BY TotalType
<1> HIDE DEF new
<1>5. Cardinality(Units(f, S) \cup new) = Total(f, S) + f[y] - 0
  BY <1>2, <1>3, <1>4, FS_Union, FS_EmptySet DEF Total
<1>6. Total(f, S \cup {y}) = Cardinality(Units(f, S) \cup new)
  BY <1>1 DEF Total
<1> QED
  BY <1>4, <1>5, <1>6

LEMMA TotalRemove ==
  ASSUME NEW S, IsFiniteSet(S), NEW f, \A x \in S : f[x] \in Nat, NEW y \in S
  PROVE  Total(f, S) = Total(f, S \ {y}) + f[y]
<1>1. IsFiniteSet(S \ {y})
  BY FS_Subset
<1>2. (S \ {y}) \cup {y} = S
  OBVIOUS
<1> HIDE DEF Total
<1> QED
  BY <1>1, <1>2, TotalAdd

\* Fewer terms, no greater sum.
LEMMA TotalSubset ==
  ASSUME NEW S, IsFiniteSet(S), NEW f, \A x \in S : f[x] \in Nat, NEW T \in SUBSET S
  PROVE  Total(f, T) <= Total(f, S)
<1>1. IsFiniteSet(Units(f, S))
  BY TotalType
<1>2. Units(f, T) \in SUBSET Units(f, S)
  BY DEF Units
<1> QED
  BY <1>1, <1>2, FS_Subset DEF Total

\* One term grows.
LEMMA TotalGrows ==
  ASSUME NEW S, IsFiniteSet(S), NEW f, NEW g, NEW y \in S, NEW n \in Nat,
         \A x \in S : f[x] \in Nat,
         \A x \in S \ {y} : g[x] = f[x], g[y] = f[y] + n
  PROVE  Total(g, S) = Total(f, S) + n
<1> DEFINE rest == S \ {y}
<1>1. IsFiniteSet(rest)
  BY FS_Subset
<1>2. \A x \in S : g[x] \in Nat
  OBVIOUS
<1>3. Total(f, S) = Total(f, rest) + f[y]
  BY TotalRemove
<1>4. Total(g, S) = Total(g, rest) + g[y]
  BY <1>2, TotalRemove
<1>5. Total(g, rest) = Total(f, rest)
  BY TotalSame
<1>6. Total(f, rest) \in Nat /\ f[y] \in Nat
  BY <1>1, TotalType
<1> HIDE DEF rest
<1> QED
  BY <1>3, <1>4, <1>5, <1>6
=============================================================================
