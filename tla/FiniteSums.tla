----------------------------- MODULE FiniteSums -----------------------------
(* What a sum over a finite set of lines, positions or trades is, and how    *)
(* it moves when one term does: the arithmetic under the properties that     *)
(* weigh a balance against everything it has to cover. SumFunctionOnSet is   *)
(* a fold, so each fact is an induction on the size of the set; it is        *)
(* carried out on a smallest set that breaks the fact.                       *)
EXTENDS Integers, Functions, FiniteSetTheorems, WellFoundedInduction, TLAPS

(* A nonempty set of numbers has a least element.                          *)
LEMMA LeastOf ==
    ASSUME NEW T \in SUBSET Nat, T # {}
    PROVE  \E x \in T : \A y \in T : x <= y
<1> DEFINE Less == {ss \in Nat \X Nat : ss[1] < ss[2]}
<1>1. IsWellFoundedOn(Less, Nat)
    BY NatLessThanWellFounded DEF OpToRel
<1>2. PICK x \in T : \A y \in T : ~ (<<y, x>> \in Less)
    BY <1>1, WFMin
<1>3. \A y \in T : y \in Nat /\ x \in Nat /\ ~ (y < x)
    BY <1>2
<1>4. QED
    BY <1>3

(* Some subsets of a finite set have a smallest one: no element of it can  *)
(* be taken out to find another.                                           *)
LEMMA SmallestOf ==
    ASSUME NEW S, IsFiniteSet(S), NEW B \in SUBSET (SUBSET S), B # {}
    PROVE  \E s \in B : IsFiniteSet(s) /\ \A x \in s : s \ {x} \notin B
<1>1. \A s \in B : IsFiniteSet(s) /\ Cardinality(s) \in Nat
    BY FS_Subset, FS_CardinalityType
<1> DEFINE T == {Cardinality(s) : s \in B}
<1>2. T \in SUBSET Nat /\ T # {}
    BY <1>1
<1>3. \A t \in B : Cardinality(t) \in T
    OBVIOUS
<1>4. \A x \in T : \E s \in B : x = Cardinality(s)
    OBVIOUS
<1> HIDE DEF T
<1>5. PICK n \in T : \A m \in T : n <= m
    BY <1>2, LeastOf
<1>6. PICK s \in B : n = Cardinality(s)
    BY <1>4, <1>5
<1>7. ASSUME NEW x \in s PROVE s \ {x} \notin B
  <2>1. Cardinality(s \ {x}) = n - 1 /\ n \in Nat
      BY <1>1, <1>6, FS_RemoveElement
  <2>2. QED
      BY <1>3, <1>5, <2>1
<1>8. QED
    BY <1>1, <1>7

(* The element the fold takes out of a set first.                          *)
Pick(s) == CHOOSE x \in s : TRUE

(* What the fold makes of a set, when g is what it makes of smaller ones.  *)
Unfolded(f, g, s) == IF s = {} THEN 0 ELSE f[Pick(s)] + g[s \ {Pick(s)}]

(* g is the fold on every subset of S.                                     *)
IsFold(f, g, S) == g = [s \in SUBSET S |-> Unfolded(f, g, s)]

(* Taking the first element out leaves a smaller set.                      *)
LEMMA PickShrinks ==
    ASSUME NEW s, IsFiniteSet(s), s # {}
    PROVE  /\ Pick(s) \in s
           /\ IsFiniteSet(s \ {Pick(s)})
           /\ Cardinality(s \ {Pick(s)}) = Cardinality(s) - 1
           /\ Cardinality(s) \in Nat \ {0}
<1>1. Pick(s) \in s
    BY DEF Pick
<1>2. QED
    BY <1>1, FS_RemoveElement, FS_CardinalityType, FS_EmptySet

(* The fold is defined on every finite set.                                *)
LEMMA UnfoldingExists ==
    ASSUME NEW S, IsFiniteSet(S), NEW f
    PROVE  \E g : IsFold(f, g, S)
<1> DEFINE D(n) == {s \in SUBSET S : Cardinality(s) <= n}
           Fold(n) == \E g : g = [s \in D(n) |-> Unfolded(f, g, s)]
           Bad == {n \in Nat : ~ Fold(n)}
<1>1. \A s \in SUBSET S : IsFiniteSet(s) /\ Cardinality(s) \in Nat
    BY FS_Subset, FS_CardinalityType
<1>2. ASSUME Bad # {} PROVE FALSE
  <2>1. PICK n \in Bad : \A m \in Bad : n <= m
      BY <1>2, LeastOf
  <2>2. n \in Nat /\ ~ Fold(n)
      BY <2>1
  <2>0. \A m \in Nat : m \notin Bad => Fold(m)
      OBVIOUS
  <2>3. CASE n = 0
    <3> DEFINE g == [s \in D(0) |-> 0]
    <3>1. \A s \in D(0) : s = {}
        BY <1>1, FS_EmptySet
    <3>2. \A s \in D(0) : Unfolded(f, g, s) = 0
        BY <3>1 DEF Unfolded
    <3>3. g = [s \in D(0) |-> Unfolded(f, g, s)]
        BY <3>2
    <3> HIDE DEF g, D
    <3>4. Fold(0)
        BY <3>3
    <3>5. QED
        BY <2>2, <2>3, <3>4
  <2>4. CASE n # 0
    <3>1. Fold(n - 1)
      <4> HIDE DEF Bad, Fold
      <4>1. n - 1 \in Nat /\ ~ (n <= n - 1)
          BY <2>2, <2>4
      <4>2. QED
          BY <2>0, <2>1, <4>1
    <3>2. PICK h : h = [s \in D(n - 1) |-> Unfolded(f, h, s)]
        BY <3>1
    <3> DEFINE g == [s \in D(n) |-> Unfolded(f, h, s)]
    <3>3. \A s \in D(n - 1) : s \in D(n)
        BY <1>1, <2>2
    <3>4. \A s \in D(n - 1) : h[s] = g[s]
        BY <3>2, <3>3, Zenon
    <3>5. ASSUME NEW s \in D(n) PROVE Unfolded(f, h, s) = Unfolded(f, g, s)
      <4>1. CASE s = {}
          BY <4>1 DEF Unfolded
      <4>2. CASE s # {}
        <5>1. s \ {Pick(s)} \in D(n - 1)
            BY <1>1, <2>2, <4>2, PickShrinks
        <5>2. QED
            BY <3>4, <5>1, <4>2 DEF Unfolded
      <4>3. QED
          BY <4>1, <4>2
    <3>6. g = [s \in D(n) |-> Unfolded(f, g, s)]
        BY <3>5, Zenon
    <3>7. QED
        BY <2>2, <3>6
  <2>5. QED
      BY <2>3, <2>4
<1>3. Cardinality(S) \in Nat /\ Fold(Cardinality(S))
    BY <1>2, FS_CardinalityType
<1>4. D(Cardinality(S)) = SUBSET S
    BY <1>1, FS_Subset
<1>5. QED
    BY <1>3, <1>4 DEF IsFold

(* Two unfoldings agree wherever both are defined.                         *)
LEMMA UnfoldingsAgree ==
    ASSUME NEW S, IsFiniteSet(S), NEW R \in SUBSET S, NEW f, NEW g, NEW h,
           IsFold(f, g, S), IsFold(f, h, R)
    PROVE  g[R] = h[R]
<1> DEFINE Bad == {s \in SUBSET R : g[s] # h[s]}
<1>1. IsFiniteSet(R)
    BY FS_Subset
<1>2. ASSUME Bad # {} PROVE FALSE
  <2>1. PICK s \in Bad : IsFiniteSet(s) /\ \A x \in s : s \ {x} \notin Bad
      BY <1>1, <1>2, SmallestOf
  <2>2. s \in SUBSET R /\ s \in SUBSET S /\ g[s] # h[s]
      BY <2>1
  <2>3. g[s] = Unfolded(f, g, s) /\ h[s] = Unfolded(f, h, s)
      BY <2>2 DEF IsFold
  <2>4. s # {}
      BY <2>2, <2>3 DEF Unfolded
  <2>5. s \ {Pick(s)} \notin Bad
      BY <2>1, <2>4, PickShrinks
  <2>6. g[s \ {Pick(s)}] = h[s \ {Pick(s)}]
      BY <2>2, <2>5
  <2>7. QED
      BY <2>2, <2>3, <2>6 DEF Unfolded
<1>3. QED
    BY <1>2

(* The sum is the unfolding on the set itself.                             *)
LEMMA SumUnfolds ==
    ASSUME NEW S, IsFiniteSet(S), NEW f
    PROVE  \E g : IsFold(f, g, S) /\ SumFunctionOnSet(f, S) = g[S]
<1> DEFINE it == CHOOSE g : IsFold(f, g, S)
<1>1. IsFold(f, it, S)
    BY UnfoldingExists
<1>2. SumFunctionOnSet(f, S) = it[S]
    BY DEF SumFunctionOnSet, FoldFunctionOnSet, MapThenFoldSet, Pick, Unfolded, IsFold
<1>3. QED
    BY <1>1, <1>2

(* The sum over no elements is zero.                                       *)
LEMMA SumOfNone ==
    ASSUME NEW f
    PROVE  SumFunctionOnSet(f, {}) = 0
<1>1. IsFiniteSet({})
    BY FS_EmptySet
<1>2. PICK g : IsFold(f, g, {}) /\ SumFunctionOnSet(f, {}) = g[{}]
    BY <1>1, SumUnfolds
<1>3. {} \in SUBSET {}
    OBVIOUS
<1>4. QED
    BY <1>2, <1>3 DEF Unfolded, IsFold

(* The fold's own step.                                                    *)
LEMMA SumPicks ==
    ASSUME NEW S, IsFiniteSet(S), S # {}, NEW f
    PROVE  SumFunctionOnSet(f, S) = f[Pick(S)] + SumFunctionOnSet(f, S \ {Pick(S)})
<1> DEFINE R == S \ {Pick(S)}
<1>1. R \in SUBSET S /\ IsFiniteSet(R)
    BY PickShrinks
<1>2. PICK g : IsFold(f, g, S) /\ SumFunctionOnSet(f, S) = g[S]
    BY SumUnfolds
<1>3. PICK h : IsFold(f, h, R) /\ SumFunctionOnSet(f, R) = h[R]
    BY <1>1, SumUnfolds
<1>4. g[R] = h[R]
  <2> HIDE DEF R
  <2>1. QED
      BY <1>1, <1>2, <1>3, UnfoldingsAgree
<1>5. g[S] = Unfolded(f, g, S)
    BY <1>2 DEF IsFold
<1>6. QED
    BY <1>2, <1>3, <1>4, <1>5 DEF Unfolded

(* A sum of integers is an integer.                                        *)
LEMMA SumInt ==
    ASSUME NEW S, IsFiniteSet(S), NEW f, \A x \in S : f[x] \in Int
    PROVE  SumFunctionOnSet(f, S) \in Int
<1> DEFINE Bad == {s \in SUBSET S : SumFunctionOnSet(f, s) \notin Int}
<1>1. ASSUME Bad # {} PROVE FALSE
  <2>1. PICK s \in Bad : IsFiniteSet(s) /\ \A x \in s : s \ {x} \notin Bad
      BY <1>1, SmallestOf
  <2>2. s # {}
      BY <2>1, SumOfNone
  <2>3. s \ {Pick(s)} \notin Bad
      BY <2>1, <2>2, PickShrinks
  <2>4. f[Pick(s)] \in Int /\ SumFunctionOnSet(f, s \ {Pick(s)}) \in Int
      BY <2>1, <2>2, <2>3, PickShrinks
  <2>5. SumFunctionOnSet(f, s) = f[Pick(s)] + SumFunctionOnSet(f, s \ {Pick(s)})
      BY <2>1, <2>2, SumPicks
  <2>6. QED
      BY <2>1, <2>4, <2>5
<1>2. QED
    BY <1>1

(* Any element can be taken out of a sum, not only the fold's first.       *)
LEMMA SumTakesOut ==
    ASSUME NEW S, IsFiniteSet(S), NEW f, \A x \in S : f[x] \in Int, NEW a \in S
    PROVE  SumFunctionOnSet(f, S) = f[a] + SumFunctionOnSet(f, S \ {a})
<1> DEFINE Takes(s) == \A x \in s : SumFunctionOnSet(f, s) = f[x] + SumFunctionOnSet(f, s \ {x})
           Bad == {s \in SUBSET S : ~ Takes(s)}
<1>1. ASSUME Bad # {} PROVE FALSE
  <2>1. PICK s \in Bad : IsFiniteSet(s) /\ \A x \in s : s \ {x} \notin Bad
      BY <1>1, SmallestOf
  <2>2. PICK x \in s : SumFunctionOnSet(f, s) # f[x] + SumFunctionOnSet(f, s \ {x})
      BY <2>1
  <2> DEFINE p == Pick(s)
  <2>3. /\ SumFunctionOnSet(f, s) = f[p] + SumFunctionOnSet(f, s \ {p})
        /\ p \in s /\ p # x
      BY <2>1, <2>2, SumPicks, PickShrinks
  <2>4. \A y \in s : Takes(s \ {y})
      BY <2>1
  <2>5. SumFunctionOnSet(f, s \ {p}) = f[x] + SumFunctionOnSet(f, (s \ {p}) \ {x})
      BY <2>3, <2>4
  <2>6. (s \ {x}) \ {p} = (s \ {p}) \ {x}
      OBVIOUS
  <2>7. SumFunctionOnSet(f, s \ {x}) = f[p] + SumFunctionOnSet(f, (s \ {p}) \ {x})
      BY <2>3, <2>4, <2>6
  <2>8. f[x] \in Int /\ f[p] \in Int /\ SumFunctionOnSet(f, (s \ {p}) \ {x}) \in Int
    <3>1. (s \ {p}) \ {x} \in SUBSET S
        BY <2>1
    <3>2. IsFiniteSet((s \ {p}) \ {x})
        BY <3>1, FS_Subset
    <3>3. QED
        BY <2>1, <2>3, <3>1, <3>2, SumInt
  <2> DEFINE rest == SumFunctionOnSet(f, (s \ {p}) \ {x})
             fx == f[x]
             fp == f[p]
  <2>9. SumFunctionOnSet(f, s) = fp + (fx + rest)
      BY <2>3, <2>5
  <2>10. f[x] + SumFunctionOnSet(f, s \ {x}) = fx + (fp + rest)
      BY <2>7
  <2>11. fx \in Int /\ fp \in Int /\ rest \in Int
      BY <2>8
  <2> HIDE DEF fx, fp, rest
  <2>12. fp + (fx + rest) = fx + (fp + rest)
      BY <2>11
  <2>13. QED
      BY <2>2, <2>9, <2>10, <2>12
<1>2. Takes(S)
    BY <1>1
<1>3. QED
    BY <1>2

(* Equal terms have equal sums.                                            *)
LEMMA SumSame ==
    ASSUME NEW S, IsFiniteSet(S), NEW f, NEW g, \A x \in S : f[x] = g[x]
    PROVE  SumFunctionOnSet(f, S) = SumFunctionOnSet(g, S)
<1> DEFINE Bad == {s \in SUBSET S : SumFunctionOnSet(f, s) # SumFunctionOnSet(g, s)}
<1>1. ASSUME Bad # {} PROVE FALSE
  <2>1. PICK s \in Bad : IsFiniteSet(s) /\ \A x \in s : s \ {x} \notin Bad
      BY <1>1, SmallestOf
  <2>2. s # {}
      BY <2>1, SumOfNone
  <2>3. s \ {Pick(s)} \notin Bad
      BY <2>1, <2>2, PickShrinks
  <2>4. Pick(s) \in S
      BY <2>1, <2>2, PickShrinks
  <2>5. QED
      BY <2>1, <2>2, <2>3, <2>4, SumPicks
<1>2. QED
    BY <1>1

(* When one term changes, the sum changes by as much.                      *)
LEMMA SumMoves ==
    ASSUME NEW S, IsFiniteSet(S), NEW f, NEW g, NEW a \in S,
           \A x \in S : f[x] \in Int /\ g[x] \in Int,
           \A x \in S \ {a} : f[x] = g[x]
    PROVE  SumFunctionOnSet(g, S) = SumFunctionOnSet(f, S) + (g[a] - f[a])
<1> DEFINE R == S \ {a}
<1>1. IsFiniteSet(R)
    BY FS_RemoveElement
<1>2. SumFunctionOnSet(f, R) = SumFunctionOnSet(g, R)
    BY <1>1, SumSame
<1>3. SumFunctionOnSet(f, R) \in Int
    BY <1>1, SumInt
<1>4. /\ SumFunctionOnSet(f, S) = f[a] + SumFunctionOnSet(f, R)
      /\ SumFunctionOnSet(g, S) = g[a] + SumFunctionOnSet(g, R)
    BY SumTakesOut
<1> HIDE DEF R
<1>5. QED
    BY <1>2, <1>3, <1>4

(* A sum of zeroes is zero.                                                *)
LEMMA SumOfZeroes ==
    ASSUME NEW S, IsFiniteSet(S), NEW f, \A x \in S : f[x] = 0
    PROVE  SumFunctionOnSet(f, S) = 0
<1> DEFINE Bad == {s \in SUBSET S : SumFunctionOnSet(f, s) # 0}
<1>1. ASSUME Bad # {} PROVE FALSE
  <2>1. PICK s \in Bad : IsFiniteSet(s) /\ \A x \in s : s \ {x} \notin Bad
      BY <1>1, SmallestOf
  <2>2. s # {}
      BY <2>1, SumOfNone
  <2>3. s \ {Pick(s)} \notin Bad
      BY <2>1, <2>2, PickShrinks
  <2>4. Pick(s) \in S
      BY <2>1, <2>2, PickShrinks
  <2>5. QED
      BY <2>1, <2>2, <2>3, <2>4, SumPicks
<1>2. QED
    BY <1>1

(* A sum of natural numbers is one.                                        *)
LEMMA SumNat ==
    ASSUME NEW S, IsFiniteSet(S), NEW f, \A x \in S : f[x] \in Nat
    PROVE  SumFunctionOnSet(f, S) \in Nat
<1> DEFINE Bad == {s \in SUBSET S : SumFunctionOnSet(f, s) \notin Nat}
<1>1. ASSUME Bad # {} PROVE FALSE
  <2>1. PICK s \in Bad : IsFiniteSet(s) /\ \A x \in s : s \ {x} \notin Bad
      BY <1>1, SmallestOf
  <2>2. s # {}
      BY <2>1, SumOfNone
  <2>3. s \ {Pick(s)} \notin Bad
      BY <2>1, <2>2, PickShrinks
  <2>4. f[Pick(s)] \in Nat /\ SumFunctionOnSet(f, s \ {Pick(s)}) \in Nat
      BY <2>1, <2>2, <2>3, PickShrinks
  <2>5. SumFunctionOnSet(f, s) = f[Pick(s)] + SumFunctionOnSet(f, s \ {Pick(s)})
      BY <2>1, <2>2, SumPicks
  <2>6. QED
      BY <2>1, <2>4, <2>5
<1>2. QED
    BY <1>1

(* No term of a sum of natural numbers exceeds the sum.                    *)
LEMMA SumCoversTerm ==
    ASSUME NEW S, IsFiniteSet(S), NEW f, \A x \in S : f[x] \in Nat, NEW a \in S
    PROVE  f[a] <= SumFunctionOnSet(f, S)
<1>1. SumFunctionOnSet(f, S) = f[a] + SumFunctionOnSet(f, S \ {a})
    BY SumTakesOut
<1>2. IsFiniteSet(S \ {a})
    BY FS_RemoveElement
<1>3. SumFunctionOnSet(f, S \ {a}) \in Nat /\ f[a] \in Nat
    BY <1>2, SumNat
<1>4. QED
    BY <1>1, <1>3

(* Smaller terms have a smaller sum.                                       *)
LEMMA SumGrows ==
    ASSUME NEW S, IsFiniteSet(S), NEW f, NEW g,
           \A x \in S : f[x] \in Int /\ g[x] \in Int /\ f[x] <= g[x]
    PROVE  SumFunctionOnSet(f, S) <= SumFunctionOnSet(g, S)
<1> DEFINE Bad == {s \in SUBSET S : ~ (SumFunctionOnSet(f, s) <= SumFunctionOnSet(g, s))}
<1>1. ASSUME Bad # {} PROVE FALSE
  <2>1. PICK s \in Bad : IsFiniteSet(s) /\ \A x \in s : s \ {x} \notin Bad
      BY <1>1, SmallestOf
  <2>2. s # {}
      BY <2>1, SumOfNone
  <2> DEFINE p == Pick(s)
             r == s \ {p}
  <2>3. p \in s /\ p \in S /\ IsFiniteSet(r) /\ r \in SUBSET S
      BY <2>1, <2>2, PickShrinks
  <2>4. SumFunctionOnSet(f, r) <= SumFunctionOnSet(g, r)
      BY <2>1, <2>3
  <2>5. SumFunctionOnSet(f, r) \in Int /\ SumFunctionOnSet(g, r) \in Int
      BY <2>3, SumInt
  <2>6. /\ SumFunctionOnSet(f, s) = f[p] + SumFunctionOnSet(f, r)
        /\ SumFunctionOnSet(g, s) = g[p] + SumFunctionOnSet(g, r)
      BY <2>1, <2>2, SumPicks
  <2>7. f[p] \in Int /\ g[p] \in Int /\ f[p] <= g[p]
      BY <2>3
  <2>8. ~ (SumFunctionOnSet(f, s) <= SumFunctionOnSet(g, s))
      BY <2>1
  <2> HIDE DEF p, r
  <2>9. QED
      BY <2>4, <2>5, <2>6, <2>7, <2>8
<1>2. QED
    BY <1>1

=============================================================================
