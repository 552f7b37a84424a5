------------------------- MODULE ArithmeticTheorems -------------------------
(***************************************************************************)
(* Products, and sums of a function over a finite set, as Functions        *)
(* defines them: the vault's share and asset totals are such sums.         *)
(***************************************************************************)
EXTENDS Integers, Functions, FiniteSets, FiniteSetTheorems, WellFoundedInduction,
        NaturalsInduction, TLAPS

\* Products keep order.
LEMMA ProductMonotone ==
    ASSUME NEW a \in Nat, NEW b \in Nat, NEW c \in Nat, a <= b
    PROVE  a * c <= b * c
OBVIOUS

\* A common positive factor cancels.
LEMMA ProductCancel ==
    ASSUME NEW a \in Int, NEW b \in Int, NEW c \in Nat \ {0}, a * c <= b * c
    PROVE  a <= b
OBVIOUS

\* So does one under a strict order.
LEMMA ProductCancelStrict ==
    ASSUME NEW a \in Int, NEW b \in Int, NEW c \in Nat \ {0}, a * c < b * c
    PROVE  a < b
OBVIOUS

-----------------------------------------------------------------------------
(* Sums.                                                                     *)

\* Every nonempty set of naturals has a least element.
LEMMA LeastNat ==
    ASSUME NEW T \in SUBSET Nat, T # {}
    PROVE  \E x \in T : \A y \in T : x <= y
<1>1. IsWellFoundedOn(OpToRel(<, Nat), Nat)
  BY NatLessThanWellFounded, Zenon
<1>2. PICK x \in T : \A y \in T : ~(<<y, x>> \in OpToRel(<, Nat))
  BY <1>1, WFMin, Zenon
<1>3. \A y \in T : ~(y < x)
  BY <1>2 DEF OpToRel
<1> QED
  BY <1>3

\* The element a fold takes out of a set first.
Pick(s) == CHOOSE x \in s : TRUE

\* Taking one element out leaves a smaller subset.
LEMMA RemoveFacts ==
    ASSUME NEW S, IsFiniteSet(S), NEW s \in SUBSET S, NEW x \in s
    PROVE  /\ s \ {x} \in SUBSET S
           /\ Cardinality(s) \in Nat
           /\ Cardinality(s \ {x}) = Cardinality(s) - 1
<1>1. IsFiniteSet(s)
  BY FS_Subset
<1> QED
  BY <1>1, FS_CardinalityType, FS_RemoveElement

\* A nonempty set has an element to take out.
LEMMA PickIn ==
    ASSUME NEW s, s # {}
    PROVE  Pick(s) \in s
BY DEF Pick

\* Induction over the subsets of a finite set, by a smallest counterexample.
LEMMA SmallestSubset ==
    ASSUME NEW S, IsFiniteSet(S), NEW Bad \in SUBSET (SUBSET S), Bad # {}
    PROVE  \E s \in Bad : \A x \in s : s \ {x} \notin Bad
<1> DEFINE sizes == {Cardinality(s) : s \in Bad}
<1>1. ASSUME NEW s \in Bad PROVE Cardinality(s) \in Nat
  <2>1. IsFiniteSet(s)
    BY FS_Subset
  <2> QED
    BY <2>1, FS_CardinalityType
<1>2. sizes \in SUBSET Nat /\ sizes # {}
  BY <1>1
<1>3. PICK n \in sizes : \A m \in sizes : n <= m
  <2> HIDE DEF sizes
  <2> QED
    BY <1>2, LeastNat
<1>4. PICK s \in Bad : n = Cardinality(s)
  BY <1>3
<1>5. ASSUME NEW x \in s, s \ {x} \in Bad PROVE FALSE
  <2>1. Cardinality(s) \in Nat /\ Cardinality(s \ {x}) = Cardinality(s) - 1
    BY <1>5, RemoveFacts
  <2>2. n <= Cardinality(s \ {x})
    BY <1>3, <1>5
  <2> QED
    BY <1>4, <2>1, <2>2
<1> QED
  BY <1>4, <1>5

\* The partial sums a fold goes through.
Partial(f, S, sum) ==
    sum = [s \in SUBSET S |-> IF s = {} THEN 0 ELSE f[Pick(s)] + sum[s \ {Pick(s)}]]

\* They exist.
LEMMA PartialExists ==
    ASSUME NEW f, NEW S, IsFiniteSet(S)
    PROVE  \E sum : Partial(f, S, sum)
<1> DEFINE Small(n) == {s \in SUBSET S : Cardinality(s) <= n}
           next(g, s) == IF s = {} THEN 0 ELSE f[Pick(s)] + g[s \ {Pick(s)}]
           UpTo(n, g) == g = [s \in Small(n) |-> next(g, s)]
           Bad == {n \in Nat : ~ \E g : UpTo(n, g)}
<1>1. Bad = {}
  <2> SUFFICES ASSUME Bad # {} PROVE FALSE
    OBVIOUS
  <2>1. PICK n \in Bad : \A m \in Bad : n <= m
    <3>1. Bad \in SUBSET Nat
      OBVIOUS
    <3> HIDE DEF Bad
    <3> QED
      BY <3>1, LeastNat
  <2>2. n \in Nat /\ ~ \E g : UpTo(n, g)
    BY <2>1
  <2>3. CASE n = 0
    <3>1. ASSUME NEW s \in Small(0) PROVE s = {}
      <4>1. IsFiniteSet(s) /\ s \in SUBSET S /\ Cardinality(s) <= 0
        BY FS_Subset
      <4>2. Cardinality(s) \in Nat
        BY <4>1, FS_CardinalityType
      <4>3. Cardinality(s) = 0
        BY <4>1, <4>2
      <4> QED
        BY <4>1, <4>3, FS_EmptySet
    <3> DEFINE g == [s \in Small(0) |-> 0]
    <3>2. UpTo(0, g)
      <4>1. ASSUME NEW s \in Small(0) PROVE next(g, s) = 0
        BY <3>1
      <4> HIDE DEF Small, next
      <4> QED
        BY <4>1
    <3> QED
      BY <2>2, <2>3, <3>2
  <2>4. CASE n # 0
    <3>1. n - 1 \in Nat
      BY <2>2, <2>4
    <3>2. n - 1 \notin Bad
      <4> HIDE DEF Bad
      <4> QED
        BY <2>1, <2>2, <3>1
    <3>3. PICK h : UpTo(n - 1, h)
      BY <3>1, <3>2
    <3> DEFINE g == [s \in Small(n) |-> next(h, s)]
    <3>4. ASSUME NEW s \in Small(n), s # {}
          PROVE  s \ {Pick(s)} \in Small(n) /\ s \ {Pick(s)} \in Small(n - 1)
      <4>1. /\ s \ {Pick(s)} \in SUBSET S /\ Cardinality(s) \in Nat
            /\ Cardinality(s \ {Pick(s)}) = Cardinality(s) - 1
        BY <3>4, PickIn, RemoveFacts
      <4> QED
        BY <2>2, <4>1
    <3>5. ASSUME NEW s \in Small(n - 1) PROVE s \in Small(n) /\ h[s] = next(h, s)
      <4>1. s \in Small(n)
        <5>1. Cardinality(s) \in Nat
          BY FS_Subset, FS_CardinalityType
        <5> QED
          BY <2>2, <5>1
      <4>2. h[s] = next(h, s)
        <5> HIDE DEF Small, next
        <5> QED
          BY <3>3
      <4> QED
        BY <4>1, <4>2
    <3>6. ASSUME NEW s \in Small(n - 1) PROVE g[s] = h[s]
      <4> HIDE DEF Small, next
      <4> QED
        BY <3>5
    <3>7. ASSUME NEW s \in Small(n) PROVE next(g, s) = next(h, s)
      <4>1. CASE s = {}
        BY <4>1
      <4>2. CASE s # {}
        <5>1. g[s \ {Pick(s)}] = h[s \ {Pick(s)}]
          <6> HIDE DEF Small, g
          <6> QED
            BY <3>4, <3>6, <4>2
        <5> HIDE DEF g
        <5> QED
          BY <4>2, <5>1
      <4> QED
        BY <4>1, <4>2
    <3>8. UpTo(n, g)
      <4> HIDE DEF Small, next
      <4> QED
        BY <3>7
    <3> QED
      BY <2>2, <3>8
  <2> QED
    BY <2>3, <2>4
<1>2. Cardinality(S) \in Nat
  BY FS_CardinalityType
<1>3. PICK g : UpTo(Cardinality(S), g)
  BY <1>1, <1>2
<1>4. Small(Cardinality(S)) = SUBSET S
  <2>1. ASSUME NEW s \in SUBSET S PROVE Cardinality(s) <= Cardinality(S)
    BY FS_Subset
  <2> QED
    BY <2>1
<1> QED
  <2> HIDE DEF Small
  <2> QED
    BY <1>3, <1>4 DEF Partial

\* And the sum is the last of them.
LEMMA SumIsPartial ==
    ASSUME NEW f, NEW S, IsFiniteSet(S)
    PROVE  \E sum : Partial(f, S, sum) /\ SumFunctionOnSet(f, S) = sum[S]
<1>1. PICK g : Partial(f, S, g)
  BY PartialExists
<1> DEFINE Step(sum) == [s \in SUBSET S |->
                IF s = {} THEN 0 ELSE f[CHOOSE x \in s : TRUE] + sum[s \ {CHOOSE x \in s : TRUE}]]
           iter == CHOOSE sum : sum = Step(sum)
<1>2. g = Step(g)
  BY <1>1 DEF Partial, Pick
<1>3. iter = Step(iter)
  <2> HIDE DEF Step
  <2> QED
    BY <1>2
<1>4. Partial(f, S, iter)
  <2> HIDE DEF iter
  <2> QED
    BY <1>3 DEF Partial, Pick
<1>5. SumFunctionOnSet(f, S) = iter[S]
  BY DEF SumFunctionOnSet, FoldFunctionOnSet, MapThenFoldSet
<1> QED
  BY <1>4, <1>5

\* What a partial sum is, set by set.
LEMMA PartialStep ==
    ASSUME NEW f, NEW S, NEW sum, Partial(f, S, sum), NEW s \in SUBSET S
    PROVE  sum[s] = IF s = {} THEN 0 ELSE f[Pick(s)] + sum[s \ {Pick(s)}]
<1> DEFINE next(r) == IF r = {} THEN 0 ELSE f[Pick(r)] + sum[r \ {Pick(r)}]
<1>1. sum = [r \in SUBSET S |-> next(r)]
  BY DEF Partial
<1>2. sum[s] = next(s)
  <2> HIDE DEF next
  <2> QED
    BY <1>1
<1> QED
  BY <1>2

\* Partial sums of naturals are naturals.
LEMMA PartialNat ==
    ASSUME NEW S, IsFiniteSet(S), NEW f, \A x \in S : f[x] \in Nat,
           NEW sum, Partial(f, S, sum), NEW s0 \in SUBSET S
    PROVE  sum[s0] \in Nat
<1> DEFINE Bad == {s \in SUBSET S : sum[s] \notin Nat}
<1> SUFFICES ASSUME Bad # {} PROVE FALSE
  OBVIOUS
<1>1. PICK s \in Bad : \A x \in s : s \ {x} \notin Bad
  <2>1. Bad \in SUBSET (SUBSET S)
    OBVIOUS
  <2> HIDE DEF Bad
  <2> QED
    BY <2>1, SmallestSubset
<1>2. s \in SUBSET S /\ sum[s] \notin Nat
  BY <1>1
<1>3. \A x \in s : sum[s \ {x}] \in Nat
  BY <1>1, <1>2
<1> HIDE DEF Bad
<1>4. CASE s = {}
  BY <1>2, <1>4, PartialStep
<1>5. CASE s # {}
  <2>1. Pick(s) \in s /\ Pick(s) \in S
    BY <1>2, <1>5, PickIn
  <2>2. sum[s \ {Pick(s)}] \in Nat
    BY <1>3, <2>1
  <2>3. sum[s] = f[Pick(s)] + sum[s \ {Pick(s)}]
    BY <1>2, <1>5, PartialStep
  <2>4. f[Pick(s)] \in Nat
    BY <2>1
  <2> QED
    BY <1>2, <2>2, <2>3, <2>4
<1> QED
  BY <1>4, <1>5

\* Any element may be taken out first.
LEMMA PartialRemove ==
    ASSUME NEW S, IsFiniteSet(S), NEW f, \A x \in S : f[x] \in Nat,
           NEW sum, Partial(f, S, sum), NEW s0 \in SUBSET S, NEW x0 \in s0
    PROVE  sum[s0] = f[x0] + sum[s0 \ {x0}]
<1> DEFINE Bad == {s \in SUBSET S : \E x \in s : sum[s] # f[x] + sum[s \ {x}]}
<1> SUFFICES ASSUME Bad # {} PROVE FALSE
  OBVIOUS
<1>1. PICK s \in Bad : \A x \in s : s \ {x} \notin Bad
  <2>1. Bad \in SUBSET (SUBSET S)
    OBVIOUS
  <2> HIDE DEF Bad
  <2> QED
    BY <2>1, SmallestSubset
<1>2. PICK x \in s : sum[s] # f[x] + sum[s \ {x}]
  BY <1>1
<1> DEFINE z == Pick(s)
<1>3. z \in s /\ s \in SUBSET S
  BY <1>1, <1>2, PickIn
<1>4. sum[s] = f[z] + sum[s \ {z}]
  BY <1>2, <1>3, PartialStep
<1> HIDE DEF z
<1>5. x # z
  BY <1>2, <1>4
<1>6. sum[s \ {z}] = f[x] + sum[(s \ {z}) \ {x}]
  BY <1>1, <1>2, <1>3, <1>5
<1>7. sum[s \ {x}] = f[z] + sum[(s \ {x}) \ {z}]
  BY <1>1, <1>2, <1>3, <1>5
<1>8. (s \ {z}) \ {x} = (s \ {x}) \ {z}
  OBVIOUS
<1>9. /\ f[x] \in Nat /\ f[z] \in Nat /\ sum[(s \ {z}) \ {x}] \in Nat
  <2>1. (s \ {z}) \ {x} \in SUBSET S /\ x \in S /\ z \in S
    BY <1>2, <1>3
  <2> QED
    BY <2>1, PartialNat
<1>10. sum[s] = f[z] + (f[x] + sum[(s \ {z}) \ {x}])
  BY <1>4, <1>6
<1>11. f[x] + sum[s \ {x}] = f[x] + (f[z] + sum[(s \ {z}) \ {x}])
  BY <1>7, <1>8
<1> HIDE DEF Bad
<1>12. sum[s] = f[x] + sum[s \ {x}]
  BY <1>9, <1>10, <1>11
<1> QED
  BY <1>2, <1>12

\* Sums over the same elements of functions that agree there are the same.
LEMMA PartialAgree ==
    ASSUME NEW S, IsFiniteSet(S), NEW T, IsFiniteSet(T), NEW f, NEW g,
           NEW sum, Partial(f, S, sum), NEW tsum, Partial(g, T, tsum),
           NEW s0 \in SUBSET S, s0 \in SUBSET T, \A x \in s0 : f[x] = g[x]
    PROVE  sum[s0] = tsum[s0]
<1> DEFINE Bad == {s \in SUBSET s0 : sum[s] # tsum[s]}
<1> SUFFICES ASSUME Bad # {} PROVE FALSE
  OBVIOUS
<1>1. PICK s \in Bad : \A x \in s : s \ {x} \notin Bad
  <2>1. Bad \in SUBSET (SUBSET s0) /\ IsFiniteSet(s0)
    BY FS_Subset
  <2> HIDE DEF Bad
  <2> QED
    BY <2>1, SmallestSubset
<1>2. s \in SUBSET S /\ s \in SUBSET T /\ s \in SUBSET s0 /\ sum[s] # tsum[s]
  BY <1>1
<1>3. CASE s = {}
  BY <1>2, <1>3, PartialStep
<1>4. CASE s # {}
  <2>1. Pick(s) \in s /\ s \ {Pick(s)} \in SUBSET s0
    BY <1>2, <1>4, PickIn
  <2>2. sum[s \ {Pick(s)}] = tsum[s \ {Pick(s)}]
    BY <1>1, <2>1
  <2>3. f[Pick(s)] = g[Pick(s)]
    BY <1>2, <2>1
  <2>4. /\ sum[s] = f[Pick(s)] + sum[s \ {Pick(s)}]
        /\ tsum[s] = g[Pick(s)] + tsum[s \ {Pick(s)}]
    BY <1>2, <1>4, PartialStep
  <2> QED
    BY <1>2, <2>2, <2>3, <2>4
<1> QED
  BY <1>3, <1>4

-----------------------------------------------------------------------------
(* What the components' proofs cite.                                         *)

\* A sum of naturals is a natural.
LEMMA SumNat ==
    ASSUME NEW S, IsFiniteSet(S), NEW f, \A x \in S : f[x] \in Nat
    PROVE  SumFunctionOnSet(f, S) \in Nat
<1>1. PICK sum : Partial(f, S, sum) /\ SumFunctionOnSet(f, S) = sum[S]
  BY SumIsPartial
<1>2. S \in SUBSET S
  OBVIOUS
<1> QED
  BY <1>1, <1>2, PartialNat

\* One element apart.
LEMMA SumRemove ==
    ASSUME NEW S, IsFiniteSet(S), NEW f, \A x \in S : f[x] \in Nat, NEW x0 \in S
    PROVE  SumFunctionOnSet(f, S) = f[x0] + SumFunctionOnSet(f, S \ {x0})
<1>1. PICK sum : Partial(f, S, sum) /\ SumFunctionOnSet(f, S) = sum[S]
  BY SumIsPartial
<1>2. IsFiniteSet(S \ {x0})
  BY FS_Subset
<1>3. PICK rest : /\ Partial(f, S \ {x0}, rest)
                  /\ SumFunctionOnSet(f, S \ {x0}) = rest[S \ {x0}]
  BY <1>2, SumIsPartial
<1>4. S \ {x0} \in SUBSET S /\ S \ {x0} \in SUBSET (S \ {x0}) /\ S \in SUBSET S
  OBVIOUS
<1>5. sum[S \ {x0}] = rest[S \ {x0}]
  BY <1>1, <1>2, <1>3, <1>4, PartialAgree
<1>6. sum[S] = f[x0] + sum[S \ {x0}]
  BY <1>1, <1>4, PartialRemove
<1> QED
  BY <1>1, <1>3, <1>5, <1>6

\* Functions that agree on the set have one sum.
LEMMA SumAgree ==
    ASSUME NEW S, IsFiniteSet(S), NEW f, NEW g, \A x \in S : f[x] = g[x]
    PROVE  SumFunctionOnSet(f, S) = SumFunctionOnSet(g, S)
<1>1. PICK sum : Partial(f, S, sum) /\ SumFunctionOnSet(f, S) = sum[S]
  BY SumIsPartial
<1>2. PICK gsum : Partial(g, S, gsum) /\ SumFunctionOnSet(g, S) = gsum[S]
  BY SumIsPartial
<1>3. S \in SUBSET S
  OBVIOUS
<1> QED
  BY <1>1, <1>2, <1>3, PartialAgree

\* No element exceeds the sum.
LEMMA SumCovers ==
    ASSUME NEW S, IsFiniteSet(S), NEW f, \A x \in S : f[x] \in Nat, NEW x0 \in S
    PROVE  f[x0] <= SumFunctionOnSet(f, S)
<1>1. SumFunctionOnSet(f, S) = f[x0] + SumFunctionOnSet(f, S \ {x0})
  BY SumRemove
<1>2. SumFunctionOnSet(f, S \ {x0}) \in Nat
  <2>1. IsFiniteSet(S \ {x0})
    BY FS_Subset
  <2> QED
    BY <2>1, SumNat
<1> QED
  BY <1>1, <1>2

\* Changing one element changes the sum by the difference.
LEMMA SumUpdate ==
    ASSUME NEW S, IsFiniteSet(S), NEW f, \A x \in S : f[x] \in Nat,
           NEW g, \A x \in S : g[x] \in Nat,
           NEW x0 \in S, \A x \in S \ {x0} : g[x] = f[x]
    PROVE  SumFunctionOnSet(g, S) = SumFunctionOnSet(f, S) + g[x0] - f[x0]
<1>1. IsFiniteSet(S \ {x0})
  BY FS_Subset
<1>2. SumFunctionOnSet(g, S \ {x0}) = SumFunctionOnSet(f, S \ {x0})
  BY <1>1, SumAgree
<1>3. SumFunctionOnSet(f, S \ {x0}) \in Nat /\ f[x0] \in Nat /\ g[x0] \in Nat
  BY <1>1, SumNat
<1>4. /\ SumFunctionOnSet(f, S) = f[x0] + SumFunctionOnSet(f, S \ {x0})
      /\ SumFunctionOnSet(g, S) = g[x0] + SumFunctionOnSet(g, S \ {x0})
  BY SumRemove
<1> QED
  BY <1>2, <1>3, <1>4

\* Nothing sums to nothing.
LEMMA SumZero ==
    ASSUME NEW S, IsFiniteSet(S), NEW f, \A x \in S : f[x] = 0
    PROVE  SumFunctionOnSet(f, S) = 0
<1> DEFINE Bad == {s \in SUBSET S : SumFunctionOnSet(f, s) # 0}
<1> SUFFICES ASSUME Bad # {} PROVE FALSE
  OBVIOUS
<1>1. PICK s \in Bad : \A x \in s : s \ {x} \notin Bad
  <2>1. Bad \in SUBSET (SUBSET S)
    OBVIOUS
  <2> HIDE DEF Bad
  <2> QED
    BY <2>1, SmallestSubset
<1>2. s \in SUBSET S /\ SumFunctionOnSet(f, s) # 0
  BY <1>1
<1>3. \A x \in s : SumFunctionOnSet(f, s \ {x}) = 0
  BY <1>1, <1>2
<1>4. IsFiniteSet(s)
  BY <1>2, FS_Subset
<1> HIDE DEF Bad
<1>5. CASE s = {}
  <2>1. PICK sum : Partial(f, s, sum) /\ SumFunctionOnSet(f, s) = sum[s]
    BY <1>4, SumIsPartial
  <2>2. s \in SUBSET s
    OBVIOUS
  <2>3. sum[s] = 0
    BY <1>5, <2>1, <2>2, PartialStep
  <2> QED
    BY <1>2, <2>1, <2>3
<1>6. CASE s # {}
  <2>1. PICK x : x \in s
    BY <1>6
  <2>2. \A y \in s : f[y] \in Nat
    BY <1>2
  <2>3. SumFunctionOnSet(f, s) = f[x] + SumFunctionOnSet(f, s \ {x})
    BY <1>4, <2>1, <2>2, SumRemove
  <2> QED
    BY <1>2, <1>3, <2>1, <2>3
<1> QED
  BY <1>5, <1>6
\* Element by element within two others is within their sums.
LEMMA SumWithin ==
    ASSUME NEW S, IsFiniteSet(S), NEW f, NEW g, NEW h,
           \A x \in S : f[x] \in Nat /\ g[x] \in Nat /\ h[x] \in Nat /\ f[x] <= g[x] + h[x]
    PROVE  SumFunctionOnSet(f, S) <= SumFunctionOnSet(g, S) + SumFunctionOnSet(h, S)
<1> DEFINE F(s) == SumFunctionOnSet(f, s)
           G(s) == SumFunctionOnSet(g, s)
           H(s) == SumFunctionOnSet(h, s)
           Bad == {s \in SUBSET S : ~(F(s) <= G(s) + H(s))}
<1> SUFFICES ASSUME Bad # {} PROVE FALSE
  OBVIOUS
<1>1. PICK s \in Bad : \A x \in s : s \ {x} \notin Bad
  <2>1. Bad \in SUBSET (SUBSET S)
    OBVIOUS
  <2> HIDE DEF Bad
  <2> QED
    BY <2>1, SmallestSubset
<1>2. s \in SUBSET S /\ ~(F(s) <= G(s) + H(s))
  BY <1>1
<1>3. \A x \in s : F(s \ {x}) <= G(s \ {x}) + H(s \ {x})
  BY <1>1, <1>2
<1>4. IsFiniteSet(s)
  BY <1>2, FS_Subset
<1>5. \A x \in s : f[x] \in Nat /\ g[x] \in Nat /\ h[x] \in Nat /\ f[x] <= g[x] + h[x]
  BY <1>2
<1> HIDE DEF Bad
<1>6. CASE s = {}
  <2>1. F(s) = 0 /\ G(s) = 0 /\ H(s) = 0
    <3>1. \A x \in s : f[x] = 0 /\ g[x] = 0 /\ h[x] = 0
      BY <1>6
    <3> QED
      BY <1>4, <3>1, SumZero
  <2> QED
    BY <1>2, <2>1
<1>7. CASE s # {}
  <2>1. PICK x : x \in s
    BY <1>7
  <2>2. /\ F(s) = f[x] + F(s \ {x}) /\ G(s) = g[x] + G(s \ {x}) /\ H(s) = h[x] + H(s \ {x})
    BY <1>4, <1>5, <2>1, SumRemove
  <2>3. F(s \ {x}) \in Nat /\ G(s \ {x}) \in Nat /\ H(s \ {x}) \in Nat
    <3>1. IsFiniteSet(s \ {x}) /\ \A y \in s \ {x} : f[y] \in Nat /\ g[y] \in Nat /\ h[y] \in Nat
      BY <1>4, <1>5, FS_Subset
    <3> QED
      BY <3>1, SumNat
  <2>4. F(s \ {x}) <= G(s \ {x}) + H(s \ {x})
    BY <1>3, <2>1
  <2>5. f[x] \in Nat /\ g[x] \in Nat /\ h[x] \in Nat /\ f[x] <= g[x] + h[x]
    BY <1>5, <2>1
  <2> HIDE DEF F, G, H
  <2> QED
    BY <1>2, <2>2, <2>3, <2>4, <2>5
<1> QED
  BY <1>6, <1>7

\* The same but for two elements, which have a bound of their own.
LEMMA SumWithinButTwo ==
    ASSUME NEW S, IsFiniteSet(S), NEW f, NEW g, NEW h,
           \A x \in S : f[x] \in Nat /\ g[x] \in Nat /\ h[x] \in Nat,
           NEW x1 \in S, NEW x2 \in S, x1 # x2,
           \A x \in S \ {x1, x2} : f[x] <= g[x] + h[x]
    PROVE  SumFunctionOnSet(f, S) - SumFunctionOnSet(g, S) - SumFunctionOnSet(h, S)
             <= (f[x1] - g[x1]) + (f[x2] - g[x2])
<1> DEFINE T == (S \ {x1}) \ {x2}
<1>1. IsFiniteSet(S \ {x1}) /\ IsFiniteSet(T)
  BY FS_Subset
<1>2. T = S \ {x1, x2} /\ x2 \in S \ {x1}
  OBVIOUS
<1>3. \A x \in S \ {x1} : f[x] \in Nat /\ g[x] \in Nat /\ h[x] \in Nat
  OBVIOUS
<1>4. \A x \in T : f[x] \in Nat /\ g[x] \in Nat /\ h[x] \in Nat /\ f[x] <= g[x] + h[x]
  BY <1>2
<1>5. /\ SumFunctionOnSet(f, S) = f[x1] + SumFunctionOnSet(f, S \ {x1})
      /\ SumFunctionOnSet(g, S) = g[x1] + SumFunctionOnSet(g, S \ {x1})
      /\ SumFunctionOnSet(h, S) = h[x1] + SumFunctionOnSet(h, S \ {x1})
  BY SumRemove
<1>6. /\ SumFunctionOnSet(f, S \ {x1}) = f[x2] + SumFunctionOnSet(f, T)
      /\ SumFunctionOnSet(g, S \ {x1}) = g[x2] + SumFunctionOnSet(g, T)
      /\ SumFunctionOnSet(h, S \ {x1}) = h[x2] + SumFunctionOnSet(h, T)
  BY <1>1, <1>2, <1>3, SumRemove
<1> HIDE DEF T
<1>7. SumFunctionOnSet(f, T) \in Nat /\ SumFunctionOnSet(g, T) \in Nat /\ SumFunctionOnSet(h, T) \in Nat
  BY <1>1, <1>4, SumNat
<1>8. SumFunctionOnSet(f, T) <= SumFunctionOnSet(g, T) + SumFunctionOnSet(h, T)
  BY <1>1, <1>4, SumWithin
<1> QED
  BY <1>5, <1>6, <1>7, <1>8

\* A sum is at least another where every term is.
LEMMA SumMonotone ==
    ASSUME NEW S, IsFiniteSet(S), NEW f, NEW g,
           \A x \in S : f[x] \in Nat /\ g[x] \in Nat /\ f[x] <= g[x]
    PROVE  SumFunctionOnSet(f, S) <= SumFunctionOnSet(g, S)
<1> DEFINE h == [x \in S |-> 0]
<1>1. \A x \in S : h[x] \in Nat /\ h[x] = 0
  OBVIOUS
<1> HIDE DEF h
<1>2. \A x \in S : f[x] <= g[x] + h[x]
  BY <1>1
<1>3. SumFunctionOnSet(f, S) <= SumFunctionOnSet(g, S) + SumFunctionOnSet(h, S)
  BY <1>1, <1>2, SumWithin
<1>4. SumFunctionOnSet(h, S) = 0
  BY <1>1, SumZero
<1>5. SumFunctionOnSet(f, S) \in Nat /\ SumFunctionOnSet(g, S) \in Nat
  BY SumNat
<1> QED
  BY <1>3, <1>4, <1>5

\* It exceeds it by what one of the terms does.
LEMMA SumExceeds ==
    ASSUME NEW S, IsFiniteSet(S), NEW f, NEW g,
           \A x \in S : f[x] \in Nat /\ g[x] \in Nat /\ f[x] <= g[x],
           NEW x0 \in S, NEW c \in Nat, f[x0] + c <= g[x0]
    PROVE  SumFunctionOnSet(f, S) + c <= SumFunctionOnSet(g, S)
<1> DEFINE T == S \ {x0}
<1>1. IsFiniteSet(T) /\ \A x \in T : f[x] \in Nat /\ g[x] \in Nat /\ f[x] <= g[x]
  BY FS_Subset
<1>2. SumFunctionOnSet(f, S) = f[x0] + SumFunctionOnSet(f, T) /\ SumFunctionOnSet(g, S) = g[x0] + SumFunctionOnSet(g, T)
  BY SumRemove
<1> HIDE DEF T
<1>3. SumFunctionOnSet(f, T) <= SumFunctionOnSet(g, T)
  BY <1>1, SumMonotone
<1>4. SumFunctionOnSet(f, T) \in Nat /\ SumFunctionOnSet(g, T) \in Nat
  BY <1>1, SumNat
<1> QED
  BY <1>2, <1>3, <1>4
=============================================================================
