----------------------------- MODULE SumTheorems -----------------------------
(* Sums over finite sets, as SumFunction of the module Functions defines     *)
(* them: that the recursive definition defines a function, that the order of *)
(* the terms does not matter, and the arithmetic that follows.               *)
EXTENDS FiniteSetTheorems, TLAPS

(* The element that SumFunctionOnSet takes next.                             *)
Pick(s) == CHOOSE x \in s: TRUE

(* g is the table of partial sums that SumFunctionOnSet is defined by.       *)
Unrolls(g, f, S) ==
  g = [s \in SUBSET S |-> IF s = {} THEN 0 ELSE f[Pick(s)] + g[s \ {Pick(s)}]]

(* The definition of the library, with its recursive function named.         *)
LEMMA SumByUnrolling ==
  ASSUME NEW f, NEW S
  PROVE  SumFunctionOnSet(f, S) = (CHOOSE g: Unrolls(g, f, S))[S]
BY DEF SumFunctionOnSet, FoldFunctionOnSet, MapThenFoldSet, Unrolls, Pick

(* Sets of subsets of a finite set have minimal elements; with this, and not *)
(* with an induction over an operator, every induction below is made.        *)
LEMMA MinimalSubset ==
  ASSUME NEW S, IsFiniteSet(S), NEW T, T \subseteq SUBSET S, T # {}
  PROVE  \E s \in T: \A t \in T: t \subseteq s => t = s
<1> DEFINE R == StrictSubsetOrdering(S)
<1>1. IsWellFoundedOn(R, SUBSET S)
  BY FS_StrictSubsetOrderingWellFounded, FS_FiniteSubsetsOfFinite
<1>2. ASSUME NEW s \in SUBSET S, NEW t \in SUBSET S, t \subseteq s, t # s
      PROVE  <<t, s>> \in R
  BY <1>2 DEF StrictSubsetOrdering
<1> HIDE DEF R
<1>3. PICK s \in T: \A t \in T: ~(<<t, s>> \in R)
  BY <1>1, WFMin, Zenon
<1>4. ASSUME NEW t \in T, t \subseteq s
      PROVE  t = s
  BY <1>2, <1>3, <1>4
<1> QED BY <1>4

(* The same of numbers.                                                      *)
LEMMA LeastNumber ==
  ASSUME NEW T, T \subseteq Nat, T # {}
  PROVE  \E n \in T: \A m \in T: n <= m
<1> DEFINE R == OpToRel(<, Nat)
<1>1. IsWellFoundedOn(R, Nat)
  BY NatLessThanWellFounded
<1>2. \A m, n \in Nat: m < n => <<m, n>> \in R
  BY DEF OpToRel
<1> HIDE DEF R
<1>3. PICK n \in T: \A m \in T: ~(<<m, n>> \in R)
  BY <1>1, WFMin, Zenon
<1>4. \A m \in T: ~(m < n)
  BY <1>2, <1>3
<1>5. \A m \in T: n <= m
  BY <1>4
<1> QED BY <1>5
(* Induction over the subsets of a finite set, what holds of them being a    *)
(* set: Good has a subset if it has what is left without one of its          *)
(* elements.                                                                 *)
LEMMA SubsetInduction ==
  ASSUME NEW S, IsFiniteSet(S), NEW Good, {} \in Good,
         \A s \in SUBSET S: \A x \in s: s \ {x} \in Good => s \in Good
  PROVE  SUBSET S \subseteq Good
<1> DEFINE Bad == (SUBSET S) \ Good
<1> SUFFICES ASSUME Bad # {} PROVE FALSE
  OBVIOUS
<1>1. PICK s \in Bad: \A t \in Bad: t \subseteq s => t = s
  <2>1. Bad \subseteq SUBSET S
    OBVIOUS
  <2> HIDE DEF Bad
  <2> QED BY <2>1, MinimalSubset
<1>2. PICK x \in s: TRUE
  OBVIOUS
<1>3. s \ {x} \in Good
  BY <1>1
<1> QED BY <1>2, <1>3

(* Induction over the natural numbers, in the same form.                     *)
LEMMA NumberInduction ==
  ASSUME NEW Good, 0 \in Good, \A n \in Nat: n \in Good => n + 1 \in Good
  PROVE  Nat \subseteq Good
<1> DEFINE Bad == Nat \ Good
<1> SUFFICES ASSUME Bad # {} PROVE FALSE
  OBVIOUS
<1>1. PICK n \in Bad: \A m \in Bad: n <= m
  BY LeastNumber
<1>2. n # 0 /\ n - 1 \in Nat
  OBVIOUS
<1>3. n - 1 \in Good
  BY <1>1, <1>2
<1> QED BY <1>2, <1>3

(* The same table, as far as the subsets of at most n elements.              *)
UnrollsUpTo(n, g, f, S) ==
  \A s \in SUBSET S: Cardinality(s) <= n =>
    g[s] = IF s = {} THEN 0 ELSE f[Pick(s)] + g[s \ {Pick(s)}]

(* Only a set that has elements is taken from.                               *)
LEMMA PickInSet == \A s: s # {} => Pick(s) \in s
BY DEF Pick

(* A table for n elements can be continued to n + 1 of them.                 *)
LEMMA UnrollingToNext ==
  ASSUME NEW f, NEW S, IsFiniteSet(S), NEW n \in Nat,
         NEW g, UnrollsUpTo(n, g, f, S)
  PROVE  \E h: UnrollsUpTo(n + 1, h, f, S)
<1> DEFINE h == [s \in SUBSET S |-> IF s = {} THEN 0 ELSE f[Pick(s)] + g[s \ {Pick(s)}]]
<1>1. ASSUME NEW s \in SUBSET S, Cardinality(s) <= n + 1, s # {}
      PROVE  h[s \ {Pick(s)}] = g[s \ {Pick(s)}]
  <2>1. Pick(s) \in s
    BY <1>1, PickInSet
  <2>2. IsFiniteSet(s)
    BY FS_Subset
  <2>3. Cardinality(s \ {Pick(s)}) = Cardinality(s) - 1
    BY <2>1, <2>2, FS_RemoveElement
  <2>4. Cardinality(s \ {Pick(s)}) <= n
    BY <1>1, <2>2, <2>3, FS_CardinalityType
  <2> QED BY <2>4 DEF UnrollsUpTo
<1>2. UnrollsUpTo(n + 1, h, f, S)
  BY <1>1 DEF UnrollsUpTo
<1> QED BY <1>2

(* The recursive definition defines something.                               *)
LEMMA UnrollingExists ==
  ASSUME NEW f, NEW S, IsFiniteSet(S)
  PROVE  \E g: Unrolls(g, f, S)
<1> DEFINE Good == {n \in Nat: \E g: UnrollsUpTo(n, g, f, S)}
<1>1. 0 \in Good
  <2> DEFINE g == [s \in SUBSET S |-> 0]
  <2>1. ASSUME NEW s \in SUBSET S, Cardinality(s) <= 0
        PROVE  s = {}
    BY <2>1, FS_Subset, FS_EmptySet, FS_CardinalityType
  <2>2. UnrollsUpTo(0, g, f, S)
    BY <2>1 DEF UnrollsUpTo
  <2> QED BY <2>2
<1>2. \A n \in Nat: n \in Good => n + 1 \in Good
  BY UnrollingToNext
<1>3. Cardinality(S) \in Nat
  BY FS_CardinalityType
<1>4. Cardinality(S) \in Good
  <2> HIDE DEF Good
  <2> QED BY <1>1, <1>2, <1>3, NumberInduction
<1>5. PICK g: UnrollsUpTo(Cardinality(S), g, f, S)
  BY <1>4
<1> DEFINE h == [s \in SUBSET S |-> g[s]]
<1>6. \A s \in SUBSET S: Cardinality(s) <= Cardinality(S)
  BY FS_Subset
<1>7. Unrolls(h, f, S)
  BY <1>5, <1>6, PickInSet DEF UnrollsUpTo, Unrolls
<1> QED BY <1>7

(* The tables of a set and of its subsets agree.                             *)
LEMMA UnrollingsAgree ==
  ASSUME NEW f, NEW S, IsFiniteSet(S), NEW T \in SUBSET S,
         NEW g, Unrolls(g, f, S), NEW h, Unrolls(h, f, T)
  PROVE  h[T] = g[T]
<1> DEFINE Good == {s \in SUBSET T: h[s] = g[s]}
<1>1. {} \in Good
  BY DEF Unrolls
<1>2. ASSUME NEW s \in SUBSET T, s # {}, s \ {Pick(s)} \in Good
      PROVE  s \in Good
  BY <1>2 DEF Unrolls
<1>3. IsFiniteSet(T)
  BY FS_Subset
<1> DEFINE Bad == (SUBSET T) \ Good
<1>4. SUFFICES ASSUME Bad # {} PROVE FALSE
  OBVIOUS
<1>5. PICK s \in Bad: \A t \in Bad: t \subseteq s => t = s
  <2>1. Bad \subseteq SUBSET T
    OBVIOUS
  <2> HIDE DEF Bad
  <2> QED BY <1>3, <1>4, <2>1, MinimalSubset
<1>6. s # {}
  BY <1>1
<1>7. Pick(s) \in s
  BY <1>6, PickInSet
<1>8. s \ {Pick(s)} \in Good
  BY <1>5, <1>7
<1> QED BY <1>2, <1>6, <1>8

(* The sum over nothing.                                                     *)
LEMMA SumEmpty ==
  ASSUME NEW f
  PROVE  SumFunctionOnSet(f, {}) = 0
<1>1. \E g: Unrolls(g, f, {})
  BY UnrollingExists, FS_EmptySet
<1> QED BY <1>1, SumByUnrolling DEF Unrolls

(* A sum is its first term and the rest.                                     *)
LEMMA SumUnrolled ==
  ASSUME NEW f, NEW S, IsFiniteSet(S), S # {}
  PROVE  SumFunctionOnSet(f, S) = f[Pick(S)] + SumFunctionOnSet(f, S \ {Pick(S)})
<1> DEFINE T == S \ {Pick(S)}
           g == CHOOSE g: Unrolls(g, f, S)
           h == CHOOSE h: Unrolls(h, f, T)
<1>1. IsFiniteSet(T) /\ T \in SUBSET S
  BY FS_Subset
<1>2. Unrolls(g, f, S)
  BY UnrollingExists
<1>3. Unrolls(h, f, T)
  BY <1>1, UnrollingExists
<1>4. h[T] = g[T]
  BY <1>1, <1>2, <1>3, UnrollingsAgree
<1>5. g[S] = f[Pick(S)] + g[T]
  BY <1>2 DEF Unrolls
<1>6. SumFunctionOnSet(f, S) = g[S] /\ SumFunctionOnSet(f, T) = h[T]
  BY SumByUnrolling
<1> QED BY <1>4, <1>5, <1>6
-----------------------------------------------------------------------------
(* Sums of integers are integers.                                            *)
LEMMA SumIsInt ==
  ASSUME NEW f, NEW S, IsFiniteSet(S), \A x \in S: f[x] \in Int
  PROVE  SumFunctionOnSet(f, S) \in Int
<1> DEFINE Good == {s \in SUBSET S: SumFunctionOnSet(f, s) \in Int}
           Bad == (SUBSET S) \ Good
<1>1. SUFFICES ASSUME Bad # {} PROVE FALSE
  OBVIOUS
<1>2. PICK s \in Bad: \A t \in Bad: t \subseteq s => t = s
  <2>1. Bad \subseteq SUBSET S
    OBVIOUS
  <2> HIDE DEF Bad
  <2> QED BY <1>1, <2>1, MinimalSubset
<1>3. s # {}
  BY SumEmpty
<1>4. Pick(s) \in s
  BY <1>3, PickInSet
<1>5. s \ {Pick(s)} \in Good
  BY <1>2, <1>4
<1>6. SumFunctionOnSet(f, s) = f[Pick(s)] + SumFunctionOnSet(f, s \ {Pick(s)})
  BY <1>3, SumUnrolled, FS_Subset
<1> QED BY <1>4, <1>5, <1>6

(* Whichever term is taken first, the sum is the same.                       *)
LEMMA SumRemove ==
  ASSUME NEW f, NEW S, IsFiniteSet(S), \A x \in S: f[x] \in Int, NEW x \in S
  PROVE  SumFunctionOnSet(f, S) = f[x] + SumFunctionOnSet(f, S \ {x})
<1> DEFINE Sum(s) == SumFunctionOnSet(f, s)
           Good == {s \in SUBSET S: \A y \in s: Sum(s) = f[y] + Sum(s \ {y})}
           Bad == (SUBSET S) \ Good
<1>1. SUFFICES ASSUME Bad # {} PROVE FALSE
  OBVIOUS
<1>2. PICK s \in Bad: \A t \in Bad: t \subseteq s => t = s
  <2>1. Bad \subseteq SUBSET S
    OBVIOUS
  <2> HIDE DEF Bad
  <2> QED BY <1>1, <2>1, MinimalSubset
<1>3. PICK y \in s: Sum(s) # f[y] + Sum(s \ {y})
  BY <1>2
<1> DEFINE p == Pick(s)
<1>4. p \in s
  BY PickInSet
<1>5. Sum(s) = f[p] + Sum(s \ {p})
  BY SumUnrolled, FS_Subset
<1>6. p # y
  BY <1>3, <1>5
<1>7. s \ {p} \in Good /\ s \ {y} \in Good
  BY <1>2, <1>4
<1>8. Sum(s \ {p}) = f[y] + Sum((s \ {p}) \ {y})
  BY <1>6, <1>7
<1>9. Sum(s \ {y}) = f[p] + Sum((s \ {y}) \ {p})
  BY <1>4, <1>6, <1>7
<1>10. Sum((s \ {p}) \ {y}) = Sum((s \ {y}) \ {p})
  <2>1. (s \ {p}) \ {y} = (s \ {y}) \ {p}
    OBVIOUS
  <2> HIDE DEF Sum, p
  <2> QED BY <2>1, Zenon
<1>11. Sum((s \ {y}) \ {p}) \in Int /\ f[p] \in Int /\ f[y] \in Int
  <2>1. (s \ {y}) \ {p} \in SUBSET S
    OBVIOUS
  <2> QED BY <1>4, <2>1, SumIsInt, FS_Subset
<1> HIDE DEF Sum, p, Good, Bad
<1> QED BY <1>3, <1>5, <1>8, <1>9, <1>10, <1>11

(* The sum depends on the terms only.                                        *)
LEMMA SumEqual ==
  ASSUME NEW f, NEW g, NEW S, IsFiniteSet(S), \A x \in S: f[x] \in Int /\ g[x] = f[x]
  PROVE  SumFunctionOnSet(g, S) = SumFunctionOnSet(f, S)
<1> DEFINE Good == {s \in SUBSET S: SumFunctionOnSet(g, s) = SumFunctionOnSet(f, s)}
<1>1. {} \in Good
  BY SumEmpty
<1>2. ASSUME NEW s \in SUBSET S, NEW x \in s, s \ {x} \in Good
      PROVE  s \in Good
  BY <1>2, SumRemove, FS_Subset
<1> HIDE DEF Good
<1>3. S \in Good
  BY <1>1, <1>2, SubsetInduction
<1> QED BY <1>3 DEF Good

(* Sums are added term by term ...                                           *)
LEMMA SumPlus ==
  ASSUME NEW f, NEW g, NEW h, NEW S, IsFiniteSet(S),
         \A x \in S: f[x] \in Int /\ g[x] \in Int /\ h[x] = f[x] + g[x]
  PROVE  SumFunctionOnSet(h, S) = SumFunctionOnSet(f, S) + SumFunctionOnSet(g, S)
<1> DEFINE Good == {s \in SUBSET S: /\ SumFunctionOnSet(h, s) = SumFunctionOnSet(f, s) + SumFunctionOnSet(g, s)}
<1>1. {} \in Good
  BY SumEmpty
<1>2. ASSUME NEW s \in SUBSET S, NEW x \in s, s \ {x} \in Good
      PROVE  s \in Good
  <2>1. IsFiniteSet(s) /\ IsFiniteSet(s \ {x})
    BY FS_Subset
  <2>2. SumFunctionOnSet(f, s \ {x}) \in Int /\ SumFunctionOnSet(g, s \ {x}) \in Int
    BY <2>1, SumIsInt
  <2>3. \A y \in s: h[y] \in Int
    OBVIOUS
  <2>4. SumFunctionOnSet(f, s) = f[x] + SumFunctionOnSet(f, s \ {x})
    BY <2>1, SumRemove
  <2>5. SumFunctionOnSet(g, s) = g[x] + SumFunctionOnSet(g, s \ {x})
    BY <2>1, SumRemove
  <2>6. SumFunctionOnSet(h, s) = h[x] + SumFunctionOnSet(h, s \ {x})
    BY <2>1, <2>3, SumRemove
  <2> QED BY <1>2, <2>2, <2>4, <2>5, <2>6
<1> HIDE DEF Good
<1>3. S \in Good
  BY <1>1, <1>2, SubsetInduction
<1> QED BY <1>3 DEF Good

(* ... and subtracted.                                                       *)
LEMMA SumMinus ==
  ASSUME NEW f, NEW g, NEW h, NEW S, IsFiniteSet(S),
         \A x \in S: f[x] \in Int /\ g[x] \in Int /\ h[x] = f[x] - g[x]
  PROVE  SumFunctionOnSet(h, S) = SumFunctionOnSet(f, S) - SumFunctionOnSet(g, S)
<1>1. \A x \in S: h[x] \in Int /\ f[x] = h[x] + g[x]
  OBVIOUS
<1>2. SumFunctionOnSet(f, S) = SumFunctionOnSet(h, S) + SumFunctionOnSet(g, S)
  BY <1>1, SumPlus
<1>3. SumFunctionOnSet(h, S) \in Int /\ SumFunctionOnSet(g, S) \in Int
  BY <1>1, SumIsInt
<1> QED BY <1>2, <1>3

(* Zeros add up to zero.                                                     *)
LEMMA SumZero ==
  ASSUME NEW f, NEW S, IsFiniteSet(S), \A x \in S: f[x] = 0
  PROVE  SumFunctionOnSet(f, S) = 0
<1>1. SumFunctionOnSet(f, S) = SumFunctionOnSet(f, S) + SumFunctionOnSet(f, S)
  BY SumPlus
<1>2. SumFunctionOnSet(f, S) \in Int
  BY SumIsInt
<1> QED BY <1>1, <1>2

(* Sums of naturals are naturals, and no term is greater.                    *)
LEMMA SumIsNat ==
  ASSUME NEW f, NEW S, IsFiniteSet(S), \A x \in S: f[x] \in Nat
  PROVE  /\ SumFunctionOnSet(f, S) \in Nat
         /\ \A x \in S: f[x] <= SumFunctionOnSet(f, S)
<1> DEFINE Good == {s \in SUBSET S: SumFunctionOnSet(f, s) \in Nat}
<1>1. {} \in Good
  BY SumEmpty
<1>2. ASSUME NEW s \in SUBSET S, NEW x \in s, s \ {x} \in Good
      PROVE  s \in Good
  BY <1>2, SumRemove, FS_Subset
<1>3. SUBSET S \subseteq Good
  <2> HIDE DEF Good
  <2> QED BY <1>1, <1>2, SubsetInduction
<1>4. SumFunctionOnSet(f, S) \in Nat
  BY <1>3
<1>5. ASSUME NEW x \in S
      PROVE  f[x] <= SumFunctionOnSet(f, S)
  <2>1. SumFunctionOnSet(f, S \ {x}) \in Nat
    BY <1>3
  <2>2. SumFunctionOnSet(f, S) = f[x] + SumFunctionOnSet(f, S \ {x})
    BY SumRemove
  <2> QED BY <2>1, <2>2
<1> QED BY <1>4, <1>5

(* Greater terms, greater sum.                                               *)
LEMMA SumMonotone ==
  ASSUME NEW f, NEW g, NEW S, IsFiniteSet(S),
         \A x \in S: f[x] \in Int /\ g[x] \in Int /\ f[x] <= g[x]
  PROVE  SumFunctionOnSet(f, S) <= SumFunctionOnSet(g, S)
<1> DEFINE h == [x \in S |-> g[x] - f[x]]
<1>1. \A x \in S: h[x] \in Nat
  OBVIOUS
<1>2. SumFunctionOnSet(h, S) = SumFunctionOnSet(g, S) - SumFunctionOnSet(f, S)
  BY SumMinus
<1>3. SumFunctionOnSet(h, S) \in Nat
  BY <1>1, SumIsNat
<1>4. SumFunctionOnSet(g, S) \in Int /\ SumFunctionOnSet(f, S) \in Int
  BY SumIsInt
<1> QED BY <1>2, <1>3, <1>4

(* A sum of naturals is positive if and only if a term is.                   *)
LEMMA SumPositive ==
  ASSUME NEW f, NEW S, IsFiniteSet(S), \A x \in S: f[x] \in Nat
  PROVE  SumFunctionOnSet(f, S) > 0 <=> \E x \in S: f[x] > 0
<1>1. ASSUME \A x \in S: ~(f[x] > 0)
      PROVE  SumFunctionOnSet(f, S) = 0
  BY <1>1, SumZero
<1>2. SumFunctionOnSet(f, S) \in Nat /\ \A x \in S: f[x] <= SumFunctionOnSet(f, S)
  BY SumIsNat
<1> QED BY <1>1, <1>2

(* A sum over two parts of a set.                                            *)
LEMMA SumSplit ==
  ASSUME NEW f, NEW S, IsFiniteSet(S), \A x \in S: f[x] \in Int, NEW T \in SUBSET S
  PROVE  SumFunctionOnSet(f, S) = SumFunctionOnSet(f, T) + SumFunctionOnSet(f, S \ T)
<1> DEFINE in == [x \in S |-> IF x \in T THEN f[x] ELSE 0]
           out == [x \in S |-> IF x \in T THEN 0 ELSE f[x]]
           Good == {s \in SUBSET S: /\ SumFunctionOnSet(in, s) = SumFunctionOnSet(f, s \cap T)
                                    /\ SumFunctionOnSet(out, s) = SumFunctionOnSet(f, s \ T)}
<1>1. SumFunctionOnSet(f, S) = SumFunctionOnSet(in, S) + SumFunctionOnSet(out, S)
  BY SumPlus
<1>2. {} \in Good
  <2>1. {} \cap T = {} /\ {} \ T = {}
    OBVIOUS
  <2> QED BY <2>1, SumEmpty
<1>3. ASSUME NEW s \in SUBSET S, NEW x \in s, s \ {x} \in Good
      PROVE  s \in Good
  <2>1. IsFiniteSet(s) /\ IsFiniteSet(s \cap T) /\ IsFiniteSet(s \ T)
    BY FS_Subset
  <2>2. SumFunctionOnSet(in, s) = in[x] + SumFunctionOnSet(in, s \ {x})
    BY <2>1, SumRemove
  <2>3. SumFunctionOnSet(out, s) = out[x] + SumFunctionOnSet(out, s \ {x})
    BY <2>1, SumRemove
  <2>4. SumFunctionOnSet(f, s \cap T) \in Int /\ SumFunctionOnSet(f, s \ T) \in Int
    BY <2>1, SumIsInt
  <2>5. CASE x \in T
    <3>1. SumFunctionOnSet(f, s \cap T) = f[x] + SumFunctionOnSet(f, (s \cap T) \ {x})
      BY <2>1, <2>5, SumRemove
    <3>2. (s \cap T) \ {x} = (s \ {x}) \cap T /\ s \ T = (s \ {x}) \ T
      BY <2>5
    <3> QED BY <1>3, <2>2, <2>3, <2>4, <2>5, <3>1, <3>2
  <2>6. CASE x \notin T
    <3>1. SumFunctionOnSet(f, s \ T) = f[x] + SumFunctionOnSet(f, (s \ T) \ {x})
      BY <2>1, <2>6, SumRemove
    <3>2. (s \ T) \ {x} = (s \ {x}) \ T /\ s \cap T = (s \ {x}) \cap T
      BY <2>6
    <3>3. in[x] = 0 /\ out[x] = f[x]
      BY <2>6
    <3>4. SumFunctionOnSet(in, s) = SumFunctionOnSet(in, s \ {x})
      <4>1. SumFunctionOnSet(in, s \ {x}) \in Int
        BY <2>1, SumIsInt, FS_Subset
      <4> QED BY <2>2, <3>3, <4>1
    <3>5. SumFunctionOnSet(out, s) = SumFunctionOnSet(f, s \ T)
      BY <1>3, <2>3, <3>1, <3>2, <3>3
    <3> QED BY <1>3, <3>2, <3>4, <3>5
  <2> QED BY <2>5, <2>6
<1>4. S \in Good
  <2> HIDE DEF Good
  <2> QED BY <1>2, <1>3, SubsetInduction
<1>5. S \cap T = T
  OBVIOUS
<1> QED BY <1>1, <1>4, <1>5

(* What is zero can be left out.                                             *)
LEMMA SumSupport ==
  ASSUME NEW f, NEW S, IsFiniteSet(S), NEW T \in SUBSET S,
         \A x \in T: f[x] \in Int, \A x \in S \ T: f[x] = 0
  PROVE  SumFunctionOnSet(f, S) = SumFunctionOnSet(f, T)
<1>1. SumFunctionOnSet(f, S \ T) = 0
  BY SumZero, FS_Subset
<1>2. SumFunctionOnSet(f, T) \in Int
  BY SumIsInt, FS_Subset
<1>3. SumFunctionOnSet(f, S) = SumFunctionOnSet(f, T) + SumFunctionOnSet(f, S \ T)
  BY SumSplit
<1> QED BY <1>1, <1>2, <1>3

(* t has the terms of f by their second argument; r has the sums of the rows *)
(* of f.                                                                     *)
Transposed(t, f, A, B) == \A a \in A: \A b \in B: f[a][b] \in Int /\ t[b][a] = f[a][b]
RowSums(r, f, A, B) == \A a \in A: r[a] = SumFunctionOnSet(f[a], B)

(* A table adds up to the same by rows and by columns.                       *)
LEMMA SumSwap ==
  ASSUME NEW A, NEW B, IsFiniteSet(A), IsFiniteSet(B), NEW f, NEW t, NEW r, NEW c,
         Transposed(t, f, A, B), RowSums(r, f, A, B), RowSums(c, t, B, A)
  PROVE  SumFunctionOnSet(r, A) = SumFunctionOnSet(c, B)
<1> USE DEF Transposed, RowSums
<1> DEFINE part(s) == [b \in B |-> SumFunctionOnSet(t[b], s)]
           Good == {s \in SUBSET A: SumFunctionOnSet(r, s) = SumFunctionOnSet(part(s), B)}
<1>1. {} \in Good
  <2>1. \A b \in B: part({})[b] = 0
    BY SumEmpty
  <2>2. SumFunctionOnSet(part({}), B) = 0
    BY <2>1, SumZero
  <2> QED BY <2>2, SumEmpty
<1>2. ASSUME NEW s \in SUBSET A, NEW x \in s, s \ {x} \in Good
      PROVE  s \in Good
  <2>1. IsFiniteSet(s) /\ IsFiniteSet(s \ {x})
    BY FS_Subset
  <2>2. \A a \in s: r[a] \in Int
    BY SumIsInt
  <2>3. SumFunctionOnSet(r, s) = r[x] + SumFunctionOnSet(r, s \ {x})
    BY <2>1, <2>2, SumRemove
  <2>4. ASSUME NEW b \in B
        PROVE  /\ part(s \ {x})[b] \in Int
               /\ part(s)[b] = f[x][b] + part(s \ {x})[b]
    <3>1. \A a \in s: t[b][a] \in Int
      OBVIOUS
    <3>2. SumFunctionOnSet(t[b], s) = t[b][x] + SumFunctionOnSet(t[b], s \ {x})
      BY <2>1, <3>1, SumRemove
    <3>3. SumFunctionOnSet(t[b], s \ {x}) \in Int
      BY <2>1, <3>1, SumIsInt
    <3> QED BY <3>2, <3>3
  <2>5. SumFunctionOnSet(part(s), B) = SumFunctionOnSet(f[x], B) + SumFunctionOnSet(part(s \ {x}), B)
    <3>1. \A b \in B: f[x][b] \in Int
      OBVIOUS
    <3> DEFINE g == f[x]
               u == part(s \ {x})
               h == part(s)
    <3>2. \A b \in B: g[b] \in Int /\ u[b] \in Int /\ h[b] = g[b] + u[b]
      BY <2>4, <3>1
    <3> HIDE DEF g, u, h, part, Good
    <3>3. SumFunctionOnSet(h, B) = SumFunctionOnSet(g, B) + SumFunctionOnSet(u, B)
      BY <3>2, SumPlus
    <3> QED BY <3>3 DEF g, u, h
  <2> QED BY <1>2, <2>3, <2>5
<1>3. A \in Good
  <2> HIDE DEF Good
  <2> QED BY <1>1, <1>2, SubsetInduction
<1>4. \A b \in B: c[b] \in Int /\ part(A)[b] = c[b]
  <2>1. ASSUME NEW b \in B
        PROVE  SumFunctionOnSet(t[b], A) \in Int
    BY SumIsInt
  <2> QED BY <2>1
<1>5. SumFunctionOnSet(part(A), B) = SumFunctionOnSet(c, B)
  <2> HIDE DEF part
  <2> QED BY <1>4, SumEqual
<1> QED BY <1>3, <1>5

(* A change of one term changes the sum by as much.                          *)
LEMMA SumUpdate ==
  ASSUME NEW f, NEW g, NEW S, IsFiniteSet(S), NEW x \in S,
         \A y \in S: f[y] \in Int /\ g[y] \in Int, \A y \in S \ {x}: g[y] = f[y]
  PROVE  SumFunctionOnSet(g, S) = SumFunctionOnSet(f, S) + (g[x] - f[x])
<1>1. IsFiniteSet(S \ {x})
  BY FS_Subset
<1>2. SumFunctionOnSet(g, S \ {x}) = SumFunctionOnSet(f, S \ {x})
  BY <1>1, SumEqual
<1>3. SumFunctionOnSet(f, S \ {x}) \in Int
  BY <1>1, SumIsInt
<1>4. SumFunctionOnSet(f, S) = f[x] + SumFunctionOnSet(f, S \ {x})
  BY SumRemove
<1>5. SumFunctionOnSet(g, S) = g[x] + SumFunctionOnSet(g, S \ {x})
  BY SumRemove
<1> QED BY <1>2, <1>3, <1>4, <1>5

(* What a function makes of a finite set is finite.                          *)
LEMMA ImageFinite ==
  ASSUME NEW S, IsFiniteSet(S), NEW f
  PROVE  IsFiniteSet({f[x]: x \in S})
<1> DEFINE T == {f[x]: x \in S}
           g == [x \in S |-> f[x]]
<1>1. g \in Surjection(S, T)
  BY DEF Surjection
<1> QED BY <1>1, FS_Surjection

(* A sum of one term.                                                        *)
LEMMA SumSingle ==
  ASSUME NEW f, NEW x, f[x] \in Int
  PROVE  SumFunctionOnSet(f, {x}) = f[x]
<1>1. IsFiniteSet({x}) /\ {x} \ {x} = {}
  BY FS_Singleton
<1>2. SumFunctionOnSet(f, {x}) = f[x] + SumFunctionOnSet(f, {x} \ {x})
  BY <1>1, SumRemove
<1> QED BY <1>1, <1>2, SumEmpty

(* A function by key: every element has its key in K, and g holds each key's *)
(* sum of f.                                                                 *)
KeyedSums(g, f, key, S, K) ==
  /\ \A x \in S: key[x] \in K /\ f[x] \in Int
  /\ \A k \in K: g[k] = SumFunctionOnSet(f, {x \in S: key[x] = k})

(* A sum is the sum of its sums by key.                                      *)
LEMMA SumPartition ==
  ASSUME NEW S, IsFiniteSet(S), NEW K, IsFiniteSet(K), NEW f, NEW key, NEW g,
         KeyedSums(g, f, key, S, K)
  PROVE  SumFunctionOnSet(g, K) = SumFunctionOnSet(f, S)
<1> DEFINE of(L) == {x \in S: key[x] \in L}
           Good == {L \in SUBSET K: SumFunctionOnSet(g, L) = SumFunctionOnSet(f, of(L))}
<1>1. \A x \in S: key[x] \in K /\ f[x] \in Int
  BY DEF KeyedSums
<1>2. ASSUME NEW k \in K
      PROVE  g[k] = SumFunctionOnSet(f, {x \in S: key[x] = k}) /\ g[k] \in Int
  <2> DEFINE here == {x \in S: key[x] = k}
  <2>1. IsFiniteSet(here) /\ \A x \in here: f[x] \in Int
    BY <1>1, FS_Subset
  <2>2. g[k] = SumFunctionOnSet(f, here)
    BY DEF KeyedSums
  <2> HIDE DEF here
  <2>3. SumFunctionOnSet(f, here) \in Int
    BY <2>1, SumIsInt
  <2> QED BY <2>2, <2>3 DEF here
<1>3. {} \in Good
  <2>1. of({}) = {}
    OBVIOUS
  <2> QED BY <2>1, SumEmpty
<1>4. ASSUME NEW L \in SUBSET K, NEW k \in L, L \ {k} \in Good
      PROVE  L \in Good
  <2> DEFINE here == {x \in S: key[x] = k}
  <2>1. IsFiniteSet(L) /\ IsFiniteSet(of(L)) /\ \A x \in of(L): f[x] \in Int
    BY <1>1, FS_Subset
  <2>2. \A l \in L: g[l] \in Int
    BY <1>2
  <2>3. SumFunctionOnSet(g, L) = g[k] + SumFunctionOnSet(g, L \ {k})
    BY <2>1, <2>2, SumRemove
  <2>4. here \in SUBSET of(L) /\ of(L) \ here = of(L \ {k})
    OBVIOUS
  <2>5. g[k] = SumFunctionOnSet(f, here)
    BY <1>2
  <2>6. SumFunctionOnSet(g, L \ {k}) = SumFunctionOnSet(f, of(L \ {k}))
    BY <1>4
  <2> HIDE DEF of, here
  <2>7. SumFunctionOnSet(f, of(L)) = SumFunctionOnSet(f, here) + SumFunctionOnSet(f, of(L) \ here)
    BY <2>1, <2>4, SumSplit
  <2> QED BY <2>3, <2>4, <2>5, <2>6, <2>7 DEF of
<1>5. K \in Good
  <2> HIDE DEF Good
  <2> QED BY <1>3, <1>4, SubsetInduction
<1>6. of(K) = S
  BY <1>1
<1> QED BY <1>5, <1>6

(* The same terms under other names.                                         *)
LEMMA SumRename ==
  ASSUME NEW K, IsFiniteSet(K), NEW R, \A k, l \in K: R[k] = R[l] => k = l,
         NEW f, NEW g, \A k \in K: g[k] \in Int /\ f[R[k]] = g[k]
  PROVE  SumFunctionOnSet(f, {R[k]: k \in K}) = SumFunctionOnSet(g, K)
<1> DEFINE T == {R[k]: k \in K}
<1>1. ASSUME NEW t \in T
      PROVE  f[t] = SumFunctionOnSet(g, {k \in K: R[k] = t})
  <2>1. PICK k \in K: R[k] = t
    OBVIOUS
  <2>2. {l \in K: R[l] = t} = {k}
    BY <2>1
  <2>3. g[k] \in Int /\ f[t] = g[k]
    BY <2>1
  <2>4. SumFunctionOnSet(g, {k}) = g[k]
    BY <2>3, SumSingle
  <2> QED BY <2>2, <2>3, <2>4
<1>2. IsFiniteSet(T)
  BY ImageFinite
<1>3. KeyedSums(f, g, R, K, T)
  BY <1>1 DEF KeyedSums
<1> HIDE DEF T
<1>4. SumFunctionOnSet(f, T) = SumFunctionOnSet(g, K)
  BY <1>2, <1>3, SumPartition
<1> QED BY <1>4 DEF T

(* Counting is adding ones.                                                  *)
LEMMA SumOfOnes ==
  ASSUME NEW S, IsFiniteSet(S), NEW f, \A x \in S: f[x] = 1
  PROVE  SumFunctionOnSet(f, S) = Cardinality(S)
<1> DEFINE Good == {s \in SUBSET S: SumFunctionOnSet(f, s) = Cardinality(s)}
<1>1. {} \in Good
  BY SumEmpty, FS_EmptySet
<1>2. ASSUME NEW s \in SUBSET S, NEW x \in s, s \ {x} \in Good
      PROVE  s \in Good
  <2>1. IsFiniteSet(s) /\ \A y \in s: f[y] \in Int
    BY FS_Subset
  <2>2. SumFunctionOnSet(f, s) = 1 + SumFunctionOnSet(f, s \ {x})
    BY <2>1, SumRemove
  <2>3. Cardinality(s \ {x}) = Cardinality(s) - 1 /\ Cardinality(s) \in Nat
    BY <2>1, FS_RemoveElement, FS_CardinalityType
  <2> QED BY <1>2, <2>2, <2>3
<1>3. S \in Good
  <2> HIDE DEF Good
  <2> QED BY <1>1, <1>2, SubsetInduction
<1> QED BY <1>3

(* A count of the elements of S by key.                                      *)
KeyedCounts(g, key, S, K) ==
  /\ \A x \in S: key[x] \in K
  /\ \A k \in K: g[k] = Cardinality({x \in S: key[x] = k})

(* A count is the sum of its counts by key.                                  *)
LEMMA CardinalityByKey ==
  ASSUME NEW S, IsFiniteSet(S), NEW K, IsFiniteSet(K), NEW key, NEW g,
         KeyedCounts(g, key, S, K)
  PROVE  SumFunctionOnSet(g, K) = Cardinality(S)
<1> DEFINE f == [x \in S |-> 1]
<1>1. ASSUME NEW k \in K
      PROVE  g[k] = SumFunctionOnSet(f, {x \in S: key[x] = k})
  <2> DEFINE here == {x \in S: key[x] = k}
  <2>1. IsFiniteSet(here) /\ \A x \in here: f[x] = 1
    BY FS_Subset
  <2>2. g[k] = Cardinality(here)
    BY DEF KeyedCounts
  <2> HIDE DEF here, f
  <2>3. SumFunctionOnSet(f, here) = Cardinality(here)
    BY <2>1, SumOfOnes
  <2> QED BY <2>2, <2>3 DEF here
<1>2. KeyedSums(g, f, key, S, K)
  BY <1>1 DEF KeyedSums, KeyedCounts
<1>3. \A x \in S: f[x] = 1
  OBVIOUS
<1> HIDE DEF f
<1>4. SumFunctionOnSet(f, S) = Cardinality(S)
  BY <1>3, SumOfOnes
<1>5. SumFunctionOnSet(g, K) = SumFunctionOnSet(f, S)
  BY <1>2, SumPartition
<1> QED BY <1>4, <1>5

(* Terms that are all multiplied by a number.                                *)
LEMMA SumScale ==
  ASSUME NEW S, IsFiniteSet(S), NEW f, NEW g, NEW k \in Int,
         \A x \in S: f[x] \in Int /\ g[x] = f[x] * k
  PROVE  SumFunctionOnSet(g, S) = SumFunctionOnSet(f, S) * k
<1> DEFINE Good == {s \in SUBSET S: SumFunctionOnSet(g, s) = SumFunctionOnSet(f, s) * k}
<1>1. {} \in Good
  <2>1. SumFunctionOnSet(g, {}) = 0 /\ SumFunctionOnSet(f, {}) = 0
    BY SumEmpty
  <2> QED BY <2>1
<1>2. ASSUME NEW s \in SUBSET S, NEW x \in s, s \ {x} \in Good
      PROVE  s \in Good
  <2>1. IsFiniteSet(s) /\ IsFiniteSet(s \ {x})
    BY FS_Subset
  <2>2. \A y \in S: g[y] \in Int
    OBVIOUS
  <2>3. SumFunctionOnSet(g, s) = g[x] + SumFunctionOnSet(g, s \ {x})
    BY <2>1, <2>2, SumRemove
  <2>4. SumFunctionOnSet(f, s) = f[x] + SumFunctionOnSet(f, s \ {x})
    BY <2>1, SumRemove
  <2>5. SumFunctionOnSet(f, s \ {x}) \in Int
    BY <2>1, SumIsInt
  <2>6. SumFunctionOnSet(g, s \ {x}) = SumFunctionOnSet(f, s \ {x}) * k
    BY <1>2
  <2> DEFINE a == f[x]
             b == SumFunctionOnSet(f, s \ {x})
  <2>7. a \in Int /\ b \in Int /\ g[x] = a * k
    BY <2>5
  <2>8. SumFunctionOnSet(g, s) = a * k + b * k /\ SumFunctionOnSet(f, s) = a + b
    BY <2>3, <2>4, <2>6
  <2> HIDE DEF a, b
  <2>9. (a + b) * k = a * k + b * k
    BY <2>7
  <2> QED BY <2>8, <2>9
<1> HIDE DEF Good
<1>3. S \in Good
  BY <1>1, <1>2, SubsetInduction
<1> QED BY <1>3 DEF Good
=============================================================================
