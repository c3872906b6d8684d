----------------------------- MODULE SumTheorems -----------------------------
(***************************************************************************)
(* Sums over finite sets.  The pages' totals are sums over the cart, over   *)
(* invoices and over terminals, written with SumFunction, a fold that takes *)
(* the elements in an unspecified order.  This module proves that the order *)
(* does not matter and how a sum changes with one summand.  Where an        *)
(* induction would be over the size of a set, a smallest set that does not *)
(* satisfy the claim is taken instead.                                     *)
(***************************************************************************)
EXTENDS Integers, FiniteSets, Functions, FiniteSetTheorems, WellFoundedInduction,
        TLAPS

-----------------------------------------------------------------------------
(* Smallest counterexamples.                                               *)

\* A set of naturals that is not empty has a least one.
LEMMA LeastNumber ==
  ASSUME NEW N \in SUBSET Nat, N # {}
  PROVE  \E n \in N : \A m \in N : n <= m
<1> DEFINE R == {ss \in Nat \X Nat : ss[1] < ss[2]}
<1>1. IsWellFoundedOn(R, Nat)
  BY NatLessThanWellFounded DEF OpToRel
<1>2. PICK n \in N : \A m \in N : <<m, n>> \notin R
  BY <1>1, WFMin
<1>3. ASSUME NEW m \in N PROVE n <= m
  <2>1. m \in Nat /\ n \in Nat /\ ~(m < n)
    BY <1>2
  <2> QED BY <2>1
<1> QED BY <1>3

\* Among sets of elements of a finite set there is one such that what is left of
\* it without one of its elements is not among them.
LEMMA SmallestSet ==
  ASSUME NEW T, IsFiniteSet(T), NEW Bad \in SUBSET SUBSET T, Bad # {}
  PROVE  \E U \in Bad : \A x \in U : U \ {x} \notin Bad
<1>1. \A U \in SUBSET T : IsFiniteSet(U) /\ Cardinality(U) \in Nat
  BY FS_Subset, FS_CardinalityType
<1>2. {Cardinality(U) : U \in Bad} \in SUBSET Nat /\ {Cardinality(U) : U \in Bad} # {}
  BY <1>1
<1>3. PICK n \in {Cardinality(U) : U \in Bad} :
          \A m \in {Cardinality(U) : U \in Bad} : n <= m
  BY <1>2, LeastNumber
<1>4. PICK U \in Bad : n = Cardinality(U)
  BY <1>3
<1>5. ASSUME NEW x \in U, U \ {x} \in Bad PROVE FALSE
  <2>1. IsFiniteSet(U) /\ Cardinality(U) \in Nat
    BY <1>1
  <2>2. Cardinality(U \ {x}) = Cardinality(U) - 1
    BY <2>1, FS_RemoveElement
  <2>3. Cardinality(U) <= Cardinality(U \ {x})
    BY <1>3, <1>4, <1>5
  <2> QED BY <2>1, <2>2, <2>3
<1> QED BY <1>5

-----------------------------------------------------------------------------
(* The fold.                                                               *)

\* What is to be summed: numbers at the elements of a finite set.
Summable(f, T) == IsFiniteSet(T) /\ \A x \in T : f[x] \in Int

Pick(U) == CHOOSE x \in U : TRUE
Step(f, T, g) ==
    [U \in SUBSET T |-> IF U = {} THEN 0 ELSE f[Pick(U)] + g[U \ {Pick(U)}]]

\* g gives the sum over every part of T.
SumsOf(f, T, g) ==
    /\ g \in [SUBSET T -> Int]
    /\ g[{}] = 0
    /\ \A U \in SUBSET T : U # {} => g[U] = f[Pick(U)] + g[U \ {Pick(U)}]

\* The fold picks one element after the other.
LEMMA SumByPicks ==
  \A f, T : SumFunctionOnSet(f, T) = (CHOOSE g : g = Step(f, T, g))[T]
BY Zenon DEF SumFunctionOnSet, FoldFunctionOnSet, MapThenFoldSet, Step, Pick

\* An element is picked of what is not empty.
LEMMA PickIn == \A U : U # {} => Pick(U) \in U
BY Zenon DEF Pick

\* Sums over the parts of up to k elements.
Parts(T, k) == {U \in SUBSET T : Cardinality(U) <= k}
PartSums(f, T, k, g) ==
    /\ g \in [Parts(T, k) -> Int]
    /\ g[{}] = 0
    /\ \A U \in Parts(T, k) : U # {} => g[U] = f[Pick(U)] + g[U \ {Pick(U)}]

\* What is left of a part without one element is a smaller part.
LEMMA SmallerPart ==
  ASSUME NEW T, IsFiniteSet(T), NEW k \in Nat, NEW U \in Parts(T, k), NEW x \in U
  PROVE  k # 0 /\ U \ {x} \in Parts(T, k - 1)
<1>1. IsFiniteSet(U) /\ U \in SUBSET T /\ Cardinality(U) <= k
  BY FS_Subset DEF Parts
<1>2. Cardinality(U) \in Nat /\ Cardinality(U \ {x}) = Cardinality(U) - 1
  BY <1>1, FS_CardinalityType, FS_RemoveElement
<1>3. Cardinality(U \ {x}) \in Nat
  BY <1>1, FS_CardinalityType, FS_RemoveElement
<1>4. k # 0 /\ Cardinality(U \ {x}) <= k - 1
  BY <1>1, <1>2, <1>3
<1> QED BY <1>1, <1>4 DEF Parts

\* The sums over the parts exist.
LEMMA PartSumsExist ==
  ASSUME NEW f, NEW T, Summable(f, T), NEW k \in Nat
  PROVE  \E g : PartSums(f, T, k, g)
<1> DEFINE Bad == {n \in Nat : ~\E g : PartSums(f, T, n, g)}
<1>0. IsFiniteSet(T) /\ \A x \in T : f[x] \in Int
  BY DEF Summable
<1>1. SUFFICES ASSUME Bad # {} PROVE FALSE
  OBVIOUS
<1>2. PICK n \in Bad : \A m \in Bad : n <= m
  BY <1>1, LeastNumber
<1>3. {} \in Parts(T, n)
  BY <1>2, FS_EmptySet DEF Parts
<1>4. CASE n = 0
  <2>1. PICK g : g = [U \in Parts(T, n) |-> 0]
    OBVIOUS
  <2>2. \A U \in Parts(T, n) : U = {}
    BY <1>0, <1>2, <1>4, SmallerPart
  <2>3. PartSums(f, T, n, g)
    BY <1>3, <2>1, <2>2 DEF PartSums
  <2> QED BY <1>2, <2>3
<1>5. CASE n # 0
  <2>1. n - 1 \in Nat /\ n - 1 \notin Bad
    BY <1>2, <1>5
  <2>2. PICK g : PartSums(f, T, n - 1, g)
    BY <2>1
  <2>3. PICK h : h = [U \in Parts(T, n) |->
                        IF U = {} THEN 0 ELSE f[Pick(U)] + g[U \ {Pick(U)}]]
    OBVIOUS
  <2>4. \A U \in Parts(T, n) : U # {} =>
            /\ Pick(U) \in T
            /\ U \ {Pick(U)} \in Parts(T, n - 1)
            /\ U \ {Pick(U)} \in Parts(T, n)
    <3> SUFFICES ASSUME NEW U \in Parts(T, n), U # {}
                 PROVE  /\ Pick(U) \in T
                        /\ U \ {Pick(U)} \in Parts(T, n - 1)
                        /\ U \ {Pick(U)} \in Parts(T, n)
      OBVIOUS
    <3>1. Pick(U) \in U /\ U \in SUBSET T
      BY PickIn DEF Parts
    <3>2. U \ {Pick(U)} \in Parts(T, n - 1)
      BY <1>0, <1>2, <3>1, SmallerPart
    <3>3. Cardinality(U \ {Pick(U)}) \in Nat
      BY <1>0, <3>1, FS_Subset, FS_CardinalityType
    <3>4. U \ {Pick(U)} \in Parts(T, n)
      BY <1>2, <3>2, <3>3 DEF Parts
    <3> QED BY <3>1, <3>2, <3>4
  <2>5. \A U \in Parts(T, n - 1) : U \in Parts(T, n) /\ h[U] = g[U]
    <3> SUFFICES ASSUME NEW U \in Parts(T, n - 1)
                 PROVE  U \in Parts(T, n) /\ h[U] = g[U]
      OBVIOUS
    <3>1. U \in SUBSET T /\ Cardinality(U) \in Nat /\ Cardinality(U) <= n - 1
      BY <1>0, FS_Subset, FS_CardinalityType DEF Parts
    <3>2. U \in Parts(T, n)
      BY <1>2, <3>1 DEF Parts
    <3> QED BY <2>2, <2>3, <3>2 DEF PartSums
  <2>6. \A U \in Parts(T, n - 1) : g[U] \in Int
    BY <2>2 DEF PartSums
  <2>7. h \in [Parts(T, n) -> Int]
    <3>1. \A U \in Parts(T, n) :
            (IF U = {} THEN 0 ELSE f[Pick(U)] + g[U \ {Pick(U)}]) \in Int
      <4> SUFFICES ASSUME NEW U \in Parts(T, n)
                   PROVE (IF U = {} THEN 0 ELSE f[Pick(U)] + g[U \ {Pick(U)}]) \in Int
        OBVIOUS
      <4>1. CASE U = {}
        BY <4>1
      <4>2. CASE U # {}
        <5>1. f[Pick(U)] \in Int /\ g[U \ {Pick(U)}] \in Int
          BY <1>0, <2>4, <2>6, <4>2
        <5> QED BY <4>2, <5>1
      <4> QED BY <4>1, <4>2
    <3> QED BY <2>3, <3>1
  <2>8. \A U \in Parts(T, n) : U # {} => h[U] = f[Pick(U)] + h[U \ {Pick(U)}]
    BY <2>3, <2>4, <2>5
  <2>9. PartSums(f, T, n, h)
    BY <1>3, <2>3, <2>7, <2>8 DEF PartSums
  <2> QED BY <1>2, <2>9
<1> QED BY <1>4, <1>5

\* Sums exist.
LEMMA SumsExist ==
  ASSUME NEW f, NEW T, Summable(f, T)
  PROVE  \E g : SumsOf(f, T, g)
<1>1. IsFiniteSet(T) /\ Cardinality(T) \in Nat
  BY FS_CardinalityType DEF Summable
<1>2. PICK g : PartSums(f, T, Cardinality(T), g)
  BY <1>1, PartSumsExist
<1>3. \A U \in SUBSET T : Cardinality(U) <= Cardinality(T)
  BY <1>1, FS_Subset
<1>4. Parts(T, Cardinality(T)) = SUBSET T
  BY <1>3 DEF Parts
<1> QED BY <1>2, <1>4 DEF PartSums, SumsOf

\* The fold gives the sum.
LEMMA FoldGivesSum ==
  ASSUME NEW f, NEW T, Summable(f, T), NEW g, SumsOf(f, T, g)
  PROVE  SumFunctionOnSet(f, T) = g[T]
<1>1. g = Step(f, T, g)
  <2>1. \A U \in SUBSET T : g[U] = IF U = {} THEN 0 ELSE f[Pick(U)] + g[U \ {Pick(U)}]
    BY DEF SumsOf
  <2>2. g \in [SUBSET T -> Int]
    BY DEF SumsOf
  <2> QED BY <2>1, <2>2 DEF Step
<1>2. PICK h : h = CHOOSE e : e = Step(f, T, e)
  OBVIOUS
<1>3. h = Step(f, T, h)
  BY <1>1, <1>2, Zenon
<1>4. \A U \in SUBSET T : h[U] = IF U = {} THEN 0 ELSE f[Pick(U)] + h[U \ {Pick(U)}]
  BY <1>3, Zenon DEF Step
<1>5. h[T] = g[T]
  <2> DEFINE Bad == {U \in SUBSET T : h[U] # g[U]}
  <2>1. SUFFICES ASSUME Bad # {} PROVE FALSE
    OBVIOUS
  <2>2. IsFiniteSet(T)
    BY DEF Summable
  <2>3. PICK U \in Bad : \A x \in U : U \ {x} \notin Bad
    BY <2>1, <2>2, SmallestSet
  <2>4. CASE U = {}
    BY <1>4, <2>3, <2>4 DEF SumsOf
  <2>5. CASE U # {}
    <3>1. Pick(U) \in U /\ U \ {Pick(U)} \in SUBSET T
      BY <2>5, PickIn
    <3>2. h[U \ {Pick(U)}] = g[U \ {Pick(U)}]
      BY <2>3, <3>1
    <3>3. h[U] = f[Pick(U)] + h[U \ {Pick(U)}] /\ g[U] = f[Pick(U)] + g[U \ {Pick(U)}]
      BY <1>4, <2>5 DEF SumsOf
    <3> QED BY <2>3, <3>2, <3>3
  <2> QED BY <2>4, <2>5
<1>6. SumFunctionOnSet(f, T) = h[T]
  BY <1>2, SumByPicks, Zenon
<1> QED BY <1>5, <1>6

\* Any element may be taken first.
LEMMA AnyOrder ==
  ASSUME NEW f, NEW T, Summable(f, T), NEW g, SumsOf(f, T, g)
  PROVE  \A U \in SUBSET T : \A x \in U : g[U] = f[x] + g[U \ {x}]
<1> DEFINE Bad == {U \in SUBSET T : \E x \in U : g[U] # f[x] + g[U \ {x}]}
<1>0. IsFiniteSet(T) /\ \A x \in T : f[x] \in Int
  BY DEF Summable
<1>1. SUFFICES ASSUME Bad # {} PROVE FALSE
  OBVIOUS
<1>2. PICK U \in Bad : \A x \in U : U \ {x} \notin Bad
  BY <1>0, <1>1, SmallestSet
<1>3. PICK x \in U : g[U] # f[x] + g[U \ {x}]
  BY <1>2
<1>4. PICK y : y = Pick(U)
  OBVIOUS
<1>5. y \in U /\ g[U] = f[y] + g[U \ {y}] /\ y # x
  BY <1>2, <1>3, <1>4, PickIn DEF SumsOf
<1>6. PICK V : V = (U \ {x}) \ {y}
  OBVIOUS
<1>7. V = (U \ {y}) \ {x} /\ V \in SUBSET T
  BY <1>6
<1>8. g[U \ {x}] = f[y] + g[V]
  <2>1. U \ {x} \in SUBSET T /\ U \ {x} \notin Bad /\ y \in U \ {x}
    BY <1>2, <1>5
  <2> QED BY <1>6, <2>1
<1>9. g[U \ {y}] = f[x] + g[V]
  <2>1. U \ {y} \in SUBSET T /\ U \ {y} \notin Bad /\ x \in U \ {y}
    BY <1>2, <1>5
  <2> QED BY <1>7, <2>1
<1>10. f[x] \in Int /\ f[y] \in Int /\ g[V] \in Int
  BY <1>0, <1>2, <1>5, <1>7 DEF SumsOf
<1> QED BY <1>3, <1>5, <1>8, <1>9, <1>10

-----------------------------------------------------------------------------
(* What the sums of the specifications do.                                 *)

\* The sum over a part is the fold's value there.
LEMMA SumOfPart ==
  ASSUME NEW f, NEW T, Summable(f, T), NEW g, SumsOf(f, T, g), NEW S \in SUBSET T
  PROVE  SumFunctionOnSet(f, S) = g[S]
<1>1. Summable(f, S)
  BY FS_Subset DEF Summable
<1>2. PICK h : h = [U \in SUBSET S |-> g[U]]
  OBVIOUS
<1>3. SumsOf(f, S, h)
  BY <1>2, PickIn DEF SumsOf
<1>4. SumFunctionOnSet(f, S) = h[S]
  BY <1>1, <1>3, FoldGivesSum
<1> QED BY <1>2, <1>4

\* Nothing sums to 0.
LEMMA SumOfNone == \A f : SumFunctionOnSet(f, {}) = 0
<1> SUFFICES ASSUME NEW f PROVE SumFunctionOnSet(f, {}) = 0
  OBVIOUS
<1>1. Summable(f, {})
  BY FS_EmptySet DEF Summable
<1>2. PICK g : SumsOf(f, {}, g)
  BY <1>1, SumsExist
<1> QED BY <1>1, <1>2, FoldGivesSum DEF SumsOf

\* A sum of integers is an integer.
LEMMA SumType ==
  ASSUME NEW f, NEW T, Summable(f, T)
  PROVE  SumFunctionOnSet(f, T) \in Int
<1>1. PICK g : SumsOf(f, T, g)
  BY SumsExist
<1>2. SumFunctionOnSet(f, T) = g[T]
  BY <1>1, FoldGivesSum
<1> QED BY <1>1, <1>2 DEF SumsOf

\* One element may be summed apart.
LEMMA SumTakes ==
  ASSUME NEW f, NEW T, Summable(f, T), NEW x \in T
  PROVE  /\ Summable(f, T \ {x})
         /\ SumFunctionOnSet(f, T) = f[x] + SumFunctionOnSet(f, T \ {x})
<1>1. PICK g : SumsOf(f, T, g)
  BY SumsExist
<1>2. SumFunctionOnSet(f, T) = g[T] /\ SumFunctionOnSet(f, T \ {x}) = g[T \ {x}]
  BY <1>1, FoldGivesSum, SumOfPart
<1>3. g[T] = f[x] + g[T \ {x}]
  BY <1>1, AnyOrder
<1>4. Summable(f, T \ {x})
  BY FS_Subset DEF Summable
<1> QED BY <1>2, <1>3, <1>4

\* f is nowhere above h.
NoMore(f, h, T) == \A x \in T : f[x] <= h[x]
Same(f, h, T) == \A x \in T : f[x] = h[x]
Zeros(f, T) == \A x \in T : f[x] = 0

\* Smaller summands have a smaller sum.
LEMMA SumAtMost ==
  ASSUME NEW f, NEW h, NEW T, Summable(f, T), Summable(h, T), NoMore(f, h, T)
  PROVE  SumFunctionOnSet(f, T) <= SumFunctionOnSet(h, T)
<1> DEFINE Bad == {U \in SUBSET T : ~(SumFunctionOnSet(f, U) <= SumFunctionOnSet(h, U))}
<1>1. \A U \in SUBSET T : Summable(f, U) /\ Summable(h, U)
  BY FS_Subset DEF Summable
<1>2. SUFFICES ASSUME Bad # {} PROVE FALSE
  OBVIOUS
<1>3. PICK U \in Bad : \A x \in U : U \ {x} \notin Bad
  <2>1. IsFiniteSet(T)
    BY DEF Summable
  <2> QED BY <1>2, <2>1, SmallestSet
<1>4. CASE U = {}
  <2>1. SumFunctionOnSet(f, U) = 0 /\ SumFunctionOnSet(h, U) = 0
    BY <1>4, SumOfNone
  <2> QED BY <1>3, <2>1
<1>5. CASE U # {}
  <2>1. PICK x \in U : TRUE
    BY <1>5
  <2>2. PICK V : V = U \ {x}
    OBVIOUS
  <2>3. SumFunctionOnSet(f, U) = f[x] + SumFunctionOnSet(f, V)
    BY <1>1, <1>3, <2>2, SumTakes
  <2>4. SumFunctionOnSet(h, U) = h[x] + SumFunctionOnSet(h, V)
    BY <1>1, <1>3, <2>2, SumTakes
  <2>5. V \in SUBSET T /\ SumFunctionOnSet(f, V) <= SumFunctionOnSet(h, V)
    BY <1>3, <2>2
  <2>6. SumFunctionOnSet(f, V) \in Int /\ SumFunctionOnSet(h, V) \in Int
    BY <1>1, <2>5, SumType
  <2>7. f[x] \in Int /\ h[x] \in Int /\ f[x] <= h[x]
    BY <1>3 DEF NoMore, Summable
  <2>8. SumFunctionOnSet(f, U) <= SumFunctionOnSet(h, U)
    BY <2>3, <2>4, <2>5, <2>6, <2>7
  <2> QED BY <1>3, <2>8
<1> QED BY <1>4, <1>5

\* Equal summands have equal sums.
LEMMA SumSame ==
  ASSUME NEW f, NEW h, NEW T, Summable(f, T), Same(f, h, T)
  PROVE  /\ Summable(h, T)
         /\ SumFunctionOnSet(f, T) = SumFunctionOnSet(h, T)
<1>1. Summable(h, T)
  BY DEF Summable, Same
<1>2. NoMore(f, h, T) /\ NoMore(h, f, T)
  BY <1>1 DEF Summable, Same, NoMore
<1>3. SumFunctionOnSet(f, T) <= SumFunctionOnSet(h, T)
  BY <1>1, <1>2, SumAtMost
<1>4. SumFunctionOnSet(h, T) <= SumFunctionOnSet(f, T)
  BY <1>1, <1>2, SumAtMost
<1>5. SumFunctionOnSet(f, T) \in Int /\ SumFunctionOnSet(h, T) \in Int
  BY <1>1, SumType
<1> QED BY <1>1, <1>3, <1>4, <1>5

\* Zeros sum to 0.
LEMMA SumOfZeros ==
  ASSUME NEW f, NEW T, IsFiniteSet(T), Zeros(f, T)
  PROVE  SumFunctionOnSet(f, T) = 0
<1>1. PICK g : g = [U \in SUBSET T |-> 0]
  OBVIOUS
<1>2. Summable(f, T)
  BY DEF Summable, Zeros
<1>3. SumsOf(f, T, g)
  <2>1. g \in [SUBSET T -> Int]
    BY <1>1
  <2>2. \A U \in SUBSET T : U # {} => g[U] = f[Pick(U)] + g[U \ {Pick(U)}]
    BY <1>1, PickIn DEF Zeros
  <2> QED BY <1>1, <2>1, <2>2 DEF SumsOf
<1>4. SumFunctionOnSet(f, T) = g[T]
  BY <1>2, <1>3, FoldGivesSum
<1> QED BY <1>1, <1>4

\* The summands differ at x only.
OnlyAt(f, h, T, x) == \A y \in T \ {x} : f[y] = h[y]

\* The sum changes by as much as its one different summand.
LEMMA SumChanges ==
  ASSUME NEW f, NEW h, NEW T, Summable(f, T), Summable(h, T),
         NEW x \in T, OnlyAt(f, h, T, x)
  PROVE  SumFunctionOnSet(h, T) = SumFunctionOnSet(f, T) - f[x] + h[x]
<1>1. PICK V : V = T \ {x}
  OBVIOUS
<1>2. Summable(f, V) /\ SumFunctionOnSet(f, T) = f[x] + SumFunctionOnSet(f, V)
  BY <1>1, SumTakes
<1>3. Summable(h, V) /\ SumFunctionOnSet(h, T) = h[x] + SumFunctionOnSet(h, V)
  BY <1>1, SumTakes
<1>4. Same(f, h, V)
  BY <1>1 DEF Same, OnlyAt
<1>5. SumFunctionOnSet(f, V) = SumFunctionOnSet(h, V)
  BY <1>2, <1>4, SumSame
<1>6. SumFunctionOnSet(f, V) \in Int
  BY <1>2, SumType
<1>7. f[x] \in Int /\ h[x] \in Int
  BY DEF Summable
<1> QED BY <1>2, <1>3, <1>5, <1>6, <1>7

\* An element more is a summand more.
LEMMA SumGains ==
  ASSUME NEW f, NEW T, NEW x, Summable(f, T \cup {x}), x \notin T
  PROVE  SumFunctionOnSet(f, T \cup {x}) = f[x] + SumFunctionOnSet(f, T)
<1>1. PICK U : U = T \cup {x}
  OBVIOUS
<1>2. x \in U /\ T = U \ {x}
  BY <1>1
<1> QED BY <1>1, <1>2, SumTakes

\* f is nowhere below zero.
NonNegative(f, T) == \A x \in T : f[x] >= 0

\* A part of a sum of numbers that are not negative is at most the sum.
LEMMA PartAtMost ==
  ASSUME NEW f, NEW T, Summable(f, T), NonNegative(f, T), NEW S \in SUBSET T
  PROVE  SumFunctionOnSet(f, S) <= SumFunctionOnSet(f, T)
<1> DEFINE Bad == {U \in SUBSET (T \ S) :
                     ~(SumFunctionOnSet(f, S) <= SumFunctionOnSet(f, S \cup U))}
<1>1. \A U \in SUBSET T : Summable(f, U)
  BY FS_Subset DEF Summable
<1>2. Bad = {}
  <2> SUFFICES ASSUME Bad # {} PROVE FALSE
    OBVIOUS
  <2>1. IsFiniteSet(T \ S)
    <3>1. T \ S \in SUBSET T /\ IsFiniteSet(T)
      BY DEF Summable
    <3> QED BY <3>1, FS_Subset
  <2>2. PICK U \in Bad : \A x \in U : U \ {x} \notin Bad
    BY <2>1, SmallestSet
  <2>3. SumFunctionOnSet(f, S) \in Int
    BY <1>1, SumType
  <2>4. U # {}
    <3>1. U = {} => S \cup U = S
      OBVIOUS
    <3> QED BY <2>2, <2>3, <3>1
  <2>5. PICK x \in U : TRUE
    BY <2>4
  <2>6. PICK V, W : V = S \cup U /\ W = S \cup (U \ {x})
    OBVIOUS
  <2>7. V \in SUBSET T /\ x \in V /\ W = V \ {x}
    BY <2>2, <2>6
  <2>8. SumFunctionOnSet(f, V) = f[x] + SumFunctionOnSet(f, W)
    BY <1>1, <2>7, SumTakes
  <2>9. SumFunctionOnSet(f, S) <= SumFunctionOnSet(f, W)
    BY <2>2, <2>6
  <2>10. SumFunctionOnSet(f, W) \in Int
    BY <1>1, <2>7, SumType
  <2>11. f[x] \in Int /\ f[x] >= 0
    BY <2>7 DEF NonNegative, Summable
  <2>12. SumFunctionOnSet(f, S) <= SumFunctionOnSet(f, V)
    BY <2>3, <2>8, <2>9, <2>10, <2>11
  <2> QED BY <2>2, <2>6, <2>12
<1>3. T \ S \in SUBSET (T \ S) /\ S \cup (T \ S) = T
  OBVIOUS
<1> QED BY <1>2, <1>3
=============================================================================
