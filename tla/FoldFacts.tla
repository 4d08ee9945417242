----------------------------- MODULE FoldFacts -----------------------------
(***************************************************************************)
(* What the folds of the community modules compute.  A fold is a recursive *)
(* function on the subsets of a finite set (MapThenFoldSet): that there is *)
(* one, and that there is only one, follows by induction on cardinality,   *)
(* and the induction from a least counterexample (WFMin).                  *)
(***************************************************************************)
EXTENDS FiniteSetTheorems, WellFoundedInduction, SequenceTheorems, Functions, SequencesExt, TLAPS

\* Induction, for a set of natural numbers.
LEMMA NatSetInduction ==
  ASSUME NEW A, 0 \in A, \A n \in Nat : n \in A => n + 1 \in A
  PROVE  \A n \in Nat : n \in A
<1> DEFINE rest == {n \in Nat : n \notin A}
<1> SUFFICES ASSUME rest # {} PROVE FALSE
  OBVIOUS
<1>1. rest \subseteq Nat
  OBVIOUS
<1> HIDE DEF rest
<1>2. PICK x \in rest : \A y \in rest : ~(<<y, x>> \in OpToRel(<, Nat))
  BY <1>1, NatLessThanWellFounded, WFMin, Zenon
<1>3. \A y \in rest : ~(y < x)
  BY <1>1, <1>2 DEF OpToRel
<1>4. x \in Nat /\ x \notin A /\ x # 0
  BY DEF rest
<1>5. x - 1 \in Nat /\ (x - 1) + 1 = x /\ x - 1 < x
  BY <1>4
<1>6. x - 1 \in A
  BY <1>3, <1>5 DEF rest
<1> QED
  BY <1>4, <1>5, <1>6

-----------------------------------------------------------------------------
\* A recursive function on the subsets of D, that takes an element away at a time.
Choice(c, D) == \A T \in SUBSET D : T # {} => c[T] \in T
Recursion(g, D, base, c, h) ==
  \A T \in SUBSET D : g[T] = IF T = {} THEN base ELSE h[<<c[T], g[T \ {c[T]}]>>]

\* The subsets of D with at most n elements, and a function defined on them.
Small(D, n) == {T \in SUBSET D : Cardinality(T) <= n}
PartialRecursion(g, D, n, base, c, h) ==
  \A T \in Small(D, n) : g[T] = IF T = {} THEN base ELSE h[<<c[T], g[T \ {c[T]}]>>]

LEMMA SmallFacts ==
  ASSUME NEW D, IsFiniteSet(D)
  PROVE  /\ Small(D, 0) = {{}}
         /\ \A n \in Nat : Small(D, n) \subseteq Small(D, n + 1)
         /\ \A n \in Nat : \A T \in Small(D, n + 1) : \A x \in T : T \ {x} \in Small(D, n)
         /\ \A T \in SUBSET D : IsFiniteSet(T) /\ Cardinality(T) \in Nat /\ T \in Small(D, Cardinality(D))
<1>1. \A T \in SUBSET D : IsFiniteSet(T) /\ Cardinality(T) \in Nat /\ Cardinality(T) <= Cardinality(D)
  BY FS_Subset, FS_CardinalityType
<1>2. \A T \in SUBSET D : Cardinality(T) = 0 <=> T = {}
  BY <1>1, FS_EmptySet
<1>3. {} \in SUBSET D
  OBVIOUS
<1>4. Small(D, 0) = {{}}
  BY <1>1, <1>2, <1>3 DEF Small
<1>5. \A n \in Nat : Small(D, n) \subseteq Small(D, n + 1)
  BY <1>1 DEF Small
<1>6. ASSUME NEW n \in Nat, NEW T \in Small(D, n + 1), NEW x \in T
      PROVE  T \ {x} \in Small(D, n)
  <2>1. T \in SUBSET D /\ Cardinality(T) <= n + 1 /\ IsFiniteSet(T) /\ Cardinality(T) \in Nat
    BY <1>1 DEF Small
  <2>2. Cardinality(T \ {x}) = Cardinality(T) - 1
    BY <2>1, FS_RemoveElement
  <2>3. T \ {x} \in SUBSET D
    BY <2>1
  <2> QED
    BY <2>1, <2>2, <2>3 DEF Small
<1> QED
  BY <1>1, <1>4, <1>5, <1>6 DEF Small

\* There is such a function.
LEMMA SetRecursionExists ==
  ASSUME NEW D, IsFiniteSet(D), NEW V, NEW base \in V, NEW c, Choice(c, D), NEW h \in [D \X V -> V]
  PROVE  \E g \in [SUBSET D -> V] : Recursion(g, D, base, c, h)
<1> DEFINE A == {n \in Nat : \E g \in [Small(D, n) -> V] : PartialRecursion(g, D, n, base, c, h)}
<1>1. 0 \in A
  <2> DEFINE g == [T \in Small(D, 0) |-> base]
  <2>1. g \in [Small(D, 0) -> V] /\ PartialRecursion(g, D, 0, base, c, h)
    BY SmallFacts DEF PartialRecursion
  <2> QED
    BY <2>1
<1>2. ASSUME NEW n \in Nat, n \in A PROVE n + 1 \in A
  <2>1. PICK g \in [Small(D, n) -> V] : PartialRecursion(g, D, n, base, c, h)
    BY <1>2
  <2> DEFINE k == [T \in Small(D, n + 1) |-> IF T = {} THEN base ELSE h[<<c[T], g[T \ {c[T]}]>>]]
  <2>2. \A T \in Small(D, n + 1) : T # {} => c[T] \in T /\ c[T] \in D /\ T \ {c[T]} \in Small(D, n)
    BY SmallFacts DEF Choice, Small
  <2>3. \A T \in Small(D, n + 1) : T # {} => g[T \ {c[T]}] \in V /\ h[<<c[T], g[T \ {c[T]}]>>] \in V
    BY <2>2
  <2>4. k \in [Small(D, n + 1) -> V]
    BY <2>3
  <2>5. Small(D, n) \subseteq Small(D, n + 1)
    BY SmallFacts
  <2>6. \A T \in Small(D, n) : k[T] = g[T]
    BY <2>1, <2>5 DEF PartialRecursion
  <2>7. \A T \in Small(D, n + 1) : k[T] = IF T = {} THEN base ELSE h[<<c[T], k[T \ {c[T]}]>>]
    BY <2>2, <2>6
  <2>8. PartialRecursion(k, D, n + 1, base, c, h)
    BY <2>7 DEF PartialRecursion
  <2> HIDE DEF k
  <2> QED
    BY <2>4, <2>8
<1> HIDE DEF A
<1>3. \A n \in Nat : n \in A
  BY <1>1, <1>2, NatSetInduction
<1>4. Cardinality(D) \in Nat /\ SUBSET D = Small(D, Cardinality(D))
  BY SmallFacts, FS_CardinalityType DEF Small
<1>5. PICK g \in [SUBSET D -> V] : PartialRecursion(g, D, Cardinality(D), base, c, h)
  BY <1>3, <1>4 DEF A
<1>6. Recursion(g, D, base, c, h)
  BY <1>4, <1>5 DEF PartialRecursion, Recursion
<1> QED
  BY <1>6

\* There is only one: two functions agree when each set has an element without which they do.
Alike(f, g, D) == \A T \in SUBSET D : T # {} => \E x \in T : f[T \ {x}] = g[T \ {x}] => f[T] = g[T]

LEMMA SetRecursionAgrees ==
  ASSUME NEW D, IsFiniteSet(D), NEW f, NEW g, f[{}] = g[{}], Alike(f, g, D)
  PROVE  \A T \in SUBSET D : f[T] = g[T]
<1> DEFINE A == {n \in Nat : \A T \in Small(D, n) : f[T] = g[T]}
<1>1. 0 \in A
  <2>1. \A T \in Small(D, 0) : T = {}
    BY SmallFacts
  <2> QED
    BY <2>1
<1>2. ASSUME NEW n \in Nat, n \in A PROVE n + 1 \in A
  <2> SUFFICES ASSUME NEW T \in Small(D, n + 1) PROVE f[T] = g[T]
    OBVIOUS
  <2>1. T \in SUBSET D
    BY DEF Small
  <2>2. CASE T = {}
    BY <2>2
  <2>3. CASE T # {}
    <3>1. PICK x \in T : f[T \ {x}] = g[T \ {x}] => f[T] = g[T]
      BY <2>1, <2>3 DEF Alike
    <3>2. T \ {x} \in Small(D, n)
      BY SmallFacts
    <3> QED
      BY <1>2, <3>1, <3>2
  <2> QED
    BY <2>2, <2>3
<1> HIDE DEF A
<1>3. \A n \in Nat : n \in A
  BY <1>1, <1>2, NatSetInduction
<1>4. Cardinality(D) \in Nat
  BY FS_CardinalityType
<1> QED
  BY <1>3, <1>4, SmallFacts DEF A

-----------------------------------------------------------------------------
\* Sums.  SumFunctionOnSet takes any element away first.
AnyOf(D) == [T \in SUBSET D |-> CHOOSE x \in T : TRUE]
Added(f, D) == [p \in D \X Int |-> f[p[1]] + p[2]]
Sums(g, f, D) == g \in [SUBSET D -> Int] /\ Recursion(g, D, 0, AnyOf(D), Added(f, D))

LEMMA AnyOfFacts ==
  ASSUME NEW D
  PROVE  /\ Choice(AnyOf(D), D)
         /\ \A T \in SUBSET D : AnyOf(D)[T] = CHOOSE x \in T : TRUE
<1>1. \A T \in SUBSET D : AnyOf(D)[T] = CHOOSE x \in T : TRUE
  BY DEF AnyOf
<1>2. \A T : T # {} => (CHOOSE x \in T : TRUE) \in T
  OBVIOUS
<1> QED
  BY <1>1, <1>2 DEF Choice

LEMMA AddedFacts ==
  ASSUME NEW f, NEW D, \A x \in D : f[x] \in Int
  PROVE  /\ Added(f, D) \in [D \X Int -> Int]
         /\ \A x \in D : \A v \in Int : Added(f, D)[<<x, v>>] = f[x] + v
BY DEF Added

\* The recursive function that SumFunctionOnSet is defined by.
LEMMA SumIsDefined ==
  ASSUME NEW f, NEW D, IsFiniteSet(D), \A x \in D : f[x] \in Int
  PROVE  \E g : SumFunctionOnSet(f, D) = g[D] /\ Sums(g, f, D)
<1> DEFINE Body(g) == [T \in SUBSET D |-> IF T = {} THEN 0
                                          ELSE f[CHOOSE x \in T : TRUE] + g[T \ {CHOOSE x \in T : TRUE}]]
           iter == CHOOSE g : g = Body(g)
<1>0. /\ Added(f, D) \in [D \X Int -> Int] /\ Choice(AnyOf(D), D) /\ 0 \in Int
      /\ \A x \in D : \A v \in Int : Added(f, D)[<<x, v>>] = f[x] + v
  <2>1. Choice(AnyOf(D), D)
    BY AnyOfFacts
  <2>2. Added(f, D) \in [D \X Int -> Int] /\ \A x \in D : \A v \in Int : Added(f, D)[<<x, v>>] = f[x] + v
    BY DEF Added
  <2> QED
    BY <2>1, <2>2
<1>1. PICK g \in [SUBSET D -> Int] : Recursion(g, D, 0, AnyOf(D), Added(f, D))
  BY <1>0, SetRecursionExists, Zenon
<1>2. \A k \in [SUBSET D -> Int] : k = Body(k) <=> Recursion(k, D, 0, AnyOf(D), Added(f, D))
  <2> SUFFICES ASSUME NEW k \in [SUBSET D -> Int]
               PROVE  k = Body(k) <=> Recursion(k, D, 0, AnyOf(D), Added(f, D))
    OBVIOUS
  <2>1. ASSUME NEW T \in SUBSET D, T # {}
        PROVE  Added(f, D)[<<AnyOf(D)[T], k[T \ {AnyOf(D)[T]}]>>]
                 = f[CHOOSE x \in T : TRUE] + k[T \ {CHOOSE x \in T : TRUE}]
    <3>1. PICK y : y = CHOOSE x \in T : TRUE
      OBVIOUS
    <3>2. y \in T /\ y \in D /\ AnyOf(D)[T] = y
      BY <2>1, <3>1, AnyOfFacts
    <3>3. k[T \ {y}] \in Int
      OBVIOUS
    <3>4. Added(f, D)[<<y, k[T \ {y}]>>] = f[y] + k[T \ {y}]
      BY <1>0, <3>2, <3>3
    <3> QED
      BY <3>1, <3>2, <3>4
  <2> QED
    BY <2>1 DEF Recursion
<1>3. g = Body(g)
  BY <1>1, <1>2
<1> HIDE DEF Body
<1>4. iter = Body(iter)
  BY <1>3
<1> USE DEF Body
<1>5. iter \in [SUBSET D -> Int]
  <2>1. DOMAIN iter = SUBSET D /\ iter = [T \in SUBSET D |-> iter[T]]
    BY <1>4
  <2>2. \A T \in SUBSET D : iter[T] = Body(iter)[T]
    BY <1>4
  <2> HIDE DEF iter, Body
  <2> DEFINE A == {n \in Nat : \A T \in Small(D, n) : iter[T] \in Int}
  <2>3. 0 \in A
    <3>1. iter[{}] = 0
      BY <2>2 DEF Body
    <3>2. \A T \in Small(D, 0) : T = {}
      BY SmallFacts
    <3>3. \A T \in Small(D, 0) : iter[T] = 0
      BY <3>1, <3>2
    <3> QED
      BY <3>3
  <2>4. ASSUME NEW n \in Nat, n \in A PROVE n + 1 \in A
    <3> SUFFICES ASSUME NEW T \in Small(D, n + 1) PROVE iter[T] \in Int
      OBVIOUS
    <3>1. T \in SUBSET D
      BY DEF Small
    <3>2. CASE T = {}
      BY <2>3, <3>2, SmallFacts
    <3>3. CASE T # {}
      <4>1. PICK y : y = CHOOSE x \in T : TRUE
        OBVIOUS
      <4>2. y \in T /\ y \in D
        BY <3>1, <3>3, <4>1
      <4>3. iter[T] = f[y] + iter[T \ {y}]
        BY <2>2, <3>1, <3>3, <4>1 DEF Body
      <4>4. iter[T \ {y}] \in Int
        BY <2>4, <4>2, SmallFacts
      <4> QED
        BY <4>2, <4>3, <4>4
    <3> QED
      BY <3>2, <3>3
  <2> HIDE DEF A
  <2>5. \A n \in Nat : n \in A
    BY <2>3, <2>4, NatSetInduction
  <2>6. \A T \in SUBSET D : iter[T] \in Int
    BY <2>5, SmallFacts, FS_CardinalityType DEF A
  <2> QED
    BY <2>1, <2>6
<1>6. Sums(iter, f, D)
  BY <1>2, <1>4, <1>5 DEF Sums
<1>7. SumFunctionOnSet(f, D) = iter[D]
  BY DEF SumFunctionOnSet, FoldFunctionOnSet, MapThenFoldSet
<1> HIDE DEF iter
<1> QED
  BY <1>6, <1>7

LEMMA SumStep ==
  ASSUME NEW g, NEW f, NEW D, Sums(g, f, D), \A x \in D : f[x] \in Int
  PROVE  /\ g[{}] = 0 /\ \A T \in SUBSET D : g[T] \in Int
         /\ \A T \in SUBSET D : T # {} => \E y \in T : g[T] = f[y] + g[T \ {y}]
<1>1. g \in [SUBSET D -> Int] /\ Recursion(g, D, 0, AnyOf(D), Added(f, D))
  BY DEF Sums
<1>2. g[{}] = 0
  BY <1>1 DEF Recursion
<1>3. \A x \in D : \A v \in Int : Added(f, D)[<<x, v>>] = f[x] + v
  BY DEF Added
<1>4. ASSUME NEW T \in SUBSET D, T # {} PROVE \E y \in T : g[T] = f[y] + g[T \ {y}]
  <2>1. PICK y : y = AnyOf(D)[T]
    OBVIOUS
  <2>2. y \in T /\ y \in D
    BY <1>4, <2>1, AnyOfFacts DEF Choice
  <2>3. g[T \ {y}] \in Int
    BY <1>1
  <2>4. g[T] = Added(f, D)[<<y, g[T \ {y}]>>]
    BY <1>1, <1>4, <2>1 DEF Recursion
  <2> QED
    BY <1>3, <2>2, <2>3, <2>4
<1> QED
  BY <1>1, <1>2, <1>4

\* The order does not matter.
LEMMA SumsAnyOrder ==
  ASSUME NEW g, NEW f, NEW D, IsFiniteSet(D), Sums(g, f, D), \A x \in D : f[x] \in Int
  PROVE  \A T \in SUBSET D : \A x \in T : g[T] = f[x] + g[T \ {x}]
<1>1. /\ g[{}] = 0 /\ \A T \in SUBSET D : g[T] \in Int
      /\ \A T \in SUBSET D : T # {} => \E y \in T : g[T] = f[y] + g[T \ {y}]
  BY SumStep
<1> DEFINE A == {n \in Nat : \A T \in Small(D, n) : \A x \in T : g[T] = f[x] + g[T \ {x}]}
<1>2. 0 \in A
  <2>1. \A T \in Small(D, 0) : T = {}
    BY SmallFacts
  <2> QED
    BY <2>1
<1>3. ASSUME NEW n \in Nat, n \in A PROVE n + 1 \in A
  <2> SUFFICES ASSUME NEW T \in Small(D, n + 1), NEW x \in T PROVE g[T] = f[x] + g[T \ {x}]
    OBVIOUS
  <2>1. T \in SUBSET D
    BY DEF Small
  <2>2. PICK y \in T : g[T] = f[y] + g[T \ {y}]
    BY <1>1, <2>1
  <2>3. CASE y = x
    BY <2>2, <2>3
  <2>4. CASE y # x
    <3>1. T \ {x} \in Small(D, n) /\ T \ {y} \in Small(D, n)
      BY SmallFacts
    <3>2. y \in T \ {x} /\ x \in T \ {y} /\ (T \ {x}) \ {y} = (T \ {y}) \ {x}
      BY <2>4
    <3>3. g[T \ {x}] = f[y] + g[(T \ {x}) \ {y}]
      BY <1>3, <3>1, <3>2
    <3>4. g[T \ {y}] = f[x] + g[(T \ {y}) \ {x}]
      BY <1>3, <3>1, <3>2
    <3>5. PICK rest : rest = g[(T \ {x}) \ {y}]
      OBVIOUS
    <3>6. rest \in Int /\ f[x] \in Int /\ f[y] \in Int
      BY <1>1, <2>1, <3>5
    <3>7. g[T \ {x}] = f[y] + rest /\ g[T \ {y}] = f[x] + rest
      BY <3>2, <3>3, <3>4, <3>5
    <3> HIDE <3>3, <3>4
    <3> QED
      BY <2>2, <3>6, <3>7
  <2> QED
    BY <2>3, <2>4
<1> HIDE DEF A
<1>4. \A n \in Nat : n \in A
  BY <1>2, <1>3, NatSetInduction
<1>5. Cardinality(D) \in Nat
  BY FS_CardinalityType
<1> QED
  BY <1>4, <1>5, SmallFacts DEF A

\* Sums of functions that agree on the smaller set agree.
LEMMA SumsAgree ==
  ASSUME NEW g, NEW f, NEW D, IsFiniteSet(D), Sums(g, f, D), \A x \in D : f[x] \in Int,
         NEW k, NEW e, NEW E, D \subseteq E, Sums(k, e, E), \A x \in E : e[x] \in Int,
         \A x \in D : e[x] = f[x]
  PROVE  g[D] = k[D]
<1>1. g \in [SUBSET D -> Int] /\ Recursion(g, D, 0, AnyOf(D), Added(f, D))
  BY DEF Sums
<1>2. k \in [SUBSET E -> Int] /\ Recursion(k, E, 0, AnyOf(E), Added(e, E))
  BY DEF Sums
<1>3. g[{}] = k[{}]
  BY <1>1, <1>2 DEF Recursion
<1>4. ASSUME NEW T \in SUBSET D, T # {}
      PROVE  \E x \in T : g[T \ {x}] = k[T \ {x}] => g[T] = k[T]
  <2>1. PICK x : x = AnyOf(D)[T]
    OBVIOUS
  <2>2. x \in T /\ x \in D /\ x = AnyOf(E)[T] /\ T \in SUBSET E
    BY <1>4, <2>1, AnyOfFacts DEF Choice
  <2>3. g[T] = Added(f, D)[<<x, g[T \ {x}]>>]
    BY <1>1, <1>4, <2>1 DEF Recursion
  <2>4. k[T] = Added(e, E)[<<x, k[T \ {x}]>>]
    BY <1>2, <1>4, <2>2 DEF Recursion
  <2>5. g[T \ {x}] \in Int
    BY <1>1
  <2>6. \A v \in Int : Added(f, D)[<<x, v>>] = Added(e, E)[<<x, v>>]
    BY <2>2 DEF Added
  <2> QED
    BY <2>2, <2>3, <2>4, <2>5, <2>6
<1>5. Alike(g, k, D)
  BY <1>4 DEF Alike
<1>6. \A T \in SUBSET D : g[T] = k[T]
  BY <1>3, <1>5, SetRecursionAgrees
<1> QED
  BY <1>6

\* A sum over nothing.
THEOREM SumOfNone ==
  ASSUME NEW f PROVE SumFunctionOnSet(f, {}) = 0
<1>1. PICK g : SumFunctionOnSet(f, {}) = g[{}] /\ Sums(g, f, {})
  BY FS_EmptySet, SumIsDefined
<1> QED
  BY <1>1, SumStep

\* A sum of integers is one.
THEOREM SumType ==
  ASSUME NEW f, NEW D, IsFiniteSet(D), \A x \in D : f[x] \in Int
  PROVE  SumFunctionOnSet(f, D) \in Int
BY SumIsDefined, SumStep

\* A sum depends on the values summed only.
THEOREM SumAgrees ==
  ASSUME NEW f, NEW e, NEW D, IsFiniteSet(D), \A x \in D : f[x] \in Int /\ f[x] = e[x]
  PROVE  SumFunctionOnSet(f, D) = SumFunctionOnSet(e, D)
<1>1. PICK g : SumFunctionOnSet(f, D) = g[D] /\ Sums(g, f, D)
  BY SumIsDefined
<1>2. \A x \in D : e[x] \in Int
  OBVIOUS
<1>3. PICK k : SumFunctionOnSet(e, D) = k[D] /\ Sums(k, e, D)
  BY <1>2, SumIsDefined
<1>4. g[D] = k[D]
  BY <1>1, <1>2, <1>3, SumsAgree
<1> QED
  BY <1>1, <1>3, <1>4

\* A sum with one value more.
THEOREM SumOfOneMore ==
  ASSUME NEW f, NEW D, IsFiniteSet(D), NEW y, y \notin D, \A x \in D \cup {y} : f[x] \in Int
  PROVE  SumFunctionOnSet(f, D \cup {y}) = f[y] + SumFunctionOnSet(f, D)
<1> DEFINE E == D \cup {y}
<1>1. IsFiniteSet(E) /\ D \subseteq E /\ y \in E /\ E \ {y} = D /\ \A x \in D : f[x] \in Int
  BY FS_AddElement
<1>2. \A x \in E : f[x] \in Int
  OBVIOUS
<1> HIDE DEF E
<1>3. PICK g : SumFunctionOnSet(f, E) = g[E] /\ Sums(g, f, E)
  BY <1>1, <1>2, SumIsDefined
<1>4. PICK k : SumFunctionOnSet(f, D) = k[D] /\ Sums(k, f, D)
  BY <1>1, SumIsDefined
<1>5. k[D] = g[D]
  BY <1>1, <1>2, <1>3, <1>4, SumsAgree
<1>6. g[E] = f[y] + g[E \ {y}]
  BY <1>1, <1>2, <1>3, SumsAnyOrder
<1> QED
  BY <1>1, <1>3, <1>4, <1>5, <1>6 DEF E

-----------------------------------------------------------------------------
\* Induction, for the subsets of a finite set.
LEMMA SubsetInduction ==
  ASSUME NEW D, IsFiniteSet(D), NEW A, {} \in A,
         \A T \in SUBSET D : \A x \in D \ T : T \in A => T \cup {x} \in A
  PROVE  D \in A
<1> DEFINE B == {n \in Nat : \A T \in Small(D, n) : T \in A}
<1>1. 0 \in B
  <2>1. \A T \in Small(D, 0) : T = {}
    BY SmallFacts
  <2> QED
    BY <2>1
<1>2. ASSUME NEW n \in Nat, n \in B PROVE n + 1 \in B
  <2> SUFFICES ASSUME NEW T \in Small(D, n + 1), T # {} PROVE T \in A
    OBVIOUS
  <2>1. PICK x \in T : TRUE
    OBVIOUS
  <2>2. T \ {x} \in Small(D, n) /\ T \in SUBSET D
    BY SmallFacts DEF Small
  <2>3. T \ {x} \in A /\ T \ {x} \in SUBSET D /\ x \in D \ (T \ {x}) /\ (T \ {x}) \cup {x} = T
    BY <1>2, <2>2
  <2>4. (T \ {x}) \cup {x} \in A
    BY <2>3, Zenon
  <2> QED
    BY <2>3, <2>4
<1> HIDE DEF B
<1>3. \A n \in Nat : n \in B
  BY <1>1, <1>2, NatSetInduction
<1>4. Cardinality(D) \in Nat /\ D \in Small(D, Cardinality(D))
  BY SmallFacts, FS_CardinalityType
<1> QED
  BY <1>3, <1>4 DEF B

\* A sum of nothing negative is not negative.
LEMMA SumNat ==
  ASSUME NEW f, NEW D, IsFiniteSet(D), \A x \in D : f[x] \in Nat
  PROVE  SumFunctionOnSet(f, D) \in Nat
<1> DEFINE A == {T \in SUBSET D : SumFunctionOnSet(f, T) \in Nat}
<1>1. {} \in A
  BY SumOfNone
<1>2. ASSUME NEW T \in SUBSET D, NEW x \in D \ T, T \in A PROVE T \cup {x} \in A
  <2>1. IsFiniteSet(T) /\ \A y \in T \cup {x} : f[y] \in Int
    BY FS_Subset
  <2>2. SumFunctionOnSet(f, T \cup {x}) = f[x] + SumFunctionOnSet(f, T)
    BY <2>1, SumOfOneMore
  <2>3. f[x] \in Nat /\ SumFunctionOnSet(f, T) \in Nat
    BY <1>2
  <2> QED
    BY <2>2, <2>3
<1> HIDE DEF A
<1>3. D \in A
  BY <1>1, <1>2, SubsetInduction
<1> QED
  BY <1>3 DEF A

\* A sum of two values at each place.
LEMMA SumOfSums ==
  ASSUME NEW f, NEW g, NEW h, NEW D, IsFiniteSet(D),
         \A x \in D : f[x] \in Int /\ g[x] \in Int /\ h[x] = f[x] + g[x]
  PROVE  SumFunctionOnSet(h, D) = SumFunctionOnSet(f, D) + SumFunctionOnSet(g, D)
<1> DEFINE A == {T \in SUBSET D : SumFunctionOnSet(h, T) = SumFunctionOnSet(f, T) + SumFunctionOnSet(g, T)}
<1>1. {} \in A
  BY SumOfNone
<1>2. ASSUME NEW T \in SUBSET D, NEW x \in D \ T, T \in A PROVE T \cup {x} \in A
  <2>1. /\ IsFiniteSet(T) /\ (\A y \in T \cup {x} : f[y] \in Int) /\ (\A y \in T \cup {x} : g[y] \in Int)
        /\ \A y \in T \cup {x} : h[y] \in Int
    BY FS_Subset
  <2>2. SumFunctionOnSet(f, T \cup {x}) = f[x] + SumFunctionOnSet(f, T)
    BY <2>1, SumOfOneMore
  <2>3. SumFunctionOnSet(g, T \cup {x}) = g[x] + SumFunctionOnSet(g, T)
    BY <2>1, SumOfOneMore
  <2>4. SumFunctionOnSet(h, T \cup {x}) = h[x] + SumFunctionOnSet(h, T)
    BY <2>1, SumOfOneMore
  <2>5. SumFunctionOnSet(f, T) \in Int /\ SumFunctionOnSet(g, T) \in Int
    BY <2>1, SumType
  <2>6. SumFunctionOnSet(h, T) = SumFunctionOnSet(f, T) + SumFunctionOnSet(g, T)
    BY <1>2
  <2> QED
    BY <2>2, <2>3, <2>4, <2>5, <2>6
<1> HIDE DEF A
<1>3. D \in A
  BY <1>1, <1>2, SubsetInduction
<1> QED
  BY <1>3 DEF A

\* A sum over two sets that have nothing in common.
LEMMA SumOverBoth ==
  ASSUME NEW f, NEW C, NEW D, IsFiniteSet(C), IsFiniteSet(D), C \cap D = {}, \A x \in C \cup D : f[x] \in Int
  PROVE  SumFunctionOnSet(f, C \cup D) = SumFunctionOnSet(f, C) + SumFunctionOnSet(f, D)
<1> DEFINE A == {T \in SUBSET D : SumFunctionOnSet(f, C \cup T) = SumFunctionOnSet(f, C) + SumFunctionOnSet(f, T)}
<1>1. {} \in A
  <2>1. SumFunctionOnSet(f, C) \in Int
    BY SumType
  <2>2. C \cup {} = C
    OBVIOUS
  <2> QED
    BY <2>1, <2>2, SumOfNone
<1>2. ASSUME NEW T \in SUBSET D, NEW x \in D \ T, T \in A PROVE T \cup {x} \in A
  <2>1. IsFiniteSet(T) /\ IsFiniteSet(C \cup T)
    BY FS_Subset, FS_Union
  <2>2. SumFunctionOnSet(f, T \cup {x}) = f[x] + SumFunctionOnSet(f, T)
    BY <2>1, SumOfOneMore
  <2>3. x \notin C \cup T /\ \A y \in (C \cup T) \cup {x} : f[y] \in Int
    OBVIOUS
  <2>4. SumFunctionOnSet(f, (C \cup T) \cup {x}) = f[x] + SumFunctionOnSet(f, C \cup T)
    BY <2>1, <2>3, SumOfOneMore
  <2>5. SumFunctionOnSet(f, C) \in Int /\ SumFunctionOnSet(f, T) \in Int /\ f[x] \in Int
    BY <2>1, SumType
  <2>6. SumFunctionOnSet(f, C \cup T) = SumFunctionOnSet(f, C) + SumFunctionOnSet(f, T)
    BY <1>2
  <2>7. C \cup (T \cup {x}) = (C \cup T) \cup {x}
    OBVIOUS
  <2>8. SumFunctionOnSet(f, C \cup (T \cup {x})) = f[x] + SumFunctionOnSet(f, C \cup T)
    BY <2>4, <2>7
  <2>9. SumFunctionOnSet(f, C \cup (T \cup {x})) = SumFunctionOnSet(f, C) + SumFunctionOnSet(f, T \cup {x})
    BY <2>2, <2>5, <2>6, <2>8
  <2> QED
    BY <2>9
<1> HIDE DEF A
<1>3. D \in A
  BY <1>1, <1>2, SubsetInduction
<1> QED
  BY <1>3 DEF A

\* Less at each place, and over fewer places, is less in sum.
LEMMA SumMonotone ==
  ASSUME NEW f, NEW g, NEW D, IsFiniteSet(D), NEW C, C \subseteq D,
         \A x \in D : g[x] \in Nat, \A x \in C : f[x] \in Int /\ f[x] <= g[x]
  PROVE  SumFunctionOnSet(f, C) <= SumFunctionOnSet(g, D)
<1> DEFINE A == {T \in SUBSET C : SumFunctionOnSet(f, T) <= SumFunctionOnSet(g, T)}
<1>0. IsFiniteSet(C) /\ IsFiniteSet(D \ C)
  BY FS_Subset
<1>1. {} \in A
  BY SumOfNone
<1>2. ASSUME NEW T \in SUBSET C, NEW x \in C \ T, T \in A PROVE T \cup {x} \in A
  <2>1. IsFiniteSet(T) /\ (\A y \in T \cup {x} : f[y] \in Int) /\ (\A y \in T \cup {x} : g[y] \in Int)
    BY <1>0, FS_Subset
  <2>2. SumFunctionOnSet(f, T \cup {x}) = f[x] + SumFunctionOnSet(f, T)
    BY <2>1, SumOfOneMore
  <2>3. SumFunctionOnSet(g, T \cup {x}) = g[x] + SumFunctionOnSet(g, T)
    BY <2>1, SumOfOneMore
  <2>4. SumFunctionOnSet(f, T) \in Int /\ SumFunctionOnSet(g, T) \in Int
    BY <2>1, SumType
  <2>5. SumFunctionOnSet(f, T) <= SumFunctionOnSet(g, T) /\ f[x] <= g[x] /\ f[x] \in Int /\ g[x] \in Int
    BY <1>2
  <2> QED
    BY <2>2, <2>3, <2>4, <2>5
<1> HIDE DEF A
<1>3. C \in A
  BY <1>0, <1>1, <1>2, SubsetInduction
<1>4. SumFunctionOnSet(f, C) <= SumFunctionOnSet(g, C)
  BY <1>3 DEF A
<1>5. C \cap (D \ C) = {} /\ C \cup (D \ C) = D
  OBVIOUS
<1>6. \A x \in C \cup (D \ C) : g[x] \in Int
  OBVIOUS
<1>7. SumFunctionOnSet(g, C \cup (D \ C)) = SumFunctionOnSet(g, C) + SumFunctionOnSet(g, D \ C)
  BY <1>0, <1>5, <1>6, SumOverBoth
<1>8. SumFunctionOnSet(g, D \ C) \in Nat /\ SumFunctionOnSet(g, C) \in Nat /\ SumFunctionOnSet(f, C) \in Int
  BY <1>0, SumNat, SumType
<1>9. SumFunctionOnSet(g, D) = SumFunctionOnSet(g, C) + SumFunctionOnSet(g, D \ C)
  BY <1>5, <1>7
<1> QED
  BY <1>4, <1>8, <1>9

\* Counting.
LEMMA SumOfOnes ==
  ASSUME NEW f, NEW D, IsFiniteSet(D), NEW S, S \subseteq D,
         \A x \in D : f[x] = IF x \in S THEN 1 ELSE 0
  PROVE  SumFunctionOnSet(f, D) = Cardinality(S)
<1> DEFINE A == {T \in SUBSET D : SumFunctionOnSet(f, T) = Cardinality(S \cap T)}
<1>1. {} \in A
  <2>1. S \cap {} = {}
    OBVIOUS
  <2> QED
    BY <2>1, SumOfNone, FS_EmptySet
<1>2. ASSUME NEW T \in SUBSET D, NEW x \in D \ T, T \in A PROVE T \cup {x} \in A
  <2>1. IsFiniteSet(T) /\ \A y \in T \cup {x} : f[y] \in Int
    BY FS_Subset
  <2>2. SumFunctionOnSet(f, T \cup {x}) = f[x] + SumFunctionOnSet(f, T)
    BY <2>1, SumOfOneMore
  <2>3. IsFiniteSet(S \cap T)
    BY <2>1, FS_Subset
  <2>4. Cardinality(S \cap T) \in Nat
    BY <2>3, FS_CardinalityType
  <2>5. SumFunctionOnSet(f, T) = Cardinality(S \cap T)
    BY <1>2
  <2>6. CASE x \in S
    <3>1. S \cap (T \cup {x}) = (S \cap T) \cup {x} /\ x \notin S \cap T
      BY <2>6
    <3>2. Cardinality((S \cap T) \cup {x}) = Cardinality(S \cap T) + 1
      BY <2>3, <3>1, FS_AddElement
    <3> QED
      BY <2>2, <2>4, <2>5, <2>6, <3>1, <3>2
  <2>7. CASE x \notin S
    <3>1. S \cap (T \cup {x}) = S \cap T
      BY <2>7
    <3>2. f[x] = 0
      BY <2>7
    <3>3. SumFunctionOnSet(f, T \cup {x}) = Cardinality(S \cap T)
      BY <2>2, <2>4, <2>5, <3>2
    <3> QED
      BY <3>1, <3>3
  <2> QED
    BY <2>6, <2>7
<1> HIDE DEF A
<1>3. D \in A
  BY <1>1, <1>2, SubsetInduction
<1>4. S \cap D = S
  OBVIOUS
<1> QED
  BY <1>3, <1>4 DEF A

\* A sum over sets that have nothing in common.
DisjointSum(f, D, part, total, all) ==
  /\ IsFiniteSet(D)
  /\ \A x \in D : IsFiniteSet(part[x]) /\ total[x] = SumFunctionOnSet(f, part[x])
  /\ \A x \in D : \A r \in part[x] : f[r] \in Int
  /\ \A x, y \in D : x # y => part[x] \cap part[y] = {}
  /\ all = UNION {part[x] : x \in D}

LEMMA SumOverParts ==
  ASSUME NEW f, NEW D, NEW part, NEW total, NEW all, DisjointSum(f, D, part, total, all)
  PROVE  SumFunctionOnSet(total, D) = SumFunctionOnSet(f, all)
<1> USE DEF DisjointSum
<1> DEFINE All(T) == UNION {part[x] : x \in T}
           A == {T \in SUBSET D : IsFiniteSet(All(T)) /\ SumFunctionOnSet(total, T) = SumFunctionOnSet(f, All(T))}
<1>1. {} \in A
  <2>1. All({}) = {}
    OBVIOUS
  <2> QED
    BY <2>1, SumOfNone, FS_EmptySet
<1>2. ASSUME NEW T \in SUBSET D, NEW x \in D \ T, T \in A PROVE T \cup {x} \in A
  <2>1. All(T \cup {x}) = All(T) \cup part[x]
    OBVIOUS
  <2>2. All(T) \cap part[x] = {}
    OBVIOUS
  <2>3. /\ IsFiniteSet(All(T)) /\ SumFunctionOnSet(total, T) = SumFunctionOnSet(f, All(T))
        /\ IsFiniteSet(T) /\ IsFiniteSet(part[x])
    BY <1>2, FS_Subset
  <2>4. \A r \in All(T) \cup part[x] : f[r] \in Int
    OBVIOUS
  <2>5. \A y \in T \cup {x} : total[y] \in Int
    <3>1. \A y \in T \cup {x} : IsFiniteSet(part[y]) /\ \A r \in part[y] : f[r] \in Int
      OBVIOUS
    <3>2. \A y \in T \cup {x} : SumFunctionOnSet(f, part[y]) \in Int
      BY <3>1, SumType
    <3> QED
      BY <3>2
  <2>6. SumFunctionOnSet(total, T \cup {x}) = total[x] + SumFunctionOnSet(total, T)
    BY <2>3, <2>5, SumOfOneMore
  <2>7. total[x] = SumFunctionOnSet(f, part[x])
    OBVIOUS
  <2> HIDE DEF All
  <2>8. SumFunctionOnSet(f, All(T) \cup part[x]) = SumFunctionOnSet(f, All(T)) + SumFunctionOnSet(f, part[x])
    BY <2>2, <2>3, <2>4, SumOverBoth
  <2>9. SumFunctionOnSet(f, All(T)) \in Int /\ SumFunctionOnSet(f, part[x]) \in Int
    BY <2>3, <2>4, SumType
  <2>10. IsFiniteSet(All(T) \cup part[x])
    BY <2>3, FS_Union
  <2>11. SumFunctionOnSet(total, T \cup {x}) = SumFunctionOnSet(f, All(T) \cup part[x])
    BY <2>3, <2>6, <2>7, <2>8, <2>9
  <2> QED
    BY <2>1, <2>10, <2>11
<1> HIDE DEF A
<1>3. D \in A
  BY <1>1, <1>2, SubsetInduction
<1>4. All(D) = all
  OBVIOUS
<1>5. SumFunctionOnSet(total, D) = SumFunctionOnSet(f, All(D))
  BY <1>3 DEF A
<1> HIDE DEF All
<1> QED
  BY <1>4, <1>5

-----------------------------------------------------------------------------
\* The least element of a set of numbers.
LEMMA LeastOf ==
  ASSUME NEW S, S \subseteq Nat, S # {}
  PROVE  \E x \in S : \A y \in S : x <= y
<1>1. PICK x \in S : \A y \in S : ~(<<y, x>> \in OpToRel(<, Nat))
  BY NatLessThanWellFounded, WFMin, Zenon
<1>2. \A y \in S : ~(y < x)
  BY <1>1 DEF OpToRel
<1>3. x \in Nat /\ \A y \in S : y \in Nat
  OBVIOUS
<1> QED
  BY <1>2, <1>3

\* The greatest element of a set of positions.
LEMMA MaxFacts ==
  ASSUME NEW n \in Nat, NEW S, S \subseteq 1..n, S # {}
  PROVE  Max(S) \in S /\ \A y \in S : Max(S) >= y
<1> DEFINE above == {m \in Nat : \A y \in S : y <= m}
<1>1. above \subseteq Nat /\ n \in above
  OBVIOUS
<1> HIDE DEF above
<1>2. PICK x \in above : \A y \in above : ~(<<y, x>> \in OpToRel(<, Nat))
  BY <1>1, NatLessThanWellFounded, WFMin, Zenon
<1>3. \A y \in above : ~(y < x)
  BY <1>1, <1>2 DEF OpToRel
<1>4. x \in Nat /\ \A y \in S : y <= x
  BY DEF above
<1>5. x \in S
  <2> SUFFICES ASSUME x \notin S PROVE FALSE
    OBVIOUS
  <2>1. \A y \in S : y < x /\ y \in Nat /\ y >= 1
    BY <1>4
  <2>2. x - 1 \in Nat /\ x - 1 < x
    <3>1. PICK y \in S : TRUE
      OBVIOUS
    <3> QED
      BY <1>4, <2>1, <3>1
  <2>3. x - 1 \in above
    BY <1>4, <2>1, <2>2 DEF above
  <2> QED
    BY <1>3, <2>2, <2>3
<1> QED
  BY <1>4, <1>5 DEF Max

LEMMA MaxOfOneMore ==
  ASSUME NEW n \in Nat, NEW S, S \subseteq 1..n
  PROVE  Max(S \cup {n + 1}) = n + 1
<1>1. n + 1 \in S \cup {n + 1} /\ \A y \in S \cup {n + 1} : n + 1 >= y
  OBVIOUS
<1>2. \A x \in S \cup {n + 1} : (\A y \in S \cup {n + 1} : x >= y) => x = n + 1
  OBVIOUS
<1> QED
  BY <1>1, <1>2 DEF Max

-----------------------------------------------------------------------------
\* A sequence of whatever elements, and one that is appended to.
AnySequence(s) == Len(s) \in Nat /\ s = [i \in 1..Len(s) |-> s[i]]
LEMMA SequenceFacts ==
  ASSUME NEW n \in Nat, NEW s, DOMAIN s = 1..n, s = [i \in DOMAIN s |-> s[i]]
  PROVE  AnySequence(s) /\ Len(s) = n
<1> DEFINE S == {s[i] : i \in 1..n}
<1>1. s \in [1..n -> S]
  OBVIOUS
<1>2. s \in Seq(S)
  BY <1>1, SeqDef
<1>3. Len(s) = n
  BY <1>2
<1> QED
  BY <1>3 DEF AnySequence

LEMMA AppendFacts ==
  ASSUME NEW s, AnySequence(s), NEW x
  PROVE  /\ Len(s) \in Nat /\ DOMAIN s = 1..Len(s)
         /\ AnySequence(Append(s, x)) /\ Len(Append(s, x)) = Len(s) + 1
         /\ DOMAIN Append(s, x) = 1..(Len(s) + 1)
         /\ Append(s, x)[Len(s) + 1] = x
         /\ \A i \in 1..Len(s) : Append(s, x)[i] = s[i]
<1> DEFINE S == {s[i] : i \in 1..Len(s)} \cup {x}
           n == Len(s)
<1>1. n \in Nat /\ s = [i \in 1..n |-> s[i]] /\ DOMAIN s = 1..n
  BY DEF AnySequence
<1>2. \A i \in 1..n : s[i] \in S
  OBVIOUS
<1> HIDE DEF n, S
<1>3. s \in [1..n -> S]
  BY <1>1, <1>2
<1>4. s \in Seq(S)
  BY <1>1, <1>3, SeqDef
<1>5. x \in S
  BY DEF S
<1>6. /\ Append(s, x) \in Seq(S) /\ Len(Append(s, x)) = n + 1
      /\ Append(s, x)[n + 1] = x /\ \A i \in 1..n : Append(s, x)[i] = s[i]
  BY <1>1, <1>4, <1>5, AppendProperties DEF n
<1>7. DOMAIN Append(s, x) = 1..(n + 1) /\ Append(s, x) = [i \in 1..(n + 1) |-> Append(s, x)[i]]
  BY <1>1, <1>6
<1> QED
  BY <1>1, <1>6, <1>7 DEF AnySequence, n

-----------------------------------------------------------------------------
\* The place of an element of a finite set in a strict order of it, counted from zero.
Rank(S, lt, x) == Cardinality({y \in S : <<y, x>> \in lt})
StrictOrder(S, lt) ==
  /\ \A x \in S : <<x, x>> \notin lt
  /\ \A x, y \in S : x # y => <<x, y>> \in lt \/ <<y, x>> \in lt
  /\ \A x, y, z \in S : <<x, y>> \in lt /\ <<y, z>> \in lt => <<x, z>> \in lt

LEMMA RankGrows ==
  ASSUME NEW S, IsFiniteSet(S), NEW lt, StrictOrder(S, lt), NEW x \in S, NEW y \in S, <<x, y>> \in lt
  PROVE  Rank(S, lt, x) \in Nat /\ Rank(S, lt, y) \in Nat /\ Rank(S, lt, x) < Rank(S, lt, y)
<1> DEFINE X == {z \in S : <<z, x>> \in lt}
           Y == {z \in S : <<z, y>> \in lt}
<1>1. IsFiniteSet(Y) /\ Cardinality(Y) \in Nat
  BY FS_Subset, FS_CardinalityType
<1>2. x \in Y /\ IsFiniteSet(Y \ {x}) /\ Cardinality(Y \ {x}) = Cardinality(Y) - 1
  BY <1>1, FS_RemoveElement
<1>3. X \subseteq Y \ {x}
  BY DEF StrictOrder
<1>4. Cardinality(X) <= Cardinality(Y \ {x}) /\ Cardinality(X) \in Nat
  BY <1>2, <1>3, FS_Subset, FS_CardinalityType
<1>5. Cardinality(X) < Cardinality(Y)
  <2> HIDE DEF X, Y
  <2> QED BY <1>1, <1>2, <1>4
<1> QED
  BY <1>1, <1>4, <1>5 DEF Rank

\* Each place is taken, by one element.
LEMMA RankIsOnto ==
  ASSUME NEW S, IsFiniteSet(S), NEW lt, StrictOrder(S, lt)
  PROVE  /\ Cardinality(S) \in Nat
         /\ \A x \in S : Rank(S, lt, x) \in 0..(Cardinality(S) - 1)
         /\ \A n \in 0..(Cardinality(S) - 1) : \E x \in S : Rank(S, lt, x) = n
         /\ \A x, y \in S : Rank(S, lt, x) = Rank(S, lt, y) => x = y
         /\ \A x, y \in S : Rank(S, lt, x) < Rank(S, lt, y) => <<x, y>> \in lt
<1> DEFINE n == Cardinality(S)
           T == 0..(n - 1)
<1>0. n \in Nat
  BY FS_CardinalityType
<1>1. ASSUME NEW x \in S PROVE Rank(S, lt, x) \in T
  <2> DEFINE X == {z \in S : <<z, x>> \in lt}
  <2>1. IsFiniteSet(S \ {x}) /\ Cardinality(S \ {x}) = n - 1
    BY FS_RemoveElement
  <2>2. X \subseteq S \ {x}
    BY DEF StrictOrder
  <2> HIDE DEF X, n
  <2>3. IsFiniteSet(X) /\ Cardinality(X) <= Cardinality(S \ {x})
    BY <2>1, <2>2, FS_Subset
  <2>4. Cardinality(X) \in Nat
    BY <2>3, FS_CardinalityType
  <2>5. Cardinality(X) \in T
    BY <1>0, <2>1, <2>3, <2>4
  <2> QED
    BY <2>5 DEF Rank, X
<1>2. ASSUME NEW x \in S, NEW y \in S, x # y PROVE Rank(S, lt, x) # Rank(S, lt, y)
  <2>1. CASE <<x, y>> \in lt
    BY <2>1, RankGrows
  <2>2. CASE <<y, x>> \in lt
    BY <2>2, RankGrows
  <2> QED
    BY <1>2, <2>1, <2>2 DEF StrictOrder
<1> DEFINE f == [x \in S |-> Rank(S, lt, x)]
<1>3. f \in [S -> T]
  BY <1>1
<1>4. f \in Injection(S, T)
  BY <1>2, <1>3 DEF Injection, IsInjective
<1>5. IsFiniteSet(T) /\ Cardinality(T) = n
  <2> HIDE DEF n
  <2>1. IsFiniteSet(T) /\ Cardinality(T) = IF 0 > n - 1 THEN 0 ELSE (n - 1) - 0 + 1
    BY <1>0, FS_Interval
  <2> HIDE DEF T
  <2> QED
    BY <1>0, <2>1
<1>6. f \in Surjection(S, T)
  <2> HIDE DEF f, T
  <2> QED BY <1>4, <1>5, FS_Injection
<1>7. \A m \in T : \E x \in S : Rank(S, lt, x) = m
  <2>1. \A m \in T : \E x \in S : f[x] = m
    <3> HIDE DEF f, T
    <3> QED BY <1>6 DEF Surjection
  <2> QED
    BY <2>1
<1>8. ASSUME NEW x \in S, NEW y \in S, Rank(S, lt, x) < Rank(S, lt, y) PROVE <<x, y>> \in lt
  <2>1. CASE x = y
    BY <1>1, <1>8, <2>1
  <2>2. CASE <<y, x>> \in lt
    BY <1>8, <2>2, RankGrows
  <2> QED
    BY <2>1, <2>2 DEF StrictOrder
<1> QED
  BY <1>0, <1>1, <1>2, <1>7, <1>8

\* A sequence of the elements of a set by their places in an order.
Ranked(s, n, S, lt) ==
  /\ s = [i \in 1..n |-> s[i]]
  /\ \A i \in 1..n : (\E x \in S : Rank(S, lt, x) = i - 1) => s[i] \in S /\ Rank(S, lt, s[i]) = i - 1

LEMMA RankedFacts ==
  ASSUME NEW S, IsFiniteSet(S), NEW lt, StrictOrder(S, lt), NEW s, Ranked(s, Cardinality(S), S, lt)
  PROVE  /\ Cardinality(S) \in Nat /\ Len(s) = Cardinality(S) /\ s \in Seq(S)
         /\ DOMAIN s = 1..Cardinality(S) /\ \A i \in DOMAIN s : s[i] \in S
         /\ \A x \in S : \E i \in DOMAIN s : s[i] = x
         /\ \A i, j \in DOMAIN s : i < j => <<s[i], s[j]>> \in lt
<1> DEFINE n == Cardinality(S)
<1>1. /\ n \in Nat /\ \A x \in S : Rank(S, lt, x) \in 0..(n - 1)
      /\ \A m \in 0..(n - 1) : \E x \in S : Rank(S, lt, x) = m
      /\ \A x, y \in S : Rank(S, lt, x) = Rank(S, lt, y) => x = y
      /\ \A x, y \in S : Rank(S, lt, x) < Rank(S, lt, y) => <<x, y>> \in lt
  BY RankIsOnto
<1>0. Ranked(s, n, S, lt)
  OBVIOUS
<1> HIDE DEF n
<1>2. ASSUME NEW i \in 1..n PROVE s[i] \in S /\ Rank(S, lt, s[i]) = i - 1
  <2>1. i - 1 \in 0..(n - 1)
    BY <1>1
  <2> QED
    BY <1>0, <1>1, <2>1 DEF Ranked
<1>3. s \in Seq(S) /\ DOMAIN s = 1..n /\ Len(s) = n
  <2>0. s = [i \in 1..n |-> s[i]]
    BY <1>0 DEF Ranked
  <2>1. s \in [1..n -> S]
    BY <1>2, <2>0
  <2>2. s \in Seq(S)
    BY <1>1, <2>1, SeqDef
  <2> QED
    BY <1>1, <2>1, <2>2
<1>4. ASSUME NEW x \in S PROVE \E i \in 1..n : s[i] = x
  <2>1. Rank(S, lt, x) + 1 \in 1..n /\ (Rank(S, lt, x) + 1) - 1 = Rank(S, lt, x)
    BY <1>1
  <2>2. Rank(S, lt, s[Rank(S, lt, x) + 1]) = Rank(S, lt, x) /\ s[Rank(S, lt, x) + 1] \in S
    BY <1>2, <2>1
  <2> QED
    BY <1>1, <2>1, <2>2
<1>5. ASSUME NEW i \in 1..n, NEW j \in 1..n, i < j PROVE <<s[i], s[j]>> \in lt
  <2>1. Rank(S, lt, s[i]) < Rank(S, lt, s[j]) /\ s[i] \in S /\ s[j] \in S
    BY <1>1, <1>2, <1>5
  <2> QED
    BY <1>1, <2>1
<1> QED
  BY <1>1, <1>2, <1>3, <1>4, <1>5 DEF n

\* SetToSeq lists each element of a finite set.
LEMMA SetToSeqFacts ==
  ASSUME NEW K, IsFiniteSet(K)
  PROVE  /\ Cardinality(K) \in Nat /\ SetToSeq(K) \in [1..Cardinality(K) -> K]
         /\ \A k \in K : \E i \in 1..Cardinality(K) : SetToSeq(K)[i] = k
<1> DEFINE n == Cardinality(K)
           s == SetToSeq(K)
<1>1. n \in Nat
  BY FS_CardinalityType
<1>2. IsFiniteSet(1..n) /\ Cardinality(1..n) = n
  <2>1. IsFiniteSet(1..n) /\ Cardinality(1..n) = IF 1 > n THEN 0 ELSE n - 1 + 1
    BY <1>1, FS_Interval
  <2> QED
    BY <1>1, <2>1
<1>3. PICK f : f \in Bijection(1..n, K)
  BY <1>2, FS_SameCardinalityBij DEF ExistsBijection
<1>4. f \in [1..n -> K] /\ IsInjective(f)
  BY <1>3 DEF Bijection, Injection
<1>5. s \in [1..n -> K] /\ IsInjective(s)
  BY <1>4 DEF SetToSeq
<1> HIDE DEF s, n
<1>6. s \in Injection(1..n, K)
  BY <1>5 DEF Injection
<1>7. s \in Surjection(1..n, K)
  BY <1>2, <1>6, FS_Injection DEF n
<1> QED
  BY <1>1, <1>5, <1>7 DEF Surjection, n, s

\* A flattened sequence is the last of its running concatenations.
RunningConcat(w, s, n) == w[1] = s[1] /\ \A i \in 2..n : w[i] = w[i - 1] \o s[i]

LEMMA FlattenedIs ==
  ASSUME NEW s, NEW n \in Nat \ {0}, Len(s) = n, NEW w, RunningConcat(w, s, n)
  PROVE  FlattenSeq(s) = w[n]
<1>0. w[1] = s[1] /\ \A i \in 2..n : w[i] = w[i - 1] \o s[i]
  BY DEF RunningConcat
<1> DEFINE Body(g) == [i \in 1..Len(s) |-> IF i = 1 THEN s[i] ELSE g[i - 1] \o s[i]]
           flatten == CHOOSE g : g = Body(g)
           v == [i \in 1..n |-> w[i]]
<1>1. v = Body(v)
  <2>1. \A i \in 1..n : i # 1 => v[i - 1] = w[i - 1] /\ i \in 2..n
    OBVIOUS
  <2>2. \A i \in 1..n : v[i] = IF i = 1 THEN s[i] ELSE v[i - 1] \o s[i]
    BY <1>0, <2>1
  <2> HIDE DEF v
  <2>3. v = [i \in 1..n |-> v[i]]
    BY DEF v
  <2> QED
    BY <2>2, <2>3
<1>2. FlattenSeq(s) = flatten[n]
  BY DEF FlattenSeq
<1> HIDE DEF Body
<1>3. flatten = Body(flatten)
  <2> HIDE DEF v
  <2> QED BY <1>1
<1> HIDE DEF flatten
<1>4. \A i \in 1..n : flatten[i] = IF i = 1 THEN s[i] ELSE flatten[i - 1] \o s[i]
  BY <1>3 DEF Body
<1> DEFINE A == {i \in Nat : i + 1 \in 1..n => flatten[i + 1] = w[i + 1]}
<1>5. 0 \in A
  BY <1>0, <1>4
<1>6. ASSUME NEW i \in Nat, i \in A PROVE i + 1 \in A
  <2> SUFFICES ASSUME i + 1 + 1 \in 1..n PROVE flatten[i + 1 + 1] = w[i + 1 + 1]
    OBVIOUS
  <2>1. i + 1 \in 1..n /\ i + 1 + 1 \in 2..n /\ (i + 1 + 1) - 1 = i + 1 /\ i + 1 + 1 # 1
    OBVIOUS
  <2>2. flatten[i + 1] = w[i + 1]
    BY <1>6, <2>1
  <2>3. flatten[i + 1 + 1] = flatten[i + 1] \o s[i + 1 + 1]
    BY <1>4, <2>1
  <2>4. w[i + 1 + 1] = w[i + 1] \o s[i + 1 + 1]
    BY <1>0, <2>1
  <2> QED
    BY <2>2, <2>3, <2>4
<1>7. \A i \in Nat : i \in A
  <2> HIDE DEF A
  <2> QED BY <1>5, <1>6, NatSetInduction
<1>8. n - 1 \in Nat /\ n - 1 + 1 = n /\ n \in 1..n
  OBVIOUS
<1> QED
  BY <1>2, <1>7, <1>8
=============================================================================
