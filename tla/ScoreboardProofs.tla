---------------------------- MODULE ScoreboardProofs ----------------------------
(***************************************************************************)
(* What the numbers of a result are worth: what a sum of amounts is, in    *)
(* whatever order a fold takes them, what rounding keeps, and from these   *)
(* what the guardrail, the headline over strata and the scoreboard of any  *)
(* batch can claim.                                                        *)
(***************************************************************************)
EXTENDS Scoreboard, FiniteSetTheorems, WellFoundedInduction, TLAPS

-----------------------------------------------------------------------------
(***************************************************************************)
(* Counting.                                                               *)
(***************************************************************************)

LEMMA OneOrMore ==
    ASSUME NEW S, IsFiniteSet(S)
    PROVE  /\ Cardinality(S) \in Nat
           /\ Cardinality(S) = 0 <=> S = {}
           /\ Cardinality(S) = 1 <=> \E x : S = {x}
           /\ \A x \in S : Cardinality(S) > 1 <=> \E y \in S : y # x
<1>1. /\ Cardinality(S) \in Nat
      /\ Cardinality(S) = 0 <=> S = {}
      /\ Cardinality(S) = 1 <=> \E x : S = {x}
  BY FS_CardinalityType, FS_EmptySet, FS_Singleton
<1> DEFINE n == Cardinality(S)
<1>2. ASSUME NEW x \in S
      PROVE  Cardinality(S) > 1 <=> \E y \in S : y # x
  <2>1. n \in Nat /\ n # 0
    BY <1>1, <1>2
  <2>2. n = 1 <=> S = {x}
    BY <1>1, <1>2
  <2>3. S = {x} <=> ~ \E y \in S : y # x
    BY <1>2
  <2> HIDE DEF n
  <2>4. n > 1 <=> \E y \in S : y # x
    BY <2>1, <2>2, <2>3
  <2> QED
    BY <2>4 DEF n
<1> QED
  BY <1>1, <1>2

LEMMA FiniteFilter ==
    ASSUME NEW S, IsFiniteSet(S), NEW T, T \subseteq S
    PROVE  IsFiniteSet(T) /\ Cardinality(T) \in Nat
BY FS_Subset, FS_CardinalityType

-----------------------------------------------------------------------------
(***************************************************************************)
(* Induction, by a least counterexample.                                   *)
(***************************************************************************)

LEMMA LeastNumber ==
    ASSUME NEW S \in SUBSET Nat, S # {}
    PROVE  \E j \in S : \A k \in S : ~(k < j)
<1>1. IsWellFoundedOn(OpToRel(<, Nat), Nat)
  BY NatLessThanWellFounded
<1>2. PICK j \in S : \A k \in S : ~(<<k, j>> \in OpToRel(<, Nat))
  BY <1>1, WFMin
<1>3. \A k \in S : k < j => <<k, j>> \in OpToRel(<, Nat)
  BY DEF OpToRel
<1> QED
  BY <1>2, <1>3

\* P holds of every part of D that it holds of whenever it holds of the part
\* without any one of its elements.
LEMMA PartByPart ==
    ASSUME NEW D, IsFiniteSet(D), NEW P,
           \A T \in SUBSET D : (\A x \in T : T \ {x} \in P) => T \in P
    PROVE  \A T \in SUBSET D : T \in P
<1> DEFINE Bad == {n \in Nat : \E T \in SUBSET D : T \notin P /\ Cardinality(T) = n}
<1>1. \A T \in SUBSET D : Cardinality(T) \in Nat
  BY FS_Subset, FS_CardinalityType
<1>2. SUFFICES ASSUME Bad # {} PROVE FALSE
  BY <1>1
<1>3. PICK j \in Bad : \A k \in Bad : ~(k < j)
  BY <1>2, LeastNumber
<1>4. PICK T \in SUBSET D : T \notin P /\ Cardinality(T) = j
  BY <1>3
<1>5. ASSUME NEW x \in T PROVE T \ {x} \in P
  <2>1. IsFiniteSet(T)
    BY FS_Subset
  <2>2. Cardinality(T \ {x}) = j - 1
    BY <1>4, <2>1, FS_RemoveElement
  <2>3. T \ {x} \in SUBSET D /\ j - 1 < j
    BY <1>3
  <2>4. j - 1 \in Nat
    BY <1>1, <2>2, <2>3
  <2> QED
    BY <1>3, <2>2, <2>3, <2>4
<1> QED
  BY <1>4, <1>5

-----------------------------------------------------------------------------
(***************************************************************************)
(* The fold behind MoneySum exists, and its order does not matter.         *)
(***************************************************************************)

Element(T) == CHOOSE x \in T : TRUE
IsFold(g, f) ==
    g = [T \in SUBSET DOMAIN f |->
            IF T = {} THEN 0 ELSE f[Element(T)] + g[T \ {Element(T)}]]

IsPartialSums(g, f) ==
    /\ g \in [SUBSET DOMAIN f -> Int] /\ g[{}] = 0
    /\ \A T \in SUBSET DOMAIN f : \A x \in T : g[T] = f[x] + g[T \ {x}]

LEMMA SumIsFolded ==
    ASSUME NEW f
    PROVE  MoneySum(f) = (CHOOSE g : IsFold(g, f))[DOMAIN f]
BY DEF MoneySum, MapThenSumSet, MapThenFoldSet, IsFold, Element

LEMMA FoldExists ==
    ASSUME NEW f, IsFiniteSet(DOMAIN f)
    PROVE  \E g : IsFold(g, f)
<1> DEFINE D == DOMAIN f
           UpTo(n) == {T \in SUBSET D : Cardinality(T) <= n}
           Term(g, T) == IF T = {} THEN 0 ELSE f[Element(T)] + g[T \ {Element(T)}]
           Folding(g, n) == g = [T \in UpTo(n) |-> Term(g, T)]
           Bad == {n \in Nat : ~ \E g : Folding(g, n)}
<1>1. \A T \in SUBSET D : IsFiniteSet(T) /\ Cardinality(T) \in Nat
  BY FS_Subset, FS_CardinalityType
<1>2. ASSUME NEW n \in Nat, n # 0, NEW T \in UpTo(n), T # {}
      PROVE  T \ {Element(T)} \in UpTo(n - 1) /\ T \ {Element(T)} \in UpTo(n)
  <2>1. Element(T) \in T
    BY <1>2 DEF Element
  <2>2. Cardinality(T \ {Element(T)}) = Cardinality(T) - 1
    BY <1>1, <2>1, FS_RemoveElement
  <2> QED
    BY <1>1, <1>2, <2>2
<1>3. Bad = {}
  <2>1. SUFFICES ASSUME Bad # {} PROVE FALSE
    OBVIOUS
  <2>2. PICK j \in Bad : \A k \in Bad : ~(k < j)
    BY <2>1, LeastNumber
  <2>3. CASE j = 0
    <3> DEFINE g == [T \in UpTo(j) |-> 0]
    <3>1. \A T \in UpTo(j) : T = {}
      BY <1>1, <2>3, FS_EmptySet
    <3>2. \A T \in UpTo(j) : Term(g, T) = 0
      BY <3>1
    <3>3. Folding(g, j)
      BY <3>2
    <3> QED
      BY <2>2, <3>3
  <2>4. CASE j # 0
    <3>1. j - 1 \in Nat /\ j - 1 < j
      BY <2>2, <2>4
    <3>2. PICK g : Folding(g, j - 1)
      BY <2>2, <3>1
    <3> DEFINE h == [T \in UpTo(j) |-> Term(g, T)]
    <3>3. ASSUME NEW T \in UpTo(j), T # {}
          PROVE  h[T \ {Element(T)}] = g[T \ {Element(T)}]
      <4> DEFINE U == T \ {Element(T)}
      <4>1. U \in UpTo(j - 1) /\ U \in UpTo(j)
        BY <1>2, <2>2, <2>4, <3>3
      <4> HIDE DEF U, Term, UpTo
      <4>2. g[U] = Term(g, U)
        BY <3>2, <4>1
      <4>3. h[U] = Term(g, U)
        BY <4>1
      <4> QED
        BY <4>2, <4>3 DEF U
    <3>4. \A T \in UpTo(j) : Term(h, T) = Term(g, T)
      <4> HIDE DEF h
      <4> QED
        BY <3>3
    <3>5. Folding(h, j)
      BY <3>4
    <3> QED
      BY <2>2, <3>5
  <2> QED
    BY <2>3, <2>4
<1>4. Cardinality(D) \in Nat /\ UpTo(Cardinality(D)) = SUBSET D
  BY <1>1, FS_Subset
<1>5. PICK g : Folding(g, Cardinality(D))
  BY <1>3, <1>4
<1>6. g = [T \in SUBSET D |-> Term(g, T)]
  BY <1>4, <1>5
<1> QED
  BY <1>6 DEF IsFold

\* Whatever element a partial sum is taken apart at, the rest is a partial
\* sum.
LEMMA PartialSums ==
    ASSUME NEW f, IsFiniteSet(DOMAIN f), \A i \in DOMAIN f : f[i] \in Int
    PROVE  \E g : IsPartialSums(g, f) /\ MoneySum(f) = g[DOMAIN f]
<1> DEFINE D == DOMAIN f
           g == CHOOSE g : IsFold(g, f)
<1>1. IsFold(g, f)
  BY FoldExists
<1>2. MoneySum(f) = g[D]
  BY SumIsFolded
<1> HIDE DEF g
<1>3. /\ DOMAIN g = SUBSET D
      /\ g[{}] = 0
      /\ \A T \in SUBSET D : T # {} => g[T] = f[Element(T)] + g[T \ {Element(T)}]
  BY <1>1 DEF IsFold
<1>4. \A T : T # {} => Element(T) \in T
  BY DEF Element
<1>5. \A T \in SUBSET D : g[T] \in Int
  <2> DEFINE P == {T \in SUBSET D : g[T] \in Int}
  <2>1. ASSUME NEW T \in SUBSET D, \A x \in T : T \ {x} \in P
        PROVE  T \in P
    <3>1. CASE T = {}
      BY <3>1, <1>3
    <3>2. CASE T # {}
      <4>1. T \ {Element(T)} \in P /\ f[Element(T)] \in Int
        BY <2>1, <3>2, <1>4
      <4> QED
        BY <4>1, <3>2, <1>3
    <3> QED
      BY <3>1, <3>2
  <2>2. \A T \in SUBSET D : T \in P
    <3> HIDE DEF P
    <3> QED
      BY <2>1, PartByPart
  <2> QED
    BY <2>2
<1>6. \A T \in SUBSET D : \A x \in T : g[T] = f[x] + g[T \ {x}]
  <2> DEFINE P == {T \in SUBSET D : \A x \in T : g[T] = f[x] + g[T \ {x}]}
  <2>1. ASSUME NEW T \in SUBSET D, \A x \in T : T \ {x} \in P
        PROVE  T \in P
    <3> SUFFICES ASSUME NEW x \in T PROVE g[T] = f[x] + g[T \ {x}]
      OBVIOUS
    <3> DEFINE c == Element(T)
    <3>1. c \in T /\ g[T] = f[c] + g[T \ {c}]
      BY <1>3, <1>4
    <3> HIDE DEF c
    <3>2. CASE x = c
      BY <3>1, <3>2
    <3>3. CASE x # c
      <4>1. T \ {c} \in P /\ T \ {x} \in P
        BY <2>1, <3>1
      <4>2. g[T \ {c}] = f[x] + g[(T \ {c}) \ {x}]
        BY <4>1, <3>3
      <4>3. g[T \ {x}] = f[c] + g[(T \ {x}) \ {c}]
        BY <4>1, <3>1, <3>3
      <4>4. (T \ {x}) \ {c} = (T \ {c}) \ {x} /\ (T \ {c}) \ {x} \in SUBSET D
        OBVIOUS
      <4>5. f[x] \in Int /\ f[c] \in Int /\ g[(T \ {c}) \ {x}] \in Int
        BY <4>4, <3>1, <1>5
      <4>6. ASSUME NEW a \in Int, NEW b \in Int, NEW r \in Int
            PROVE  a + (b + r) = b + (a + r)
        OBVIOUS
      <4>7. g[T] = f[c] + (f[x] + g[(T \ {c}) \ {x}])
        BY <3>1, <4>2
      <4>8. g[T \ {x}] = f[c] + g[(T \ {c}) \ {x}]
        BY <4>3, <4>4
      <4> QED
        BY <4>5, <4>6, <4>7, <4>8
    <3> QED
      BY <3>2, <3>3
  <2>2. \A T \in SUBSET D : T \in P
    <3> HIDE DEF P
    <3> QED
      BY <2>1, PartByPart
  <2> QED
    BY <2>2
<1>7. g \in [SUBSET D -> Int]
  <2>1. g = [T \in SUBSET D |-> g[T]]
    BY <1>1 DEF IsFold
  <2> QED
    BY <2>1, <1>5
<1> QED
  BY <1>2, <1>3, <1>6, <1>7 DEF IsPartialSums

\* There are no other partial sums.
LEMMA SumIs ==
    ASSUME NEW f, IsFiniteSet(DOMAIN f), \A i \in DOMAIN f : f[i] \in Int,
           NEW h, IsPartialSums(h, f)
    PROVE  MoneySum(f) = h[DOMAIN f]
<1> DEFINE D == DOMAIN f
<1>1. PICK g : IsPartialSums(g, f) /\ MoneySum(f) = g[D]
  BY PartialSums
<1> DEFINE P == {T \in SUBSET D : g[T] = h[T]}
<1>2. ASSUME NEW T \in SUBSET D, \A x \in T : T \ {x} \in P
      PROVE  T \in P
  <2>1. CASE T = {}
    BY <2>1, <1>1 DEF IsPartialSums
  <2>2. CASE T # {}
    <3>1. PICK x \in T : TRUE
      BY <2>2
    <3>2. g[T \ {x}] = h[T \ {x}]
      BY <1>2
    <3> QED
      BY <3>2, <1>1 DEF IsPartialSums
  <2> QED
    BY <2>1, <2>2
<1>3. \A T \in SUBSET D : T \in P
  <2> HIDE DEF P
  <2> QED
    BY <1>2, PartByPart
<1> QED
  BY <1>1, <1>3

-----------------------------------------------------------------------------
(***************************************************************************)
(* Sums.                                                                   *)
(***************************************************************************)

LEMMA SumOfNone ==
    ASSUME NEW f, DOMAIN f = {}
    PROVE  MoneySum(f) = 0
<1>1. IsFiniteSet(DOMAIN f)
  BY FS_EmptySet
<1>2. PICK g : IsPartialSums(g, f) /\ MoneySum(f) = g[DOMAIN f]
  BY <1>1, PartialSums
<1> QED
  BY <1>2 DEF IsPartialSums

LEMMA SumIsWhole ==
    ASSUME NEW f, IsFiniteSet(DOMAIN f), \A i \in DOMAIN f : f[i] \in Int
    PROVE  MoneySum(f) \in Int
<1>1. PICK g : IsPartialSums(g, f) /\ MoneySum(f) = g[DOMAIN f]
  BY PartialSums
<1> QED
  BY <1>1 DEF IsPartialSums

LEMMA SumsKeepOrder ==
    ASSUME NEW f, NEW h, DOMAIN h = DOMAIN f, IsFiniteSet(DOMAIN f),
           \A i \in DOMAIN f : f[i] \in Int /\ h[i] \in Int /\ f[i] <= h[i]
    PROVE  MoneySum(f) <= MoneySum(h)
<1> DEFINE D == DOMAIN f
<1>1. PICK g : IsPartialSums(g, f) /\ MoneySum(f) = g[D]
  BY PartialSums
<1>2. PICK k : IsPartialSums(k, h) /\ MoneySum(h) = k[D]
  BY PartialSums
<1> DEFINE P == {T \in SUBSET D : g[T] <= k[T]}
<1>3. ASSUME NEW T \in SUBSET D, \A x \in T : T \ {x} \in P
      PROVE  T \in P
  <2>1. CASE T = {}
    BY <2>1, <1>1, <1>2 DEF IsPartialSums
  <2>2. CASE T # {}
    <3>1. PICK x \in T : TRUE
      BY <2>2
    <3>2. g[T \ {x}] <= k[T \ {x}]
      BY <1>3
    <3>3. g[T] = f[x] + g[T \ {x}] /\ k[T] = h[x] + k[T \ {x}]
      BY <1>1, <1>2 DEF IsPartialSums
    <3>4. g[T \ {x}] \in Int /\ k[T \ {x}] \in Int
      BY <1>1, <1>2 DEF IsPartialSums
    <3> QED
      BY <3>2, <3>3, <3>4
  <2> QED
    BY <2>1, <2>2
<1>4. \A T \in SUBSET D : T \in P
  <2> HIDE DEF P
  <2> QED
    BY <1>3, PartByPart
<1> QED
  BY <1>1, <1>2, <1>4

LEMMA SumOfMultiples ==
    ASSUME NEW f, IsFiniteSet(DOMAIN f), \A i \in DOMAIN f : f[i] \in Int,
           NEW c \in Int
    PROVE  MoneySum([i \in DOMAIN f |-> c * f[i]]) = c * MoneySum(f)
<1> DEFINE D == DOMAIN f
           m == [i \in D |-> c * f[i]]
<1>1. PICK g : IsPartialSums(g, f) /\ MoneySum(f) = g[D]
  BY PartialSums
<1> DEFINE k == [T \in SUBSET D |-> c * g[T]]
<1>2. \A a, b \in Int : c * a \in Int /\ c * (a + b) = c * a + c * b
  OBVIOUS
<1>3. c * 0 = 0
  OBVIOUS
<1>4. /\ g[{}] = 0 /\ \A T \in SUBSET D : g[T] \in Int
      /\ \A T \in SUBSET D : \A x \in T : g[T] = f[x] + g[T \ {x}]
  BY <1>1 DEF IsPartialSums
<1>5. \A i \in D : m[i] = c * f[i] /\ m[i] \in Int
  BY <1>2
<1>6. \A T \in SUBSET D : k[T] = c * g[T] /\ k[T] \in Int
  BY <1>2, <1>4
<1>7. k[{}] = 0
  BY <1>3, <1>4
<1>8. k \in [SUBSET D -> Int] /\ DOMAIN m = D
  BY <1>6
<1> HIDE DEF m, k
<1>9. ASSUME NEW T \in SUBSET D, NEW x \in T
      PROVE  k[T] = m[x] + k[T \ {x}]
  <2>1. T \ {x} \in SUBSET D /\ x \in D
    OBVIOUS
  <2>2. g[T] = f[x] + g[T \ {x}] /\ f[x] \in Int /\ g[T \ {x}] \in Int
    BY <1>4, <2>1
  <2>3. c * g[T] = c * f[x] + c * g[T \ {x}]
    BY <1>2, <2>2
  <2> QED
    BY <1>5, <1>6, <2>1, <2>3
<1>10. IsPartialSums(k, m)
  BY <1>7, <1>8, <1>9 DEF IsPartialSums
<1>11. MoneySum(m) = k[D]
  BY <1>5, <1>8, <1>10, SumIs
<1> QED
  BY <1>1, <1>6, <1>11 DEF m

\* A partial sum is the sum of its part.
LEMMA SumOfRest ==
    ASSUME NEW f, IsFiniteSet(DOMAIN f), \A i \in DOMAIN f : f[i] \in Int,
           NEW g, IsPartialSums(g, f), NEW E \in SUBSET DOMAIN f
    PROVE  MoneySum([i \in E |-> f[i]]) = g[E]
<1> DEFINE D == DOMAIN f
           part == [i \in E |-> f[i]]
           k == [T \in SUBSET E |-> g[T]]
<1>1. /\ g[{}] = 0 /\ \A T \in SUBSET D : g[T] \in Int
      /\ \A T \in SUBSET D : \A x \in T : g[T] = f[x] + g[T \ {x}]
  BY DEF IsPartialSums
<1>2. DOMAIN part = E /\ IsFiniteSet(E) /\ \A i \in E : part[i] = f[i] /\ f[i] \in Int
  BY FS_Subset
<1>3. k \in [SUBSET E -> Int] /\ k[{}] = 0
  BY <1>1
<1>4. ASSUME NEW T \in SUBSET E, NEW x \in T
      PROVE  k[T] = part[x] + k[T \ {x}]
  <2>1. T \ {x} \in SUBSET E /\ T \in SUBSET D /\ x \in E
    OBVIOUS
  <2>2. k[T] = g[T] /\ k[T \ {x}] = g[T \ {x}] /\ part[x] = f[x]
    BY <2>1
  <2> QED
    BY <1>1, <2>1, <2>2
<1>5. IsPartialSums(k, part)
  BY <1>2, <1>3, <1>4 DEF IsPartialSums
<1>6. MoneySum(part) = k[E]
  <2> HIDE DEF part, k
  <2> QED
    BY <1>2, <1>5, SumIs
<1> QED
  BY <1>6

LEMMA SumTakenApart ==
    ASSUME NEW f, IsFiniteSet(DOMAIN f), \A i \in DOMAIN f : f[i] \in Int,
           NEW x \in DOMAIN f
    PROVE  MoneySum(f) = f[x] + MoneySum([i \in DOMAIN f \ {x} |-> f[i]])
<1>1. PICK g : IsPartialSums(g, f) /\ MoneySum(f) = g[DOMAIN f]
  BY PartialSums
<1>2. MoneySum([i \in DOMAIN f \ {x} |-> f[i]]) = g[DOMAIN f \ {x}]
  BY <1>1, SumOfRest
<1>3. g[DOMAIN f] = f[x] + g[DOMAIN f \ {x}]
  BY <1>1 DEF IsPartialSums
<1> QED
  BY <1>1, <1>2, <1>3

\* The sum of a part: what is left out is nothing, or not negative.
LEMMA SumOfPart ==
    ASSUME NEW f, IsFiniteSet(DOMAIN f), \A i \in DOMAIN f : f[i] \in Nat,
           NEW E \in SUBSET DOMAIN f
    PROVE  /\ 0 <= MoneySum([i \in E |-> f[i]])
           /\ MoneySum([i \in E |-> f[i]]) <= MoneySum(f)
           /\ (\A i \in DOMAIN f \ E : f[i] = 0) => MoneySum([i \in E |-> f[i]]) = MoneySum(f)
<1> DEFINE D == DOMAIN f
           part == [i \in E |-> f[i]]
<1>1. PICK g : IsPartialSums(g, f) /\ MoneySum(f) = g[D]
  BY PartialSums
<1>2. /\ g[{}] = 0 /\ \A T \in SUBSET D : g[T] \in Int
      /\ \A T \in SUBSET D : \A x \in T : g[T] = f[x] + g[T \ {x}]
  BY <1>1 DEF IsPartialSums
<1>3. MoneySum(part) = g[E]
  BY <1>1, SumOfRest
<1>4. \A T \in SUBSET D : \A U \in SUBSET T : g[U] <= g[T]
  <2> DEFINE P == {T \in SUBSET D : \A U \in SUBSET T : g[U] <= g[T]}
  <2>1. ASSUME NEW T \in SUBSET D, \A x \in T : T \ {x} \in P
        PROVE  T \in P
    <3> SUFFICES ASSUME NEW U \in SUBSET T PROVE g[U] <= g[T]
      OBVIOUS
    <3>1. g[U] \in Int /\ g[T] \in Int
      BY <1>2
    <3>2. CASE U = T
      BY <3>1, <3>2
    <3>3. CASE U # T
      <4>1. PICK x \in T : x \notin U
        BY <3>3
      <4>2. U \in SUBSET (T \ {x}) /\ T \ {x} \in P
        BY <4>1, <2>1
      <4>3. g[U] <= g[T \ {x}]
        BY <4>2
      <4>4. g[T] = f[x] + g[T \ {x}] /\ f[x] \in Nat /\ g[T \ {x}] \in Int
        BY <1>2
      <4> QED
        BY <3>1, <4>3, <4>4
    <3> QED
      BY <3>2, <3>3
  <2>2. \A T \in SUBSET D : T \in P
    <3> HIDE DEF P
    <3> QED
      BY <2>1, PartByPart
  <2> QED
    BY <2>2
<1>5. 0 <= g[E] /\ g[E] <= g[D]
  <2>1. {} \in SUBSET E /\ E \in SUBSET D /\ D \in SUBSET D
    OBVIOUS
  <2> QED
    BY <2>1, <1>2, <1>4
<1>6. ASSUME \A i \in D \ E : f[i] = 0 PROVE g[E] = g[D]
  <2> DEFINE P == {T \in SUBSET D : E \subseteq T => g[T] = g[E]}
  <2>1. ASSUME NEW T \in SUBSET D, \A x \in T : T \ {x} \in P
        PROVE  T \in P
    <3> SUFFICES ASSUME E \subseteq T, T # E PROVE g[T] = g[E]
      OBVIOUS
    <3>1. PICK x \in T : x \notin E
      OBVIOUS
    <3>2. g[T \ {x}] = g[E]
      BY <3>1, <2>1
    <3>3. g[T] = f[x] + g[T \ {x}] /\ f[x] = 0 /\ g[T \ {x}] \in Int
      BY <3>1, <1>2, <1>6
    <3> QED
      BY <3>2, <3>3
  <2>2. \A T \in SUBSET D : T \in P
    <3> HIDE DEF P
    <3> QED
      BY <2>1, PartByPart
  <2> QED
    BY <2>2
<1> QED
  BY <1>1, <1>3, <1>5, <1>6

LEMMA SumIsNatural ==
    ASSUME NEW f, IsFiniteSet(DOMAIN f), \A i \in DOMAIN f : f[i] \in Nat
    PROVE  MoneySum(f) \in Nat
<1>1. MoneySum(f) \in Int
  BY SumIsWhole
<1>2. 0 <= MoneySum([i \in {} |-> f[i]]) /\ MoneySum([i \in {} |-> f[i]]) <= MoneySum(f)
  BY SumOfPart
<1>3. MoneySum([i \in {} |-> f[i]]) = 0
  BY SumOfNone
<1> QED
  BY <1>1, <1>2, <1>3

LEMMA SumOfSome ==
    ASSUME NEW f, IsFiniteSet(DOMAIN f), \A i \in DOMAIN f : f[i] \in Nat,
           NEW x \in DOMAIN f, f[x] > 0
    PROVE  MoneySum(f) \in Nat /\ MoneySum(f) > 0
<1> DEFINE rest == MoneySum([i \in DOMAIN f \ {x} |-> f[i]])
<1>1. MoneySum(f) = f[x] + rest
  BY SumTakenApart
<1>2. rest >= 0
  BY SumOfPart
<1>3. rest \in Int
  BY FS_Subset, SumIsWhole
<1> QED
  BY <1>1, <1>2, <1>3

-----------------------------------------------------------------------------
(***************************************************************************)
(* Rounding.                                                               *)
(***************************************************************************)

\* What is rounded is at most a half away.
LEMMA HalfUpIsNear ==
    ASSUME NEW n \in Int, NEW d \in Nat, d > 0
    PROVE  /\ HalfUp(n, d) \in Int
           /\ 2 * n - d <= (2 * d) * HalfUp(n, d)
           /\ (2 * d) * HalfUp(n, d) <= 2 * n + d
<1> DEFINE e == 2 * d
<1>1. e \in Nat /\ e > 0
  OBVIOUS
<1>2. ASSUME NEW m \in Nat
      PROVE  /\ m \div e \in Int
             /\ e * (m \div e) <= m /\ m < e * (m \div e) + e
  <2> HIDE DEF e
  <2> QED
    BY <1>1
<1>3. CASE n >= 0
  <2> DEFINE q == (2 * n + d) \div e
  <2>1. HalfUp(n, d) = q
    BY <1>3 DEF HalfUp
  <2>2. 2 * n + d \in Nat
    BY <1>3
  <2>3. q \in Int /\ e * q <= 2 * n + d /\ 2 * n + d < e * q + e
    BY <1>2, <2>2
  <2> HIDE DEF q
  <2>4. e * q \in Int
    BY <1>1, <2>3
  <2> DEFINE p == e * q
  <2>5. 2 * n - d <= p /\ p <= 2 * n + d
    <3>1. p \in Int /\ p <= 2 * n + d /\ 2 * n + d < p + 2 * d
      BY <2>3, <2>4
    <3> HIDE DEF p
    <3> QED
      BY <3>1
  <2> QED
    BY <2>1, <2>3, <2>5
<1>4. CASE n < 0
  <2> DEFINE q == (2 * (-n) + d) \div e
  <2>1. HalfUp(n, d) = -q
    BY <1>4 DEF HalfUp
  <2>2. 2 * (-n) + d \in Nat
    BY <1>4
  <2>3. q \in Int /\ e * q <= 2 * (-n) + d /\ 2 * (-n) + d < e * q + e
    BY <1>2, <2>2
  <2> HIDE DEF q
  <2>4. e * q \in Int /\ e * (-q) = -(e * q)
    BY <1>1, <2>3
  <2> DEFINE p == e * q
  <2>5. 2 * n - d <= -p /\ -p <= 2 * n + d
    <3>1. p \in Int /\ p <= 2 * (-n) + d /\ 2 * (-n) + d < p + 2 * d
      BY <2>3, <2>4
    <3> HIDE DEF p
    <3> QED
      BY <3>1
  <2> QED
    BY <2>1, <2>3, <2>4, <2>5
<1> QED
  BY <1>3, <1>4

LEMMA HalfUpIsWithin ==
    ASSUME NEW n \in Int, NEW d \in Nat, d > 0, NEW k \in Int
    PROVE  /\ k * d <= n => k <= HalfUp(n, d)
           /\ n <= k * d => HalfUp(n, d) <= k
<1> DEFINE q == HalfUp(n, d)
<1>1. q \in Int /\ 2 * n - d <= (2 * d) * q /\ (2 * d) * q <= 2 * n + d
  BY HalfUpIsNear
<1> HIDE DEF q
<1>2. (2 * d) * q = 2 * (d * q) /\ d * q \in Int /\ k * d \in Int
  BY <1>1
<1>3. ASSUME k * d <= n, q <= k - 1 PROVE FALSE
  <2>1. d * q <= d * (k - 1)
    BY <1>1, <1>3
  <2>2. d * (k - 1) = k * d - d
    OBVIOUS
  <2> DEFINE a == d * q
             b == k * d
  <2>3. a \in Int /\ b \in Int /\ b <= n /\ 2 * n - d <= 2 * a /\ a <= b - d
    BY <1>1, <1>2, <1>3, <2>1, <2>2
  <2> HIDE DEF a, b
  <2> QED
    BY <2>3
<1>4. ASSUME n <= k * d, k + 1 <= q PROVE FALSE
  <2>1. d * (k + 1) <= d * q
    BY <1>1, <1>4
  <2>2. d * (k + 1) = k * d + d
    OBVIOUS
  <2> DEFINE a == d * q
             b == k * d
  <2>3. a \in Int /\ b \in Int /\ n <= b /\ 2 * a <= 2 * n + d /\ b + d <= a
    BY <1>1, <1>2, <1>4, <2>1, <2>2
  <2> HIDE DEF a, b
  <2> QED
    BY <2>3
<1> QED
  BY <1>1, <1>3, <1>4 DEF q

LEMMA HalfUpKeepsOrder ==
    ASSUME NEW m \in Int, NEW n \in Int, m <= n, NEW d \in Nat, d > 0
    PROVE  HalfUp(m, d) <= HalfUp(n, d)
<1> DEFINE q == HalfUp(m, d)
           r == HalfUp(n, d)
<1>1. /\ q \in Int /\ (2 * d) * q <= 2 * m + d
      /\ r \in Int /\ 2 * n - d <= (2 * d) * r
  BY HalfUpIsNear
<1>2. CASE m = n
  BY <1>1, <1>2
<1>3. CASE m < n
  <2> HIDE DEF q, r
  <2>1. SUFFICES ASSUME r + 1 <= q PROVE FALSE
    BY <1>1 DEF q, r
  <2>2. (2 * d) * (r + 1) <= (2 * d) * q
    BY <1>1, <2>1
  <2>3. (2 * d) * (r + 1) = (2 * d) * r + 2 * d
    BY <1>1
  <2> DEFINE a == (2 * d) * q
             b == (2 * d) * r
  <2>4. a \in Int /\ b \in Int /\ b + 2 * d <= a /\ a <= 2 * m + d /\ 2 * n - d <= b
    BY <1>1, <2>2, <2>3
  <2> HIDE DEF a, b
  <2> QED
    BY <2>4, <1>3
<1> QED
  BY <1>2, <1>3

-----------------------------------------------------------------------------
(***************************************************************************)
(* The guardrail.  Two rates that differ, over arms whose sizes multiply   *)
(* to no more than Scale, differ by at least one unit of rounding.         *)
(***************************************************************************)

LEMMA RoundedRate ==
    ASSUME NEW a \in Nat, NEW m \in Nat, m > 0
    PROVE  /\ Ratio(a, m) \in Int
           /\ (2 * m) * Ratio(a, m) <= 2 * (a * Scale) + m
           /\ 2 * (a * Scale) + m < (2 * m) * Ratio(a, m) + 2 * m
<1> DEFINE x == a * Scale
           n == 2 * x + m
           d == 2 * m
<1>1. x \in Nat
  BY ScaleAssumption
<1>2. Ratio(a, m) = n \div d
  BY <1>1 DEF Ratio, HalfUp
<1>3. n \in Nat /\ d \in Nat /\ d > 0
  BY <1>1
<1> HIDE DEF n, d
<1>4. /\ n \div d \in Int
      /\ d * (n \div d) <= n
      /\ n < d * (n \div d) + d
  BY <1>3
<1> QED
  BY <1>2, <1>4 DEF n, d

LEMMA RoundingKeepsOrder ==
    ASSUME NEW a \in Nat, NEW m \in Nat, m > 0,
           NEW b \in Nat, NEW n \in Nat, n > 0,
           m * n <= Scale,
           Ratio(a, m) <= Ratio(b, n)
    PROVE  a * n <= b * m
<1> DEFINE q == Ratio(a, m)
           r == Ratio(b, n)
<1>1. /\ q \in Int /\ r \in Int /\ q <= r
      /\ 2 * (a * Scale) + m < (2 * m) * q + 2 * m
      /\ (2 * n) * r <= 2 * (b * Scale) + n
  BY RoundedRate
<1> HIDE DEF q, r
<1>2. Scale \in Nat
  BY ScaleAssumption
<1> SUFFICES ASSUME b * m + 1 <= a * n
             PROVE  FALSE
  OBVIOUS
<1>3. n * (2 * (a * Scale) + m) < n * ((2 * m) * q + 2 * m)
  BY <1>1, <1>2
<1>4. m * ((2 * n) * r) <= m * (2 * (b * Scale) + n)
  BY <1>1, <1>2
<1>5. (m * n) * q <= (m * n) * r
  BY <1>1
<1>6. (b * m + 1) * Scale <= (a * n) * Scale
  BY <1>2
<1> DEFINE A == (a * n) * Scale
           B == (b * m) * Scale
           M == m * n
           Q == (m * n) * q
           R == (m * n) * r
<1>7. /\ n * (2 * (a * Scale) + m) = 2 * A + M
      /\ n * ((2 * m) * q + 2 * m) = 2 * Q + 2 * M
      /\ m * ((2 * n) * r) = 2 * R
      /\ m * (2 * (b * Scale) + n) = 2 * B + M
      /\ (b * m + 1) * Scale = B + Scale
  BY <1>1, <1>2
<1>8. A \in Int /\ B \in Int /\ M \in Int /\ Q \in Int /\ R \in Int
  BY <1>1, <1>2
<1> HIDE DEF A, B, M, Q, R
<1>9. /\ 2 * A + M < 2 * Q + 2 * M
      /\ 2 * R <= 2 * B + M
      /\ Q <= R
      /\ B + Scale <= A
      /\ M <= Scale
  BY <1>3, <1>4, <1>5, <1>6, <1>7 DEF A, M, Q, R
<1> QED
  BY <1>2, <1>8, <1>9

\* An arm that passes the guardrail has no higher opt-out rate than its
\* control, before any rounding.
THEOREM GuardrailIsTrue ==
    ASSUME NEW t, NEW c, IsArmOutcome(t), IsArmOutcome(c),
           GuardrailContractHolds(t, c),
           ContactedCaseCount(t) * ContactedCaseCount(c) <= Scale
    PROVE  /\ t.policy_violations = 0
           /\ ContactedCaseCount(t) > 0 /\ ContactedCaseCount(c) > 0
           /\ t.opt_outs * ContactedCaseCount(c) <= c.opt_outs * ContactedCaseCount(t)
<1>1. /\ ContactedCaseCount(t) \in Nat /\ ContactedCaseCount(c) \in Nat
      /\ t.opt_outs \in Nat /\ c.opt_outs \in Nat
  BY DEF IsArmOutcome, ContactedCaseCount, SmallerOf
<1>2. /\ t.policy_violations = 0
      /\ ContactedCaseCount(t) # 0 /\ ContactedCaseCount(c) # 0
      /\ Ratio(t.opt_outs, ContactedCaseCount(t)) <= Ratio(c.opt_outs, ContactedCaseCount(c))
  BY DEF GuardrailContractHolds, OptOutRate
<1>3. ContactedCaseCount(t) > 0 /\ ContactedCaseCount(c) > 0
  BY <1>1, <1>2
<1> QED
  BY <1>1, <1>2, <1>3, RoundingKeepsOrder

-----------------------------------------------------------------------------
(***************************************************************************)
(* The headline over strata.                                               *)
(***************************************************************************)

LEMMA DifferenceIsWhole ==
    ASSUME NEW pairs, NEW at_risk, IsStrata(pairs, at_risk),
           NEW s \in DOMAIN pairs, Matched(pairs[s], s)
    PROVE  Delta(pairs[s].treatment, pairs[s].control) \in Int
<1>1. ASSUME NEW o \in {pairs[s].treatment, pairs[s].control}
      PROVE  NetRecoveredPerRupeeAtRisk(o) \in Int
  <2>1. o \in {pairs[s].treatment, pairs[s].control} \ {NoArm} /\ o.at_risk # 0
    BY DEF Matched, Comparable
  <2>2. o.at_risk \in Nat /\ o.at_risk > 0 /\ NetRecovered(o) * Scale \in Int
    BY <2>1, ScaleAssumption DEF IsStrata, NetRecovered
  <2> QED
    BY <2>2, HalfUpIsNear DEF NetRecoveredPerRupeeAtRisk, Ratio
<1> QED
  BY <1>1 DEF Delta

\* A weighted mean is no less and no more than all of its terms.
LEMMA MeanIsBetween ==
    ASSUME NEW S, IsFiniteSet(S), NEW d \in [S -> Int], NEW w \in [S -> Nat],
           MoneySum(w) > 0
    PROVE  LET mean == HalfUp(MoneySum([s \in S |-> d[s] * w[s]]), MoneySum(w))
           IN  /\ mean \in Int
               /\ \E s \in S : d[s] <= mean
               /\ \E s \in S : mean <= d[s]
<1> DEFINE total == MoneySum(w)
           terms == [s \in S |-> d[s] * w[s]]
           n == MoneySum(terms)
           mean == HalfUp(n, total)
<1>1. total \in Nat
  BY SumIsNatural
<1>2. \A s \in S : terms[s] \in Int
  OBVIOUS
<1>3. n \in Int
  <2> HIDE DEF terms
  <2> QED
    BY <1>2, SumIsWhole DEF terms
<1>4. mean \in Int
  <2> HIDE DEF n, total
  <2> QED
    BY <1>1, <1>3, HalfUpIsNear DEF total
<1>5. ASSUME NEW k \in Int
      PROVE  MoneySum([s \in S |-> k * w[s]]) = k * total
  BY SumOfMultiples
<1>6. ASSUME \A s \in S : ~(d[s] <= mean) PROVE FALSE
  <2> DEFINE k == mean + 1
             bound == [s \in S |-> k * w[s]]
  <2>1. k \in Int
    BY <1>4
  <2>2. ASSUME NEW s \in S
        PROVE  bound[s] \in Int /\ bound[s] <= terms[s]
    <3>1. k <= d[s]
      BY <1>4, <1>6
    <3> HIDE DEF k, mean
    <3>2. k * w[s] <= d[s] * w[s]
      BY <2>1, <3>1
    <3> QED
      BY <2>1, <3>2
  <2>3. MoneySum(bound) <= n
    <3> HIDE DEF bound, terms
    <3> QED
      BY <1>2, <2>2, SumsKeepOrder DEF bound, terms
  <2>4. k * total <= n
    <3> HIDE DEF k
    <3> QED
      BY <2>1, <2>3, <1>5
  <2>5. k <= mean
    <3> HIDE DEF k, n, total
    <3> QED
      BY <1>1, <1>3, <2>1, <2>4, HalfUpIsWithin DEF total
  <2> QED
    BY <1>4, <2>5
<1>7. ASSUME \A s \in S : ~(mean <= d[s]) PROVE FALSE
  <2> DEFINE k == mean - 1
             bound == [s \in S |-> k * w[s]]
  <2>1. k \in Int
    BY <1>4
  <2>2. ASSUME NEW s \in S
        PROVE  bound[s] \in Int /\ terms[s] <= bound[s]
    <3>1. d[s] <= k
      BY <1>4, <1>7
    <3> HIDE DEF k, mean
    <3>2. d[s] * w[s] <= k * w[s]
      BY <2>1, <3>1
    <3> QED
      BY <2>1, <3>2
  <2>3. n <= MoneySum(bound)
    <3> HIDE DEF bound, terms
    <3> QED
      BY <1>2, <2>2, SumsKeepOrder DEF bound, terms
  <2>4. n <= k * total
    <3> HIDE DEF k
    <3> QED
      BY <2>1, <2>3, <1>5
  <2>5. mean <= k
    <3> HIDE DEF k, n, total
    <3> QED
      BY <1>1, <1>3, <2>1, <2>4, HalfUpIsWithin DEF total
  <2> QED
    BY <1>4, <2>5
<1> QED
  BY <1>4, <1>6, <1>7

LEMMA EstimateIsBetween ==
    ASSUME NEW pairs, NEW at_risk, IsStrata(pairs, at_risk),
           StratumWeighted(pairs, at_risk) # Refused
    PROVE  LET delta(s) == Delta(pairs[s].treatment, pairs[s].control)
               estimate == StratumWeighted(pairs, at_risk)
           IN  /\ \A s \in DOMAIN pairs : pairs[s].treatment # NoArm /\ pairs[s].control # NoArm
               /\ DOMAIN at_risk = DOMAIN pairs =>
                    /\ \E s \in DOMAIN pairs : delta(s) <= estimate.delta
                    /\ \E s \in DOMAIN pairs : estimate.delta <= delta(s)
<1> DEFINE S == DOMAIN pairs
           d == [s \in S |-> Delta(pairs[s].treatment, pairs[s].control)]
           w == [s \in S |-> at_risk[s]]
<1>1. ~StratumRefusals(pairs, at_risk) /\ StratumWeighted(pairs, at_risk) = Weighted(pairs, at_risk)
  BY DEF StratumWeighted
<1>2. \A s \in S : Matched(pairs[s], s) /\ s \in DOMAIN at_risk
  BY <1>1 DEF StratumRefusals
<1>3. \A s \in S : pairs[s].treatment # NoArm /\ pairs[s].control # NoArm
  BY <1>2 DEF Matched
<1>4. ASSUME DOMAIN at_risk = S
      PROVE  /\ \E s \in S : d[s] <= Weighted(pairs, at_risk).delta
             /\ \E s \in S : Weighted(pairs, at_risk).delta <= d[s]
  <2>1. IsFiniteSet(S) /\ d \in [S -> Int] /\ w \in [S -> Nat]
    BY <1>2, <1>4, DifferenceIsWhole DEF IsStrata
  <2>2. MoneySum(w) = MoneySum(at_risk)
    <3>1. DOMAIN w = S /\ \A s \in S : w[s] = at_risk[s] /\ w[s] \in Int
      BY <2>1
    <3> HIDE DEF w
    <3>2. MoneySum(w) <= MoneySum(at_risk) /\ MoneySum(at_risk) <= MoneySum(w)
      BY <2>1, <3>1, <1>4, SumsKeepOrder
    <3>3. MoneySum(w) \in Int /\ MoneySum(at_risk) \in Int
      BY <2>1, <3>1, <1>4, SumIsWhole
    <3> QED
      BY <3>2, <3>3
  <2>3. MoneySum(w) \in Nat /\ MoneySum(w) # 0
    <3>1. MoneySum(at_risk) # 0
      BY <1>1 DEF StratumRefusals
    <3>2. DOMAIN w = S /\ \A s \in S : w[s] \in Nat
      BY <2>1
    <3> QED
      BY <3>1, <3>2, <2>1, <2>2, SumIsNatural
  <2> DEFINE mean == HalfUp(MoneySum([s \in S |-> d[s] * w[s]]), MoneySum(w))
  <2>4. (\E s \in S : d[s] <= mean) /\ (\E s \in S : mean <= d[s])
    <3> HIDE DEF d, w
    <3> QED
      BY <2>1, <2>3, MeanIsBetween
  <2>5. [s \in S |-> d[s] * w[s]]
            = [s \in S |-> Delta(pairs[s].treatment, pairs[s].control) * at_risk[s]]
    OBVIOUS
  <2>6. Weighted(pairs, at_risk).delta = mean
    BY <2>2, <2>5 DEF Weighted
  <2> QED
    BY <2>4, <2>6
<1> QED
  BY <1>1, <1>3, <1>4

-----------------------------------------------------------------------------
(***************************************************************************)
(* The scoreboard.                                                         *)
(***************************************************************************)

\* The places of an arm, on a basis, and the cases there.
PlacesOf(outcomes, basis, arm) ==
    {i \in DOMAIN outcomes :
        /\ outcomes[i].arm = arm
        /\ basis = "resolved_only" => outcomes[i].simulated}
CasesOn(outcomes, basis, arm) == OfArm(InScope(outcomes, basis), arm)

LEMMA CasesOfAnArm ==
    ASSUME NEW outcomes, IsBatch(outcomes), NEW basis, NEW arm \in ScoreboardArms
    PROVE  /\ CasesOn(outcomes, basis, arm)
                = [i \in PlacesOf(outcomes, basis, arm) |-> outcomes[i]]
           /\ PlacesOf(outcomes, basis, arm) \in SUBSET DOMAIN outcomes
           /\ IsFiniteSet(PlacesOf(outcomes, basis, arm))
           /\ \A i \in PlacesOf(outcomes, basis, arm) :
                /\ outcomes[i].amount \in Nat \ {0}
                /\ outcomes[i].recovered \in Nat
                /\ outcomes[i].recovered <= outcomes[i].amount
<1> DEFINE scope == {i \in DOMAIN outcomes :
                        /\ outcomes[i].arm \in ScoreboardArms
                        /\ basis = "resolved_only" => outcomes[i].simulated}
           places == PlacesOf(outcomes, basis, arm)
           cases == OfArm(InScope(outcomes, basis), arm)
<1>1. InScope(outcomes, basis) = [i \in scope |-> outcomes[i]]
  BY DEF InScope, RestrictValues, Restrict
<1>2. cases = [i \in {i \in scope : outcomes[i].arm = arm} |-> outcomes[i]]
  <2> DEFINE inScope == [i \in scope |-> outcomes[i]]
  <2>1. cases = [i \in {i \in DOMAIN inScope : inScope[i].arm = arm} |-> inScope[i]]
    BY <1>1 DEF OfArm, RestrictValues, Restrict
  <2>2. {i \in DOMAIN inScope : inScope[i].arm = arm} = {i \in scope : outcomes[i].arm = arm}
    OBVIOUS
  <2>3. \A i \in scope : inScope[i] = outcomes[i]
    OBVIOUS
  <2> HIDE DEF inScope, scope, cases
  <2> QED
    BY <2>1, <2>2, <2>3
<1>3. {i \in scope : outcomes[i].arm = arm} = places
  BY DEF PlacesOf
<1>4. cases = [i \in places |-> outcomes[i]]
  BY <1>2, <1>3
<1>5. IsFiniteSet(places)
  BY FiniteFilter DEF IsBatch, PlacesOf
<1>6. ASSUME NEW i \in places
      PROVE  /\ outcomes[i].amount \in Nat \ {0}
             /\ outcomes[i].recovered \in Nat /\ outcomes[i].recovered <= outcomes[i].amount
  BY DEF IsBatch, PlacesOf
<1>7. places \in SUBSET DOMAIN outcomes
  BY DEF PlacesOf
<1> HIDE DEF places, cases
<1> QED
  BY <1>4, <1>5, <1>6, <1>7 DEF places, cases, CasesOn

LEMMA ResolvedAreNeverLower ==
    ASSUME NEW outcomes, IsBatch(outcomes), NEW arm \in ScoreboardArms
    PROVE  LET pooled(basis) == PooledOutcome(arm, CasesOn(outcomes, basis, arm))
               all == pooled("all_randomised")
               resolved == pooled("resolved_only")
           IN  /\ all.gross = resolved.gross /\ all.recovered = resolved.recovered
               /\ all.gross * resolved.at_risk <= resolved.gross * all.at_risk
<1> DEFINE casesOf(basis) == CasesOn(outcomes, basis, arm)
           A == {i \in DOMAIN outcomes : outcomes[i].arm = arm}
           R == {i \in DOMAIN outcomes : outcomes[i].arm = arm /\ outcomes[i].simulated}
           back == [i \in A |-> outcomes[i].recovered]
           risk == [i \in A |-> outcomes[i].amount]
           all == PooledOutcome(arm, casesOf("all_randomised"))
           resolved == PooledOutcome(arm, casesOf("resolved_only"))
<1>1. /\ casesOf("all_randomised") = [i \in A |-> outcomes[i]]
      /\ casesOf("resolved_only") = [i \in R |-> outcomes[i]]
      /\ IsFiniteSet(A) /\ R \in SUBSET A
      /\ \A i \in A : back[i] \in Nat /\ risk[i] \in Nat
      /\ \A i \in A \ R : back[i] = 0
  <2>1. /\ casesOf("all_randomised") = [i \in A |-> outcomes[i]]
        /\ casesOf("resolved_only") = [i \in R |-> outcomes[i]]
        /\ IsFiniteSet(A)
    <3>1. A = PlacesOf(outcomes, "all_randomised", arm)
      BY DEF PlacesOf
    <3>2. R = PlacesOf(outcomes, "resolved_only", arm)
      BY DEF PlacesOf
    <3> HIDE DEF A, R
    <3> QED
      BY <3>1, <3>2, CasesOfAnArm
  <2>2. \A i \in A : back[i] \in Nat /\ risk[i] \in Nat
    BY DEF IsBatch
  <2>3. \A i \in A \ R : back[i] = 0
    BY DEF IsBatch
  <2> QED
    BY <2>1, <2>2, <2>3
<1>2. /\ all.gross = MoneySum(back) /\ all.at_risk = MoneySum(risk)
      /\ all.recovered = Cardinality({i \in A : outcomes[i].recovered > 0})
  <2> DEFINE cases == [i \in A |-> outcomes[i]]
  <2>1. DOMAIN cases = A /\ \A i \in A : cases[i] = outcomes[i]
    OBVIOUS
  <2>2. all = PooledOutcome(arm, cases)
    BY <1>1
  <2> HIDE DEF cases, A, all
  <2> QED
    BY <2>1, <2>2 DEF PooledOutcome
<1>3. /\ resolved.gross = MoneySum([i \in R |-> back[i]])
      /\ resolved.at_risk = MoneySum([i \in R |-> risk[i]])
      /\ resolved.recovered = Cardinality({i \in R : outcomes[i].recovered > 0})
  <2> DEFINE cases == [i \in R |-> outcomes[i]]
  <2>1. DOMAIN cases = R /\ \A i \in R : cases[i] = outcomes[i]
    OBVIOUS
  <2>2. resolved = PooledOutcome(arm, cases)
    BY <1>1
  <2>3. \A i \in R : back[i] = outcomes[i].recovered /\ risk[i] = outcomes[i].amount
    BY <1>1
  <2> HIDE DEF cases, R, A, back, risk, resolved
  <2> QED
    BY <2>1, <2>2, <2>3 DEF PooledOutcome
<1>4. DOMAIN back = A /\ DOMAIN risk = A
  OBVIOUS
<1>5. {i \in A : outcomes[i].recovered > 0} = {i \in R : outcomes[i].recovered > 0}
  <2>1. \A i \in A \ R : outcomes[i].recovered = 0
    BY <1>1
  <2>2. R \in SUBSET A
    BY <1>1
  <2> HIDE DEF A, R
  <2> QED
    BY <2>1, <2>2
<1> HIDE DEF A, R, back, risk, all, resolved
<1>6. MoneySum([i \in R |-> back[i]]) = MoneySum(back)
  BY <1>1, <1>4, SumOfPart
<1>7. 0 <= MoneySum([i \in R |-> risk[i]]) /\ MoneySum([i \in R |-> risk[i]]) <= MoneySum(risk)
  BY <1>1, <1>4, SumOfPart
<1>8. MoneySum(back) \in Nat /\ MoneySum(risk) \in Nat
  BY <1>1, <1>4, SumIsNatural
<1>9. MoneySum([i \in R |-> risk[i]]) \in Int
  <2> DEFINE part == [i \in R |-> risk[i]]
  <2>1. DOMAIN part = R /\ IsFiniteSet(R) /\ \A i \in R : part[i] \in Int
    BY <1>1, FS_Subset
  <2> HIDE DEF part
  <2>2. MoneySum(part) \in Int
    BY <2>1, SumIsWhole
  <2> QED
    BY <2>2 DEF part
<1>10. ASSUME NEW g \in Nat, NEW a \in Int, NEW b \in Int, a <= b
       PROVE  g * a <= g * b
  BY <1>10
<1>11. all.gross * resolved.at_risk <= resolved.gross * all.at_risk
  BY <1>2, <1>3, <1>6, <1>7, <1>8, <1>9, <1>10
<1> QED
  BY <1>2, <1>3, <1>5, <1>6, <1>11 DEF all, resolved

AreCases(cases) ==
    /\ IsFiniteSet(DOMAIN cases) /\ DOMAIN cases # {}
    /\ \A i \in DOMAIN cases :
        /\ cases[i].amount \in Nat \ {0}
        /\ cases[i].recovered \in Nat /\ cases[i].recovered <= cases[i].amount

\* What an arm's places sum to, picked over again or as they are: there is
\* money at risk, and no more of it comes back.
LEMMA PickedSums ==
    ASSUME NEW cases, AreCases(cases),
           NEW p \in [DOMAIN cases -> DOMAIN cases]
    PROVE  LET n == MoneySum([i \in DOMAIN cases |-> cases[p[i]].recovered])
               d == MoneySum([i \in DOMAIN cases |-> cases[p[i]].amount])
           IN  n \in Nat /\ d \in Nat /\ d > 0 /\ n <= d
<1> DEFINE P == DOMAIN cases
           back == [i \in P |-> cases[p[i]].recovered]
           risk == [i \in P |-> cases[p[i]].amount]
<1>1. /\ DOMAIN back = P /\ DOMAIN risk = P /\ IsFiniteSet(P)
      /\ \A i \in P : back[i] \in Nat /\ risk[i] \in Nat /\ risk[i] > 0 /\ back[i] <= risk[i]
  BY DEF AreCases
<1>2. PICK x \in P : TRUE
  BY DEF AreCases
<1> HIDE DEF back, risk
<1>3. MoneySum(back) \in Nat
  BY <1>1, SumIsNatural
<1>4. MoneySum(risk) \in Nat /\ MoneySum(risk) > 0
  BY <1>1, <1>2, SumOfSome
<1>5. MoneySum(back) <= MoneySum(risk)
  BY <1>1, SumsKeepOrder
<1> QED
  BY <1>3, <1>4, <1>5 DEF back, risk

LEMMA RatesAreWithin ==
    ASSUME NEW n \in Int, NEW d \in Nat, d > 0, -d <= n, n <= d
    PROVE  Ratio(n, d) \in -Scale .. Scale
<1>1. Scale \in Nat
  BY ScaleAssumption
<1>2. n * Scale \in Int /\ n * Scale <= Scale * d /\ (-Scale) * d <= n * Scale
  <2>1. n * Scale <= d * Scale /\ (-d) * Scale <= n * Scale
    BY <1>1
  <2>2. d * Scale = Scale * d /\ (-d) * Scale = (-Scale) * d /\ n * Scale \in Int
    BY <1>1
  <2> QED
    BY <2>1, <2>2
<1>3. HalfUp(n * Scale, d) <= Scale
  BY <1>1, <1>2, HalfUpIsWithin
<1>4. -Scale <= HalfUp(n * Scale, d)
  <2>1. -Scale \in Int
    BY <1>1
  <2> QED
    BY <1>2, <2>1, HalfUpIsWithin
<1>5. HalfUp(n * Scale, d) \in Int
  BY <1>2, HalfUpIsNear
<1> QED
  BY <1>1, <1>3, <1>4, <1>5 DEF Ratio

LEMMA MoneyIsWithin ==
    ASSUME NEW total \in Nat, NEW ratio \in -Scale .. Scale
    PROVE  /\ MoneyTimes(total, ratio) \in Int
           /\ -total <= MoneyTimes(total, ratio) /\ MoneyTimes(total, ratio) <= total
<1>1. Scale \in Nat /\ Scale > 0 /\ ratio \in Int /\ -Scale <= ratio /\ ratio <= Scale
  BY ScaleAssumption
<1>2. total * ratio \in Int /\ total * ratio <= total * Scale
  BY <1>1
<1>3. (-total) * Scale <= total * ratio
  <2>1. total * (-Scale) <= total * ratio
    BY <1>1
  <2>2. total * (-Scale) = (-total) * Scale
    BY <1>1
  <2> QED
    BY <2>1, <2>2
<1>4. HalfUp(total * ratio, Scale) <= total
  BY <1>1, <1>2, HalfUpIsWithin
<1>5. -total <= HalfUp(total * ratio, Scale)
  <2>1. -total \in Int
    OBVIOUS
  <2> QED
    BY <1>1, <1>2, <1>3, <2>1, HalfUpIsWithin
<1>6. HalfUp(total * ratio, Scale) \in Int
  BY <1>1, <1>2, HalfUpIsNear
<1> QED
  BY <1>4, <1>5, <1>6 DEF MoneyTimes

LEMMA MoneyKeepsOrder ==
    ASSUME NEW total \in Nat, NEW a \in Int, NEW b \in Int, a <= b
    PROVE  MoneyTimes(total, a) <= MoneyTimes(total, b)
<1>1. Scale \in Nat /\ Scale > 0
  BY ScaleAssumption
<1>2. total * a \in Int /\ total * b \in Int /\ total * a <= total * b
  OBVIOUS
<1> QED
  BY <1>1, <1>2, HalfUpKeepsOrder DEF MoneyTimes

\* The k-th smallest of a list is one of it, and no greater than the next.
LEMMA OrderStatisticIs ==
    ASSUME NEW m \in Nat, NEW N \in Nat, NEW list \in [1 .. N -> -m .. m],
           NEW k \in 0 .. N - 1
    PROVE  LET x == OrderStatistic(list, k)
           IN  /\ x \in -m .. m
               /\ Cardinality({i \in 1 .. N : list[i] < x}) <= k
               /\ Cardinality({i \in 1 .. N : list[i] <= x}) > k
<1> DEFINE Below(x) == {i \in 1 .. N : list[i] < x}
           UpTo(x) == {i \in 1 .. N : list[i] <= x}
           Is(x) == Cardinality(Below(x)) <= k /\ Cardinality(UpTo(x)) > k
           Enough == {n \in Nat : Cardinality(UpTo(n - m)) > k}
<1>1. k \in Nat /\ k < N
  OBVIOUS
<1>2. \A x \in Int : /\ IsFiniteSet(Below(x)) /\ Cardinality(Below(x)) \in Nat
                     /\ IsFiniteSet(UpTo(x)) /\ Cardinality(UpTo(x)) \in Nat
  <2>1. IsFiniteSet(1 .. N)
    BY FS_Interval
  <2> QED
    BY <2>1, FS_Subset, FS_CardinalityType
<1>3. UpTo(m) = 1 .. N
  OBVIOUS
<1>4. Cardinality(1 .. N) = N
  BY FS_Interval
<1>5. 2 * m \in Enough
  <2>1. (2 * m) - m = m /\ 2 * m \in Nat
    OBVIOUS
  <2>2. Cardinality(UpTo(m)) > k
    BY <1>1, <1>3, <1>4
  <2> HIDE DEF UpTo
  <2> QED
    BY <2>1, <2>2
<1>6. PICK n \in Enough : \A j \in Enough : ~(j < n)
  BY <1>5, LeastNumber
<1> DEFINE x == n - m
<1>7. x \in Int /\ Cardinality(UpTo(x)) > k
  BY <1>6
<1>8. Cardinality(Below(x)) <= k
  <2>1. CASE n = 0
    <3>1. Below(x) = {}
      BY <2>1
    <3> QED
      BY <3>1, <1>1, FS_EmptySet
  <2>2. CASE n # 0
    <3>1. n - 1 \in Nat /\ n - 1 < n
      BY <1>6, <2>2
    <3>2. ~(Cardinality(UpTo((n - 1) - m)) > k)
      BY <1>6, <3>1
    <3>3. UpTo((n - 1) - m) = Below(x)
      BY <1>6
    <3>4. Cardinality(Below(x)) \in Nat
      BY <1>2, <1>7
    <3> HIDE DEF UpTo, Below, x
    <3> QED
      BY <3>2, <3>3, <3>4, <1>1
  <2> QED
    BY <2>1, <2>2
<1>9. \E i \in 1 .. N : list[i] = x
  <2>1. SUFFICES ASSUME \A i \in 1 .. N : list[i] # x PROVE FALSE
    OBVIOUS
  <2>2. UpTo(x) = Below(x)
    BY <1>7, <2>1
  <2> HIDE DEF UpTo, Below, x
  <2> QED
    BY <2>2, <1>7, <1>8, <1>2, <1>1
<1>10. x \in {list[i] : i \in DOMAIN list} /\ Is(x)
  BY <1>7, <1>8, <1>9
<1>11. OrderStatistic(list, k) = CHOOSE y \in {list[i] : i \in DOMAIN list} : Is(y)
  <2>1. DOMAIN list = 1 .. N
    OBVIOUS
  <2> QED
    BY <2>1 DEF OrderStatistic
<1> DEFINE s == OrderStatistic(list, k)
<1>12. s \in {list[i] : i \in DOMAIN list} /\ Is(s)
  <2> HIDE DEF Is, x
  <2> QED
    BY <1>10, <1>11
<1>13. s \in -m .. m
  BY <1>12
<1> QED
  BY <1>12, <1>13

LEMMA OrderStatisticsAreOrdered ==
    ASSUME NEW m \in Nat, NEW N \in Nat, NEW list \in [1 .. N -> -m .. m],
           NEW k \in 0 .. N - 1, NEW l \in 0 .. N - 1, k <= l
    PROVE  OrderStatistic(list, k) <= OrderStatistic(list, l)
<1> DEFINE x == OrderStatistic(list, k)
           y == OrderStatistic(list, l)
<1>1. /\ x \in -m .. m /\ y \in -m .. m
      /\ Cardinality({i \in 1 .. N : list[i] < x}) <= k
      /\ Cardinality({i \in 1 .. N : list[i] <= y}) > l
  BY OrderStatisticIs
<1> HIDE DEF x, y
<1>2. SUFFICES ASSUME y < x PROVE FALSE
  BY <1>1 DEF x, y
<1> DEFINE A == {i \in 1 .. N : list[i] <= y}
           B == {i \in 1 .. N : list[i] < x}
<1>3. A \in SUBSET B
  BY <1>1, <1>2
<1>4. IsFiniteSet(1 .. N) /\ B \in SUBSET (1 .. N)
  BY FS_Interval
<1>5. IsFiniteSet(B) /\ Cardinality(B) \in Nat
  BY <1>4, FS_Subset, FS_CardinalityType
<1>6. Cardinality(A) <= Cardinality(B) /\ Cardinality(A) \in Nat
  BY <1>3, <1>5, FS_Subset, FS_CardinalityType
<1> QED
  BY <1>1, <1>5, <1>6

LEMMA ReplicateIsWithin ==
    ASSUME NEW t, NEW c, AreCases(t), AreCases(c),
           NEW pick \in [treatment : [DOMAIN t -> DOMAIN t],
                         control : [DOMAIN c -> DOMAIN c]]
    PROVE  Ratio(ResampledDelta(t, c, pick).num, ResampledDelta(t, c, pick).den)
            \in -Scale .. Scale
<1> DEFINE nt == MoneySum([i \in DOMAIN t |-> t[pick.treatment[i]].recovered])
           dt == MoneySum([i \in DOMAIN t |-> t[pick.treatment[i]].amount])
           nc == MoneySum([i \in DOMAIN c |-> c[pick.control[i]].recovered])
           dc == MoneySum([i \in DOMAIN c |-> c[pick.control[i]].amount])
<1>1. pick.treatment \in [DOMAIN t -> DOMAIN t] /\ pick.control \in [DOMAIN c -> DOMAIN c]
  OBVIOUS
<1>2. nt \in Nat /\ dt \in Nat /\ dt > 0 /\ nt <= dt
  BY <1>1, PickedSums
<1>3. nc \in Nat /\ dc \in Nat /\ dc > 0 /\ nc <= dc
  BY <1>1, PickedSums
<1>4. ResampledDelta(t, c, pick) = [num |-> nt * dc - nc * dt, den |-> dt * dc]
  BY DEF ResampledDelta
<1> HIDE DEF nt, dt, nc, dc
<1>5. /\ nt * dc \in Nat /\ nt * dc <= dt * dc
      /\ nc * dt \in Nat /\ nc * dt <= dt * dc
      /\ dt * dc \in Nat /\ dt * dc > 0
  <2>1. nt * dc <= dt * dc /\ nc * dt <= dc * dt /\ dc * dt = dt * dc
    BY <1>2, <1>3
  <2>2. nt * dc \in Nat /\ nc * dt \in Nat /\ dt * dc \in Nat /\ dt * dc > 0
    BY <1>2, <1>3
  <2> QED
    BY <2>1, <2>2
<1> DEFINE a == nt * dc
           b == nc * dt
           d == dt * dc
<1>6. a - b \in Int /\ -d <= a - b /\ a - b <= d /\ d \in Nat /\ d > 0
  <2>1. a \in Nat /\ b \in Nat /\ d \in Nat /\ a <= d /\ b <= d /\ d > 0
    BY <1>5
  <2> HIDE DEF a, b, d
  <2> QED
    BY <2>1
<1>7. Ratio(a - b, d) \in -Scale .. Scale
  <2> HIDE DEF a, b, d
  <2> QED
    BY <1>6, RatesAreWithin
<1> QED
  BY <1>4, <1>7

LEMMA PooledIs ==
    ASSUME NEW arm, NEW cases, AreCases(cases)
    PROVE  LET o == PooledOutcome(arm, cases)
           IN  /\ o.arm = arm
               /\ o.gross \in Nat /\ o.at_risk \in Nat /\ o.at_risk > 0
               /\ o.gross <= o.at_risk
               /\ NetRecoveredPerRupeeAtRisk(o) \in 0 .. Scale
<1> DEFINE P == DOMAIN cases
           p == [i \in P |-> i]
           gross == MoneySum([i \in P |-> cases[i].recovered])
           risk == MoneySum([i \in P |-> cases[i].amount])
           o == PooledOutcome(arm, cases)
<1>1. gross \in Nat /\ risk \in Nat /\ risk > 0 /\ gross <= risk
  <2>1. p \in [P -> P] /\ \A i \in P : p[i] = i
    OBVIOUS
  <2>2. /\ [i \in P |-> cases[p[i]].recovered] = [i \in P |-> cases[i].recovered]
        /\ [i \in P |-> cases[p[i]].amount] = [i \in P |-> cases[i].amount]
    BY <2>1
  <2> HIDE DEF p
  <2>3. LET n == MoneySum([i \in P |-> cases[p[i]].recovered])
            d == MoneySum([i \in P |-> cases[p[i]].amount])
        IN  n \in Nat /\ d \in Nat /\ d > 0 /\ n <= d
    BY <2>1, PickedSums
  <2> QED
    BY <2>2, <2>3
<1>2. o.arm = arm /\ o.gross = gross /\ o.at_risk = risk /\ o.cost = 0
  BY DEF PooledOutcome
<1> HIDE DEF gross, risk, o
<1>3. NetRecoveredPerRupeeAtRisk(o) = Ratio(gross, risk)
  BY <1>1, <1>2 DEF NetRecoveredPerRupeeAtRisk, NetRecovered
<1>4. Ratio(gross, risk) \in -Scale .. Scale
  BY <1>1, RatesAreWithin
<1>5. 0 <= Ratio(gross, risk)
  <2>1. gross * Scale \in Nat
    BY <1>1, ScaleAssumption
  <2>2. 0 * risk <= gross * Scale
    BY <1>1, <2>1
  <2> QED
    BY <1>1, <2>1, <2>2, HalfUpIsWithin DEF Ratio
<1>6. Ratio(gross, risk) \in 0 .. Scale
  BY <1>4, <1>5, ScaleAssumption
<1> QED
  BY <1>1, <1>2, <1>3, <1>6 DEF o

LEMMA IndexesAreOrdered ==
    ASSUME NEW N \in Nat, N >= 2
    PROVE  /\ LowIndex(N) \in 0 .. N - 1 /\ HighIndex(N) \in 0 .. N - 1
           /\ LowIndex(N) <= HighIndex(N)
<1> DEFINE a == (25 * N) \div 1000
           b == (975 * N) \div 1000
<1>1. a \in Nat /\ b \in Nat /\ a <= b /\ a <= N - 1
  OBVIOUS
<1>2. LowIndex(N) = a /\ HighIndex(N) = IF N - 1 <= b THEN N - 1 ELSE b
  BY DEF LowIndex, HighIndex, SmallerOf
<1> HIDE DEF a, b
<1> QED
  BY <1>1, <1>2

LEMMA ComparisonIsWithin ==
    ASSUME NEW t, NEW c, AreCases(t), AreCases(c), NEW total \in Nat,
           NEW picks \in Seq([treatment : [DOMAIN t -> DOMAIN t],
                              control : [DOMAIN c -> DOMAIN c]]),
           Len(picks) >= 2
    PROVE  LET r == Compare(t, c, total, picks)
               within(x) == -total <= x /\ x <= total
           IN  /\ r.ci_low <= r.ci_high
               /\ ~(r.ci_low > r.ci_high)
               /\ within(r.point) /\ within(r.ci_low) /\ within(r.ci_high)
               /\ r.p_value \in 0 .. PScale
<1> DEFINE N == Len(picks)
           deltas == [k \in DOMAIN picks |-> ResampledDelta(t, c, picks[k])]
           ratios == [k \in DOMAIN picks |-> Ratio(deltas[k].num, deltas[k].den)]
           low == OrderStatistic(ratios, LowIndex(N))
           high == OrderStatistic(ratios, HighIndex(N))
           below == Cardinality({k \in DOMAIN picks : deltas[k].num <= 0})
           above == Cardinality({k \in DOMAIN picks : deltas[k].num >= 0})
           treated == PooledOutcome("A4", t)
           control == PooledOutcome("control", c)
           r == Compare(t, c, total, picks)
<1>1. N \in Nat /\ DOMAIN picks = 1 .. N
  OBVIOUS
<1>2. ratios \in [1 .. N -> -Scale .. Scale]
  <2>1. ASSUME NEW k \in 1 .. N
        PROVE  Ratio(ResampledDelta(t, c, picks[k]).num, ResampledDelta(t, c, picks[k]).den)
                \in -Scale .. Scale
    <3>1. picks[k] \in [treatment : [DOMAIN t -> DOMAIN t], control : [DOMAIN c -> DOMAIN c]]
      <4> DEFINE R == [treatment : [DOMAIN t -> DOMAIN t], control : [DOMAIN c -> DOMAIN c]]
      <4>1. picks \in Seq(R)
        OBVIOUS
      <4> HIDE DEF R
      <4>2. picks[k] \in R
        BY <1>1, <4>1
      <4> QED
        BY <4>2 DEF R
    <3> QED
      BY <3>1, ReplicateIsWithin
  <2> QED
    BY <1>1, <2>1
<1>3. /\ LowIndex(N) \in 0 .. N - 1 /\ HighIndex(N) \in 0 .. N - 1
      /\ LowIndex(N) <= HighIndex(N)
  BY <1>1, IndexesAreOrdered
<1>4. Scale \in Nat
  BY ScaleAssumption
<1>5. low \in -Scale .. Scale /\ high \in -Scale .. Scale /\ low <= high
  <2> HIDE DEF ratios, N
  <2> QED
    BY <1>1, <1>2, <1>3, <1>4, OrderStatisticIs, OrderStatisticsAreOrdered
<1>6. Delta(treated, control) \in -Scale .. Scale
  <2>1. /\ NetRecoveredPerRupeeAtRisk(treated) \in 0 .. Scale
        /\ NetRecoveredPerRupeeAtRisk(control) \in 0 .. Scale
    BY PooledIs
  <2> HIDE DEF treated, control
  <2> QED
    BY <2>1, <1>4 DEF Delta
<1>7. NetIncrementalRecovery(treated, control, total).point
        = MoneyTimes(total, Delta(treated, control))
  <2>1. Comparable(treated, control)
    <3>1. treated.arm = "A4" /\ control.arm = "control"
      BY PooledIs
    <3>2. treated.at_risk > 0 /\ control.at_risk > 0
      BY PooledIs
    <3> HIDE DEF treated, control
    <3> QED
      BY <3>1, <3>2 DEF Comparable
  <2> HIDE DEF treated, control
  <2> QED
    BY <2>1 DEF NetIncrementalRecovery
<1>8. /\ r.point = MoneyTimes(total, Delta(treated, control))
      /\ r.ci_low = MoneyTimes(total, low) /\ r.ci_high = MoneyTimes(total, high)
      /\ r.p_value = SmallerOf(PScale, HalfUp(2 * SmallerOf(below, above) * PScale, N))
  <2>1. /\ r.point = NetIncrementalRecovery(treated, control, total).point
        /\ r.ci_low = MoneyTimes(total, Bootstrap(t, c, picks).low)
        /\ r.ci_high = MoneyTimes(total, Bootstrap(t, c, picks).high)
        /\ r.p_value = Bootstrap(t, c, picks).p_value
    BY DEF Compare
  <2>2. /\ Bootstrap(t, c, picks).low = low /\ Bootstrap(t, c, picks).high = high
        /\ Bootstrap(t, c, picks).p_value
            = SmallerOf(PScale, HalfUp(2 * SmallerOf(below, above) * PScale, N))
    BY DEF Bootstrap
  <2> QED
    BY <2>1, <2>2, <1>7
<1>9. below \in Nat /\ above \in Nat
  <2>1. IsFiniteSet(1 .. N) /\ DOMAIN picks = 1 .. N
    BY <1>1, FS_Interval
  <2> HIDE DEF deltas
  <2> QED
    BY <2>1, FS_Subset, FS_CardinalityType
<1> HIDE DEF N, deltas, ratios, low, high, below, above, treated, control, r
<1>10. r.p_value \in 0 .. PScale
  <2> DEFINE n == 2 * SmallerOf(below, above) * PScale
  <2>1. n \in Nat
    <3>1. 2 * SmallerOf(below, above) \in Nat /\ PScale \in Nat
      BY <1>9, PScaleAssumption DEF SmallerOf
    <3> DEFINE twice == 2 * SmallerOf(below, above)
    <3> HIDE DEF twice
    <3>2. twice * PScale \in Nat
      BY <3>1 DEF twice
    <3> QED
      BY <3>2 DEF twice
  <2>2. r.p_value = SmallerOf(PScale, HalfUp(n, N))
    BY <1>8
  <2> HIDE DEF n
  <2>3. n \in Int /\ N \in Nat /\ N > 0 /\ 0 * N <= n
    BY <1>1, <2>1 DEF N
  <2>4. HalfUp(n, N) \in Int /\ 0 <= HalfUp(n, N)
    <3>1. HalfUp(n, N) \in Int
      BY <2>3, HalfUpIsNear
    <3>2. 0 <= HalfUp(n, N)
      BY <2>3, HalfUpIsWithin
    <3> QED
      BY <3>1, <3>2
  <2> QED
    BY <2>2, <2>4, PScaleAssumption DEF SmallerOf
<1>11. /\ r.point \in Int /\ -total <= r.point /\ r.point <= total
       /\ r.ci_low \in Int /\ -total <= r.ci_low /\ r.ci_low <= total
       /\ r.ci_high \in Int /\ -total <= r.ci_high /\ r.ci_high <= total
  BY <1>5, <1>6, <1>8, MoneyIsWithin
<1>12. r.ci_low <= r.ci_high
  <2>1. low \in Int /\ high \in Int /\ low <= high
    BY <1>4, <1>5
  <2> QED
    BY <2>1, <1>8, MoneyKeepsOrder
<1>13. ~(r.ci_low > r.ci_high)
  BY <1>11, <1>12
<1> QED
  BY <1>10, <1>11, <1>12, <1>13 DEF r

LEMMA BoardIsWithin ==
    ASSUME NEW outcomes, IsBatch(outcomes), NEW basis \in Basis,
           NEW picks, ArePicks(outcomes, basis, picks)
    PROVE  LET board == BuildScoreboard(outcomes, basis, picks)
               within(x) == -board.total_at_risk <= x /\ x <= board.total_at_risk
           IN  IF board = Refused
               THEN \/ \E arm \in ScoreboardArms :
                            \A i \in DOMAIN outcomes :
                                \/ outcomes[i].arm # arm
                                \/ basis = "resolved_only" /\ ~outcomes[i].simulated
                    \/ \E arm \in {"A0", "A1"} : Len(picks[arm]) < 2
               ELSE /\ \A arm \in ScoreboardArms :
                        board.arms[arm] = PooledOutcome(arm, CasesOn(outcomes, basis, arm))
                    /\ \A arm \in {"A0", "A1"} :
                        LET c == board.comparisons[arm]
                        IN  /\ c.ci_low <= c.ci_high
                            /\ within(c.point) /\ within(c.ci_low) /\ within(c.ci_high)
                            /\ c.p_value \in 0 .. PScale
<1> DEFINE cases(arm) == CasesOn(outcomes, basis, arm)
           scores == [arm \in ScoreboardArms |-> PooledOutcome(arm, cases(arm))]
           total == MoneySum([arm \in ScoreboardArms |-> scores[arm].at_risk])
           comparisons ==
            [arm \in {"A0", "A1"} |-> Compare(cases("A4"), cases(arm), total, picks[arm])]
           board == BuildScoreboard(outcomes, basis, picks)
           few == \E arm \in {"A0", "A1"} : Len(picks[arm]) < 2
           none == \E arm \in ScoreboardArms : DOMAIN cases(arm) = {}
           inverted == \E arm \in {"A0", "A1"} :
                        comparisons[arm].ci_low > comparisons[arm].ci_high
           built == [arms |-> scores, total_at_risk |-> total, comparisons |-> comparisons]
<1>1. board = IF few \/ none \/ inverted THEN Refused ELSE built
  BY DEF BuildScoreboard, CasesOn
<1>2. built # Refused
  <2>1. DOMAIN built # {} /\ DOMAIN Refused = {}
    BY DEF Refused
  <2> QED
    BY <2>1
<1>3. ASSUME NEW arm \in ScoreboardArms, DOMAIN cases(arm) = {}
      PROVE  \A i \in DOMAIN outcomes :
                \/ outcomes[i].arm # arm
                \/ basis = "resolved_only" /\ ~outcomes[i].simulated
  <2>1. PlacesOf(outcomes, basis, arm) = {}
    BY <1>3, CasesOfAnArm
  <2> QED
    BY <2>1 DEF PlacesOf
<1>4. ASSUME ~few, ~none
      PROVE  \A arm \in {"A0", "A1"} :
                LET c == comparisons[arm]
                    within(x) == -total <= x /\ x <= total
                IN  /\ c.ci_low <= c.ci_high /\ ~(c.ci_low > c.ci_high)
                    /\ within(c.point) /\ within(c.ci_low) /\ within(c.ci_high)
                    /\ c.p_value \in 0 .. PScale
  <2>1. ASSUME NEW arm \in ScoreboardArms PROVE AreCases(cases(arm))
    <3>1. DOMAIN cases(arm) # {}
      BY <1>4
    <3>2. /\ cases(arm) = [i \in PlacesOf(outcomes, basis, arm) |-> outcomes[i]]
          /\ IsFiniteSet(PlacesOf(outcomes, basis, arm))
          /\ \A i \in PlacesOf(outcomes, basis, arm) :
                /\ outcomes[i].amount \in Nat \ {0}
                /\ outcomes[i].recovered \in Nat
                /\ outcomes[i].recovered <= outcomes[i].amount
      BY CasesOfAnArm
    <3> HIDE DEF cases
    <3> QED
      BY <3>1, <3>2 DEF AreCases
  <2>2. total \in Nat
    <3> DEFINE risk == [arm \in ScoreboardArms |-> scores[arm].at_risk]
    <3>1. ASSUME NEW arm \in ScoreboardArms PROVE scores[arm].at_risk \in Nat
      <4>1. PooledOutcome(arm, cases(arm)).at_risk \in Nat
        BY <2>1, PooledIs
      <4> QED
        BY <4>1
    <3>2. DOMAIN risk = ScoreboardArms /\ \A arm \in ScoreboardArms : risk[arm] \in Nat
      BY <3>1
    <3>3. IsFiniteSet(ScoreboardArms)
      <4>1. ScoreboardArms = ({"A0"} \cup {"A1"}) \cup {"A4"}
        BY DEF ScoreboardArms
      <4> QED
        BY <4>1, FS_Singleton, FS_Union
    <3> HIDE DEF risk
    <3>4. MoneySum(risk) \in Nat
      BY <3>2, <3>3, SumIsNatural
    <3> QED
      BY <3>4 DEF risk
  <2> SUFFICES ASSUME NEW arm \in {"A0", "A1"}
               PROVE  LET c == comparisons[arm]
                          within(x) == -total <= x /\ x <= total
                      IN  /\ c.ci_low <= c.ci_high /\ ~(c.ci_low > c.ci_high)
                          /\ within(c.point) /\ within(c.ci_low) /\ within(c.ci_high)
                          /\ c.p_value \in 0 .. PScale
    OBVIOUS
  <2>3. comparisons[arm] = Compare(cases("A4"), cases(arm), total, picks[arm])
    OBVIOUS
  <2>4. AreCases(cases("A4")) /\ AreCases(cases(arm))
    BY <2>1 DEF ScoreboardArms
  <2>5. picks[arm] \in Seq([treatment : [DOMAIN cases("A4") -> DOMAIN cases("A4")],
                            control : [DOMAIN cases(arm) -> DOMAIN cases(arm)]])
    BY DEF ArePicks, CasesOn
  <2>6. Len(picks[arm]) >= 2
    <3>1. Len(picks[arm]) \in Nat
      BY <2>5
    <3> QED
      BY <3>1, <1>4
  <2> HIDE DEF comparisons, cases, total
  <2> QED
    BY <2>2, <2>3, <2>4, <2>5, <2>6, ComparisonIsWithin
<1> HIDE DEF board, few, none, inverted, built
<1>5. CASE few \/ none
  BY <1>1, <1>3, <1>5 DEF board, few, none
<1>6. CASE ~few /\ ~none
  <2>1. ~inverted
    BY <1>4, <1>6 DEF inverted
  <2>2. board = built /\ board # Refused
    BY <1>1, <1>2, <1>6, <2>1
  <2>3. board.total_at_risk = total /\ board.comparisons = comparisons /\ board.arms = scores
    BY <2>2 DEF built
  <2> HIDE DEF comparisons, total
  <2> QED
    BY <1>4, <1>6, <2>2, <2>3 DEF board
<1> QED
  BY <1>5, <1>6

=============================================================================
