--------------------------- MODULE BatchReportsProofs ---------------------------
(***************************************************************************)
(* For every split of any PermilleTotal: independent draws and permuted    *)
(* blocks give each arm exactly its share.  For every state of the tables: *)
(* a check never passes over a false sentence.  With ScoreboardProofs, the *)
(* properties of BatchReports for every call.                              *)
(***************************************************************************)
EXTENDS BatchReports, ScoreboardProofs

-----------------------------------------------------------------------------
(***************************************************************************)
(* Independent draws.                                                      *)
(***************************************************************************)

LEMMA CumulativeSums ==
    ASSUME NEW w, IsWeights(w)
    PROVE  /\ \A i \in 1 .. 6 : Cumulative(w)[i] \in Nat
           /\ \A i \in 1 .. 6, j \in 1 .. 6 : i <= j => Cumulative(w)[i] <= Cumulative(w)[j]
           /\ Cumulative(w)[6] = PermilleTotal
           /\ Cumulative(w)[1] = w["A0"]
           /\ \A i \in 2 .. 6 : Cumulative(w)[i] = Cumulative(w)[i - 1] + w[ArmOrder[i]]
           /\ ArmOrder[1] = "A0" /\ \A i \in 1 .. 6 : w[ArmOrder[i]] \in Nat
<1>1. /\ w["A0"] \in Nat /\ w["A1"] \in Nat /\ w["A2"] \in Nat
      /\ w["A3"] \in Nat /\ w["A4"] \in Nat /\ w["A5"] \in Nat
  BY DEF IsWeights, ExperimentArm
<1>2. Cumulative(w)[6] = PermilleTotal
  BY DEF IsWeights
<1>3. /\ Cumulative(w)[1] = w["A0"]
      /\ Cumulative(w)[2] = w["A0"] + w["A1"]
      /\ Cumulative(w)[3] = w["A0"] + w["A1"] + w["A2"]
      /\ Cumulative(w)[4] = w["A0"] + w["A1"] + w["A2"] + w["A3"]
      /\ Cumulative(w)[5] = w["A0"] + w["A1"] + w["A2"] + w["A3"] + w["A4"]
      /\ Cumulative(w)[6] = w["A0"] + w["A1"] + w["A2"] + w["A3"] + w["A4"] + w["A5"]
  BY DEF Cumulative
<1>4. /\ ArmOrder[1] = "A0" /\ ArmOrder[2] = "A1" /\ ArmOrder[3] = "A2"
      /\ ArmOrder[4] = "A3" /\ ArmOrder[5] = "A4" /\ ArmOrder[6] = "A5"
  BY DEF ArmOrder
<1>5. \A i \in 1 .. 6 : i = 1 \/ i = 2 \/ i = 3 \/ i = 4 \/ i = 5 \/ i = 6
  OBVIOUS
<1>6. \A i \in 1 .. 6 : Cumulative(w)[i] \in Nat
  BY <1>1, <1>3, <1>5
<1>7. \A i \in 1 .. 6, j \in 1 .. 6 : i <= j => Cumulative(w)[i] <= Cumulative(w)[j]
  BY <1>1, <1>3, <1>5
<1>8. \A i \in 2 .. 6 : Cumulative(w)[i] = Cumulative(w)[i - 1] + w[ArmOrder[i]]
  BY <1>1, <1>3, <1>4, <1>5
<1> QED
  BY <1>1, <1>2, <1>3, <1>4, <1>5, <1>6, <1>7, <1>8

\* A draw chooses one place of the order and no other.
LEMMA OneIsChosen ==
    ASSUME NEW w, IsWeights(w), NEW draw \in 0 .. PermilleTotal - 1
    PROVE  \E i \in 1 .. 6 :
            /\ Chosen(w, draw, i)
            /\ \A j \in 1 .. 6 : Chosen(w, draw, j) => j = i
<1> DEFINE C == Cumulative(w)
<1>1. /\ \A i \in 1 .. 6 : C[i] \in Nat
      /\ \A i \in 1 .. 6, j \in 1 .. 6 : i <= j => C[i] <= C[j]
      /\ C[6] = PermilleTotal
  BY CumulativeSums
<1>2. draw \in Nat /\ draw < C[6]
  BY <1>1, PermilleAssumption
<1> HIDE DEF C
<1>3. \E i \in 1 .. 6 : draw < C[i] /\ \A j \in 1 .. i - 1 : C[j] <= draw
  <2>1. CASE draw < C[1]
    BY <2>1
  <2>2. CASE C[1] <= draw /\ draw < C[2]
    BY <2>2
  <2>3. CASE C[2] <= draw /\ draw < C[3]
    <3>1. \A j \in 1 .. 3 - 1 : C[j] <= draw
      BY <2>3, <1>1, <1>2
    <3> QED
      BY <2>3, <3>1
  <2>4. CASE C[3] <= draw /\ draw < C[4]
    <3>1. \A j \in 1 .. 4 - 1 : C[j] <= draw
      BY <2>4, <1>1, <1>2
    <3> QED
      BY <2>4, <3>1
  <2>5. CASE C[4] <= draw /\ draw < C[5]
    <3>1. \A j \in 1 .. 5 - 1 : C[j] <= draw
      BY <2>5, <1>1, <1>2
    <3> QED
      BY <2>5, <3>1
  <2>6. CASE C[5] <= draw
    <3>1. \A j \in 1 .. 6 - 1 : C[j] <= draw
      BY <2>6, <1>1, <1>2
    <3> QED
      BY <1>2, <3>1
  <2> QED
    BY <1>1, <1>2, <2>1, <2>2, <2>3, <2>4, <2>5, <2>6
<1>4. PICK i \in 1 .. 6 : draw < C[i] /\ \A j \in 1 .. i - 1 : C[j] <= draw
  BY <1>3
<1>5. Chosen(w, draw, i)
  BY <1>4 DEF Chosen, C
<1>6. ASSUME NEW j \in 1 .. 6, Chosen(w, draw, j)
      PROVE  j = i
  <2>1. draw < C[j] /\ \A k \in 1 .. j - 1 : C[k] <= draw
    BY <1>6 DEF Chosen, C
  <2>2. ~(j < i)
    BY <2>1, <1>4, <1>1, <1>2
  <2>3. ~(i < j)
    BY <2>1, <1>4, <1>1, <1>2
  <2> QED
    BY <2>2, <2>3
<1> QED
  BY <1>5, <1>6

\* The draws of an arm are the interval below its cumulative weight.
LEMMA DrawsOfAnArm ==
    ASSUME NEW w, IsWeights(w), NEW i \in 1 .. 6
    PROVE  {draw \in 0 .. PermilleTotal - 1 : AssignArm(w, draw) = ArmOrder[i]}
            = {draw \in 0 .. PermilleTotal - 1 : Chosen(w, draw, i)}
<1> SUFFICES ASSUME NEW draw \in 0 .. PermilleTotal - 1
             PROVE  AssignArm(w, draw) = ArmOrder[i] <=> Chosen(w, draw, i)
  OBVIOUS
<1>1. PICK k \in 1 .. 6 :
        Chosen(w, draw, k) /\ \A j \in 1 .. 6 : Chosen(w, draw, j) => j = k
  BY OneIsChosen
<1> DEFINE P(j) == Chosen(w, draw, j)
<1>2. (CHOOSE j \in 1 .. 6 : P(j)) = k
  <2>1. P(k) /\ \A j \in 1 .. 6 : P(j) => j = k
    BY <1>1
  <2> HIDE DEF P
  <2> QED
    BY <2>1, Zenon
<1>3. AssignArm(w, draw) = ArmOrder[k]
  BY <1>2 DEF AssignArm
<1>4. \A a \in 1 .. 6, b \in 1 .. 6 : ArmOrder[a] = ArmOrder[b] => a = b
  BY DEF ArmOrder
<1> QED
  BY <1>1, <1>3, <1>4

LEMMA ChosenInterval ==
    ASSUME NEW w, IsWeights(w), NEW i \in 1 .. 6
    PROVE  Cardinality({draw \in 0 .. PermilleTotal - 1 : Chosen(w, draw, i)})
            = w[ArmOrder[i]]
<1> DEFINE C == Cumulative(w)
           low == IF i = 1 THEN 0 ELSE C[i - 1]
           S == {draw \in 0 .. PermilleTotal - 1 : Chosen(w, draw, i)}
<1>1. /\ \A j \in 1 .. 6 : C[j] \in Nat
      /\ \A j \in 1 .. 6, k \in 1 .. 6 : j <= k => C[j] <= C[k]
      /\ C[6] = PermilleTotal /\ C[1] = w["A0"] /\ ArmOrder[1] = "A0"
      /\ w[ArmOrder[i]] \in Nat
      /\ i # 1 => C[i] = C[i - 1] + w[ArmOrder[i]]
  BY CumulativeSums
<1>2. low \in Nat /\ C[i] \in Nat /\ C[i] <= PermilleTotal /\ C[i] = low + w[ArmOrder[i]]
  <2>1. CASE i = 1
    BY <2>1, <1>1
  <2>2. CASE i # 1
    <3>1. i - 1 \in 1 .. 6
      BY <2>2
    <3> QED
      BY <2>2, <3>1, <1>1
  <2> QED
    BY <2>1, <2>2
<1>3. ASSUME NEW draw \in 0 .. PermilleTotal - 1
      PROVE  Chosen(w, draw, i) <=> low <= draw /\ draw < C[i]
  <2>0. draw \in Nat
    BY PermilleAssumption
  <2>1. CASE i = 1
    BY <2>0, <2>1 DEF Chosen
  <2>2. CASE i # 1
    <3>1. i - 1 \in 1 .. i - 1 /\ low = C[i - 1]
      BY <2>2
    <3>2. \A j \in 1 .. i - 1 : C[j] <= C[i - 1] /\ C[j] \in Nat
      <4> SUFFICES ASSUME NEW j \in 1 .. i - 1
                   PROVE  C[j] <= C[i - 1] /\ C[j] \in Nat
        OBVIOUS
      <4>1. j \in 1 .. 6 /\ i - 1 \in 1 .. 6 /\ j <= i - 1
        BY <2>2
      <4> HIDE DEF C
      <4> QED
        BY <4>1, <1>1
    <3>3. Chosen(w, draw, i) <=> draw < C[i] /\ \A j \in 1 .. i - 1 : C[j] <= draw
      BY DEF Chosen
    <3> HIDE DEF C
    <3> QED
      BY <2>0, <3>1, <3>2, <3>3
  <2> QED
    BY <2>1, <2>2
<1> HIDE DEF C, low
<1>4. S = low .. C[i] - 1
  BY <1>2, <1>3, PermilleAssumption
<1>5. Cardinality(low .. C[i] - 1) = w[ArmOrder[i]]
  <2>1. low \in Int /\ C[i] - 1 \in Int
    BY <1>2
  <2>2. Cardinality(low .. C[i] - 1)
            = IF low > C[i] - 1 THEN 0 ELSE (C[i] - 1) - low + 1
    BY <2>1, FS_Interval
  <2>3. C[i] \in Int /\ low \in Int /\ w[ArmOrder[i]] \in Nat
        /\ C[i] = low + w[ArmOrder[i]]
    BY <1>1, <1>2
  <2> QED
    BY <2>2, <2>3
<1> QED
  BY <1>4, <1>5

\* Of all draws, an arm has as many as it has weight.
THEOREM SharesOfDraws ==
    ASSUME NEW w, IsWeights(w), NEW arm \in ExperimentArm
    PROVE  Cardinality({draw \in 0 .. PermilleTotal - 1 : AssignArm(w, draw) = arm}) = w[arm]
<1>1. PICK i \in 1 .. 6 : arm = ArmOrder[i]
  BY DEF ExperimentArm, ArmOrder
<1>2. {draw \in 0 .. PermilleTotal - 1 : AssignArm(w, draw) = ArmOrder[i]}
        = {draw \in 0 .. PermilleTotal - 1 : Chosen(w, draw, i)}
  BY DrawsOfAnArm
<1>3. Cardinality({draw \in 0 .. PermilleTotal - 1 : Chosen(w, draw, i)}) = w[ArmOrder[i]]
  BY ChosenInterval
<1> QED
  BY <1>1, <1>2, <1>3

-----------------------------------------------------------------------------
(***************************************************************************)
(* Permuted blocks.  A block is the pattern with some of its places        *)
(* traded, and a trade leaves every arm its number of places.              *)
(***************************************************************************)

PlacesWith(items, n, arm) == {i \in 1 .. n : items[i] = arm}

LEMMA OneToOne ==
    ASSUME NEW S, NEW T, IsFiniteSet(S), NEW f \in [S -> T],
           \A x, y \in S : f[x] = f[y] => x = y,
           \A z \in T : \E x \in S : f[x] = z
    PROVE  IsFiniteSet(T) /\ Cardinality(T) = Cardinality(S)
<1>1. f \in Bijection(S, T)
  BY DEF Bijection, Injection, Surjection, IsInjective
<1>2. ExistsBijection(S, T)
  BY <1>1 DEF ExistsBijection
<1> QED
  BY <1>2, FS_Bijection

LEMMA ShiftedPlaces ==
    ASSUME NEW S \in SUBSET Int, IsFiniteSet(S), NEW k \in Int,
           NEW T \in SUBSET Int, \A i \in Int : i \in S <=> i + k \in T
    PROVE  IsFiniteSet(T) /\ Cardinality(T) = Cardinality(S)
<1> DEFINE f == [i \in S |-> i + k]
<1>1. f \in [S -> T] /\ \A x, y \in S : f[x] = f[y] => x = y
  OBVIOUS
<1>2. \A z \in T : \E x \in S : f[x] = z
  <2> SUFFICES ASSUME NEW z \in T PROVE \E x \in S : f[x] = z
    OBVIOUS
  <2>1. z - k \in Int /\ (z - k) + k = z
    OBVIOUS
  <2>2. z - k \in S
    BY <2>1
  <2> QED
    BY <2>1, <2>2
<1> HIDE DEF f
<1> QED
  BY <1>1, <1>2, OneToOne

\* The greatest common divisor is there, and a divisor.
LEMMA GcdDivides ==
    ASSUME NEW w, IsWeights(w)
    PROVE  Gcd(w) \in 1 .. PermilleTotal /\ Divides(Gcd(w), w)
<1> DEFINE Is(d) == /\ Divides(d, w)
                    /\ \A e \in d + 1 .. PermilleTotal : ~Divides(e, w)
           Common == {n \in Nat : n < PermilleTotal /\ Divides(PermilleTotal - n, w)}
<1>1. PermilleTotal \in Nat /\ PermilleTotal > 0
  BY PermilleAssumption
<1>2. Divides(1, w)
  <2>1. \A arm \in ExperimentArm : w[arm] \in Nat
    BY DEF IsWeights
  <2> QED
    BY <2>1 DEF Divides
<1>3. PermilleTotal - 1 \in Common
  <2>1. PermilleTotal - (PermilleTotal - 1) = 1
    BY <1>1
  <2> QED
    BY <1>1, <1>2, <2>1
<1>4. PICK n \in Common : \A j \in Common : ~(j < n)
  BY <1>3, LeastNumber
<1> DEFINE d == PermilleTotal - n
<1>5. d \in 1 .. PermilleTotal /\ Divides(d, w)
  BY <1>1, <1>4
<1>6. ASSUME NEW e \in d + 1 .. PermilleTotal, Divides(e, w) PROVE FALSE
  <2>1. PermilleTotal - e \in Nat /\ PermilleTotal - e < n
        /\ PermilleTotal - e < PermilleTotal
        /\ PermilleTotal - (PermilleTotal - e) = e
    BY <1>1, <1>4
  <2>2. PermilleTotal - e \in Common
    BY <2>1, <1>6
  <2> QED
    BY <1>4, <2>1, <2>2
<1>7. Is(d)
  BY <1>5, <1>6
<1> HIDE DEF d
<1>8. Gcd(w) = CHOOSE e \in 1 .. PermilleTotal : Is(e)
  BY DEF Gcd
<1>9. Gcd(w) \in 1 .. PermilleTotal /\ Is(Gcd(w))
  <2> HIDE DEF Is
  <2> QED
    BY <1>5, <1>7, <1>8
<1> QED
  BY <1>9

\* An arm's part of a block.
Part(w, arm) == w[arm] \div Gcd(w)

LEMMA BlockHasParts ==
    ASSUME NEW w, IsWeights(w)
    PROVE  /\ \A arm \in ExperimentArm : Part(w, arm) \in Nat
           /\ BlockSize(w) = Part(w, "A0") + Part(w, "A1") + Part(w, "A2")
                                + Part(w, "A3") + Part(w, "A4") + Part(w, "A5")
           /\ BlockSize(w) \in Nat /\ BlockSize(w) > 0
           /\ \A arm \in ExperimentArm :
                Part(w, arm) * PermilleTotal = w[arm] * BlockSize(w)
<1> DEFINE g == Gcd(w)
           sum == Part(w, "A0") + Part(w, "A1") + Part(w, "A2")
                                + Part(w, "A3") + Part(w, "A4") + Part(w, "A5")
<1>1. PermilleTotal \in Nat /\ PermilleTotal > 0
  BY PermilleAssumption
<1>2. g \in Nat /\ g > 0 /\ Divides(g, w)
  BY <1>1, GcdDivides
<1>3. \A arm \in ExperimentArm : w[arm] \in Nat
  BY DEF IsWeights
<1>4. ASSUME NEW arm \in ExperimentArm
      PROVE  Part(w, arm) \in Nat /\ w[arm] = g * Part(w, arm)
  <2>1. w[arm] \in Nat /\ w[arm] % g = 0
    BY <1>2, <1>3 DEF Divides
  <2>2. ASSUME NEW a \in Nat, NEW b \in Nat, b > 0, a % b = 0
        PROVE  a \div b \in Nat /\ a = b * (a \div b)
    BY <2>2
  <2> HIDE DEF g
  <2>3. w[arm] \div g \in Nat /\ w[arm] = g * (w[arm] \div g)
    BY <1>2, <2>1, <2>2
  <2> QED
    BY <2>3 DEF Part, g
<1>5. /\ "A0" \in ExperimentArm /\ "A1" \in ExperimentArm /\ "A2" \in ExperimentArm
      /\ "A3" \in ExperimentArm /\ "A4" \in ExperimentArm /\ "A5" \in ExperimentArm
  BY DEF ExperimentArm
<1> HIDE DEF g
<1>6. sum \in Nat
  BY <1>4, <1>5
<1>7. PermilleTotal = g * sum
  <2>1. PermilleTotal = w["A0"] + w["A1"] + w["A2"] + w["A3"] + w["A4"] + w["A5"]
    BY DEF IsWeights, Cumulative
  <2> DEFINE a0 == Part(w, "A0")
             a1 == Part(w, "A1")
             a2 == Part(w, "A2")
             a3 == Part(w, "A3")
             a4 == Part(w, "A4")
             a5 == Part(w, "A5")
  <2>2. PermilleTotal = g * a0 + g * a1 + g * a2 + g * a3 + g * a4 + g * a5
    BY <2>1, <1>4, <1>5
  <2>3. /\ a0 \in Nat /\ a1 \in Nat /\ a2 \in Nat /\ a3 \in Nat /\ a4 \in Nat /\ a5 \in Nat
        /\ sum = a0 + a1 + a2 + a3 + a4 + a5
    BY <1>4, <1>5
  <2> HIDE DEF a0, a1, a2, a3, a4, a5, sum
  <2>4. g * (a0 + a1 + a2 + a3 + a4 + a5)
            = g * a0 + g * a1 + g * a2 + g * a3 + g * a4 + g * a5
    BY <1>2, <2>3
  <2> QED
    BY <2>2, <2>3, <2>4
<1> HIDE DEF sum
<1>8. BlockSize(w) = sum
  <2>1. ASSUME NEW a \in Nat, NEW b \in Nat, b > 0 PROVE (b * a) \div b = a
    BY <2>1
  <2>2. (g * sum) \div g = sum
    BY <1>2, <1>6, <2>1
  <2> QED
    BY <1>7, <2>2 DEF BlockSize, g
<1>9. sum > 0
  BY <1>1, <1>2, <1>6, <1>7
<1>10. ASSUME NEW arm \in ExperimentArm
       PROVE  Part(w, arm) * PermilleTotal = w[arm] * sum
  <2> DEFINE q == Part(w, arm)
  <2>1. q \in Nat /\ w[arm] = g * q
    BY <1>4
  <2> HIDE DEF q
  <2>2. q * (g * sum) = (g * q) * sum
    BY <1>2, <1>6, <2>1
  <2> QED
    BY <1>7, <2>1, <2>2 DEF q
<1> QED
  BY <1>4, <1>6, <1>8, <1>9, <1>10 DEF sum

\* How many places of a sequence an arm has.
CountOf(items, arm) == Cardinality(PlacesWith(items, Len(items), arm))

LEMMA PlacesAreFinite ==
    ASSUME NEW items, NEW n \in Nat, NEW arm
    PROVE  /\ IsFiniteSet(PlacesWith(items, n, arm))
           /\ Cardinality(PlacesWith(items, n, arm)) \in Nat
           /\ PlacesWith(items, n, arm) \in SUBSET (1 .. n)
<1>1. PlacesWith(items, n, arm) \in SUBSET (1 .. n) /\ IsFiniteSet(1 .. n)
  BY FS_Interval DEF PlacesWith
<1> QED
  BY <1>1, FS_Subset, FS_CardinalityType

LEMMA CountOfBoth ==
    ASSUME NEW s \in Seq(ExperimentArm), NEW t \in Seq(ExperimentArm), NEW arm
    PROVE  /\ s \o t \in Seq(ExperimentArm) /\ Len(s \o t) = Len(s) + Len(t)
           /\ CountOf(s \o t, arm) = CountOf(s, arm) + CountOf(t, arm)
<1> DEFINE m == Len(s)
           k == Len(t)
           A == PlacesWith(s, m, arm)
           B == PlacesWith(t, k, arm)
           C == {j \in m + 1 .. m + k : t[j - m] = arm}
<1>1. /\ m \in Nat /\ k \in Nat /\ s \o t \in Seq(ExperimentArm) /\ Len(s \o t) = m + k
      /\ \A i \in 1 .. m + k : (s \o t)[i] = IF i <= m THEN s[i] ELSE t[i - m]
  <2>1. m \in Nat /\ k \in Nat
    OBVIOUS
  <2>2. s \o t \in Seq(ExperimentArm) /\ Len(s \o t) = m + k
    OBVIOUS
  <2>3. \A i \in 1 .. m + k : (s \o t)[i] = IF i <= m THEN s[i] ELSE t[i - m]
    <3> SUFFICES ASSUME NEW i \in 1 .. m + k
                 PROVE  (s \o t)[i] = IF i <= m THEN s[i] ELSE t[i - m]
      BY Zenon
    <3>1. CASE i <= m
      BY <3>1
    <3>2. CASE ~(i <= m)
      BY <3>2
    <3> QED
      BY <3>1, <3>2
  <2> QED
    BY <2>1, <2>2, <2>3
<1> DEFINE u == s \o t
<1> HIDE DEF m, k, u
<1>2. PlacesWith(u, m + k, arm) = A \cup C
  <2> DEFINE P == PlacesWith(u, m + k, arm)
  <2>1. /\ m \in Nat /\ k \in Nat
        /\ \A i \in 1 .. m + k : u[i] = IF i <= m THEN s[i] ELSE t[i - m]
    BY <1>1 DEF u
  <2>2. ASSUME NEW i PROVE i \in P <=> i \in 1 .. m + k /\ u[i] = arm
    BY DEF PlacesWith
  <2>3. ASSUME NEW i PROVE i \in A <=> i \in 1 .. m /\ s[i] = arm
    BY DEF PlacesWith
  <2>4. ASSUME NEW i PROVE i \in C <=> i \in m + 1 .. m + k /\ t[i - m] = arm
    OBVIOUS
  <2> HIDE DEF P, A, C
  <2>5. ASSUME NEW i \in 1 .. m + k PROVE i \in P <=> i \in A \/ i \in C
    <3>1. CASE i <= m
      <4>1. i \in 1 .. m /\ i \notin m + 1 .. m + k /\ u[i] = s[i]
        BY <2>1, <3>1
      <4> QED
        BY <2>2, <2>3, <2>4, <4>1
    <3>2. CASE ~(i <= m)
      <4>1. i \notin 1 .. m /\ i \in m + 1 .. m + k /\ u[i] = t[i - m]
        BY <2>1, <3>2
      <4> QED
        BY <2>2, <2>3, <2>4, <4>1
    <3> QED
      BY <3>1, <3>2
  <2>6. \A i \in A \cup C : i \in 1 .. m + k
    BY <2>1, <2>3, <2>4
  <2>7. P = A \cup C
    BY <2>2, <2>5, <2>6
  <2> QED
    BY <2>7 DEF P
<1>3. A \cap C = {}
  BY <1>1 DEF PlacesWith
<1>4. /\ IsFiniteSet(A) /\ IsFiniteSet(B)
      /\ Cardinality(A) \in Nat /\ Cardinality(B) \in Nat
  BY <1>1, PlacesAreFinite
<1>5. IsFiniteSet(C) /\ Cardinality(C) = Cardinality(B)
  <2>1. B \in SUBSET Int /\ C \in SUBSET Int
    BY <1>1 DEF PlacesWith
  <2>2. ASSUME NEW i \in Int PROVE i \in B <=> i + m \in C
    <3>1. (i + m) - m = i
      BY <1>1
    <3> QED
      BY <3>1, <1>1 DEF PlacesWith
  <2>3. m \in Int
    BY <1>1
  <2> HIDE DEF B, C
  <2>4. \A i \in Int : i \in B <=> i + m \in C
    BY <2>2
  <2> QED
    BY <1>4, <2>1, <2>3, <2>4, ShiftedPlaces
<1>6. Cardinality(A \cup C) = Cardinality(A) + Cardinality(B)
  <2>1. Cardinality(A \cup C) = Cardinality(A) + Cardinality(C) - Cardinality(A \cap C)
    BY <1>4, <1>5, FS_Union
  <2>2. Cardinality(A \cap C) = 0
    BY <1>3, FS_EmptySet
  <2> QED
    BY <1>4, <1>5, <2>1, <2>2
<1> QED
  BY <1>1, <1>2, <1>6 DEF CountOf, m, k, u

LEMMA CountOfTimes ==
    ASSUME NEW q \in Nat, NEW a \in ExperimentArm, NEW arm
    PROVE  /\ Times(a, q) \in Seq(ExperimentArm) /\ Len(Times(a, q)) = q
           /\ CountOf(Times(a, q), arm) = IF arm = a THEN q ELSE 0
<1> DEFINE s == Times(a, q)
<1>1. s \in Seq(ExperimentArm) /\ Len(s) = q /\ \A i \in 1 .. q : s[i] = a
  BY DEF Times
<1> HIDE DEF s
<1>2. CASE arm = a
  <2>1. PlacesWith(s, q, arm) = 1 .. q
    BY <1>1, <1>2 DEF PlacesWith
  <2>2. Cardinality(1 .. q) = q
    BY FS_Interval
  <2> QED
    BY <1>1, <1>2, <2>1, <2>2 DEF CountOf, s
<1>3. CASE arm # a
  <2>1. PlacesWith(s, q, arm) = {}
    BY <1>1, <1>3 DEF PlacesWith
  <2>2. Cardinality({}) = 0
    BY FS_EmptySet
  <2> QED
    BY <1>1, <1>3, <2>1, <2>2 DEF CountOf, s
<1> QED
  BY <1>2, <1>3

LEMMA PatternIsExact ==
    ASSUME NEW w, IsWeights(w), NEW arm \in ExperimentArm
    PROVE  /\ BlockPattern(w) \in Seq(ExperimentArm)
           /\ Len(BlockPattern(w)) = BlockSize(w)
           /\ CountOf(BlockPattern(w), arm) = Part(w, arm)
<1> DEFINE part(a) == Times(a, Part(w, a))
           s1 == part("A0") \o part("A1")
           s2 == s1 \o part("A2")
           s3 == s2 \o part("A3")
           s4 == s3 \o part("A4")
           s5 == s4 \o part("A5")
<1>1. BlockPattern(w) = s5
  BY DEF BlockPattern, Part
<1>2. /\ \A a \in ExperimentArm : Part(w, a) \in Nat
      /\ BlockSize(w) = Part(w, "A0") + Part(w, "A1") + Part(w, "A2")
                        + Part(w, "A3") + Part(w, "A4") + Part(w, "A5")
  BY BlockHasParts
<1>3. ASSUME NEW a \in ExperimentArm
      PROVE  /\ part(a) \in Seq(ExperimentArm) /\ Len(part(a)) = Part(w, a)
             /\ CountOf(part(a), arm) = IF arm = a THEN Part(w, a) ELSE 0
  BY <1>2, CountOfTimes
<1>4. /\ "A0" \in ExperimentArm /\ "A1" \in ExperimentArm /\ "A2" \in ExperimentArm
      /\ "A3" \in ExperimentArm /\ "A4" \in ExperimentArm /\ "A5" \in ExperimentArm
  BY DEF ExperimentArm
<1> HIDE DEF part
<1>joined. ASSUME NEW s \in Seq(ExperimentArm), NEW a \in ExperimentArm
           PROVE  /\ s \o part(a) \in Seq(ExperimentArm)
                  /\ Len(s \o part(a)) = Len(s) + Part(w, a)
                  /\ CountOf(s \o part(a), arm) = CountOf(s, arm) + CountOf(part(a), arm)
  <2>1. part(a) \in Seq(ExperimentArm) /\ Len(part(a)) = Part(w, a)
    BY <1>3
  <2> QED
    BY <2>1, CountOfBoth
<1>5. /\ s1 \in Seq(ExperimentArm) /\ Len(s1) = Len(part("A0")) + Part(w, "A1")
      /\ CountOf(s1, arm) = CountOf(part("A0"), arm) + CountOf(part("A1"), arm)
  BY <1>4, <1>3, <1>joined
<1> HIDE DEF s1
<1>6. /\ s2 \in Seq(ExperimentArm) /\ Len(s2) = Len(s1) + Part(w, "A2")
      /\ CountOf(s2, arm) = CountOf(s1, arm) + CountOf(part("A2"), arm)
  BY <1>4, <1>5, <1>joined
<1> HIDE DEF s2
<1>7. /\ s3 \in Seq(ExperimentArm) /\ Len(s3) = Len(s2) + Part(w, "A3")
      /\ CountOf(s3, arm) = CountOf(s2, arm) + CountOf(part("A3"), arm)
  BY <1>4, <1>6, <1>joined
<1> HIDE DEF s3
<1>8. /\ s4 \in Seq(ExperimentArm) /\ Len(s4) = Len(s3) + Part(w, "A4")
      /\ CountOf(s4, arm) = CountOf(s3, arm) + CountOf(part("A4"), arm)
  BY <1>4, <1>7, <1>joined
<1> HIDE DEF s4
<1>9. /\ s5 \in Seq(ExperimentArm) /\ Len(s5) = Len(s4) + Part(w, "A5")
      /\ CountOf(s5, arm) = CountOf(s4, arm) + CountOf(part("A5"), arm)
  BY <1>4, <1>8, <1>joined
<1> HIDE DEF s5
<1>10. Len(s5) = BlockSize(w)
  BY <1>2, <1>3, <1>4, <1>5, <1>6, <1>7, <1>8, <1>9
<1>11. CountOf(s5, arm) = Part(w, arm)
  <2>1. CountOf(s5, arm) = CountOf(part("A0"), arm) + CountOf(part("A1"), arm)
                            + CountOf(part("A2"), arm) + CountOf(part("A3"), arm)
                            + CountOf(part("A4"), arm) + CountOf(part("A5"), arm)
    BY <1>5, <1>6, <1>7, <1>8, <1>9
  <2>2. \/ arm = "A0" \/ arm = "A1" \/ arm = "A2"
        \/ arm = "A3" \/ arm = "A4" \/ arm = "A5"
    BY DEF ExperimentArm
  <2>3. Part(w, arm) \in Nat
    BY <1>2
  <2> QED
    BY <2>1, <2>2, <2>3, <1>3, <1>4
<1> QED
  BY <1>1, <1>9, <1>10, <1>11

LEMMA SwapKeepsCounts ==
    ASSUME NEW n \in Nat, NEW items \in [1 .. n -> ExperimentArm],
           NEW i \in 1 .. n, NEW j \in 1 .. n, NEW arm
    PROVE  /\ Swap(items, i, j) \in [1 .. n -> ExperimentArm]
           /\ Cardinality(PlacesWith(Swap(items, i, j), n, arm))
                = Cardinality(PlacesWith(items, n, arm))
<1> DEFINE swapped == Swap(items, i, j)
           S == PlacesWith(items, n, arm)
           T == PlacesWith(swapped, n, arm)
           other == [k \in 1 .. n |-> IF k = i THEN j ELSE IF k = j THEN i ELSE k]
           f == [k \in S |-> other[k]]
<1>1. swapped \in [1 .. n -> ExperimentArm] /\ \A k \in 1 .. n : swapped[k] = items[other[k]]
  BY DEF Swap
<1>2. /\ \A k \in 1 .. n : other[k] \in 1 .. n /\ other[other[k]] = k
      /\ \A k, l \in 1 .. n : other[k] = other[l] => k = l
  OBVIOUS
<1> HIDE DEF swapped, other
<1>3. S \in SUBSET (1 .. n) /\ T \in SUBSET (1 .. n)
      /\ \A k \in 1 .. n : (k \in S <=> items[k] = arm) /\ (k \in T <=> swapped[k] = arm)
  BY DEF PlacesWith
<1>4. IsFiniteSet(S)
  BY PlacesAreFinite
<1> HIDE DEF S, T
<1>5. f \in [S -> T] /\ \A k, l \in S : f[k] = f[l] => k = l
  BY <1>1, <1>2, <1>3
<1>6. ASSUME NEW k \in T PROVE \E l \in S : f[l] = k
  <2>1. other[k] \in S /\ f[other[k]] = k
    BY <1>1, <1>2, <1>3
  <2> QED
    BY <2>1
<1> HIDE DEF f
<1>7. Cardinality(T) = Cardinality(S)
  BY <1>4, <1>5, <1>6, OneToOne
<1> QED
  BY <1>1, <1>7 DEF swapped, S, T

\* The shuffle of PermutedBlock.
IsShuffle(g, n, pattern, stream) ==
    g = [i \in 1 .. n |->
            IF i = n THEN pattern
            ELSE Swap(g[i + 1], i + 1, (stream[i] % (i + 1)) + 1)]

LEMMA ShuffleExists ==
    ASSUME NEW n \in Nat, n > 0, NEW pattern, NEW stream
    PROVE  \E g : IsShuffle(g, n, pattern, stream)
<1> DEFINE Term(g, i) == IF i = n THEN pattern
                         ELSE Swap(g[i + 1], i + 1, (stream[i] % (i + 1)) + 1)
           Shuffling(g, m) == g = [i \in n - m .. n |-> Term(g, i)]
           Bad == {m \in Nat : m < n /\ ~ \E g : Shuffling(g, m)}
<1>1. Bad = {}
  <2>1. SUFFICES ASSUME Bad # {} PROVE FALSE
    OBVIOUS
  <2>2. PICK m \in Bad : \A k \in Bad : ~(k < m)
    BY <2>1, LeastNumber
  <2>3. CASE m = 0
    <3> DEFINE g == [i \in n - m .. n |-> pattern]
    <3>1. \A i \in n - m .. n : Term(g, i) = pattern
      BY <2>3
    <3>2. Shuffling(g, m)
      BY <3>1
    <3> QED
      BY <2>2, <3>2
  <2>4. CASE m # 0
    <3>1. m - 1 \in Nat /\ m - 1 < m /\ m - 1 < n
      BY <2>2, <2>4
    <3>2. PICK g : Shuffling(g, m - 1)
      BY <2>2, <3>1
    <3> DEFINE h == [i \in n - m .. n |-> Term(g, i)]
    <3>3. ASSUME NEW i \in n - m .. n, i # n PROVE h[i + 1] = g[i + 1]
      <4>1. i + 1 \in n - (m - 1) .. n /\ i + 1 \in n - m .. n
        BY <2>2, <3>3
      <4>2. g[i + 1] = Term(g, i + 1)
        <5> HIDE DEF Term
        <5> QED
          BY <3>2, <4>1
      <4>3. h[i + 1] = Term(g, i + 1)
        <5> HIDE DEF Term
        <5> QED
          BY <4>1
      <4> QED
        BY <4>2, <4>3
    <3>4. \A i \in n - m .. n : Term(h, i) = Term(g, i)
      <4> HIDE DEF h
      <4> QED
        BY <3>3
    <3>5. Shuffling(h, m)
      <4>1. h = [i \in n - m .. n |-> Term(g, i)]
        OBVIOUS
      <4> HIDE DEF Term, h
      <4> QED
        BY <3>4, <4>1
    <3> QED
      BY <2>2, <3>5
  <2> QED
    BY <2>3, <2>4
<1>2. n - 1 \in Nat /\ n - 1 < n /\ n - (n - 1) = 1
  OBVIOUS
<1>3. PICK g : Shuffling(g, n - 1)
  BY <1>1, <1>2
<1>4. g = [i \in 1 .. n |-> Term(g, i)]
  BY <1>2, <1>3
<1> QED
  BY <1>4 DEF IsShuffle

\* A stream is numbers; a block of any stream is exact.
LEMMA BlockIsExact ==
    ASSUME NEW w, IsWeights(w), NEW stream,
           IsStream(w, stream), NEW arm \in ExperimentArm
    PROVE  Cardinality(PlacesWith(PermutedBlock(w, stream), BlockSize(w), arm)) = Part(w, arm)
<1> DEFINE n == BlockSize(w)
           pattern == BlockPattern(w)
           shuffled == CHOOSE g : IsShuffle(g, n, pattern, stream)
           Exact(items) == /\ items \in [1 .. n -> ExperimentArm]
                           /\ Cardinality(PlacesWith(items, n, arm)) = Part(w, arm)
           Bad == {m \in Nat : m < n /\ ~Exact(shuffled[n - m])}
<1>1. n \in Nat /\ n > 0
  BY BlockHasParts
<1>2. Exact(pattern)
  <2>1. pattern \in Seq(ExperimentArm) /\ Len(pattern) = n /\ CountOf(pattern, arm) = Part(w, arm)
    BY PatternIsExact
  <2>2. pattern \in [1 .. n -> ExperimentArm]
    <3> HIDE DEF pattern, n
    <3> QED
      BY <2>1
  <2> QED
    BY <2>1, <2>2 DEF CountOf
<1>3. PermutedBlock(w, stream) = shuffled[1]
  BY DEF PermutedBlock, IsShuffle
<1> HIDE DEF n, pattern
<1>4. shuffled = [i \in 1 .. n |->
                    IF i = n THEN pattern
                    ELSE Swap(shuffled[i + 1], i + 1, (stream[i] % (i + 1)) + 1)]
  <2>1. IsShuffle(shuffled, n, pattern, stream)
    BY <1>1, ShuffleExists
  <2> HIDE DEF shuffled
  <2> QED
    BY <2>1 DEF IsShuffle
<1> HIDE DEF shuffled
<1>5. Bad = {}
  <2>1. SUFFICES ASSUME Bad # {} PROVE FALSE
    OBVIOUS
  <2>2. PICK m \in Bad : \A k \in Bad : ~(k < m)
    BY <2>1, LeastNumber
  <2>3. CASE m = 0
    <3>1. n - m = n /\ n \in 1 .. n
      BY <1>1, <2>3
    <3>2. shuffled[n] = pattern
      BY <1>4, <3>1
    <3> QED
      BY <2>2, <3>1, <3>2, <1>2
  <2>4. CASE m # 0
    <3> DEFINE i == n - m
               j == (stream[i] % (i + 1)) + 1
    <3>1. /\ i \in 1 .. n - 1 /\ i \in 1 .. n /\ i # n /\ i + 1 \in 1 .. n
          /\ m - 1 \in Nat /\ m - 1 < m /\ m - 1 < n /\ n - (m - 1) = i + 1
      BY <1>1, <2>2, <2>4
    <3>2. Exact(shuffled[i + 1])
      <4> HIDE DEF Exact, i
      <4> QED
        BY <2>2, <3>1
    <3>3. stream[i] \in Nat
      BY <3>1 DEF n, IsStream
    <3>4. j \in 1 .. n
      <4>1. ASSUME NEW a \in Nat, NEW b \in Nat, b > 0 PROVE a % b \in 0 .. b - 1
        BY <4>1
      <4>2. stream[i] % (i + 1) \in 0 .. (i + 1) - 1
        <5>1. i + 1 \in Nat /\ i + 1 > 0
          BY <3>1
        <5> QED
          BY <3>3, <4>1, <5>1
      <4> HIDE DEF i
      <4> QED
        BY <3>1, <4>2, <1>1
    <3>5. shuffled[i] = Swap(shuffled[i + 1], i + 1, j)
      <4> HIDE DEF i
      <4> QED
        BY <1>4, <3>1
    <3> HIDE DEF i, j
    <3>6. Exact(shuffled[i])
      BY <1>1, <3>1, <3>2, <3>4, <3>5, SwapKeepsCounts
    <3> QED
      BY <2>2, <3>6 DEF i
  <2> QED
    BY <2>3, <2>4
<1>6. Exact(shuffled[1])
  <2>1. n - 1 \in Nat /\ n - 1 < n /\ n - (n - 1) = 1
    BY <1>1
  <2> HIDE DEF Exact
  <2> QED
    BY <1>5, <2>1
<1> QED
  BY <1>3, <1>6 DEF n

LEMMA RanksOfABlock ==
    ASSUME NEW n \in Nat, n > 0, NEW block \in Nat,
           NEW rank \in block * n .. (block + 1) * n - 1
    PROVE  rank \div n = block /\ (rank % n) + 1 = rank + (1 - block * n)
<1> DEFINE q == rank \div n
           low == block * n
<1>1. /\ low \in Nat /\ (block + 1) * n = low + n
      /\ rank \in Nat /\ low <= rank /\ rank < low + n
  OBVIOUS
<1>2. /\ q \in Nat /\ q * n \in Nat /\ rank = q * n + (rank % n)
      /\ rank % n \in Nat /\ rank % n < n
  BY <1>1
<1>3. ASSUME NEW a \in Nat, NEW b \in Nat, a < b
      PROVE  a * n + n <= b * n
  <2>1. PICK d \in Nat : b = a + 1 + d
    <3>1. b - a - 1 \in Nat /\ b = a + 1 + (b - a - 1)
      BY <1>3
    <3> QED
      BY <3>1
  <2>2. b * n = a * n + n + d * n /\ d * n \in Nat /\ a * n \in Nat
    BY <2>1
  <2> QED
    BY <2>2
<1> HIDE DEF q
<1>4. ~(q < block)
  BY <1>1, <1>2, <1>3
<1>5. ~(block < q)
  <2>1. block < q => low + n <= q * n
    BY <1>2, <1>3
  <2> QED
    BY <1>1, <1>2, <2>1
<1>6. q = block
  BY <1>2, <1>4, <1>5
<1>7. rank % n = rank - low
  BY <1>1, <1>2, <1>6
<1> QED
  BY <1>1, <1>2, <1>6, <1>7 DEF q

\* The ranks of a block that an arm gets.
RanksOfArm(w, streams, block, arm) ==
    {rank \in block * BlockSize(w) .. (block + 1) * BlockSize(w) - 1 :
        AssignArmBlocked(w, streams, rank) = arm}

\* They are the places of that block that it gets.
LEMMA BlockOfRanksIsExact ==
    ASSUME NEW w, IsWeights(w), NEW streams, NEW block \in Nat,
           IsStream(w, streams[block]), NEW arm \in ExperimentArm
    PROVE  /\ IsFiniteSet(RanksOfArm(w, streams, block, arm))
           /\ Cardinality(RanksOfArm(w, streams, block, arm)) * PermilleTotal
                = w[arm] * BlockSize(w)
<1> DEFINE n == BlockSize(w)
           items == PermutedBlock(w, streams[block])
           Ranks == RanksOfArm(w, streams, block, arm)
           Places == PlacesWith(items, n, arm)
           k == block * n - 1
<1>1. n \in Nat /\ n > 0
  BY BlockHasParts
<1>2. Cardinality(Places) = Part(w, arm)
  BY BlockIsExact
<1>3. Part(w, arm) * PermilleTotal = w[arm] * n
  BY BlockHasParts
<1>4. k \in Int /\ block * n \in Nat /\ (block + 1) * n = block * n + n
  BY <1>1
<1>5. ASSUME NEW rank \in block * n .. (block + 1) * n - 1
      PROVE  AssignArmBlocked(w, streams, rank) = items[rank + (1 - block * n)]
  <2>1. rank \div n = block /\ (rank % n) + 1 = rank + (1 - block * n)
    BY <1>1, RanksOfABlock
  <2> QED
    BY <2>1 DEF AssignArmBlocked
<1>6. Ranks = {rank \in block * n .. (block + 1) * n - 1 :
                    items[rank + (1 - block * n)] = arm}
  BY <1>5 DEF RanksOfArm
<1> HIDE DEF n, items, Ranks
<1>7. \A i \in Int : i \in Places <=> i + k \in Ranks
  <2> SUFFICES ASSUME NEW i \in Int PROVE i \in Places <=> i + k \in Ranks
    OBVIOUS
  <2>1. i \in 1 .. n <=> i + k \in block * n .. (block + 1) * n - 1
    BY <1>1, <1>4
  <2>2. (i + k) + (1 - block * n) = i
    BY <1>4
  <2> QED
    BY <2>1, <2>2, <1>6 DEF PlacesWith
<1>8. Places \in SUBSET Int /\ Ranks \in SUBSET Int
  BY <1>1, <1>4, <1>6 DEF PlacesWith
<1>9. IsFiniteSet(Places)
  BY <1>1, PlacesAreFinite
<1> HIDE DEF Places, k
<1>10. IsFiniteSet(Ranks) /\ Cardinality(Ranks) = Cardinality(Places)
  BY <1>4, <1>7, <1>8, <1>9, ShiftedPlaces
<1>11. Cardinality(Ranks) * PermilleTotal = w[arm] * n
  BY <1>2, <1>3, <1>10
<1> QED
  BY <1>10, <1>11 DEF Ranks, n

\* One record for each rank, each with the arm its rank is given: the arm has
\* as many records as it has ranks.
LEMMA RecordsOfABlock ==
    ASSUME NEW w, IsWeights(w), NEW streams, NEW block \in Nat,
           IsStream(w, streams[block]), NEW arm \in ExperimentArm,
           NEW records, FillsBlock(records, BlockSize(w), block),
           \A k \in DOMAIN records :
                records[k].arm = AssignArmBlocked(w, streams, records[k].rank)
    PROVE  Cardinality({k \in DOMAIN records : records[k].arm = arm}) * PermilleTotal
           = w[arm] * BlockSize(w)
<1> DEFINE K == DOMAIN records
           S == RanksOfArm(w, streams, block, arm)
           T == {k \in K : records[k].arm = arm}
           f == [rank \in S |-> CHOOSE k \in K : records[k].rank = rank]
<1>1. /\ IsFiniteSet(S)
      /\ Cardinality(S) * PermilleTotal = w[arm] * BlockSize(w)
  BY BlockOfRanksIsExact
<1>2. /\ \A k, l \in K : records[k].rank = records[l].rank => k = l
      /\ \A k \in K : records[k].rank \in block * BlockSize(w) .. (block + 1) * BlockSize(w) - 1
      /\ \A rank \in block * BlockSize(w) .. (block + 1) * BlockSize(w) - 1 :
            \E k \in K : records[k].rank = rank
  <2>1. {records[k].rank : k \in K} = block * BlockSize(w) .. (block + 1) * BlockSize(w) - 1
    BY DEF FillsBlock
  <2>2. \A k, l \in K : records[k].rank = records[l].rank => k = l
    BY DEF FillsBlock
  <2> QED
    BY <2>1, <2>2
<1>3. \A rank : rank \in S <=>
            /\ rank \in block * BlockSize(w) .. (block + 1) * BlockSize(w) - 1
            /\ AssignArmBlocked(w, streams, rank) = arm
  BY DEF RanksOfArm
<1>4. \A k : k \in T <=> k \in K /\ records[k].arm = arm
  OBVIOUS
<1>5. \A k \in K : records[k].arm = AssignArmBlocked(w, streams, records[k].rank)
  OBVIOUS
<1>6. \A rank \in S : f[rank] = CHOOSE k \in K : records[k].rank = rank
  OBVIOUS
<1>7. DOMAIN f = S /\ f = [rank \in S |-> f[rank]]
  OBVIOUS
<1> HIDE DEF K, S, T, f
<1>8. ASSUME NEW rank \in S PROVE f[rank] \in T /\ records[f[rank]].rank = rank
  <2>1. \E k \in K : records[k].rank = rank
    BY <1>2, <1>3
  <2>2. f[rank] \in K /\ records[f[rank]].rank = rank
    BY <1>6, <2>1
  <2> QED
    BY <2>2, <1>3, <1>4, <1>5
<1>9. f \in [S -> T] /\ \A x, y \in S : f[x] = f[y] => x = y
  BY <1>7, <1>8
<1>10. \A k \in T : \E rank \in S : f[rank] = k
  <2> SUFFICES ASSUME NEW k \in T PROVE \E rank \in S : f[rank] = k
    OBVIOUS
  <2>1. k \in K /\ records[k].rank \in S
    BY <1>2, <1>3, <1>4, <1>5
  <2>2. f[records[k].rank] \in K /\ records[f[records[k].rank]].rank = records[k].rank
    BY <2>1, <1>8, <1>4
  <2> QED
    BY <2>1, <2>2, <1>2
<1>11. Cardinality(T) = Cardinality(S)
  BY <1>1, <1>9, <1>10, OneToOne
<1> QED
  BY <1>1, <1>11 DEF T, K

\* A record of a block is accepted with the arm its rank is given, alone.
LEMMA AcceptedArm ==
    ASSUME NEW record, NEW spec, record.method = "permuted_block",
           VerifyAssignment(record, spec) = "ok"
    PROVE  record.arm = AssignArmBlocked(spec.weights, spec.streams, record.rank)
<1>1. Rederived(record, spec) = AssignArmBlocked(spec.weights, spec.streams, record.rank)
  BY DEF Rederived
<1>2. CASE record.experiment_id # spec.experiment_id
  BY <1>2 DEF VerifyAssignment
<1>3. CASE record.experiment_id = spec.experiment_id /\ record.salt # spec.salt
  BY <1>3 DEF VerifyAssignment
<1>4. CASE record.experiment_id = spec.experiment_id /\ record.salt = spec.salt
  <2>1. VerifyAssignment(record, spec)
            = IF record.arm # Rederived(record, spec) THEN "arm" ELSE "ok"
    BY <1>4 DEF VerifyAssignment
  <2> QED
    BY <1>1, <2>1
<1> QED
  BY <1>2, <1>3, <1>4

-----------------------------------------------------------------------------
(***************************************************************************)
(* The checks of the tables.                                               *)
(***************************************************************************)

\* What a check may answer, of a sentence it can judge.
Right(verdict, judged, so) ==
    /\ judged => /\ verdict.status \in {"holds", "vacuous"} => so
                 /\ verdict.status = "violated" => ~so
    /\ verdict.status = "holds" => verdict.candidates > 0
    /\ verdict.status = "violated" => verdict.offenders # {}

\* It raises when nothing can be reported.
RaisesWhen(verdict, condition) ==
    /\ condition => verdict = Raised
    /\ ~condition => verdict.status # "raised" /\ verdict # Raised

LEMMA RaisedIsRight == ASSUME NEW judged, NEW so PROVE Right(Raised, judged, so)
BY DEF Right, Raised

LEMMA DuplicateRows ==
    ASSUME NEW rows, IsFiniteSet(rows)
    PROVE  /\ DuplicateKeys(rows) = {row \in rows : \E q \in rows : q.key = row.key /\ q # row}
           /\ DuplicateAttempts(rows)
                = {row \in rows : \E q \in rows : q.envelope.coords = row.envelope.coords /\ q # row}
<1>1. ASSUME NEW row \in rows
      PROVE  /\ Cardinality(WithKey(rows, row.key)) > 1
                    <=> \E q \in rows : q.key = row.key /\ q # row
             /\ Cardinality({q \in rows : q.envelope.coords = row.envelope.coords}) > 1
                    <=> \E q \in rows : q.envelope.coords = row.envelope.coords /\ q # row
  <2> DEFINE K == {q \in rows : q.key = row.key}
             A == {q \in rows : q.envelope.coords = row.envelope.coords}
  <2>1. IsFiniteSet(K) /\ IsFiniteSet(A)
    BY FiniteFilter
  <2>2. row \in K /\ row \in A
    OBVIOUS
  <2> HIDE DEF K, A
  <2>3. /\ Cardinality(K) > 1 <=> \E q \in K : q # row
        /\ Cardinality(A) > 1 <=> \E q \in A : q # row
    <3>1. Cardinality(K) > 1 <=> \E q \in K : q # row
      BY <2>1, <2>2, OneOrMore
    <3>2. Cardinality(A) > 1 <=> \E q \in A : q # row
      BY <2>1, <2>2, OneOrMore
    <3> QED
      BY <3>1, <3>2
  <2> USE DEF K, A
  <2>4. WithKey(rows, row.key) = K
    BY DEF WithKey
  <2> QED
    BY <2>3, <2>4
<1> QED
  BY <1>1 DEF DuplicateKeys, DuplicateAttempts

\* Where a row is looked into that has no envelope.
DebitsAreUnreadable(db) == \E row \in SelectedDebits(db) : row.envelope = Malformed

LEMMA DebitVerdict ==
    ASSUME NEW db, IsDatabase(db)
    PROVE  /\ Right(CheckNoDoubleDebit(db), DebitsAreFiled(db), NoDoubleDebit(db))
           /\ RaisesWhen(CheckNoDoubleDebit(db), DebitsAreUnreadable(db))
<1> DEFINE D == SelectedDebits(db)
           dup == DuplicateAttempts(D) \cup DuplicateKeys(D)
           n == Cardinality(D)
           v == CheckNoDoubleDebit(db)
           alone == \A row, q \in D :
                        row.envelope.coords = q.envelope.coords \/ row.key = q.key => row = q
<1>1. IsFiniteSet(D) /\ n \in Nat /\ (n = 0 <=> D = {})
  <2>1. IsFiniteSet(D)
    BY FiniteFilter DEF IsDatabase, SelectedDebits
  <2> QED
    BY <2>1, OneOrMore
<1>2. dup = {} <=> alone
  <2> HIDE DEF D
  <2> QED
    BY <1>1, DuplicateRows
<1>3. DebitsAreFiled(db) => (alone <=> NoDoubleDebit(db))
  BY DEF DebitsAreFiled, NoDoubleDebit
<1>4. v = IF DebitsAreUnreadable(db) THEN Raised
          ELSE Verdict(1, dup # {}, D = {}, n, CasesOf(dup))
  BY DEF CheckNoDoubleDebit, DebitsAreUnreadable
<1>5. dup # {} => CasesOf(dup) # {}
  BY DEF CasesOf
<1> HIDE DEF D, dup, n, v, alone
<1>6. CASE DebitsAreUnreadable(db)
  BY <1>4, <1>6, RaisedIsRight DEF RaisesWhen, v
<1>7. CASE ~DebitsAreUnreadable(db) /\ dup # {}
  <2>1. v = [number |-> 1, status |-> "violated", candidates |-> n, offenders |-> CasesOf(dup)]
    BY <1>4, <1>5, <1>7 DEF Verdict, InvariantResult
  <2> QED
    BY <2>1, <1>2, <1>3, <1>5, <1>7 DEF Right, RaisesWhen, Raised, v
<1>8. CASE ~DebitsAreUnreadable(db) /\ dup = {} /\ D = {}
  <2>1. v = [number |-> 1, status |-> "vacuous", candidates |-> n, offenders |-> {}]
    BY <1>4, <1>8 DEF Verdict, InvariantResult
  <2> QED
    BY <2>1, <1>2, <1>3, <1>8 DEF Right, RaisesWhen, Raised, v
<1>9. CASE ~DebitsAreUnreadable(db) /\ dup = {} /\ D # {}
  <2>1. v = [number |-> 1, status |-> "holds", candidates |-> n, offenders |-> {}]
    BY <1>1, <1>4, <1>9 DEF Verdict, InvariantResult
  <2> QED
    BY <2>1, <1>1, <1>2, <1>3, <1>9 DEF Right, RaisesWhen, Raised, v
<1> QED
  BY <1>6, <1>7, <1>8, <1>9

\* Where all there is to report are audit keys on rows that name no case.
NobodyIsNamed(db) ==
    /\ EveryActionIsPaired(db) /\ ~NoOrphanKey(db)
    /\ \A a \in db.audit : IsOrphanKey(db, a) => a.case_id = None

LEMMA PairingVerdict ==
    ASSUME NEW db, IsDatabase(db)
    PROVE  /\ Right(CheckActionAuditPairing(db), TRUE,
                    EveryActionIsPaired(db) /\ NoOrphanKey(db))
           /\ RaisesWhen(CheckActionAuditPairing(db), NobodyIsNamed(db))
<1> DEFINE audited == {row \in db.audit : row.key # None}
           unaudited == {row \in db.outbox : row.key \notin KeysOf(audited)}
           over == {row \in db.outbox : Cardinality(WithKey(audited, row.key)) > 1}
           orphans == {row \in audited : row.key \notin KeysOf(db.outbox)}
           dup == DuplicateKeys(db.outbox)
           ill == unaudited \cup over \cup dup
           bad == unaudited \cup over \cup orphans \cup dup
           named == CasesOf(ill) \cup (CasesOf(orphans) \ {None})
           n == Cardinality(db.outbox)
           v == CheckActionAuditPairing(db)
<1>1. n \in Nat /\ (n = 0 <=> db.outbox = {})
  BY OneOrMore DEF IsDatabase
<1>2. \A row \in db.outbox :
        row \notin unaudited /\ row \notin over
            <=> \E a \in db.audit : \A b \in db.audit : b.key = row.key <=> b = a
  <2> SUFFICES ASSUME NEW row \in db.outbox
               PROVE  row \notin unaudited /\ row \notin over
                        <=> \E a \in db.audit : \A b \in db.audit : b.key = row.key <=> b = a
    OBVIOUS
  <2> DEFINE K == WithKey(audited, row.key)
  <2>1. row.key # None
    BY DEF IsDatabase
  <2>2. K = {b \in db.audit : b.key = row.key}
    BY <2>1 DEF WithKey
  <2>3. IsFiniteSet(K)
    BY <2>2, FiniteFilter DEF IsDatabase
  <2>4. row \notin unaudited <=> \E a \in db.audit : a.key = row.key
    BY <2>1 DEF KeysOf
  <2>5. \A a \in K : Cardinality(K) > 1 <=> \E b \in K : b # a
    BY <2>3, OneOrMore
  <2>6. row \notin over <=> ~(Cardinality(K) > 1)
    OBVIOUS
  <2> HIDE DEF K, audited, unaudited, over
  <2> QED
    BY <2>2, <2>4, <2>5, <2>6
<1>3. orphans = {a \in db.audit : IsOrphanKey(db, a)}
  BY DEF KeysOf, IsOrphanKey
<1>4. dup = {row \in db.outbox : \E q \in db.outbox : q.key = row.key /\ q # row}
  BY DuplicateRows DEF IsDatabase
<1>5. ill = {} <=> EveryActionIsPaired(db)
  <2>1. /\ unaudited \subseteq db.outbox /\ over \subseteq db.outbox
    OBVIOUS
  <2> HIDE DEF unaudited, over, dup
  <2> QED
    BY <2>1, <1>2, <1>4 DEF EveryActionIsPaired
<1>6. orphans = {} <=> NoOrphanKey(db)
  BY <1>3 DEF NoOrphanKey
<1>7. bad = {} <=> ill = {} /\ orphans = {}
  <2> HIDE DEF unaudited, over, dup, orphans
  <2> QED
    OBVIOUS
<1>8. v = Verdict(8, bad # {}, db.outbox = {}, n, named)
  BY DEF CheckActionAuditPairing
<1>9. named = {} <=> ill = {} /\ \A a \in orphans : a.case_id = None
  <2> HIDE DEF ill, orphans
  <2> QED
    BY DEF CasesOf
<1> HIDE DEF bad, ill, named, n, v, orphans, dup, over, unaudited
<1>10. bad # {} /\ named = {} <=> NobodyIsNamed(db)
  BY <1>3, <1>5, <1>6, <1>7, <1>9 DEF NobodyIsNamed
<1>11. bad = {} <=> EveryActionIsPaired(db) /\ NoOrphanKey(db)
  BY <1>5, <1>6, <1>7
<1>12. CASE bad # {} /\ named # {}
  <2>1. v = [number |-> 8, status |-> "violated", candidates |-> n, offenders |-> named]
    BY <1>8, <1>12 DEF Verdict, InvariantResult
  <2> QED
    BY <2>1, <1>10, <1>11, <1>12 DEF Right, RaisesWhen, Raised, v
<1>13. CASE bad # {} /\ named = {}
  <2>1. v = Raised
    BY <1>8, <1>13 DEF Verdict, InvariantResult
  <2> QED
    BY <2>1, <1>10, <1>13, RaisedIsRight DEF RaisesWhen, v
<1>14. CASE bad = {} /\ db.outbox = {}
  <2>1. v = [number |-> 8, status |-> "vacuous", candidates |-> n, offenders |-> {}]
    BY <1>8, <1>14 DEF Verdict, InvariantResult
  <2> QED
    BY <2>1, <1>10, <1>11, <1>14 DEF Right, RaisesWhen, Raised, v
<1>15. CASE bad = {} /\ db.outbox # {}
  <2>1. v = [number |-> 8, status |-> "holds", candidates |-> n, offenders |-> {}]
    BY <1>1, <1>8, <1>15 DEF Verdict, InvariantResult
  <2>2. v.candidates > 0
    BY <2>1, <1>1, <1>15
  <2> QED
    BY <2>1, <2>2, <1>10, <1>11, <1>15 DEF Right, RaisesWhen, Raised, v
<1> QED
  BY <1>12, <1>13, <1>14, <1>15

LEMMA OrphanVerdict ==
    ASSUME NEW db, IsDatabase(db)
    PROVE  /\ Right(CheckNoOrphanedLiveCase(db), TRUE,
                    EveryLiveCaseHasANextStep(Unexplained(db)))
           /\ RaisesWhen(CheckNoOrphanedLiveCase(db), FALSE)
<1> DEFINE live == {c \in db.cases : c.state \notin TerminalCaseStates}
           bad == {c \in live : Standing(db, c) \in {"orphaned", "over_scheduled"}}
           idle == \A c \in live : Standing(db, c) # "scheduled"
           n == Cardinality(live)
           v == CheckNoOrphanedLiveCase(db)
           Fine(c) == HasANextStep(db, c) \/ IsExplained(db, c)
<1>1. IsFiniteSet(live) /\ n \in Nat /\ (n = 0 <=> live = {})
  <2>1. IsFiniteSet(live)
    BY FiniteFilter DEF IsDatabase
  <2> QED
    BY <2>1, OneOrMore
<1>2. ASSUME NEW c \in live
      PROVE  Standing(db, c) \in {"orphaned", "over_scheduled"} <=> ~Fine(c)
  <2> DEFINE O == OpenRows(db, c)
             k == Cardinality(O)
  <2>1. O = {q \in db.outbox : IsOpen(q) /\ q.case_id = c.case_id}
    BY DEF OpenRows, OpenStatuses, IsOpen
  <2>2. IsFiniteSet(O)
    BY <2>1, FiniteFilter DEF IsDatabase
  <2>3. /\ k \in Nat
        /\ k = 0 <=> O = {}
        /\ k = 1 <=> \E row : O = {row}
    BY <2>2, OneOrMore
  <2>4. (\E row : O = {row})
            <=> \E row \in db.outbox :
                    \A q \in db.outbox : IsOpen(q) /\ q.case_id = c.case_id <=> q = row
    <3> HIDE DEF O
    <3>1. ASSUME NEW row, O = {row}
          PROVE  /\ row \in db.outbox
                 /\ \A q \in db.outbox : IsOpen(q) /\ q.case_id = c.case_id <=> q = row
      <4>1. \A q : q \in O <=> q = row
        BY <3>1
      <4>2. \A q : q \in O <=> q \in db.outbox /\ IsOpen(q) /\ q.case_id = c.case_id
        BY <2>1
      <4> QED
        BY <4>1, <4>2
    <3>2. ASSUME NEW row \in db.outbox,
                 \A q \in db.outbox : IsOpen(q) /\ q.case_id = c.case_id <=> q = row
          PROVE  O = {row}
      BY <2>1, <3>2
    <3> QED
      BY <3>1, <3>2
  <2>5. O = {} <=> NothingIsScheduled(db, c)
    BY <2>1 DEF NothingIsScheduled
  <2>6. Decided(db, c)
            <=> \E a \in db.audit :
                    a.case_id = c.case_id
                    /\ a.event_type \in {"control_arm_no_action", "arm_not_routed"}
    BY DEF Decided, NoActionDecisionEvents
  <2> DEFINE human == c.state \in {"awaiting_approval", "escalated"}
             decided == Decided(db, c)
             one == \E row \in db.outbox :
                        \A q \in db.outbox : IsOpen(q) /\ q.case_id = c.case_id <=> q = row
  <2>7. Fine(c) <=> k = 1 \/ (k = 0 /\ (human \/ decided))
    BY <2>3, <2>4, <2>5, <2>6 DEF HasANextStep, IsExplained
  <2>8. human <=> c.state \in HumanTaskProxyStates
    BY DEF HumanTaskProxyStates
  <2> HIDE DEF Fine, O, k, decided, one
  <2>9. k = 1 \/ k > 1 \/ k = 0
    BY <2>3
  <2>10. CASE k = 1
    <3>1. Standing(db, c) = "scheduled"
      BY <2>10 DEF Standing, k, O
    <3> QED
      BY <3>1, <2>7, <2>10
  <2>11. CASE k > 1
    <3>0. ~(k = 1) /\ ~(k = 0)
      BY <2>11, <2>3
    <3>1. Standing(db, c) = "over_scheduled"
      BY <3>0, <2>11 DEF Standing, k, O
    <3> QED
      BY <3>0, <3>1, <2>7
  <2>12. CASE k = 0
    <3>0. ~(k = 1) /\ ~(k > 1)
      BY <2>12
    <3>1. Standing(db, c) = IF human THEN "proxied" ELSE IF decided THEN "closed" ELSE "orphaned"
      BY <3>0, <2>12, <2>8 DEF Standing, k, O, decided
    <3> QED
      BY <3>0, <3>1, <2>7, <2>12
  <2> QED
    BY <2>9, <2>10, <2>11, <2>12
<1>3. bad = {} <=> EveryLiveCaseHasANextStep(Unexplained(db))
  <2> DEFINE rest == Unexplained(db)
  <2>1. /\ rest.outbox = db.outbox
        /\ rest.cases = {c \in db.cases : ~IsExplained(db, c)}
    BY DEF Unexplained, IsDatabase
  <2> HIDE DEF rest
  <2>2. ASSUME NEW c PROVE HasANextStep(rest, c) <=> HasANextStep(db, c)
    BY <2>1 DEF HasANextStep, NothingIsScheduled
  <2>3. EveryLiveCaseHasANextStep(rest)
            <=> \A c \in rest.cases : c.state \in TerminalCaseStates \/ HasANextStep(db, c)
    BY <2>2 DEF EveryLiveCaseHasANextStep
  <2>4. EveryLiveCaseHasANextStep(rest) <=> \A c \in live : Fine(c)
    BY <2>1, <2>3
  <2>5. bad = {} <=> \A c \in live : Fine(c)
    <3> HIDE DEF Fine, live
    <3> QED
      BY <1>2
  <2> QED
    BY <2>4, <2>5 DEF rest
<1>4. v = Verdict(9, bad # {}, idle, n, CasesOf(bad))
  BY DEF CheckNoOrphanedLiveCase
<1>5. bad # {} => CasesOf(bad) # {}
  BY DEF CasesOf
<1>6. ~idle => n # 0
  BY <1>1
<1> HIDE DEF live, bad, idle, n, v
<1>7. CASE bad # {}
  <2>1. v = [number |-> 9, status |-> "violated", candidates |-> n, offenders |-> CasesOf(bad)]
    BY <1>4, <1>5, <1>7 DEF Verdict, InvariantResult
  <2> QED
    BY <2>1, <1>3, <1>5, <1>7 DEF Right, RaisesWhen, Raised, v
<1>8. CASE bad = {} /\ idle
  <2>1. v = [number |-> 9, status |-> "vacuous", candidates |-> n, offenders |-> {}]
    BY <1>4, <1>8 DEF Verdict, InvariantResult
  <2> QED
    BY <2>1, <1>3, <1>8 DEF Right, RaisesWhen, Raised, v
<1>9. CASE bad = {} /\ ~idle
  <2>1. v = [number |-> 9, status |-> "holds", candidates |-> n, offenders |-> {}]
    BY <1>4, <1>6, <1>9 DEF Verdict, InvariantResult
  <2>2. n > 0
    BY <1>1, <1>6, <1>9
  <2> QED
    BY <2>1, <2>2, <1>3, <1>9 DEF Right, RaisesWhen, Raised, v
<1> QED
  BY <1>7, <1>8, <1>9

\* Where an obligation does not say what was settled.
ObligationsAreUnreadable(db) == \E o \in db.obligations : o.data = Malformed

LEMMA RecoveryVerdict ==
    ASSUME NEW db, IsDatabase(db)
    PROVE  /\ Right(CheckRecoveryWithinAmountOwed(db), TRUE, RecoveredWithinOwed(db))
           /\ RaisesWhen(CheckRecoveryWithinAmountOwed(db), ObligationsAreUnreadable(db))
<1> DEFINE candidates == {o \in db.obligations : Settled(o) # 0 \/ Recognised(db, o) # 0}
           breaches == {o \in candidates : Settled(o) > o.gross \/ Recognised(db, o) > o.gross}
           cases == UNION {CasesOf(RecoveredOn(db, o)) : o \in breaches}
           named == IF cases # {} THEN cases ELSE {o.obligation_id : o \in breaches}
           n == Cardinality(candidates)
           v == CheckRecoveryWithinAmountOwed(db)
<1>0. CheckRecoveryWithinAmountOwed(db)
        = IF ObligationsAreUnreadable(db) THEN Raised
          ELSE Verdict(6, breaches # {}, candidates = {}, n, named)
  BY DEF CheckRecoveryWithinAmountOwed, ObligationsAreUnreadable
<1>unreadable. CASE ObligationsAreUnreadable(db)
  BY <1>0, <1>unreadable, RaisedIsRight DEF RaisesWhen
<1>readable. SUFFICES ASSUME ~ObligationsAreUnreadable(db)
                      PROVE  /\ Right(v, TRUE, RecoveredWithinOwed(db))
                             /\ RaisesWhen(v, FALSE)
  BY <1>unreadable DEF RaisesWhen
<1>1. n \in Nat /\ (n = 0 <=> candidates = {})
  <2>1. IsFiniteSet(candidates)
    BY FiniteFilter DEF IsDatabase
  <2> QED
    BY <2>1, OneOrMore
<1>2. \A o \in db.obligations :
        /\ o.gross \in Nat /\ Settled(o) \in Nat /\ Recognised(db, o) \in Nat
  <2> SUFFICES ASSUME NEW o \in db.obligations
               PROVE  /\ o.gross \in Nat /\ Settled(o) \in Nat
                      /\ Recognised(db, o) \in Nat
    OBVIOUS
  <2>1. o.gross \in Nat /\ Settled(o) \in Nat
    BY <1>readable DEF IsDatabase, Settled, ObligationsAreUnreadable
  <2> DEFINE rows == RecoveredOn(db, o)
             amount == [c \in rows |-> c.amount]
  <2>2. IsFiniteSet(rows)
    BY FiniteFilter DEF IsDatabase, RecoveredOn
  <2>3. DOMAIN amount = rows /\ \A c \in rows : amount[c] \in Nat
    BY DEF IsDatabase, RecoveredOn
  <2>4. MoneySum(amount) \in Nat
    <3> HIDE DEF amount, rows
    <3> QED
      BY <2>2, <2>3, SumIsNatural
  <2> QED
    BY <2>1, <2>4 DEF Recognised
<1>3. RecoveredWithinOwed(db)
        <=> \A o \in db.obligations : Settled(o) <= o.gross /\ Recognised(db, o) <= o.gross
  BY DEF RecoveredWithinOwed, Settled, Recognised, RecoveredOn
<1>4. breaches = {} <=> RecoveredWithinOwed(db)
  <2>1. ASSUME NEW o \in db.obligations
        PROVE  o \in breaches <=> ~(Settled(o) <= o.gross /\ Recognised(db, o) <= o.gross)
    BY <1>2
  <2> QED
    BY <1>3, <2>1
<1>5. v = Verdict(6, breaches # {}, candidates = {}, n, named)
  BY <1>0, <1>readable
<1>6. breaches # {} => named # {}
  OBVIOUS
<1> HIDE DEF candidates, breaches, cases, named, n, v
<1>7. CASE breaches # {}
  <2>1. v = [number |-> 6, status |-> "violated", candidates |-> n, offenders |-> named]
    BY <1>5, <1>6, <1>7 DEF Verdict, InvariantResult
  <2> QED
    BY <2>1, <1>4, <1>6, <1>7 DEF Right, RaisesWhen, Raised, v
<1>8. CASE breaches = {} /\ candidates = {}
  <2>1. v = [number |-> 6, status |-> "vacuous", candidates |-> n, offenders |-> {}]
    BY <1>5, <1>8 DEF Verdict, InvariantResult
  <2> QED
    BY <2>1, <1>4, <1>8 DEF Right, RaisesWhen, Raised, v
<1>9. CASE breaches = {} /\ candidates # {}
  <2>1. v = [number |-> 6, status |-> "holds", candidates |-> n, offenders |-> {}]
    BY <1>1, <1>5, <1>9 DEF Verdict, InvariantResult
  <2>2. n > 0
    BY <1>1, <1>9
  <2> QED
    BY <2>1, <2>2, <1>4, <1>9 DEF Right, RaisesWhen, Raised, v
<1> QED
  BY <1>7, <1>8, <1>9

\* Ten verdicts, or none.
LEMMA ReportIsRight ==
    ASSUME NEW db, IsDatabase(db), NEW number \in {1, 6, 8, 9}
    PROVE  /\ Right(CheckAll(db)[number], number # 1 \/ DebitsAreFiled(db),
                    Sentence(number, IF number = 9 THEN Unexplained(db) ELSE db))
           /\ CheckAll(db)[number].status = "raised" <=> LeavesNoReport(db)
<1> DEFINE R == CheckAll(db)
           raises == \E n \in 1 .. 10 : Check(n, db) = Raised
           so == Sentence(number, IF number = 9 THEN Unexplained(db) ELSE db)
           judged == number # 1 \/ DebitsAreFiled(db)
<1>1. /\ Check(1, db) = CheckNoDoubleDebit(db)
      /\ Check(6, db) = CheckRecoveryWithinAmountOwed(db)
      /\ Check(8, db) = CheckActionAuditPairing(db)
      /\ Check(9, db) = CheckNoOrphanedLiveCase(db)
  BY DEF Check
<1>2. ASSUME NEW n \in 1 .. 10, n \notin {1, 6, 8, 9}
      PROVE  Check(n, db) # Raised
  <2>1. n # 1 /\ n # 6 /\ n # 8 /\ n # 9
    BY <1>2
  <2>2. Check(n, db) = InvariantResult(n, "not_checkable", 0, {})
    BY <2>1 DEF Check
  <2>3. Check(n, db).status = "not_checkable"
    BY <2>2 DEF InvariantResult
  <2> QED
    BY <2>3 DEF Raised
<1>3. /\ RaisesWhen(Check(1, db), DebitsAreUnreadable(db))
      /\ RaisesWhen(Check(6, db), ObligationsAreUnreadable(db))
      /\ RaisesWhen(Check(8, db), NobodyIsNamed(db))
      /\ RaisesWhen(Check(9, db), FALSE)
  BY <1>1, DebitVerdict, RecoveryVerdict, PairingVerdict, OrphanVerdict
<1>4. raises <=> LeavesNoReport(db)
  <2>1. LeavesNoReport(db)
            <=> DebitsAreUnreadable(db) \/ ObligationsAreUnreadable(db) \/ NobodyIsNamed(db)
    BY DEF LeavesNoReport, DebitsAreUnreadable, ObligationsAreUnreadable, NobodyIsNamed
  <2>2. /\ Check(1, db) = Raised <=> DebitsAreUnreadable(db)
        /\ Check(6, db) = Raised <=> ObligationsAreUnreadable(db)
        /\ Check(8, db) = Raised <=> NobodyIsNamed(db)
        /\ Check(9, db) # Raised
    BY <1>3 DEF RaisesWhen
  <2>3. raises <=> \E n \in {1, 6, 8, 9} : Check(n, db) = Raised
    <3>1. \A n \in {1, 6, 8, 9} : n \in 1 .. 10
      OBVIOUS
    <3> QED
      BY <1>2, <3>1
  <2> QED
    BY <2>1, <2>2, <2>3
<1>5. R[number] = IF raises THEN Raised ELSE Check(number, db)
  <2>1. number \in 1 .. 10
    OBVIOUS
  <2> QED
    BY <2>1 DEF CheckAll
<1>6. /\ Right(Check(number, db), judged, so)
      /\ Check(number, db).status = "raised" => Check(number, db) = Raised
  <2>1. CASE number = 1
    <3>1. so <=> NoDoubleDebit(db)
      BY <2>1 DEF Sentence
    <3>2. judged <=> DebitsAreFiled(db)
      BY <2>1
    <3> HIDE DEF so, judged
    <3> QED
      BY <2>1, <3>1, <3>2, <1>1, <1>3, DebitVerdict DEF RaisesWhen, Right
  <2>2. CASE number = 6
    <3>1. so = RecoveredWithinOwed(db)
      BY <2>2 DEF Sentence
    <3> QED
      BY <2>2, <3>1, <1>1, <1>3, RecoveryVerdict DEF RaisesWhen, Right
  <2>3. CASE number = 8
    <3>1. so = (EveryActionIsPaired(db) /\ NoOrphanKey(db))
      BY <2>3 DEF Sentence
    <3> QED
      BY <2>3, <3>1, <1>1, <1>3, PairingVerdict DEF RaisesWhen, Right
  <2>4. CASE number = 9
    <3>1. so = EveryLiveCaseHasANextStep(Unexplained(db))
      BY <2>4 DEF Sentence
    <3> QED
      BY <2>4, <3>1, <1>1, <1>3, OrphanVerdict DEF RaisesWhen, Right
  <2> QED
    BY <2>1, <2>2, <2>3, <2>4
<1>7. Raised.status = "raised"
  BY DEF Raised
<1>8. Right(Raised, judged, so)
  BY RaisedIsRight
<1>9. raises <=> \E n \in 1 .. 10 : Check(n, db) = Raised
  OBVIOUS
<1>10. number \in 1 .. 10
  OBVIOUS
<1> HIDE DEF R, raises, so, judged
<1>11. CASE raises
  <2>1. R[number] = Raised
    BY <1>5, <1>11
  <2> QED
    BY <2>1, <1>4, <1>7, <1>8, <1>11 DEF R, so, judged
<1>12. CASE ~raises
  <2>1. R[number] = Check(number, db) /\ Check(number, db) # Raised
    BY <1>5, <1>9, <1>10, <1>12
  <2> QED
    BY <2>1, <1>4, <1>6, <1>12 DEF R, so, judged
<1> QED
  BY <1>11, <1>12

-----------------------------------------------------------------------------
(***************************************************************************)
(* The specification.                                                      *)
(***************************************************************************)

\* A call is of a kind the assumption describes, and its result is what the
\* function of that kind gives.
CallIsReal ==
    /\ call.kind = "tables" => IsDatabase(call.database)
    /\ call.kind = "weights" => IsWeights(call.weights)
    /\ call.kind = "block" =>
        /\ IsWeights(call.weights)
        /\ \A block \in {0, 1} : IsStream(call.weights, call.streams[block])
    /\ call.kind = "records" =>
        /\ IsWeights(call.spec.weights)
        /\ DOMAIN call.spec.streams \subseteq Nat
        /\ \A block \in DOMAIN call.spec.streams :
            IsStream(call.spec.weights, call.spec.streams[block])
    /\ call.kind = "guardrail" => IsArmOutcome(call.treatment) /\ IsArmOutcome(call.control)
    /\ call.kind = "strata" => IsStrata(call.pairs, call.at_risk)
    /\ call.kind = "book" =>
        /\ IsBatch(call.outcomes)
        /\ \A basis \in Basis : ArePicks(call.outcomes, basis, call.picks[basis])

ResultIsReal ==
    /\ Answered("tables") => result = CheckAll(call.database)
    /\ Answered("weights") =>
        result = [draw \in 0 .. PermilleTotal - 1 |-> AssignArm(call.weights, draw)]
    /\ Answered("block") =>
        LET n == BlockSize(call.weights)
        IN  result = [rank \in 0 .. 2 * n - 1 |->
                        AssignArmBlocked(call.weights, call.streams, rank)]
    /\ Answered("records") =>
        result = [k \in DOMAIN call.records |-> VerifyAssignment(call.records[k], call.spec)]
    /\ Answered("guardrail") =>
        result = GuardrailContractHolds(call.treatment, call.control)
    /\ Answered("strata") => result = StratumWeighted(call.pairs, call.at_risk)
    /\ Answered("book") =>
        result = [basis \in Basis |->
                    BuildScoreboard(call.outcomes, basis, call.picks[basis])]

ReportsInv == CallIsReal /\ ResultIsReal

LEMMA InitReports == Init => ReportsInv
<1> SUFFICES ASSUME Init PROVE ReportsInv
  OBVIOUS
<1>1. ResultIsReal
  BY DEF Init, ResultIsReal, Answered
<1>2. CallIsReal
  BY CallsAssumption DEF Init, CallIsReal
<1> QED
  BY <1>1, <1>2 DEF ReportsInv

LEMMA StepReports == ReportsInv /\ [Next]_vars => ReportsInv'
<1> SUFFICES ASSUME ReportsInv, [Next]_vars PROVE ReportsInv'
  OBVIOUS
<1>1. call' = call
  BY DEF Next, CheckTables, AssignDraws, AssignBlock, Verify, Guard, Estimate, Score, Done, vars
<1>2. CallIsReal'
  BY <1>1 DEF ReportsInv, CallIsReal
<1>3. ResultIsReal'
  <2>1. CASE CheckTables
    BY <2>1 DEF CheckTables, Done, ResultIsReal, Answered
  <2>2. CASE AssignDraws
    BY <2>2 DEF AssignDraws, Done, ResultIsReal, Answered
  <2>3. CASE AssignBlock
    BY <2>3 DEF AssignBlock, Done, ResultIsReal, Answered
  <2>4. CASE Verify
    BY <2>4 DEF Verify, Done, ResultIsReal, Answered
  <2>5. CASE Guard
    BY <2>5 DEF Guard, Done, ResultIsReal, Answered
  <2>6. CASE Estimate
    BY <2>6 DEF Estimate, Done, ResultIsReal, Answered
  <2>7. CASE Score
    BY <2>7 DEF Score, Done, ResultIsReal, Answered
  <2>8. CASE UNCHANGED vars
    BY <2>8 DEF ReportsInv, ResultIsReal, Answered, vars
  <2> QED
    BY <2>1, <2>2, <2>3, <2>4, <2>5, <2>6, <2>7, <2>8 DEF Next
<1> QED
  BY <1>2, <1>3 DEF ReportsInv

LEMMA ReportsAlways == Spec => []ReportsInv
BY InitReports, StepReports, PTL DEF Spec

\* Whatever the tables hold: a verdict is what the rows say, but for what a
\* column hides from #1 and a logged decision from #9, and there is one
\* unless a row cannot be read or nobody can be named.
THEOREM VerdictIsRightAlways == Spec => []VerdictIsRight
<1>1. ReportsInv => VerdictIsRight
  <2> SUFFICES ASSUME ReportsInv, Answered("tables")
               PROVE  VerdictIsRight
    BY DEF VerdictIsRight
  <2> DEFINE db == call.database
  <2>1. IsDatabase(db) /\ result = CheckAll(db)
    BY DEF ReportsInv, CallIsReal, ResultIsReal, Answered
  <2>2. \A number \in {1, 6, 8, 9} :
            /\ Right(CheckAll(db)[number], number # 1 \/ DebitsAreFiled(db),
                     Sentence(number, IF number = 9 THEN Unexplained(db) ELSE db))
            /\ CheckAll(db)[number].status = "raised" <=> LeavesNoReport(db)
    BY <2>1, ReportIsRight
  <2> QED
    BY <2>1, <2>2, Zenon DEF VerdictIsRight, Right
<1> QED
  BY <1>1, ReportsAlways, PTL

\* Every split of every PermilleTotal is reproduced exactly.
THEOREM SharesAreExactAlways == Spec => []SharesAreExact
<1>1. ReportsInv => SharesAreExact
  <2> SUFFICES ASSUME ReportsInv, Answered("weights"), NEW arm \in ExperimentArm
               PROVE  Cardinality({draw \in DOMAIN result : result[draw] = arm})
                        = call.weights[arm]
    BY DEF SharesAreExact
  <2> DEFINE w == call.weights
  <2>1. /\ IsWeights(w)
        /\ result = [draw \in 0 .. PermilleTotal - 1 |-> AssignArm(w, draw)]
    BY DEF ReportsInv, CallIsReal, ResultIsReal, Answered
  <2>2. {draw \in DOMAIN result : result[draw] = arm}
            = {draw \in 0 .. PermilleTotal - 1 : AssignArm(w, draw) = arm}
    BY <2>1
  <2> QED
    BY <2>1, <2>2, SharesOfDraws
<1> QED
  BY <1>1, ReportsAlways, PTL

\* The guardrail passes no arm whose opt-out rate is above its control's.
THEOREM GuardrailIsExactAlways == Spec => []GuardrailIsExact
<1>1. ReportsInv => GuardrailIsExact
  <2> SUFFICES ASSUME ReportsInv, Answered("guardrail"), result,
                      ContactedCaseCount(call.treatment) * ContactedCaseCount(call.control)
                        <= Scale
               PROVE  GuardrailIsExact
    BY DEF GuardrailIsExact
  <2>1. /\ IsArmOutcome(call.treatment) /\ IsArmOutcome(call.control)
        /\ GuardrailContractHolds(call.treatment, call.control)
    BY DEF ReportsInv, CallIsReal, ResultIsReal, Answered
  <2> QED
    BY <2>1, GuardrailIsTrue DEF GuardrailIsExact
<1> QED
  BY <1>1, ReportsAlways, PTL

\* A block of records that verifies has the shares of the experiment it is
\* verified against, whatever weights they were made under.
THEOREM VerifiedBlockIsBalancedAlways == Spec => []VerifiedBlockIsBalanced
<1>1. ReportsInv => VerifiedBlockIsBalanced
  <2> SUFFICES ASSUME ReportsInv, Answered("records"),
                      \A k \in DOMAIN call.records : result[k] = "ok",
                      NEW block \in DOMAIN call.spec.streams,
                      FillsBlock(call.records, BlockSize(call.spec.weights), block),
                      NEW arm \in ExperimentArm
               PROVE  Cardinality({k \in DOMAIN call.records : call.records[k].arm = arm})
                        * PermilleTotal
                      = call.spec.weights[arm] * BlockSize(call.spec.weights)
    BY DEF VerifiedBlockIsBalanced
  <2>1. /\ IsWeights(call.spec.weights)
        /\ block \in Nat /\ IsStream(call.spec.weights, call.spec.streams[block])
    BY DEF ReportsInv, CallIsReal, Answered
  <2>2. result = [k \in DOMAIN call.records |->
                    VerifyAssignment(call.records[k], call.spec)]
    BY DEF ReportsInv, ResultIsReal
  <2>3. ASSUME NEW k \in DOMAIN call.records
        PROVE  call.records[k].arm
                = AssignArmBlocked(call.spec.weights, call.spec.streams, call.records[k].rank)
    <3>1. VerifyAssignment(call.records[k], call.spec) = "ok"
      BY <2>2
    <3>2. call.records[k].method = "permuted_block"
      BY DEF FillsBlock
    <3> QED
      BY <3>1, <3>2, AcceptedArm
  <2> QED
    BY <2>1, <2>3, RecordsOfABlock
<1> QED
  BY <1>1, ReportsAlways, PTL

\* No estimate without a counterfactual in every stratum, and none beyond
\* the strata's own differences.
THEOREM NoLiftWithoutCounterfactualAlways == Spec => []NoLiftWithoutCounterfactual
<1>1. ReportsInv => NoLiftWithoutCounterfactual
  <2> SUFFICES ASSUME ReportsInv, Answered("strata"), result # Refused
               PROVE  NoLiftWithoutCounterfactual
    BY DEF NoLiftWithoutCounterfactual
  <2>1. /\ IsStrata(call.pairs, call.at_risk)
        /\ result = StratumWeighted(call.pairs, call.at_risk)
    BY DEF ReportsInv, CallIsReal, ResultIsReal, Answered
  <2> QED
    BY <2>1, EstimateIsBetween DEF NoLiftWithoutCounterfactual
<1> QED
  BY <1>1, ReportsAlways, PTL

LEMMA BoardsOfABook ==
    ASSUME ReportsInv, Answered("book"), NEW basis \in Basis
    PROVE  /\ IsBatch(call.outcomes) /\ ArePicks(call.outcomes, basis, call.picks[basis])
           /\ result[basis] = BuildScoreboard(call.outcomes, basis, call.picks[basis])
BY DEF ReportsInv, CallIsReal, ResultIsReal, Answered

\* What was never resolved is missing from the denominator alone.
THEOREM PerProtocolIsNeverLowerAlways == Spec => []PerProtocolIsNeverLower
<1>1. ReportsInv => PerProtocolIsNeverLower
  <2> SUFFICES ASSUME ReportsInv, Answered("book"),
                      \A basis \in Basis : result[basis] # Refused,
                      NEW arm \in ScoreboardArms
               PROVE  LET all == result["all_randomised"].arms[arm]
                          resolved == result["resolved_only"].arms[arm]
                      IN  /\ all.gross = resolved.gross /\ all.recovered = resolved.recovered
                          /\ all.gross * resolved.at_risk <= resolved.gross * all.at_risk
    BY DEF PerProtocolIsNeverLower
  <2>1. ASSUME NEW basis \in Basis
        PROVE  result[basis].arms[arm] = PooledOutcome(arm, CasesOn(call.outcomes, basis, arm))
    BY BoardsOfABook, BoardIsWithin
  <2>2. IsBatch(call.outcomes) /\ "all_randomised" \in Basis /\ "resolved_only" \in Basis
    BY BoardsOfABook DEF Basis
  <2> QED
    BY <2>1, <2>2, ResolvedAreNeverLower
<1> QED
  BY <1>1, ReportsAlways, PTL

\* Every scoreboard that can be built is, and none of its numbers is outside
\* the money at risk.
THEOREM EstimatesAreWithinTheBookAlways == Spec => []EstimatesAreWithinTheBook
<1>1. ReportsInv => EstimatesAreWithinTheBook
  <2> SUFFICES ASSUME ReportsInv, Answered("book"), NEW basis \in Basis
               PROVE  LET board == result[basis]
                          within(x) == -board.total_at_risk <= x /\ x <= board.total_at_risk
                      IN  IF board = Refused
                          THEN \/ \E arm \in ScoreboardArms :
                                    \A i \in DOMAIN call.outcomes :
                                        \/ call.outcomes[i].arm # arm
                                        \/ basis = "resolved_only" /\ ~call.outcomes[i].simulated
                               \/ \E arm \in {"A0", "A1"} : Len(call.picks[basis][arm]) < 2
                          ELSE \A arm \in {"A0", "A1"} :
                                LET c == board.comparisons[arm]
                                IN  /\ c.ci_low <= c.ci_high
                                    /\ within(c.point) /\ within(c.ci_low) /\ within(c.ci_high)
                                    /\ c.p_value \in 0 .. PScale
    BY DEF EstimatesAreWithinTheBook
  <2>1. /\ IsBatch(call.outcomes) /\ ArePicks(call.outcomes, basis, call.picks[basis])
        /\ result[basis] = BuildScoreboard(call.outcomes, basis, call.picks[basis])
    BY BoardsOfABook
  <2> QED
    BY <2>1, BoardIsWithin
<1> QED
  BY <1>1, ReportsAlways, PTL

\* EveryBlockIsExact: experiment.py's blocks of any weights, shuffled by any
\* stream of numbers, hold every arm in exactly its share.
THEOREM EveryBlockIsExactAlways == Spec => []EveryBlockIsExact
<1>1. ReportsInv => EveryBlockIsExact
  <2> DEFINE n == BlockSize(call.weights)
             Of(block, arm) ==
                {rank \in block * n .. (block + 1) * n - 1 : result[rank] = arm}
  <2> SUFFICES ASSUME ReportsInv, Answered("block"), NEW block \in {0, 1},
                      NEW arm \in ExperimentArm
               PROVE  Cardinality(Of(block, arm)) * PermilleTotal = call.weights[arm] * n
    BY DEF EveryBlockIsExact
  <2>1. IsWeights(call.weights) /\ IsStream(call.weights, call.streams[block])
    BY DEF ReportsInv, CallIsReal, Answered
  <2>2. result = [rank \in 0 .. 2 * n - 1 |->
                    AssignArmBlocked(call.weights, call.streams, rank)]
    BY DEF ReportsInv, ResultIsReal
  <2>3. n \in Nat /\ n > 0
    BY <2>1, BlockHasParts
  <2>4. Of(block, arm) = RanksOfArm(call.weights, call.streams, block, arm)
    <3>1. \A rank \in block * n .. (block + 1) * n - 1 : rank \in 0 .. 2 * n - 1
      <4> HIDE DEF n
      <4>1. CASE block = 0
        BY <4>1, <2>3
      <4>2. CASE block = 1
        BY <4>2, <2>3
      <4> QED
        BY <4>1, <4>2
    <3>2. \A rank \in block * n .. (block + 1) * n - 1 :
            result[rank] = AssignArmBlocked(call.weights, call.streams, rank)
      <4> HIDE DEF n
      <4> QED
        BY <2>2, <3>1
    <3> QED
      BY <3>2 DEF RanksOfArm
  <2>5. block \in Nat
    OBVIOUS
  <2>6. Cardinality(RanksOfArm(call.weights, call.streams, block, arm)) * PermilleTotal
            = call.weights[arm] * n
    BY <2>1, <2>5, BlockOfRanksIsExact
  <2> HIDE DEF Of, n
  <2> QED
    BY <2>4, <2>6
<1> QED
  BY <1>1, ReportsAlways, PTL

=============================================================================
