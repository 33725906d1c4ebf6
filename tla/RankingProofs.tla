--------------------------- MODULE RankingProofs ---------------------------
(***************************************************************************)
(* Theorems about Ranking: what fusion, the cut and the mapping of the     *)
(* reranker's answer do with any lists of any number of documents, for any *)
(* constant of the fusion and any limits.                                  *)
(***************************************************************************)
EXTENDS Ranking, FiniteSetTheorems, TLAPS

----------------------------------------------------------------------------
(* Lists without repetition *)

(* The least of some numbers.                                              *)
LEMMA LeastNumber ==
    ASSUME NEW T \in SUBSET Nat, T # {}
    PROVE  \E x \in T : \A y \in T : x <= y
<1> DEFINE R == OpToRel(<, Nat)
<1>1. IsWellFoundedOn(R, Nat)
  BY NatLessThanWellFounded
<1>2. \A x, y \in Nat : <<y, x>> \in R <=> y < x
  BY DEF OpToRel
<1> HIDE DEF R
<1>3. PICK x \in T : \A y \in T : ~(<<y, x>> \in R)
  BY <1>1, WFMin
<1>4. ASSUME NEW y \in T PROVE x <= y
  <2>1. x \in Nat /\ y \in Nat /\ ~(<<y, x>> \in R)
    BY <1>3
  <2>2. ~(y < x)
    BY <1>2, <2>1
  <2> QED
    BY <2>1, <2>2
<1> QED
  BY <1>4

Distinct(list) == \A i, j \in 1..Len(list) : list[i] = list[j] => i = j
Ranked(list) == list \in Seq(Docs) /\ Distinct(list)

LEMMA FiniteDocs ==
    ASSUME NEW S \in SUBSET Docs
    PROVE  IsFiniteSet(S) /\ Cardinality(S) \in Nat
<1>1. IsFiniteSet(Docs)
  BY DocsAssumption, FS_Interval DEF Docs
<1> QED
  BY <1>1, FS_Subset, FS_CardinalityType

(* The enumerations of a set.                                              *)
LEMMA Enumeration ==
    ASSUME NEW S, IsFiniteSet(S), NEW s \in SetToSeqs(S)
    PROVE  /\ s \in Seq(S) /\ Len(s) = Cardinality(S) /\ DOMAIN s = 1..Len(s)
           /\ Distinct(s)
           /\ \A d \in S : \E i \in 1..Len(s) : s[i] = d
<1> DEFINE n == Cardinality(S)
<1>1. n \in Nat
  BY FS_CardinalityType
<1>2. s \in [1..n -> S] /\ \A i, j \in 1..n : i # j => s[i] # s[j]
  BY DEF SetToSeqs
<1> HIDE DEF n
<1>3. s \in Seq(S) /\ Len(s) = n /\ DOMAIN s = 1..Len(s)
  BY <1>1, <1>2
<1>4. Distinct(s)
  BY <1>2, <1>3 DEF Distinct
<1>5. s \in Injection(1..n, S)
  BY <1>2 DEF Injection, IsInjective
<1>6. Cardinality(1..n) = n
  BY <1>1, FS_Interval
<1>7. s \in Surjection(1..n, S)
  BY <1>5, <1>6, FS_Injection DEF n
<1>8. \A d \in S : \E i \in 1..n : s[i] = d
  BY <1>7 DEF Surjection
<1> QED
  BY <1>3, <1>4, <1>8 DEF n

LEMMA ListsAreRanked ==
    ASSUME NEW list
    PROVE  list \in Lists <=> Ranked(list)
<1>1. ASSUME NEW S \in SUBSET Docs, list \in SetToSeqs(S)
      PROVE  Ranked(list)
  BY <1>1, FiniteDocs, Enumeration DEF Ranked
<1>2. ASSUME Ranked(list)
      PROVE  \E S \in SUBSET Docs : list \in SetToSeqs(S)
  <2> DEFINE n == Len(list)
             S == {list[i] : i \in 1..n}
  <2>1. n \in Nat /\ list \in [1..n -> Docs] /\ \A i, j \in 1..n : list[i] = list[j] => i = j
    BY <1>2 DEF Ranked, Distinct
  <2> HIDE DEF n
  <2>2. S \in SUBSET Docs
    BY <2>1
  <2>3. list \in [1..n -> S]
    BY <2>1
  <2>4. list \in Bijection(1..n, S)
    BY <2>1, <2>3 DEF Bijection, Injection, Surjection, IsInjective
  <2>5. Cardinality(S) = n
    <3>1. ExistsBijection(1..n, S)
      BY <2>4 DEF ExistsBijection
    <3> HIDE DEF S
    <3> QED
      BY <2>1, <3>1, FS_CountingElements
  <2> HIDE DEF S
  <2>6. list \in SetToSeqs(S)
    BY <2>1, <2>3, <2>5 DEF SetToSeqs
  <2> QED
    BY <2>2, <2>6
<1> QED
  BY <1>1, <1>2 DEF Lists, SetToAllKPermutations

----------------------------------------------------------------------------
(* Sorting *)

StrictOrder(R, S) ==
    /\ \A d \in S : <<d, d>> \notin R
    /\ \A d, e, f \in S : <<d, e>> \in R /\ <<e, f>> \in R => <<d, f>> \in R
    /\ \A d, e \in S : d = e \/ <<d, e>> \in R \/ <<e, d>> \in R

Ordered(s, R) == \A i, j \in DOMAIN s : i < j => <<s[i], s[j]>> \in R

(* A finite set has an enumeration in any strict order: a document comes   *)
(* at the place that is the number of those up to it.                      *)
LEMMA SortedExists ==
    ASSUME NEW S, IsFiniteSet(S), NEW R, StrictOrder(R, S)
    PROVE  \E s \in SetToSeqs(S) : Ordered(s, R)
<1> DEFINE n == Cardinality(S)
           UpTo(d) == {e \in S : e = d \/ <<e, d>> \in R}
           place == [d \in S |-> Cardinality(UpTo(d))]
<1>1. n \in Nat
  BY FS_CardinalityType
<1>2. ASSUME NEW d \in S
      PROVE  /\ IsFiniteSet(UpTo(d)) /\ Cardinality(UpTo(d)) \in Nat
             /\ Cardinality(UpTo(d)) <= n /\ Cardinality(UpTo(d)) # 0
  <2>1. UpTo(d) \in SUBSET S /\ UpTo(d) # {}
    OBVIOUS
  <2> HIDE DEF UpTo
  <2> QED
    BY <2>1, FS_Subset, FS_CardinalityType, FS_EmptySet
<1>3. place \in [S -> 1..n]
  BY <1>1, <1>2
<1>4. ASSUME NEW d \in S, NEW e \in S, <<d, e>> \in R
      PROVE  place[d] < place[e]
  <2>1. UpTo(d) \in SUBSET UpTo(e) /\ e \in UpTo(e) /\ e \notin UpTo(d)
    BY <1>4 DEF StrictOrder
  <2>2. place[d] = Cardinality(UpTo(d)) /\ place[e] = Cardinality(UpTo(e))
    OBVIOUS
  <2>3. IsFiniteSet(UpTo(e)) /\ Cardinality(UpTo(d)) \in Nat /\ Cardinality(UpTo(e)) \in Nat
    BY <1>2
  <2> HIDE DEF UpTo, place
  <2>4. Cardinality(UpTo(d)) <= Cardinality(UpTo(e)) /\ Cardinality(UpTo(d)) # Cardinality(UpTo(e))
    BY <2>1, <2>3, FS_Subset
  <2> QED
    BY <2>2, <2>3, <2>4
<1> HIDE DEF UpTo, place, n
<1>5. \A d, e \in S : place[d] = place[e] => d = e
  <2>1. ASSUME NEW d \in S, NEW e \in S, place[d] = place[e], d # e PROVE FALSE
    <3>1. place[d] < place[e] \/ place[e] < place[d]
      BY <1>4, <2>1 DEF StrictOrder
    <3>2. place[d] \in Nat /\ place[e] \in Nat
      BY <1>1, <1>3
    <3> QED
      BY <2>1, <3>1, <3>2
  <2> QED
    BY <2>1
<1>6. place \in Surjection(S, 1..n)
  <2>1. place \in Injection(S, 1..n)
    BY <1>3, <1>5 DEF Injection, IsInjective
  <2>2. IsFiniteSet(1..n) /\ Cardinality(1..n) = n
    BY <1>1, FS_Interval
  <2> QED
    BY <2>1, <2>2, FS_Injection DEF n
<1>7. \A k \in 1..n : \E d \in S : place[d] = k
  BY <1>6 DEF Surjection
<1> DEFINE s == [k \in 1..n |-> CHOOSE d \in S : place[d] = k]
<1>8. \A k \in 1..n : s[k] \in S /\ place[s[k]] = k
  BY <1>7
<1>9. s \in [1..n -> S] /\ DOMAIN s = 1..n
  BY <1>8
<1> HIDE DEF s
<1>10. s \in SetToSeqs(S)
  <2>1. \A i, j \in 1..n : i # j => s[i] # s[j]
    BY <1>8
  <2> QED
    BY <1>9, <2>1 DEF SetToSeqs, n
<1>11. ASSUME NEW i \in 1..n, NEW j \in 1..n, i < j
       PROVE  <<s[i], s[j]>> \in R
  <2>1. s[i] \in S /\ s[j] \in S /\ place[s[i]] = i /\ place[s[j]] = j
    BY <1>8
  <2>2. i \in Nat /\ j \in Nat /\ i # j /\ ~(j < i)
    BY <1>1, <1>11
  <2>3. s[i] # s[j]
    BY <2>1, <2>2
  <2>4. <<s[j], s[i]>> \notin R
    BY <1>4, <2>1, <2>2
  <2> QED
    BY <2>1, <2>3, <2>4 DEF StrictOrder
<1> QED
  BY <1>9, <1>10, <1>11 DEF Ordered


----------------------------------------------------------------------------
(* Positions and scores *)

LEMMA PositionIs ==
    ASSUME NEW T, NEW list \in Seq(T), NEW d
    PROVE  /\ Position(list, d) \in Nat
           /\ Contains(list, d) => /\ Position(list, d) \in 1..Len(list)
                                   /\ list[Position(list, d)] = d
                                   /\ \A i \in 1..Len(list) : list[i] = d => Position(list, d) <= i
           /\ ~Contains(list, d) => Position(list, d) = 0
<1> DEFINE I == {i \in 1..Len(list) : list[i] = d}
<1>1. Len(list) \in Nat /\ I \in SUBSET Nat
  OBVIOUS
<1>2. Position(list, d) = IF I # {} THEN CHOOSE i \in I : \A j \in I : i <= j ELSE 0
  BY DEF Position, SelectInSeq, Min
<1>3. Contains(list, d) <=> I # {}
  BY DEF Contains
<1>4. CASE I # {}
  <2> HIDE DEF I
  <2>1. \E i \in I : \A j \in I : i <= j
    BY <1>1, <1>4, LeastNumber
  <2>2. Position(list, d) \in I /\ \A j \in I : Position(list, d) <= j
    BY <1>2, <1>4, <2>1
  <2> QED
    BY <1>1, <1>3, <1>4, <2>2 DEF I
<1>5. CASE I = {}
  BY <1>2, <1>3, <1>5
<1> QED
  BY <1>4, <1>5

(* In a list without repetition, a place tells the position.               *)
LEMMA PositionAt ==
    ASSUME NEW T, NEW list \in Seq(T), Distinct(list), NEW i \in 1..Len(list)
    PROVE  Contains(list, list[i]) /\ Position(list, list[i]) = i
<1>1. Contains(list, list[i])
  BY DEF Contains
<1>2. Position(list, list[i]) \in 1..Len(list) /\ list[Position(list, list[i])] = list[i]
  BY <1>1, PositionIs
<1> QED
  BY <1>1, <1>2 DEF Distinct

(* The documents of two lists, and which of them is seen first.            *)
LEMMA JoinedLists ==
    ASSUME NEW l1, NEW l2, Ranked(l1), Ranked(l2)
    PROVE  /\ l1 \o l2 \in Seq(Docs)
           /\ ToSet(l1 \o l2) \in SUBSET Docs /\ IsFiniteSet(ToSet(l1 \o l2))
           /\ \A d : d \in ToSet(l1 \o l2) <=> Contains(l1, d) \/ Contains(l2, d)
           /\ \A d : d \in ToSet(l1 \o l2) <=> Contains(l1 \o l2, d)
<1>1. l1 \in Seq(Docs) /\ l2 \in Seq(Docs)
  BY DEF Ranked
<1> DEFINE l == l1 \o l2
<1>2. /\ l \in Seq(Docs) /\ Len(l) = Len(l1) + Len(l2) /\ DOMAIN l = 1..Len(l)
      /\ Len(l1) \in Nat /\ Len(l2) \in Nat
      /\ \A i \in 1..Len(l) : l[i] = IF i <= Len(l1) THEN l1[i] ELSE l2[i - Len(l1)]
  BY <1>1
<1>3. \A i \in 1..Len(l1) : i \in 1..Len(l) /\ l[i] = l1[i]
  BY <1>2
<1>4. \A i \in 1..Len(l2) : Len(l1) + i \in 1..Len(l) /\ l[Len(l1) + i] = l2[i]
  BY <1>2
<1>5. \A i \in 1..Len(l) : \/ i \in 1..Len(l1) /\ l[i] = l1[i]
                           \/ i - Len(l1) \in 1..Len(l2) /\ l[i] = l2[i - Len(l1)]
  BY <1>2
<1>6. \A i \in 1..Len(l) : l[i] \in Docs
  BY <1>2
<1> HIDE DEF l
<1>7. ToSet(l) = {l[i] : i \in 1..Len(l)}
  BY <1>2 DEF ToSet
<1>8. ToSet(l) \in SUBSET Docs
  BY <1>6, <1>7
<1>9. IsFiniteSet(ToSet(l))
  BY <1>8, FiniteDocs
<1>10. \A d : d \in ToSet(l) <=> Contains(l, d)
  BY <1>7 DEF Contains
<1>11. \A d : Contains(l, d) <=> Contains(l1, d) \/ Contains(l2, d)
  BY <1>3, <1>4, <1>5 DEF Contains
<1> QED
  BY <1>2, <1>8, <1>9, <1>10, <1>11 DEF l

(* Scores are fractions with a positive denominator.                       *)
LEMMA PartIs ==
    ASSUME NEW list, Ranked(list), NEW d
    PROVE  /\ Part(list, d)[1] \in {0, 1}
           /\ Part(list, d)[2] \in Nat \ {0}
           /\ Contains(list, d) => Part(list, d)[1] = 1 /\ Part(list, d)[2] = FusionK + Position(list, d)
           /\ ~Contains(list, d) => Part(list, d)[1] = 0
<1>1. list \in Seq(Docs) /\ FusionK \in Nat \ {0}
  BY FusionAssumption DEF Ranked
<1>2. Position(list, d) \in Nat
  BY <1>1, PositionIs
<1> QED
  BY <1>1, <1>2 DEF Part

LEMMA ScoreIs ==
    ASSUME NEW l1, NEW l2, Ranked(l1), Ranked(l2), NEW d
    PROVE  /\ Score(l1, l2, d) = <<Score(l1, l2, d)[1], Score(l1, l2, d)[2]>>
           /\ Score(l1, l2, d)[1] = Part(l1, d)[1] * Part(l2, d)[2] + Part(l2, d)[1] * Part(l1, d)[2]
           /\ Score(l1, l2, d)[2] = Part(l1, d)[2] * Part(l2, d)[2]
           /\ Score(l1, l2, d)[1] \in Nat
           /\ Score(l1, l2, d)[2] \in Nat \ {0}
<1> DEFINE p == Part(l1, d)
           q == Part(l2, d)
<1>1. p[1] \in Nat /\ p[2] \in Nat \ {0} /\ q[1] \in Nat /\ q[2] \in Nat \ {0}
  BY PartIs
<1>2. Score(l1, l2, d) = <<p[1] * q[2] + q[1] * p[2], p[2] * q[2]>>
  BY DEF Score
<1> HIDE DEF p, q
<1>3. ASSUME NEW a \in Nat, NEW x \in Nat \ {0}, NEW b \in Nat, NEW y \in Nat \ {0}
      PROVE  a * y + b * x \in Nat /\ x * y \in Nat \ {0}
  BY <1>3
<1>4. p[1] * q[2] + q[1] * p[2] \in Nat /\ p[2] * q[2] \in Nat \ {0}
  BY <1>1, <1>3
<1> QED
  BY <1>2, <1>4 DEF p, q

(* Fractions a/x, b/y and c/z compare as numbers do. *)
Transitive(a, x, b, y, c, z) ==
    /\ a * y > b * x /\ b * z >= c * y => a * z > c * x
    /\ a * y >= b * x /\ b * z > c * y => a * z > c * x
    /\ a * y = b * x /\ b * z = c * y => a * z = c * x

LEMMA Fractions ==
    ASSUME NEW a \in Nat, NEW b \in Nat, NEW c \in Nat,
           NEW x \in Nat \ {0}, NEW y \in Nat \ {0}, NEW z \in Nat \ {0}
    PROVE  Transitive(a, x, b, y, c, z)
<1>1. /\ (a * z) * y = (a * y) * z
      /\ (b * x) * z = (b * z) * x
      /\ (c * y) * x = (c * x) * y
      /\ a * y \in Nat /\ b * x \in Nat /\ b * z \in Nat /\ c * y \in Nat
      /\ a * z \in Nat /\ c * x \in Nat
  OBVIOUS
<1>2. ASSUME NEW m \in Nat, NEW n \in Nat, NEW w \in Nat \ {0}
      PROVE  /\ m > n <=> m * w > n * w
             /\ m >= n <=> m * w >= n * w
             /\ m = n <=> m * w = n * w
             /\ m * w \in Nat
  <2>1. m * w - n * w = (m - n) * w
    BY <1>2
  <2> QED
    BY <1>2, <2>1
<1>3. /\ a * y > b * x <=> (a * y) * z > (b * x) * z
      /\ a * y >= b * x <=> (a * y) * z >= (b * x) * z
      /\ a * y = b * x <=> (a * y) * z = (b * x) * z
      /\ b * z > c * y <=> (b * z) * x > (c * y) * x
      /\ b * z >= c * y <=> (b * z) * x >= (c * y) * x
      /\ b * z = c * y <=> (b * z) * x = (c * y) * x
      /\ a * z > c * x <=> (a * z) * y > (c * x) * y
      /\ a * z = c * x <=> (a * z) * y = (c * x) * y
      /\ (a * y) * z \in Nat /\ (b * x) * z \in Nat /\ (c * x) * y \in Nat
  BY <1>1, <1>2
<1> QED
  BY <1>1, <1>3 DEF Transitive


----------------------------------------------------------------------------
(* The orders of the two fusions are strict *)

LEMMA ByScore ==
    ASSUME NEW S, NEW num \in [S -> Nat], NEW den \in [S -> Nat \ {0}],
           NEW T, StrictOrder(T, S), NEW R,
           \A d, e \in S : <<d, e>> \in R <=>
               \/ num[d] * den[e] > num[e] * den[d]
               \/ num[d] * den[e] = num[e] * den[d] /\ <<d, e>> \in T
    PROVE  StrictOrder(R, S)
<1> DEFINE M(d, e) == num[d] * den[e]
<1>1. ASSUME NEW d \in S, NEW e \in S PROVE M(d, e) \in Nat
  <2>1. num[d] \in Nat /\ den[e] \in Nat
    OBVIOUS
  <2> QED
    BY <2>1
<1>2. ASSUME NEW d \in S, NEW e \in S, NEW f \in S
      PROVE  /\ M(d, e) > M(e, d) /\ M(e, f) >= M(f, e) => M(d, f) > M(f, d)
             /\ M(d, e) >= M(e, d) /\ M(e, f) > M(f, e) => M(d, f) > M(f, d)
             /\ M(d, e) = M(e, d) /\ M(e, f) = M(f, e) => M(d, f) = M(f, d)
  <2> DEFINE a == num[d]   x == den[d]
             b == num[e]   y == den[e]
             c == num[f]   z == den[f]
  <2>1. a \in Nat /\ b \in Nat /\ c \in Nat
        /\ x \in Nat \ {0} /\ y \in Nat \ {0} /\ z \in Nat \ {0}
    OBVIOUS
  <2>2. /\ M(d, e) = a * y /\ M(e, d) = b * x
        /\ M(e, f) = b * z /\ M(f, e) = c * y
        /\ M(d, f) = a * z /\ M(f, d) = c * x
    OBVIOUS
  <2> HIDE DEF a, b, c, x, y, z, M
  <2>3. Transitive(a, x, b, y, c, z)
    BY <2>1, Fractions
  <2> QED
    BY <2>2, <2>3 DEF Transitive
<1>3. \A d, e \in S : <<d, e>> \in R <=> M(d, e) > M(e, d) \/ (M(d, e) = M(e, d) /\ <<d, e>> \in T)
  OBVIOUS
<1> HIDE DEF M
<1>4. ASSUME NEW d \in S PROVE <<d, d>> \notin R
  <2>1. M(d, d) \in Nat /\ <<d, d>> \notin T
    BY <1>1 DEF StrictOrder
  <2>2. ~(M(d, d) > M(d, d))
    BY <2>1
  <2> QED
    BY <1>3, <2>1, <2>2
<1>5. ASSUME NEW d \in S, NEW e \in S, NEW f \in S, <<d, e>> \in R, <<e, f>> \in R
      PROVE  <<d, f>> \in R
  <2>1. M(d, e) \in Nat /\ M(e, d) \in Nat /\ M(e, f) \in Nat /\ M(f, e) \in Nat
    BY <1>1
  <2>2. M(d, e) > M(e, d) \/ (M(d, e) = M(e, d) /\ <<d, e>> \in T)
    BY <1>3, <1>5
  <2>3. M(e, f) > M(f, e) \/ (M(e, f) = M(f, e) /\ <<e, f>> \in T)
    BY <1>3, <1>5
  <2>4. <<d, e>> \in T /\ <<e, f>> \in T => <<d, f>> \in T
    BY DEF StrictOrder
  <2>5. M(d, f) > M(f, d) \/ (M(d, f) = M(f, d) /\ <<d, f>> \in T)
    BY <1>2, <2>1, <2>2, <2>3, <2>4
  <2> QED
    BY <1>3, <2>5
<1>6. ASSUME NEW d \in S, NEW e \in S, d # e
      PROVE  <<d, e>> \in R \/ <<e, d>> \in R
  <2>1. <<d, e>> \in T \/ <<e, d>> \in T
    BY <1>6 DEF StrictOrder
  <2>2. M(d, e) \in Nat /\ M(e, d) \in Nat
    BY <1>1
  <2>3. M(d, e) > M(e, d) \/ M(e, d) > M(d, e) \/ M(d, e) = M(e, d)
    BY <2>2
  <2> QED
    BY <1>3, <2>1, <2>3
<1> QED
  BY <1>4, <1>5, <1>6 DEF StrictOrder

LEMMA ScoreOrder ==
    ASSUME NEW l1, NEW l2, Ranked(l1), Ranked(l2), NEW S, NEW T, StrictOrder(T, S), NEW R,
           \A d, e \in S : <<d, e>> \in R <=>
               \/ Above(Score(l1, l2, d), Score(l1, l2, e))
               \/ Same(Score(l1, l2, d), Score(l1, l2, e)) /\ <<d, e>> \in T
    PROVE  StrictOrder(R, S)
<1> DEFINE num == [d \in S |-> Score(l1, l2, d)[1]]
           den == [d \in S |-> Score(l1, l2, d)[2]]
<1>1. num \in [S -> Nat] /\ den \in [S -> Nat \ {0}]
  BY ScoreIs
<1>2. \A d, e \in S :
         /\ Above(Score(l1, l2, d), Score(l1, l2, e)) <=> num[d] * den[e] > num[e] * den[d]
         /\ Same(Score(l1, l2, d), Score(l1, l2, e)) <=> num[d] * den[e] = num[e] * den[d]
  BY DEF Above, Same
<1> HIDE DEF num, den
<1>3. \A d, e \in S : <<d, e>> \in R <=>
         \/ num[d] * den[e] > num[e] * den[d]
         \/ num[d] * den[e] = num[e] * den[d] /\ <<d, e>> \in T
  BY <1>2, Zenon
<1> QED
  BY <1>1, <1>3, ByScore

LEMMA SeenOrder ==
    ASSUME NEW l1, NEW l2, Ranked(l1), Ranked(l2)
    PROVE  LET S == ToSet(l1 \o l2)
           IN StrictOrder({p \in S \X S : SeenBefore(l1, l2, p[1], p[2])}, S)
<1> DEFINE l == l1 \o l2
           S == ToSet(l)
           T == {p \in S \X S : SeenBefore(l1, l2, p[1], p[2])}
<1>1. \A d \in S : Position(l, d) \in Nat /\ l[Position(l, d)] = d
  BY JoinedLists, PositionIs
<1>2. \A d, e \in S : <<d, e>> \in T <=> Position(l, d) < Position(l, e)
  BY DEF SeenBefore
<1> HIDE DEF l, S, T
<1>3. StrictOrder(T, S)
  BY <1>1, <1>2 DEF StrictOrder
<1> QED
  BY <1>3 DEF l, S, T

LEMMA BestRankIs ==
    ASSUME NEW l1, NEW l2, Ranked(l1), Ranked(l2), NEW d, d \in ToSet(l1 \o l2)
    PROVE  BestRank(l1, l2, d) \in Nat
<1> DEFINE ranks == {Position(l1, d), Position(l2, d)} \ {0}
<1>1. Contains(l1, d) \/ Contains(l2, d)
  BY JoinedLists
<1>2. ranks \in SUBSET Nat /\ ranks # {}
  <2>1. l1 \in Seq(Docs) /\ l2 \in Seq(Docs)
    BY DEF Ranked
  <2>2. \A i \in 1..Len(l1) : i # 0
    BY <2>1
  <2>3. \A i \in 1..Len(l2) : i # 0
    BY <2>1
  <2>4. Position(l1, d) \in Nat /\ Position(l2, d) \in Nat
    BY <2>1, PositionIs
  <2>5. Contains(l1, d) => Position(l1, d) # 0
    BY <2>1, <2>2, PositionIs
  <2>6. Contains(l2, d) => Position(l2, d) # 0
    BY <2>1, <2>3, PositionIs
  <2> QED
    BY <1>1, <2>4, <2>5, <2>6
<1>3. BestRank(l1, l2, d) = CHOOSE r \in ranks : \A q \in ranks : r <= q
  BY DEF BestRank
<1> HIDE DEF ranks
<1>4. \E r \in ranks : \A q \in ranks : r <= q
  BY <1>2, LeastNumber
<1> QED
  BY <1>2, <1>3, <1>4

LEMMA RankOrder ==
    ASSUME NEW S \in SUBSET Nat, NEW best \in [S -> Nat], NEW T,
           \A d, e \in S : <<d, e>> \in T <=> best[d] < best[e] \/ (best[d] = best[e] /\ d < e)
    PROVE  StrictOrder(T, S)
<1>1. \A d \in S : d \in Nat /\ best[d] \in Nat
  OBVIOUS
<1> QED
  BY <1>1 DEF StrictOrder

LEMMA RRFOrder ==
    ASSUME NEW l1, NEW l2, Ranked(l1), Ranked(l2)
    PROVE  LET S == ToSet(l1 \o l2)
           IN StrictOrder({p \in S \X S : RRFBefore(l1, l2, p[1], p[2])}, S)
<1> DEFINE S == ToSet(l1 \o l2)
           R == {p \in S \X S : RRFBefore(l1, l2, p[1], p[2])}
           T == {p \in S \X S : SeenBefore(l1, l2, p[1], p[2])}
<1>1. StrictOrder(T, S)
  BY SeenOrder
<1>2. \A d, e \in S : <<d, e>> \in T <=> SeenBefore(l1, l2, d, e)
  OBVIOUS
<1>3. \A d, e \in S : <<d, e>> \in R <=> RRFBefore(l1, l2, d, e)
  OBVIOUS
<1> HIDE DEF S, R, T
<1>4. \A d, e \in S : <<d, e>> \in R <=>
         \/ Above(Score(l1, l2, d), Score(l1, l2, e))
         \/ Same(Score(l1, l2, d), Score(l1, l2, e)) /\ <<d, e>> \in T
  BY <1>2, <1>3, Zenon DEF RRFBefore
<1>5. StrictOrder(R, S)
  BY <1>1, <1>4, ScoreOrder
<1> QED
  BY <1>5 DEF R, S

LEMMA LexicalOrder ==
    ASSUME NEW l1, NEW l2, Ranked(l1), Ranked(l2)
    PROVE  LET S == ToSet(l1 \o l2)
           IN StrictOrder({p \in S \X S : LexicalBefore(l1, l2, p[1], p[2])}, S)
<1> DEFINE S == ToSet(l1 \o l2)
           best == [d \in S |-> BestRank(l1, l2, d)]
           R == {p \in S \X S : LexicalBefore(l1, l2, p[1], p[2])}
           T == {p \in S \X S : best[p[1]] < best[p[2]] \/ (best[p[1]] = best[p[2]] /\ p[1] < p[2])}
<1>1. S \in SUBSET Nat
  <2>1. S \in SUBSET Docs
    BY JoinedLists
  <2>2. Docs \in SUBSET Nat
    BY DocsAssumption DEF Docs
  <2> QED
    BY <2>1, <2>2
<1>2. best \in [S -> Nat]
  BY BestRankIs
<1>3. \A d, e \in S : <<d, e>> \in T <=> best[d] < best[e] \/ (best[d] = best[e] /\ d < e)
  OBVIOUS
<1>4. \A d, e \in S : <<d, e>> \in R <=> LexicalBefore(l1, l2, d, e)
  OBVIOUS
<1>5. \A d \in S : best[d] = BestRank(l1, l2, d)
  OBVIOUS
<1> HIDE DEF S, best, R, T
<1>6. \A d, e \in S : <<d, e>> \in R <=>
         \/ Above(Score(l1, l2, d), Score(l1, l2, e))
         \/ Same(Score(l1, l2, d), Score(l1, l2, e)) /\ <<d, e>> \in T
  <2>1. ASSUME NEW d \in S, NEW e \in S
        PROVE  <<d, e>> \in R <=>
                 \/ Above(Score(l1, l2, d), Score(l1, l2, e))
                 \/ Same(Score(l1, l2, d), Score(l1, l2, e)) /\ <<d, e>> \in T
    <3>1. LexicalBefore(l1, l2, d, e) <=>
            \/ Above(Score(l1, l2, d), Score(l1, l2, e))
            \/ Same(Score(l1, l2, d), Score(l1, l2, e)) /\ best[d] < best[e]
            \/ Same(Score(l1, l2, d), Score(l1, l2, e)) /\ best[d] = best[e] /\ d < e
      BY <1>5, Zenon DEF LexicalBefore
    <3> QED
      BY <1>3, <1>4, <3>1, Zenon
  <2> QED
    BY <2>1
<1>7. StrictOrder(T, S)
  BY <1>1, <1>2, <1>3, RankOrder
<1>8. StrictOrder(R, S)
  BY <1>6, <1>7, ScoreOrder
<1> QED
  BY <1>8 DEF R, S

----------------------------------------------------------------------------
(* What the two fusions return *)

InOrderRRF(l1, l2, s) == \A i, j \in DOMAIN s : i < j => RRFBefore(l1, l2, s[i], s[j])
InOrderLexical(l1, l2, s) == \A i, j \in DOMAIN s : i < j => LexicalBefore(l1, l2, s[i], s[j])

LEMMA FuseRRFSorts ==
    ASSUME NEW l1, NEW l2, Ranked(l1), Ranked(l2), NEW k
    PROVE  \E s \in SetToSeqs(ToSet(l1 \o l2)) :
               InOrderRRF(l1, l2, s) /\ FuseRRF(l1, l2, k) = Head1(s, k)
<1> DEFINE S == ToSet(l1 \o l2)
           R == {p \in S \X S : RRFBefore(l1, l2, p[1], p[2])}
<1>1. StrictOrder(R, S)
  BY RRFOrder
<1>2. IsFiniteSet(S)
  BY JoinedLists
<1>3. \A d, e : <<d, e>> \in R => RRFBefore(l1, l2, d, e)
  OBVIOUS
<1> HIDE DEF R, S
<1>4. PICK t \in SetToSeqs(S) : Ordered(t, R)
  BY <1>1, <1>2, SortedExists
<1>5. \A i, j \in DOMAIN t : i < j => RRFBefore(l1, l2, t[i], t[j])
  BY <1>3, <1>4 DEF Ordered
<1> DEFINE s == CHOOSE u \in SetToSeqs(S) : \A i, j \in DOMAIN u : i < j => RRFBefore(l1, l2, u[i], u[j])
<1>6. s \in SetToSeqs(S) /\ \A i, j \in DOMAIN s : i < j => RRFBefore(l1, l2, s[i], s[j])
  BY <1>5
<1>7. FuseRRF(l1, l2, k) = Head1(s, k)
  BY DEF FuseRRF, Sorted, S
<1> HIDE DEF s
<1> QED
  BY <1>6, <1>7 DEF InOrderRRF, S

LEMMA FuseLexicalSorts ==
    ASSUME NEW l1, NEW l2, Ranked(l1), Ranked(l2), NEW k
    PROVE  \E s \in SetToSeqs(ToSet(l1 \o l2)) :
               InOrderLexical(l1, l2, s) /\ FuseLexical(l1, l2, k) = Head1(s, k)
<1> DEFINE S == ToSet(l1 \o l2)
           R == {p \in S \X S : LexicalBefore(l1, l2, p[1], p[2])}
<1>1. StrictOrder(R, S)
  BY LexicalOrder
<1>2. IsFiniteSet(S)
  BY JoinedLists
<1>3. \A d, e : <<d, e>> \in R => LexicalBefore(l1, l2, d, e)
  OBVIOUS
<1> HIDE DEF R, S
<1>4. PICK t \in SetToSeqs(S) : Ordered(t, R)
  BY <1>1, <1>2, SortedExists
<1>5. \A i, j \in DOMAIN t : i < j => LexicalBefore(l1, l2, t[i], t[j])
  BY <1>3, <1>4 DEF Ordered
<1> DEFINE s == CHOOSE u \in SetToSeqs(S) : \A i, j \in DOMAIN u : i < j => LexicalBefore(l1, l2, u[i], u[j])
<1>6. s \in SetToSeqs(S) /\ \A i, j \in DOMAIN s : i < j => LexicalBefore(l1, l2, s[i], s[j])
  BY <1>5
<1>7. FuseLexical(l1, l2, k) = Head1(s, k)
  BY DEF FuseLexical, Sorted, S
<1> HIDE DEF s
<1> QED
  BY <1>6, <1>7 DEF InOrderLexical, S


----------------------------------------------------------------------------
(* The cut *)

LEMMA CutIs ==
    ASSUME NEW T, NEW s \in Seq(T), NEW k \in Nat
    PROVE  /\ Head1(s, k) \in Seq(T)
           /\ Len(Head1(s, k)) = IF k < Len(s) THEN k ELSE Len(s)
           /\ Len(Head1(s, k)) <= k /\ Len(Head1(s, k)) <= Len(s)
           /\ \A i \in 1..Len(Head1(s, k)) : i \in 1..Len(s) /\ Head1(s, k)[i] = s[i]
<1> DEFINE n == IF k < Len(s) THEN k ELSE Len(s)
<1>1. Len(s) \in Nat /\ n \in Nat /\ n <= Len(s) /\ n <= k
  OBVIOUS
<1>2. Head1(s, k) = SubSeq(s, 1, n)
  BY DEF Head1
<1> HIDE DEF n
<1>3. SubSeq(s, 1, n) \in Seq(T) /\ Len(SubSeq(s, 1, n)) = n
      /\ \A i \in 1..n : SubSeq(s, 1, n)[i] = s[i]
  BY <1>1
<1>4. \A i \in 1..n : i \in 1..Len(s)
  BY <1>1
<1> QED
  BY <1>1, <1>2, <1>3, <1>4 DEF n

LEMMA CutRanked ==
    ASSUME NEW s, Ranked(s), NEW k \in Nat
    PROVE  Ranked(Head1(s, k))
<1>1. s \in Seq(Docs)
  BY DEF Ranked
<1>2. Head1(s, k) \in Seq(Docs)
  BY <1>1, CutIs
<1>3. Distinct(Head1(s, k))
  BY <1>1, CutIs DEF Distinct, Ranked
<1> QED
  BY <1>2, <1>3 DEF Ranked

(* What is in a cut list is so at its place in the whole list.             *)
LEMMA CutPosition ==
    ASSUME NEW s, Ranked(s), NEW k \in Nat, NEW i \in 1..Len(s)
    PROVE  /\ Contains(Head1(s, k), s[i]) <=> i <= Len(Head1(s, k))
           /\ Contains(Head1(s, k), s[i]) => Position(Head1(s, k), s[i]) = i
<1> DEFINE h == Head1(s, k)
<1>1. s \in Seq(Docs) /\ Distinct(s) /\ Len(s) \in Nat
  BY DEF Ranked
<1>2. h \in Seq(Docs) /\ Distinct(h) /\ Len(h) \in Nat
  <2>1. Ranked(h)
    BY CutRanked
  <2> HIDE DEF h
  <2> QED
    BY <2>1 DEF Ranked
<1>3. \A j \in 1..Len(h) : j \in 1..Len(s) /\ h[j] = s[j]
  BY <1>1, CutIs
<1> HIDE DEF h
<1>4. ASSUME Contains(h, s[i]) PROVE i <= Len(h)
  <2>1. PICK j \in 1..Len(h) : h[j] = s[i]
    BY <1>4 DEF Contains
  <2>2. j = i
    BY <1>1, <1>3, <2>1 DEF Distinct
  <2> QED
    BY <1>2, <2>2
<1>5. ASSUME i <= Len(h) PROVE Contains(h, s[i]) /\ Position(h, s[i]) = i
  <2>1. i \in 1..Len(h) /\ h[i] = s[i]
    BY <1>1, <1>2, <1>3, <1>5
  <2> QED
    BY <1>2, <2>1, PositionAt
<1> QED
  BY <1>4, <1>5 DEF h

LEMMA EnumerationRanked ==
    ASSUME NEW S \in SUBSET Docs, NEW s \in SetToSeqs(S)
    PROVE  Ranked(s)
<1>1. s \in Seq(S) /\ Distinct(s)
  BY FiniteDocs, Enumeration
<1> QED
  BY <1>1 DEF Ranked

LEMMA FusionsAreLists ==
    ASSUME NEW l1, NEW l2, Ranked(l1), Ranked(l2), NEW k \in Nat
    PROVE  /\ Ranked(FuseRRF(l1, l2, k)) /\ Len(FuseRRF(l1, l2, k)) <= k
           /\ Ranked(FuseLexical(l1, l2, k)) /\ Len(FuseLexical(l1, l2, k)) <= k
<1>1. ASSUME NEW s \in SetToSeqs(ToSet(l1 \o l2))
      PROVE  Ranked(Head1(s, k)) /\ Len(Head1(s, k)) <= k
  <2>1. Ranked(s)
    BY JoinedLists, EnumerationRanked
  <2>2. s \in Seq(Docs)
    BY <2>1 DEF Ranked
  <2> QED
    BY <2>1, <2>2, CutRanked, CutIs
<1> QED
  BY <1>1, FuseRRFSorts, FuseLexicalSorts

----------------------------------------------------------------------------
(* What is chosen by place *)

(* The places in K, in their order, and what list has there. *)
Places(K) == Sorted(K, <)
Picked(list, place) == [m \in DOMAIN place |-> list[place[m]]]

LEMMA AtPlacesIs ==
    ASSUME NEW n \in Nat, NEW K \in SUBSET (1..n)
    PROVE  /\ Places(K) \in SetToSeqs(K)
           /\ \A list : AtPlaces(list, K) = Picked(list, Places(K))
<1> DEFINE R == {p \in K \X K : p[1] < p[2]}
           P(s) == \A i, j \in DOMAIN s : i < j => s[i] < s[j]
<1>1. IsFiniteSet(K)
  <2>1. IsFiniteSet(1..n)
    BY FS_Interval
  <2> QED
    BY <2>1, FS_Subset
<1>2. StrictOrder(R, K)
  <2>1. \A d \in K : d \in Nat
    OBVIOUS
  <2>2. \A d, e \in K : <<d, e>> \in R <=> d < e
    OBVIOUS
  <2> HIDE DEF R
  <2> QED
    BY <2>1, <2>2 DEF StrictOrder
<1>3. \A d, e : <<d, e>> \in R => d < e
  OBVIOUS
<1> HIDE DEF R
<1>4. \E s \in SetToSeqs(K) : P(s)
  BY <1>1, <1>2, <1>3, SortedExists DEF Ordered
<1>5. Places(K) = CHOOSE s \in SetToSeqs(K) : P(s)
  BY DEF Places, Sorted
<1>6. Places(K) \in SetToSeqs(K)
  <2> HIDE DEF P
  <2> QED
    BY <1>4, <1>5
<1>7. \A list : AtPlaces(list, K) = Picked(list, Places(K))
  BY DEF AtPlaces, Places, Sorted, Picked
<1> QED
  BY <1>6, <1>7

LEMMA AtPlacesType ==
    ASSUME NEW S, NEW list \in Seq(S), NEW K \in SUBSET (1..Len(list))
    PROVE  AtPlaces(list, K) \in Seq(S)
<1> DEFINE place == Places(K)
           chosen == AtPlaces(list, K)
           n == Len(list)
<1>1. n \in Nat /\ \A k \in 1..n : list[k] \in S
  OBVIOUS
<1>2. place \in SetToSeqs(K) /\ chosen = [m \in DOMAIN place |-> list[place[m]]]
  <2>1. place \in SetToSeqs(K) /\ chosen = Picked(list, place)
    BY <1>1, AtPlacesIs
  <2> QED
    BY <2>1 DEF Picked
<1>3. IsFiniteSet(K)
  <2>1. K \in SUBSET (1..n)
    OBVIOUS
  <2> HIDE DEF n
  <2>2. IsFiniteSet(1..n)
    BY <1>1, FS_Interval
  <2> QED
    BY <2>1, <2>2, FS_Subset
<1> HIDE DEF place, chosen
<1>4. place \in Seq(K) /\ DOMAIN place = 1..Len(place)
  BY <1>2, <1>3, Enumeration
<1>5. \A m \in 1..Len(place) : list[place[m]] \in S
  <2>1. \A m \in 1..Len(place) : place[m] \in K
    BY <1>4
  <2>2. \A k \in K : k \in 1..n
    OBVIOUS
  <2> QED
    BY <1>1, <2>1, <2>2
<1>6. Len(place) \in Nat
  BY <1>4
<1>7. chosen \in Seq(S)
  BY <1>2, <1>4, <1>5, <1>6
<1> QED
  BY <1>7 DEF chosen

(* The reranker's answer to fused, with the results in broken out of range: *)
(* mapped back, it is what it meant.                                        *)
LEMMA MappedIsMeant ==
    ASSUME Ranked(fused), NEW order \in Seq(ToSet(fused)), NEW broken,
           NEW reply, reply = [k \in 1..Len(order) |->
                                  IF k \in broken THEN Len(fused) ELSE Position(fused, order[k]) - 1]
    PROVE  Mapped(reply) = AtPlaces(order, (1..Len(order)) \ broken)
<1> DEFINE K == (1..Len(order)) \ broken
           place == Places(K)
           known == AtPlaces(reply, K)
<1>1. /\ Len(order) \in Nat /\ DOMAIN order = 1..Len(order)
      /\ fused \in Seq(Docs) /\ Len(fused) \in Nat /\ DOMAIN fused = 1..Len(fused)
  BY DEF Ranked
<1>2. ASSUME NEW k \in 1..Len(order)
      PROVE  Position(fused, order[k]) \in 1..Len(fused) /\ fused[Position(fused, order[k])] = order[k]
  <2>1. order[k] \in ToSet(fused)
    OBVIOUS
  <2>2. Contains(fused, order[k])
    BY <1>1, <2>1 DEF ToSet, Contains
  <2> QED
    BY <1>1, <2>2, PositionIs
<1>3. DOMAIN reply = 1..Len(order)
  OBVIOUS
<1>4. {k \in DOMAIN reply : reply[k] \in 0..(Len(fused) - 1)} = K
  <2>1. ASSUME NEW k \in 1..Len(order), k \in broken PROVE reply[k] \notin 0..(Len(fused) - 1)
    BY <1>1, <2>1
  <2>2. ASSUME NEW k \in 1..Len(order), k \notin broken PROVE reply[k] \in 0..(Len(fused) - 1)
    <3>1. reply[k] = Position(fused, order[k]) - 1
      BY <2>2
    <3> HIDE DEF K
    <3> QED
      BY <1>1, <1>2, <3>1
  <2> QED
    BY <1>3, <2>1, <2>2
<1>5. Mapped(reply) = [m \in DOMAIN known |-> fused[known[m] + 1]]
  BY <1>4 DEF Mapped
<1>6. /\ place \in SetToSeqs(K)
      /\ known = [m \in DOMAIN place |-> reply[place[m]]]
      /\ AtPlaces(order, K) = [m \in DOMAIN place |-> order[place[m]]]
  <2>1. K \in SUBSET (1..Len(order))
    OBVIOUS
  <2> HIDE DEF K
  <2>2. /\ Places(K) \in SetToSeqs(K) /\ AtPlaces(reply, K) = Picked(reply, Places(K))
        /\ AtPlaces(order, K) = Picked(order, Places(K))
    BY <1>1, <2>1, AtPlacesIs
  <2> QED
    BY <2>2 DEF Picked
<1>7. ASSUME NEW k \in K PROVE fused[reply[k] + 1] = order[k]
  <2>1. reply[k] = Position(fused, order[k]) - 1 /\ k \in 1..Len(order)
    OBVIOUS
  <2>2. reply[k] + 1 = Position(fused, order[k])
    BY <1>1, <1>2, <2>1
  <2> QED
    BY <1>2, <2>1, <2>2
<1>8. \A m \in DOMAIN place : place[m] \in K
  <2>1. place \in [1..Cardinality(K) -> K]
    BY <1>6 DEF SetToSeqs
  <2> HIDE DEF place, K
  <2> QED
    BY <2>1
<1> HIDE DEF K, place, known
<1>9. /\ DOMAIN known = DOMAIN place
      /\ \A m \in DOMAIN place : known[m] = reply[place[m]]
  BY <1>6
<1>10. \A m \in DOMAIN place : fused[known[m] + 1] = order[place[m]]
  BY <1>7, <1>8, <1>9
<1>11. Mapped(reply) = [m \in DOMAIN place |-> order[place[m]]]
  BY <1>5, <1>9, <1>10
<1> QED
  BY <1>6, <1>11 DEF K


----------------------------------------------------------------------------
(* Agreement, and what a cut drops *)

(* A fraction that is greater stays so when one that is not less is added. *)
LEMMA AddFractions ==
    ASSUME NEW a \in Nat, NEW b \in Nat, NEW c \in Nat, NEW f \in Nat,
           NEW x \in Nat \ {0}, NEW y \in Nat \ {0}, NEW z \in Nat \ {0}, NEW w \in Nat \ {0}
    PROVE  /\ a * z > c * x /\ b * w >= f * y =>
                  (a * y + b * x) * (z * w) > (c * w + f * z) * (x * y)
           /\ a * z >= c * x /\ b * w > f * y =>
                  (a * y + b * x) * (z * w) > (c * w + f * z) * (x * y)
<1>1. /\ (a * y + b * x) * (z * w) = (a * z) * (y * w) + (b * w) * (x * z)
      /\ (c * w + f * z) * (x * y) = (c * x) * (y * w) + (f * y) * (x * z)
  OBVIOUS
<1>2. /\ a * z \in Nat /\ c * x \in Nat /\ b * w \in Nat /\ f * y \in Nat
      /\ y * w \in Nat \ {0} /\ x * z \in Nat \ {0}
  OBVIOUS
<1>3. ASSUME NEW m \in Nat, NEW n \in Nat, NEW v \in Nat \ {0}
      PROVE  /\ m > n => m * v > n * v
             /\ m >= n => m * v >= n * v
             /\ m * v \in Nat
  <2>1. m * v - n * v = (m - n) * v
    BY <1>3
  <2> QED
    BY <1>3, <2>1
<1>4. /\ a * z > c * x => (a * z) * (y * w) > (c * x) * (y * w)
      /\ a * z >= c * x => (a * z) * (y * w) >= (c * x) * (y * w)
      /\ b * w > f * y => (b * w) * (x * z) > (f * y) * (x * z)
      /\ b * w >= f * y => (b * w) * (x * z) >= (f * y) * (x * z)
      /\ (a * z) * (y * w) \in Nat /\ (c * x) * (y * w) \in Nat
      /\ (b * w) * (x * z) \in Nat /\ (f * y) * (x * z) \in Nat
  BY <1>2, <1>3
<1> QED
  BY <1>1, <1>4

LEMMA PartGrows ==
    ASSUME NEW list, Ranked(list), NEW d, NEW e
    PROVE  /\ Ahead(list, d, e) => Part(list, d)[1] * Part(list, e)[2] > Part(list, e)[1] * Part(list, d)[2]
           /\ NotBehind(list, d, e) => Part(list, d)[1] * Part(list, e)[2] >= Part(list, e)[1] * Part(list, d)[2]
<1> DEFINE p == Part(list, d)
           q == Part(list, e)
<1>1. list \in Seq(Docs) /\ FusionK \in Nat
  BY FusionAssumption DEF Ranked
<1>2. Position(list, d) \in Nat /\ Position(list, e) \in Nat
  BY <1>1, PositionIs
<1>3. /\ p[1] \in {0, 1} /\ p[2] \in Nat \ {0} /\ q[1] \in {0, 1} /\ q[2] \in Nat \ {0}
      /\ Contains(list, d) => p[1] = 1 /\ p[2] = FusionK + Position(list, d)
      /\ Contains(list, e) => q[1] = 1 /\ q[2] = FusionK + Position(list, e)
      /\ ~Contains(list, d) => p[1] = 0
      /\ ~Contains(list, e) => q[1] = 0
  BY PartIs
<1> HIDE DEF p, q
<1>4. /\ p[1] = 1 => p[1] * q[2] = q[2]
      /\ p[1] = 0 => p[1] * q[2] = 0
      /\ q[1] = 1 => q[1] * p[2] = p[2]
      /\ q[1] = 0 => q[1] * p[2] = 0
  BY <1>3
<1>5. Ahead(list, d, e) => p[1] * q[2] > q[1] * p[2]
  BY <1>1, <1>2, <1>3, <1>4 DEF Ahead
<1>6. ~Contains(list, d) /\ ~Contains(list, e) => p[1] * q[2] = q[1] * p[2] /\ p[1] * q[2] = 0
  BY <1>3, <1>4
<1>7. NotBehind(list, d, e) => p[1] * q[2] >= q[1] * p[2]
  <2>1. CASE Ahead(list, d, e)
    <3>1. p[1] * q[2] \in Nat /\ q[1] * p[2] \in Nat
      BY <1>3, <1>4
    <3> QED
      BY <1>5, <2>1, <3>1
  <2>2. CASE ~Contains(list, d) /\ ~Contains(list, e)
    BY <1>6, <2>2
  <2> QED
    BY <2>1, <2>2 DEF NotBehind
<1> QED
  BY <1>5, <1>7 DEF p, q

(* A document that the lists agree on scores more.                         *)
LEMMA AgreedScoresMore ==
    ASSUME NEW l1, NEW l2, Ranked(l1), Ranked(l2), NEW d, NEW e,
           \/ Ahead(l1, d, e) /\ NotBehind(l2, d, e)
           \/ NotBehind(l1, d, e) /\ Ahead(l2, d, e)
    PROVE  Above(Score(l1, l2, d), Score(l1, l2, e))
<1> DEFINE p == Part(l1, d)
           q == Part(l2, d)
           r == Part(l1, e)
           t == Part(l2, e)
<1>1. /\ p[1] \in Nat /\ p[2] \in Nat \ {0} /\ q[1] \in Nat /\ q[2] \in Nat \ {0}
      /\ r[1] \in Nat /\ r[2] \in Nat \ {0} /\ t[1] \in Nat /\ t[2] \in Nat \ {0}
  BY PartIs
<1>2. \/ p[1] * r[2] > r[1] * p[2] /\ q[1] * t[2] >= t[1] * q[2]
      \/ p[1] * r[2] >= r[1] * p[2] /\ q[1] * t[2] > t[1] * q[2]
  BY PartGrows, Zenon
<1>3. /\ Score(l1, l2, d) = <<p[1] * q[2] + q[1] * p[2], p[2] * q[2]>>
      /\ Score(l1, l2, e) = <<r[1] * t[2] + t[1] * r[2], r[2] * t[2]>>
  BY DEF Score
<1> HIDE DEF p, q, r, t
<1>4. (p[1] * q[2] + q[1] * p[2]) * (r[2] * t[2]) > (r[1] * t[2] + t[1] * r[2]) * (p[2] * q[2])
  BY <1>1, <1>2, AddFractions
<1> QED
  BY <1>3, <1>4 DEF Above

LEMMA AboveComesFirst ==
    ASSUME NEW l1, NEW l2, Ranked(l1), Ranked(l2),
           NEW s \in SetToSeqs(ToSet(l1 \o l2)), InOrderRRF(l1, l2, s),
           NEW i \in 1..Len(s), NEW j \in 1..Len(s),
           Above(Score(l1, l2, s[i]), Score(l1, l2, s[j]))
    PROVE  i < j
<1> DEFINE u == Score(l1, l2, s[i])
           v == Score(l1, l2, s[j])
<1>1. u[1] \in Nat /\ u[2] \in Nat \ {0} /\ v[1] \in Nat /\ v[2] \in Nat \ {0}
  BY ScoreIs
<1>2. Len(s) \in Nat /\ DOMAIN s = 1..Len(s)
  BY JoinedLists, Enumeration
<1>3. j < i => Above(v, u) \/ Same(v, u)
  BY <1>2 DEF InOrderRRF, RRFBefore
<1>4. (i = j => u = v) /\ Above(u, v)
  OBVIOUS
<1> HIDE DEF u, v
<1>5. u[1] * v[2] \in Int /\ v[1] * u[2] \in Int
  BY <1>1
<1>6. u[1] * v[2] > v[1] * u[2]
  BY <1>4 DEF Above
<1>7. ~(j < i)
  BY <1>3, <1>5, <1>6 DEF Above, Same
<1>8. i # j
  BY <1>4, <1>5, <1>6
<1> QED
  BY <1>2, <1>7, <1>8

(* Fusion keeps to what the two lists agree on.                            *)
LEMMA FusionKeepsAgreement ==
    ASSUME NEW l1, NEW l2, Ranked(l1), Ranked(l2), NEW k \in Nat, NEW d, NEW e,
           \/ Ahead(l1, d, e) /\ NotBehind(l2, d, e)
           \/ NotBehind(l1, d, e) /\ Ahead(l2, d, e)
    PROVE  NotBehind(FuseRRF(l1, l2, k), d, e)
<1> DEFINE S == ToSet(l1 \o l2)
<1>1. PICK s \in SetToSeqs(S) : InOrderRRF(l1, l2, s) /\ FuseRRF(l1, l2, k) = Head1(s, k)
  BY FuseRRFSorts
<1>2. Ranked(s)
  BY JoinedLists, EnumerationRanked
<1>3. d \in S
  BY JoinedLists DEF Ahead
<1>4. /\ s \in Seq(Docs) /\ Len(s) \in Nat
      /\ \A c \in S : \E i \in 1..Len(s) : s[i] = c
  <2>1. s \in Seq(Docs) /\ Len(s) \in Nat
    BY <1>2 DEF Ranked
  <2> QED
    BY <2>1, JoinedLists, Enumeration
<1> HIDE DEF S
<1>5. CASE Contains(Head1(s, k), e)
  <2>1. Len(Head1(s, k)) \in Nat /\ \A i \in 1..Len(Head1(s, k)) : i \in 1..Len(s) /\ Head1(s, k)[i] = s[i]
    BY <1>4, CutIs
  <2>2. PICK j \in 1..Len(s) : s[j] = e
    BY <1>5, <2>1 DEF Contains
  <2>3. PICK i \in 1..Len(s) : s[i] = d
    BY <1>3, <1>4
  <2>4. i < j
    BY <1>1, <2>2, <2>3, AgreedScoresMore, AboveComesFirst DEF S
  <2>5. j <= Len(Head1(s, k)) /\ Position(Head1(s, k), e) = j
    BY <1>2, <1>5, <2>2, CutPosition
  <2>6. i <= Len(Head1(s, k))
    BY <1>4, <2>1, <2>4, <2>5
  <2>7. Contains(Head1(s, k), d) /\ Position(Head1(s, k), d) = i
    BY <1>2, <2>3, <2>6, CutPosition
  <2>8. Ahead(Head1(s, k), d, e)
    BY <2>4, <2>5, <2>7 DEF Ahead
  <2> QED
    BY <1>1, <2>8 DEF NotBehind
<1>6. CASE ~Contains(Head1(s, k), e)
  BY <1>1, <1>6 DEF NotBehind, Ahead
<1> QED
  BY <1>5, <1>6

LEMMA CutDropsNoBetter ==
    ASSUME NEW l1, NEW l2, Ranked(l1), Ranked(l2), NEW k \in Nat,
           NEW d \in ToSet(FuseRRF(l1, l2, k)),
           NEW e \in ToSet(l1 \o l2) \ ToSet(FuseRRF(l1, l2, k))
    PROVE  ~Above(Score(l1, l2, e), Score(l1, l2, d))
<1> SUFFICES ASSUME Above(Score(l1, l2, e), Score(l1, l2, d)) PROVE FALSE
  OBVIOUS
<1> DEFINE S == ToSet(l1 \o l2)
<1>1. PICK s \in SetToSeqs(S) : InOrderRRF(l1, l2, s) /\ FuseRRF(l1, l2, k) = Head1(s, k)
  BY FuseRRFSorts
<1>2. Ranked(s)
  BY JoinedLists, EnumerationRanked
<1>3. s \in Seq(Docs) /\ Len(s) \in Nat
  BY <1>2 DEF Ranked
<1>4. /\ Head1(s, k) \in Seq(Docs) /\ Len(Head1(s, k)) \in Nat
      /\ DOMAIN Head1(s, k) = 1..Len(Head1(s, k))
      /\ \A i \in 1..Len(Head1(s, k)) : i \in 1..Len(s) /\ Head1(s, k)[i] = s[i]
  <2>1. Head1(s, k) \in Seq(Docs)
    BY <1>3, CutIs
  <2> QED
    BY <1>3, <2>1, CutIs
<1>5. PICK j \in 1..Len(s) : s[j] = d /\ j <= Len(Head1(s, k))
  <2>1. PICK j \in 1..Len(Head1(s, k)) : Head1(s, k)[j] = d
    BY <1>1, <1>4 DEF ToSet
  <2> QED
    BY <1>4, <2>1
<1>6. PICK i \in 1..Len(s) : s[i] = e
  <2>1. IsFiniteSet(S) /\ e \in S
    BY JoinedLists
  <2> HIDE DEF S
  <2> QED
    BY <2>1, Enumeration
<1>7. i < j
  BY <1>1, <1>5, <1>6, AboveComesFirst
<1>8. i \in 1..Len(Head1(s, k)) /\ Head1(s, k)[i] = e
  BY <1>3, <1>4, <1>5, <1>6, <1>7
<1>9. e \in ToSet(FuseRRF(l1, l2, k))
  BY <1>1, <1>4, <1>8 DEF ToSet
<1> QED
  BY <1>9

----------------------------------------------------------------------------
(* The fusion of the two lexical queries is symmetric *)

LEMMA SymmetricBefore ==
    ASSUME NEW l1, NEW l2, Ranked(l1), Ranked(l2), NEW d, NEW e
    PROVE  LexicalBefore(l1, l2, d, e) <=> LexicalBefore(l2, l1, d, e)
<1>1. ASSUME NEW c PROVE Score(l1, l2, c) = Score(l2, l1, c)
  <2> DEFINE p == Part(l1, c)
             q == Part(l2, c)
  <2>1. p[1] \in Nat /\ p[2] \in Nat /\ q[1] \in Nat /\ q[2] \in Nat
    BY PartIs
  <2>2. /\ Score(l1, l2, c) = <<p[1] * q[2] + q[1] * p[2], p[2] * q[2]>>
        /\ Score(l2, l1, c) = <<q[1] * p[2] + p[1] * q[2], q[2] * p[2]>>
    BY DEF Score
  <2> HIDE DEF p, q
  <2>3. p[1] * q[2] + q[1] * p[2] = q[1] * p[2] + p[1] * q[2] /\ p[2] * q[2] = q[2] * p[2]
    BY <2>1
  <2> QED
    BY <2>2, <2>3
<1>2. ASSUME NEW c PROVE BestRank(l1, l2, c) = BestRank(l2, l1, c)
  <2>1. {Position(l1, c), Position(l2, c)} \ {0} = {Position(l2, c), Position(l1, c)} \ {0}
    OBVIOUS
  <2> QED
    BY <2>1 DEF BestRank
<1> QED
  BY <1>1, <1>2 DEF LexicalBefore

LEMMA FusionSymmetric ==
    ASSUME NEW l1, NEW l2, Ranked(l1), Ranked(l2), NEW k
    PROVE  FuseLexical(l1, l2, k) = FuseLexical(l2, l1, k)
<1> DEFINE S == ToSet(l1 \o l2)
<1>1. S = ToSet(l2 \o l1)
  <2>1. \A d : d \in ToSet(l1 \o l2) <=> Contains(l1, d) \/ Contains(l2, d)
    BY JoinedLists
  <2>2. \A d : d \in ToSet(l2 \o l1) <=> Contains(l1, d) \/ Contains(l2, d)
    BY JoinedLists
  <2> QED
    BY <2>1, <2>2
<1>2. \A s : InOrderLexical(l1, l2, s) <=> InOrderLexical(l2, l1, s)
  BY SymmetricBefore DEF InOrderLexical
<1> HIDE DEF S
<1>3. (CHOOSE s \in SetToSeqs(S) : InOrderLexical(l1, l2, s))
      = (CHOOSE s \in SetToSeqs(S) : InOrderLexical(l2, l1, s))
  BY <1>2, Zenon
<1>4. FuseLexical(l1, l2, k) = Head1(CHOOSE s \in SetToSeqs(S) : InOrderLexical(l1, l2, s), k)
  BY DEF FuseLexical, Sorted, InOrderLexical, S
<1>5. FuseLexical(l2, l1, k) = Head1(CHOOSE s \in SetToSeqs(S) : InOrderLexical(l2, l1, s), k)
  BY <1>1 DEF FuseLexical, Sorted, InOrderLexical
<1> QED
  BY <1>3, <1>4, <1>5


----------------------------------------------------------------------------
(* The inductive invariant *)

Stages == {"vector", "primary", "fuzzy", "fuse", "rerank", "done", "failed"}
Wants == [lexical_top_k : Limits, rrf_top_k : Limits, rerank_top_n : Limits, use_fuzzy : BOOLEAN]

ShapeInv ==
    /\ stage \in Stages /\ want \in Wants
    /\ Ranked(vector) /\ Ranked(primary) /\ Ranked(fuzzy) /\ Ranked(lexical)
    /\ Ranked(fused) /\ scored \in Seq(ToSet(fused)) /\ hits \in Seq(ToSet(fused))
    /\ Len(lexical) <= want.lexical_top_k
    /\ Len(fused) <= want.rrf_top_k
    /\ stage \in {"vector", "primary", "fuzzy"} => fuzzy = << >>
    /\ stage # "done" => scored = << >> /\ hits = << >>

(* What each stage has made of the lists of those before it.               *)
ResultInv ==
    /\ stage = "fuse" /\ fuzzy # << >> => lexical = FuseLexical(primary, fuzzy, want.lexical_top_k)
    /\ stage = "rerank" => fused = FuseRRF(vector, lexical, want.rrf_top_k)
    /\ AnswerIsMeant

LEMMA RankingInit == Init => ShapeInv /\ ResultInv
<1> SUFFICES ASSUME Init PROVE ShapeInv /\ ResultInv
  OBVIOUS
<1>1. want \in Wants /\ stage = "vector"
  BY DEF Init, Wants
<1>2. want.lexical_top_k \in Nat /\ want.rrf_top_k \in Nat /\ want.rerank_top_n \in Nat
  BY <1>1, LimitsAssumption DEF Wants
<1>3. Ranked(<< >>) /\ Len(<< >>) = 0
  BY DEF Ranked, Distinct
<1> QED
  BY <1>1, <1>2, <1>3 DEF Init, ShapeInv, ResultInv, Stages, AnswerIsMeant

LEMMA WantIs ==
    ASSUME ShapeInv
    PROVE  want.lexical_top_k \in Nat /\ want.rrf_top_k \in Nat /\ want.rerank_top_n \in Nat
BY LimitsAssumption DEF ShapeInv, Wants

(* The head of the candidates. *)
LEMMA TopNIs ==
    ASSUME ShapeInv
    PROVE  Head1(fused, TopN) \in Seq(ToSet(fused))
<1> DEFINE h == Head1(fused, TopN)
<1>1. fused \in Seq(Docs) /\ Len(fused) \in Nat
  BY DEF ShapeInv, Ranked
<1>2. TopN \in Nat
  BY <1>1, WantIs DEF TopN
<1>3. /\ h \in Seq(Docs) /\ Len(h) \in Nat /\ Len(h) <= Len(fused)
      /\ \A i \in 1..Len(h) : h[i] = fused[i]
  BY <1>1, <1>2, CutIs
<1> HIDE DEF h
<1>4. \A i \in 1..Len(h) : h[i] \in ToSet(fused)
  <2>1. \A i \in 1..Len(fused) : fused[i] \in ToSet(fused)
    BY <1>1 DEF ToSet
  <2>2. \A i \in 1..Len(h) : i \in 1..Len(fused)
    BY <1>1, <1>3
  <2> QED
    BY <1>3, <2>1, <2>2
<1>5. h \in Seq(ToSet(fused))
  BY <1>3, <1>4
<1> QED
  BY <1>5 DEF h

LEMMA RankingStep ==
    ASSUME ShapeInv, ResultInv, [Next]_vars
    PROVE  ShapeInv' /\ ResultInv'
<1>1. CASE UNCHANGED vars
  BY <1>1 DEF vars, ShapeInv, ResultInv, AnswerIsMeant, TopN
<1>2. CASE FetchVector
  <2>1. Ranked(vector')
    BY <1>2, ListsAreRanked DEF FetchVector
  <2> QED
    BY <1>2, <2>1 DEF FetchVector, ShapeInv, ResultInv, Stages, AnswerIsMeant
<1>3. CASE SkipLexical
  BY <1>3 DEF SkipLexical, ShapeInv, ResultInv, Stages, AnswerIsMeant
<1>4. CASE FetchPrimary
  <2>1. PICK list \in Lists : /\ Len(list) <= want.lexical_top_k
                              /\ primary' = list
                              /\ IF want.use_fuzzy
                                 THEN stage' = "fuzzy" /\ UNCHANGED lexical
                                 ELSE stage' = "fuse" /\ lexical' = list
    BY <1>4 DEF FetchPrimary
  <2>2. Ranked(list)
    BY ListsAreRanked
  <2>3. Ranked(primary') /\ Ranked(lexical') /\ Len(lexical') <= want.lexical_top_k
    BY <2>1, <2>2 DEF ShapeInv
  <2>4. stage = "primary" /\ UNCHANGED <<want, vector, fuzzy, fused, scored, hits>>
    BY <1>4 DEF FetchPrimary
  <2>5. stage' \in {"fuzzy", "fuse"}
    BY <2>1
  <2> QED
    BY <2>3, <2>4, <2>5 DEF ShapeInv, ResultInv, Stages, AnswerIsMeant
<1>5. CASE FetchFuzzy
  <2>1. PICK list \in Lists : /\ fuzzy' = list
                              /\ lexical' = FuseLexical(primary, list, want.lexical_top_k)
    BY <1>5 DEF FetchFuzzy
  <2>2. Ranked(list) /\ Ranked(primary)
    BY ListsAreRanked DEF ShapeInv
  <2>3. Ranked(lexical') /\ Len(lexical') <= want.lexical_top_k
    BY <2>1, <2>2, WantIs, FusionsAreLists
  <2>4. stage = "fuzzy" /\ stage' = "fuse" /\ UNCHANGED <<want, vector, primary, fused, scored, hits>>
    BY <1>5 DEF FetchFuzzy
  <2> QED
    BY <2>1, <2>2, <2>3, <2>4 DEF ShapeInv, ResultInv, Stages, AnswerIsMeant
<1>6. CASE FetchFails
  BY <1>6 DEF FetchFails, ShapeInv, ResultInv, Stages, AnswerIsMeant
<1>7. CASE Fuse
  <2>1. fused' = FuseRRF(vector, lexical, want.rrf_top_k)
    BY <1>7 DEF Fuse
  <2>2. Ranked(fused') /\ Len(fused') <= want.rrf_top_k
    BY <2>1, WantIs, FusionsAreLists DEF ShapeInv
  <2>3. stage = "fuse" /\ stage' = "rerank"
        /\ UNCHANGED <<want, vector, primary, fuzzy, lexical, scored, hits>>
    BY <1>7 DEF Fuse
  <2> QED
    BY <2>1, <2>2, <2>3 DEF ShapeInv, ResultInv, Stages, AnswerIsMeant
<1>8. CASE Rerank
  <2>1. PICK order \in SeqOf(ToSet(fused), MaxReply), broken \in SUBSET (1..MaxReply) :
          /\ LET reply == [k \in 1..Len(order) |->
                             IF k \in broken THEN Len(fused) ELSE Position(fused, order[k]) - 1]
             IN hits' = IF Mapped(reply) = << >> THEN Head1(fused, TopN) ELSE Mapped(reply)
          /\ scored' = AtPlaces(order, (1..Len(order)) \ broken)
    BY <1>8 DEF Rerank
  <2>2. Ranked(fused) /\ order \in Seq(ToSet(fused))
    <3>1. PICK m \in 0..MaxReply : order \in [1..m -> ToSet(fused)]
      BY DEF SeqOf
    <3>2. m \in Nat
      BY ReplyAssumption
    <3> QED
      BY <3>1, <3>2 DEF ShapeInv
  <2>3. hits' = IF scored' = << >> THEN Head1(fused, TopN) ELSE scored'
    <3> DEFINE reply == [k \in 1..Len(order) |->
                           IF k \in broken THEN Len(fused) ELSE Position(fused, order[k]) - 1]
    <3>1. Mapped(reply) = AtPlaces(order, (1..Len(order)) \ broken)
      BY <2>1, <2>2, MappedIsMeant
    <3>2. hits' = IF Mapped(reply) = << >> THEN Head1(fused, TopN) ELSE Mapped(reply)
      BY <2>1
    <3> HIDE DEF reply
    <3> QED
      BY <2>1, <3>1, <3>2
  <2>4. scored' \in Seq(ToSet(fused))
    <3> DEFINE K == (1..Len(order)) \ broken
    <3>1. K \in SUBSET (1..Len(order))
      OBVIOUS
    <3>2. scored' = AtPlaces(order, K)
      BY <2>1
    <3> HIDE DEF K
    <3> QED
      BY <2>2, <3>1, <3>2, AtPlacesType
  <2>5. hits' \in Seq(ToSet(fused))
    BY <2>3, <2>4, TopNIs
  <2>6. stage = "rerank" /\ stage' = "done"
        /\ UNCHANGED <<want, vector, primary, fuzzy, lexical, fused>>
    BY <1>8 DEF Rerank
  <2>7. TopN' = TopN
    BY <2>6 DEF TopN
  <2> QED
    BY <2>3, <2>4, <2>5, <2>6, <2>7 DEF ShapeInv, ResultInv, Stages, AnswerIsMeant
<1>9. CASE RerankFails
  <2>1. /\ stage = "rerank" /\ stage' = "done" /\ hits' = Head1(fused, TopN)
        /\ UNCHANGED <<want, vector, primary, fuzzy, lexical, fused, scored>>
    BY <1>9 DEF RerankFails
  <2>2. hits' \in Seq(ToSet(fused))
    BY <2>1, TopNIs
  <2>3. TopN' = TopN
    BY <2>1 DEF TopN
  <2> QED
    BY <2>1, <2>2, <2>3 DEF ShapeInv, ResultInv, Stages, AnswerIsMeant
<1> QED
  BY <1>1, <1>2, <1>3, <1>4, <1>5, <1>6, <1>7, <1>8, <1>9 DEF Next

LEMMA RankingInvariant == Spec => [](ShapeInv /\ ResultInv)
<1>1. ShapeInv /\ ResultInv /\ [Next]_vars => (ShapeInv /\ ResultInv)'
  BY RankingStep
<1> QED
  BY RankingInit, <1>1, PTL DEF Spec

----------------------------------------------------------------------------
(* The theorems *)

(* No list up to the candidates names a document twice or is over its      *)
(* limit, and the answer is made of candidates, whatever the reranker says. *)
THEOREM TypeCorrect == Spec => []TypeOK
<1>1. ShapeInv => TypeOK
  BY ListsAreRanked DEF ShapeInv, Stages, TypeOK
<1> QED
  BY <1>1, RankingInvariant, PTL

(* Fusion keeps the order that the vector and the lexical branch agree on, *)
(* in what it returns and in what it cuts off, for any lists.              *)
THEOREM FusionsAgree == Spec => []FusionAgrees
<1>1. ShapeInv /\ ResultInv => FusionAgrees
  <2> SUFFICES ASSUME ShapeInv, ResultInv, stage = "rerank", NEW d \in Docs, NEW e \in Docs,
                      \/ Ahead(vector, d, e) /\ NotBehind(lexical, d, e)
                      \/ NotBehind(vector, d, e) /\ Ahead(lexical, d, e)
               PROVE  NotBehind(fused, d, e)
    BY DEF FusionAgrees
  <2>1. Ranked(vector) /\ Ranked(lexical) /\ want.rrf_top_k \in Nat
    BY WantIs DEF ShapeInv
  <2>2. fused = FuseRRF(vector, lexical, want.rrf_top_k)
    BY DEF ResultInv
  <2> QED
    BY <2>1, <2>2, FusionKeepsAgreement
<1> QED
  BY <1>1, RankingInvariant, PTL

(* The cut to rrf_top_k drops no document that scores more than one it     *)
(* keeps.                                                                  *)
THEOREM CutsKeepBest == Spec => []CutKeepsBest
<1>1. ShapeInv /\ ResultInv => CutKeepsBest
  <2> SUFFICES ASSUME ShapeInv, ResultInv, stage = "rerank",
                      NEW d \in ToSet(fused), NEW e \in ToSet(vector \o lexical) \ ToSet(fused)
               PROVE  ~Above(Score(vector, lexical, e), Score(vector, lexical, d))
    BY DEF CutKeepsBest
  <2>1. Ranked(vector) /\ Ranked(lexical) /\ want.rrf_top_k \in Nat
    BY WantIs DEF ShapeInv
  <2>2. fused = FuseRRF(vector, lexical, want.rrf_top_k)
    BY DEF ResultInv
  <2> QED
    BY <2>1, <2>2, CutDropsNoBetter
<1> QED
  BY <1>1, RankingInvariant, PTL

(* Which lexical query is called the first makes no difference.            *)
THEOREM LexicalIsSymmetric == Spec => []LexicalSymmetric
<1>1. ShapeInv /\ ResultInv => LexicalSymmetric
  BY FusionSymmetric DEF ShapeInv, ResultInv, LexicalSymmetric
<1> QED
  BY <1>1, RankingInvariant, PTL

(* The answer is what the reranker meant, whatever of its reply is broken. *)
THEOREM AnswersAreMeant == Spec => []AnswerIsMeant
<1>1. ResultInv => AnswerIsMeant
  BY DEF ResultInv
<1> QED
  BY <1>1, RankingInvariant, PTL
=============================================================================
