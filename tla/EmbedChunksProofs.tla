-------------------------- MODULE EmbedChunksProofs --------------------------
(***************************************************************************)
(* Theorems about EmbedChunks, for any texts, batches, answers of the      *)
(* service, connections, retries and errors: types, which vector each row  *)
(* gets, that no row is stored twice, and what interrupts a task.          *)
(***************************************************************************)
EXTENDS EmbedChunks, WellFoundedInduction, TLAPS

(* A batch has used up its retries exactly when it has given up. *)
CallsInv ==
    \A a \in Attempts, b \in Batches :
        IF call[a][b].pc = "gaveUp" THEN call[a][b].tries = MaxRetries + 1
        ELSE call[a][b].tries <= MaxRetries

(* What embed_in_chunks returned, and its count was right. *)
Returned ==
    /\ \A b \in Batches : call[attempt][b].pc = "answered"
    /\ vectors = Gathered
    /\ Len(vectors) = NTexts

(* The rows are those of the first texts, with the vectors at their        *)
(* positions; none before the insert.                                      *)
StoredInv ==
    /\ Len(stored) <= NTexts
    /\ \A k \in 1..Len(stored) : stored[k] = <<k, vectors[k]>>
    /\ chunk = "insert" => Len(stored) = at
    /\ chunk \in {"embed", "pause", "interrupted"} => stored = << >>
    /\ chunk = "insert" \/ stored # << >> => Returned

(* An attempt is repeated, or was the last one, because one of its batches *)
(* has used up its retries.                                                *)
Exhausted(a) == \E b \in Batches : call[a][b].tries = MaxRetries + 1
AttemptInv ==
    /\ chunk = "pause" => attempt <= ChunkRetries
    /\ chunk = "interrupted" => attempt = ChunkRetries + 1
    /\ chunk \in {"pause", "interrupted"} => raised = "retryable"
    /\ raised = "retryable" => Exhausted(attempt)
    /\ \A a \in Attempts : a < attempt => Exhausted(a)

Inv == TypeOK /\ CallsInv /\ StoredInv /\ AttemptInv

----------------------------------------------------------------------------
(* The places of the texts *)

LEMMA LeastNumber ==
    ASSUME NEW T \in SUBSET Nat, T # {}
    PROVE  \E x \in T : \A y \in T : x <= y
<1> DEFINE R == OpToRel(<, Nat)
<1>1. IsWellFoundedOn(R, Nat)
  BY NatLessThanWellFounded
<1>2. \A x, y \in Nat : <<y, x>> \in R <=> y < x
  BY DEF OpToRel
<1> HIDE DEF R
<1>3. PICK x \in T : \A y \in T : ~(<<y, x>> \in R)
  BY <1>1, WFMin
<1>4. ASSUME NEW y \in T
      PROVE  x <= y
  <2>1. x \in Nat /\ y \in Nat /\ ~(<<y, x>> \in R)
    BY <1>3
  <2>2. ~(y < x)
    BY <1>2, <2>1
  <2> QED
    BY <2>1, <2>2
<1> QED
  BY <1>4

(* The batches cut the texts into consecutive pieces. *)
LEMMA Pieces ==
    /\ Upto(0) = 0 /\ Upto(NBatches) = NTexts
    /\ \A b \in Batches : /\ Upto(b) \in 0..NTexts /\ Upto(b - 1) \in 0..NTexts
                          /\ Size(b) \in Nat /\ Upto(b) = Upto(b - 1) + Size(b)
<1>1. NTexts \in Nat /\ BatchSize \in Nat /\ NBatches \in Nat
  BY TextsAssumption, SizesAssumption, BatchesAssumption
<1>2. 0 * BatchSize = 0 /\ Upto(0) = 0
  BY <1>1 DEF Upto, Least
<1>3. Upto(NBatches) = NTexts
  <2> DEFINE n == NBatches * BatchSize
  <2>1. n \in Nat /\ NTexts <= n
    BY <1>1, BatchesAssumption
  <2> QED
    BY <1>1, <2>1 DEF Upto, Least
<1>4. ASSUME NEW b \in Batches
      PROVE  /\ Upto(b) \in 0..NTexts /\ Upto(b - 1) \in 0..NTexts
             /\ Size(b) \in Nat /\ Upto(b) = Upto(b - 1) + Size(b)
  <2> DEFINE m == b * BatchSize
             n == (b - 1) * BatchSize
  <2>1. b \in Nat /\ b - 1 \in Nat
    BY <1>1 DEF Batches
  <2>2. m = n + BatchSize /\ m \in Nat /\ n \in Nat
    BY <1>1, <2>1
  <2>3. Upto(b) = Least(m, NTexts) /\ Upto(b - 1) = Least(n, NTexts)
    BY DEF Upto
  <2> HIDE DEF m, n
  <2> QED
    BY <1>1, <2>2, <2>3 DEF Least, Size
<1> QED
  BY <1>2, <1>3, <1>4

(* f[n] is the first n of the sequences, one after the other. *)
Beginnings(f, s, n) ==
    /\ f[1] = s[1]
    /\ \A i \in 2..n : f[i] = f[i - 1] \o s[i]

LEMMA PrefixesExist ==
    ASSUME NEW T, NEW N \in Nat \ {0}, NEW s \in [1..N -> Seq(T)]
    PROVE  \E f \in [1..N -> Seq(T)] : Beginnings(f, s, N)
<1> DEFINE Missing == {n \in 1..N : ~ \E f \in [1..n -> Seq(T)] : Beginnings(f, s, n)}
<1>1. Missing = {}
  <2> SUFFICES ASSUME Missing # {}
               PROVE  FALSE
    OBVIOUS
  <2>1. PICK n \in Missing : \A m \in Missing : n <= m
    <3>1. Missing \in SUBSET Nat
      OBVIOUS
    <3> HIDE DEF Missing
    <3> QED
      BY <3>1, LeastNumber
  <2>2. n \in 1..N /\ n \in Nat
    OBVIOUS
  <2>3. CASE n = 1
    <3> DEFINE g == [i \in 1..1 |-> s[1]]
    <3>1. g \in [1..1 -> Seq(T)] /\ Beginnings(g, s, 1)
      BY DEF Beginnings
    <3> QED
      BY <2>3, <3>1
  <2>4. CASE n # 1
    <3>1. n - 1 \in 1..N /\ n - 1 \notin Missing
      <4>1. n - 1 \in 1..N /\ ~(n <= n - 1)
        BY <2>2, <2>4
      <4> HIDE DEF Missing
      <4> QED
        BY <2>1, <4>1
    <3>2. PICK f \in [1..(n - 1) -> Seq(T)] : Beginnings(f, s, n - 1)
      BY <3>1
    <3> DEFINE e == f[n - 1] \o s[n]
               g == [i \in 1..n |-> IF i = n THEN e ELSE f[i]]
    <3>3. e \in Seq(T) /\ f[n - 1] \in Seq(T)
      BY <2>2, <3>1
    <3> HIDE DEF e
    <3>4. g \in [1..n -> Seq(T)] /\ \A i \in 1..n : g[i] = IF i = n THEN e ELSE f[i]
      BY <3>3
    <3> HIDE DEF g
    <3>5. g[1] = s[1]
      BY <2>2, <2>4, <3>2, <3>4 DEF Beginnings
    <3>6. ASSUME NEW i \in 2..n
          PROVE  g[i] = g[i - 1] \o s[i]
      <4>1. CASE i = n
        <5>1. n \in 1..n /\ n - 1 \in 1..n /\ n - 1 # n
          BY <2>2, <2>4
        <5> QED
          BY <3>4, <4>1, <5>1 DEF e
      <4>2. CASE i # n
        <5>1. i \in 2..(n - 1) /\ i \in 1..n /\ i - 1 \in 1..n /\ i - 1 # n
          BY <2>2, <4>2
        <5> QED
          BY <3>2, <3>4, <4>2, <5>1 DEF Beginnings
      <4> QED
        BY <4>1, <4>2
    <3>7. Beginnings(g, s, n)
      BY <3>5, <3>6 DEF Beginnings
    <3> QED
      BY <3>4, <3>7
  <2> QED
    BY <2>3, <2>4
<1>2. N \notin Missing
  BY <1>1
<1> QED
  BY <1>2

Unfolded(f, s, N) == f = [i \in 1..N |-> IF i = 1 THEN s[i] ELSE f[i - 1] \o s[i]]

(* FlattenSeq is the last of them. *)
LEMMA Flattened ==
    ASSUME NEW T, NEW N \in Nat \ {0}, NEW s \in [1..N -> Seq(T)]
    PROVE  \E f \in [1..N -> Seq(T)] : Beginnings(f, s, N) /\ FlattenSeq(s) = f[N]
<1>1. PICK f \in [1..N -> Seq(T)] : Beginnings(f, s, N)
  BY PrefixesExist
<1>2. Unfolded(f, s, N)
  <2> DEFINE h == [i \in 1..N |-> IF i = 1 THEN s[i] ELSE f[i - 1] \o s[i]]
  <2>1. ASSUME NEW i \in 1..N
        PROVE  f[i] = h[i]
    <3>1. CASE i = 1
      BY <1>1, <3>1 DEF Beginnings
    <3>2. CASE i # 1
      <4>1. i \in 2..N
        BY <3>2
      <4> QED
        BY <1>1, <3>2, <4>1 DEF Beginnings
    <3> QED
      BY <3>1, <3>2
  <2>2. f = h
    BY <2>1
  <2> QED
    BY <2>2 DEF Unfolded
<1> DEFINE F == CHOOSE g : Unfolded(g, s, N)
<1>3. Unfolded(F, s, N)
  BY <1>2
<1>4. Len(s) = N
  OBVIOUS
<1>5. FlattenSeq(s) = F[N]
  BY <1>4 DEF FlattenSeq, Unfolded
<1> HIDE DEF F
<1>6. F[1] = s[1] /\ \A i \in 2..N : F[i] = F[i - 1] \o s[i]
  <2>1. \A i \in 1..N : F[i] = IF i = 1 THEN s[i] ELSE F[i - 1] \o s[i]
    BY <1>3 DEF Unfolded
  <2>2. ASSUME NEW i \in 2..N
        PROVE  i \in 1..N /\ i # 1
    OBVIOUS
  <2>3. 1 \in 1..N
    OBVIOUS
  <2> QED
    BY <2>1, <2>2, <2>3
<1> DEFINE Wrong == {i \in 1..N : F[i] # f[i]}
<1>7. Wrong = {}
  <2> SUFFICES ASSUME Wrong # {}
               PROVE  FALSE
    OBVIOUS
  <2>1. PICK i \in Wrong : \A j \in Wrong : i <= j
    <3>1. Wrong \in SUBSET Nat
      OBVIOUS
    <3> HIDE DEF Wrong
    <3> QED
      BY <3>1, LeastNumber
  <2>2. i # 1
    BY <1>1, <1>6 DEF Beginnings
  <2>3. i \in 2..N /\ i - 1 \in 1..N /\ i - 1 \notin Wrong
    BY <2>1, <2>2
  <2>4. F[i] = F[i - 1] \o s[i] /\ f[i] = f[i - 1] \o s[i] /\ F[i - 1] = f[i - 1]
    BY <1>1, <1>6, <2>3 DEF Beginnings
  <2> QED
    BY <2>4
<1>8. F[N] = f[N]
  <2>1. N \in 1..N
    OBVIOUS
  <2> QED
    BY <1>7, <2>1
<1> QED
  BY <1>1, <1>5, <1>8

----------------------------------------------------------------------------
(* What the batches of an attempt amount to *)

LEMMA GatheredParts ==
    ASSUME TypeOK, NBatches # 0
    PROVE  \E f \in [Batches -> Seq(0..NTexts)] :
               /\ Gathered = f[NBatches] /\ f[1] = call[attempt][1].reply
               /\ \A b \in 2..NBatches : f[b] = f[b - 1] \o call[attempt][b].reply
<1> DEFINE rs == [b \in Batches |-> call[attempt][b].reply]
<1>1. rs \in [1..NBatches -> Seq(0..NTexts)] /\ NBatches \in Nat \ {0}
  BY BatchesAssumption DEF TypeOK, CallType, Batches
<1>2. \A b \in 1..NBatches : rs[b] = call[attempt][b].reply
  BY DEF Batches
<1>3. Gathered = FlattenSeq(rs)
  BY DEF Gathered
<1> HIDE DEF rs
<1>4. PICK f \in [1..NBatches -> Seq(0..NTexts)] :
          Beginnings(f, rs, NBatches) /\ FlattenSeq(rs) = f[NBatches]
  BY <1>1, Flattened
<1>5. f[1] = call[attempt][1].reply
  BY <1>1, <1>2, <1>4 DEF Beginnings
<1>6. ASSUME NEW b \in 2..NBatches
      PROVE  f[b] = f[b - 1] \o call[attempt][b].reply
  <2>1. b \in 1..NBatches
    BY <1>1
  <2> QED
    BY <1>2, <1>4, <2>1 DEF Beginnings
<1> QED
  BY <1>3, <1>4, <1>5, <1>6 DEF Batches

LEMMA GatheredType ==
    ASSUME TypeOK
    PROVE  Gathered \in Seq(0..NTexts)
<1>1. CASE NBatches = 0
  <2> DEFINE rs == [b \in Batches |-> call[attempt][b].reply]
  <2>1. rs = << >>
    BY <1>1 DEF Batches
  <2>2. Gathered = << >>
    BY <2>1 DEF Gathered, FlattenSeq
  <2> QED
    BY <2>2
<1>2. CASE NBatches # 0
  <2>1. NBatches \in Batches
    BY <1>2, BatchesAssumption DEF Batches
  <2> QED
    BY <1>2, <2>1, GatheredParts
<1> QED
  BY <1>1, <1>2

(* The vectors s of the first n texts: never too few, never too many, and  *)
(* when there are just as many, each is at its place.                      *)
Placed(s, n) ==
    /\ (\A b \in Batches : ~Short(b)) => Len(s) >= n
    /\ (\A b \in Batches : ~Surplus(b)) => Len(s) <= n
    /\ Len(s) = n => \A k \in 1..n : s[k] = k

(* One more batch, answered in order. *)
LEMMA PlacedNext ==
    ASSUME TypeOK, NEW b \in Batches, NEW s \in Seq(0..NTexts), Placed(s, Upto(b - 1)),
           ~Scrambled(b), (\A c \in Batches : ~Short(c)) \/ (\A c \in Batches : ~Surplus(c))
    PROVE  Placed(s \o call[attempt][b].reply, Upto(b))
<1> DEFINE r == call[attempt][b].reply
           m == Upto(b - 1)
           z == Size(b)
<1>1. r \in Seq(0..NTexts) /\ Len(r) \in Nat /\ Len(s) \in Nat
  BY DEF TypeOK, CallType
<1>2. m \in Nat /\ z \in Nat /\ Upto(b) = m + z
  BY Pieces, TextsAssumption
<1>3. /\ (\A c \in Batches : ~Short(c)) => Len(s) >= m /\ Len(r) >= z
      /\ (\A c \in Batches : ~Surplus(c)) => Len(s) <= m /\ Len(r) <= z
      /\ Len(s) = m => \A k \in 1..m : s[k] = k
  BY <1>1, <1>2 DEF Placed, Short, Surplus
<1>4. \A i \in 1..Least(Len(r), z) : r[i] = m + i
  BY DEF Scrambled
<1>5. \A c \in Batches : Short(c) \in BOOLEAN /\ Surplus(c) \in BOOLEAN
  BY DEF Short, Surplus
<1> HIDE DEF r, m, z
<1>6. Len(s \o r) = Len(s) + Len(r)
  BY <1>1
<1>7. ASSUME Len(s \o r) = m + z, NEW k \in 1..(m + z)
      PROVE  (s \o r)[k] = k
  <2>1. Len(s) = m /\ Len(r) = z
    BY <1>1, <1>2, <1>3, <1>6, <1>7
  <2>2. CASE k <= m
    BY <1>1, <1>2, <1>3, <2>1, <2>2
  <2>3. CASE k > m
    <3>1. k - m \in 1..Least(Len(r), z) /\ m + (k - m) = k
      BY <1>2, <2>1, <2>3 DEF Least
    <3>2. (s \o r)[k] = r[k - m]
      BY <1>1, <1>2, <2>1, <2>3
    <3> QED
      BY <1>4, <3>1, <3>2
  <2>4. k <= m \/ k > m
    BY <1>2
  <2> QED
    BY <2>2, <2>3, <2>4
<1>8. /\ (\A c \in Batches : ~Short(c)) => Len(s \o r) >= m + z
      /\ (\A c \in Batches : ~Surplus(c)) => Len(s \o r) <= m + z
  BY <1>1, <1>2, <1>3, <1>6
<1>9. Placed(s \o r, m + z)
  BY <1>7, <1>8 DEF Placed
<1> QED
  BY <1>2, <1>9 DEF r

(* When the total is right, and the service neither mixes up the vectors   *)
(* of a batch nor answers one with too few and another with too many,      *)
(* every vector is at the place of its text.                               *)
LEMMA InPlace ==
    ASSUME TypeOK, Len(Gathered) = NTexts, \A b \in Batches : ~Scrambled(b),
           (\A b \in Batches : ~Short(b)) \/ (\A b \in Batches : ~Surplus(b))
    PROVE  \A k \in 1..NTexts : Gathered[k] = k
<1>1. CASE NBatches = 0
  BY <1>1, Pieces
<1>2. CASE NBatches # 0
  <2>1. PICK f \in [Batches -> Seq(0..NTexts)] :
            /\ Gathered = f[NBatches] /\ f[1] = call[attempt][1].reply
            /\ \A b \in 2..NBatches : f[b] = f[b - 1] \o call[attempt][b].reply
    BY <1>2, GatheredParts
  <2> DEFINE Wrong == {b \in Batches : ~Placed(f[b], Upto(b))}
  <2>2. Wrong = {}
    <3> SUFFICES ASSUME Wrong # {}
                 PROVE  FALSE
      OBVIOUS
    <3>1. PICK b \in Wrong : \A c \in Wrong : b <= c
      <4>1. Wrong \in SUBSET Nat
        BY DEF Batches
      <4> HIDE DEF Wrong
      <4> QED
        BY <4>1, LeastNumber
    <3>2. b \in Batches /\ b \in Nat /\ ~Placed(f[b], Upto(b))
      BY DEF Batches
    <3>3. CASE b = 1
      <4>1. << >> \in Seq(0..NTexts) /\ b - 1 = 0
        BY <3>3
      <4>2. Placed(<< >>, Upto(b - 1))
        BY <4>1, Pieces DEF Placed
      <4>3. Placed(<< >> \o call[attempt][b].reply, Upto(b))
        BY <3>2, <4>1, <4>2, PlacedNext
      <4>4. << >> \o call[attempt][b].reply = f[b]
        BY <2>1, <3>2, <3>3 DEF TypeOK, CallType
      <4> QED
        BY <3>2, <4>3, <4>4
    <3>4. CASE b # 1
      <4>1. b \in 2..NBatches /\ b - 1 \in Batches /\ ~(b <= b - 1)
        <5>1. b \in 1..NBatches /\ NBatches \in Nat
          BY <3>2, BatchesAssumption DEF Batches
        <5> HIDE DEF Wrong
        <5> QED
          BY <3>4, <5>1 DEF Batches
      <4>2. Placed(f[b - 1], Upto(b - 1))
        <5>1. b - 1 \notin Wrong
          <6> HIDE DEF Wrong
          <6> QED
            BY <3>1, <4>1
        <5> QED
          BY <4>1, <5>1
      <4>3. Placed(f[b - 1] \o call[attempt][b].reply, Upto(b))
        <5>1. f[b - 1] \in Seq(0..NTexts)
          BY <2>1, <4>1
        <5> QED
          BY <3>2, <4>2, <5>1, PlacedNext
      <4> QED
        BY <2>1, <3>2, <4>1, <4>3
    <3> QED
      BY <3>3, <3>4
  <2>3. NBatches \in Batches
    BY <1>2, BatchesAssumption DEF Batches
  <2>4. Placed(Gathered, NTexts)
    BY <2>1, <2>2, <2>3, Pieces
  <2> QED
    BY <2>4 DEF Placed
<1> QED
  BY <1>1, <1>2

----------------------------------------------------------------------------
(* The steps of a batch *)

(* One call changes, and the others stay as they are. *)
Sets(a, b, q) == call' = [call EXCEPT ![a] = [call[a] EXCEPT ![b] = q]]
OnlySets(a, b, q) ==
    /\ call' \in [Attempts -> [Batches -> CallType]] /\ call'[a][b] = q
    /\ \A c \in Attempts, d \in Batches : c # a \/ d # b => call'[c][d] = call[c][d]
LEMMA SetCall ==
    ASSUME TypeOK, NEW a \in Attempts, NEW b \in Batches, NEW q \in CallType, Sets(a, b, q)
    PROVE  OnlySets(a, b, q)
<1>1. [call[a] EXCEPT ![b] = q] \in [Batches -> CallType]
  BY DEF TypeOK
<1> QED
  BY <1>1 DEF TypeOK, Sets, OnlySets

(* What an attempt starts with. *)
LEMMA StartCall ==
    ASSUME TypeOK, attempt + 1 \in Attempts, call' = [call EXCEPT ![attempt + 1] = Started]
    PROVE  /\ call' \in [Attempts -> [Batches -> CallType]]
           /\ \A c \in Attempts \ {attempt + 1} : call'[c] = call[c]
           /\ \A d \in Batches : call'[attempt + 1][d].pc = "wait" /\ call'[attempt + 1][d].tries = 0
<1>1. Started \in [Batches -> CallType]
  BY RetriesAssumption DEF Started, CallType
<1>2. \A d \in Batches : Started[d].pc = "wait" /\ Started[d].tries = 0
  BY DEF Started
<1> HIDE DEF Started
<1>3. /\ call' \in [Attempts -> [Batches -> CallType]]
      /\ \A c \in Attempts \ {attempt + 1} : call'[c] = call[c]
      /\ call'[attempt + 1] = Started
  BY <1>1 DEF TypeOK
<1> QED
  BY <1>2, <1>3

(* What a call is after a step: it moves on, or fails once more.           *)
Went(a, b) ==
    \/ call'[a][b].pc # "gaveUp" /\ call'[a][b].tries = call[a][b].tries
    \/ /\ call'[a][b].pc = IF call[a][b].tries < MaxRetries THEN "sleep" ELSE "gaveUp"
       /\ call[a][b].tries <= MaxRetries /\ call'[a][b].tries = call[a][b].tries + 1

(* The steps of a batch, as the invariants see them. *)
CallMoved(a, b) ==
    /\ UNCHANGED <<chunk, attempt, vectors, at, stored>>
    /\ call' \in [Attempts -> [Batches -> CallType]]
    /\ \A c \in Attempts, d \in Batches : c # a \/ d # b => call'[c][d] = call[c][d]
    /\ call[a][b].pc \notin {"answered", "gaveUp"}
    /\ Went(a, b)
    /\ \/ raised' = raised
       \/ a = attempt /\ raised = "nothing" /\ raised' = "fatal"
       \/ /\ a = attempt /\ raised = "nothing" /\ raised' = "retryable"
          /\ call'[a][b].tries = MaxRetries + 1
    /\ errors' \in 0..MaxErrors

(* The texts of an answer are texts of the chunk, or none. *)
LEMMA TextsType ==
    ASSUME NEW b \in Batches, NEW r \in Replies
    PROVE  Texts(b, r) \in Seq(0..NTexts)
<1>1. r \in Seq(Nat)
  BY RepliesAssumption
<1>2. ASSUME NEW i \in DOMAIN r
      PROVE  (IF r[i] \in 1..Size(b) THEN Upto(b - 1) + r[i] ELSE 0) \in 0..NTexts
  <2>1. r[i] \in Nat
    BY <1>1
  <2>2. /\ Upto(b) \in 0..NTexts /\ Upto(b - 1) \in 0..NTexts
        /\ Size(b) \in Nat /\ Upto(b) = Upto(b - 1) + Size(b)
    BY Pieces
  <2> QED
    BY <2>1, <2>2, TextsAssumption
<1>3. DOMAIN r = 1..Len(r) /\ Len(r) \in Nat
  BY <1>1
<1> QED
  BY <1>2, <1>3 DEF Texts

LEMMA CallStepMoves ==
    ASSUME Inv, NEW a \in Attempts, NEW b \in Batches, CallStep(a, b)
    PROVE  CallMoved(a, b)
<1>1. TypeOK /\ CallsInv /\ call[a][b] \in CallType /\ errors \in 0..MaxErrors
  BY DEF Inv, TypeOK
<1>2. ASSUME NEW q \in CallType, Sets(a, b, q),
             q.pc # "gaveUp", q.tries = call[a][b].tries,
             raised' = raised \/ Raise(a, "fatal"),
             call[a][b].pc \notin {"answered", "gaveUp"},
             UNCHANGED <<chunk, attempt, vectors, at, stored, errors>>
      PROVE  CallMoved(a, b)
  <2>1. OnlySets(a, b, q)
    BY <1>1, <1>2, SetCall
  <2>2. raised' = raised \/ (a = attempt /\ raised = "nothing" /\ raised' = "fatal")
    BY <1>2 DEF Raise
  <2>3. Went(a, b)
    BY <1>2, <2>1 DEF Went, OnlySets
  <2> QED
    BY <1>1, <1>2, <2>1, <2>2, <2>3 DEF CallMoved, OnlySets
<1>3. ASSUME NEW p \in {"rejected", "pool", "request", "sleep"}, Move(a, b, p),
             raised' = raised \/ Raise(a, "fatal"),
             call[a][b].pc \notin {"answered", "gaveUp"},
             UNCHANGED <<chunk, attempt, vectors, at, stored, errors>>
      PROVE  CallMoved(a, b)
  <2> DEFINE q == [call[a][b] EXCEPT !.pc = p]
  <2>1. q \in CallType /\ q.pc = p /\ q.tries = call[a][b].tries
    BY <1>1 DEF CallType, Admitted
  <2>2. Sets(a, b, q)
    BY <1>3 DEF Move, Sets
  <2> HIDE DEF q
  <2> QED
    BY <1>2, <1>3, <2>1, <2>2
<1>4. CASE Admit(a, b)
  BY <1>3, <1>4 DEF Admit
<1>5. CASE Connect(a, b)
  BY <1>3, <1>5 DEF Connect
<1>6. CASE CallRejected(a, b)
  BY <1>3, <1>6 DEF CallRejected
<1>7. CASE WakeUp(a, b)
  BY <1>3, <1>7 DEF WakeUp
<1>8. CASE Answer(a, b)
  <2>1. PICK r \in Replies :
            call' = [call EXCEPT ![a][b] = [@ EXCEPT !.pc = "answered", !.reply = Texts(b, r)]]
    BY <1>8 DEF Answer
  <2> DEFINE v == Texts(b, r)
             q == [call[a][b] EXCEPT !.pc = "answered", !.reply = v]
  <2>2. v \in Seq(0..NTexts)
    BY TextsType
  <2>3. Sets(a, b, q)
    BY <2>1 DEF Sets
  <2> HIDE DEF v
  <2>4. q \in CallType /\ q.pc = "answered" /\ q.tries = call[a][b].tries
    BY <1>1, <2>2 DEF CallType, Admitted
  <2> HIDE DEF q
  <2> QED
    BY <1>2, <1>8, <2>3, <2>4 DEF Answer
<1>9. CASE CallFails(a, b)
  <2> DEFINE again == call[a][b].tries < MaxRetries
             q == [call[a][b] EXCEPT !.pc = IF again THEN "sleep" ELSE "gaveUp",
                                     !.tries = call[a][b].tries + 1]
  <2>1. call[a][b].pc \in {"pool", "request"} /\ errors' \in 0..MaxErrors
        /\ UNCHANGED <<chunk, attempt, vectors, at, stored>>
    BY <1>1, <1>9, ErrorsAssumption DEF CallFails
  <2>2. call[a][b].tries \in Nat /\ call[a][b].tries <= MaxRetries /\ MaxRetries \in Nat
    BY <1>1, <2>1, RetriesAssumption DEF CallType, CallsInv
  <2>3. /\ q \in CallType /\ q.tries = call[a][b].tries + 1
        /\ q.pc = IF again THEN "sleep" ELSE "gaveUp"
    <3>1. (IF again THEN "sleep" ELSE "gaveUp") \in {"sleep", "gaveUp"}
      OBVIOUS
    <3>2. call[a][b].tries + 1 \in 0..(MaxRetries + 1)
      BY <2>2
    <3> QED
      BY <1>1, <3>1, <3>2 DEF CallType, Admitted
  <2>4. Sets(a, b, q)
    BY <1>9 DEF CallFails, Sets
  <2> HIDE DEF q
  <2>5. OnlySets(a, b, q)
    BY <1>1, <2>3, <2>4, SetCall
  <2>6. Went(a, b)
    BY <2>2, <2>3, <2>5 DEF Went, OnlySets
  <2>7. \/ raised' = raised
        \/ /\ a = attempt /\ raised = "nothing" /\ raised' = "retryable"
           /\ call'[a][b].tries = MaxRetries + 1
    <3>1. CASE again
      BY <1>9, <3>1 DEF CallFails
    <3>2. CASE ~again
      <4>1. call[a][b].tries = MaxRetries
        BY <2>2, <3>2
      <4>2. Raise(a, "retryable")
        BY <1>9, <3>2 DEF CallFails
      <4>3. call'[a][b].tries = MaxRetries + 1
        BY <2>3, <2>5, <4>1 DEF OnlySets
      <4> QED
        BY <4>2, <4>3 DEF Raise
    <3> QED
      BY <3>1, <3>2
  <2> QED
    BY <2>1, <2>5, <2>6, <2>7 DEF CallMoved, OnlySets
<1> QED
  BY <1>4, <1>5, <1>6, <1>7, <1>8, <1>9 DEF CallStep

----------------------------------------------------------------------------
(* The invariant *)

LEMMA InvInit ==
    ASSUME Init
    PROVE  Inv
<1>1. 1 \in Attempts /\ Started \in [Batches -> CallType] /\ NotStarted \in [Batches -> CallType]
  BY RetriesAssumption DEF Attempts, Started, NotStarted, CallType
<1>2. /\ call \in [Attempts -> [Batches -> CallType]]
      /\ \A a \in Attempts, b \in Batches : call[a][b].pc \in {"wait", "none"} /\ call[a][b].tries = 0
  <2>1. \A b \in Batches : Started[b].pc = "wait" /\ Started[b].tries = 0
    BY DEF Started
  <2>2. \A b \in Batches : NotStarted[b].pc = "none" /\ NotStarted[b].tries = 0
    BY DEF NotStarted
  <2> HIDE DEF Started, NotStarted
  <2>3. call = [a \in Attempts |-> IF a = 1 THEN Started ELSE NotStarted]
    BY DEF Init
  <2> QED
    BY <1>1, <2>1, <2>2, <2>3
<1>3. TypeOK
  BY <1>1, <1>2, TextsAssumption, ErrorsAssumption DEF Init, TypeOK
<1>4. CallsInv
  BY <1>2, RetriesAssumption DEF CallsInv
<1>5. StoredInv
  BY TextsAssumption DEF Init, StoredInv
<1>6. AttemptInv
  BY <1>1 DEF Init, AttemptInv, Attempts
<1> QED
  BY <1>3, <1>4, <1>5, <1>6 DEF Inv

(* What an attempt returned stays, as long as its answered calls do.       *)
LEMMA GatheredStays ==
    ASSUME UNCHANGED attempt, \A b \in Batches : call'[attempt][b] = call[attempt][b]
    PROVE  Gathered' = Gathered
<1>1. [b \in Batches |-> call'[attempt'][b].reply] = [b \in Batches |-> call[attempt][b].reply]
  OBVIOUS
<1> QED
  BY <1>1 DEF Gathered

LEMMA ReturnedStays ==
    ASSUME Returned, UNCHANGED <<attempt, vectors>>,
           \A b \in Batches : call'[attempt][b] = call[attempt][b]
    PROVE  Returned'
<1>1. Gathered' = Gathered
  BY GatheredStays
<1> QED
  BY <1>1 DEF Returned

(* A batch that has used up its retries has nothing more to do. *)
LEMMA ExhaustedStays ==
    ASSUME Inv, NEW a \in Attempts, NEW b \in Batches, CallMoved(a, b),
           NEW c \in Attempts, Exhausted(c)
    PROVE  Exhausted(c)'
<1>1. PICK d \in Batches : call[c][d].tries = MaxRetries + 1
  BY DEF Exhausted
<1>2. call[c][d].pc = "gaveUp"
  BY <1>1, RetriesAssumption DEF Inv, CallsInv
<1>3. c # a \/ d # b
  BY <1>2 DEF CallMoved
<1>4. call'[c][d] = call[c][d]
  BY <1>3 DEF CallMoved
<1> QED
  BY <1>1, <1>4 DEF Exhausted

LEMMA InvCall ==
    ASSUME Inv, NEW a \in Attempts, NEW b \in Batches, CallMoved(a, b)
    PROVE  Inv'
<1>1. TypeOK'
  BY DEF Inv, TypeOK, CallMoved
<1>2. CallsInv'
  <2>1. IF call'[a][b].pc = "gaveUp" THEN call'[a][b].tries = MaxRetries + 1
        ELSE call'[a][b].tries <= MaxRetries
    <3>1. call[a][b].tries \in Nat /\ MaxRetries \in Nat /\ call[a][b].tries <= MaxRetries
      BY RetriesAssumption DEF Inv, TypeOK, CallMoved, CallType, CallsInv
    <3>2. CASE call'[a][b].pc # "gaveUp" /\ call'[a][b].tries = call[a][b].tries
      BY <3>1, <3>2
    <3>3. CASE /\ call'[a][b].pc = IF call[a][b].tries < MaxRetries THEN "sleep" ELSE "gaveUp"
               /\ call'[a][b].tries = call[a][b].tries + 1
      <4>1. CASE call[a][b].tries < MaxRetries
        BY <3>1, <3>3, <4>1
      <4>2. CASE call[a][b].tries = MaxRetries
        BY <3>1, <3>3, <4>2
      <4> QED
        BY <3>1, <4>1, <4>2
    <3> QED
      BY <3>2, <3>3 DEF CallMoved, Went
  <2>2. ASSUME NEW c \in Attempts, NEW d \in Batches, c # a \/ d # b
        PROVE  call'[c][d] = call[c][d]
    BY <2>2 DEF CallMoved
  <2> QED
    BY <2>1, <2>2 DEF Inv, CallsInv
<1>3. StoredInv'
  <2>1. ASSUME Returned
        PROVE  Returned'
    <3>1. a # attempt
      BY <2>1 DEF Returned, CallMoved
    <3>2. attempt \in Attempts /\ UNCHANGED <<attempt, vectors>>
      BY DEF Inv, TypeOK, CallMoved
    <3>3. \A d \in Batches : call'[attempt][d] = call[attempt][d]
      BY <3>1, <3>2 DEF CallMoved
    <3> QED
      BY <2>1, <3>2, <3>3, ReturnedStays
  <2> QED
    BY <2>1 DEF CallMoved, Inv, StoredInv
<1>4. AttemptInv'
  <2>1. attempt' = attempt /\ chunk' = chunk /\ attempt \in Attempts
    BY DEF CallMoved, Inv, TypeOK
  <2>2. ASSUME NEW c \in Attempts, Exhausted(c)
        PROVE  Exhausted(c)'
    BY <2>2, ExhaustedStays
  <2>3. raised' = "retryable" => Exhausted(attempt)'
    <3>1. CASE raised' = raised
      BY <2>1, <2>2, <3>1 DEF Inv, AttemptInv
    <3>2. CASE a = attempt /\ call'[a][b].tries = MaxRetries + 1
      BY <2>1, <3>2 DEF Exhausted
    <3> QED
      BY <3>1, <3>2 DEF CallMoved
  <2>4. \A c \in Attempts : c < attempt => Exhausted(c)'
    BY <2>2 DEF Inv, AttemptInv
  <2>5. raised = "retryable" => raised' = "retryable"
    BY DEF CallMoved
  <2> HIDE DEF Exhausted
  <2> QED
    BY <2>1, <2>3, <2>4, <2>5 DEF Inv, AttemptInv
<1> QED
  BY <1>1, <1>2, <1>3, <1>4 DEF Inv

(* A step of the chunk that leaves the calls alone. *)
Kept == UNCHANGED <<attempt, raised, call, errors>>
LEMMA KeptParts ==
    ASSUME Inv, Kept
    PROVE  /\ CallsInv' /\ (\A a \in Attempts : a < attempt' => Exhausted(a)')
           /\ raised' = "retryable" => Exhausted(attempt)'
           /\ Gathered' = Gathered
BY GatheredStays DEF Inv, CallsInv, AttemptInv, Exhausted, Kept

LEMMA InvGatherRaises ==
    ASSUME Inv, GatherRaises
    PROVE  Inv'
<1>1. chunk = "embed" /\ raised # "nothing" /\ attempt \in Attempts /\ Kept
      /\ UNCHANGED <<vectors, at, stored>> /\ stored = << >>
  BY DEF Inv, TypeOK, GatherRaises, Kept, StoredInv
<1>2. \/ chunk' = "failed"
      \/ chunk' = "pause" /\ raised = "retryable" /\ attempt <= ChunkRetries
      \/ chunk' = "interrupted" /\ raised = "retryable" /\ attempt = ChunkRetries + 1
  BY <1>1, RetriesAssumption DEF GatherRaises, Inv, TypeOK, Attempts
<1>3. TypeOK'
  BY <1>1, <1>2 DEF Inv, TypeOK, Ended, Kept
<1>4. StoredInv'
  BY <1>1, <1>2 DEF Inv, StoredInv
<1>5. AttemptInv'
  BY <1>1, <1>2, KeptParts DEF AttemptInv, Kept
<1> QED
  BY <1>1, <1>3, <1>4, <1>5, KeptParts DEF Inv

LEMMA InvNextAttempt ==
    ASSUME Inv, NextAttempt
    PROVE  Inv'
<1>1. /\ chunk = "pause" /\ chunk' = "embed" /\ raised' = "nothing" /\ attempt' = attempt + 1
      /\ UNCHANGED <<vectors, at, stored, errors>>
      /\ call' = [call EXCEPT ![attempt + 1] = Started]
  BY DEF NextAttempt
<1>2. attempt + 1 \in Attempts /\ attempt \in Attempts /\ attempt \in Nat
  BY <1>1, RetriesAssumption DEF Inv, TypeOK, AttemptInv, Attempts
<1>3. /\ call' \in [Attempts -> [Batches -> CallType]]
      /\ \A c \in Attempts \ {attempt + 1} : call'[c] = call[c]
      /\ \A d \in Batches : call'[attempt + 1][d].pc = "wait" /\ call'[attempt + 1][d].tries = 0
  BY <1>1, <1>2, StartCall DEF Inv
<1>4. TypeOK'
  BY <1>1, <1>2, <1>3 DEF Inv, TypeOK
<1>5. CallsInv'
  BY <1>3, RetriesAssumption DEF Inv, CallsInv
<1>6. StoredInv'
  BY <1>1, TextsAssumption DEF Inv, StoredInv
<1>7. ASSUME NEW c \in Attempts, c < attempt + 1
      PROVE  Exhausted(c)'
  <2>1. Exhausted(c)
    <3>1. c \in Nat
      BY DEF Attempts
    <3>2. CASE c = attempt
      BY <1>1, <3>2 DEF Inv, AttemptInv
    <3>3. CASE c < attempt
      BY <3>3 DEF Inv, AttemptInv
    <3> QED
      BY <1>2, <1>7, <3>1, <3>2, <3>3
  <2>2. c # attempt + 1
    BY <1>2, <1>7 DEF Attempts
  <2>3. call'[c] = call[c]
    BY <1>3, <2>2
  <2> QED
    BY <2>1, <2>3 DEF Exhausted
<1>8. AttemptInv'
  BY <1>1, <1>7 DEF AttemptInv
<1> QED
  BY <1>4, <1>5, <1>6, <1>8 DEF Inv

LEMMA InvGatherDone ==
    ASSUME Inv, GatherDone
    PROVE  Inv'
<1>1. /\ chunk = "embed" /\ raised = "nothing" /\ at' = 0 /\ vectors' = Gathered /\ Kept
      /\ InPc(attempt, {"answered"}) = Batches /\ stored' = stored /\ stored = << >>
      /\ chunk' = "failed" \/ (chunk' = "insert" /\ Len(Gathered) = NTexts)
  BY DEF GatherDone, Kept, Inv, StoredInv
<1>2. Gathered' = Gathered /\ Gathered \in Seq(0..NTexts)
  BY <1>1, KeptParts, GatheredType DEF Inv
<1>3. TypeOK'
  BY <1>1, <1>2, TextsAssumption DEF Inv, TypeOK, Ended, Kept
<1>4. \A b \in Batches : call'[attempt'][b].pc = "answered"
  BY <1>1 DEF InPc, Kept
<1>5. StoredInv'
  BY <1>1, <1>2, <1>4, TextsAssumption DEF StoredInv, Returned
<1>6. AttemptInv'
  BY <1>1, KeptParts DEF AttemptInv, Kept
<1> QED
  BY <1>1, <1>3, <1>5, <1>6, KeptParts DEF Inv

LEMMA InvInsert ==
    ASSUME Inv, Insert
    PROVE  Inv'
<1> DEFINE n == at'
           Rows == (1..NTexts) \X (0..NTexts)
           new == [k \in 1..(n - at) |-> <<at + k, vectors[at + k]>>]
<1>1. /\ chunk = "insert" /\ at < NTexts /\ n = Least(at + FlushSize, NTexts) /\ at \in 0..NTexts
      /\ stored' = stored \o new /\ Len(stored) = at /\ Returned /\ Kept
      /\ UNCHANGED <<chunk, vectors>> /\ stored \in Seq(Rows)
      /\ vectors \in Seq(0..NTexts) /\ Len(vectors) = NTexts
  BY DEF Insert, Inv, TypeOK, StoredInv, Returned, Kept
<1>2. at \in Nat /\ NTexts \in Nat /\ n \in 0..NTexts /\ n \in Nat /\ n - at \in Nat /\ at < n
  BY <1>1, TextsAssumption, SizesAssumption DEF Least
<1> HIDE DEF n
<1>3. ASSUME NEW k \in 1..(n - at)
      PROVE  <<at + k, vectors[at + k]>> \in Rows
  <2>1. at + k \in 1..NTexts
    BY <1>2
  <2>2. vectors[at + k] \in 0..NTexts
    BY <1>1, <2>1
  <2> QED
    BY <2>1, <2>2
<1> HIDE DEF Rows
<1>4. new \in Seq(Rows) /\ Len(new) = n - at
      /\ \A k \in 1..(n - at) : new[k] = <<at + k, vectors[at + k]>>
  <2>1. new \in [1..(n - at) -> Rows]
    BY <1>3
  <2> QED
    BY <1>2, <2>1
<1> HIDE DEF new
<1>5. stored' \in Seq(Rows) /\ Len(stored') = n
  <2>1. Len(stored \o new) = Len(stored) + Len(new) /\ stored \o new \in Seq(Rows)
    <3>1. stored \in Seq(Rows) /\ new \in Seq(Rows)
      BY <1>1, <1>4
    <3> QED
      BY <3>1
  <2> QED
    BY <1>1, <1>2, <1>4, <2>1
<1>6. ASSUME NEW k \in 1..n
      PROVE  stored'[k] = <<k, vectors[k]>>
  <2>1. CASE k <= at
    <3>1. k \in 1..Len(stored) /\ stored'[k] = stored[k]
      BY <1>1, <1>2, <1>4, <2>1
    <3> QED
      BY <3>1 DEF Inv, StoredInv
  <2>2. CASE k > at
    <3>1. k - at \in 1..(n - at) /\ at + (k - at) = k
      BY <1>2, <2>2
    <3>2. stored'[k] = new[k - at]
      <4>1. k \in 1..(Len(stored) + Len(new)) /\ k > Len(stored) /\ Len(stored) = at
        BY <1>1, <1>2, <1>4, <2>2
      <4>2. (stored \o new)[k] = new[k - Len(stored)]
        BY <1>1, <1>4, <4>1
      <4> QED
        BY <1>1, <4>1, <4>2
    <3> QED
      BY <1>4, <3>1, <3>2
  <2> QED
    BY <1>2, <2>1, <2>2
<1>7. TypeOK'
  BY <1>1, <1>2, <1>5 DEF Inv, TypeOK, Kept, n, Rows
<1>8. StoredInv'
  <2>1. Returned'
    BY <1>1, KeptParts DEF Returned, Kept
  <2> QED
    <3>1. Len(stored') <= NTexts /\ Len(stored') = at'
      BY <1>2, <1>5 DEF n
    <3>2. \A k \in 1..Len(stored') : stored'[k] = <<k, vectors'[k]>>
      BY <1>1, <1>5, <1>6
    <3> QED
      BY <1>1, <2>1, <3>1, <3>2 DEF StoredInv
<1>9. AttemptInv'
  BY <1>1, KeptParts DEF Inv, AttemptInv, Kept
<1> QED
  BY <1>1, <1>7, <1>8, <1>9, KeptParts DEF Inv

(* InsertDone and InsertFails: the rows stay as they are. *)
LEMMA InvInserted ==
    ASSUME Inv, Kept, UNCHANGED <<vectors, at, stored>>,
           chunk' = chunk \/ (chunk = "insert" /\ chunk' \in {"inserted", "failed"})
    PROVE  Inv'
<1>1. TypeOK'
  BY DEF Inv, TypeOK, Ended, Kept
<1>2. Returned' <=> Returned
  BY KeptParts DEF Returned, Kept
<1>3. StoredInv'
  BY <1>2 DEF Inv, StoredInv
<1>4. AttemptInv'
  BY KeptParts DEF Inv, AttemptInv, Kept
<1> QED
  BY <1>1, <1>3, <1>4, KeptParts DEF Inv

LEMMA InvStep ==
    ASSUME Inv, [Next]_vars
    PROVE  Inv'
<1>1. ASSUME NEW a \in Attempts, NEW b \in Batches, CallStep(a, b)
      PROVE  Inv'
  BY <1>1, CallStepMoves, InvCall
<1>2. CASE GatherRaises \/ NextAttempt \/ GatherDone \/ Insert
  BY <1>2, InvGatherRaises, InvNextAttempt, InvGatherDone, InvInsert
<1>3. CASE InsertDone \/ InsertFails
  BY <1>3, InvInserted DEF InsertDone, InsertFails, Kept
<1>4. CASE UNCHANGED vars
  BY <1>4, InvInserted DEF vars, Kept
<1> QED
  BY <1>1, <1>2, <1>3, <1>4 DEF Next, ChunkStep

THEOREM Invariant == Spec => []Inv
BY InvInit, InvStep, PTL DEF Spec

----------------------------------------------------------------------------
(* Every variable has its type. *)
THEOREM TypeCorrect == Spec => []TypeOK
<1>1. Inv => TypeOK
  BY DEF Inv
<1> QED
  BY Invariant, <1>1, PTL

(* A row gets the vector of its own text, for all answers of the service   *)
(* in all batches, unless it mixes up a batch, or answers one batch with   *)
(* too few and another with too many vectors: the count of process_chunk   *)
(* and the positions of gather are enough.                                 *)
THEOREM OwnVectors == Spec => []OwnVector
<1>1. Inv => OwnVector
  <2> SUFFICES ASSUME Inv, \A b \in Batches : ~Scrambled(b),
                      ~ \E b, c \in Batches : Short(b) /\ Surplus(c),
                      NEW k \in 1..Len(stored)
               PROVE  stored[k][1] = stored[k][2]
    BY DEF OwnVector
  <2>1. (\A b \in Batches : ~Short(b)) \/ (\A b \in Batches : ~Surplus(b))
    OBVIOUS
  <2>2. stored[k] = <<k, vectors[k]>> /\ Returned /\ Len(stored) <= NTexts
    BY DEF Inv, StoredInv, TypeOK
  <2>3. \A j \in 1..NTexts : vectors[j] = j
    BY <2>1, <2>2, InPlace DEF Inv, Returned
  <2>4. k \in 1..NTexts
    BY <2>2, TextsAssumption DEF Inv, TypeOK
  <2> QED
    BY <2>2, <2>3, <2>4
<1> QED
  BY Invariant, <1>1, PTL

(* No attempt that has stored a row is repeated. *)
THEOREM RowsStoredOnce == Spec => []StoredOnce
<1>1. Inv => StoredOnce
  BY DEF Inv, StoredInv, StoredOnce
<1> QED
  BY Invariant, <1>1, PTL

(* The task is interrupted only after every attempt has had a batch of its *)
(* own that failed MaxRetries + 1 times, whatever the batches that gather  *)
(* left running have done.                                                 *)
THEOREM InterruptedIsExhausted == Spec => []InterruptedMeansExhausted
<1>1. Inv => InterruptedMeansExhausted
  <2> SUFFICES ASSUME Inv, chunk = "interrupted", NEW a \in Attempts
               PROVE  Exhausted(a)
    BY DEF InterruptedMeansExhausted, Exhausted
  <2>1. attempt = ChunkRetries + 1 /\ raised = "retryable" /\ Exhausted(attempt)
        /\ \A c \in Attempts : c < attempt => Exhausted(c)
    BY DEF Inv, AttemptInv
  <2>2. a = attempt \/ a < attempt
    BY <2>1, RetriesAssumption DEF Attempts
  <2> QED
    BY <2>1, <2>2
<1> QED
  BY Invariant, <1>1, PTL
=============================================================================
