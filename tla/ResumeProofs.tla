---------------------------- MODULE ResumeProofs ----------------------------
(***************************************************************************)
(* Theorems about Ingestion when jobs follow each other: resumed runs, and *)
(* what a job that says COMPLETED has loaded, for any sources, files and   *)
(* bounds, and any number of jobs, failures and interrupts.                *)
(***************************************************************************)
EXTENDS IngestionProofs, FiniteSetTheorems

----------------------------------------------------------------------------
(* The invariant *)

(* How much of its source or file a job has read when it has read n pages  *)
(* or entries, and all of it.                                              *)
LoadKeysUpTo(f, n) == {KeyOf(LoadRows(f)[m]) : m \in 1..n}
Part(q, n) ==
    IF q.kind \in Imports THEN KeysUpTo(q.file, n)
    ELSE IF q.kind \in Loads THEN LoadKeysUpTo(q.file, n) ELSE PagesUpTo(n)
Goal(q) ==
    IF q.kind \in Imports THEN Keys(q.file)
    ELSE IF q.kind \in Loads THEN LoadKeys(q.file) ELSE Source
Place(q) == IF q.kind \in Staged THEN "staging" ELSE "main"

(* The checkpoint c of a RESEED, seen with the staging table: whenever the *)
(* count lets a run resume it, the pages before it are there, and nothing  *)
(* but them and rows of the next one.                                      *)
Enough(c, rows) == Cardinality(rows) >= (c - 1) * RowsPerChunk
Between(c, rows) == PagesUpTo(c) \subseteq rows /\ rows \subseteq PagesUpTo(c + 1)
Held(c, t) == c > 0 /\ t.exists /\ Enough(c, t.rows) => Between(c, t.rows)

(* A checkpoint that is saved, and that nobody has robbed. *)
SavedInv ==
    /\ "SEED" \notin robbed /\ saved["SEED"] # NoTask
       => PagesUpTo(saved["SEED"]) \subseteq table["main"].rows
    /\ "RESEED" \notin robbed /\ saved["RESEED"] # NoTask
       => Held(saved["RESEED"], table["staging"])

(* A job's place in its code. *)
Control(q) ==
    /\ q.kind # "none"
    /\ q.kind \in Tasks => saved[q.kind] = NoTask
    /\ q.kind \in Staged \ {"RESEED"} =>
          /\ q.pc \in {"prepare", "recreate"} => q.at = 0
          /\ q.pc \in {"load", "insert", "swap"} /\ saved["RESEED"] # NoTask
             => "RESEED" \in robbed
    /\ q.pc = "insert" => q.kind \notin Loads
    /\ q.pc = "finish" => q.kind \notin Staged
    /\ q.pc = "load" /\ q.kind \in Loads => q.at <= Len(LoadRows(q.file))
    /\ q.kind \in Tasks /\ q.at # q.chunks =>
          /\ q.kind = "RESEED" /\ q.pc \in {"recreate", "load", "insert"}
          /\ q.at = 0 /\ q.chunks >= 2
    /\ q.kind = "RESEED" /\ q.pc = "recreate" => q.at = 0

(* The table it writes to holds what it has read; what it writes last is   *)
(* live.                                                                   *)
Loaded(q, t, live) ==
    /\ t.exists =>
          /\ q.pc = "load" => Part(q, q.at) \subseteq t.rows
          /\ q.pc = "insert" /\ q.kind \in Imports => Part(q, q.at) \subseteq t.rows \cup q.todo
          /\ q.pc = "insert" /\ q.kind \notin Imports =>
                Part(q, q.at) \subseteq t.rows /\ Part(q, q.at + 1) \subseteq t.rows \cup q.todo
          /\ q.pc = "swap" => Goal(q) \subseteq t.rows
    /\ q.pc \in {"index", "building", "finish"} => Goal(q) \subseteq live.rows

(* The staging table of a RESEED holds nothing else. *)
Exact(q, t) ==
    /\ q.pc \in {"prepare", "recreate"} => Held(q.chunks, t)
    /\ q.pc = "load" /\ t.exists => t.rows \subseteq PagesUpTo(q.at + 1)
    /\ q.pc = "insert" /\ t.exists => t.rows \cup q.todo \subseteq PagesUpTo(q.at + 1)
    /\ q.pc = "swap" /\ t.exists => t.rows \subseteq PagesUpTo(q.at)
    /\ q.pc \in {"index", "building"} => ~t.exists

JobGood(q) ==
    /\ Control(q)
    /\ q.kind \notin {"dry run", "dump"} \cup robbed => Loaded(q, table[Place(q)], table["main"])
    /\ q.kind = "RESEED" /\ "RESEED" \notin robbed => Exact(q, table["staging"])

Single == \A i, j \in Jobs : Active(i) /\ Active(j) => i = j
ResumeInv ==
    /\ Single /\ SavedInv /\ IsFiniteSet(table["staging"].rows)
    /\ \A j \in Jobs : Active(j) => JobGood(job[j])

----------------------------------------------------------------------------
(* Pages, and rows of files *)

LEMMA PagesStart == PagesUpTo(0) = {}
<1>1. 1..0 = {}
  OBVIOUS
<1> QED
  BY <1>1 DEF PagesUpTo

LEMMA PagesOn ==
    ASSUME NEW n \in Nat
    PROVE  PagesUpTo(n + 1) = PagesUpTo(n) \cup RowsOf(n + 1)
<1>1. 1..(n + 1) = (1..n) \cup {n + 1}
  OBVIOUS
<1> QED
  BY <1>1 DEF PagesUpTo

LEMMA PagesMonotone ==
    ASSUME NEW m \in Nat, NEW n \in Nat, m <= n
    PROVE  PagesUpTo(m) \subseteq PagesUpTo(n)
<1>1. 1..m \subseteq 1..n
  OBVIOUS
<1> QED
  BY <1>1 DEF PagesUpTo

(* There is nothing after the last page. *)
LEMMA PagesEnd ==
    ASSUME NEW n \in Nat
    PROVE  /\ PagesUpTo(n) \subseteq Source
           /\ n >= NPages => PagesUpTo(n) = Source
<1>1. NPages \in Nat
  BY Constants
<1>2. ASSUME NEW p \in 1..n, p > NPages PROVE RowsOf(p) = {}
  BY <1>1, <1>2 DEF RowsOf
<1>3. PagesUpTo(n) \subseteq Source
  <2> SUFFICES ASSUME NEW p \in 1..n, NEW x \in RowsOf(p) PROVE x \in Source
    BY DEF PagesUpTo
  <2>1. p \in 1..NPages
    BY <1>1, <1>2
  <2> QED
    BY <2>1 DEF Source, PagesUpTo
<1> QED
  BY <1>1, <1>3, PagesMonotone DEF Source

(* A page has no more rows than ROWS_PER_CHUNK, so that the count never    *)
(* takes a part of the first page for three pages.                         *)
LEMMA FirstPage ==
    ASSUME NEW rows, rows \subseteq PagesUpTo(1), NEW c \in Nat, c >= 3
    PROVE  ~Enough(c, rows)
<1> DEFINE k == PageRows[1]
           f == [i \in 1..k |-> <<1, <<i>>>>]
           page == {<<1, <<i>>>> : i \in 1..k}
<1>1. RowsPerChunk \in Nat /\ RowsPerChunk > 0 /\ NPages \in Nat
  BY ChunkAssumption, Constants
<1>2. 1..1 = {1} /\ PagesUpTo(1) = RowsOf(1)
  BY DEF PagesUpTo
<1>3. CASE NPages = 0
  <2>1. RowsOf(1) = {}
    BY <1>3 DEF RowsOf
  <2>2. rows = {} /\ Cardinality(rows) = 0
    BY <1>2, <2>1, FS_EmptySet
  <2>3. (c - 1) * RowsPerChunk > 0
    BY <1>1
  <2> QED
    BY <1>1, <2>2, <2>3 DEF Enough
<1>4. CASE NPages > 0
  <2>1. k \in 0..RowsPerChunk /\ RowsOf(1) = page
    BY <1>1, <1>4, PageRowsAssumption DEF RowsOf, NPages
  <2> HIDE DEF k
  <2>2. IsFiniteSet(1..k) /\ Cardinality(1..k) <= RowsPerChunk
    <3>1. k \in Int /\ 1 \in Int
      BY <2>1
    <3>2. IsFiniteSet(1..k) /\ Cardinality(1..k) = IF 1 > k THEN 0 ELSE k - 1 + 1
      BY <3>1, FS_Interval
    <3> QED
      BY <1>1, <2>1, <3>2
  <2>3. f \in Surjection(1..k, page)
    BY DEF Surjection
  <2>4. IsFiniteSet(page) /\ Cardinality(page) <= Cardinality(1..k)
    BY <2>2, <2>3, FS_Surjection
  <2>5. IsFiniteSet(rows) /\ Cardinality(rows) <= Cardinality(page)
    <3>1. rows \in SUBSET page
      BY <1>2, <2>1
    <3> HIDE DEF page
    <3> QED
      BY <2>4, <3>1, FS_Subset
  <2> DEFINE size == Cardinality(rows)
  <2>6. size \in Nat /\ Cardinality(page) \in Nat /\ Cardinality(1..k) \in Nat
    BY <2>2, <2>4, <2>5, FS_CardinalityType
  <2>7. size <= RowsPerChunk
    BY <1>1, <2>2, <2>4, <2>5, <2>6
  <2>8. 2 * RowsPerChunk <= (c - 1) * RowsPerChunk
    <3>1. PICK d \in Nat : c - 1 = 2 + d
      <4>1. c - 3 \in Nat /\ c - 1 = 2 + (c - 3)
        OBVIOUS
      <4> QED
        BY <4>1
    <3>2. (2 + d) * RowsPerChunk = 2 * RowsPerChunk + d * RowsPerChunk /\ d * RowsPerChunk >= 0
      BY <1>1
    <3> QED
      BY <1>1, <3>1, <3>2
  <2>9. ~(size >= (c - 1) * RowsPerChunk)
    <3> DEFINE least == (c - 1) * RowsPerChunk
    <3>1. least \in Nat /\ 2 * RowsPerChunk <= least
      BY <1>1, <2>8
    <3> HIDE DEF least, size
    <3>2. ~(size >= least)
      BY <1>1, <2>6, <2>7, <3>1
    <3> QED
      BY <3>2 DEF least
  <2> QED
    BY <2>9 DEF Enough
<1> QED
  BY <1>1, <1>3, <1>4

LEMMA LoadStart == \A f : LoadKeysUpTo(f, 0) = {}
<1>1. 1..0 = {}
  OBVIOUS
<1> QED
  BY <1>1 DEF LoadKeysUpTo

LEMMA LoadOn ==
    ASSUME NEW f, NEW m \in Nat, NEW n \in Nat, m <= n
    PROVE  LoadKeysUpTo(f, n) = LoadKeysUpTo(f, m) \cup {KeyOf(LoadRows(f)[i]) : i \in (m + 1)..n}
<1>1. 1..n = (1..m) \cup ((m + 1)..n)
  OBVIOUS
<1> QED
  BY <1>1 DEF LoadKeysUpTo

LEMMA PartStart == ASSUME NEW q PROVE Part(q, 0) = {}
BY PagesStart, LoadStart, NothingRead DEF Part


----------------------------------------------------------------------------
(* What a step leaves of the invariant, action by action *)

Result(j) ==
    /\ Active(j) => JobGood(job[j])
    /\ SavedInv
    /\ IsFiniteSet(table["staging"].rows)

LEMMA Facts ==
    ASSUME Base, ResumeInv, NEW j \in Jobs, Step(j)
    PROVE  /\ job \in [Jobs -> JobType] /\ job[j] \in JobType /\ JobInv(job[j])
           /\ Control(job[j]) /\ JobGood(job[j]) /\ SavedInv /\ IsFiniteSet(table["staging"].rows)
           /\ table \in [Names -> TableType] /\ table["main"].exists
           /\ "main" \in Names /\ "staging" \in Names /\ "backup" \in Names
           /\ table["main"] \in TableType /\ table["staging"] \in TableType
           /\ job'[j].kind = job[j].kind /\ job'[j].file = job[j].file
BY OthersStay, StepOfJob DEF Base, TypeOK, ResumeInv, JobGood, Names

LEMMA SavedStays ==
    ASSUME SavedInv, IsFiniteSet(table["staging"].rows), saved' = saved, robbed' = robbed,
           table["main"].rows \subseteq table'["main"].rows, table'["staging"] = table["staging"]
    PROVE  SavedInv' /\ IsFiniteSet(table'["staging"].rows)
BY DEF SavedInv, Held, Enough, Between

LEMMA ResumePrepare ==
    ASSUME Base, ResumeInv, NEW j \in Jobs, Prepare(j)
    PROVE  Result(j)'
<1> DEFINE q == job[j]
           r == job'[j]
           keep == q.at > 0 /\ Enough(q.at, table["staging"].rows)
<1>1. Step(j)
  BY DEF Step
<1>2. /\ q \in JobType /\ JobInv(q) /\ Control(q) /\ JobGood(q) /\ q.pc = "prepare"
      /\ table' = table /\ saved' = saved /\ robbed' = robbed
      /\ SavedInv /\ IsFiniteSet(table["staging"].rows)
      /\ r.kind = q.kind /\ r.file = q.file
  BY <1>1, Facts DEF Prepare
<1>3. SavedInv' /\ IsFiniteSet(table'["staging"].rows)
  BY <1>2, SavedStays
<1>4. job' = [job EXCEPT ![j].pc = IF keep THEN "load" ELSE "recreate",
                         ![j].at = IF keep THEN @ ELSE 0]
  BY DEF Prepare, Enough
<1> HIDE DEF keep
<1>5. r.pc = (IF keep THEN "load" ELSE "recreate") /\ r.at = (IF keep THEN q.at ELSE 0)
      /\ r.chunks = q.chunks
  BY <1>1, <1>4, Facts DEF JobType
<1> HIDE DEF r, q
<1>6. /\ q.kind \in Staged /\ q.at \in Nat /\ q.kind # "none"
      /\ q.kind # "RESEED" => q.at = 0
      /\ q.kind = "RESEED" => q.at = q.chunks
  BY <1>2 DEF JobInv, Control, JobType, Tasks
<1>7. r.kind \notin Loads /\ r.kind \notin {"SEED", "dry run", "dump"} /\ r.kind \in Staged
      /\ Place(r) = "staging"
  BY <1>2, <1>6 DEF Staged, Loads, Place
<1>8. CASE keep
  <2>1. q.kind = "RESEED" /\ r.pc = "load" /\ r.at = q.at /\ r.chunks = q.at /\ r.kind = "RESEED"
    BY <1>2, <1>5, <1>6, <1>8 DEF keep
  <2>2. "RESEED" \notin robbed /\ table["staging"].exists => Between(q.at, table["staging"].rows)
    BY <1>2, <1>6, <1>8, <2>1 DEF keep, JobGood, Exact, Held
  <2>3. Control(job[j])'
    BY <1>2, <1>5, <1>6, <1>7, <2>1 DEF Control, r, q
  <2>4. "RESEED" \notin robbed => Loaded(job[j], table[Place(job[j])], table["main"])'
    BY <1>2, <1>7, <2>1, <2>2 DEF Loaded, Between, Part, Imports, Loads, r
  <2>5. "RESEED" \notin robbed => Exact(job[j], table["staging"])'
    BY <1>2, <2>1, <2>2 DEF Exact, Between, r
  <2> QED
    BY <1>2, <1>3, <2>1, <2>3, <2>4, <2>5 DEF Result, JobGood, r
<1>9. CASE ~keep
  <2>1. r.pc = "recreate" /\ r.at = 0 /\ r.chunks = q.chunks
    BY <1>5, <1>9
  <2>2. q.kind = "RESEED" /\ q.chunks # 0 => q.chunks >= 2
    <3> SUFFICES ASSUME q.kind = "RESEED", q.chunks # 0, q.at = 1 PROVE FALSE
      BY <1>6
    <3>1. ~(Cardinality(table["staging"].rows) >= 0 * RowsPerChunk)
      BY <1>9 DEF keep, Enough
    <3>2. Cardinality(table["staging"].rows) \in Nat /\ 0 * RowsPerChunk = 0
      BY <1>2, FS_CardinalityType, ChunkAssumption
    <3> QED
      BY <3>1, <3>2
  <2>3. Control(job[j])'
    BY <1>2, <1>6, <1>7, <2>1, <2>2 DEF Control, Tasks, r
  <2>4. Loaded(job[j], table[Place(job[j])], table["main"])'
    BY <2>1 DEF Loaded, r
  <2>5. q.kind = "RESEED" /\ "RESEED" \notin robbed => Exact(job[j], table["staging"])'
    BY <1>2, <2>1 DEF JobGood, Exact, Held, Enough, Between, r
  <2> QED
    BY <1>2, <1>3, <2>3, <2>4, <2>5 DEF Result, JobGood, r
<1> QED
  BY <1>8, <1>9

LEMMA ResumeRecreate ==
    ASSUME Base, ResumeInv, NEW j \in Jobs, Recreate(j)
    PROVE  Result(j)'
<1> DEFINE q == job[j]
           r == job'[j]
<1>1. Step(j)
  BY DEF Step
<1>2. /\ q \in JobType /\ JobInv(q) /\ Control(q) /\ JobGood(q) /\ q.pc = "recreate"
      /\ saved' = saved /\ SavedInv
      /\ r.kind = q.kind /\ r.file = q.file
  BY <1>1, Facts DEF Recreate
<1>3. table'["main"] = table["main"] /\ table'["staging"].rows = {}
  BY <1>1, Facts DEF Recreate, Fresh, Absent
<1>4. job'[j] = [job[j] EXCEPT !.pc = "load"]
  BY <1>1, Facts DEF Recreate, Goto
<1>5. r.pc = "load" /\ r.at = q.at /\ r.chunks = q.chunks
  BY <1>2, <1>4 DEF JobType
<1>6. robbed' = IF q.kind = "RESEED" THEN robbed \ {"RESEED"}
                ELSE IF Pending("RESEED") THEN robbed \cup {"RESEED"} ELSE robbed
  BY DEF Recreate, RobReseed
<1> HIDE DEF r, q
<1>7. /\ q.kind \in Staged /\ q.kind # "none"
      /\ q.kind \in Staged \ {"RESEED"} => q.at = 0
      /\ q.kind = "RESEED" => q.at = 0 /\ saved["RESEED"] = NoTask
      /\ q.kind = "RESEED" /\ q.at # q.chunks => q.chunks >= 2
  BY <1>2 DEF JobInv, Control, Tasks
<1>8. q.at = 0 /\ Place(r) = "staging" /\ r.kind \notin Loads /\ r.kind \notin Tasks \ {"RESEED"}
  BY <1>2, <1>7 DEF Staged, Loads, Place, Tasks
<1>9. q.kind # "RESEED" /\ saved["RESEED"] # NoTask => "RESEED" \in robbed'
  BY <1>6 DEF Pending
<1>10. Control(job[j])'
  BY <1>2, <1>5, <1>7, <1>8, <1>9 DEF Control, r
<1>11. Loaded(job[j], table[Place(job[j])], table["main"])'
  BY <1>3, <1>5, <1>8, PartStart DEF Loaded, r
<1>12. Exact(job[j], table["staging"])'
  BY <1>3, <1>5 DEF Exact, r
<1>13. SavedInv'
  <2>1. "SEED" \notin robbed' => "SEED" \notin robbed
    BY <1>6
  <2> QED
    BY <1>2, <1>3, <1>7, <1>9, <2>1 DEF SavedInv
<1>14. IsFiniteSet(table'["staging"].rows)
  BY <1>3, FS_EmptySet
<1> QED
  BY <1>10, <1>11, <1>12, <1>13, <1>14 DEF Result, JobGood

LEMMA ResumeLoadPage ==
    ASSUME Base, ResumeInv, NEW j \in Jobs, LoadPage(j)
    PROVE  Result(j)'
<1> DEFINE q == job[j]
           r == job'[j]
<1>1. Step(j)
  BY DEF Step
<1>2. /\ q \in JobType /\ JobInv(q) /\ Control(q) /\ JobGood(q) /\ q.pc = "load"
      /\ q.kind \notin Imports \cup Loads
      /\ table' = table /\ saved' = saved /\ robbed' = robbed
      /\ SavedInv /\ IsFiniteSet(table["staging"].rows)
      /\ r.kind = q.kind /\ r.file = q.file
  BY <1>1, Facts DEF LoadPage
<1>3. SavedInv' /\ IsFiniteSet(table'["staging"].rows)
  BY <1>2, SavedStays
<1>4. job'[j] = [job[j] EXCEPT !.pc = "insert", !.todo = RowsOf(job[j].at + 1)]
  BY <1>1, Facts DEF LoadPage
<1>5. r.pc = "insert" /\ r.at = q.at /\ r.chunks = q.chunks /\ r.todo = RowsOf(q.at + 1) /\ q.at \in Nat
  BY <1>2, <1>4 DEF JobType
<1> HIDE DEF r, q
<1>6. /\ Part(q, q.at) = PagesUpTo(q.at) /\ Part(r, q.at) = PagesUpTo(q.at)
      /\ Part(r, q.at + 1) = PagesUpTo(q.at + 1) /\ Place(r) = Place(q)
  BY <1>2 DEF Part, Place
<1>7. PagesUpTo(q.at + 1) = PagesUpTo(q.at) \cup RowsOf(q.at + 1)
  BY <1>5, PagesOn
<1>8. Control(job[j])'
  BY <1>2, <1>5 DEF Control, r
<1>9. Loaded(q, table[Place(q)], table["main"]) => Loaded(job[j], table[Place(job[j])], table["main"])'
  BY <1>2, <1>5, <1>6, <1>7 DEF Loaded, r
<1>10. Exact(q, table["staging"]) => Exact(job[j], table["staging"])'
  BY <1>2, <1>5, <1>7 DEF Exact, r
<1> QED
  BY <1>2, <1>3, <1>8, <1>9, <1>10 DEF Result, JobGood, r

LEMMA ResumeChunkDone ==
    ASSUME Base, ResumeInv, NEW j \in Jobs, ChunkDone(j)
    PROVE  Result(j)'
<1> DEFINE q == job[j]
           r == job'[j]
           page == q.at + 1
           next == IF page < NPages THEN "load" ELSE IF q.kind \in Staged THEN "swap" ELSE "finish"
<1>1. Step(j)
  BY DEF Step
<1>2. /\ q \in JobType /\ JobInv(q) /\ Control(q) /\ JobGood(q) /\ q.pc = "insert" /\ q.todo = {}
      /\ table' = table /\ saved' = saved /\ robbed' = robbed /\ table["main"].exists
      /\ SavedInv /\ IsFiniteSet(table["staging"].rows)
      /\ r.kind = q.kind /\ r.file = q.file
  BY <1>1, Facts DEF ChunkDone
<1>3. SavedInv' /\ IsFiniteSet(table'["staging"].rows)
  BY <1>2, SavedStays
<1>4. NPages \in Nat /\ q.at \in Nat /\ q.chunks \in Nat
  BY <1>2, Constants DEF JobType
<1>5. page \in Nat /\ next \in {"load", "swap", "finish"}
  BY <1>4
<1>6. /\ q.kind \in Imports => r.pc = "load" /\ r.at = q.at
      /\ q.kind \notin Imports => r.pc = next /\ r.at = page /\ r.chunks = page
  <2>1. CASE q.kind \in Imports
    <3>1. job'[j] = [job[j] EXCEPT !.pc = "load", !.chunks = job[j].chunks + 1]
      BY <1>1, <2>1, Facts DEF ChunkDone
    <3> QED
      BY <1>2, <2>1, <3>1 DEF JobType
  <2>2. CASE q.kind \notin Imports
    <3>1. job'[j] = [job[j] EXCEPT !.at = page, !.chunks = page, !.pc = next]
      BY <1>1, <2>2, Facts DEF ChunkDone
    <3> HIDE DEF page, next
    <3> QED
      BY <1>2, <2>2, <3>1 DEF JobType
  <2> QED
    BY <2>1, <2>2
<1> HIDE DEF r, q
<1>7. Place(r) = Place(q) /\ q.kind \notin Loads
  BY <1>2 DEF Place, Control
<1>8. CASE q.kind \in Imports
  <2>1. Part(r, r.at) = Part(q, q.at)
    BY <1>2, <1>6, <1>8 DEF Part
  <2>2. q.kind \notin Tasks /\ q.kind # "RESEED"
    BY <1>8 DEF Imports, Tasks
  <2>3. Control(job[j])'
    BY <1>2, <1>6, <1>7, <1>8, <2>2 DEF Control, r
  <2>4. Loaded(q, table[Place(q)], table["main"]) => Loaded(job[j], table[Place(job[j])], table["main"])'
    BY <1>2, <1>6, <1>7, <1>8, <2>1 DEF Loaded, r
  <2> QED
    BY <1>2, <1>3, <2>2, <2>3, <2>4 DEF Result, JobGood, r
<1>9. CASE q.kind \notin Imports
  <2>1. /\ Part(q, q.at + 1) = PagesUpTo(q.at + 1) /\ Part(r, page) = PagesUpTo(page)
        /\ Goal(r) = Source /\ Part(q, q.at) = PagesUpTo(q.at)
    BY <1>2, <1>7, <1>9 DEF Part, Goal
  <2>2. page = q.at + 1
    OBVIOUS
  <2>3. next # "load" => PagesUpTo(q.at + 1) = Source /\ PagesUpTo(page) = Source
    <3>1. next # "load" => page >= NPages
      BY <1>4
    <3> QED
      BY <1>4, <3>1, PagesEnd
  <2>4. /\ PagesUpTo(q.at + 1) \subseteq PagesUpTo(q.at + 1 + 1)
    BY <1>4, PagesMonotone
  <2>5. next \in {"swap", "finish"} => (next = "swap" <=> Place(q) = "staging")
    BY DEF Place
  <2> HIDE DEF next, page
  <2>6. Control(job[j])'
    <3>1. next = "finish" => q.kind \notin Staged
      BY <2>5 DEF Place
    <3> QED
      BY <1>2, <1>5, <1>6, <1>7, <1>9, <3>1 DEF Control, r
  <2>7. Loaded(q, table[Place(q)], table["main"]) => Loaded(job[j], table[Place(job[j])], table["main"])'
    <3>1. next = "finish" => Place(q) = "main"
      BY <2>5 DEF Place
    <3> QED
      BY <1>2, <1>5, <1>6, <1>7, <1>9, <2>1, <2>2, <2>3, <3>1 DEF Loaded, r
  <2>8. Exact(q, table["staging"]) => Exact(job[j], table["staging"])'
    BY <1>2, <1>5, <1>6, <1>9, <2>2, <2>3, <2>4 DEF Exact, r
  <2> QED
    BY <1>2, <1>3, <2>6, <2>7, <2>8 DEF Result, JobGood, r
<1> QED
  BY <1>8, <1>9

LEMMA ResumeLoadRecords ==
    ASSUME Base, ResumeInv, NEW j \in Jobs, LoadRecords(j)
    PROVE  Result(j)'
<1> DEFINE q == job[j]
           r == job'[j]
           raw == Raw(q.file)
           keys == {KeyOf(raw[n]) : n \in (q.at + 1)..Upto(q)}
           todo == IF q.kind = "dry run" THEN {} ELSE keys
           last == IF q.kind = "replace" THEN "swap" ELSE "finish"
<1>1. Step(j)
  BY DEF Step
<1>2. /\ q \in JobType /\ JobInv(q) /\ Control(q) /\ JobGood(q) /\ q.pc = "load" /\ q.kind \in Imports
      /\ table' = table /\ saved' = saved /\ robbed' = robbed /\ table["main"].exists
      /\ SavedInv /\ IsFiniteSet(table["staging"].rows)
      /\ r.kind = q.kind /\ r.file = q.file
  BY <1>1, Facts DEF LoadRecords
<1>3. SavedInv' /\ IsFiniteSet(table'["staging"].rows)
  BY <1>2, SavedStays
<1>4. job' = IF Bad(q) \/ raw = << >> THEN [job EXCEPT ![j].pc = "rejected"]
             ELSE IF q.at = Upto(q) THEN [job EXCEPT ![j].pc = last]
             ELSE [job EXCEPT ![j].pc = "insert", ![j].at = Upto(q), ![j].todo = todo]
  BY DEF LoadRecords, Bad, Upto, SeenIds
<1>5. /\ Upto(q) \in Nat /\ q.at <= Upto(q) /\ q.at \in Nat
      /\ ~Bad(q) /\ raw # << >> /\ q.at = Upto(q) => q.at = Len(raw)
  BY <1>2, ReadChunk DEF JobInv, JobType
<1> HIDE DEF q, r, raw, keys, todo, last
<1>6. KeysUpTo(q.file, q.at) \cup keys = KeysUpTo(q.file, Upto(q))
  <2>1. 1..Upto(q) = (1..q.at) \cup ((q.at + 1)..Upto(q))
    BY <1>5
  <2> QED
    BY <2>1 DEF keys, raw, KeysUpTo
<1>7. /\ q.kind \notin Loads /\ q.kind \notin Tasks /\ q.kind # "RESEED"
      /\ last \in {"swap", "finish"} /\ (last = "swap" <=> q.kind \in Staged)
      /\ Place(r) = Place(q)
  BY <1>2 DEF Imports, Loads, Tasks, Staged, last, Place
<1>8. CASE Bad(q) \/ raw = << >>
  <2>1. r = [q EXCEPT !.pc = "rejected"]
    BY <1>1, <1>4, <1>8, Facts DEF r, q
  <2>2. ~Active(j)'
    BY <1>2, <2>1 DEF JobType, Active, Ended, r
  <2> QED
    BY <1>3, <2>2 DEF Result
<1>9. CASE ~(Bad(q) \/ raw = << >>) /\ q.at = Upto(q)
  <2>1. r = [q EXCEPT !.pc = last]
    BY <1>1, <1>4, <1>9, Facts DEF r, q
  <2>2. r.pc = last /\ r.at = q.at /\ r.chunks = q.chunks
    BY <1>2, <2>1 DEF JobType
  <2>3. Part(q, q.at) = Goal(r)
    BY <1>2, <1>5, <1>9, UpToEnd DEF Part, Goal, raw
  <2>4. Control(job[j])'
    BY <1>2, <1>7, <2>2 DEF Control, r
  <2>5. last = "finish" => Place(q) = "main"
    BY <1>7 DEF Place
  <2>6. Loaded(q, table[Place(q)], table["main"]) => Loaded(job[j], table[Place(job[j])], table["main"])'
    BY <1>2, <1>7, <2>2, <2>3, <2>5 DEF Loaded, r
  <2> QED
    BY <1>2, <1>3, <1>7, <2>4, <2>6 DEF Result, JobGood, r
<1>10. CASE ~(Bad(q) \/ raw = << >>) /\ q.at # Upto(q)
  <2>1. r = [q EXCEPT !.pc = "insert", !.at = Upto(q), !.todo = todo]
    BY <1>1, <1>4, <1>10, Facts DEF r, q
  <2>2. r.pc = "insert" /\ r.at = Upto(q) /\ r.todo = todo
    BY <1>2, <2>1 DEF JobType
  <2>3. Part(q, q.at) = KeysUpTo(q.file, q.at) /\ Part(r, r.at) = KeysUpTo(q.file, Upto(q))
    BY <1>2, <2>2 DEF Part
  <2>4. q.kind # "dry run" => todo = keys
    BY DEF todo
  <2>5. Control(job[j])'
    BY <1>2, <1>7, <2>2 DEF Control, r
  <2>6. q.kind # "dry run" /\ Loaded(q, table[Place(q)], table["main"])
        => Loaded(job[j], table[Place(job[j])], table["main"])'
    BY <1>2, <1>6, <1>7, <2>2, <2>3, <2>4 DEF Loaded, r
  <2> QED
    BY <1>2, <1>3, <1>7, <2>5, <2>6 DEF Result, JobGood, r
<1> QED
  BY <1>8, <1>9, <1>10

LEMMA ResumeInsert ==
    ASSUME Base, ResumeInv, NEW j \in Jobs, Insert(j)
    PROVE  Result(j)'
<1> DEFINE q == job[j]
           r == job'[j]
           n == Target(j)
<1>1. Step(j)
  BY DEF Step
<1>2. /\ q \in JobType /\ JobInv(q) /\ Control(q) /\ JobGood(q) /\ q.pc = "insert"
      /\ saved' = saved /\ robbed' = robbed /\ SavedInv /\ IsFiniteSet(table["staging"].rows)
      /\ r.kind = q.kind /\ r.file = q.file
  BY <1>1, Facts DEF Insert
<1>3. n = Place(q) /\ n \in Names /\ table \in [Names -> TableType] /\ table[n] \in TableType
      /\ n \in {"main", "staging"} /\ "main" \in Names /\ "staging" \in Names
  BY <1>1, Facts DEF Target, Place, Names
<1>4. PICK row \in q.todo :
         \/ /\ table' = [table EXCEPT ![n].rows = @ \cup {row}]
            /\ job' = [job EXCEPT ![j].todo = @ \ {row}]
         \/ (Goto(j, "duplicate") \/ Goto(j, "failed")) /\ UNCHANGED table
  BY DEF Insert
<1>5. CASE (Goto(j, "duplicate") \/ Goto(j, "failed")) /\ UNCHANGED table
  <2>1. SavedInv' /\ IsFiniteSet(table'["staging"].rows)
    BY <1>2, <1>5, SavedStays
  <2>2. ~Active(j)'
    BY <1>1, <1>5, Facts DEF Goto, JobType, Active, Ended
  <2> QED
    BY <2>1, <2>2 DEF Result
<1>6. CASE /\ table' = [table EXCEPT ![n].rows = @ \cup {row}]
           /\ job' = [job EXCEPT ![j].todo = @ \ {row}]
  <2> DEFINE todo == q.todo \ {row}
             rows == table[n].rows \cup {row}
  <2>1. r = [q EXCEPT !.todo = todo] /\ table'[n] = [table[n] EXCEPT !.rows = rows]
        /\ \A m \in Names \ {n} : table'[m] = table[m]
    BY <1>1, <1>3, <1>6, Facts
  <2>2. rows \cup todo = table[n].rows \cup q.todo /\ table[n].rows \subseteq rows
    BY <1>4
  <2>3. IsFiniteSet(table[n].rows) => IsFiniteSet(rows)
    BY FS_AddElement
  <2> HIDE DEF todo, rows, r, q, n
  <2>4. /\ r.pc = "insert" /\ r.at = q.at /\ r.chunks = q.chunks /\ r.todo = todo
        /\ table'[n].rows = rows /\ table'[n].exists = table[n].exists
    BY <1>2, <1>3, <2>1 DEF JobType, TableType
  <2>5. Place(r) = n /\ Part(r, q.at) = Part(q, q.at) /\ Part(r, q.at + 1) = Part(q, q.at + 1)
    BY <1>2, <1>3 DEF Place, Part
  <2>6. Control(job[j])'
    BY <1>2, <2>4 DEF Control, r
  <2>7. Loaded(q, table[n], table["main"]) => Loaded(job[j], table[Place(job[j])], table["main"])'
    BY <1>2, <2>2, <2>4, <2>5 DEF Loaded, r
  <2>8. q.kind = "RESEED" /\ Exact(q, table["staging"]) => Exact(job[j], table["staging"])'
    <3>1. q.kind = "RESEED" => n = "staging"
      BY <1>3 DEF Place, Staged
    <3> QED
      BY <1>2, <2>2, <2>4, <3>1 DEF Exact, r
  <2>9. IsFiniteSet(table'["staging"].rows)
    BY <1>2, <1>3, <2>1, <2>3, <2>4
  <2>10. table["main"].rows \subseteq table'["main"].rows
    BY <1>3, <2>1, <2>2, <2>4
  <2>11. CASE n = "main"
    <3>1. table'["staging"] = table["staging"]
      BY <1>3, <2>1, <2>11
    <3>2. SavedInv'
      BY <1>2, <2>10, <3>1, SavedStays
    <3> QED
      BY <1>2, <1>3, <2>6, <2>7, <2>8, <2>9, <3>2 DEF Result, JobGood, r
  <2>12. CASE n = "staging"
    <3>1. "RESEED" \in robbed \/ saved["RESEED"] = NoTask
      <4>1. q.kind \in Staged
        BY <1>3, <2>12 DEF Place
      <4> QED
        BY <1>2, <4>1 DEF Control, Tasks
    <3>2. SavedInv'
      BY <1>2, <2>10, <3>1 DEF SavedInv
    <3> QED
      BY <1>2, <1>3, <2>6, <2>7, <2>8, <2>9, <3>2 DEF Result, JobGood, r
  <2> QED
    BY <1>3, <2>11, <2>12
<1> QED
  BY <1>4, <1>5, <1>6

LEMMA ResumeLoadBatch ==
    ASSUME Base, ResumeInv, NEW j \in Jobs, LoadBatch(j)
    PROVE  Result(j)'
<1> DEFINE q == job[j]
           r == job'[j]
           rows == LoadRows(q.file)
           upto == IF q.at + ImportChunk < Len(rows) THEN q.at + ImportChunk ELSE Len(rows)
           keys == {KeyOf(rows[n]) : n \in (q.at + 1)..upto}
<1>1. Step(j)
  BY DEF Step
<1>2. /\ q \in JobType /\ JobInv(q) /\ Control(q) /\ JobGood(q) /\ q.pc = "load" /\ q.kind \in Loads
      /\ saved' = saved /\ robbed' = robbed /\ SavedInv /\ IsFiniteSet(table["staging"].rows)
      /\ r.kind = q.kind /\ r.file = q.file /\ table["main"].exists
  BY <1>1, Facts DEF LoadBatch
<1>3. /\ q.kind \notin Imports /\ q.kind \notin Staged /\ q.kind \notin Tasks /\ q.kind # "RESEED"
      /\ Place(q) = "main" /\ Place(r) = "main" /\ q.kind \notin {"dry run", "dump"}
  BY <1>2 DEF Loads, Imports, Staged, Tasks, Place
<1>4. q.at \in Nat /\ Len(rows) \in Nat /\ q.at <= Len(rows) /\ upto \in Nat /\ upto <= Len(rows)
      /\ q.at <= upto /\ ((q.at + 1)..upto = {} => q.at = Len(rows))
  <2>1. q.at \in Nat /\ Len(rows) \in Nat /\ ImportChunk \in Nat \ {0}
    BY <1>2, FileRecords, Constants, ChunkAssumption DEF JobType
  <2>2. q.at <= Len(rows)
    <3> HIDE DEF q
    <3>1. q.pc = "load" /\ q.kind \in Loads => q.at <= Len(LoadRows(q.file))
      BY <1>2, Zenon DEF Control
    <3> QED
      BY <1>2, <3>1
  <2> DEFINE len == Len(rows)
  <2> HIDE DEF len, q
  <2>3. /\ upto = IF q.at + ImportChunk < len THEN q.at + ImportChunk ELSE len
        /\ q.at \in Nat /\ len \in Nat /\ ImportChunk \in Nat \ {0} /\ q.at <= len
    BY <2>1, <2>2 DEF len
  <2> HIDE DEF upto, rows
  <2>4. upto \in Nat /\ upto <= len /\ q.at <= upto /\ (q.at # len => q.at + 1 <= upto)
    BY <2>3
  <2>5. q.at # len => q.at + 1 \in (q.at + 1)..upto
    BY <2>3, <2>4
  <2> QED
    BY <2>3, <2>4, <2>5 DEF len
<1>5. /\ KeysUpTo(q.file, 0) = {} /\ LoadKeysUpTo(q.file, upto) = LoadKeysUpTo(q.file, q.at) \cup keys
      /\ LoadKeysUpTo(q.file, Len(rows)) = LoadKeys(q.file)
  BY <1>4, LoadOn, NothingRead DEF LoadKeys, LoadKeysUpTo
<1>6. \/ Goto(j, "failed") /\ UNCHANGED table
      \/ (q.at + 1)..upto = {} /\ Goto(j, "finish") /\ UNCHANGED table
      \/ table' = [table EXCEPT !["main"].rows = @ \cup keys] /\ job' = [job EXCEPT ![j].at = upto]
  BY DEF LoadBatch
<1>7. table'["staging"] = table["staging"] /\ table["main"].rows \subseteq table'["main"].rows
  <2>1. ~Swap(j)
    BY <1>2 DEF Swap
  <2> QED
    BY <1>1, <1>3, <2>1, StepOfTables
<1>8. SavedInv' /\ IsFiniteSet(table'["staging"].rows)
  BY <1>2, <1>7, SavedStays
<1>9. \A n : Part(q, n) = LoadKeysUpTo(q.file, n) /\ Part(r, n) = LoadKeysUpTo(q.file, n)
  BY <1>2, <1>3 DEF Part
<1>10. Goal(r) = LoadKeys(q.file)
  BY <1>2, <1>3 DEF Goal
<1>11. q.kind \notin robbed
  BY <1>1, <1>3 DEF Base, TypeOK
<1>12. LoadKeysUpTo(q.file, q.at) \subseteq table["main"].rows
  BY <1>2, <1>3, <1>9, <1>11 DEF JobGood, Loaded
<1>13. CASE Goto(j, "failed")
  <2>1. ~Active(j)'
    BY <1>1, <1>13, Facts DEF Goto, JobType, Active, Ended
  <2> QED
    BY <1>8, <2>1 DEF Result
<1>14. CASE (q.at + 1)..upto = {} /\ Goto(j, "finish") /\ UNCHANGED table
  <2>1. r.pc = "finish"
    BY <1>1, <1>14, Facts DEF Goto, JobType
  <2> HIDE DEF q, r, rows, upto, keys
  <2>2. Control(job[j])'
    BY <1>2, <1>3, <2>1 DEF Control, r
  <2>3. Loaded(job[j], table[Place(job[j])], table["main"])'
    BY <1>4, <1>5, <1>10, <1>12, <1>14, <2>1 DEF Loaded, r, rows
  <2> QED
    BY <1>2, <1>3, <1>8, <2>2, <2>3 DEF Result, JobGood, r
<1>15. CASE table' = [table EXCEPT !["main"].rows = @ \cup keys] /\ job' = [job EXCEPT ![j].at = upto]
  <2>1. r = [q EXCEPT !.at = upto] /\ table'["main"] = [table["main"] EXCEPT !.rows = @ \cup keys]
    BY <1>1, <1>15, Facts
  <2> HIDE DEF upto, keys, q, r, rows
  <2>2. r.pc = "load" /\ r.at = upto
    BY <1>2, <2>1 DEF JobType
  <2>3. table'["main"].rows = table["main"].rows \cup keys
    BY <1>1, <2>1, Facts DEF TableType
  <2>4. Control(job[j])'
    BY <1>2, <1>3, <1>4, <2>2 DEF Control, r, rows
  <2>5. Loaded(job[j], table[Place(job[j])], table["main"])'
    BY <1>2, <1>3, <1>5, <1>9, <1>12, <2>2, <2>3 DEF Loaded, r
  <2> QED
    BY <1>2, <1>3, <1>8, <2>4, <2>5 DEF Result, JobGood, r
<1> QED
  BY <1>6, <1>13, <1>14, <1>15

(* A swap moves the rows to the live table.  An interrupted SEED that it   *)
(* does not rob finds there the whole source.                              *)
LEMMA ResumeSwap ==
    ASSUME Base, ResumeInv, NEW j \in Jobs, Swap(j)
    PROVE  Result(j)'
<1> DEFINE q == job[j]
           r == job'[j]
           main == table["main"]
           staging == table["staging"]
<1>1. Step(j)
  BY DEF Step
<1>2. /\ q \in JobType /\ JobInv(q) /\ Control(q) /\ JobGood(q) /\ q.pc = "swap"
      /\ saved' = saved /\ SavedInv /\ IsFiniteSet(staging.rows)
      /\ r.kind = q.kind /\ r.file = q.file
      /\ "staging" \in Names /\ table \in [Names -> TableType]
  BY <1>1, Facts DEF Swap
<1>3. CASE Goto(j, "failed") /\ UNCHANGED <<table, robbed>>
  <2>1. SavedInv' /\ IsFiniteSet(table'["staging"].rows)
    BY <1>2, <1>3, SavedStays
  <2>2. ~Active(j)'
    BY <1>1, <1>3, Facts DEF Goto, JobType, Active, Ended
  <2> QED
    BY <2>1, <2>2 DEF Result
<1>4. CASE /\ staging.exists /\ Goto(j, "index")
           /\ table' = [main |-> staging, staging |-> Absent,
                        backup |-> IF DropBackup THEN Absent ELSE main]
           /\ robbed' = IF Pending("SEED") /\ ~(Source \subseteq staging.rows)
                        THEN robbed \cup {"SEED"} ELSE robbed
  <2>1. table'["main"] = staging /\ table'["staging"] = Absent
    BY <1>4
  <2>2. table'["staging"].rows = {} /\ ~table'["staging"].exists
    BY <2>1 DEF Absent
  <2>3. r = [q EXCEPT !.pc = "index"]
    BY <1>1, <1>4, Facts DEF Goto
  <2>4. r.pc = "index" /\ r.at = q.at /\ r.chunks = q.chunks
    BY <1>2, <2>3 DEF JobType
  <2>5. q.kind \in Staged /\ Place(q) = "staging" /\ q.kind \notin {"dry run", "dump"}
        /\ q.kind # "SEED"
    BY <1>2 DEF JobInv, Place, Staged
  <2>6. robbed \subseteq robbed' /\ robbed' \subseteq robbed \cup {"SEED"}
    BY <1>4
  <2> HIDE DEF q, r, main, staging
  <2>7. Control(job[j])'
    BY <1>2, <2>4, <2>5, <2>6 DEF Control, r
  <2>8. q.kind \notin robbed => Loaded(job[j], table[Place(job[j])], table["main"])'
    <3>1. q.kind \notin robbed => Goal(q) \subseteq staging.rows
      BY <1>2, <1>4, <2>5 DEF JobGood, Loaded, staging, main
    <3>2. Goal(r) = Goal(q)
      BY <1>2 DEF Goal
    <3> QED
      BY <2>1, <2>4, <3>1, <3>2 DEF Loaded, r
  <2>9. Exact(job[j], table["staging"])'
    BY <2>2, <2>4 DEF Exact, r
  <2>10. SavedInv'
    <3>1. ASSUME "SEED" \notin robbed', saved["SEED"] # NoTask
          PROVE  PagesUpTo(saved["SEED"]) \subseteq table'["main"].rows
      <4>1. Source \subseteq staging.rows
        BY <1>4, <3>1 DEF Pending
      <4>2. saved["SEED"] \in Nat
        BY <3>1 DEF Base, TypeOK, Tasks
      <4> QED
        BY <2>1, <4>1, <4>2, PagesEnd
    <3>2. Held(saved["RESEED"], table'["staging"])
      BY <2>2 DEF Held
    <3> QED
      BY <1>2, <3>1, <3>2 DEF SavedInv, Held, Enough, Between
  <2> QED
    BY <1>2, <2>2, <2>6, <2>7, <2>8, <2>9, <2>10, FS_EmptySet DEF Result, JobGood, r
<1>5. \/ Goto(j, "failed") /\ UNCHANGED <<table, robbed>>
      \/ /\ staging.exists /\ Goto(j, "index")
         /\ table' = [main |-> staging, staging |-> Absent,
                      backup |-> IF DropBackup THEN Absent ELSE main]
         /\ robbed' = IF Pending("SEED") /\ ~(Source \subseteq staging.rows)
                      THEN robbed \cup {"SEED"} ELSE robbed
  BY DEF Swap
<1> QED
  BY <1>3, <1>4, <1>5

(* A rebuild touches indexes only. *)
LEMMA IndexRows ==
    ASSUME Base, NEW j \in Jobs, StartIndex(j) \/ FinishIndex(j)
    PROVE  table'["main"].rows = table["main"].rows /\ table'["staging"] = table["staging"]
<1>1. table \in [Names -> TableType] /\ table["main"] \in TableType
      /\ "main" \in Names /\ "staging" \in Names
  BY DEF Base, TypeOK, Names
<1>2. \/ UNCHANGED table
      \/ \E v, w : table' = [table EXCEPT !["main"].invalid = w, !["main"].valid = v]
  BY StartTables, FinishTables
<1>3. CASE \E v, w : table' = [table EXCEPT !["main"].invalid = w, !["main"].valid = v]
  <2>1. PICK v, w : table' = [table EXCEPT !["main"].invalid = w, !["main"].valid = v]
    BY <1>3
  <2> DEFINE t == [table["main"] EXCEPT !.invalid = w, !.valid = v]
  <2>2. t.rows = table["main"].rows /\ table' = [table EXCEPT !["main"] = t]
    BY <1>1, <2>1 DEF TableType
  <2> HIDE DEF t
  <2> QED
    BY <1>1, <2>2
<1> QED
  BY <1>2, <1>3

LEMMA ResumeIndex ==
    ASSUME Base, ResumeInv, NEW j \in Jobs, StartIndex(j) \/ FinishIndex(j)
    PROVE  Result(j)'
<1> DEFINE q == job[j]
           r == job'[j]
<1>1. Step(j)
  BY DEF Step
<1>2. /\ q \in JobType /\ JobInv(q) /\ Control(q) /\ JobGood(q) /\ q.pc \in {"index", "building"}
      /\ saved' = saved /\ robbed' = robbed /\ SavedInv /\ IsFiniteSet(table["staging"].rows)
      /\ r.kind = q.kind /\ r.file = q.file
  BY <1>1, Facts DEF StartIndex, FinishIndex
<1>3. table'["main"].rows = table["main"].rows /\ table'["staging"] = table["staging"]
  BY IndexRows
<1>4. SavedInv' /\ IsFiniteSet(table'["staging"].rows)
  BY <1>2, <1>3, SavedStays
<1>5. r.pc \in {"index", "building", "completed"} /\ r.at = q.at /\ r.chunks = q.chunks
  <2>1. \/ Goto(j, "completed") \/ Goto(j, "building")
        \/ \E n : job' = [job EXCEPT ![j].built = n]
        \/ \E n : r = [q EXCEPT !.pc = "index", !.built = n]
    BY StartTables, FinishTables
  <2>2. CASE Goto(j, "completed") \/ Goto(j, "building")
    BY <1>1, <2>2, Facts DEF Goto, JobType
  <2>3. CASE \E n : job' = [job EXCEPT ![j].built = n]
    BY <1>1, <1>2, <2>3, Facts DEF JobType
  <2>4. CASE \E n : r = [q EXCEPT !.pc = "index", !.built = n]
    BY <1>2, <2>4 DEF JobType
  <2> QED
    BY <2>1, <2>2, <2>3, <2>4
<1> HIDE DEF q, r
<1>6. CASE r.pc = "completed"
  <2>1. ~Active(j)'
    BY <1>6 DEF Active, Ended, r
  <2> QED
    BY <1>4, <2>1 DEF Result
<1>7. CASE r.pc \in {"index", "building"}
  <2>1. Control(job[j])'
    BY <1>2, <1>5, <1>7 DEF Control, r
  <2>2. Loaded(q, table[Place(q)], table["main"]) => Loaded(job[j], table[Place(job[j])], table["main"])'
    <3>1. Goal(r) = Goal(q)
      BY <1>2 DEF Goal
    <3> QED
      BY <1>2, <1>3, <1>7, <3>1 DEF Loaded, r
  <2>3. Exact(q, table["staging"]) => Exact(job[j], table["staging"])'
    BY <1>2, <1>3, <1>7 DEF Exact, r
  <2> QED
    BY <1>2, <1>4, <2>1, <2>2, <2>3 DEF Result, JobGood, r
<1> QED
  BY <1>5, <1>6, <1>7

LEMMA ResumeOther ==
    ASSUME Base, ResumeInv, NEW j \in Jobs, DumpRow(j) \/ Finish(j) \/ Fail(j)
    PROVE  Result(j)'
<1>1. Step(j)
  BY DEF Step
<1>2. /\ job[j] \in JobType /\ JobInv(job[j]) /\ Control(job[j]) /\ job'[j].kind = job[j].kind
      /\ table' = table /\ saved' = saved /\ robbed' = robbed
      /\ SavedInv /\ IsFiniteSet(table["staging"].rows)
  BY <1>1, Facts DEF DumpRow, Finish, Fail
<1>3. SavedInv' /\ IsFiniteSet(table'["staging"].rows)
  BY <1>2, SavedStays
<1>4. CASE Finish(j) \/ Fail(j)
  <2>1. ~Active(j)'
    BY <1>1, <1>4, Facts DEF Finish, Fail, Goto, JobType, Active, Ended
  <2> QED
    BY <1>3, <2>1 DEF Result
<1>5. CASE DumpRow(j)
  <2>1. job[j].kind = "dump"
    BY <1>2, <1>5 DEF DumpRow, JobInv
  <2>2. job'[j].pc \in {"dump", "finish"}
    <3>1. CASE Goto(j, "finish")
      BY <1>1, <3>1, Facts DEF Goto, JobType
    <3>2. CASE \E t, o : job' = [job EXCEPT ![j].todo = t, ![j].out = o]
      <4>1. PICK t, o : job' = [job EXCEPT ![j].todo = t, ![j].out = o]
        BY <3>2
      <4>2. job'[j] = [job[j] EXCEPT !.todo = t, !.out = o] /\ job[j].pc = "dump"
        BY <1>1, <1>5, <4>1, Facts DEF DumpRow
      <4> QED
        BY <1>2, <4>2 DEF JobType
    <3>3. Goto(j, "finish") \/ \E t, o : job' = [job EXCEPT ![j].todo = t, ![j].out = o]
      BY <1>5 DEF DumpRow
    <3> QED
      BY <3>1, <3>2, <3>3
  <2>3. Control(job[j])'
    BY <1>2, <2>1, <2>2 DEF Control, Tasks, Staged, Loads
  <2> QED
    BY <1>2, <1>3, <2>1, <2>3 DEF Result, JobGood
<1> QED
  BY <1>4, <1>5

(* What an interrupted SEED has loaded is live. *)
LEMMA SeedCheckpoint ==
    ASSUME NEW q \in JobType, JobInv(q), Control(q), Loaded(q, table["main"], table["main"]),
           table["main"].exists, q.kind = "SEED",
           q.pc \notin {"idle"} \cup Ended
    PROVE  PagesUpTo(q.chunks) \subseteq table["main"].rows
<1>1. /\ q.kind \notin Staged /\ q.kind \notin Imports /\ q.kind \notin Loads /\ q.kind \in Tasks
      /\ q.kind # "dump" /\ q.kind # "RESEED" /\ q.at \in Nat
  BY DEF Staged, Imports, Loads, Tasks, JobType
<1>2. q.at = q.chunks
  BY <1>1 DEF Control
<1>3. q.pc \in {"load", "insert", "finish"}
  BY <1>1 DEF JobInv, JobType
<1>4. Part(q, q.at) = PagesUpTo(q.at) /\ Goal(q) = Source
  BY <1>1 DEF Part, Goal
<1>5. PagesUpTo(q.at) \subseteq Source
  BY <1>1, PagesEnd
<1> QED
  BY <1>1, <1>2, <1>3, <1>4, <1>5 DEF Loaded

(* What an interrupted RESEED has put into the staging table matches the   *)
(* checkpoint that is saved for it, unless that is outdated and 2.         *)
LEMMA ReseedCheckpoint ==
    ASSUME NEW q \in JobType, JobInv(q), Control(q), NEW t, Loaded(q, t, table["main"]),
           Exact(q, t), q.kind = "RESEED", q.pc \notin {"idle"} \cup Ended,
           q.at = q.chunks \/ q.chunks # 2
    PROVE  Held(q.chunks, t)
<1>1. /\ q.kind \in Staged /\ q.kind \notin Imports /\ q.kind \notin Loads /\ q.kind \in Tasks
      /\ q.kind # "dump" /\ q.at \in Nat /\ q.chunks \in Nat
  BY DEF Staged, Imports, Loads, Tasks, JobType
<1>2. q.pc \in {"prepare", "recreate", "load", "insert", "swap", "index", "building"}
  BY <1>1 DEF JobInv, JobType, Control
<1>3. /\ \A n : Part(q, n) = PagesUpTo(n)
      /\ Goal(q) = Source
  BY <1>1 DEF Part, Goal
<1>4. CASE q.pc \in {"prepare", "recreate", "index", "building"}
  BY <1>4 DEF Exact, Held
<1>5. CASE q.pc \in {"load", "insert"} /\ q.at = q.chunks
  <2>1. t.exists => PagesUpTo(q.at) \subseteq t.rows
    BY <1>1, <1>3, <1>5 DEF Loaded
  <2>2. t.exists => t.rows \subseteq PagesUpTo(q.at + 1)
    BY <1>5 DEF Exact
  <2> QED
    BY <1>5, <2>1, <2>2 DEF Held, Between
<1>6. CASE q.pc \in {"load", "insert"} /\ q.at # q.chunks
  <2>1. q.at = 0 /\ q.chunks >= 3
    BY <1>1, <1>6 DEF Control
  <2>2. t.exists => t.rows \subseteq PagesUpTo(1)
    BY <1>6, <2>1 DEF Exact
  <2> QED
    BY <1>1, <2>1, <2>2, FirstPage DEF Held
<1>7. CASE q.pc = "swap"
  <2>1. q.at = q.chunks
    BY <1>1, <1>7 DEF Control
  <2>2. t.exists => Source \subseteq t.rows /\ t.rows \subseteq PagesUpTo(q.at)
    BY <1>3, <1>7 DEF Loaded, Exact
  <2>3. PagesUpTo(q.at) \subseteq Source /\ PagesUpTo(q.at) \subseteq PagesUpTo(q.at + 1)
    BY <1>1, PagesEnd, PagesMonotone
  <2> QED
    BY <2>1, <2>2, <2>3 DEF Held, Between
<1> QED
  BY <1>2, <1>4, <1>5, <1>6, <1>7

LEMMA ResumeInterrupt ==
    ASSUME Base, ResumeInv, NEW j \in Jobs, Interrupt(j)
    PROVE  Result(j)'
<1> DEFINE q == job[j]
<1>1. Step(j)
  BY DEF Step
<1>2. /\ q \in JobType /\ JobInv(q) /\ Control(q) /\ JobGood(q) /\ q.kind \in Tasks
      /\ q.pc \notin {"idle"} \cup Ended
      /\ table' = table /\ SavedInv /\ IsFiniteSet(table["staging"].rows) /\ table["main"].exists
  BY <1>1, Facts DEF Interrupt, Active
<1>3. ~Active(j)'
  BY <1>1, Facts DEF Interrupt, Goto, JobType, Active, Ended
<1>4. /\ saved'[q.kind] = q.chunks /\ \A o \in Tasks \ {q.kind} : saved'[o] = saved[o]
      /\ robbed \subseteq robbed' /\ (Outdated(j) /\ q.chunks = 2 => "RESEED" \in robbed')
  BY <1>2 DEF Interrupt, Base, TypeOK
<1>5. Outdated(j) <=> q.kind = "RESEED" /\ q.at # q.chunks
  BY DEF Outdated
<1> HIDE DEF q
<1>6. "SEED" \notin robbed' /\ saved'["SEED"] # NoTask
      => PagesUpTo(saved'["SEED"]) \subseteq table["main"].rows
  <2>1. CASE q.kind = "SEED"
    <3>1. "SEED" \notin robbed => Loaded(q, table["main"], table["main"])
      BY <1>2, <2>1 DEF JobGood, Place, Staged
    <3>2. "SEED" \notin robbed => PagesUpTo(q.chunks) \subseteq table["main"].rows
      BY <1>2, <2>1, <3>1, SeedCheckpoint
    <3> QED
      BY <1>4, <2>1, <3>2
  <2>2. CASE q.kind # "SEED"
    BY <1>2, <1>4, <2>2 DEF SavedInv, Tasks
  <2> QED
    BY <2>1, <2>2
<1>7. "RESEED" \notin robbed' /\ saved'["RESEED"] # NoTask => Held(saved'["RESEED"], table["staging"])
  <2>1. CASE q.kind = "RESEED"
    <3>1. "RESEED" \notin robbed => /\ Loaded(q, table["staging"], table["main"])
                                    /\ Exact(q, table["staging"])
      BY <1>2, <2>1 DEF JobGood, Place, Staged
    <3>2. "RESEED" \notin robbed /\ (q.at = q.chunks \/ q.chunks # 2) => Held(q.chunks, table["staging"])
      BY <1>2, <2>1, <3>1, ReseedCheckpoint
    <3> QED
      BY <1>4, <1>5, <2>1, <3>2
  <2>2. CASE q.kind # "RESEED"
    BY <1>2, <1>4, <2>2 DEF SavedInv, Tasks
  <2> QED
    BY <2>1, <2>2
<1>8. SavedInv'
  BY <1>2, <1>6, <1>7 DEF SavedInv, Held, Enough, Between
<1> QED
  BY <1>2, <1>3, <1>8 DEF Result

(* A run that begins has loaded what its checkpoint says. *)
LEMMA ResumeBegin ==
    ASSUME Base, SavedInv, IsFiniteSet(table["staging"].rows),
           NEW j \in Jobs, NEW k \in Kinds, Begin(j, k)
    PROVE  Result(j)'
<1> DEFINE r == job'[j]
           first == StartOf(k)
<1>1. /\ r.kind = k /\ r.pc = FirstStep(k) /\ r.at = first /\ r.chunks = first
  BY BeginFields
<1>2. table' = table /\ table["main"].exists
  BY DEF Begin, Base, TypeOK
<1>3. saved \in [Tasks -> Nat \cup {NoTask}] /\ robbed \subseteq Tasks
  BY DEF Base, TypeOK
<1>4. /\ saved' = IF k \in Tasks THEN [saved EXCEPT ![k] = NoTask] ELSE saved
      /\ robbed' = IF k \in Tasks /\ saved[k] = NoTask THEN robbed \ {k} ELSE robbed
  BY DEF Begin
<1>5. k \in {"script", "dump"} \cup Tasks \cup Imports \cup Loads
  BY KindsAssumption
<1>6. SavedInv'
  <2>1. ASSUME NEW o \in Tasks, o \notin robbed', saved'[o] # NoTask
        PROVE  o \notin robbed /\ saved[o] # NoTask /\ saved'[o] = saved[o]
    BY <1>3, <1>4, <2>1
  <2>2. "SEED" \in Tasks /\ "RESEED" \in Tasks
    BY DEF Tasks
  <2> QED
    BY <1>2, <2>1, <2>2 DEF SavedInv, Held, Enough, Between
<1>7. /\ k \in Staged => FirstStep(k) = "prepare"
      /\ k \in {"SEED"} \cup Loads \cup {"upsert", "dry run"} => FirstStep(k) = "load"
      /\ k = "dump" => FirstStep(k) = "dump"
      /\ FirstStep(k) \in {"prepare", "dump", "load"}
  BY DEF FirstStep, Staged, Loads
<1>8. /\ k \notin Tasks => first = 0
      /\ k \in Tasks /\ saved[k] = NoTask => first = 0
      /\ k \in Tasks /\ saved[k] # NoTask => first = saved[k]
      /\ k \in Tasks => saved'[k] = NoTask
  BY <1>3, <1>4 DEF StartOf
<1> HIDE DEF r, first
<1>9. Control(job[j])'
  <2>1. k \in Staged \ {"RESEED"} => k \notin Tasks
    BY DEF Staged, Tasks
  <2>2. k # "none"
    BY <1>5 DEF Tasks, Imports, Loads
  <2>3. k \in Loads => first <= Len(LoadRows(r.file))
    <3>1. k \in Loads => k \notin Tasks
      BY DEF Loads, Tasks
    <3>2. r.file \in FileType
      BY BaseBegin, Constants DEF Base, TypeOK, JobType, r
    <3> QED
      BY <1>8, <3>1, <3>2, FileRecords
  <2> QED
    BY <1>1, <1>7, <1>8, <2>1, <2>2, <2>3 DEF Control, r
<1>10. k \notin {"dry run", "dump"} \cup robbed' => Loaded(job[j], table[Place(job[j])], table["main"])'
  <2>1. CASE first = 0
    BY <1>1, <1>7, <2>1, PartStart DEF Loaded, r
  <2>2. CASE k = "SEED" /\ first # 0
    <3>1. saved["SEED"] # NoTask /\ first = saved["SEED"] /\ "SEED" \in Tasks
      BY <1>8, <2>2 DEF Tasks
    <3>2. k \notin robbed' => PagesUpTo(first) \subseteq table["main"].rows
      BY <1>4, <2>2, <3>1 DEF SavedInv
    <3>3. Part(r, first) = PagesUpTo(first) /\ Place(r) = "main"
      BY <1>1, <2>2 DEF Part, Place, Imports, Loads, Staged
    <3> QED
      BY <1>1, <1>2, <1>7, <2>2, <3>2, <3>3 DEF Loaded, r
  <2>3. CASE k = "RESEED"
    <3>1. r.pc = "prepare"
      BY <1>1, <1>7, <2>3 DEF Staged
    <3> QED
      BY <3>1 DEF Loaded, r
  <2>4. k \in Tasks \/ first = 0
    BY <1>8
  <2> QED
    BY <2>1, <2>2, <2>3, <2>4 DEF Tasks
<1>11. k = "RESEED" /\ "RESEED" \notin robbed' => Exact(job[j], table["staging"])'
  <2>1. SUFFICES ASSUME k = "RESEED", "RESEED" \notin robbed'
                 PROVE  Exact(job[j], table["staging"])'
    OBVIOUS
  <2>2. r.pc = "prepare" /\ "RESEED" \in Tasks
    BY <1>1, <1>7, <2>1 DEF Staged, Tasks
  <2>3. Held(first, table["staging"])
    <3>1. CASE saved["RESEED"] = NoTask
      BY <1>8, <2>1, <2>2, <3>1 DEF Held
    <3>2. CASE saved["RESEED"] # NoTask
      BY <1>4, <1>8, <2>1, <2>2, <3>2 DEF SavedInv
    <3> QED
      BY <3>1, <3>2
  <2>4. Held(job[j].chunks, table["staging"])'
    BY <1>1, <1>2, <2>3 DEF Held, Enough, Between, r
  <2> QED
    BY <2>2, <2>4 DEF Exact, r
<1> QED
  BY <1>1, <1>2, <1>6, <1>9, <1>10, <1>11 DEF Result, JobGood, r

----------------------------------------------------------------------------
(* The invariant holds, and what follows *)

LEMMA ResumeInit == Init => ResumeInv
<1> SUFFICES ASSUME Init PROVE ResumeInv
  OBVIOUS
<1>1. \A j \in Jobs : ~Active(j)
  BY DEF Init, Idle, Active
<1>2. saved["SEED"] = NoTask /\ saved["RESEED"] = NoTask
  BY DEF Init, Tasks
<1>3. table["staging"] = Absent
  BY DEF Init, Names
<1> QED
  BY <1>1, <1>2, <1>3, FS_EmptySet DEF ResumeInv, Single, SavedInv, Absent

(* The only job that is active makes the step. *)
LEMMA ResumeStep ==
    ASSUME ~Overlap, Base, ResumeInv, NEW j \in Jobs, Step(j)
    PROVE  ResumeInv'
<1>1. Result(j)'
  BY ResumePrepare, ResumeRecreate, ResumeLoadPage, ResumeLoadRecords, ResumeInsert, ResumeChunkDone,
     ResumeLoadBatch, ResumeSwap, ResumeIndex, ResumeOther, ResumeInterrupt DEF Step
<1>2. \A i \in Jobs \ {j} : ~Active(i)'
  BY OthersStay DEF ResumeInv, Single, Active
<1> QED
  BY <1>1, <1>2 DEF Result, ResumeInv, Single

LEMMA ResumeNext == ~Overlap /\ Base /\ ResumeInv /\ [Next]_vars => ResumeInv'
<1> SUFFICES ASSUME ~Overlap, Base, ResumeInv, [Next]_vars PROVE ResumeInv'
  OBVIOUS
<1>1. ASSUME NEW j \in Jobs, Step(j) PROVE ResumeInv'
  BY <1>1, ResumeStep
<1>2. ASSUME NEW j \in Jobs, NEW k \in Kinds, Begin(j, k) PROVE ResumeInv'
  <2>1. Result(j)'
    BY <1>2, ResumeBegin DEF ResumeInv
  <2>2. \A i \in Jobs : ~Active(i)
    BY <1>2 DEF Begin
  <2>3. \A i \in Jobs \ {j} : ~Active(i)'
    BY <1>2, <2>2, BeginFields DEF Active
  <2> QED
    BY <2>1, <2>3 DEF Result, ResumeInv, Single
<1>3. ASSUME UNCHANGED vars PROVE ResumeInv'
  <2>1. \A j \in Jobs : (Active(j)' <=> Active(j)) /\ (JobGood(job[j])' <=> JobGood(job[j]))
    BY <1>3 DEF vars, Active, JobGood, Control, Loaded, Exact, Held, Enough, Between
  <2>2. SavedInv' <=> SavedInv
    BY <1>3 DEF vars, SavedInv, Held, Enough, Between
  <2> QED
    BY <1>3, <2>1, <2>2 DEF vars, ResumeInv, Single
<1> QED
  BY <1>1, <1>2, <1>3 DEF Next, Step

(* RESEED publishes the source and nothing else, through any number of     *)
(* interrupts, failures and jobs in between, for a source of any pages, if *)
(* no job runs next to another.                                            *)
THEOREM ReseedsAreWhole == ASSUME ~Overlap PROVE Spec => ReseedIsWhole
<1>1. Base /\ ResumeInv /\ [Next]_vars =>
         [\A j \in Jobs :
             job[j].kind = "RESEED" /\ job[j].pc = "swap" /\ job'[j].pc = "index"
             /\ "RESEED" \notin robbed => table'["main"].rows = Source]_vars
  <2> SUFFICES ASSUME Base, ResumeInv, [Next]_vars, NEW j \in Jobs, job[j].kind = "RESEED",
                      job[j].pc = "swap", job'[j].pc = "index", "RESEED" \notin robbed
               PROVE  table'["main"].rows = Source
    OBVIOUS
  <2>1. Swap(j) /\ table'["main"] = table["staging"] /\ table["staging"].exists
    <3>1. Swap(j) /\ table'["main"] = table["staging"]
      BY ToIndex
    <3>2. job \in [Jobs -> JobType] /\ job[j] \in JobType
      BY DEF Base, TypeOK
    <3>3. Goto(j, "failed") => job'[j].pc = "failed"
      BY <3>2 DEF Goto, JobType
    <3> QED
      BY <3>1, <3>3 DEF Swap
  <2>2. Active(j) /\ job[j].at \in Nat
    BY DEF Active, Ended, Base, TypeOK, JobType
  <2>3. Loaded(job[j], table["staging"], table["main"]) /\ Exact(job[j], table["staging"])
    BY <2>2 DEF ResumeInv, JobGood, Place, Staged
  <2>4. Source \subseteq table["staging"].rows
    BY <2>1, <2>3 DEF Loaded, Goal, Imports, Loads
  <2>5. table["staging"].rows \subseteq Source
    BY <2>1, <2>2, <2>3, PagesEnd DEF Exact
  <2> QED
    BY <2>1, <2>4, <2>5
<1> QED
  BY BaseInit, BaseStep, ResumeInit, ResumeNext, <1>1, PTL DEF Spec, ReseedIsWhole

(* A job comes to COMPLETED from the end of its code. *)
LEMMA ToCompleted ==
    ASSUME Base, [Next]_vars, NEW j \in Jobs, job[j].pc # "completed", job'[j].pc = "completed"
    PROVE  /\ job[j].pc \in {"index", "finish"}
           /\ table'["main"].rows = table["main"].rows
<1>1. job \in [Jobs -> JobType]
  BY DEF Base, TypeOK
<1>2. PICK i \in Jobs : Step(i) \/ \E k \in Kinds : Begin(i, k)
  BY DEF Next, Step, vars
<1>3. i = j /\ Step(j)
  <2>1. ASSUME NEW k \in Kinds, Begin(i, k) PROVE FALSE
    <3>1. FirstStep(k) # "completed"
      BY DEF FirstStep
    <3> QED
      BY <2>1, <3>1, BeginFields
  <2> QED
    BY <1>2, <2>1, OthersStay
<1>4. Finish(j) \/ StartIndex(j)
  BY <1>1, <1>3, StepOfJob
<1>5. CASE Finish(j)
  BY <1>5 DEF Finish
<1>6. CASE StartIndex(j)
  <2>1. UNCHANGED table
    <3>1. ~Goto(j, "building") /\ \A n : job' # [job EXCEPT ![j].built = n]
      BY <1>1, <1>6 DEF Goto, StartIndex, JobType
    <3> QED
      BY <1>6, <3>1, StartTables
  <2> QED
    BY <1>6, <2>1 DEF StartIndex
<1> QED
  BY <1>4, <1>5, <1>6

(* A job that says COMPLETED has left the source, or its file, in the live *)
(* table: a SEED whose pages several interrupted runs have loaded, a load  *)
(* or an import in chunks of any size, a swap with its rebuild.            *)
THEOREM CompletedAreLoaded == ASSUME ~Overlap PROVE Spec => CompletedIsLoaded
<1>1. Base /\ ResumeInv /\ [Next]_vars =>
         [\A j \in Jobs :
             job[j].pc # "completed" /\ job'[j].pc = "completed"
             /\ job[j].kind \notin {"dry run", "dump"} \cup robbed
             => (IF job[j].kind \in Imports THEN Keys(job[j].file)
                 ELSE IF job[j].kind \in Loads THEN LoadKeys(job[j].file) ELSE Source)
                \subseteq table'["main"].rows]_vars
  <2> SUFFICES ASSUME Base, ResumeInv, [Next]_vars, NEW j \in Jobs,
                      job[j].pc # "completed", job'[j].pc = "completed",
                      job[j].kind \notin {"dry run", "dump"} \cup robbed
               PROVE  Goal(job[j]) \subseteq table'["main"].rows
    BY DEF Goal
  <2>1. job[j].pc \in {"index", "finish"} /\ table'["main"].rows = table["main"].rows
    BY ToCompleted
  <2>2. Loaded(job[j], table[Place(job[j])], table["main"])
    BY <2>1 DEF Active, Ended, ResumeInv, JobGood
  <2> QED
    BY <2>1, <2>2 DEF Loaded
<1> QED
  BY BaseInit, BaseStep, ResumeInit, ResumeNext, <1>1, PTL DEF Spec, CompletedIsLoaded

----------------------------------------------------------------------------
(* The live table of Ingestion is that of LiveTable                        *)

(* What the script has put into the staging table, and what it still has   *)
(* to insert, is of the source.  Jobs that follow each other share nothing.*)
Scripted(q, rows) ==
    q.kind = "script" =>
        /\ q.pc \in {"load", "insert", "swap"} => rows \subseteq Source
        /\ q.pc = "insert" => q.todo \subseteq Source
StoreInv ==
    \A j \in Jobs : ~job[j].shared /\ (Active(j) => Scripted(job[j], table["staging"].rows))

LEMMA ScriptedInsert ==
    ASSUME Base, ResumeInv, NEW j \in Jobs, Insert(j), job[j].kind = "script",
           Scripted(job[j], table["staging"].rows), job'[j].pc = "insert"
    PROVE  table'["staging"].rows \subseteq Source /\ job'[j].todo \subseteq Source
<1> DEFINE q == job[j]
<1>1. /\ job \in [Jobs -> JobType] /\ q \in JobType /\ q.pc = "insert"
      /\ q.todo \subseteq Source /\ table["staging"].rows \subseteq Source
  BY DEF Base, TypeOK, Insert, Scripted
<1>2. Target(j) = "staging" /\ "staging" \in Names
  BY DEF Target, Staged, Names
<1>3. PICK row \in q.todo :
         \/ /\ table' = [table EXCEPT !["staging"].rows = @ \cup {row}]
            /\ job' = [job EXCEPT ![j].todo = @ \ {row}]
         \/ Goto(j, "duplicate") \/ Goto(j, "failed")
  BY <1>2 DEF Insert
<1>4. ~Goto(j, "duplicate") /\ ~Goto(j, "failed")
  BY <1>1 DEF Goto, JobType
<1> DEFINE todo == q.todo \ {row}
<1>5. job'[j] = [q EXCEPT !.todo = todo]
  BY <1>1, <1>3, <1>4
<1> HIDE DEF q, todo
<1>6. job'[j].todo = todo
  BY <1>1, <1>5 DEF JobType
<1>7. table["staging"] \in TableType /\ table \in [Names -> TableType]
  BY <1>2 DEF Base, TypeOK
<1>8. table'["staging"].rows = table["staging"].rows \cup {row}
  <2> DEFINE new == table["staging"].rows \cup {row}
  <2>1. table' = [table EXCEPT !["staging"].rows = new]
    BY <1>3, <1>4
  <2> HIDE DEF new
  <2>2. table'["staging"] = [table["staging"] EXCEPT !.rows = new]
    BY <1>2, <1>7, <2>1
  <2>3. table'["staging"].rows = new
    BY <1>7, <2>2 DEF TableType
  <2> QED
    BY <2>3 DEF new
<1> QED
  BY <1>1, <1>3, <1>6, <1>8 DEF todo

(* Every step of the script keeps its staging table to the source.         *)
LEMMA ScriptedStep ==
    ASSUME Base, ResumeInv, NEW j \in Jobs, Step(j), Scripted(job[j], table["staging"].rows)
    PROVE  Scripted(job'[j], table'["staging"].rows)
<1>1. /\ job \in [Jobs -> JobType] /\ job[j] \in JobType /\ Control(job[j])
      /\ job'[j].kind = job[j].kind
  BY Facts
<1>2. SUFFICES ASSUME job[j].kind = "script", job'[j].pc \in {"load", "insert", "swap"}
               PROVE  /\ table'["staging"].rows \subseteq Source
                      /\ job'[j].pc = "insert" => job'[j].todo \subseteq Source
  BY <1>1 DEF Scripted
<1>3. "script" \notin Imports /\ "script" \notin Loads /\ "script" \in Staged \ {"RESEED"}
  BY DEF Imports, Loads, Staged
<1>4. ~Prepare(j)
  <2> SUFFICES ASSUME Prepare(j) PROVE FALSE
    OBVIOUS
  <2>1. job[j].at = 0
    BY <1>1, <1>2, <1>3 DEF Prepare, Control
  <2>2. job' = [job EXCEPT ![j].pc = "recreate", ![j].at = 0]
    BY <2>1 DEF Prepare
  <2> QED
    BY <1>1, <1>2, <2>2 DEF JobType
<1>5. CASE Recreate(j)
  <2>1. job'[j].pc = "load"
    BY <1>1, <1>5 DEF Recreate, Goto, JobType
  <2>2. table'["staging"].rows = {}
    BY <1>5, Facts DEF Recreate, Fresh, Absent
  <2> QED
    BY <2>1, <2>2
<1>6. CASE LoadPage(j)
  <2> DEFINE rows == RowsOf(job[j].at + 1)
  <2>1. job'[j] = [job[j] EXCEPT !.pc = "insert", !.todo = rows]
    BY <1>1, <1>6 DEF LoadPage
  <2>2. rows \subseteq Source
    BY RowsOfSource
  <2> HIDE DEF rows
  <2>3. job'[j].todo = rows
    BY <1>1, <2>1 DEF JobType
  <2>4. table' = table /\ job[j].pc = "load"
    BY <1>6 DEF LoadPage
  <2> QED
    BY <1>2, <2>2, <2>3, <2>4 DEF Scripted
<1>7. CASE Insert(j)
  <2>1. job'[j].pc = "insert"
    <3>1. job[j].pc = "insert"
      BY <1>7 DEF Insert
    <3>2. \/ \E row : job' = [job EXCEPT ![j].todo = @ \ {row}]
          \/ Goto(j, "duplicate") \/ Goto(j, "failed")
      BY <1>7 DEF Insert
    <3> QED
      BY <1>1, <1>2, <3>1, <3>2 DEF Goto, JobType
  <2> QED
    BY <1>2, <1>7, <2>1, ScriptedInsert
<1>8. CASE ChunkDone(j)
  <2>1. job'[j].pc # "insert"
    <3>1. PICK a, p : /\ p \in {"load", "swap", "finish"}
                      /\ job' = [job EXCEPT ![j].at = a, ![j].chunks = a, ![j].pc = p]
      BY <1>2, <1>3, <1>8 DEF ChunkDone
    <3>2. job'[j] = [job[j] EXCEPT !.at = a, !.chunks = a, !.pc = p]
      BY <1>1, <3>1
    <3> QED
      BY <1>1, <3>1, <3>2 DEF JobType
  <2>2. table' = table /\ job[j].pc = "insert"
    BY <1>8 DEF ChunkDone
  <2> QED
    BY <1>2, <2>1, <2>2 DEF Scripted
<1>9. ~LoadRecords(j) /\ ~LoadBatch(j)
  BY <1>2, <1>3 DEF LoadRecords, LoadBatch
<1>10. ~DumpRow(j)
  BY <1>2 DEF DumpRow, Base, JobInv
<1>11. ~Finish(j) /\ ~Fail(j) /\ ~Interrupt(j) /\ ~Swap(j)
  BY <1>1, <1>2 DEF Finish, Fail, Interrupt, Swap, Goto, JobType
<1>12. ~StartIndex(j)
  <2> SUFFICES ASSUME StartIndex(j) PROVE FALSE
    OBVIOUS
  <2>1. job[j].pc = "index" /\ (\/ Goto(j, "completed") \/ Goto(j, "building")
                                \/ \E n : job' = [job EXCEPT ![j].built = n])
    BY DEF StartIndex
  <2> QED
    BY <1>1, <1>2, <2>1 DEF Goto, JobType
<1>13. ~FinishIndex(j)
  <2> SUFFICES ASSUME FinishIndex(j) PROVE FALSE
    OBVIOUS
  <2>1. \E n : job'[j] = [job[j] EXCEPT !.pc = "index", !.built = n]
    BY FinishTables
  <2> QED
    BY <1>1, <1>2, <2>1 DEF JobType
<1> QED
  BY <1>4, <1>5, <1>6, <1>7, <1>8, <1>9, <1>10, <1>11, <1>12, <1>13 DEF Step

LEMMA StoreInit == Init => StoreInv
<1> SUFFICES ASSUME Init, NEW j \in Jobs
             PROVE  ~job[j].shared /\ ~Active(j)
  BY DEF StoreInv
<1> QED
  BY DEF Init, Idle, Active

LEMMA StoreNext == ~Overlap /\ Base /\ ResumeInv /\ StoreInv /\ [Next]_vars => StoreInv'
<1> SUFFICES ASSUME ~Overlap, Base, ResumeInv, StoreInv, [Next]_vars PROVE StoreInv'
  OBVIOUS
<1>1. ASSUME NEW j \in Jobs, Step(j) PROVE StoreInv'
  <2>1. /\ \A i \in Jobs \ {j} : job'[i] = job[i] /\ ~Active(i)
        /\ Active(j) /\ job'[j].shared = job[j].shared
    BY <1>1, OthersStay, StepOfJob DEF ResumeInv, Single
  <2>2. Scripted(job'[j], table'["staging"].rows)
    BY <1>1, <2>1, ScriptedStep DEF StoreInv
  <2> QED
    BY <2>1, <2>2 DEF StoreInv, Active
<1>2. ASSUME NEW j \in Jobs, NEW k \in Kinds, Begin(j, k) PROVE StoreInv'
  <2>1. \A i \in Jobs : ~Active(i)
    BY <1>2 DEF Begin
  <2>2. Sharing(k) = {}
    BY <2>1 DEF Sharing
  <2>3. /\ \A i \in Jobs : ~job'[i].shared
        /\ \A i \in Jobs \ {j} : ~Active(i)'
    <3>1. ~job'[j].shared
      BY <1>2, <2>2, BeginFields
    <3>2. \A i \in Jobs \ {j} : job'[i].pc = job[i].pc
      BY <1>2, BeginFields
    <3>3. \A i \in Jobs \ {j} : job'[i].shared = (job[i].shared \/ i \in Sharing(k))
      BY <1>2, BeginFields
    <3>4. ASSUME NEW i \in Jobs \ {j} PROVE ~job'[i].shared
      <4>1. ~job[i].shared /\ i \notin Sharing(k)
        BY <2>2 DEF StoreInv
      <4> QED
        BY <3>3, <4>1
    <3>5. \A i \in Jobs \ {j} : ~Active(i)'
      BY <2>1, <3>2 DEF Active
    <3> QED
      BY <3>1, <3>4, <3>5
  <2>4. Scripted(job'[j], table'["staging"].rows)
    <3>1. k = "script" => FirstStep(k) = "prepare"
      BY DEF FirstStep, Staged
    <3> QED
      BY <1>2, <3>1, BeginFields DEF Scripted
  <2> QED
    BY <2>3, <2>4 DEF StoreInv
<1>3. ASSUME UNCHANGED vars PROVE StoreInv'
  BY <1>3 DEF vars, StoreInv, Active, Scripted
<1> QED
  BY <1>1, <1>2, <1>3 DEF Next, Step

(* A swap publishes a snapshot, unless a RESEED is in doubt.               *)
LEMMA SwapPublishes ==
    ASSUME Base, Base', ResumeInv, Filled, StoreInv, NEW j \in Jobs, Swap(j)
    PROVE  Live!Next \/ UNCHANGED <<table["main"].rows, "RESEED" \in robbed>>
<1>1. Step(j) /\ job[j].pc = "swap"
  BY DEF Step, Swap
<1>2. /\ job[j] \in JobType /\ JobInv(job[j]) /\ JobGood(job[j]) /\ Active(j)
      /\ job[j].kind \in Staged /\ ~job[j].shared
  BY <1>1, Facts, OthersStay DEF JobInv, StoreInv
<1>3. ("RESEED" \in robbed') <=> ("RESEED" \in robbed)
  BY DEF Swap
<1>4. CASE UNCHANGED table
  BY <1>3, <1>4
<1>5. CASE table["staging"].exists /\ table'["main"] = table["staging"]
  <2> DEFINE rows == table["staging"].rows
  <2>1. rows \in SUBSET Row
    BY DEF Base, TypeOK, TableType, Names
  <2>2. CASE job[j].kind \in {"RESEED", "script"} /\ ~(job[j].kind = "RESEED" /\ "RESEED" \in robbed)
    <3>1. job[j].kind \notin {"dry run", "dump"} \cup robbed /\ job[j].kind \notin Imports \cup Loads
      BY <2>2 DEF Base, TypeOK, Tasks, Imports, Loads
    <3>2. Source \subseteq rows
      BY <1>1, <1>2, <1>5, <3>1 DEF JobGood, Loaded, Place, Goal
    <3>3. rows \subseteq Source
      <4>1. CASE job[j].kind = "RESEED"
        <5>1. rows \subseteq PagesUpTo(job[j].at) /\ job[j].at \in Nat
          BY <1>1, <1>2, <1>5, <2>2, <4>1 DEF JobGood, Exact, JobType
        <5> QED
          BY <5>1, PagesEnd
      <4>2. CASE job[j].kind = "script"
        BY <1>1, <1>2, <4>2 DEF StoreInv, Scripted
      <4> QED
        BY <2>2, <4>1, <4>2
    <3>4. table'["main"].rows = Source
      BY <1>5, <3>2, <3>3
    <3> QED
      BY <1>3, <3>4 DEF Live!Next, Live!Publish
  <2>3. CASE job[j].kind = "RESEED" /\ "RESEED" \in robbed
    BY <1>3, <1>5, <2>1, <2>3 DEF Live!Next, Live!PublishAnything
  <2>4. CASE job[j].kind = "replace"
    <3> DEFINE f == job[j].file
    <3>1. table'["main"].rows = Keys(f)
      BY <1>1, <1>2, <1>5, <2>4 DEF Filled, Filling
    <3>2. f \in AllFiles /\ Valid(f)
      BY <1>1, <1>2, <2>4 DEF JobInv, Reading, Imports
    <3> QED
      BY <1>3, <3>1, <3>2 DEF Live!Next, Live!Publish
  <2> QED
    BY <1>2, <2>2, <2>3, <2>4 DEF Staged
<1> QED
  BY <1>4, <1>5, SwapTables

(* Every step maps to one of LiveTable, or to a stutter.                   *)
LEMMA LiveStep ==
    ASSUME Base, Base', ResumeInv, Filled, StoreInv, [Next]_vars
    PROVE  [Live!Next]_<<table["main"].rows, "RESEED" \in robbed>>
<1>1. table'["main"].rows \subseteq Row
  BY DEF Base, TypeOK, TableType, Names
<1>2. ASSUME table'["main"].rows = table["main"].rows
      PROVE  [Live!Next]_<<table["main"].rows, "RESEED" \in robbed>>
  <2>1. CASE ("RESEED" \in robbed') <=> ("RESEED" \in robbed)
    BY <1>2, <2>1
  <2>2. CASE ~(("RESEED" \in robbed') <=> ("RESEED" \in robbed))
    BY <1>2, <2>2 DEF Live!Next, Live!Prepare
  <2> QED
    BY <2>1, <2>2
<1>3. ASSUME NEW j \in Jobs, Step(j), ~Swap(j)
      PROVE  [Live!Next]_<<table["main"].rows, "RESEED" \in robbed>>
  <2>1. CASE Insert(j) \/ LoadBatch(j)
    <3>1. robbed' = robbed /\ table["main"].rows \subseteq table'["main"].rows
      BY <1>3, <2>1, StepOfTables DEF Insert, LoadBatch
    <3> QED
      BY <1>1, <3>1 DEF Live!Next, Live!Add
  <2>2. CASE Recreate(j)
    <3>1. table'["main"] = table["main"]
      BY <1>3, <2>2, Facts DEF Recreate
    <3> QED
      BY <1>2, <3>1
  <2>3. CASE StartIndex(j) \/ FinishIndex(j)
    <3>1. table'["main"].rows = table["main"].rows
      BY <2>3, IndexRows
    <3> QED
      BY <1>2, <3>1
  <2>4. CASE ~Insert(j) /\ ~LoadBatch(j) /\ ~Recreate(j) /\ ~StartIndex(j) /\ ~FinishIndex(j)
    <3>1. table' = table
      BY <1>3, <2>4 DEF Step, Prepare, LoadPage, LoadRecords, ChunkDone, DumpRow, Finish, Fail,
                        Interrupt
    <3> QED
      BY <1>2, <3>1
  <2> QED
    BY <2>1, <2>2, <2>3, <2>4
<1>4. ASSUME NEW j \in Jobs, NEW k \in Kinds, Begin(j, k)
      PROVE  table' = table
  BY <1>4 DEF Begin
<1>5. CASE UNCHANGED vars
  BY <1>2, <1>5 DEF vars
<1> QED
  BY <1>2, <1>3, <1>4, <1>5, SwapPublishes DEF Next, Step

LEMMA LiveInit == Init => Live!Init
<1> SUFFICES ASSUME Init PROVE Live!Init
  OBVIOUS
<1>1. PICK rows \in Before :
         table = [n \in Names |-> IF n = "main"
                                  THEN [Fresh EXCEPT !.rows = rows, !.valid = IndexNames]
                                  ELSE Absent]
  BY DEF Init
<1>2. table["main"].rows = rows
  BY <1>1 DEF Names, Fresh, Absent
<1>3. robbed = {}
  BY DEF Init
<1> QED
  BY <1>2, <1>3 DEF Live!Init

(* A reader of the live table sees it grow, and otherwise only whole       *)
(* snapshots: staging tables, pages, checkpoints, interrupts, failures and *)
(* whatever order the jobs have do not show, unless a RESEED was robbed.   *)
THEOREM ImplementsLiveTable == ASSUME ~Overlap PROVE Spec => KeepsSnapshots
<1>1. Base /\ Base' /\ ResumeInv /\ Filled /\ StoreInv /\ [Next]_vars
      => [Live!Next]_<<table["main"].rows, "RESEED" \in robbed>>
  BY LiveStep
<1> QED
  BY BaseInit, BaseStep, ResumeInit, ResumeNext, AloneInit, AloneNext, StoreInit, StoreNext,
     LiveInit, <1>1, PTL DEF Spec, KeepsSnapshots, Live!Spec

(* A document that the source and every file have never disappears.        *)
THEOREM DocumentsLast == ASSUME ~Overlap PROVE Spec => Live!Lasting
<1>1. [Live!Next]_<<table["main"].rows, "RESEED" \in robbed>>
      => [Live!Lasts]_<<table["main"].rows, "RESEED" \in robbed>>
  BY DEF Live!Next, Live!Add, Live!Publish, Live!PublishAnything, Live!Prepare, Live!Lasts
<1> QED
  BY ImplementsLiveTable, <1>1, PTL DEF KeepsSnapshots, Live!Spec, Live!Lasting
=============================================================================
