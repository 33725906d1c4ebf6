--------------------------- MODULE IngestionProofs ---------------------------
(***************************************************************************)
(* Theorems about Ingestion, for any jobs, sources, files and bounds.      *)
(***************************************************************************)
EXTENDS Ingestion, WellFoundedInduction, TLAPS

----------------------------------------------------------------------------
(* Without, whose recursion takes an induction.  The library's induction   *)
(* theorems are about operators; its theorem on minimal elements is about  *)
(* sets, and serves as well.                                               *)

LEMMA LeastNumber ==
    ASSUME NEW T \in SUBSET Nat, T # {}
    PROVE  \E x \in T : \A y \in T : x <= y
<1> DEFINE R == OpToRel(<, Nat)
<1>1. IsWellFoundedOn(R, Nat)
  BY NatLessThanWellFounded
<1>2. \A x, y \in Nat : <<y, x>> \in R <=> y < x
  BY DEF OpToRel
<1> HIDE DEF R
<1>3. PICK x \in T : \A y \in T : ~(<<y, x>> \in R)
  BY <1>1, WFMin
<1>4. ASSUME NEW y \in T PROVE x <= y
  <2>1. x \in Nat /\ y \in Nat /\ ~(<<y, x>> \in R)
    BY <1>3
  <2>2. ~(y < x)
    BY <1>2, <2>1
  <2> QED
    BY <2>1, <2>2
<1> QED
  BY <1>4


(* What kept is in Without, up to n. *)
KeptStep(g, n, s, out) ==
    IF n = 0 THEN << >> ELSE IF s[n] \in out THEN g[n - 1] ELSE Append(g[n - 1], s[n])
Kept(g, m, s, out) == g = [n \in 0..m |-> KeptStep(g, n, s, out)]

LEMMA KeptExists ==
    ASSUME NEW s, NEW out, NEW m \in Nat
    PROVE  \E g : Kept(g, m, s, out)
<1> DEFINE Bad == {n \in Nat : ~\E g : Kept(g, n, s, out)}
<1>1. SUFFICES ASSUME Bad # {} PROVE FALSE
  OBVIOUS
<1>2. PICK n \in Bad : \A k \in Bad : n <= k
  <2>1. Bad \in SUBSET Nat
    OBVIOUS
  <2> HIDE DEF Bad
  <2> QED
    BY <1>1, <2>1, LeastNumber
<1>3. n # 0
  <2>1. Kept([k \in 0..0 |-> << >>], 0, s, out)
    BY DEF Kept, KeptStep
  <2> QED
    BY <1>2, <2>1
<1>4. n \in Nat /\ n - 1 \in Nat /\ n - 1 \notin Bad
  <2>1. n \in Nat /\ n - 1 \in Nat
    BY <1>2, <1>3
  <2> QED
    BY <1>2, <2>1
<1>5. PICK g : Kept(g, n - 1, s, out)
  BY <1>4
<1> DEFINE h == [k \in 0..n |-> IF k < n THEN g[k] ELSE KeptStep(g, n, s, out)]
<1>6. ASSUME NEW k \in 0..n PROVE h[k] = KeptStep(h, k, s, out)
  <2>1. k # 0 => k - 1 \in 0..n /\ k - 1 < n /\ h[k - 1] = g[k - 1]
    BY <1>4, <1>6
  <2>2. KeptStep(h, k, s, out) = KeptStep(g, k, s, out)
    BY <2>1 DEF KeptStep
  <2>3. k < n => k \in 0..(n - 1) /\ g[k] = KeptStep(g, k, s, out)
    BY <1>4, <1>5, <1>6 DEF Kept
  <2>4. ~(k < n) => k = n
    BY <1>4, <1>6
  <2> QED
    BY <2>2, <2>3, <2>4
<1>7. h = [k \in 0..n |-> h[k]]
  OBVIOUS
<1>8. Kept(h, n, s, out)
  <2> HIDE DEF h
  <2> QED
    BY <1>6, <1>7 DEF Kept
<1> QED
  BY <1>2, <1>8

LEMMA WithoutKept ==
    ASSUME NEW s, NEW out, Len(s) \in Nat
    PROVE  \E g : Kept(g, Len(s), s, out) /\ Without(s, out) = g[Len(s)]
<1> DEFINE f == CHOOSE g : Kept(g, Len(s), s, out)
<1>1. Kept(f, Len(s), s, out)
  BY KeptExists
<1>2. Without(s, out) = f[Len(s)]
  BY DEF Without, Kept, KeptStep
<1> QED
  BY <1>1, <1>2


Entries(s) == {s[i] : i \in 1..Len(s)}

LEMMA AppendEntries ==
    ASSUME NEW S, NEW s \in Seq(S), NEW e \in S
    PROVE  Append(s, e) \in Seq(S) /\ Entries(Append(s, e)) = Entries(s) \cup {e}
<1> DEFINE t == Append(s, e)
<1>1. /\ t \in Seq(S) /\ Len(s) \in Nat /\ Len(t) = Len(s) + 1
      /\ \A i \in 1..Len(s) : t[i] = s[i]
      /\ t[Len(s) + 1] = e
  OBVIOUS
<1> HIDE DEF t
<1>2. 1..Len(t) = (1..Len(s)) \cup {Len(s) + 1}
  BY <1>1
<1>3. Entries(t) = Entries(s) \cup {e}
  BY <1>1, <1>2 DEF Entries
<1> QED
  BY <1>1, <1>3 DEF t

(* It has the entries of the sequence that are not skipped, and no others. *)
LEMMA WithoutEntries ==
    ASSUME NEW S, NEW s \in Seq(S), NEW out
    PROVE  Without(s, out) \in Seq(S) /\ Entries(Without(s, out)) = Entries(s) \ out
<1>1. Len(s) \in Nat /\ \A i \in 1..Len(s) : s[i] \in S
  OBVIOUS
<1>2. PICK g : Kept(g, Len(s), s, out) /\ Without(s, out) = g[Len(s)]
  BY <1>1, WithoutKept
<1>3. \A n \in 0..Len(s) : g[n] = KeptStep(g, n, s, out)
  BY <1>2 DEF Kept
<1> DEFINE Good(n) == g[n] \in Seq(S) /\ Entries(g[n]) = {s[i] : i \in 1..n} \ out
           Bad == {n \in 0..Len(s) : ~Good(n)}
<1>4. Good(0)
  <2>1. g[0] = << >>
    BY <1>1, <1>3 DEF KeptStep
  <2> QED
    BY <2>1 DEF Entries
<1>5. ASSUME NEW n \in 1..Len(s), Good(n - 1)
      PROVE  Good(n)
  <2>1. /\ n \in Nat /\ n \in 0..Len(s) /\ n # 0 /\ s[n] \in S
        /\ {s[i] : i \in 1..n} = {s[i] : i \in 1..(n - 1)} \cup {s[n]}
    <3>1. n \in Nat /\ n \in 0..Len(s) /\ n # 0 /\ s[n] \in S
      BY <1>1
    <3>2. 1..n = (1..(n - 1)) \cup {n}
      BY <3>1
    <3> QED
      BY <3>1, <3>2
  <2>2. g[n] = IF s[n] \in out THEN g[n - 1] ELSE Append(g[n - 1], s[n])
    BY <1>3, <2>1 DEF KeptStep
  <2>3. CASE s[n] \in out
    BY <1>5, <2>1, <2>2, <2>3
  <2>4. CASE s[n] \notin out
    <3>1. g[n] \in Seq(S) /\ Entries(g[n]) = Entries(g[n - 1]) \cup {s[n]}
      BY <1>5, <2>1, <2>2, <2>4, AppendEntries
    <3> QED
      BY <1>5, <2>1, <2>4, <3>1
  <2> QED
    BY <2>3, <2>4
<1>6. Bad = {}
  <2>1. SUFFICES ASSUME Bad # {} PROVE FALSE
    OBVIOUS
  <2>2. PICK n \in Bad : \A k \in Bad : n <= k
    <3>1. Bad \in SUBSET Nat
      BY <1>1
    <3> HIDE DEF Bad
    <3> QED
      BY <2>1, <3>1, LeastNumber
  <2>3. n \in 1..Len(s) /\ n - 1 \in 0..Len(s)
    <3>1. n \in 0..Len(s) /\ n # 0
      BY <1>4
    <3> QED
      BY <1>1, <3>1
  <2>4. n - 1 \notin Bad
    <3> HIDE DEF Bad
    <3>1. n \in Nat /\ ~(n <= n - 1)
      BY <1>1, <2>3
    <3> QED
      BY <2>2, <3>1
  <2>5. Good(n - 1)
    BY <2>3, <2>4
  <2> HIDE DEF Good
  <2> QED
    BY <1>5, <2>3, <2>5
<1>7. Good(Len(s))
  <2> HIDE DEF Good
  <2>1. Len(s) \in 0..Len(s)
    BY <1>1
  <2> QED
    BY <1>6, <2>1
<1>8. Entries(s) = {s[i] : i \in 1..Len(s)}
  BY DEF Entries
<1> QED
  BY <1>2, <1>7, <1>8


(* What is read from a file is a sequence of entries, the header of a CSV  *)
(* file apart: if its first line is there and not blank, it is in lines.   *)
LEMMA FileRecords ==
    ASSUME NEW f \in FileType
    PROVE  Raw(f) \in Seq(EntryType) /\ LoadRows(f) \in Seq(EntryType)
<1> DEFINE lines == Without(f.entries, {Blank})
<1>1. f.format \in {"json", "jsonl", "csv"} /\ f.entries \in Seq(EntryType)
  BY DEF FileType
<1>2. lines \in Seq(EntryType) /\ Entries(lines) = Entries(f.entries) \ {Blank}
  BY <1>1, WithoutEntries
<1>3. LoadRows(f) \in Seq(EntryType)
  BY <1>1, WithoutEntries DEF LoadRows
<1>4. <<Garbled>> \in Seq(EntryType)
  BY DEF Garbled, EntryOf, EntryType
<1>5. ASSUME f.entries # << >>, Head(f.entries) # Blank
      PROVE  lines # << >>
  <2>1. 1 \in 1..Len(f.entries) /\ f.entries[1] = Head(f.entries)
    BY <1>1, <1>5
  <2>2. f.entries[1] \in Entries(lines)
    BY <1>2, <1>5, <2>1 DEF Entries
  <2>3. Entries(<< >>) = {}
    BY DEF Entries
  <2> QED
    BY <2>2, <2>3
<1> HIDE DEF lines
<1>6. CASE f.format = "json"
  <2>1. Raw(f) = <<Garbled>> \/ Raw(f) = lines
    BY <1>6 DEF Raw, lines
  <2> QED
    BY <1>2, <1>3, <1>4, <2>1
<1>7. CASE f.format = "jsonl"
  <2>1. Raw(f) = lines
    BY <1>7 DEF Raw, lines
  <2> QED
    BY <1>2, <1>3, <2>1
<1>8. CASE f.format = "csv"
  <2>1. Raw(f) = IF f.entries = << >> \/ Head(f.entries) = Blank THEN <<Garbled>> ELSE Tail(lines)
    BY <1>8 DEF Raw, lines
  <2>2. lines # << >> => Tail(lines) \in Seq(EntryType)
    BY <1>2
  <2> QED
    BY <1>3, <1>4, <1>5, <2>1, <2>2
<1> QED
  BY <1>1, <1>6, <1>7, <1>8


----------------------------------------------------------------------------
(* Types, and how far an import has read *)

(* The first k entries can be mapped, each to a key of its own.            *)
Unique(raw, k) ==
    \A n \in 1..k : Mappable(raw[n]) /\ KeyOf(raw[n]) \notin {KeyOf(raw[m]) : m \in 1..(n - 1)}

Reading(q) ==
    LET raw == Raw(q.file)
    IN /\ q.pc \in {"prepare", "recreate"} => q.at = 0
       /\ q.pc \in {"load", "insert"} => q.at <= Len(raw) /\ Unique(raw, q.at)
       /\ q.pc = "swap" => q.at = Len(raw)
       /\ q.pc \in {"swap", "index", "building", "finish", "completed"} => Valid(q.file)
       /\ q.pc = "rejected" => ~Valid(q.file)

JobInv(q) ==
    /\ q.kind \in Imports \cup Loads => q.file \in AllFiles
    /\ q.pc = "building" => q.built < Len(Indexes)
    /\ q.pc \in {"prepare", "recreate", "swap", "index", "building"} => q.kind \in Staged
    /\ q.pc = "dump" => q.kind = "dump"
    /\ q.kind \in Imports => Reading(q)

Base == TypeOK /\ \A j \in Jobs : JobInv(job[j])

(* What a file must be is what the reader finds at its end. *)
LEMMA ValidIsUnique ==
    ASSUME NEW f \in FileType
    PROVE  Valid(f) <=> Raw(f) # << >> /\ Unique(Raw(f), Len(Raw(f)))
<1> DEFINE raw == Raw(f)
<1>1. raw \in Seq(EntryType) /\ Len(raw) \in Nat
  BY FileRecords
<1>2. Valid(f) <=> /\ raw # << >>
                   /\ \A n \in 1..Len(raw) : Mappable(raw[n])
                   /\ \A m, n \in 1..Len(raw) : KeyOf(raw[m]) = KeyOf(raw[n]) => m = n
  BY DEF Valid
<1> HIDE DEF raw
<1>3. ASSUME Valid(f), NEW n \in 1..Len(raw)
      PROVE  KeyOf(raw[n]) \notin {KeyOf(raw[m]) : m \in 1..(n - 1)}
  <2>1. ASSUME NEW m \in 1..(n - 1) PROVE KeyOf(raw[n]) # KeyOf(raw[m])
    <3>1. m \in 1..Len(raw) /\ m # n
      BY <1>1
    <3> QED
      BY <1>2, <1>3, <3>1
  <2> QED
    BY <2>1
<1>4. ASSUME Unique(raw, Len(raw)), NEW m \in 1..Len(raw), NEW n \in 1..Len(raw),
             KeyOf(raw[m]) = KeyOf(raw[n])
      PROVE  m = n
  <2>1. CASE m < n
    <3>1. m \in 1..(n - 1)
      BY <1>1, <2>1
    <3> QED
      BY <1>4, <3>1 DEF Unique
  <2>2. CASE n < m
    <3>1. n \in 1..(m - 1)
      BY <1>1, <2>2
    <3> QED
      BY <1>4, <3>1 DEF Unique
  <2> QED
    BY <1>1, <2>1, <2>2
<1>5. Unique(raw, Len(raw)) => \A n \in 1..Len(raw) : Mappable(raw[n])
  BY DEF Unique
<1>6. Valid(f) => Unique(raw, Len(raw))
  BY <1>2, <1>3 DEF Unique
<1>7. raw # << >> /\ Unique(raw, Len(raw)) => Valid(f)
  BY <1>2, <1>4, <1>5
<1> QED
  BY <1>2, <1>6, <1>7 DEF raw

LEMMA Constants ==
    /\ NPages \in Nat /\ Len(Indexes) = 5 /\ NoTask = -1
    /\ IndexNames = {Indexes[1], Indexes[2], Indexes[3], Indexes[4], Indexes[5]}
    /\ AllFiles \cup {NoFile} \subseteq FileType
<1>1. NPages \in Nat /\ NoTask = -1
  BY PageRowsAssumption DEF NPages, NoTask
<1>2. Len(Indexes) = 5
  BY DEF Indexes
<1>3. 1..Len(Indexes) = {1, 2, 3, 4, 5}
  BY <1>2
<1>4. NoFile \in FileType
  BY DEF NoFile, FileType
<1> QED
  BY <1>1, <1>2, <1>3, <1>4, FilesAssumption DEF IndexNames

LEMMA BaseInit == Init => Base
<1> SUFFICES ASSUME Init PROVE Base
  OBVIOUS
<1>1. table["main"].exists /\ table \in [Names -> TableType]
  <2>1. PICK rows \in Before :
           table = [n \in Names |-> IF n = "main"
                                    THEN [Fresh EXCEPT !.rows = rows, !.valid = IndexNames]
                                    ELSE Absent]
    BY DEF Init
  <2>2. Absent \in TableType
    BY DEF Absent, TableType
  <2>3. [Fresh EXCEPT !.rows = rows, !.valid = IndexNames] \in TableType
        /\ [Fresh EXCEPT !.rows = rows, !.valid = IndexNames].exists
    BY DEF Fresh, Absent, TableType, Row
  <2> QED
    BY <2>1, <2>2, <2>3 DEF Names
<1>2. Idle \in JobType
  BY Constants DEF Idle, JobType, Ended
<1>3. JobInv(Idle)
  BY DEF Idle, JobInv, Imports, Loads, Tasks
<1>4. TypeOK
  BY <1>1, <1>2, Constants DEF Init, TypeOK
<1> QED
  BY <1>3, <1>4 DEF Base, Init


(* A step of job j leaves the others as they are. *)
OnlyJob(j) ==
    /\ job'[j] \in JobType /\ JobInv(job'[j])
    /\ job' = [job EXCEPT ![j] = job'[j]]
TablesTyped ==
    /\ table' \in [Names -> TableType] /\ table'["main"].exists
    /\ saved' \in [Tasks -> Nat \cup {NoTask}] /\ robbed' \subseteq Tasks
    /\ used' \in [faults : Nat, interrupts : Nat]

LEMMA BaseOnlyJob ==
    ASSUME Base, NEW j \in Jobs, OnlyJob(j), TablesTyped
    PROVE  Base'
<1>1. job' \in [Jobs -> JobType] /\ \A i \in Jobs : JobInv(job'[i])
  BY DEF Base, TypeOK, OnlyJob
<1> QED
  BY <1>1 DEF Base, TypeOK, TablesTyped

LEMMA SameTables ==
    ASSUME Base, UNCHANGED <<table, saved, robbed, used>>
    PROVE  TablesTyped
BY DEF Base, TypeOK, TablesTyped

(* An ended job owes nothing, except for a rejected import. *)
LEMMA GotoJob ==
    ASSUME Base, NEW j \in Jobs, NEW p, Goto(j, p)
    PROVE  /\ job' = [job EXCEPT ![j] = job'[j]]
           /\ job'[j] = [job[j] EXCEPT !.pc = p]
           /\ p \in {"swap", "load", "index", "building", "finish", "failed", "completed",
                     "duplicate", "interrupted"} => job'[j] \in JobType
           /\ p \in {"failed", "duplicate", "interrupted"} => JobInv(job'[j])
<1>1. job \in [Jobs -> JobType] /\ job[j] \in JobType /\ JobInv(job[j])
  BY DEF Base, TypeOK
<1>2. job'[j] = [job[j] EXCEPT !.pc = p] /\ job' = [job EXCEPT ![j] = job'[j]]
  BY <1>1 DEF Goto
<1>3. ASSUME p \in {"swap", "load", "index", "building", "finish", "failed", "completed",
                    "duplicate", "interrupted"}
      PROVE  job'[j] \in JobType
  BY <1>1, <1>2, <1>3 DEF JobType, Ended
<1>4. ASSUME p \in {"failed", "duplicate", "interrupted"}
      PROVE  JobInv(job'[j])
  <2>1. /\ job'[j].kind = job[j].kind /\ job'[j].file = job[j].file
        /\ job'[j].chunks = job[j].chunks /\ job'[j].pc = p
    BY <1>1, <1>2 DEF JobType
  <2> QED
    BY <1>1, <1>4, <2>1 DEF JobInv, Reading
<1> QED
  BY <1>2, <1>3, <1>4

LEMMA BasePrepare ==
    ASSUME Base, NEW j \in Jobs, Prepare(j)
    PROVE  OnlyJob(j) /\ TablesTyped
<1>1. job \in [Jobs -> JobType] /\ job[j] \in JobType /\ JobInv(job[j])
  BY DEF Base, TypeOK
<1>2. PICK keep \in BOOLEAN :
         /\ keep => job[j].at > 0
         /\ job' = [job EXCEPT ![j].pc = IF keep THEN "load" ELSE "recreate",
                               ![j].at = IF keep THEN @ ELSE 0]
  BY DEF Prepare
<1>3. job'[j] = [job[j] EXCEPT !.pc = IF keep THEN "load" ELSE "recreate",
                               !.at = IF keep THEN @ ELSE 0]
      /\ job' = [job EXCEPT ![j] = job'[j]]
  BY <1>1, <1>2
<1>4. /\ job'[j].kind = job[j].kind /\ job'[j].file = job[j].file
      /\ job'[j].chunks = job[j].chunks
      /\ job'[j].pc = (IF keep THEN "load" ELSE "recreate")
      /\ job'[j].at = (IF keep THEN job[j].at ELSE 0)
  BY <1>1, <1>3 DEF JobType
<1>5. job'[j] \in JobType
  <2>1. CASE keep
    <3>1. job'[j] = [job[j] EXCEPT !.pc = "load", !.at = job[j].at]
      BY <1>3, <2>1
    <3> QED
      BY <1>1, <3>1 DEF JobType
  <2>2. CASE ~keep
    <3> DEFINE q == [job[j] EXCEPT !.pc = "recreate"]
    <3>1. q \in JobType
      BY <1>1 DEF JobType
    <3>2. job'[j] = [q EXCEPT !.at = 0]
      BY <1>3, <2>2
    <3> HIDE DEF q
    <3> QED
      BY <3>1, <3>2 DEF JobType
  <2> QED
    BY <2>1, <2>2
<1>6. JobInv(job'[j])
  BY <1>1, <1>2, <1>4 DEF JobInv, Reading, JobType, Prepare
<1>7. UNCHANGED <<table, saved, robbed, used>>
  BY DEF Prepare
<1> QED
  BY <1>3, <1>5, <1>6, <1>7, SameTables DEF OnlyJob


LEMMA BaseRecreate ==
    ASSUME Base, NEW j \in Jobs, Recreate(j)
    PROVE  OnlyJob(j) /\ TablesTyped
<1>1. job \in [Jobs -> JobType] /\ job[j] \in JobType /\ JobInv(job[j]) /\ job[j].pc = "recreate"
  BY DEF Base, TypeOK, Recreate
<1>2. /\ job' = [job EXCEPT ![j] = job'[j]]
      /\ job'[j] = [job[j] EXCEPT !.pc = "load"]
      /\ job'[j] \in JobType
  BY GotoJob DEF Recreate
<1>3. /\ job'[j].kind = job[j].kind /\ job'[j].file = job[j].file /\ job'[j].at = job[j].at
      /\ job'[j].chunks = job[j].chunks /\ job'[j].pc = "load"
  BY <1>1, <1>2 DEF JobType
<1>4. job[j].kind \in Imports => job[j].at = 0 /\ Len(Raw(job[j].file)) \in Nat
  BY <1>1, FileRecords, Constants DEF JobInv, Reading
<1>5. JobInv(job'[j])
  BY <1>1, <1>3, <1>4 DEF JobInv, Reading, Unique
<1>6. Fresh \in TableType
  BY DEF Fresh, Absent, TableType
<1>7. TablesTyped
  BY <1>6 DEF Recreate, RobReseed, TablesTyped, Base, TypeOK, Names, Tasks
<1> QED
  BY <1>2, <1>5, <1>7 DEF OnlyJob

LEMMA RowsOfSource ==
    ASSUME NEW p
    PROVE  RowsOf(p) \subseteq Source /\ RowsOf(p) \subseteq Row
BY DEF RowsOf, Source, PagesUpTo, Row

LEMMA RowsOfFiles ==
    ASSUME NEW f \in AllFiles
    PROVE  Keys(f) \subseteq Row /\ LoadKeys(f) \subseteq Row
<1> DEFINE both == Keys(f) \cup LoadKeys(f)
           all == {Keys(g) \cup LoadKeys(g) : g \in AllFiles}
<1>1. both \in all
  OBVIOUS
<1>2. UNION all \subseteq Row
  BY DEF Row
<1>3. Keys(f) \subseteq both /\ LoadKeys(f) \subseteq both
  OBVIOUS
<1> HIDE DEF both, all
<1> QED
  BY <1>1, <1>2, <1>3

LEMMA BaseLoadPage ==
    ASSUME Base, NEW j \in Jobs, LoadPage(j)
    PROVE  OnlyJob(j) /\ TablesTyped
<1>1. job \in [Jobs -> JobType] /\ job[j] \in JobType /\ JobInv(job[j])
      /\ job[j].kind \notin Imports \cup Loads
  BY DEF Base, TypeOK, LoadPage
<1> DEFINE rows == RowsOf(job[j].at + 1)
<1>2. rows \in SUBSET Row
  BY RowsOfSource
<1>3. job' = [job EXCEPT ![j] = job'[j]] /\ job'[j] = [job[j] EXCEPT !.pc = "insert", !.todo = rows]
  BY <1>1 DEF LoadPage
<1> HIDE DEF rows
<1>4. job'[j] \in JobType
  BY <1>1, <1>2, <1>3 DEF JobType
<1>5. /\ job'[j].kind = job[j].kind /\ job'[j].file = job[j].file
      /\ job'[j].chunks = job[j].chunks /\ job'[j].pc = "insert"
  BY <1>1, <1>3 DEF JobType
<1>6. JobInv(job'[j])
  BY <1>1, <1>5 DEF JobInv
<1>7. TablesTyped
  BY SameTables DEF LoadPage
<1> QED
  BY <1>3, <1>4, <1>6, <1>7 DEF OnlyJob


(* The loop of import_file: a chunk without a bad entry extends what was   *)
(* read, and the end of the file is reached without one.                   *)
Upto(q) ==
    IF q.at + ImportChunk < Len(Raw(q.file)) THEN q.at + ImportChunk ELSE Len(Raw(q.file))
Bad(q) ==
    \E n \in (q.at + 1)..Upto(q) :
        \/ ~Mappable(Raw(q.file)[n])
        \/ KeyOf(Raw(q.file)[n]) \in {KeyOf(Raw(q.file)[m]) : m \in 1..(n - 1)}

LEMMA ReadChunk ==
    ASSUME NEW q \in JobType, Reading(q), q.pc = "load"
    PROVE  /\ Upto(q) \in Nat /\ q.at <= Upto(q) /\ Upto(q) <= Len(Raw(q.file))
           /\ Bad(q) \/ Raw(q.file) = << >> => ~Valid(q.file)
           /\ ~Bad(q) => Unique(Raw(q.file), Upto(q))
           /\ ~Bad(q) /\ Raw(q.file) # << >> /\ q.at = Upto(q)
              => Valid(q.file) /\ q.at = Len(Raw(q.file))
<1> DEFINE raw == Raw(q.file)
           upto == Upto(q)
           seen(n) == {KeyOf(raw[m]) : m \in 1..(n - 1)}
<1>1. q.file \in FileType /\ Len(raw) \in Nat /\ q.at \in Nat /\ ImportChunk \in Nat \ {0}
  BY FileRecords, Constants, ChunkAssumption DEF JobType
<1>2. q.at <= Len(raw) /\ Unique(raw, q.at)
  BY DEF Reading
<1>3. upto = IF q.at + ImportChunk < Len(raw) THEN q.at + ImportChunk ELSE Len(raw)
  BY DEF Upto
<1>4. Bad(q) <=> \E n \in (q.at + 1)..upto : ~Mappable(raw[n]) \/ KeyOf(raw[n]) \in seen(n)
  BY DEF Bad
<1>5. \A k : Unique(raw, k) <=> \A n \in 1..k : Mappable(raw[n]) /\ KeyOf(raw[n]) \notin seen(n)
  BY DEF Unique
<1>6. Valid(q.file) <=> raw # << >> /\ Unique(raw, Len(raw))
  BY <1>1, ValidIsUnique
<1> HIDE DEF raw, upto, seen
<1>7. /\ upto \in Nat /\ q.at <= upto /\ upto <= Len(raw)
      /\ q.at = upto => q.at = Len(raw)
  BY <1>1, <1>2, <1>3
<1>8. ASSUME ~Bad(q) PROVE Unique(raw, upto)
  <2>1. ASSUME NEW n \in 1..upto PROVE Mappable(raw[n]) /\ KeyOf(raw[n]) \notin seen(n)
    <3>1. CASE n <= q.at
      <4>1. n \in 1..q.at
        BY <1>1, <1>7, <3>1
      <4> QED
        BY <1>2, <1>5, <4>1
    <3>2. CASE ~(n <= q.at)
      <4>1. n \in (q.at + 1)..upto
        BY <1>1, <1>7, <3>2
      <4> QED
        BY <1>4, <1>8, <4>1
    <3> QED
      BY <3>1, <3>2
  <2> QED
    BY <1>5, <2>1
<1>9. ASSUME Bad(q) PROVE ~Unique(raw, Len(raw))
  <2>1. PICK n \in (q.at + 1)..upto : ~Mappable(raw[n]) \/ KeyOf(raw[n]) \in seen(n)
    BY <1>4, <1>9
  <2>2. n \in 1..Len(raw)
    BY <1>1, <1>7
  <2> QED
    BY <1>5, <2>1, <2>2
<1>10. ~Bad(q) /\ q.at = upto => Unique(raw, Len(raw)) /\ q.at = Len(raw)
  BY <1>7, <1>8
<1> QED
  BY <1>6, <1>7, <1>8, <1>9, <1>10 DEF raw, upto

LEMMA BaseLoadRecords ==
    ASSUME Base, NEW j \in Jobs, LoadRecords(j)
    PROVE  OnlyJob(j) /\ TablesTyped
<1> DEFINE q == job[j]
           raw == Raw(q.file)
           keys == {KeyOf(raw[n]) : n \in (q.at + 1)..Upto(q)}
           todo == IF q.kind = "dry run" THEN {} ELSE keys
           last == IF q.kind = "replace" THEN "swap" ELSE "finish"
<1>1. job \in [Jobs -> JobType] /\ q \in JobType /\ JobInv(q) /\ q.pc = "load" /\ q.kind \in Imports
  BY DEF Base, TypeOK, LoadRecords
<1>2. Reading(q) /\ q.file \in AllFiles /\ q.at \in Nat
  BY <1>1 DEF JobInv, JobType
<1>3. job' = IF Bad(q) \/ raw = << >> THEN [job EXCEPT ![j].pc = "rejected"]
             ELSE IF q.at = Upto(q) THEN [job EXCEPT ![j].pc = last]
             ELSE [job EXCEPT ![j].pc = "insert", ![j].at = Upto(q), ![j].todo = todo]
  BY DEF LoadRecords, Bad, Upto, SeenIds
<1>4. /\ Upto(q) \in Nat /\ q.at <= Upto(q) /\ Upto(q) <= Len(raw)
      /\ Bad(q) \/ raw = << >> => ~Valid(q.file)
      /\ ~Bad(q) => Unique(raw, Upto(q))
      /\ ~Bad(q) /\ raw # << >> /\ q.at = Upto(q) => Valid(q.file) /\ q.at = Len(raw)
  BY <1>1, <1>2, ReadChunk
<1>5. todo \in SUBSET Row
  <2>1. keys \subseteq Keys(q.file)
    <3>1. Len(raw) \in Nat
      BY <1>2, FileRecords, FilesAssumption
    <3>2. (q.at + 1)..Upto(q) \subseteq 1..Len(raw)
      BY <1>2, <1>4, <3>1
    <3> QED
      BY <3>2 DEF Keys
  <2>2. Keys(q.file) \subseteq Row
    BY <1>2, RowsOfFiles
  <2> QED
    BY <2>1, <2>2
<1>6. TablesTyped
  BY SameTables DEF LoadRecords
<1>7. last \in {"swap", "finish"} /\ (last = "swap" => q.kind \in Staged)
  BY DEF Staged
<1> HIDE DEF q, raw, todo, last
<1>8. q = job[j] /\ raw = Raw(q.file)
  BY DEF q, raw
<1>9. CASE Bad(q) \/ raw = << >>
  <2>1. job'[j] = [q EXCEPT !.pc = "rejected"] /\ job' = [job EXCEPT ![j] = job'[j]]
    BY <1>1, <1>3, <1>8, <1>9
  <2>2. job'[j] \in JobType
    BY <1>1, <2>1 DEF JobType, Ended
  <2>3. /\ job'[j].kind = q.kind /\ job'[j].file = q.file /\ job'[j].chunks = q.chunks
        /\ job'[j].pc = "rejected"
    BY <1>1, <2>1 DEF JobType
  <2>4. JobInv(job'[j])
    BY <1>1, <1>4, <1>9, <2>3 DEF JobInv, Reading
  <2> QED
    BY <1>6, <2>1, <2>2, <2>4 DEF OnlyJob
<1>10. CASE ~(Bad(q) \/ raw = << >>) /\ q.at = Upto(q)
  <2>1. job'[j] = [q EXCEPT !.pc = last] /\ job' = [job EXCEPT ![j] = job'[j]]
    BY <1>1, <1>3, <1>8, <1>10
  <2>2. job'[j] \in JobType
    BY <1>1, <1>7, <2>1 DEF JobType
  <2>3. /\ job'[j].kind = q.kind /\ job'[j].file = q.file /\ job'[j].chunks = q.chunks
        /\ job'[j].pc = last /\ job'[j].at = q.at
    BY <1>1, <2>1 DEF JobType
  <2>4. JobInv(job'[j])
    BY <1>1, <1>4, <1>7, <1>8, <1>10, <2>3 DEF JobInv, Reading
  <2> QED
    BY <1>6, <2>1, <2>2, <2>4 DEF OnlyJob
<1>11. CASE ~(Bad(q) \/ raw = << >>) /\ q.at # Upto(q)
  <2>1. job'[j] = [q EXCEPT !.pc = "insert", !.at = Upto(q), !.todo = todo]
        /\ job' = [job EXCEPT ![j] = job'[j]]
    BY <1>1, <1>3, <1>8, <1>11
  <2>2. job'[j] \in JobType
    BY <1>1, <1>4, <1>5, <2>1 DEF JobType
  <2>3. /\ job'[j].kind = q.kind /\ job'[j].file = q.file /\ job'[j].chunks = q.chunks
        /\ job'[j].pc = "insert" /\ job'[j].at = Upto(q)
    BY <1>1, <2>1 DEF JobType
  <2>4. JobInv(job'[j])
    BY <1>1, <1>4, <1>8, <1>11, <2>3 DEF JobInv, Reading
  <2> QED
    BY <1>6, <2>1, <2>2, <2>4 DEF OnlyJob
<1> QED
  BY <1>9, <1>10, <1>11


(* A row more in a table that is there, and the same other tables. *)
LEMMA MoreRows ==
    ASSUME Base, NEW n \in Names, NEW new \in SUBSET Row,
           table' = [table EXCEPT ![n].rows = @ \cup new]
    PROVE  /\ table' \in [Names -> TableType] /\ table'["main"].exists
           /\ \A m \in Names :
                 /\ table'[m].rows = IF m = n THEN table[n].rows \cup new ELSE table[m].rows
                 /\ table'[m].exists = table[m].exists
                 /\ table'[m].valid = table[m].valid /\ table'[m].invalid = table[m].invalid
<1>1. table \in [Names -> TableType] /\ table["main"].exists /\ "main" \in Names
  BY DEF Base, TypeOK, Names
<1> DEFINE t == [table[n] EXCEPT !.rows = table[n].rows \cup new]
<1>2. table[n] \in TableType
  BY <1>1
<1>3. /\ t \in TableType /\ t.rows = table[n].rows \cup new /\ t.exists = table[n].exists
      /\ t.valid = table[n].valid /\ t.invalid = table[n].invalid
  BY <1>2 DEF TableType
<1>4. table' = [table EXCEPT ![n] = t]
  BY <1>1
<1> HIDE DEF t
<1>5. \A m \in Names : table'[m] = IF m = n THEN t ELSE table[m]
  BY <1>1, <1>4
<1>6. table' \in [Names -> TableType]
  BY <1>1, <1>3, <1>4
<1> QED
  BY <1>1, <1>3, <1>5, <1>6

LEMMA BaseInsert ==
    ASSUME Base, NEW j \in Jobs, Insert(j)
    PROVE  OnlyJob(j) /\ TablesTyped
<1>1. job \in [Jobs -> JobType] /\ job[j] \in JobType /\ JobInv(job[j]) /\ job[j].pc = "insert"
  BY DEF Base, TypeOK, Insert
<1>2. Target(j) \in Names
  BY DEF Target, Names
<1>3. PICK row \in job[j].todo :
         \/ /\ table' = [table EXCEPT ![Target(j)].rows = @ \cup {row}]
            /\ job' = [job EXCEPT ![j].todo = @ \ {row}]
         \/ /\ Goto(j, "duplicate") \/ Goto(j, "failed")
            /\ UNCHANGED table
  BY DEF Insert
<1>4. {row} \in SUBSET Row /\ job[j].todo \ {row} \in SUBSET Row
  BY <1>1 DEF JobType
<1>5. UNCHANGED <<saved, robbed, used>>
  BY DEF Insert
<1>6. CASE /\ table' = [table EXCEPT ![Target(j)].rows = @ \cup {row}]
           /\ job' = [job EXCEPT ![j].todo = @ \ {row}]
  <2>1. table' \in [Names -> TableType] /\ table'["main"].exists
    BY <1>2, <1>4, <1>6, MoreRows
  <2>2. job'[j] = [job[j] EXCEPT !.todo = job[j].todo \ {row}] /\ job' = [job EXCEPT ![j] = job'[j]]
    BY <1>1, <1>6
  <2>3. job'[j] \in JobType
    BY <1>1, <1>4, <2>2 DEF JobType
  <2>4. /\ job'[j].kind = job[j].kind /\ job'[j].file = job[j].file
        /\ job'[j].chunks = job[j].chunks /\ job'[j].pc = "insert" /\ job'[j].at = job[j].at
    BY <1>1, <2>2 DEF JobType
  <2>5. JobInv(job'[j])
    BY <1>1, <2>4 DEF JobInv, Reading
  <2> QED
    BY <1>5, <2>1, <2>2, <2>3, <2>5 DEF OnlyJob, TablesTyped, Base, TypeOK
<1>7. CASE /\ Goto(j, "duplicate") \/ Goto(j, "failed")
           /\ UNCHANGED table
  BY <1>5, <1>7, GotoJob, SameTables DEF OnlyJob
<1> QED
  BY <1>3, <1>6, <1>7

LEMMA BaseChunkDone ==
    ASSUME Base, NEW j \in Jobs, ChunkDone(j)
    PROVE  OnlyJob(j) /\ TablesTyped
<1>1. job \in [Jobs -> JobType] /\ job[j] \in JobType /\ JobInv(job[j]) /\ job[j].pc = "insert"
  BY DEF Base, TypeOK, ChunkDone
<1>2. TablesTyped
  BY SameTables DEF ChunkDone
<1>3. job[j].at \in Nat /\ job[j].chunks \in Nat /\ NPages \in Nat
  BY <1>1, Constants DEF JobType
<1>4. CASE job[j].kind \in Imports
  <2> DEFINE c == job[j].chunks + 1
  <2>1. job'[j] = [job[j] EXCEPT !.pc = "load", !.chunks = c] /\ job' = [job EXCEPT ![j] = job'[j]]
    BY <1>1, <1>4 DEF ChunkDone
  <2>2. c \in Nat
    BY <1>3
  <2> HIDE DEF c
  <2>3. job'[j] \in JobType
    BY <1>1, <2>1, <2>2 DEF JobType
  <2>4. /\ job'[j].kind = job[j].kind /\ job'[j].file = job[j].file
        /\ job'[j].pc = "load" /\ job'[j].at = job[j].at
    BY <1>1, <2>1 DEF JobType
  <2>5. JobInv(job'[j])
    BY <1>1, <1>4, <2>4 DEF JobInv, Reading, Imports, Tasks
  <2> QED
    BY <1>2, <2>1, <2>3, <2>5 DEF OnlyJob
<1>5. CASE job[j].kind \notin Imports
  <2> DEFINE page == job[j].at + 1
             p == IF page < NPages THEN "load" ELSE IF job[j].kind \in Staged THEN "swap" ELSE "finish"
  <2>1. job'[j] = [job[j] EXCEPT !.at = page, !.chunks = page, !.pc = p]
        /\ job' = [job EXCEPT ![j] = job'[j]]
    BY <1>1, <1>5 DEF ChunkDone
  <2>2. page \in Nat
    BY <1>3
  <2>3. p \in {"load", "swap", "finish"} /\ (p = "swap" => job[j].kind \in Staged)
    OBVIOUS
  <2> HIDE DEF page, p
  <2>4. job'[j] \in JobType
    BY <1>1, <2>1, <2>2, <2>3 DEF JobType
  <2>5. /\ job'[j].kind = job[j].kind /\ job'[j].file = job[j].file
        /\ job'[j].pc = p /\ job'[j].chunks = page
    BY <1>1, <2>1 DEF JobType
  <2>6. JobInv(job'[j])
    BY <1>1, <1>5, <2>2, <2>3, <2>5 DEF JobInv
  <2> QED
    BY <1>2, <2>1, <2>4, <2>6 DEF OnlyJob
<1> QED
  BY <1>4, <1>5


LEMMA BaseLoadBatch ==
    ASSUME Base, NEW j \in Jobs, LoadBatch(j)
    PROVE  OnlyJob(j) /\ TablesTyped
<1> DEFINE rows == LoadRows(job[j].file)
           upto == IF job[j].at + ImportChunk < Len(rows) THEN job[j].at + ImportChunk ELSE Len(rows)
           keys == {KeyOf(rows[n]) : n \in (job[j].at + 1)..upto}
<1>1. job \in [Jobs -> JobType] /\ job[j] \in JobType /\ JobInv(job[j]) /\ job[j].kind \in Loads
  BY DEF Base, TypeOK, LoadBatch
<1>2. job[j].at \in Nat /\ Len(rows) \in Nat /\ upto \in Nat /\ upto <= Len(rows)
  BY <1>1, FileRecords, Constants, ChunkAssumption DEF JobType
<1>3. keys \in SUBSET Row
  <2>1. (job[j].at + 1)..upto \subseteq 1..Len(rows)
    BY <1>2
  <2>2. LoadKeys(job[j].file) \subseteq Row
    BY <1>1, RowsOfFiles DEF JobInv
  <2> QED
    BY <2>1, <2>2 DEF LoadKeys
<1>4. \/ (Goto(j, "finish") \/ Goto(j, "failed")) /\ UNCHANGED table
      \/ table' = [table EXCEPT !["main"].rows = @ \cup keys] /\ job' = [job EXCEPT ![j].at = upto]
  BY DEF LoadBatch
<1>5. UNCHANGED <<saved, robbed, used>> /\ job[j].pc = "load"
  BY DEF LoadBatch
<1> HIDE DEF rows, upto, keys
<1>6. CASE (Goto(j, "finish") \/ Goto(j, "failed")) /\ UNCHANGED table
  <2>1. /\ job' = [job EXCEPT ![j] = job'[j]] /\ job'[j] \in JobType
        /\ \E p \in {"finish", "failed"} : job'[j] = [job[j] EXCEPT !.pc = p]
    BY <1>6, GotoJob
  <2>2. /\ job'[j].kind = job[j].kind /\ job'[j].file = job[j].file
        /\ job'[j].chunks = job[j].chunks /\ job'[j].pc \in {"finish", "failed"}
    BY <1>1, <2>1 DEF JobType
  <2>3. JobInv(job'[j])
    BY <1>1, <2>2 DEF JobInv, Loads, Imports
  <2> QED
    BY <1>5, <1>6, <2>1, <2>3, SameTables DEF OnlyJob
<1>7. CASE /\ table' = [table EXCEPT !["main"].rows = @ \cup keys]
           /\ job' = [job EXCEPT ![j].at = upto]
  <2>1. table' \in [Names -> TableType] /\ table'["main"].exists
    BY <1>3, <1>7, MoreRows DEF Names
  <2>2. job'[j] = [job[j] EXCEPT !.at = upto] /\ job' = [job EXCEPT ![j] = job'[j]]
    BY <1>1, <1>7
  <2>3. job'[j] \in JobType
    BY <1>1, <1>2, <2>2 DEF JobType
  <2>4. /\ job'[j].kind = job[j].kind /\ job'[j].file = job[j].file
        /\ job'[j].chunks = job[j].chunks /\ job'[j].pc = "load"
    BY <1>1, <1>5, <2>2 DEF JobType
  <2>5. JobInv(job'[j])
    BY <1>1, <2>4 DEF JobInv, Loads, Imports
  <2> QED
    BY <1>5, <2>1, <2>2, <2>3, <2>5 DEF OnlyJob, TablesTyped, Base, TypeOK
<1> QED
  BY <1>4, <1>6, <1>7

LEMMA BaseDumpRow ==
    ASSUME Base, NEW j \in Jobs, DumpRow(j)
    PROVE  OnlyJob(j) /\ TablesTyped
<1>1. job \in [Jobs -> JobType] /\ job[j] \in JobType /\ JobInv(job[j]) /\ job[j].pc = "dump"
  BY DEF Base, TypeOK, DumpRow
<1>2. TablesTyped
  BY SameTables DEF DumpRow
<1>3. job[j].kind = "dump"
  BY <1>1 DEF JobInv
<1>4. CASE Goto(j, "finish")
  <2>1. /\ job' = [job EXCEPT ![j] = job'[j]] /\ job'[j] \in JobType
        /\ job'[j] = [job[j] EXCEPT !.pc = "finish"]
    BY <1>4, GotoJob
  <2>2. job'[j].kind = "dump" /\ job'[j].pc = "finish"
    BY <1>1, <1>3, <2>1 DEF JobType
  <2> QED
    BY <1>2, <2>1, <2>2 DEF OnlyJob, JobInv, Imports, Loads, Tasks
<1>5. CASE \E row \in job[j].todo :
              job' = [job EXCEPT ![j].todo = @ \ {row}, ![j].out = @ \cup {row}]
  <2>1. PICK row \in job[j].todo :
           job' = [job EXCEPT ![j].todo = @ \ {row}, ![j].out = @ \cup {row}]
    BY <1>5
  <2> DEFINE todo == job[j].todo \ {row}
             out == job[j].out \cup {row}
  <2>2. todo \in SUBSET Row /\ out \in SUBSET Row
    BY <1>1 DEF JobType
  <2>3. job'[j] = [job[j] EXCEPT !.todo = todo, !.out = out] /\ job' = [job EXCEPT ![j] = job'[j]]
    BY <1>1, <2>1
  <2> HIDE DEF todo, out
  <2>4. job'[j] \in JobType
    BY <1>1, <2>2, <2>3 DEF JobType
  <2>5. job'[j].kind = "dump" /\ job'[j].pc = "dump"
    BY <1>1, <1>3, <2>3 DEF JobType
  <2> QED
    BY <1>2, <2>3, <2>4, <2>5 DEF OnlyJob, JobInv, Imports, Loads, Tasks
<1> QED
  BY <1>4, <1>5 DEF DumpRow

LEMMA BaseFinish ==
    ASSUME Base, NEW j \in Jobs, Finish(j)
    PROVE  OnlyJob(j) /\ TablesTyped
<1>1. job \in [Jobs -> JobType] /\ job[j] \in JobType /\ JobInv(job[j]) /\ job[j].pc = "finish"
  BY DEF Base, TypeOK, Finish
<1>2. TablesTyped
  BY SameTables DEF Finish
<1>3. /\ job' = [job EXCEPT ![j] = job'[j]] /\ job'[j] \in JobType
      /\ job'[j] = [job[j] EXCEPT !.pc = "completed"]
  BY GotoJob DEF Finish
<1>4. /\ job'[j].kind = job[j].kind /\ job'[j].file = job[j].file
      /\ job'[j].chunks = job[j].chunks /\ job'[j].pc = "completed"
  BY <1>1, <1>3 DEF JobType
<1>5. JobInv(job'[j])
  BY <1>1, <1>4 DEF JobInv, Reading
<1> QED
  BY <1>2, <1>3, <1>5 DEF OnlyJob

(* What the swap makes of the tables. *)
LEMMA SwapTables ==
    ASSUME Base, NEW j \in Jobs, Swap(j)
    PROVE  \/ /\ table["staging"].exists
              /\ table' = [main |-> table["staging"], staging |-> Absent,
                           backup |-> IF DropBackup THEN Absent ELSE table["main"]]
              /\ table' \in [Names -> TableType]
              /\ table'["main"] = table["staging"] /\ table'["staging"] = Absent
              /\ DropBackup => table'["backup"] = Absent
              /\ Goto(j, "index")
           \/ UNCHANGED table /\ Goto(j, "failed")
<1> SUFFICES ASSUME table["staging"].exists,
                    table' = [main |-> table["staging"], staging |-> Absent,
                              backup |-> IF DropBackup THEN Absent ELSE table["main"]]
             PROVE  /\ table' \in [Names -> TableType]
                    /\ table'["main"] = table["staging"] /\ table'["staging"] = Absent
                    /\ DropBackup => table'["backup"] = Absent
  BY DEF Swap
<1>1. Absent \in TableType /\ table["staging"] \in TableType /\ table["main"] \in TableType
  BY DEF Absent, TableType, Base, TypeOK, Names
<1> HIDE DEF Absent
<1>2. DropBackup \in BOOLEAN
  BY FlagsAssumption
<1>3. /\ table'["main"] = table["staging"] /\ table'["staging"] = Absent
      /\ table'["backup"] = (IF DropBackup THEN Absent ELSE table["main"])
  OBVIOUS
<1>4. DOMAIN table' = Names /\ table' = [n \in DOMAIN table' |-> table'[n]]
  BY DEF Names
<1>5. \A n \in Names : table'[n] \in TableType
  BY <1>1, <1>2, <1>3 DEF Names
<1> QED
  BY <1>3, <1>4, <1>5

LEMMA BaseSwap ==
    ASSUME Base, NEW j \in Jobs, Swap(j)
    PROVE  OnlyJob(j) /\ TablesTyped
<1>1. job \in [Jobs -> JobType] /\ job[j] \in JobType /\ JobInv(job[j]) /\ job[j].pc = "swap"
  BY DEF Base, TypeOK, Swap
<1>2. table' \in [Names -> TableType] /\ table'["main"].exists
  BY SwapTables DEF Base, TypeOK
<1>3. robbed' \subseteq Tasks
  BY DEF Swap, Base, TypeOK, Tasks
<1>4. saved' = saved /\ used' = used
  BY DEF Swap
<1>5. TablesTyped
  BY <1>2, <1>3, <1>4 DEF TablesTyped, Base, TypeOK
<1>6. CASE Goto(j, "failed")
  BY <1>5, <1>6, GotoJob DEF OnlyJob
<1>7. CASE Goto(j, "index")
  <2>1. /\ job' = [job EXCEPT ![j] = job'[j]] /\ job'[j] \in JobType
        /\ job'[j] = [job[j] EXCEPT !.pc = "index"]
    BY <1>7, GotoJob
  <2>2. /\ job'[j].kind = job[j].kind /\ job'[j].file = job[j].file
        /\ job'[j].chunks = job[j].chunks /\ job'[j].pc = "index"
    BY <1>1, <2>1 DEF JobType
  <2>3. JobInv(job'[j])
    BY <1>1, <2>2 DEF JobInv, Reading
  <2> QED
    BY <1>5, <2>1, <2>3 DEF OnlyJob
<1> QED
  BY <1>6, <1>7, SwapTables


LEMMA IndexNamed ==
    ASSUME NEW n \in 1..5
    PROVE  Indexes[n] \in IndexNames
BY Constants

LEMMA IndexesDiffer ==
    ASSUME NEW m \in 1..5, NEW n \in 1..5, Indexes[m] = Indexes[n]
    PROVE  m = n
<1>1. m \in {1, 2, 3, 4, 5} /\ n \in {1, 2, 3, 4, 5}
  OBVIOUS
<1> QED
  BY <1>1 DEF Indexes

(* What the statements of rebuild_indexes make of the tables. *)
LEMMA IndexTables ==
    ASSUME Base, NEW v \in SUBSET IndexNames, NEW w \in SUBSET IndexNames,
           table' = [table EXCEPT !["main"].invalid = w, !["main"].valid = v]
    PROVE  /\ table' \in [Names -> TableType] /\ table'["main"].exists
           /\ table'["main"].valid = v /\ table'["main"].invalid = w
           /\ table'["main"].rows = table["main"].rows
           /\ \A n \in Names \ {"main"} : table'[n] = table[n]
<1>1. table \in [Names -> TableType] /\ table["main"].exists /\ "main" \in Names
      /\ table["main"] \in TableType
  BY DEF Base, TypeOK, Names
<1> DEFINE t == [table["main"] EXCEPT !.invalid = w, !.valid = v]
<1>2. t \in TableType /\ t.exists /\ t.valid = v /\ t.invalid = w /\ t.rows = table["main"].rows
  BY <1>1 DEF TableType
<1>3. table' = [table EXCEPT !["main"] = t]
  BY <1>1
<1> HIDE DEF t
<1>4. table' \in [Names -> TableType]
  BY <1>1, <1>2, <1>3
<1>5. table'["main"] = t /\ \A n \in Names \ {"main"} : table'[n] = table[n]
  BY <1>1, <1>3
<1> QED
  BY <1>2, <1>4, <1>5

LEMMA StartTables ==
    ASSUME Base, NEW j \in Jobs, StartIndex(j)
    PROVE  LET n == job[j].built + 1
           IN \/ /\ ~DropBackup \/ n = 6
                 /\ UNCHANGED table /\ Goto(j, "completed")
              \/ /\ n \in 1..5 /\ NameTaken(Indexes[n])
                 /\ UNCHANGED table /\ job' = [job EXCEPT ![j].built = n]
              \/ /\ n \in 1..5 /\ Goto(j, "building")
                 /\ table' = [table EXCEPT !["main"].invalid = table["main"].invalid \cup {Indexes[n]},
                                           !["main"].valid = table["main"].valid]
<1>1. job[j].built \in 0..5 /\ Len(Indexes) = 5 /\ table \in [Names -> TableType]
      /\ table["main"] \in TableType
  BY Constants DEF Base, TypeOK, JobType, Names
<1> DEFINE n == job[j].built + 1
<1>2. n \in 1..6 /\ (n > 5 => n = 6) /\ (~(n > 5) => n \in 1..5)
  BY <1>1
<1>3. StartIndex(j) =>
         IF ~DropBackup \/ n > Len(Indexes) THEN Goto(j, "completed") /\ UNCHANGED table
         ELSE IF NameTaken(Indexes[n])
         THEN job' = [job EXCEPT ![j].built = n] /\ UNCHANGED table
         ELSE /\ table' = [table EXCEPT !["main"].invalid = @ \cup {Indexes[n]}]
              /\ Goto(j, "building")
  BY DEF StartIndex
<1> HIDE DEF n
<1>4. ASSUME table' = [table EXCEPT !["main"].invalid = @ \cup {Indexes[n]}]
      PROVE  table' = [table EXCEPT !["main"].invalid = table["main"].invalid \cup {Indexes[n]},
                                    !["main"].valid = table["main"].valid]
  <2> DEFINE w == table["main"].invalid \cup {Indexes[n]}
             t == [table["main"] EXCEPT !.invalid = w]
  <2>1. [t EXCEPT !.valid = table["main"].valid] = t
    BY <1>1 DEF TableType
  <2>2. table' = [table EXCEPT !["main"] = t]
    BY <1>1, <1>4
  <2>3. [table EXCEPT !["main"].invalid = w, !["main"].valid = table["main"].valid]
        = [table EXCEPT !["main"] = [t EXCEPT !.valid = table["main"].valid]]
    BY <1>1
  <2> QED
    BY <2>1, <2>2, <2>3
<1>5. CASE ~DropBackup \/ n > Len(Indexes)
  BY <1>1, <1>2, <1>3, <1>5 DEF n
<1>6. CASE ~(~DropBackup \/ n > Len(Indexes)) /\ NameTaken(Indexes[n])
  <2>1. n \in 1..5
    BY <1>1, <1>2, <1>6
  <2>2. job' = [job EXCEPT ![j].built = n] /\ UNCHANGED table
    BY <1>3, <1>6
  <2> QED
    BY <1>6, <2>1, <2>2 DEF n
<1>7. CASE ~(~DropBackup \/ n > Len(Indexes)) /\ ~NameTaken(Indexes[n])
  <2>1. n \in 1..5
    BY <1>1, <1>2, <1>7
  <2>2. table' = [table EXCEPT !["main"].invalid = @ \cup {Indexes[n]}] /\ Goto(j, "building")
    BY <1>3, <1>7
  <2>3. table' = [table EXCEPT !["main"].invalid = table["main"].invalid \cup {Indexes[n]},
                               !["main"].valid = table["main"].valid]
    BY <1>4, <2>2
  <2> QED
    BY <2>1, <2>2, <2>3 DEF n
<1> QED
  BY <1>5, <1>6, <1>7


(* A job in its rebuild: only pc and built change, to another step of it. *)
LEMMA RebuildJob ==
    ASSUME Base, NEW j \in Jobs, job[j].pc \in {"index", "building"},
           NEW p \in {"index", "building", "completed"}, NEW b \in 0..5,
           p = "building" => b < 5,
           job' = [job EXCEPT ![j] = job'[j]],
           job'[j] = [job[j] EXCEPT !.pc = p, !.built = b]
    PROVE  OnlyJob(j)
<1>1. job \in [Jobs -> JobType] /\ job[j] \in JobType /\ JobInv(job[j])
  BY DEF Base, TypeOK
<1>2. job'[j] \in JobType
  BY <1>1, Constants DEF JobType, Ended
<1>3. /\ job'[j].kind = job[j].kind /\ job'[j].file = job[j].file
      /\ job'[j].chunks = job[j].chunks /\ job'[j].pc = p /\ job'[j].built = b
  BY <1>1 DEF JobType
<1>4. JobInv(job'[j])
  BY <1>1, <1>3, Constants DEF JobInv, Reading
<1> QED
  BY <1>2, <1>4 DEF OnlyJob

LEMMA BaseStartIndex ==
    ASSUME Base, NEW j \in Jobs, StartIndex(j)
    PROVE  OnlyJob(j) /\ TablesTyped
<1>1. job \in [Jobs -> JobType] /\ job[j] \in JobType /\ job[j].pc = "index" /\ job[j].built \in 0..5
      /\ table \in [Names -> TableType] /\ table["main"] \in TableType
  BY Constants DEF Base, TypeOK, StartIndex, JobType, Names
<1>2. UNCHANGED <<saved, robbed, used>>
  BY DEF StartIndex
<1> DEFINE n == job[j].built + 1
<1>3. CASE UNCHANGED table /\ Goto(j, "completed")
  <2>1. /\ job' = [job EXCEPT ![j] = job'[j]] /\ job'[j] = [job[j] EXCEPT !.pc = "completed"]
    BY <1>3, GotoJob
  <2>2. job'[j] = [job[j] EXCEPT !.pc = "completed", !.built = job[j].built]
    BY <1>1, <2>1 DEF JobType
  <2>3. OnlyJob(j)
    BY <1>1, <2>1, <2>2, RebuildJob
  <2> QED
    BY <1>2, <1>3, <2>3, SameTables
<1>4. CASE n \in 1..5 /\ UNCHANGED table /\ job' = [job EXCEPT ![j].built = n]
  <2>1. job'[j] = [job[j] EXCEPT !.built = n] /\ job' = [job EXCEPT ![j] = job'[j]]
    BY <1>1, <1>4
  <2>2. n \in 0..5
    BY <1>4
  <2> HIDE DEF n
  <2>3. job'[j] = [job[j] EXCEPT !.pc = "index", !.built = n]
    BY <1>1, <2>1 DEF JobType
  <2>4. OnlyJob(j)
    BY <1>1, <2>1, <2>2, <2>3, RebuildJob
  <2> QED
    BY <1>2, <1>4, <2>4, SameTables
<1>5. CASE /\ n \in 1..5 /\ Goto(j, "building")
           /\ table' = [table EXCEPT !["main"].invalid = table["main"].invalid \cup {Indexes[n]},
                                     !["main"].valid = table["main"].valid]
  <2>1. job' = [job EXCEPT ![j] = job'[j]] /\ job'[j] = [job[j] EXCEPT !.pc = "building"]
    BY <1>5, GotoJob
  <2>2. job'[j] = [job[j] EXCEPT !.pc = "building", !.built = job[j].built]
    BY <1>1, <2>1 DEF JobType
  <2>3. job[j].built < 5
    BY <1>1, <1>5
  <2>4. OnlyJob(j)
    BY <1>1, <2>1, <2>2, <2>3, RebuildJob
  <2>5. table' \in [Names -> TableType] /\ table'["main"].exists
    <3> DEFINE v == table["main"].valid
               w == table["main"].invalid \cup {Indexes[n]}
    <3>1. /\ v \in SUBSET IndexNames /\ w \in SUBSET IndexNames
          /\ table' = [table EXCEPT !["main"].invalid = w, !["main"].valid = v]
      BY <1>1, <1>5, IndexNamed DEF TableType
    <3> HIDE DEF v, w
    <3> QED
      BY <3>1, IndexTables
  <2> QED
    BY <1>2, <2>4, <2>5 DEF TablesTyped, Base, TypeOK
<1> QED
  BY <1>3, <1>4, <1>5, StartTables

LEMMA FinishTables ==
    ASSUME Base, NEW j \in Jobs, FinishIndex(j)
    PROVE  LET n == job[j].built + 1
           IN /\ n \in 1..5
              /\ table' = [table EXCEPT !["main"].invalid = table["main"].invalid \ {Indexes[n]},
                                        !["main"].valid = table["main"].valid \cup {Indexes[n]}]
              /\ job' = [job EXCEPT ![j] = job'[j]]
              /\ job'[j] = [job[j] EXCEPT !.pc = "index", !.built = n]
<1>1. job \in [Jobs -> JobType] /\ job[j] \in JobType /\ JobInv(job[j])
      /\ table \in [Names -> TableType] /\ table["main"] \in TableType /\ "main" \in Names
      /\ job[j].pc = "building"
  BY DEF Base, TypeOK, FinishIndex, Names
<1> DEFINE n == job[j].built + 1
<1>2. n \in 1..5
  BY <1>1, Constants DEF JobInv, JobType
<1>3. /\ table' = [table EXCEPT !["main"].invalid = @ \ {Indexes[n]},
                                !["main"].valid = @ \cup {Indexes[n]}]
      /\ job' = [job EXCEPT ![j].pc = "index", ![j].built = @ + 1]
  BY DEF FinishIndex
<1>4. job'[j] = [job[j] EXCEPT !.pc = "index", !.built = n] /\ job' = [job EXCEPT ![j] = job'[j]]
  BY <1>1, <1>3 DEF JobType
<1> HIDE DEF n
<1>5. table' = [table EXCEPT !["main"].invalid = table["main"].invalid \ {Indexes[n]},
                             !["main"].valid = table["main"].valid \cup {Indexes[n]}]
  BY <1>1, <1>3 DEF TableType
<1> QED
  BY <1>2, <1>4, <1>5 DEF n

LEMMA BaseFinishIndex ==
    ASSUME Base, NEW j \in Jobs, FinishIndex(j)
    PROVE  OnlyJob(j) /\ TablesTyped
<1> DEFINE n == job[j].built + 1
<1>1. /\ n \in 1..5
      /\ table' = [table EXCEPT !["main"].invalid = table["main"].invalid \ {Indexes[n]},
                                !["main"].valid = table["main"].valid \cup {Indexes[n]}]
      /\ job' = [job EXCEPT ![j] = job'[j]]
      /\ job'[j] = [job[j] EXCEPT !.pc = "index", !.built = n]
  BY FinishTables
<1>2. UNCHANGED <<saved, robbed, used>> /\ job[j].pc = "building" /\ table["main"] \in TableType
  BY DEF FinishIndex, Base, TypeOK, Names
<1> HIDE DEF n
<1>3. OnlyJob(j)
  <2>1. n \in 0..5
    BY <1>1
  <2> QED
    BY <1>1, <1>2, <2>1, RebuildJob
<1>4. table' \in [Names -> TableType] /\ table'["main"].exists
  <2> DEFINE v == table["main"].valid \cup {Indexes[n]}
             w == table["main"].invalid \ {Indexes[n]}
  <2>1. v \in SUBSET IndexNames /\ w \in SUBSET IndexNames
    BY <1>1, <1>2, IndexNamed DEF TableType
  <2>2. table' = [table EXCEPT !["main"].invalid = w, !["main"].valid = v]
    BY <1>1
  <2> HIDE DEF v, w
  <2> QED
    BY <2>1, <2>2, IndexTables
<1> QED
  BY <1>2, <1>3, <1>4 DEF TablesTyped, Base, TypeOK


LEMMA BaseFail ==
    ASSUME Base, NEW j \in Jobs, Fail(j) \/ Interrupt(j)
    PROVE  OnlyJob(j) /\ TablesTyped
<1>1. job \in [Jobs -> JobType] /\ job[j] \in JobType /\ JobInv(job[j])
  BY DEF Base, TypeOK
<1>2. OnlyJob(j)
  BY GotoJob DEF Fail, Interrupt, OnlyJob
<1>3. table' = table /\ robbed' \subseteq Tasks
  BY DEF Fail, Interrupt, Base, TypeOK, Tasks
<1>4. used' \in [faults : Nat, interrupts : Nat]
  BY DEF Fail, Interrupt, Base, TypeOK
<1>5. CASE Interrupt(j)
  <2>1. job[j].chunks \in Nat /\ saved' = [saved EXCEPT ![job[j].kind] = job[j].chunks]
    BY <1>1, <1>5, Constants DEF Interrupt, JobInv, JobType
  <2> QED
    BY <1>2, <1>3, <1>4, <2>1 DEF TablesTyped, Base, TypeOK
<1>6. CASE Fail(j)
  BY <1>2, <1>3, <1>4, <1>6 DEF Fail, TablesTyped, Base, TypeOK
<1> QED
  BY <1>5, <1>6

(* What Begin makes of the jobs: a new one, and marks on others. *)
BeginJob(j, k, start, f, shared) ==
    [Idle EXCEPT !.kind = k, !.at = start, !.chunks = start, !.file = f, !.pc = FirstStep(k),
                 !.todo = IF k = "dump" THEN table["main"].rows ELSE {}, !.shared = shared]
Sharing(k) == {i \in Jobs : k \in Staged /\ Active(i) /\ job[i].kind \in Staged}

StartOf(k) == IF k \in Tasks /\ saved[k] # NoTask THEN saved[k] ELSE 0

Begun(j, k, start, f) ==
    /\ k \in Imports \cup Loads => f \in AllFiles
    /\ start = StartOf(k) /\ (k \notin Tasks => start = 0)
    /\ job' \in [Jobs -> JobType]
    /\ job'[j].kind = k /\ job'[j].at = start /\ job'[j].chunks = start /\ job'[j].file = f
    /\ job'[j].pc = FirstStep(k) /\ job'[j].shared = (Sharing(k) # {})
    /\ job'[j].out = {} /\ job'[j].built = 0
    /\ job'[j].todo = IF k = "dump" THEN table["main"].rows ELSE {}
    /\ \A i \in Jobs \ {j} :
          job'[i] = [job[i] EXCEPT !.shared = job[i].shared \/ i \in Sharing(k)]

LEMMA BeginJobs ==
    ASSUME Base, NEW j \in Jobs, NEW k \in Kinds, Begin(j, k)
    PROVE  \E start \in Nat, f \in AllFiles \cup {NoFile} : Begun(j, k, start, f)
<1>1. job \in [Jobs -> JobType] /\ saved \in [Tasks -> Nat \cup {NoTask}] /\ table["main"] \in TableType
  BY DEF Base, TypeOK, Names
<1> DEFINE start == StartOf(k)
           q(f) == BeginJob(j, k, start, f, Sharing(k) # {})
<1>2. start \in Nat /\ (k \notin Tasks => start = 0)
  BY <1>1, Constants DEF StartOf
<1>3. PICK f \in IF k \in Imports \cup Loads THEN Files[k] ELSE {NoFile} :
         job' = [i \in Jobs |-> IF i = j THEN q(f)
                                ELSE [job[i] EXCEPT !.shared = @ \/ i \in Sharing(k)]]
  BY DEF Begin, BeginJob, Sharing, StartOf
<1>4. f \in AllFiles \cup {NoFile} /\ (k \in Imports \cup Loads => f \in AllFiles)
  BY <1>3, KindsAssumption DEF AllFiles
<1>5. k \in {"none", "script", "dump"} \cup Tasks \cup Imports \cup Loads
  BY KindsAssumption
<1> HIDE DEF start
<1>6. FirstStep(k) \in {"prepare", "dump", "load"}
  BY DEF FirstStep
<1> DEFINE todo == IF k = "dump" THEN table["main"].rows ELSE {}
           shared == Sharing(k) # {}
<1>7. todo \in SUBSET Row /\ shared \in BOOLEAN /\ start \in Nat
  BY <1>1, <1>2 DEF TableType
<1> DEFINE r1 == [Idle EXCEPT !.kind = k, !.at = start, !.chunks = start]
           r2 == [r1 EXCEPT !.file = f, !.pc = FirstStep(k)]
           r3 == [r2 EXCEPT !.todo = todo, !.shared = shared]
<1>8. q(f) = r3
  BY DEF BeginJob
<1> HIDE DEF todo, shared, q
<1>9. /\ q(f) \in JobType /\ q(f).kind = k /\ q(f).at = start /\ q(f).chunks = start
      /\ q(f).file = f /\ q(f).pc = FirstStep(k) /\ q(f).shared = shared /\ q(f).out = {}
      /\ q(f).todo = todo /\ q(f).built = 0
  <2>1. r1 \in JobType /\ r1.kind = k /\ r1.at = start /\ r1.chunks = start /\ r1.out = {} /\ r1.built = 0
    <3>1. Idle \in JobType /\ Idle.out = {} /\ Idle.built = 0
      BY Constants DEF Idle, JobType, Ended
    <3>2. r1.kind = k /\ r1.at = start /\ r1.chunks = start /\ r1.out = {} /\ r1.built = 0
      BY <3>1 DEF JobType
    <3>3. r1 \in JobType
      BY <1>5, <1>7, <3>1 DEF JobType
    <3> QED
      BY <3>2, <3>3
  <2> HIDE DEF r1
  <2>2. /\ r2 \in JobType /\ r2.kind = k /\ r2.at = start /\ r2.chunks = start /\ r2.out = {} /\ r2.built = 0
        /\ r2.file = f /\ r2.pc = FirstStep(k)
    <3> DEFINE p == FirstStep(k)
    <3>1. p \in {"prepare", "dump", "load"} /\ r2 = [r1 EXCEPT !.file = f, !.pc = p]
      BY <1>6
    <3> HIDE DEF p, r2
    <3>2. /\ r2.kind = k /\ r2.at = start /\ r2.chunks = start /\ r2.out = {} /\ r2.built = 0
          /\ r2.file = f /\ r2.pc = p
      BY <2>1, <3>1 DEF JobType
    <3>3. r2 \in JobType
      BY <1>4, <2>1, <3>1 DEF JobType
    <3> QED
      BY <3>2, <3>3 DEF p
  <2> HIDE DEF r2
  <2>3. /\ r3 \in JobType /\ r3.kind = k /\ r3.at = start /\ r3.chunks = start /\ r3.out = {} /\ r3.built = 0
        /\ r3.file = f /\ r3.pc = FirstStep(k) /\ r3.todo = todo /\ r3.shared = shared
    BY <1>7, <2>2 DEF JobType
  <2> HIDE DEF r3
  <2> QED
    BY <1>8, <2>3
<1>10. \A i \in Jobs : [job[i] EXCEPT !.shared = job[i].shared \/ i \in Sharing(k)] \in JobType
  <2> SUFFICES ASSUME NEW i \in Jobs
               PROVE  [job[i] EXCEPT !.shared = job[i].shared \/ i \in Sharing(k)] \in JobType
    OBVIOUS
  <2> DEFINE b == job[i].shared \/ i \in Sharing(k)
  <2>1. b \in BOOLEAN /\ job[i] \in JobType
    BY <1>1
  <2> HIDE DEF b
  <2>2. [job[i] EXCEPT !.shared = b] \in JobType
    BY <2>1 DEF JobType
  <2> QED
    BY <2>2 DEF b
<1>11. /\ job'[j] = q(f)
       /\ \A i \in Jobs \ {j} :
             job'[i] = [job[i] EXCEPT !.shared = job[i].shared \/ i \in Sharing(k)]
  BY <1>3
<1>12. job' \in [Jobs -> JobType]
  BY <1>3, <1>9, <1>10
<1> QED
  <2>1. Begun(j, k, start, f)
    BY <1>2, <1>4, <1>9, <1>11, <1>12 DEF Begun, todo, shared, start
  <2> QED
    BY <1>2, <1>4, <2>1


LEMMA BeginFields ==
    ASSUME Base, NEW j \in Jobs, NEW k \in Kinds, Begin(j, k)
    PROVE  /\ job'[j].kind = k /\ job'[j].pc = FirstStep(k) /\ job'[j].out = {}
           /\ job'[j].todo = IF k = "dump" THEN table["main"].rows ELSE {}
           /\ job'[j].built = 0 /\ job'[j].shared = (Sharing(k) # {})
           /\ job'[j].at = StartOf(k) /\ job'[j].chunks = StartOf(k)
           /\ k \notin Tasks => job'[j].at = 0
           /\ \A i \in Jobs \ {j} :
                 /\ job'[i].kind = job[i].kind /\ job'[i].pc = job[i].pc
                 /\ job'[i].at = job[i].at /\ job'[i].file = job[i].file
                 /\ job'[i].chunks = job[i].chunks /\ job'[i].built = job[i].built
                 /\ job'[i].todo = job[i].todo /\ job'[i].out = job[i].out
                 /\ job'[i].shared = (job[i].shared \/ i \in Sharing(k))
<1>1. PICK start \in Nat, f \in AllFiles \cup {NoFile} : Begun(j, k, start, f)
  BY BeginJobs
<1>2. ASSUME NEW i \in Jobs \ {j}
      PROVE  /\ job'[i].kind = job[i].kind /\ job'[i].pc = job[i].pc
             /\ job'[i].at = job[i].at /\ job'[i].file = job[i].file
             /\ job'[i].chunks = job[i].chunks /\ job'[i].built = job[i].built
             /\ job'[i].todo = job[i].todo /\ job'[i].out = job[i].out
             /\ job'[i].shared = (job[i].shared \/ i \in Sharing(k))
  <2> DEFINE b == job[i].shared \/ i \in Sharing(k)
  <2>1. job[i] \in JobType /\ job'[i] = [job[i] EXCEPT !.shared = b]
    BY <1>1 DEF Base, TypeOK, Begun
  <2> HIDE DEF b
  <2>2. /\ job'[i].kind = job[i].kind /\ job'[i].pc = job[i].pc
        /\ job'[i].at = job[i].at /\ job'[i].file = job[i].file
        /\ job'[i].chunks = job[i].chunks /\ job'[i].built = job[i].built
        /\ job'[i].todo = job[i].todo /\ job'[i].out = job[i].out
        /\ job'[i].shared = b
    BY <2>1 DEF JobType
  <2> QED
    BY <2>2 DEF b
<1> QED
  BY <1>1, <1>2 DEF Begun

LEMMA BaseBegin ==
    ASSUME Base, NEW j \in Jobs, NEW k \in Kinds, Begin(j, k)
    PROVE  Base'
<1>1. PICK start \in Nat, f \in AllFiles \cup {NoFile} : Begun(j, k, start, f)
  BY BeginJobs
<1>2. JobInv(job'[j])
  <2>1. k \in Imports => start = 0 /\ Len(Raw(f)) \in Nat /\ Unique(Raw(f), 0)
    <3>1. Raw(f) \in Seq(EntryType)
      BY <1>1, FileRecords, Constants DEF Begun
    <3>2. k \in Imports => k \notin Tasks
      BY DEF Imports, Tasks
    <3>3. Unique(Raw(f), 0)
      BY DEF Unique
    <3> QED
      BY <1>1, <3>1, <3>2, <3>3 DEF Begun
  <2>2. /\ FirstStep(k) \in {"prepare", "dump", "load"}
        /\ FirstStep(k) = "prepare" => k \in Staged
        /\ FirstStep(k) = "dump" => k = "dump"
    BY DEF FirstStep
  <2> QED
    BY <1>1, <2>1, <2>2 DEF Begun, JobInv, Reading
<1>3. ASSUME NEW i \in Jobs \ {j} PROVE JobInv(job'[i])
  <2>1. job[i] \in JobType /\ JobInv(job[i])
    BY DEF Base, TypeOK
  <2>2. /\ job'[i].kind = job[i].kind /\ job'[i].file = job[i].file /\ job'[i].pc = job[i].pc
        /\ job'[i].at = job[i].at /\ job'[i].chunks = job[i].chunks /\ job'[i].built = job[i].built
    BY BeginFields
  <2> QED
    BY <2>1, <2>2 DEF JobInv, Reading
<1>4. saved' \in [Tasks -> Nat \cup {NoTask}] /\ robbed' \subseteq Tasks
  <2>1. saved \in [Tasks -> Nat \cup {NoTask}] /\ robbed \subseteq Tasks /\ NoTask \in Nat \cup {NoTask}
    BY Constants DEF Base, TypeOK
  <2>2. saved' = saved \/ saved' = [saved EXCEPT ![k] = NoTask]
    BY DEF Begin
  <2>3. robbed' = robbed \/ robbed' = robbed \ {k}
    BY DEF Begin
  <2> QED
    BY <2>1, <2>2, <2>3
<1>5. table' = table /\ used' = used
  BY DEF Begin
<1> QED
  BY <1>1, <1>2, <1>3, <1>4, <1>5 DEF Begun, Base, TypeOK

LEMMA BaseStep == Base /\ [Next]_vars => Base'
<1> SUFFICES ASSUME Base, [Next]_vars PROVE Base'
  OBVIOUS
<1>1. ASSUME NEW j \in Jobs, NEW k \in Kinds, Begin(j, k) PROVE Base'
  BY <1>1, BaseBegin
<1>2. ASSUME NEW j \in Jobs,
             \/ Prepare(j) \/ Recreate(j) \/ LoadPage(j) \/ LoadRecords(j) \/ Insert(j)
             \/ ChunkDone(j) \/ LoadBatch(j) \/ DumpRow(j) \/ Finish(j)
             \/ Swap(j) \/ StartIndex(j) \/ FinishIndex(j) \/ Fail(j) \/ Interrupt(j)
      PROVE  Base'
  <2>1. OnlyJob(j) /\ TablesTyped
    BY <1>2, BasePrepare, BaseRecreate, BaseLoadPage, BaseLoadRecords, BaseInsert, BaseChunkDone,
       BaseLoadBatch, BaseDumpRow, BaseFinish, BaseSwap, BaseStartIndex, BaseFinishIndex, BaseFail
  <2> QED
    BY <2>1, BaseOnlyJob
<1>3. ASSUME UNCHANGED vars PROVE Base'
  BY <1>3 DEF vars, Base, TypeOK
<1> QED
  BY <1>1, <1>2, <1>3 DEF Next

THEOREM Invariant == Spec => []Base
BY BaseInit, BaseStep, PTL DEF Spec

(* Every variable has its type, and the live table is there in every state *)
(* of every interleaving of swaps.                                         *)
THEOREM TypeCorrect == Spec => []TypeOK
<1>1. Base => TypeOK
  BY DEF Base
<1> QED
  BY <1>1, Invariant, PTL

(* A dry run foretells the import: both read to the end exactly of a file  *)
(* that is valid as a whole, in chunks of any size.                        *)
THEOREM ImportsAccept == Spec => []ImportAccepts
<1>1. Base => ImportAccepts
  BY DEF Base, JobInv, Reading, ImportAccepts
<1> QED
  BY <1>1, Invariant, PTL


----------------------------------------------------------------------------
(* Dumps, indexes and replaced tables: what a step does to the other jobs, *)
(* and to what a job may rely on.                                          *)

Step(j) ==
    \/ Prepare(j) \/ Recreate(j) \/ LoadPage(j) \/ LoadRecords(j) \/ Insert(j)
    \/ ChunkDone(j) \/ LoadBatch(j) \/ DumpRow(j) \/ Finish(j)
    \/ Swap(j) \/ StartIndex(j) \/ FinishIndex(j) \/ Fail(j) \/ Interrupt(j)

LEMMA OthersStay ==
    ASSUME Base, NEW j \in Jobs, Step(j)
    PROVE  /\ \A i \in Jobs \ {j} : job'[i] = job[i]
           /\ job' = [job EXCEPT ![j] = job'[j]] /\ job'[j] \in JobType
           /\ Active(j)
<1>1. OnlyJob(j)
  BY BasePrepare, BaseRecreate, BaseLoadPage, BaseLoadRecords, BaseInsert, BaseChunkDone,
     BaseLoadBatch, BaseDumpRow, BaseFinish, BaseSwap, BaseStartIndex, BaseFinishIndex, BaseFail
     DEF Step
<1>2. job[j].pc \in {"prepare", "recreate", "load", "insert", "dump", "finish", "swap", "index",
                     "building"} \/ Active(j)
  BY DEF Step, Prepare, Recreate, LoadPage, LoadRecords, Insert, ChunkDone, LoadBatch, DumpRow,
     Finish, Swap, StartIndex, FinishIndex, Fail, Interrupt
<1>3. Active(j)
  BY <1>2 DEF Active, Ended
<1> QED
  BY <1>1, <1>3 DEF OnlyJob, Base, TypeOK

(* Outside of a rebuild, a step does not touch built. *)
LEMMA StepOfJob ==
    ASSUME Base, NEW j \in Jobs, Step(j)
    PROVE  /\ job'[j].kind = job[j].kind /\ job'[j].file = job[j].file
           /\ job'[j].shared = job[j].shared
           /\ job'[j].pc = "dump" => DumpRow(j)
           /\ job'[j].pc \in {"index", "building"} => Swap(j) \/ StartIndex(j) \/ FinishIndex(j)
           /\ job'[j].pc = "completed" => Finish(j) \/ StartIndex(j)
           /\ StartIndex(j) \/ FinishIndex(j) \/ job'[j].built = job[j].built
<1>1. job \in [Jobs -> JobType] /\ job[j] \in JobType
  BY DEF Base, TypeOK
<1> DEFINE Same(q) ==
             /\ q.kind = job[j].kind /\ q.file = job[j].file /\ q.shared = job[j].shared
           To(P) == Same(job'[j]) /\ job'[j].pc \in P
           BuiltStays == job'[j].built = job[j].built
<1>2. Prepare(j) => To({"load", "recreate"}) /\ BuiltStays
  <2> SUFFICES ASSUME Prepare(j) PROVE To({"load", "recreate"}) /\ BuiltStays
    OBVIOUS
  <2>1. PICK keep \in BOOLEAN :
           job' = [job EXCEPT ![j].pc = IF keep THEN "load" ELSE "recreate",
                              ![j].at = IF keep THEN @ ELSE 0]
    BY DEF Prepare
  <2> QED
    BY <1>1, <2>1 DEF JobType
<1>3. Recreate(j) \/ LoadPage(j) => To({"load", "insert"}) /\ BuiltStays
  BY <1>1 DEF Recreate, LoadPage, Goto, JobType
<1>4. LoadRecords(j) => To({"rejected", "swap", "finish", "insert"}) /\ BuiltStays
  <2> SUFFICES ASSUME LoadRecords(j) PROVE To({"rejected", "swap", "finish", "insert"}) /\ BuiltStays
    OBVIOUS
  <2>1. \/ \E p \in {"rejected", "swap", "finish"} : job' = [job EXCEPT ![j].pc = p]
        \/ \E u, t : job' = [job EXCEPT ![j].pc = "insert", ![j].at = u, ![j].todo = t]
    BY DEF LoadRecords
  <2>2. CASE \E p \in {"rejected", "swap", "finish"} : job' = [job EXCEPT ![j].pc = p]
    BY <1>1, <2>2 DEF JobType
  <2>3. CASE \E u, t : job' = [job EXCEPT ![j].pc = "insert", ![j].at = u, ![j].todo = t]
    <3>1. PICK u, t : job' = [job EXCEPT ![j].pc = "insert", ![j].at = u, ![j].todo = t]
      BY <2>3
    <3>2. job'[j] = [job[j] EXCEPT !.pc = "insert", !.at = u, !.todo = t]
      BY <1>1, <3>1
    <3> QED
      BY <1>1, <3>2 DEF JobType
  <2> QED
    BY <2>1, <2>2, <2>3
<1>5. Insert(j) => To({"insert", "duplicate", "failed"}) /\ BuiltStays
  BY <1>1 DEF Insert, Goto, JobType
<1>6. ChunkDone(j) => To({"load", "swap", "finish"}) /\ BuiltStays
  <2> SUFFICES ASSUME ChunkDone(j) PROVE To({"load", "swap", "finish"}) /\ BuiltStays
    OBVIOUS
  <2>1. \/ \E c : job' = [job EXCEPT ![j].pc = "load", ![j].chunks = c]
        \/ \E a, p : /\ p \in {"load", "swap", "finish"}
                     /\ job' = [job EXCEPT ![j].at = a, ![j].chunks = a, ![j].pc = p]
    BY <1>1 DEF ChunkDone
  <2>2. CASE \E c : job' = [job EXCEPT ![j].pc = "load", ![j].chunks = c]
    BY <1>1, <2>2 DEF JobType
  <2>3. CASE \E a, p : /\ p \in {"load", "swap", "finish"}
                       /\ job' = [job EXCEPT ![j].at = a, ![j].chunks = a, ![j].pc = p]
    <3>1. PICK a, p : /\ p \in {"load", "swap", "finish"}
                      /\ job' = [job EXCEPT ![j].at = a, ![j].chunks = a, ![j].pc = p]
      BY <2>3
    <3>2. job'[j] = [job[j] EXCEPT !.at = a, !.chunks = a, !.pc = p]
      BY <1>1, <3>1
    <3> QED
      BY <1>1, <3>1, <3>2 DEF JobType
  <2> QED
    BY <2>1, <2>2, <2>3
<1>7. LoadBatch(j) => To({"load", "finish", "failed"}) /\ BuiltStays
  <2> SUFFICES ASSUME LoadBatch(j) PROVE To({"load", "finish", "failed"}) /\ BuiltStays
    OBVIOUS
  <2>1. job[j].pc = "load" /\ (\/ Goto(j, "finish") \/ Goto(j, "failed")
                               \/ \E u : job' = [job EXCEPT ![j].at = u])
    BY DEF LoadBatch
  <2> QED
    BY <1>1, <2>1 DEF Goto, JobType
<1>8. DumpRow(j) => To({"dump", "finish"}) /\ BuiltStays
  <2> SUFFICES ASSUME DumpRow(j) PROVE To({"dump", "finish"}) /\ BuiltStays
    OBVIOUS
  <2>1. CASE Goto(j, "finish")
    BY <1>1, <2>1 DEF Goto, JobType
  <2>2. CASE \E t, o : job' = [job EXCEPT ![j].todo = t, ![j].out = o]
    <3>1. PICK t, o : job' = [job EXCEPT ![j].todo = t, ![j].out = o]
      BY <2>2
    <3>2. job'[j] = [job[j] EXCEPT !.todo = t, !.out = o] /\ job[j].pc = "dump"
      BY <1>1, <3>1 DEF DumpRow
    <3> QED
      BY <1>1, <3>2 DEF JobType
  <2>3. Goto(j, "finish") \/ \E t, o : job' = [job EXCEPT ![j].todo = t, ![j].out = o]
    BY DEF DumpRow
  <2> QED
    BY <2>1, <2>2, <2>3
<1>9. Finish(j) \/ Fail(j) \/ Interrupt(j) => To({"completed", "failed", "interrupted"}) /\ BuiltStays
  BY <1>1 DEF Finish, Fail, Interrupt, Goto, JobType
<1>10. Swap(j) => To({"index", "failed"}) /\ BuiltStays
  BY <1>1 DEF Swap, Goto, JobType
<1>11. StartIndex(j) => To({"index", "building", "completed"})
  <2> SUFFICES ASSUME StartIndex(j) PROVE To({"index", "building", "completed"})
    OBVIOUS
  <2>1. job[j].pc = "index" /\ (\/ Goto(j, "completed") \/ Goto(j, "building")
                                \/ \E n : job' = [job EXCEPT ![j].built = n])
    BY DEF StartIndex
  <2> QED
    BY <1>1, <2>1 DEF Goto, JobType
<1>12. FinishIndex(j) => To({"index"})
  <2> SUFFICES ASSUME FinishIndex(j) PROVE To({"index"})
    OBVIOUS
  <2>1. \E n : job'[j] = [job[j] EXCEPT !.pc = "index", !.built = n]
    BY FinishTables
  <2> QED
    BY <1>1, <2>1 DEF JobType
<1>13. Same(job'[j])
  BY <1>2, <1>3, <1>4, <1>5, <1>6, <1>7, <1>8, <1>9, <1>10, <1>11, <1>12 DEF Step
<1>14. StartIndex(j) \/ FinishIndex(j) \/ BuiltStays
  <2> HIDE DEF BuiltStays
  <2> QED
    BY <1>2, <1>3, <1>4, <1>5, <1>6, <1>7, <1>8, <1>9, <1>10 DEF Step
<1>15. job'[j].pc = "dump" => DumpRow(j)
  BY <1>2, <1>3, <1>4, <1>5, <1>6, <1>7, <1>9, <1>10, <1>11, <1>12 DEF Step
<1>16. job'[j].pc \in {"index", "building"} => Swap(j) \/ StartIndex(j) \/ FinishIndex(j)
  BY <1>2, <1>3, <1>4, <1>5, <1>6, <1>7, <1>8, <1>9 DEF Step
<1>17. job'[j].pc = "completed" => Finish(j) \/ StartIndex(j)
  <2>1. Fail(j) \/ Interrupt(j) => job'[j].pc # "completed"
    BY <1>1 DEF Fail, Interrupt, Goto, JobType
  <2> QED
    BY <1>2, <1>3, <1>4, <1>5, <1>6, <1>7, <1>8, <1>10, <1>12, <2>1 DEF Step
<1> QED
  BY <1>13, <1>14, <1>15, <1>16, <1>17


(* Only a swap takes rows from the live table, or any index.  No step but  *)
(* those of the staging table's users touches that table.                  *)
LEMMA StepOfTables ==
    ASSUME Base, NEW j \in Jobs, Step(j)
    PROVE  /\ ~Swap(j) => table["main"].rows \subseteq table'["main"].rows
           /\ ~Swap(j) => table'["backup"] = table["backup"]
           /\ ~Swap(j) /\ ~StartIndex(j) /\ ~FinishIndex(j) =>
                  /\ table'["main"].valid = table["main"].valid
                  /\ table'["main"].invalid = table["main"].invalid
           /\ job[j].kind \notin Staged => table'["staging"] = table["staging"]
<1>1. table \in [Names -> TableType] /\ {"main", "staging", "backup"} = Names
      /\ \A n \in Names : table[n] \in TableType
  BY DEF Base, TypeOK, Names
<1>2. JobInv(job[j])
  BY DEF Base
<1>3. ASSUME Recreate(j)
      PROVE  /\ job[j].kind \in Staged
             /\ table'["main"] = table["main"] /\ table'["backup"] = table["backup"]
  BY <1>1, <1>2, <1>3 DEF Recreate, JobInv
<1>4. ASSUME NEW n \in Names, NEW new, table' = [table EXCEPT ![n].rows = @ \cup new],
             n # "backup", n = "staging" => job[j].kind \in Staged
      PROVE  /\ table["main"].rows \subseteq table'["main"].rows
             /\ table'["main"].valid = table["main"].valid
             /\ table'["main"].invalid = table["main"].invalid
             /\ table'["backup"] = table["backup"]
             /\ job[j].kind \notin Staged => table'["staging"] = table["staging"]
  <2> DEFINE t == [table[n] EXCEPT !.rows = table[n].rows \cup new]
  <2>1. t.rows = table[n].rows \cup new /\ t.valid = table[n].valid /\ t.invalid = table[n].invalid
    BY <1>1 DEF TableType
  <2>2. table' = [table EXCEPT ![n] = t]
    BY <1>1, <1>4
  <2> HIDE DEF t
  <2> QED
    BY <1>1, <1>4, <2>1, <2>2
<1>5. ASSUME Insert(j)
      PROVE  \/ \E new : table' = [table EXCEPT ![Target(j)].rows = @ \cup new]
             \/ table' = table
  BY <1>5 DEF Insert
<1>6. Target(j) \in Names /\ Target(j) # "backup"
      /\ (Target(j) = "staging" => job[j].kind \in Staged)
  BY DEF Target, Names
<1>7. ASSUME LoadBatch(j)
      PROVE  \/ \E new : table' = [table EXCEPT !["main"].rows = @ \cup new]
             \/ table' = table
  BY <1>7 DEF LoadBatch
<1>8. ASSUME Swap(j) \/ StartIndex(j) \/ FinishIndex(j)
      PROVE  job[j].kind \in Staged
  BY <1>2, <1>8 DEF Swap, StartIndex, FinishIndex, JobInv
<1>9. ASSUME StartIndex(j) \/ FinishIndex(j)
      PROVE  /\ table'["main"].rows = table["main"].rows /\ table'["backup"] = table["backup"]
  <2>1. CASE \E v, w : table' = [table EXCEPT !["main"].invalid = w, !["main"].valid = v]
    <3>1. PICK v, w : table' = [table EXCEPT !["main"].invalid = w, !["main"].valid = v]
      BY <2>1
    <3> DEFINE t == [table["main"] EXCEPT !.invalid = w, !.valid = v]
    <3>2. t.rows = table["main"].rows /\ table' = [table EXCEPT !["main"] = t]
      BY <1>1, <3>1 DEF TableType
    <3> HIDE DEF t
    <3> QED
      BY <1>1, <3>2
  <2>2. table' = table \/ \E v, w : table' = [table EXCEPT !["main"].invalid = w, !["main"].valid = v]
    BY <1>9, StartTables, FinishTables
  <2> QED
    BY <2>1, <2>2
<1>10. ASSUME table' = table
       PROVE  /\ table["main"].rows \subseteq table'["main"].rows
              /\ table'["main"].valid = table["main"].valid
              /\ table'["main"].invalid = table["main"].invalid
              /\ table'["backup"] = table["backup"]
              /\ table'["staging"] = table["staging"]
  BY <1>10
<1>11. ASSUME Insert(j) \/ LoadBatch(j)
       PROVE  /\ table["main"].rows \subseteq table'["main"].rows
              /\ table'["main"].valid = table["main"].valid
              /\ table'["main"].invalid = table["main"].invalid
              /\ table'["backup"] = table["backup"]
              /\ job[j].kind \notin Staged => table'["staging"] = table["staging"]
  BY <1>1, <1>4, <1>5, <1>6, <1>7, <1>10, <1>11
<1>12. ASSUME ~Recreate(j), ~Insert(j), ~LoadBatch(j), ~Swap(j), ~StartIndex(j), ~FinishIndex(j)
       PROVE  table' = table
  BY <1>12 DEF Step, Prepare, LoadPage, LoadRecords, ChunkDone, DumpRow, Finish, Fail, Interrupt
<1> QED
  BY <1>3, <1>8, <1>9, <1>10, <1>11, <1>12


(* What a dump has written and has still to write is in the live table,    *)
(* which the lock of its transaction keeps from being replaced.            *)
DumpInv ==
    \A j \in Jobs : job[j].pc = "dump" => job[j].out \cup job[j].todo \subseteq table["main"].rows

LEMMA DumpBegin ==
    ASSUME Base, DumpInv, NEW j \in Jobs, NEW k \in Kinds, Begin(j, k)
    PROVE  DumpInv'
<1>1. /\ job'[j].out = {}
      /\ job'[j].todo = IF k = "dump" THEN table["main"].rows ELSE {}
      /\ \A i \in Jobs \ {j} :
            job'[i].pc = job[i].pc /\ job'[i].out = job[i].out /\ job'[i].todo = job[i].todo
  BY BeginFields
<1>2. table' = table
  BY DEF Begin
<1> QED
  BY <1>1, <1>2 DEF DumpInv

LEMMA DumpStep == Base /\ DumpInv /\ [Next]_vars => DumpInv'
<1> SUFFICES ASSUME Base, DumpInv, [Next]_vars PROVE DumpInv'
  OBVIOUS
<1>1. ASSUME NEW j \in Jobs, Step(j), ~Swap(j) PROVE DumpInv'
  <2>1. /\ \A i \in Jobs \ {j} : job'[i] = job[i]
        /\ table["main"].rows \subseteq table'["main"].rows
        /\ job'[j].pc = "dump" => DumpRow(j)
    BY <1>1, OthersStay, StepOfJob, StepOfTables
  <2>2. DumpRow(j) /\ job'[j].pc = "dump" =>
           job'[j].out \cup job'[j].todo = job[j].out \cup job[j].todo /\ job[j].pc = "dump"
    <3> SUFFICES ASSUME DumpRow(j), job'[j].pc = "dump"
                 PROVE  job'[j].out \cup job'[j].todo = job[j].out \cup job[j].todo
      BY DEF DumpRow
    <3>1. job \in [Jobs -> JobType] /\ job[j] \in JobType
      BY DEF Base, TypeOK
    <3>2. ~Goto(j, "finish")
      BY <3>1 DEF Goto, JobType
    <3>3. PICK row \in job[j].todo :
             job' = [job EXCEPT ![j].todo = @ \ {row}, ![j].out = @ \cup {row}]
      BY <3>2 DEF DumpRow
    <3> DEFINE t == job[j].todo \ {row}
               o == job[j].out \cup {row}
    <3>4. job'[j] = [job[j] EXCEPT !.todo = t, !.out = o]
      BY <3>1, <3>3
    <3> HIDE DEF t, o
    <3>5. job'[j].out = o /\ job'[j].todo = t
      BY <3>1, <3>4 DEF JobType
    <3> QED
      BY <3>3, <3>5 DEF t, o
  <2> QED
    BY <2>1, <2>2 DEF DumpInv
<1>2. ASSUME NEW j \in Jobs, Swap(j) PROVE DumpInv'
  <2>1. Step(j) /\ ~DumpRow(j) /\ \A i \in Jobs : job[i].pc # "dump"
    BY <1>2 DEF Step, Swap, DumpRow
  <2>2. \A i \in Jobs : job'[i].pc # "dump"
    BY <2>1, OthersStay, StepOfJob
  <2> QED
    BY <2>2 DEF DumpInv
<1>3. ASSUME NEW j \in Jobs, NEW k \in Kinds, Begin(j, k) PROVE DumpInv'
  BY <1>3, DumpBegin
<1>4. ASSUME UNCHANGED vars PROVE DumpInv'
  BY <1>4 DEF vars, DumpInv
<1> QED
  BY <1>1, <1>2, <1>3, <1>4 DEF Next, Step

(* A dump that ends is of the table that is live then.                     *)
THEOREM DumpsAreLive == Spec => DumpIsLive
<1>1. Init => DumpInv
  BY DEF Init, DumpInv, Idle
<1>2. Base /\ DumpInv /\ [Next]_vars =>
         [\A j \in Jobs :
             job[j].kind = "dump" /\ job[j].pc = "dump" /\ job'[j].pc = "finish"
             => job[j].out \subseteq table["main"].rows]_vars
  BY DEF DumpInv
<1> QED
  BY BaseInit, BaseStep, <1>1, <1>2, DumpStep, PTL DEF Spec, DumpIsLive



----------------------------------------------------------------------------
(* The indexes of the live table *)

(* Only the live table has indexes, unless backups are kept. *)
NoIndexes(t) == t.valid = {} /\ t.invalid = {}
Bare == NoIndexes(table["staging"]) /\ (DropBackup => NoIndexes(table["backup"]))

Rebuilding(j) == job[j].pc \in {"index", "building"}
Undisturbed == DropBackup /\ used.faults = 0 /\ used.interrupts = 0

(* A rebuild that has come to index n leaves it valid, or being built by   *)
(* another job; so an index that is missing is still to be built.          *)
IndexKept(n) ==
    \/ Indexes[n] \in table["main"].valid
    \/ \E j \in Jobs : Rebuilding(j) /\ job[j].built < n
IndexBuilt(n) ==
    Indexes[n] \in table["main"].invalid =>
        \E j \in Jobs : job[j].pc = "building" /\ job[j].built + 1 = n
IndexInv ==
    /\ Bare
    /\ \A j \in Jobs : Active(j) /\ ~Rebuilding(j) => job[j].built = 0
    /\ Undisturbed => \A n \in 1..5 : IndexKept(n) /\ IndexBuilt(n)

LEMMA IndexInit == Init => IndexInv
<1> SUFFICES ASSUME Init PROVE IndexInv
  OBVIOUS
<1>1. PICK rows \in Before :
         table = [n \in Names |-> IF n = "main"
                                  THEN [Fresh EXCEPT !.rows = rows, !.valid = IndexNames]
                                  ELSE Absent]
  BY DEF Init
<1>2. table["staging"] = Absent /\ table["backup"] = Absent
      /\ table["main"] = [Fresh EXCEPT !.rows = rows, !.valid = IndexNames]
  BY <1>1 DEF Names
<1>3. Bare /\ table["main"].valid = IndexNames /\ table["main"].invalid = {}
  BY <1>2 DEF Bare, NoIndexes, Absent, Fresh
<1>4. \A j \in Jobs : job[j].built = 0
  BY DEF Init, Idle
<1>5. \A n \in 1..5 : Indexes[n] \in IndexNames
  BY IndexNamed
<1> QED
  BY <1>3, <1>4, <1>5 DEF IndexInv, IndexKept, IndexBuilt

(* Rows come without indexes, and so does a fresh table. *)
LEMMA BareStep ==
    ASSUME Base, Bare, NEW j \in Jobs, Step(j)
    PROVE  Bare'
<1>1. table \in [Names -> TableType] /\ {"main", "staging", "backup"} = Names
      /\ \A n \in Names : table[n] \in TableType
  BY DEF Base, TypeOK, Names
<1>2. NoIndexes(Absent) /\ NoIndexes(Fresh)
  BY DEF NoIndexes, Absent, Fresh
<1>3. ASSUME NEW n \in Names, NEW new, table' = [table EXCEPT ![n].rows = @ \cup new]
      PROVE  Bare'
  <2> DEFINE t == [table[n] EXCEPT !.rows = table[n].rows \cup new]
  <2>1. t.valid = table[n].valid /\ t.invalid = table[n].invalid /\ table' = [table EXCEPT ![n] = t]
    BY <1>1, <1>3 DEF TableType
  <2> HIDE DEF t
  <2> QED
    BY <1>1, <2>1 DEF Bare, NoIndexes
<1>4. ASSUME table' = table PROVE Bare'
  BY <1>4 DEF Bare
<1>5. Insert(j) \/ LoadBatch(j) => Bare'
  <2>1. Target(j) \in Names /\ "main" \in Names
    BY DEF Target, Names
  <2>2. Insert(j) => table' = table \/ \E new : table' = [table EXCEPT ![Target(j)].rows = @ \cup new]
    BY DEF Insert
  <2>3. LoadBatch(j) => table' = table \/ \E new : table' = [table EXCEPT !["main"].rows = @ \cup new]
    BY DEF LoadBatch
  <2> QED
    BY <1>3, <1>4, <2>1, <2>2, <2>3
<1>6. Recreate(j) => Bare'
  <2> SUFFICES ASSUME Recreate(j) PROVE Bare'
    OBVIOUS
  <2>1. table'["staging"] = Fresh /\ table'["backup"] = table["backup"]
    BY <1>1 DEF Recreate
  <2> QED
    BY <1>2, <2>1 DEF Bare
<1>7. StartIndex(j) \/ FinishIndex(j) => Bare'
  <2> SUFFICES ASSUME StartIndex(j) \/ FinishIndex(j) PROVE Bare'
    OBVIOUS
  <2>1. table' = table \/ \E v, w : table' = [table EXCEPT !["main"].invalid = w, !["main"].valid = v]
    BY StartTables, FinishTables
  <2>2. ASSUME NEW v, NEW w, table' = [table EXCEPT !["main"].invalid = w, !["main"].valid = v]
        PROVE  table'["staging"] = table["staging"] /\ table'["backup"] = table["backup"]
    BY <1>1, <2>2
  <2>3. table'["staging"] = table["staging"] /\ table'["backup"] = table["backup"]
    BY <2>1, <2>2
  <2> QED
    BY <2>3 DEF Bare
<1>8. Swap(j) => Bare'
  <2> SUFFICES ASSUME Swap(j), table' # table PROVE Bare'
    BY <1>4
  <2>1. table' = [main |-> table["staging"], staging |-> Absent,
                  backup |-> IF DropBackup THEN Absent ELSE table["main"]]
    BY DEF Swap
  <2> QED
    BY <1>2, <2>1 DEF Bare
<1>9. ASSUME ~Recreate(j), ~Insert(j), ~LoadBatch(j), ~Swap(j), ~StartIndex(j), ~FinishIndex(j)
      PROVE  table' = table
  BY <1>9 DEF Step, Prepare, LoadPage, LoadRecords, ChunkDone, DumpRow, Finish, Fail, Interrupt
<1> QED
  BY <1>4, <1>5, <1>6, <1>7, <1>8, <1>9

(* A step that is none of a rebuild, nor the end of one. *)
LEMMA IndexOther ==
    ASSUME Base, IndexInv, NEW j \in Jobs, Step(j),
           ~Swap(j), ~StartIndex(j), ~FinishIndex(j)
    PROVE  IndexInv'
<1>1. Bare'
  BY BareStep DEF IndexInv
<1>2. /\ \A i \in Jobs \ {j} : job'[i] = job[i]
      /\ job'[j].built = job[j].built /\ job'[j].pc \notin {"index", "building"}
      /\ Active(j)
      /\ table'["main"].valid = table["main"].valid /\ table'["main"].invalid = table["main"].invalid
  BY OthersStay, StepOfJob, StepOfTables
<1>3. Fail(j) \/ Interrupt(j) \/ ~Rebuilding(j)
  BY DEF Step, Prepare, Recreate, LoadPage, LoadRecords, Insert, ChunkDone, LoadBatch, DumpRow,
     Finish, Rebuilding
<1>4. ~Fail(j) /\ ~Interrupt(j) => used' = used
  BY DEF Step, Prepare, Recreate, LoadPage, LoadRecords, Insert, ChunkDone, LoadBatch, DumpRow,
     Finish, Swap, StartIndex, FinishIndex
<1>5. Fail(j) \/ Interrupt(j) => ~Undisturbed'
  <2>1. used \in [faults : Nat, interrupts : Nat]
    BY DEF Base, TypeOK
  <2> QED
    BY <2>1 DEF Fail, Interrupt, Undisturbed
<1>6. \A i \in Jobs : Active(i)' /\ ~Rebuilding(i)' => job'[i].built = 0
  <2>1. \A i \in Jobs \ {j} : (Active(i)' <=> Active(i)) /\ (Rebuilding(i)' <=> Rebuilding(i))
    BY <1>2 DEF Active, Rebuilding
  <2>2. Active(j)' => ~Fail(j) /\ ~Interrupt(j)
    <3>1. job \in [Jobs -> JobType]
      BY DEF Base, TypeOK
    <3> QED
      BY <3>1 DEF Fail, Interrupt, Goto, Active, Ended, JobType
  <2> QED
    BY <1>2, <1>3, <2>1, <2>2 DEF IndexInv
<1>7. CASE Fail(j) \/ Interrupt(j)
  BY <1>1, <1>5, <1>6, <1>7 DEF IndexInv
<1>8. CASE ~Fail(j) /\ ~Interrupt(j)
  <2>1. ~Rebuilding(j) /\ (Undisturbed' => Undisturbed)
    BY <1>3, <1>4, <1>8 DEF Undisturbed
  <2> QED
    BY <1>1, <1>2, <1>6, <2>1 DEF IndexInv, IndexKept, IndexBuilt, Rebuilding
<1> QED
  BY <1>7, <1>8



LEMMA IndexSwap ==
    ASSUME Base, IndexInv, NEW j \in Jobs, Swap(j)
    PROVE  IndexInv'
<1>1. Bare' /\ used' = used /\ job[j].pc = "swap" /\ Step(j) /\ job[j].built = 0
  <2>1. Step(j) /\ job[j].pc = "swap" /\ used' = used
    BY DEF Step, Swap
  <2> QED
    BY <2>1, BareStep DEF IndexInv, Active, Rebuilding, Ended
<1>2. \A i \in Jobs \ {j} : job'[i] = job[i]
  BY <1>1, OthersStay
<1>3. job'[j].built = 0 /\ job'[j].pc \in {"index", "failed"}
  <2>1. Goto(j, "index") \/ Goto(j, "failed")
    BY SwapTables
  <2>2. job \in [Jobs -> JobType] /\ job[j] \in JobType
    BY DEF Base, TypeOK
  <2> QED
    BY <1>1, <2>1, <2>2 DEF Goto, JobType
<1>4. \A i \in Jobs : Active(i)' /\ ~Rebuilding(i)' => job'[i].built = 0
  BY <1>2, <1>3 DEF IndexInv, Active, Rebuilding
<1>5. CASE UNCHANGED table /\ Goto(j, "failed")
  <2>1. ASSUME Undisturbed, NEW n \in 1..5 PROVE IndexKept(n)' /\ IndexBuilt(n)'
    <3>1. IndexKept(n) /\ IndexBuilt(n)
      BY <2>1 DEF IndexInv, IndexKept, IndexBuilt
    <3> QED
      BY <1>1, <1>2, <1>5, <3>1 DEF IndexKept, IndexBuilt, Rebuilding
  <2> QED
    BY <1>1, <1>4, <2>1 DEF IndexInv, IndexKept, IndexBuilt, Undisturbed
<1>6. CASE table'["main"] = table["staging"] /\ Goto(j, "index")
  <2>1. job'[j].pc = "index"
    <3>1. job \in [Jobs -> JobType] /\ job[j] \in JobType
      BY DEF Base, TypeOK
    <3> QED
      BY <1>6, <3>1 DEF Goto, JobType
  <2>2. table'["main"].invalid = {}
    BY <1>6 DEF IndexInv, Bare, NoIndexes
  <2>3. ASSUME NEW n \in 1..5 PROVE IndexKept(n)' /\ IndexBuilt(n)'
    <3>1. job'[j].built < n /\ Rebuilding(j)'
      BY <1>3, <2>1 DEF Rebuilding
    <3> QED
      BY <2>2, <3>1 DEF IndexKept, IndexBuilt
  <2> QED
    BY <1>1, <1>4, <2>3 DEF IndexInv, IndexKept, IndexBuilt, Undisturbed
<1> QED
  BY <1>5, <1>6, SwapTables

LEMMA IndexStart ==
    ASSUME Base, IndexInv, NEW j \in Jobs, StartIndex(j)
    PROVE  IndexInv'
<1>1. Bare' /\ used' = used /\ job[j].pc = "index" /\ Step(j)
  <2>1. Step(j) /\ job[j].pc = "index" /\ used' = used
    BY DEF Step, StartIndex
  <2> QED
    BY <2>1, BareStep DEF IndexInv
<1>2. /\ \A i \in Jobs \ {j} : job'[i] = job[i]
      /\ job \in [Jobs -> JobType] /\ job[j] \in JobType
      /\ \A i \in Jobs : job[i].built \in 0..5
      /\ table \in [Names -> TableType] /\ table["main"] \in TableType
  BY <1>1, OthersStay, Constants DEF Base, TypeOK, JobType, Names
<1> DEFINE m == job[j].built + 1
<1>3. CASE /\ ~DropBackup \/ m = 6
           /\ UNCHANGED table /\ Goto(j, "completed")
  <2>1. job'[j].pc = "completed"
    BY <1>2, <1>3 DEF Goto, JobType
  <2>2. ASSUME Undisturbed, NEW n \in 1..5 PROVE IndexKept(n)' /\ IndexBuilt(n)'
    <3>1. IndexKept(n) /\ IndexBuilt(n) /\ ~(job[j].built < n)
      BY <1>2, <1>3, <2>2 DEF IndexInv, IndexKept, IndexBuilt, Undisturbed
    <3> QED
      BY <1>1, <1>2, <1>3, <3>1 DEF IndexKept, IndexBuilt, Rebuilding
  <2>3. \A i \in Jobs : Active(i)' /\ ~Rebuilding(i)' => job'[i].built = 0
    BY <1>2, <2>1 DEF IndexInv, Active, Rebuilding, Ended
  <2> QED
    BY <1>1, <2>2, <2>3 DEF IndexInv, IndexKept, IndexBuilt, Undisturbed
<1>4. CASE /\ m \in 1..5 /\ NameTaken(Indexes[m])
           /\ UNCHANGED table /\ job' = [job EXCEPT ![j].built = m]
  <2>1. job'[j].pc = "index" /\ job'[j].built = m
    BY <1>1, <1>2, <1>4 DEF JobType
  <2>2. ASSUME Undisturbed, NEW n \in 1..5 PROVE IndexKept(n)' /\ IndexBuilt(n)'
    <3>1. IndexKept(n) /\ IndexBuilt(n)
      BY <2>2 DEF IndexInv, IndexKept, IndexBuilt
    <3>2. IndexBuilt(n)'
      BY <1>1, <1>2, <1>4, <3>1 DEF IndexBuilt
    <3>3. CASE n = m
      <4>1. Indexes[n] \in table["main"].valid \cup table["main"].invalid
        <5>1. DropBackup
          BY <2>2 DEF Undisturbed
        <5> QED
          BY <1>4, <3>3, <5>1 DEF NameTaken, Names, IndexInv, Bare, NoIndexes
      <4>2. CASE Indexes[n] \in table["main"].valid
        BY <1>4, <3>2, <4>2 DEF IndexKept
      <4>3. CASE Indexes[n] \in table["main"].invalid
        <5>1. PICK i \in Jobs : job[i].pc = "building" /\ job[i].built + 1 = n
          BY <3>1, <4>3 DEF IndexBuilt
        <5>2. i # j /\ job'[i] = job[i] /\ job[i].built < n
          BY <1>1, <1>2, <5>1
        <5> QED
          BY <3>2, <5>1, <5>2 DEF IndexKept, Rebuilding
      <4> QED
        BY <4>1, <4>2, <4>3
    <3>4. CASE n # m
      <4>1. job[j].built < n => job'[j].built < n
        BY <1>2, <2>1, <3>4
      <4> QED
        BY <1>2, <1>4, <2>1, <3>1, <3>2, <4>1 DEF IndexKept, Rebuilding
    <3> QED
      BY <3>3, <3>4
  <2>3. \A i \in Jobs : Active(i)' /\ ~Rebuilding(i)' => job'[i].built = 0
    BY <1>2, <2>1 DEF IndexInv, Active, Rebuilding
  <2> QED
    BY <1>1, <2>2, <2>3 DEF IndexInv, IndexKept, IndexBuilt, Undisturbed
<1>5. CASE /\ m \in 1..5 /\ Goto(j, "building")
           /\ table' = [table EXCEPT !["main"].invalid = table["main"].invalid \cup {Indexes[m]},
                                     !["main"].valid = table["main"].valid]
  <2>1. job'[j].pc = "building" /\ job'[j].built = job[j].built
    BY <1>2, <1>5 DEF Goto, JobType
  <2>2. /\ table'["main"].valid = table["main"].valid
        /\ table'["main"].invalid = table["main"].invalid \cup {Indexes[m]}
    <3> DEFINE v == table["main"].valid
               w == table["main"].invalid \cup {Indexes[m]}
    <3>1. /\ v \in SUBSET IndexNames /\ w \in SUBSET IndexNames
          /\ table' = [table EXCEPT !["main"].invalid = w, !["main"].valid = v]
      BY <1>2, <1>5, IndexNamed DEF TableType
    <3> HIDE DEF v, w
    <3>2. table'["main"].valid = v /\ table'["main"].invalid = w
      BY <3>1, IndexTables
    <3> QED
      BY <3>2 DEF v, w
  <2>3. ASSUME Undisturbed, NEW n \in 1..5 PROVE IndexKept(n)' /\ IndexBuilt(n)'
    <3>1. IndexKept(n) /\ IndexBuilt(n)
      BY <2>3 DEF IndexInv, IndexKept, IndexBuilt
    <3>2. IndexKept(n)'
      BY <1>2, <2>1, <2>2, <3>1 DEF IndexKept, Rebuilding
    <3>3. CASE Indexes[n] \in table["main"].invalid
      <4>1. PICK i \in Jobs : job[i].pc = "building" /\ job[i].built + 1 = n
        BY <3>1, <3>3 DEF IndexBuilt
      <4>2. i # j /\ job'[i] = job[i]
        BY <1>1, <1>2, <4>1
      <4> QED
        BY <3>2, <4>1, <4>2 DEF IndexBuilt
    <3>4. CASE Indexes[n] = Indexes[m]
      <4>1. n = m
        BY <1>5, <3>4, IndexesDiffer
      <4> QED
        BY <2>1, <3>2, <4>1 DEF IndexBuilt
    <3> QED
      BY <2>2, <3>2, <3>3, <3>4 DEF IndexBuilt
  <2>4. \A i \in Jobs : Active(i)' /\ ~Rebuilding(i)' => job'[i].built = 0
    BY <1>2, <2>1 DEF IndexInv, Active, Rebuilding
  <2> QED
    BY <1>1, <2>3, <2>4 DEF IndexInv, IndexKept, IndexBuilt, Undisturbed
<1> QED
  BY <1>3, <1>4, <1>5, StartTables



LEMMA IndexFinish ==
    ASSUME Base, IndexInv, NEW j \in Jobs, FinishIndex(j)
    PROVE  IndexInv'
<1>1. Bare' /\ used' = used /\ job[j].pc = "building" /\ Step(j)
  <2>1. Step(j) /\ job[j].pc = "building" /\ used' = used
    BY DEF Step, FinishIndex
  <2> QED
    BY <2>1, BareStep DEF IndexInv
<1>2. /\ \A i \in Jobs \ {j} : job'[i] = job[i]
      /\ \A i \in Jobs : job[i].built \in 0..5
      /\ job[j] \in JobType /\ table["main"] \in TableType
  BY <1>1, OthersStay, Constants DEF Base, TypeOK, JobType, Names
<1> DEFINE m == job[j].built + 1
           v == table["main"].valid \cup {Indexes[m]}
           w == table["main"].invalid \ {Indexes[m]}
<1>3. /\ m \in 1..5
      /\ table' = [table EXCEPT !["main"].invalid = w, !["main"].valid = v]
      /\ job'[j] = [job[j] EXCEPT !.pc = "index", !.built = m]
  BY FinishTables
<1>4. table'["main"].valid = v /\ table'["main"].invalid = w
  <2>1. v \in SUBSET IndexNames /\ w \in SUBSET IndexNames
    BY <1>2, <1>3, IndexNamed DEF TableType
  <2> HIDE DEF v, w
  <2> QED
    BY <1>3, <2>1, IndexTables
<1>5. job'[j].pc = "index" /\ job'[j].built = m
  <2> HIDE DEF m
  <2> QED
    BY <1>2, <1>3 DEF JobType
<1>6. ASSUME Undisturbed, NEW n \in 1..5 PROVE IndexKept(n)' /\ IndexBuilt(n)'
  <2>1. IndexKept(n) /\ IndexBuilt(n)
    BY <1>6 DEF IndexInv
  <2>2. CASE n = m
    BY <1>4, <2>2 DEF IndexKept, IndexBuilt
  <2>3. CASE n # m
    <3>1. job[j].built < n => job'[j].built < n
      BY <1>2, <1>5, <2>3
    <3>2. IndexKept(n)'
      BY <1>2, <1>4, <1>5, <2>1, <3>1 DEF IndexKept, Rebuilding
    <3>3. ASSUME Indexes[n] \in table["main"].invalid
          PROVE  \E i \in Jobs : job'[i].pc = "building" /\ job'[i].built + 1 = n
      <4>1. PICK i \in Jobs : job[i].pc = "building" /\ job[i].built + 1 = n
        BY <2>1, <3>3 DEF IndexBuilt
      <4>2. i # j
        BY <2>3, <4>1
      <4> QED
        BY <1>2, <4>1, <4>2
    <3> QED
      BY <1>4, <3>2, <3>3 DEF IndexBuilt
  <2> QED
    BY <2>2, <2>3
<1>7. \A i \in Jobs : Active(i)' /\ ~Rebuilding(i)' => job'[i].built = 0
  BY <1>2, <1>5 DEF IndexInv, Active, Rebuilding
<1> QED
  BY <1>1, <1>6, <1>7 DEF IndexInv, Undisturbed

LEMMA IndexBegin ==
    ASSUME Base, IndexInv, NEW j \in Jobs, NEW k \in Kinds, Begin(j, k)
    PROVE  IndexInv'
<1>1. /\ job'[j].built = 0 /\ job'[j].pc \notin {"index", "building"}
      /\ \A i \in Jobs \ {j} : job'[i].pc = job[i].pc /\ job'[i].built = job[i].built
  <2>1. FirstStep(k) \notin {"index", "building"}
    BY DEF FirstStep
  <2> QED
    BY <2>1, BeginFields
<1>2. job[j].pc = "idle" /\ table' = table /\ used' = used
  BY DEF Begin
<1>3. \A i \in Jobs : (Rebuilding(i)' <=> Rebuilding(i)) /\ (Rebuilding(i) => i # j)
  BY <1>1, <1>2 DEF Rebuilding
<1>4. \A i \in Jobs : Active(i)' /\ ~Rebuilding(i)' => job'[i].built = 0
  BY <1>1, <1>3 DEF IndexInv, Active
<1>5. ASSUME Undisturbed, NEW n \in 1..5 PROVE IndexKept(n)' /\ IndexBuilt(n)'
  <2>1. IndexKept(n) /\ IndexBuilt(n)
    BY <1>5 DEF IndexInv
  <2> QED
    BY <1>1, <1>2, <1>3, <2>1 DEF IndexKept, IndexBuilt, Rebuilding
<1>6. Bare'
  BY <1>2 DEF IndexInv, Bare
<1> QED
  BY <1>2, <1>4, <1>5, <1>6 DEF IndexInv, Undisturbed

LEMMA IndexStep == Base /\ IndexInv /\ [Next]_vars => IndexInv'
<1> SUFFICES ASSUME Base, IndexInv, [Next]_vars PROVE IndexInv'
  OBVIOUS
<1>1. ASSUME NEW j \in Jobs, Step(j) PROVE IndexInv'
  BY <1>1, IndexOther, IndexSwap, IndexStart, IndexFinish
<1>2. ASSUME NEW j \in Jobs, NEW k \in Kinds, Begin(j, k) PROVE IndexInv'
  BY <1>2, IndexBegin
<1>3. ASSUME UNCHANGED vars PROVE IndexInv'
  <2>1. Bare' /\ (Undisturbed' <=> Undisturbed)
    BY <1>3 DEF vars, IndexInv, Bare, Undisturbed
  <2>2. \A n \in 1..5 : (IndexKept(n)' <=> IndexKept(n)) /\ (IndexBuilt(n)' <=> IndexBuilt(n))
    BY <1>3 DEF vars, IndexKept, IndexBuilt, Rebuilding
  <2>3. \A i \in Jobs : Active(i)' /\ ~Rebuilding(i)' => job'[i].built = 0
    BY <1>3 DEF vars, IndexInv, Active, Rebuilding
  <2> QED
    BY <2>1, <2>2, <2>3 DEF IndexInv
<1> QED
  BY <1>1, <1>2, <1>3 DEF Next, Step

(* When nothing runs and nothing was cut short, the live table has all its *)
(* indexes, however the swaps and rebuilds of any number of jobs           *)
(* interleaved.                                                            *)
THEOREM QuietIsSearchable == Spec => []QuietMeansSearchable
<1>1. Base /\ IndexInv => QuietMeansSearchable
  <2> SUFFICES ASSUME Base, IndexInv, DropBackup, used.faults = 0, used.interrupts = 0,
                      \A j \in Jobs : ~Active(j)
               PROVE  table["main"].valid = IndexNames
    BY DEF QuietMeansSearchable
  <2>1. \A n \in 1..5 : IndexKept(n)
    BY DEF IndexInv, Undisturbed
  <2>2. \A j \in Jobs : ~Rebuilding(j)
    BY DEF Active, Rebuilding, Ended
  <2>3. \A n \in 1..5 : Indexes[n] \in table["main"].valid
    BY <2>1, <2>2 DEF IndexKept
  <2>4. table["main"] \in TableType
    BY DEF Base, TypeOK, Names
  <2>5. IndexNames = {Indexes[1], Indexes[2], Indexes[3], Indexes[4], Indexes[5]}
    BY Constants
  <2> QED
    BY <2>3, <2>4, <2>5 DEF TableType
<1> QED
  BY BaseInit, BaseStep, IndexInit, IndexStep, <1>1, PTL DEF Spec



----------------------------------------------------------------------------
(* What a replace import puts in place of the live table *)

(* Two jobs that use the staging table at the same time both know it: a    *)
(* job that does not is alone.                                             *)
Alone ==
    \A i, j \in Jobs :
        i # j /\ Active(i) /\ Active(j) /\ job[i].kind \in Staged /\ job[j].kind \in Staged
        => job[j].shared

(* A replace import that is alone has in staging what it has read of its   *)
(* file, but for the rows it still has to insert.                          *)
KeysUpTo(f, n) == {KeyOf(Raw(f)[m]) : m \in 1..n}
Filling(q, rows) ==
    q.kind = "replace" /\ ~q.shared =>
        /\ q.pc = "load" => rows = KeysUpTo(q.file, q.at)
        /\ q.pc = "insert" => rows \cup q.todo = KeysUpTo(q.file, q.at)
        /\ q.pc = "swap" => rows = Keys(q.file)
Filled == \A j \in Jobs : Filling(job[j], table["staging"].rows)

LEMMA AloneBegin ==
    ASSUME Base, Alone, Filled, NEW j \in Jobs, NEW k \in Kinds, Begin(j, k)
    PROVE  Alone' /\ Filled'
<1>1. /\ job'[j].kind = k /\ job'[j].pc = FirstStep(k) /\ job'[j].shared = (Sharing(k) # {})
      /\ \A i \in Jobs \ {j} :
            /\ job'[i].kind = job[i].kind /\ job'[i].pc = job[i].pc /\ job'[i].at = job[i].at
            /\ job'[i].file = job[i].file /\ job'[i].todo = job[i].todo
            /\ job'[i].shared = (job[i].shared \/ i \in Sharing(k))
  BY BeginFields
<1>2. table' = table /\ ~Active(j)
  BY DEF Begin, Active
<1>3. \A i \in Jobs \ {j} : Active(i)' <=> Active(i)
  BY <1>1 DEF Active
<1>4. Alone'
  <2>1. SUFFICES ASSUME NEW h \in Jobs, NEW i \in Jobs, h # i, Active(h)', Active(i)',
                        job'[h].kind \in Staged, job'[i].kind \in Staged
                 PROVE  job'[i].shared
    BY DEF Alone
  <2>2. CASE i = j
    <3>1. h \in Sharing(k)
      BY <1>1, <1>3, <2>1, <2>2 DEF Sharing
    <3> QED
      BY <1>1, <2>2, <3>1
  <2>3. CASE h = j
    <3>1. i \in Sharing(k)
      BY <1>1, <1>3, <2>1, <2>3 DEF Sharing
    <3> QED
      BY <1>1, <2>1, <2>3, <3>1
  <2>4. CASE i # j /\ h # j
    BY <1>1, <1>3, <2>1, <2>4 DEF Alone
  <2> QED
    BY <2>2, <2>3, <2>4
<1>5. Filled'
  <2>1. ASSUME NEW i \in Jobs \ {j} PROVE Filling(job'[i], table'["staging"].rows)
    BY <1>1, <1>2 DEF Filled, Filling
  <2>2. Filling(job'[j], table'["staging"].rows)
    <3>1. k = "replace" => FirstStep(k) = "prepare"
      BY DEF FirstStep, Staged
    <3> QED
      BY <1>1, <3>1 DEF Filling
  <2> QED
    BY <2>1, <2>2 DEF Filled
<1> QED
  BY <1>4, <1>5

(* What a step of another job does to staging does not matter to one that  *)
(* is alone.                                                               *)
LEMMA AloneStep ==
    ASSUME Base, Alone, Filled, NEW j \in Jobs, Step(j),
           Filling(job'[j], table'["staging"].rows)
    PROVE  Alone' /\ Filled'
<1>1. /\ \A i \in Jobs \ {j} : job'[i] = job[i]
      /\ Active(j) /\ job'[j].kind = job[j].kind /\ job'[j].shared = job[j].shared
      /\ job[j].kind \notin Staged => table'["staging"] = table["staging"]
  BY OthersStay, StepOfJob, StepOfTables
<1>2. Alone'
  <2>1. \A i \in Jobs : Active(i)' => Active(i)
    BY <1>1 DEF Active
  <2> QED
    BY <1>1, <2>1 DEF Alone
<1>3. ASSUME NEW i \in Jobs \ {j} PROVE Filling(job'[i], table'["staging"].rows)
  <2>1. CASE job[j].kind \notin Staged
    BY <1>1, <2>1 DEF Filled
  <2>2. CASE job[j].kind \in Staged /\ Active(i)
    <3>1. job[i].kind \in Staged => job[i].shared
      BY <1>1, <2>2 DEF Alone
    <3> QED
      BY <1>1, <3>1 DEF Filling, Staged
  <2>3. CASE ~Active(i)
    BY <1>1, <2>3 DEF Filling, Active, Ended
  <2> QED
    BY <2>1, <2>2, <2>3
<1> QED
  BY <1>1, <1>2, <1>3 DEF Filled

LEMMA UpToEnd ==
    ASSUME NEW f PROVE Keys(f) = KeysUpTo(f, Len(Raw(f)))
BY DEF Keys, KeysUpTo

LEMMA NothingRead ==
    ASSUME NEW f PROVE KeysUpTo(f, 0) = {}
<1>1. 1..0 = {}
  OBVIOUS
<1> QED
  BY <1>1 DEF KeysUpTo

LEMMA ReadOn ==
    ASSUME NEW f, NEW m \in Nat, NEW n \in Nat, m <= n
    PROVE  KeysUpTo(f, n) = KeysUpTo(f, m) \cup {KeyOf(Raw(f)[i]) : i \in (m + 1)..n}
<1>1. 1..n = (1..m) \cup ((m + 1)..n)
  OBVIOUS
<1> QED
  BY <1>1 DEF KeysUpTo


LEMMA FillingLoad ==
    ASSUME Base, Filled, NEW j \in Jobs, LoadRecords(j), job[j].kind = "replace"
    PROVE  Filling(job'[j], table'["staging"].rows)
<1> DEFINE q == job[j]
           raw == Raw(q.file)
           keys == {KeyOf(raw[n]) : n \in (q.at + 1)..Upto(q)}
<1>1. job \in [Jobs -> JobType] /\ q \in JobType /\ q.pc = "load" /\ Reading(q) /\ q.kind = "replace"
  BY DEF Base, TypeOK, LoadRecords, JobInv, Imports
<1>2. job' = IF Bad(q) \/ raw = << >> THEN [job EXCEPT ![j].pc = "rejected"]
             ELSE IF q.at = Upto(q) THEN [job EXCEPT ![j].pc = "swap"]
             ELSE [job EXCEPT ![j].pc = "insert", ![j].at = Upto(q), ![j].todo = keys]
  BY DEF LoadRecords, Bad, Upto, SeenIds
<1>3. /\ Upto(q) \in Nat /\ q.at <= Upto(q) /\ q.at \in Nat
      /\ ~Bad(q) /\ raw # << >> /\ q.at = Upto(q) => q.at = Len(raw)
  BY <1>1, ReadChunk DEF JobType
<1>4. ~q.shared => table["staging"].rows = KeysUpTo(q.file, q.at)
  BY <1>1 DEF Filled, Filling
<1>5. table' = table
  BY DEF LoadRecords
<1>6. KeysUpTo(q.file, q.at) \cup keys = KeysUpTo(q.file, Upto(q))
  BY <1>3, ReadOn
<1> HIDE DEF q, keys, raw
<1>7. q = job[j] /\ raw = Raw(q.file)
  BY DEF q, raw
<1>8. CASE Bad(q) \/ raw = << >>
  <2>1. job'[j].pc = "rejected"
    BY <1>1, <1>2, <1>7, <1>8 DEF JobType
  <2> QED
    BY <2>1 DEF Filling
<1>9. CASE ~(Bad(q) \/ raw = << >>) /\ q.at = Upto(q)
  <2>1. job'[j] = [q EXCEPT !.pc = "swap"]
    BY <1>1, <1>2, <1>7, <1>9
  <2>2. job'[j].pc = "swap" /\ job'[j].file = q.file /\ job'[j].shared = q.shared
    BY <1>1, <2>1 DEF JobType
  <2>3. Keys(q.file) = KeysUpTo(q.file, q.at)
    BY <1>3, <1>7, <1>9, UpToEnd
  <2> QED
    BY <1>4, <1>5, <2>2, <2>3 DEF Filling
<1>10. CASE ~(Bad(q) \/ raw = << >>) /\ q.at # Upto(q)
  <2>1. job'[j] = [q EXCEPT !.pc = "insert", !.at = Upto(q), !.todo = keys]
    BY <1>1, <1>2, <1>7, <1>10
  <2>2. /\ job'[j].pc = "insert" /\ job'[j].file = q.file /\ job'[j].shared = q.shared
        /\ job'[j].at = Upto(q) /\ job'[j].todo = keys
    BY <1>1, <2>1 DEF JobType
  <2> QED
    BY <1>4, <1>5, <1>6, <2>2 DEF Filling
<1> QED
  BY <1>8, <1>9, <1>10

LEMMA FillingInsert ==
    ASSUME Base, Filled, NEW j \in Jobs, Insert(j), job[j].kind = "replace"
    PROVE  Filling(job'[j], table'["staging"].rows)
<1>1. job \in [Jobs -> JobType] /\ job[j] \in JobType /\ job[j].pc = "insert" /\ Target(j) = "staging"
      /\ table \in [Names -> TableType] /\ "staging" \in Names /\ table["staging"] \in TableType
  BY DEF Base, TypeOK, Insert, Target, Staged, Names
<1>2. PICK row \in job[j].todo :
         \/ /\ table' = [table EXCEPT !["staging"].rows = @ \cup {row}]
            /\ job' = [job EXCEPT ![j].todo = @ \ {row}]
         \/ Goto(j, "duplicate") \/ Goto(j, "failed")
  BY <1>1 DEF Insert
<1>3. CASE /\ table' = [table EXCEPT !["staging"].rows = @ \cup {row}]
           /\ job' = [job EXCEPT ![j].todo = @ \ {row}]
  <2> DEFINE todo == job[j].todo \ {row}
             rows == table["staging"].rows \cup {row}
  <2>1. job'[j] = [job[j] EXCEPT !.todo = todo] /\ table'["staging"] = [table["staging"] EXCEPT !.rows = rows]
    BY <1>1, <1>3
  <2>2. rows \cup todo = table["staging"].rows \cup job[j].todo
    BY <1>2
  <2> HIDE DEF todo, rows
  <2>3. /\ job'[j].pc = "insert" /\ job'[j].file = job[j].file /\ job'[j].shared = job[j].shared
        /\ job'[j].at = job[j].at /\ job'[j].todo = todo /\ job'[j].kind = job[j].kind
        /\ table'["staging"].rows = rows
    BY <1>1, <2>1 DEF JobType, TableType
  <2>4. Filling(job[j], table["staging"].rows)
    BY DEF Filled
  <2> QED
    BY <1>1, <2>2, <2>3, <2>4 DEF Filling
<1>4. CASE Goto(j, "duplicate") \/ Goto(j, "failed")
  <2>1. job'[j].pc \in {"duplicate", "failed"}
    BY <1>1, <1>4 DEF Goto, JobType
  <2> QED
    BY <2>1 DEF Filling
<1> QED
  BY <1>2, <1>3, <1>4

(* The steps of a replace import, and those after its swap. *)
LEMMA FillingStep ==
    ASSUME Base, Filled, NEW j \in Jobs, Step(j)
    PROVE  Filling(job'[j], table'["staging"].rows)
<1>1. /\ job \in [Jobs -> JobType] /\ job[j] \in JobType /\ JobInv(job[j])
      /\ table \in [Names -> TableType] /\ "staging" \in Names
      /\ job'[j].kind = job[j].kind
  BY StepOfJob DEF Base, TypeOK, Names
<1>2. SUFFICES ASSUME job[j].kind = "replace" PROVE Filling(job'[j], table'["staging"].rows)
  BY <1>1 DEF Filling
<1>3. job[j].kind \in Imports /\ job[j].kind \notin Loads /\ Reading(job[j])
  BY <1>1, <1>2 DEF Imports, Loads, JobInv
<1>4. CASE Prepare(j)
  <2>1. job[j].at = 0 /\ job[j].pc = "prepare"
    BY <1>3, <1>4 DEF Reading, Prepare
  <2>2. PICK keep \in BOOLEAN :
           /\ keep => job[j].at > 0
           /\ job' = [job EXCEPT ![j].pc = IF keep THEN "load" ELSE "recreate",
                                 ![j].at = IF keep THEN @ ELSE 0]
    BY <1>4 DEF Prepare
  <2>3. job'[j].pc = "recreate"
    BY <1>1, <2>1, <2>2 DEF JobType
  <2> QED
    BY <2>3 DEF Filling
<1>5. CASE Recreate(j)
  <2>1. job[j].at = 0 /\ job'[j] = [job[j] EXCEPT !.pc = "load"]
    BY <1>3, <1>5, GotoJob DEF Reading, Recreate
  <2>2. job'[j].pc = "load" /\ job'[j].at = 0
    BY <1>1, <2>1 DEF JobType
  <2>3. table'["staging"].rows = {}
    BY <1>1, <1>5 DEF Recreate, Fresh, Absent
  <2> QED
    BY <2>2, <2>3, NothingRead DEF Filling
<1>6. CASE LoadRecords(j)
  BY <1>2, <1>6, FillingLoad
<1>7. CASE Insert(j)
  BY <1>2, <1>7, FillingInsert
<1>8. CASE ChunkDone(j)
  <2>1. \E c : job' = [job EXCEPT ![j].pc = "load", ![j].chunks = c]
    BY <1>1, <1>3, <1>8 DEF ChunkDone
  <2>2. PICK c : job'[j] = [job[j] EXCEPT !.pc = "load", !.chunks = c]
    BY <1>1, <2>1
  <2>3. /\ job'[j].pc = "load" /\ job'[j].file = job[j].file /\ job'[j].shared = job[j].shared
        /\ job'[j].at = job[j].at
    BY <1>1, <2>2 DEF JobType
  <2>4. Filling(job[j], table["staging"].rows) /\ job[j].pc = "insert" /\ job[j].todo = {} /\ table' = table
    BY <1>8 DEF Filled, ChunkDone
  <2> QED
    BY <1>2, <2>3, <2>4 DEF Filling
<1>9. CASE DumpRow(j) \/ Finish(j) \/ Swap(j) \/ StartIndex(j) \/ FinishIndex(j) \/ Fail(j) \/ Interrupt(j)
  <2>1. ~DumpRow(j)
    BY <1>1, <1>2 DEF DumpRow, JobInv
  <2>2. Finish(j) \/ Swap(j) \/ Fail(j) \/ Interrupt(j) =>
           job'[j].pc \in {"completed", "index", "failed", "interrupted"}
    BY <1>1 DEF Finish, Swap, Fail, Interrupt, Goto, JobType
  <2>3. FinishIndex(j) => job'[j].pc = "index"
    <3>1. FinishIndex(j) => \E n : job'[j] = [job[j] EXCEPT !.pc = "index", !.built = n]
      BY FinishTables
    <3> QED
      BY <1>1, <3>1 DEF JobType
  <2>4. StartIndex(j) => job'[j].pc \in {"index", "building", "completed"}
    <3>1. StartIndex(j) => job[j].pc = "index" /\ (\/ Goto(j, "completed") \/ Goto(j, "building")
                                                   \/ \E n : job' = [job EXCEPT ![j].built = n])
      BY DEF StartIndex
    <3> QED
      BY <1>1, <3>1 DEF Goto, JobType
  <2> QED
    BY <1>9, <2>1, <2>2, <2>3, <2>4 DEF Filling
<1>10. ~LoadPage(j) /\ ~LoadBatch(j)
  BY <1>3 DEF LoadPage, LoadBatch
<1> QED
  BY <1>4, <1>5, <1>6, <1>7, <1>8, <1>9, <1>10 DEF Step

LEMMA AloneInit == Init => Alone /\ Filled
<1> SUFFICES ASSUME Init PROVE Alone /\ Filled
  OBVIOUS
<1>1. \A j \in Jobs : ~Active(j) /\ job[j].kind = "none"
  BY DEF Init, Idle, Active
<1> QED
  BY <1>1 DEF Alone, Filled, Filling

LEMMA AloneNext == Base /\ Alone /\ Filled /\ [Next]_vars => Alone' /\ Filled'
<1> SUFFICES ASSUME Base, Alone, Filled, [Next]_vars PROVE Alone' /\ Filled'
  OBVIOUS
<1>1. ASSUME NEW j \in Jobs, Step(j) PROVE Alone' /\ Filled'
  BY <1>1, FillingStep, AloneStep
<1>2. ASSUME NEW j \in Jobs, NEW k \in Kinds, Begin(j, k) PROVE Alone' /\ Filled'
  BY <1>2, AloneBegin
<1>3. ASSUME UNCHANGED vars PROVE Alone' /\ Filled'
  BY <1>3 DEF vars, Alone, Filled, Active
<1> QED
  BY <1>1, <1>2, <1>3 DEF Next, Step

(* A job that comes from its swap to its rebuild has swapped. *)
LEMMA ToIndex ==
    ASSUME Base, [Next]_vars, NEW j \in Jobs, job[j].pc = "swap", job'[j].pc = "index"
    PROVE  Swap(j) /\ table'["main"] = table["staging"]
<1>1. job \in [Jobs -> JobType]
  BY DEF Base, TypeOK
<1>2. PICK i \in Jobs : Step(i) \/ \E k \in Kinds : Begin(i, k)
  BY DEF Next, Step, vars
<1>3. ~\E k \in Kinds : Begin(i, k)
  <2> SUFFICES ASSUME NEW k \in Kinds, Begin(i, k) PROVE FALSE
    OBVIOUS
  <2>1. i # j
    BY DEF Begin
  <2> QED
    BY <2>1, BeginFields
<1>4. i = j
  BY <1>2, <1>3, OthersStay
<1>5. Swap(j)
  BY <1>2, <1>3, <1>4, StepOfJob DEF StartIndex, FinishIndex
<1>6. ~Goto(j, "failed")
  BY <1>1 DEF Goto, JobType
<1> QED
  BY <1>5, <1>6, SwapTables

(* A replace import that had the staging table for itself puts exactly its *)
(* file in the place of the live table: however many other jobs wrote to   *)
(* the live table or swapped before, and in chunks of any size.            *)
THEOREM ReplacesWhole == Spec => ReplaceIsWhole
<1>1. Base /\ Filled /\ [Next]_vars =>
         [\A j \in Jobs :
             job[j].kind = "replace" /\ ~job[j].shared
             /\ job[j].pc = "swap" /\ job'[j].pc = "index"
             => table'["main"].rows = Keys(job[j].file)]_vars
  <2> SUFFICES ASSUME Base, Filled, [Next]_vars, NEW j \in Jobs, job[j].kind = "replace",
                      ~job[j].shared, job[j].pc = "swap", job'[j].pc = "index"
               PROVE  table'["main"].rows = Keys(job[j].file)
    OBVIOUS
  <2> QED
    BY ToIndex DEF Filled, Filling
<1> QED
  BY BaseInit, BaseStep, AloneInit, AloneNext, <1>1, PTL DEF Spec, ReplaceIsWhole
=============================================================================
