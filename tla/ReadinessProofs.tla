--------------------------- MODULE ReadinessProofs ---------------------------
(***************************************************************************)
(* Theorems about Readiness: what the readiness check answers next to any  *)
(* number of jobs.  The steps of the jobs are those of Ingestion, so that  *)
(* its invariants hold here too.                                           *)
(***************************************************************************)
EXTENDS Readiness, IngestionProofs

----------------------------------------------------------------------------
(* Types *)

ProbeType ==
    [pc : {"idle", "lexical", "gather", "redis", "answered"}, found : 0..2, healthy : BOOLEAN]

(* While the lexical check goes on, an index is left to look at. *)
ProbeInv ==
    /\ probe \in ProbeType /\ swapped \in BOOLEAN
    /\ probe.pc = "lexical" => probe.found < 2

LEMMA TwoIndexes == Len(Lexical) = 2 /\ 1..Len(Lexical) = {1, 2}
<1>1. Len(Lexical) = 2
  BY DEF Lexical
<1> QED
  BY <1>1

LEMMA JobsOrProbe ==
    /\ ReadyInit => Init
    /\ [ReadyNext]_<<vars, probe, swapped>> => [Next]_vars
BY DEF ReadyInit, ReadyNext, JobStep

LEMMA ProbeInit == ReadyInit => ProbeInv
<1> SUFFICES ASSUME ReadyInit PROVE ProbeInv
  OBVIOUS
<1>1. probe = [pc |-> "idle", found |-> 0, healthy |-> TRUE]
  BY DEF ReadyInit
<1>2. probe \in ProbeType /\ probe.pc = "idle"
  BY <1>1 DEF ProbeType
<1>3. swapped \in BOOLEAN
  BY DEF ReadyInit
<1> QED
  BY <1>2, <1>3 DEF ProbeInv

LEMMA ProbeStep == ProbeInv /\ [ReadyNext]_<<vars, probe, swapped>> => ProbeInv'
<1> SUFFICES ASSUME ProbeInv, [ReadyNext]_<<vars, probe, swapped>> PROVE ProbeInv'
  OBVIOUS
<1>1. probe \in ProbeType /\ probe.found \in 0..2 /\ probe.healthy \in BOOLEAN
      /\ swapped \in BOOLEAN
  BY DEF ProbeInv, ProbeType
<1>2. ASSUME ProbeBegin PROVE ProbeInv'
  <2>1. probe' = [pc |-> "lexical", found |-> 0, healthy |-> TRUE]
    BY <1>2 DEF ProbeBegin
  <2>2. probe' \in ProbeType /\ probe'.found = 0
    BY <2>1 DEF ProbeType
  <2>3. swapped' \in BOOLEAN
    BY <1>2 DEF ProbeBegin
  <2> QED
    BY <2>2, <2>3 DEF ProbeInv
<1>3. ASSUME NEW h \in BOOLEAN, NEW p \in {"gather", "redis", "answered"}, UNCHANGED swapped,
             probe' = [probe EXCEPT !.healthy = h, !.pc = p]
      PROVE  ProbeInv'
  BY <1>1, <1>3 DEF ProbeInv, ProbeType
<1>4. ASSUME CheckIndex PROVE ProbeInv'
  <2>1. probe.pc = "lexical" /\ probe.found + 1 \in 1..2 /\ UNCHANGED swapped
    BY <1>1, <1>4 DEF CheckIndex, ProbeInv
  <2> DEFINE m == probe.found + 1
             p == IF m < 2 THEN "lexical" ELSE "gather"
  <2>2. CASE probe' = [probe EXCEPT !.found = m, !.pc = p]
    <3>1. p \in {"lexical", "gather"} /\ (p = "lexical" => m < 2) /\ m \in 0..2
      BY <2>1
    <3> HIDE DEF m, p
    <3> QED
      BY <1>1, <2>1, <2>2, <3>1 DEF ProbeInv, ProbeType
  <2>3. CASE probe' = [probe EXCEPT !.healthy = FALSE, !.pc = "gather"]
    BY <1>3, <2>1, <2>3
  <2>4. \/ probe' = [probe EXCEPT !.found = m, !.pc = p]
        \/ probe' = [probe EXCEPT !.healthy = FALSE, !.pc = "gather"]
    BY <1>1, <1>4, TwoIndexes DEF CheckIndex
  <2> QED
    BY <2>2, <2>3, <2>4
<1>5. ASSUME CheckFails PROVE ProbeInv'
  BY <1>3, <1>5 DEF CheckFails
<1>6. ASSUME GatherDone PROVE ProbeInv'
  <2>1. PICK down \in SUBSET Others :
           probe' = [probe EXCEPT !.healthy = probe.healthy /\ down = {}, !.pc = "redis"]
    BY <1>1, <1>6 DEF GatherDone
  <2> DEFINE h == probe.healthy /\ down = {}
  <2>2. h \in BOOLEAN /\ UNCHANGED swapped
    BY <1>6 DEF GatherDone
  <2> HIDE DEF h
  <2>3. probe' = [probe EXCEPT !.healthy = h, !.pc = "redis"]
    BY <2>1 DEF h
  <2> QED
    BY <1>3, <2>2, <2>3
<1>7. ASSUME Answer PROVE ProbeInv'
  <2>1. PICK up \in BOOLEAN :
           probe' = [probe EXCEPT !.healthy = probe.healthy /\ up, !.pc = "answered"]
    BY <1>1, <1>7 DEF Answer
  <2> DEFINE h == probe.healthy /\ up
  <2>2. h \in BOOLEAN /\ UNCHANGED swapped
    BY <1>7 DEF Answer
  <2> HIDE DEF h
  <2>3. probe' = [probe EXCEPT !.healthy = h, !.pc = "answered"]
    BY <2>1 DEF h
  <2> QED
    BY <1>3, <2>2, <2>3
<1>8. ASSUME JobStep PROVE ProbeInv'
  BY <1>1, <1>8 DEF JobStep, ProbeInv
<1>9. ASSUME UNCHANGED <<vars, probe, swapped>> PROVE ProbeInv'
  BY <1>9 DEF ProbeInv
<1> QED
  BY <1>2, <1>4, <1>5, <1>6, <1>7, <1>8, <1>9 DEF ReadyNext, Probe

(* Every variable of the jobs and of the probe has its type, whatever the  *)
(* probe and the jobs do at the same time.                                 *)
THEOREM ReadyTypeCorrect == ReadySpec => []ReadyTypeOK
<1>1. Base /\ ProbeInv => ReadyTypeOK
  BY TwoIndexes DEF Base, ProbeInv, ProbeType, ReadyTypeOK
<1> QED
  BY BaseInit, BaseStep, JobsOrProbe, ProbeInit, ProbeStep, <1>1, PTL DEF ReadySpec


----------------------------------------------------------------------------
(* What a check that is well so far has seen *)

(* Since the check began, the indexes that it found are in the live table. *)
(* This is so only where backups are dropped: to_regclass finds an index   *)
(* of a backup table as well.                                              *)
Seen ==
    probe.healthy /\ ~swapped =>
        /\ \A n \in 1..2 : n <= probe.found => Lexical[n] \in table["main"].valid
        /\ probe.pc \in {"gather", "redis", "answered"} => probe.found = 2
SeenInv == DropBackup => Seen

LEMMA SeenInit == ReadyInit => SeenInv
<1> SUFFICES ASSUME ReadyInit PROVE SeenInv
  OBVIOUS
<1>1. probe = [pc |-> "idle", found |-> 0, healthy |-> TRUE]
  BY DEF ReadyInit
<1>2. probe.pc = "idle" /\ probe.found = 0
  BY <1>1
<1>3. \A n \in 1..2 : ~(n <= 0)
  OBVIOUS
<1> QED
  BY <1>2, <1>3 DEF SeenInv, Seen

(* The name that to_regclass finds is that of an index of the live table.  *)
LEMMA ReadyIsLive ==
    ASSUME Bare, DropBackup, NEW x, IndexReady(x)
    PROVE  x \in table["main"].valid
BY DEF Bare, NoIndexes, IndexReady, Names

LEMMA SeenProbe ==
    ASSUME Bare, ProbeInv, Seen, DropBackup, Probe, UNCHANGED vars
    PROVE  Seen'
<1>1. probe \in ProbeType /\ probe.found \in 0..2 /\ probe.healthy \in BOOLEAN
      /\ table' = table
  BY DEF ProbeInv, ProbeType, vars
<1>2. ASSUME ProbeBegin PROVE Seen'
  <2>1. probe' = [pc |-> "lexical", found |-> 0, healthy |-> TRUE]
    BY <1>2 DEF ProbeBegin
  <2>2. probe'.pc = "lexical" /\ probe'.found = 0
    BY <2>1
  <2>3. \A n \in 1..2 : ~(n <= 0)
    OBVIOUS
  <2> QED
    BY <2>2, <2>3 DEF Seen
(* Once the lexical check is over, a healthy probe only goes on. *)
<1>3. ASSUME NEW h \in BOOLEAN, NEW p, UNCHANGED swapped, probe' = [probe EXCEPT !.healthy = h, !.pc = p],
             h => probe.healthy /\ probe.found = 2
      PROVE  Seen'
  <2>1. probe'.healthy = h /\ probe'.found = probe.found
    BY <1>1, <1>3 DEF ProbeType
  <2> QED
    BY <1>1, <1>3, <2>1 DEF Seen
<1>4. ASSUME CheckIndex PROVE Seen'
  <2> DEFINE m == probe.found + 1
             p == IF m < 2 THEN "lexical" ELSE "gather"
  <2>1. UNCHANGED swapped /\ m \in 1..2
    BY <1>1, <1>4 DEF CheckIndex, ProbeInv
  <2>2. CASE IndexReady(Lexical[m]) /\ probe' = [probe EXCEPT !.found = m, !.pc = p]
    <3>1. p = "gather" => m = 2
      BY <2>1
    <3>2. Lexical[m] \in table["main"].valid
      BY <2>2, ReadyIsLive
    <3>3. \A n \in 1..2 : n <= m => n = m \/ n <= probe.found
      BY <1>1
    <3>4. p \in {"lexical", "gather"}
      OBVIOUS
    <3> HIDE DEF m, p
    <3>5. probe'.found = m /\ probe'.pc = p /\ probe'.healthy = probe.healthy
      BY <1>1, <2>2 DEF ProbeType
    <3> QED
      BY <1>1, <2>1, <3>1, <3>2, <3>3, <3>4, <3>5 DEF Seen
  <2>3. CASE probe' = [probe EXCEPT !.healthy = FALSE, !.pc = "gather"]
    BY <1>3, <2>1, <2>3
  <2>4. \/ IndexReady(Lexical[m]) /\ probe' = [probe EXCEPT !.found = m, !.pc = p]
        \/ probe' = [probe EXCEPT !.healthy = FALSE, !.pc = "gather"]
    BY <1>1, <1>4, TwoIndexes DEF CheckIndex
  <2> QED
    BY <2>2, <2>3, <2>4
<1>5. ASSUME CheckFails PROVE Seen'
  BY <1>3, <1>5 DEF CheckFails
<1>6. ASSUME NEW h \in BOOLEAN, NEW p, UNCHANGED swapped, probe' = [probe EXCEPT !.healthy = h, !.pc = p],
             probe.pc \in {"gather", "redis"}, h => probe.healthy
      PROVE  Seen'
  <2>1. CASE h /\ ~swapped
    BY <1>3, <1>6, <2>1 DEF Seen
  <2>2. CASE ~h \/ swapped
    <3>1. probe'.healthy = h
      BY <1>1, <1>6 DEF ProbeType
    <3> QED
      BY <1>6, <2>2, <3>1 DEF Seen
  <2> QED
    BY <2>1, <2>2
<1>7. ASSUME GatherDone PROVE Seen'
  <2>1. PICK down \in SUBSET Others :
           probe' = [probe EXCEPT !.healthy = probe.healthy /\ down = {}, !.pc = "redis"]
    BY <1>1, <1>7 DEF GatherDone
  <2> DEFINE h == probe.healthy /\ down = {}
  <2>2. h \in BOOLEAN /\ UNCHANGED swapped /\ (h => probe.healthy) /\ probe.pc = "gather"
    BY <1>7 DEF GatherDone
  <2> HIDE DEF h
  <2>3. probe' = [probe EXCEPT !.healthy = h, !.pc = "redis"]
    BY <2>1 DEF h
  <2> QED
    BY <1>6, <2>2, <2>3
<1>8. ASSUME Answer PROVE Seen'
  <2>1. PICK up \in BOOLEAN :
           probe' = [probe EXCEPT !.healthy = probe.healthy /\ up, !.pc = "answered"]
    BY <1>1, <1>8 DEF Answer
  <2> DEFINE h == probe.healthy /\ up
  <2>2. h \in BOOLEAN /\ UNCHANGED swapped /\ (h => probe.healthy) /\ probe.pc = "redis"
    BY <1>8 DEF Answer
  <2> HIDE DEF h
  <2>3. probe' = [probe EXCEPT !.healthy = h, !.pc = "answered"]
    BY <2>1 DEF h
  <2> QED
    BY <1>6, <2>2, <2>3
<1> QED
  BY <1>2, <1>4, <1>5, <1>7, <1>8 DEF Probe

(* The live table loses an index only to a swap, which is noted. *)
LEMMA ValidStays ==
    ASSUME Base, Next
    PROVE  \/ table["main"].valid \subseteq table'["main"].valid
           \/ \E j \in Jobs : job[j].pc = "swap" /\ job'[j].pc = "index"
<1>1. PICK j \in Jobs : Step(j) \/ \E k \in Kinds : Begin(j, k)
  BY DEF Next, Step
<1>2. CASE \E k \in Kinds : Begin(j, k)
  <2>1. table' = table
    BY <1>2 DEF Begin
  <2> QED
    BY <2>1
<1>3. CASE Step(j) /\ ~Swap(j) /\ ~StartIndex(j) /\ ~FinishIndex(j)
  BY <1>3, StepOfTables
<1>4. CASE Swap(j)
  <2>1. job \in [Jobs -> JobType]
    BY DEF Base, TypeOK
  <2>2. (UNCHANGED table) \/ Goto(j, "index")
    BY <1>4, SwapTables
  <2>3. Goto(j, "index") => job'[j].pc = "index"
    BY <2>1 DEF Goto, JobType
  <2> QED
    BY <1>4, <2>2, <2>3 DEF Swap
<1>5. table["main"].valid \in SUBSET IndexNames /\ table["main"].invalid \in SUBSET IndexNames
  BY DEF Base, TypeOK, TableType, Names
<1> DEFINE x == Indexes[job[j].built + 1]
<1>6. ASSUME NEW v \in SUBSET IndexNames, NEW w \in SUBSET IndexNames,
             table["main"].valid \subseteq v,
             table' = [table EXCEPT !["main"].invalid = w, !["main"].valid = v]
      PROVE  table["main"].valid \subseteq table'["main"].valid
  BY <1>6, IndexTables
<1>7. CASE StartIndex(j)
  <2>1. CASE UNCHANGED table
    BY <2>1
  <2>2. CASE /\ x \in IndexNames
             /\ table' = [table EXCEPT !["main"].invalid = table["main"].invalid \cup {x},
                                       !["main"].valid = table["main"].valid]
    <3> HIDE DEF x
    <3>1. table["main"].invalid \cup {x} \in SUBSET IndexNames
      BY <1>5, <2>2
    <3> QED
      BY <1>5, <1>6, <2>2, <3>1
  <2> QED
    BY <1>7, <2>1, <2>2, StartTables, IndexNamed
<1>8. CASE FinishIndex(j)
  <2>1. /\ x \in IndexNames
        /\ table' = [table EXCEPT !["main"].invalid = table["main"].invalid \ {x},
                                  !["main"].valid = table["main"].valid \cup {x}]
    BY <1>8, FinishTables, IndexNamed
  <2> HIDE DEF x
  <2>2. /\ table["main"].invalid \ {x} \in SUBSET IndexNames
        /\ table["main"].valid \cup {x} \in SUBSET IndexNames
    BY <1>5, <2>1
  <2> QED
    BY <1>6, <2>1, <2>2
<1> QED
  BY <1>1, <1>2, <1>3, <1>4, <1>7, <1>8

LEMMA SeenStep ==
    Base /\ Bare /\ ProbeInv /\ SeenInv /\ [ReadyNext]_<<vars, probe, swapped>> => SeenInv'
<1> SUFFICES ASSUME Base, Bare, ProbeInv, Seen, DropBackup, [ReadyNext]_<<vars, probe, swapped>>
             PROVE  Seen'
  BY DEF SeenInv
<1>1. ASSUME Probe, UNCHANGED vars PROVE Seen'
  BY <1>1, SeenProbe
<1>2. ASSUME JobStep PROVE Seen'
  <2>1. probe' = probe /\ Next
    BY <1>2 DEF JobStep
  <2>2. CASE \E j \in Jobs : job[j].pc = "swap" /\ job'[j].pc = "index"
    <3>1. swapped'
      BY <1>2, <2>2 DEF JobStep
    <3> QED
      BY <3>1 DEF Seen
  <2>3. CASE table["main"].valid \subseteq table'["main"].valid
    <3>1. swapped => swapped'
      BY <1>2 DEF JobStep
    <3> QED
      BY <2>1, <2>3, <3>1 DEF Seen
  <2> QED
    BY <2>1, <2>2, <2>3, ValidStays
<1>3. ASSUME UNCHANGED <<vars, probe, swapped>> PROVE Seen'
  BY <1>3 DEF Seen, vars
<1> QED
  BY <1>1, <1>2, <1>3 DEF ReadyNext

(* Where swaps drop the backup table, an answer that says ready is right:  *)
(* both lexical indexes are there and valid, unless a swap was committed   *)
(* since the check began.                                                  *)
THEOREM ReadyMeansIndexed == ReadySpec => [](DropBackup => ReadyIsRight)
<1>1. SeenInv => (DropBackup => ReadyIsRight)
  BY TwoIndexes DEF SeenInv, Seen, ReadyIsRight
<1>2. IndexInv => Bare
  BY DEF IndexInv
<1> QED
  BY BaseInit, BaseStep, IndexInit, IndexStep, JobsOrProbe, ProbeInit, ProbeStep, SeenInit, SeenStep,
     <1>1, <1>2, PTL DEF ReadySpec
=============================================================================
