----------------------------- MODULE Ingestion -----------------------------
(***************************************************************************)
(* How documents get into the tables, and out: the seeding tasks SEED and  *)
(* RESEED (seeder.py, reseed.py), the reseed_staging.py script, the file   *)
(* import in its modes upsert and replace and as a dry run                 *)
(* (importing/service.py), and the scripts that dump the live table to a   *)
(* file and load a file into it.  SEED, upsert and load write to the live  *)
(* table batch by batch; RESEED and replace fill a staging table and swap  *)
(* it in.                                                                  *)
(*                                                                         *)
(* Only the tasks take the lock of SeedTasks.tla; scripts and imports do   *)
(* not.  A table is the set of the keys <<collection, id>> it holds, and   *)
(* each row stands for one batch: process_chunk embeds a page as a whole   *)
(* and then commits its rows one after the other.  Page p of the source    *)
(* holds documents of collection p.                                        *)
(***************************************************************************)
EXTENDS ImportReader, Integers

CONSTANTS
    Jobs,           \* ingestion runs, each used once
    Kinds,          \* what they may be
    PageRows,       \* PageRows[p]: rows of page p that survive the filters
    RowsPerChunk,   \* ROWS_PER_CHUNK
    Files,          \* the files that each kind of import and load may be given
    ImportChunk,    \* --chunk-size of an import, --batch-size of a load
    Before,         \* what the live table may hold in the beginning
    DropBackup,     \* DROP_BACKUP_AFTER_SWAP
    Overlap,        \* an operator may start a job next to another one
    MaxFaults,      \* bound: jobs that fail for a reason of their own
    MaxInterrupts   \* bound: tasks that end INTERRUPTED

Tasks == {"SEED", "RESEED"}
Staged == {"RESEED", "script", "replace"}
Imports == {"replace", "upsert", "dry run"}
Loads == {"load", "load upsert"}
NPages == Len(PageRows)
RowsOf(p) == IF p \in 1..NPages THEN {<<p, <<k>>>> : k \in 1..PageRows[p]} ELSE {}
PagesUpTo(n) == UNION {RowsOf(p) : p \in 1..n}
Source == PagesUpTo(NPages)

(* The search indexes, in the order in which rebuild_indexes builds them.  *)
Indexes == <<"content_tsv_gin", "content_trgm", "content_bm25", "metadata_json_gin",
             "embedding_hnsw">>
IndexNames == {Indexes[n] : n \in 1..Len(Indexes)}

AllFiles == UNION {Files[k] : k \in DOMAIN Files}
ASSUME KindsAssumption ==
    /\ Kinds \subseteq Tasks \cup {"script", "dump"} \cup Imports \cup Loads
    /\ Kinds \cap (Imports \cup Loads) \subseteq DOMAIN Files
ASSUME FilesAssumption == AllFiles \subseteq FileType
ASSUME ChunkAssumption == RowsPerChunk \in Nat \ {0} /\ ImportChunk \in Nat \ {0}
ASSUME PageRowsAssumption == PageRows \in Seq(0..RowsPerChunk)
ASSUME FlagsAssumption == DropBackup \in BOOLEAN /\ Overlap \in BOOLEAN
ASSUME BoundsAssumption == MaxFaults \in Nat /\ MaxInterrupts \in Nat

VARIABLES
    table,      \* the tables "main", "staging" and "backup"
    saved,      \* the latest INTERRUPTED task of an operation: its checkpoint
    robbed,     \* history: operations whose checkpoint speaks of pages that are gone
    job,        \* the ingestion runs
    used        \* how much of each bound is used up

vars == <<table, saved, robbed, job, used>>

(* An index that is being built, or whose build was cut off, is not valid. *)
Names == {"main", "staging", "backup"}
Absent == [exists |-> FALSE, rows |-> {}, valid |-> {}, invalid |-> {}]
Fresh == [Absent EXCEPT !.exists = TRUE]
NoTask == -1

Ended == {"completed", "failed", "rejected", "duplicate", "interrupted"}
Active(j) == job[j].pc \notin {"idle"} \cup Ended

(* job[j].at counts the pages or the entries of the file that are read,    *)
(* chunks what the TaskState reports, out what a dump has written; shared  *)
(* is history: another job was using the staging table at the same time.   *)
Idle == [kind |-> "none", pc |-> "idle", at |-> 0, chunks |-> 0, file |-> NoFile,
         todo |-> {}, out |-> {}, built |-> 0, shared |-> FALSE]

Init ==
    /\ \E rows \in Before :
          table = [n \in Names |-> IF n = "main"
                                   THEN [Fresh EXCEPT !.rows = rows, !.valid = IndexNames]
                                   ELSE Absent]
    /\ saved = [o \in Tasks |-> NoTask] /\ robbed = {}
    /\ job = [j \in Jobs |-> Idle]
    /\ used = [faults |-> 0, interrupts |-> 0]

Goto(j, p) == job' = [job EXCEPT ![j].pc = p]
Target(j) == IF job[j].kind \in Staged THEN "staging" ELSE "main"

----------------------------------------------------------------------------
(* A task runs under the lock, and resumes the checkpoint of its operation *)
(* if there is one.  A dump reads what its SELECT sees at once.            *)
FirstStep(k) == IF k \in Staged THEN "prepare" ELSE IF k = "dump" THEN "dump" ELSE "load"
Begin(j, k) ==
    /\ job[j].pc = "idle"
    /\ ~Overlap => \A i \in Jobs : ~Active(i)
    /\ k \in Tasks => \A i \in Jobs : Active(i) => job[i].kind \notin Tasks
    /\ LET start == IF k \in Tasks /\ saved[k] # NoTask THEN saved[k] ELSE 0
           others == {i \in Jobs : k \in Staged /\ Active(i) /\ job[i].kind \in Staged}
       IN \E f \in IF k \in Imports \cup Loads THEN Files[k] ELSE {NoFile} :
             job' = [i \in Jobs |->
                       IF i = j
                       THEN [Idle EXCEPT !.kind = k, !.at = start, !.chunks = start, !.file = f,
                                         !.pc = FirstStep(k),
                                         !.todo = IF k = "dump" THEN table["main"].rows ELSE {},
                                         !.shared = others # {}]
                       ELSE [job[i] EXCEPT !.shared = @ \/ i \in others]]
    /\ saved' = IF k \in Tasks THEN [saved EXCEPT ![k] = NoTask] ELSE saved
    /\ robbed' = IF k \in Tasks /\ saved[k] = NoTask THEN robbed \ {k} ELSE robbed
    /\ UNCHANGED <<table, used>>

(* Mutant of Prepare: the count is compared with one chunk less. *)
PrepareLenient(j) ==
    /\ job[j].pc = "prepare"
    /\ LET min == IF job[j].at < 2 THEN 0 ELSE (job[j].at - 2) * RowsPerChunk
           keep == job[j].at > 0 /\ Cardinality(table["staging"].rows) >= min
       IN job' = [job EXCEPT ![j].pc = IF keep THEN "load" ELSE "recreate",
                             ![j].at = IF keep THEN @ ELSE 0]
    /\ UNCHANGED <<table, saved, robbed, used>>

(* reseed(): a resumed run keeps a staging table that has enough rows; a   *)
(* table that is not there counts 0.  Everything else starts afresh, while *)
(* the TaskState still holds the old checkpoint.                           *)
Prepare(j) ==
    /\ job[j].pc = "prepare"
    /\ LET keep == /\ job[j].at > 0
                   /\ Cardinality(table["staging"].rows) >= (job[j].at - 1) * RowsPerChunk
       IN job' = [job EXCEPT ![j].pc = IF keep THEN "load" ELSE "recreate",
                             ![j].at = IF keep THEN @ ELSE 0]
    /\ UNCHANGED <<table, saved, robbed, used>>

(* History: a fresh staging table is the RESEED's own, or it takes away    *)
(* what a RESEED has put there so far.                                     *)
Pending(o) == saved[o] # NoTask \/ \E i \in Jobs : Active(i) /\ job[i].kind = o
RobReseed(j) ==
    robbed' = IF job[j].kind = "RESEED" THEN robbed \ {"RESEED"}
              ELSE IF Pending("RESEED") THEN robbed \cup {"RESEED"} ELSE robbed

(* Mutant of Recreate: CREATE TABLE IF NOT EXISTS, without the DROP. *)
RecreateIfAbsent(j) ==
    /\ job[j].pc = "recreate"
    /\ table' = IF table["staging"].exists THEN table ELSE [table EXCEPT !["staging"] = Fresh]
    /\ Goto(j, "load")
    /\ RobReseed(j)
    /\ UNCHANGED <<saved, used>>

Recreate(j) ==
    /\ job[j].pc = "recreate"
    /\ table' = [table EXCEPT !["staging"] = Fresh]
    /\ Goto(j, "load")
    /\ RobReseed(j)
    /\ UNCHANGED <<saved, used>>

(* The next page of the source, empty past the last one. *)
LoadPage(j) ==
    /\ job[j].pc = "load" /\ job[j].kind \notin Imports \cup Loads
    /\ job' = [job EXCEPT ![j].pc = "insert", ![j].todo = RowsOf(job[j].at + 1)]
    /\ UNCHANGED <<table, saved, robbed, used>>

(* Mutant of SeenIds: a set for each chunk. *)
SeenInChunk(j, n) ==
    LET first == n - ((n - 1) % ImportChunk)
    IN {KeyOf(Raw(job[j].file)[m]) : m \in first..(n - 1)}

(* seen_ids, when entry n of the file is looked at. *)
SeenIds(j, n) == {KeyOf(Raw(job[j].file)[m]) : m \in 1..(n - 1)}

(* import_file reads the next chunk, perhaps a shorter last one.  The      *)
(* first entry that cannot be mapped, or maps to a key that was seen, ends *)
(* the import, and so does a file without documents.                       *)
LoadRecords(j) ==
    /\ job[j].pc = "load" /\ job[j].kind \in Imports
    /\ LET raw == Raw(job[j].file)
           from == job[j].at
           upto == IF from + ImportChunk < Len(raw) THEN from + ImportChunk ELSE Len(raw)
           bad == \E n \in (from + 1)..upto :
                     ~Mappable(raw[n]) \/ KeyOf(raw[n]) \in SeenIds(j, n)
       IN job' =
            IF bad \/ raw = << >>
            THEN [job EXCEPT ![j].pc = "rejected"]
            ELSE IF from = upto
            THEN [job EXCEPT ![j].pc = IF job[j].kind = "replace" THEN "swap" ELSE "finish"]
            ELSE [job EXCEPT ![j].pc = "insert", ![j].at = upto,
                             ![j].todo = IF job[j].kind = "dry run" THEN {}
                                         ELSE {KeyOf(raw[n]) : n \in (from + 1)..upto}]
    /\ UNCHANGED <<table, saved, robbed, used>>

(* _flush: an upsert into the live table; a plain INSERT into any other    *)
(* fails on a key that is there and on a table that is not.                *)
Insert(j) ==
    /\ job[j].pc = "insert"
    /\ \E row \in job[j].todo :
          LET n == Target(j)
              ok == n = "main" \/ (table[n].exists /\ row \notin table[n].rows)
          IN IF ok
             THEN /\ table' = [table EXCEPT ![n].rows = @ \cup {row}]
                  /\ job' = [job EXCEPT ![j].todo = @ \ {row}]
             ELSE /\ Goto(j, IF table[n].exists THEN "duplicate" ELSE "failed")
                  /\ UNCHANGED table
    /\ UNCHANGED <<saved, robbed, used>>

(* Mutant of ChunkDone: has_next_page is taken from the page before. *)
ChunkDoneEarly(j) ==
    /\ job[j].pc = "insert" /\ job[j].todo = {}
    /\ IF job[j].kind \in Imports
       THEN job' = [job EXCEPT ![j].pc = "load", ![j].chunks = @ + 1]
       ELSE LET page == job[j].at + 1
            IN job' = [job EXCEPT ![j].at = page, ![j].chunks = page,
                                  ![j].pc = IF page + 1 < NPages THEN "load"
                                            ELSE IF job[j].kind \in Staged THEN "swap"
                                            ELSE "finish"]
    /\ UNCHANGED <<table, saved, robbed, used>>

(* on_chunk_done; then the next page, if the source says there is one, or  *)
(* the next chunk of the file.  The empty page that a run resumed past the *)
(* end reads is a chunk like any other.                                    *)
ChunkDone(j) ==
    /\ job[j].pc = "insert" /\ job[j].todo = {}
    /\ IF job[j].kind \in Imports
       THEN job' = [job EXCEPT ![j].pc = "load", ![j].chunks = @ + 1]
       ELSE LET page == job[j].at + 1
            IN job' = [job EXCEPT ![j].at = page, ![j].chunks = page,
                                  ![j].pc = IF page < NPages THEN "load"
                                            ELSE IF job[j].kind \in Staged THEN "swap"
                                            ELSE "finish"]
    /\ UNCHANGED <<table, saved, robbed, used>>

(* Mutant of LoadBatch: a short last batch is never flushed. *)
LoadFullBatch(j) ==
    /\ job[j].pc = "load" /\ job[j].kind \in Loads
    /\ LET rows == LoadRows(job[j].file)
           upto == job[j].at + ImportChunk
       IN IF upto > Len(rows)
          THEN Goto(j, "finish") /\ UNCHANGED table
          ELSE /\ table' = [table EXCEPT !["main"].rows =
                                @ \cup {KeyOf(rows[n]) : n \in (job[j].at + 1)..upto}]
               /\ job' = [job EXCEPT ![j].at = upto]
    /\ UNCHANGED <<saved, robbed, used>>

(* load_documents: the next rows of the file, perhaps fewer at its end, in *)
(* one INSERT with a commit of its own.  It fails as a whole on a row that *)
(* cannot be stored and on a key that comes twice or, without --upsert, is *)
(* there already.  Nothing is invalidated or rebuilt at the end.           *)
LoadBatch(j) ==
    /\ job[j].pc = "load" /\ job[j].kind \in Loads
    /\ LET rows == LoadRows(job[j].file)
           from == job[j].at
           upto == IF from + ImportChunk < Len(rows) THEN from + ImportChunk ELSE Len(rows)
           batch == (from + 1)..upto
           keys == {KeyOf(rows[n]) : n \in batch}
           ok == /\ \A n \in batch : Loadable(rows[n])
                 /\ Cardinality(keys) = Cardinality(batch)
                 /\ job[j].kind = "load" => keys \cap table["main"].rows = {}
       IN \/ batch = {} /\ Goto(j, "finish") /\ UNCHANGED table
          \/ /\ batch # {} /\ ok
             /\ table' = [table EXCEPT !["main"].rows = @ \cup keys]
             /\ job' = [job EXCEPT ![j].at = upto]
          \/ batch # {} /\ ~ok /\ Goto(j, "failed") /\ UNCHANGED table
    /\ UNCHANGED <<saved, robbed, used>>

(* dump_documents writes the rows of its one SELECT to the file.           *)
DumpRow(j) ==
    /\ job[j].pc = "dump"
    /\ IF job[j].todo = {}
       THEN Goto(j, "finish")
       ELSE \E row \in job[j].todo :
               job' = [job EXCEPT ![j].todo = @ \ {row}, ![j].out = @ \cup {row}]
    /\ UNCHANGED <<table, saved, robbed, used>>

Finish(j) ==
    /\ job[j].pc = "finish"
    /\ Goto(j, "completed")
    /\ UNCHANGED <<table, saved, robbed, used>>

(* Mutants of Swap: without its transaction, a swap that lacks a staging   *)
(* table has already renamed the live one; nothing rebuilds the indexes.   *)
SwapHalfway(j) ==
    /\ job[j].pc = "swap"
    /\ table' = [main |-> table["staging"], staging |-> Absent, backup |-> Absent]
    /\ Goto(j, IF table["staging"].exists THEN "index" ELSE "failed")
    /\ UNCHANGED <<saved, robbed, used>>
SwapOnly(j) ==
    /\ job[j].pc = "swap" /\ table["staging"].exists
    /\ table' = [main |-> table["staging"], staging |-> Absent, backup |-> Absent]
    /\ Goto(j, "completed")
    /\ UNCHANGED <<saved, robbed, used>>

(* Mutant of Swap: the lock is one that lets readers go on. *)
SwapUnderReaders(j) ==
    /\ job[j].pc = "swap"
    /\ \A i \in Jobs : job[i].pc # "building"
    /\ table["staging"].exists /\ ~table["backup"].exists
    /\ table' = [main |-> table["staging"], staging |-> Absent, backup |-> Absent]
    /\ Goto(j, "index")
    /\ UNCHANGED <<saved, robbed, used>>

(* One transaction, whose lock on the live table waits for an index that   *)
(* is being built and for a dump: it needs a staging table and no backup   *)
(* table, or it is rolled back.  Indexes stay with the table they were     *)
(* built on.                                                               *)
Swap(j) ==
    /\ job[j].pc = "swap"
    /\ \A i \in Jobs : job[i].pc \notin {"building", "dump"}
    /\ IF table["staging"].exists /\ ~table["backup"].exists
       THEN /\ table' = [main |-> table["staging"], staging |-> Absent,
                         backup |-> IF DropBackup THEN Absent ELSE table["main"]]
            /\ robbed' = IF Pending("SEED") /\ ~(Source \subseteq table["staging"].rows)
                         THEN robbed \cup {"SEED"} ELSE robbed
            /\ Goto(j, "index")
       ELSE /\ Goto(j, "failed")
            /\ UNCHANGED <<table, robbed>>
    /\ UNCHANGED <<saved, used>>

(* The index names are global: an index belongs to whichever table has it, *)
(* for CREATE INDEX CONCURRENTLY IF NOT EXISTS and for to_regclass alike.  *)
(* The build starts with an index that is not yet valid, and leaves it     *)
(* behind when it is cut off.                                              *)
NameTaken(x) == \E n \in Names : x \in table[n].valid \cup table[n].invalid
StartIndex(j) ==
    /\ job[j].pc = "index"
    /\ LET n == job[j].built + 1
       IN IF ~DropBackup \/ n > Len(Indexes)
          THEN Goto(j, "completed") /\ UNCHANGED table
          ELSE IF NameTaken(Indexes[n])
          THEN job' = [job EXCEPT ![j].built = n] /\ UNCHANGED table
          ELSE /\ table' = [table EXCEPT !["main"].invalid = @ \cup {Indexes[n]}]
               /\ Goto(j, "building")
    /\ UNCHANGED <<saved, robbed, used>>
FinishIndex(j) ==
    /\ job[j].pc = "building"
    /\ LET x == Indexes[job[j].built + 1]
       IN table' = [table EXCEPT !["main"].invalid = @ \ {x}, !["main"].valid = @ \cup {x}]
    /\ job' = [job EXCEPT ![j].pc = "index", ![j].built = @ + 1]
    /\ UNCHANGED <<saved, robbed, used>>

(* A statement, a fetch, an embedding or a killed process ends the job.    *)
Fail(j) ==
    /\ Active(j)
    /\ used.faults < MaxFaults
    /\ used' = [used EXCEPT !.faults = @ + 1]
    /\ Goto(j, "failed")
    /\ UNCHANGED <<table, saved, robbed>>

(* A shutdown, at any await, or an error that is_retryable accepts.  A     *)
(* RESEED that has fallen back to a fresh table, and not reported a page   *)
(* since, saves its old checkpoint.  History: if that is 2, the count may  *)
(* take the first page for what the checkpoint speaks of.                  *)
Outdated(j) == job[j].kind = "RESEED" /\ job[j].at # job[j].chunks
Interrupt(j) ==
    /\ Active(j) /\ job[j].kind \in Tasks
    /\ used.interrupts < MaxInterrupts
    /\ used' = [used EXCEPT !.interrupts = @ + 1]
    /\ Goto(j, "interrupted")
    /\ saved' = [saved EXCEPT ![job[j].kind] = job[j].chunks]
    /\ robbed' = IF Outdated(j) /\ job[j].chunks = 2 THEN robbed \cup {"RESEED"} ELSE robbed
    /\ UNCHANGED table

Next == \E j \in Jobs :
    \/ \E k \in Kinds : Begin(j, k)
    \/ Prepare(j) \/ Recreate(j) \/ LoadPage(j) \/ LoadRecords(j) \/ Insert(j)
    \/ ChunkDone(j) \/ LoadBatch(j) \/ DumpRow(j) \/ Finish(j)
    \/ Swap(j) \/ StartIndex(j) \/ FinishIndex(j) \/ Fail(j) \/ Interrupt(j)

Spec == Init /\ [][Next]_vars

----------------------------------------------------------------------------
(* Properties *)

Row == Source \cup (UNION Before) \cup (UNION {Keys(f) \cup LoadKeys(f) : f \in AllFiles})
TableType ==
    [exists : BOOLEAN, rows : SUBSET Row, valid : SUBSET IndexNames,
     invalid : SUBSET IndexNames]
JobType ==
    [kind : {"none", "script", "dump"} \cup Tasks \cup Imports \cup Loads,
     pc : {"idle", "prepare", "recreate", "load", "insert", "swap", "index", "building",
           "dump", "finish"} \cup Ended,
     at : Nat, chunks : Nat, file : AllFiles \cup {NoFile}, todo : SUBSET Row,
     out : SUBSET Row, built : 0..Len(Indexes), shared : BOOLEAN]

(* Every variable has its type; the live table exists in every state.      *)
TypeOK ==
    /\ table \in [Names -> TableType] /\ table["main"].exists
    /\ saved \in [Tasks -> Nat \cup {NoTask}] /\ robbed \subseteq Tasks
    /\ job \in [Jobs -> JobType]
    /\ used \in [faults : Nat, interrupts : Nat]

(* "RESEED builds a service-wide upstream snapshot in staging and          *)
(* atomically replaces the live table": whatever failed or was interrupted *)
(* and resumed before, its swap publishes the source, the whole source and *)
(* nothing else.                                                           *)
ReseedPublishesAll ==
    [][\A j \in Jobs :
          job[j].kind = "RESEED" /\ job[j].pc = "swap" /\ job'[j].pc = "index"
          => table'["main"].rows = Source]_vars

(* The same next to imports, which may recreate or take the staging table  *)
(* of an interrupted RESEED: what is published is still the source, unless *)
(* that has happened since the RESEED last had a fresh staging table, or   *)
(* it was interrupted with an outdated checkpoint of two chunks.  The      *)
(* count catches any other.                                                *)
ReseedIsWhole ==
    [][\A j \in Jobs :
          job[j].kind = "RESEED" /\ job[j].pc = "swap" /\ job'[j].pc = "index"
          /\ "RESEED" \notin robbed => table'["main"].rows = Source]_vars

(* A job that says COMPLETED has left all rows of the source, or all       *)
(* documents of its file, in the live table, even if several interrupted   *)
(* runs or a shorter last chunk loaded them.  A SEED that is resumed skips *)
(* the pages before its checkpoint: it may miss them only if a table that  *)
(* lacks rows of the source was swapped in since it began.                 *)
CompletedIsLoaded ==
    [][\A j \in Jobs :
          job[j].pc # "completed" /\ job'[j].pc = "completed"
          /\ job[j].kind \notin {"dry run", "dump"} \cup robbed
          => (IF job[j].kind \in Imports THEN Keys(job[j].file)
              ELSE IF job[j].kind \in Loads THEN LoadKeys(job[j].file) ELSE Source)
             \subseteq table'["main"].rows]_vars

(* A dump that ends is of the table that is live then, not of one that was *)
(* replaced while it was read: no document of it is gone.                  *)
DumpIsLive ==
    [][\A j \in Jobs :
          job[j].kind = "dump" /\ job[j].pc = "dump" /\ job'[j].pc = "finish"
          => job[j].out \subseteq table["main"].rows]_vars

(* A replace import that had the staging table for itself puts exactly its *)
(* file in the place of the live table, whatever staging held before and   *)
(* whatever else wrote to the live table in the meantime.                  *)
ReplaceIsWhole ==
    [][\A j \in Jobs :
          job[j].kind = "replace" /\ ~job[j].shared
          /\ job[j].pc = "swap" /\ job'[j].pc = "index"
          => table'["main"].rows = Keys(job[j].file)]_vars

(* A dry run foretells the import: each reads to the end of a file that is *)
(* valid as a whole and rejects any other, in whatever chunks it reads.    *)
ImportAccepts ==
    \A j \in Jobs : job[j].kind \in Imports =>
        /\ job[j].pc \in {"swap", "index", "building", "finish", "completed"}
           => Valid(job[j].file)
        /\ job[j].pc = "rejected" => ~Valid(job[j].file)

(* When nothing runs and nothing was cut short, the live table has its     *)
(* indexes, however the swaps and rebuilds of several jobs interleaved.    *)
QuietMeansSearchable ==
    DropBackup /\ used.faults = 0 /\ used.interrupts = 0
    /\ (\A j \in Jobs : ~Active(j)) => table["main"].valid = IndexNames

(* Whatever is interrupted, resumed, fails or follows, a reader of the     *)
(* live table sees it grow, and otherwise only whole snapshots: the source *)
(* or a valid file that replaces it, unless a RESEED was robbed.           *)
Live ==
    INSTANCE LiveTable WITH
        Documents <- Row,
        Snapshots <- {Source} \cup {Keys(f) : f \in {g \in AllFiles : Valid(g)}},
        rows <- table["main"].rows,
        doubt <- "RESEED" \in robbed
KeepsSnapshots == Live!Spec
=============================================================================
