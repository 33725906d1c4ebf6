# Rimuru Search in TLA+

A verification project for Rimuru Search, a hybrid (vector + lexical) document
search service. It covers what runs concurrently or must survive a failure: the
seeding tasks and their distributed lock, the ways documents get into the tables
and out of them, the migrations of the schema, the cache of search responses, the
embedding of a chunk with its nested retries, and the ranking of search results.
Paths such as `src/seeding/...` are relative to the root of the repository.

## The system

| Component | State it keeps | Operations | Talks to |
| --- | --- | --- | --- |
| Task manager, `src/seeding/service/task_manager.py` | one `TaskState` and one asyncio task per process; the table `seeding_tasks`; the Redis key `<prefix>:seeding:lock` | `submit`, `_run`, chunk callback, `cancel_running`, `get_task`, `list_tasks` | PostgreSQL, Redis, seeding pipeline; called by the router and by the lifespan of `main.py` |
| Seeding pipeline, `seeder.py`, `reseed.py`, `chunk_processor.py` | the tables `documents`, `documents_staging`, `documents_backup` and their indexes | `seed`, `reseed`, `recreate_staging`, `swap_tables`, `rebuild_indexes`, `process_chunk` | source API, embedding service, PostgreSQL, cache |
| Embedding and retry, `embedding.py`, `retry.py` | coroutines, a semaphore per chunk attempt, one HTTP client per seed | `embed_in_chunks`, `embed_batch`, `retry_with_backoff` | embedding service |
| Source API client, `src/source_api/service.py` | the page number | `iter_documents` | external source |
| File import, `src/importing/` | the same tables; set of keys seen | `import_file`, reader | file, pipeline, cache |
| Search cache, `src/cache/` | Redis keys, one per request digest | `get_cached`, `set_cached`, `invalidate_search_cache` | Redis |
| Orchestrator, `src/orchestrator/` | background tasks that store responses | `orchestrate_search`, `orchestrate_search_ids`, pipeline, fusion, reranking | cache, both branches, reranker |
| Lexical and vector search, reranker client | none | one query or call each | PostgreSQL, model servers |
| Readiness, `src/health/` | none | `get_readiness` | all dependencies |
| Lifespan, `src/main.py` | none | start, shutdown | task manager |
| Migrations, `alembic/` | schema, version number, indexes | `upgrade`, `downgrade` | PostgreSQL; RESEED replaces the table they made |
| Load and dump, `scripts/` | a file; the live table | `load_documents`, `dump_documents` | PostgreSQL |
| Query embedding, engine, doctor script, configuration | none over time | | |

The hard parts, each listed with its line in `PROJECT.json` under `hazards`:

* **Task manager.** `submit()` reads the database, takes the lock and writes the
  database in separate awaits; `cancel_running()` does three awaits while the run
  it is about to cancel goes on; a resumed task has the lock value of its
  predecessor; the lock expires after 24 hours; Redis may not be there at all.
  Correct means: one run at a time, a checkpoint that never covers what was not
  committed, COMPLETED only when all was, every interrupted task resumable.
* **Tables.** A resumed RESEED trusts a row count; page commit and checkpoint are
  two steps; imports and scripts share the staging table with the tasks and take
  no lock; index names outlive a swap. Correct means: what is published is whole,
  what says COMPLETED is there, what is ready has its indexes.
* **Migrations.** Part of them runs outside of their transaction, and RESEED rebuilds
  their indexes by hand. Correct means: tables and version agree wherever a command
  was cut off, no document is lost or merged, and every index of the version is there.
* **Cache.** Responses are stored in the background, keys are scanned and then
  deleted. Correct means: what is stale is explained, and goes away.
* **Embedding.** Two retries are nested around concurrent batches, and
  `asyncio.gather` leaves batches of a failed attempt running. Correct means:
  every row is stored once and gets its own vector as far as the one check of their
  total can tell, nothing but exhausted retries interrupts a task, and a chunk ends.
* **Ranking.** Ties, cuts and index arithmetic. Correct means: what both branches
  prefer comes first, a cut drops nothing better than it keeps, and no document gets
  the score of another.

## Modules

| Module | Models | Interacts through |
| --- | --- | --- |
| `SeedTasks` | task manager in several processes, shutdown, crash, restart, lock TTL | refines `Checkpoints` |
| `Checkpoints` | the abstract promise: pages in order, checkpoint behind the pages, complete only with all | |
| `SeedTasksProofs` | theorems about `SeedTasks`: types, checkpoints, the refinement, mutual exclusion, rows and runs | |
| `ImportReader` | what the records of a file are, and which documents they map to | operators `Ingestion` uses |
| `Ingestion` | the tables under SEED, RESEED, the reseed script, upsert and replace imports, dry runs, loads and dumps | its tasks run under the exclusion `SeedTasks` establishes; refines `LiveTable` if jobs follow each other |
| `LiveTable` | the abstract promise: documents are added, and go away only for a whole snapshot | |
| `IngestionProofs` | theorems about `Ingestion` with overlapping jobs, lemmas about its reader and its steps | |
| `ResumeProofs` | theorems about `Ingestion` when jobs follow each other: resumed runs, the refinement | extends `IngestionProofs` |
| `Migrations` | `alembic upgrade` and `downgrade` between writes and RESEEDs | has `Ingestion`'s swap and rebuild as one step |
| `MigrationsProofs` | theorems about `Migrations` | |
| `Readiness` | `GET /health/ready` | extends `Ingestion`: reads its tables while jobs go on |
| `ReadinessProofs` | theorems about `Readiness` | extends `IngestionProofs` |
| `SearchCache` | cache, searches, ingestion runs that invalidate | documents reduced to a version |
| `SearchCacheProofs` | theorems about `SearchCache` | |
| `EmbedChunks` | one chunk: batches and their vectors, semaphore, connections, two retries, inserts | |
| `EmbedChunksProofs` | theorems about `EmbedChunks` | |
| `Ranking` | one search: lists, fusion, cut, reranker's answer | |
| `RankingProofs` | theorems about `Ranking`, lemmas about sorting | |
| `MCSeedTasks`, `MCIngestion`, `MCReadiness`, `MCEmbedChunks` | symmetry and inputs for TLC | |

### SeedTasks

A *request* is one `POST /v1/seeding/tasks`: the coroutine of `submit()`, which
becomes the coroutine of `_run()`. Its `pc` names the await it is suspended at;
every action runs to the next await, since asyncio switches nowhere else. A task
is named by the request that created it. `row` is the table `seeding_tasks`,
`lock` the Redis key, `mgr[i].state` and `mgr[i].bg` are `_state` and
`_running_async_task` of process `i`. `written[t]` (pages committed on behalf of
`t`) and `holder` (whose SET the lock value is) are history.

* `Submit` is the in-memory check; `Find` the query and the choice between resume,
  force and new; `Acquire` SET NX; `MarkRunning`, `CancelOld`, `InsertTask` the
  three writes; `SubmitFault` and `UndoLock` the error paths: only the INSERT
  gives the lock back.
* `Prepare` is RESEED's decision to keep the staging table, either way here (the row
  counts are in `Ingestion`). `CommitPage` is `process_chunk` up to its commit and
  the assignment to `chunks_completed` before the callback awaits; `ReportChunk`
  is the UPDATE. `EmptyPage` is the page after the last one, which a run with a
  full checkpoint asks for. In the code that page counts as a further chunk; the
  model keeps the count at `NPages`, because no page above it exists.
  `WorkFails` offers INTERRUPTED (retryable: source fetch or embedding) or FAILED.
* `ShutdownBegin` ... `ShutdownJoin` are `cancel_running()`, await by await.
  `CloseLoop` is the end of the event loop, which cancels what is left.
* `Crash`, `Restart`, `ExpireLeaked`, `ExpireHeld` are the environment.

### ImportReader and Ingestion

`table` holds the rows and the search indexes of the live, the staging and the
backup table. A row is the key `<<collection, id>>` of a document; page `p` of the
source has documents of collection `p`. A row also stands for one committed batch
(`SEED_DB_BATCH_SIZE`), so that a page may be cut off between two commits. By
default a batch is as large as a page; the window between the commit of a page and
its checkpoint remains then, and with it the counterexample.

* `Begin` takes over the checkpoint, `Prepare` compares the row count, `Recreate`,
  `LoadPage`, `Insert`, `ChunkDone`, `Swap` follow the code. A run that resumes after
  the last page reads an empty one and counts it, so that its checkpoint may be past
  the end, and the next `Prepare` asks for more rows.
* `LoadRecords` is the loop of `import_file` over a file: `Raw` is what
  `iter_raw_records` yields for each format up to the first error, `Mappable` and
  `KeyOf` are `map_record`, `SeenIds` is `seen_ids`. `Without` leaves the blank lines
  out; it is `SelectSeq`, written as a recursive function so that proofs can use
  it. A chunk that fails in the middle is not written; chunks before it are. `Valid` says what a file must be
  without a loop. Of the values of a field only equality and "missing or blank"
  count; the hash of a record is taken to be as good as the record.
* `StartIndex` and `FinishIndex` are one statement of `rebuild_indexes` each time.
  `NameTaken` is `CREATE INDEX CONCURRENTLY IF NOT EXISTS`: an index name belongs
  to whichever table has it, valid or not. PostgreSQL makes `Swap` wait for a
  build (both lock the table).

* `LoadBatch` is `load_documents`, one INSERT and commit after the other; a batch
  fails as a whole. `DumpRow` is `dump_documents`: it writes what its SELECT saw
  when it began, and keeps a lock until it is done that `Swap` waits for.
* `robbed` is history: the operations whose pages another job has taken away, by
  recreating the staging table of an interrupted RESEED or by swapping in a table
  without all the rows of the source under a SEED; and a RESEED that takes them away
  from itself, when it falls back to a fresh table and is interrupted before it has
  reported a page, with a checkpoint of two chunks still in its `TaskState`
  (`Outdated`). `ReseedIsWhole` and `CompletedIsLoaded` say that nothing else makes
  them incomplete.

`Files` gives each kind of import and load its files. With `Overlap = FALSE` jobs
follow each other; with `TRUE` anything but two tasks may overlap, because only tasks
take the lock.

`LiveTable` is what a reader of the live table is promised. It has no jobs, pages or
staging tables, only `rows` and `doubt`: a step adds documents (`Add`), or puts a whole
snapshot in the place of the table (`Publish`); what is being prepared may come into
doubt (`Prepare`), and only then may anything else be published. `Ingestion` maps `rows`
to the rows of `"main"`, the snapshots to the source and the files that are `Valid`, and
`doubt` to `"RESEED" \in robbed`.

### Migrations

`db` is what is committed, `work` what the open transaction of the command has
made of it; `env.py` runs all migrations of a command in one transaction.
`autocommit_block()` in 001 and 006 commits what came before (`EnterBlock`), runs
its statements one by one (`BeginStatement`, `EndStatement`) and opens a transaction
for the rest (`Migrate`), with which the version is written. `Fault` is an error or
a kill at any point; a statement that finds what it cannot work with (`Possible`)
ends the command in the same way (`Abort`). `IF NOT EXISTS` and `IF EXISTS` look at
the name of an index only: one that is invalid, or on the backup table, is there.

The service works between the commands only. `Write` stores a document; `Stage`,
`SwapAndRebuild` and `SwapAndKeep` are RESEED, with a rebuild that may be cut off.
`hurt` is history: since the last whole rebuild, a build was cut off, an index was
dropped by a downgrade that did not finish, or a swap kept the backup.

### Readiness

A probe reads the two lexical indexes of its backend in two statements
(`CheckIndex`), while the jobs of `Ingestion` go on. What the database, the model
services and Redis answer does not depend on the tables, so it is chosen when
`gather` returns (`GatherDone`) and when Redis is asked (`Answer`). `swapped` is
history: an answer given while the tables were exchanged may be out of date.

### SearchCache

Documents are a version number. A search looks up, retrieves (the version its
response is worth), ranks, returns, and stores later; an ingestion run commits,
scans, deletes. A response that fell back to the fused order is stored like any other,
so `Rank` does not tell them apart. `raced` and `invalidated` are history. The vector
and the lexical query are two statements; the response is counted as old as the first.
An entry is stale from a completed invalidation on: after a SEED that fails or is
interrupted between its commits there is none, and responses are as old as the TTL
allows.

### EmbedChunks

A text is its place in the chunk, and a vector is the text it was computed from, or 0
for one that belongs to no text of the chunk. `call[a][b]` is batch `b` in attempt `a`
of `process_chunk`. A batch holds a permit of its attempt's semaphore from `Admit` on,
also while it sleeps, and one of the `max_connections` of the client only during the
request. The service answers a batch with any list of `Replies` (`Answer`): too short,
too long, out of order or foreign, since `embed_batch` takes what comes. `Gathered` puts
the lists one after the other, `GatherDone` compares their total with the texts, and
`Insert` joins the two by position, `FlushSize` rows in a commit. An error raised by
`gather` ends the attempt, not its batches. The module ends with the chunk; a failed
seed also closes the client.

Since only the total is compared, a batch with too many vectors next to one with too few
passes, and rows between the two get the vectors of other texts. `OwnVector` says that
this, and a batch whose vectors are not in the order of its texts, are the only ways;
that a service answers each batch with its vectors in order is left to the service.

### Ranking

Hits of the queries are arbitrary lists without repetition, since `(collection,
id)` is the primary key and a query selects rows. Scores are compared as exact
fractions. The code adds floats: it may order two documents either way whose
different pairs of ranks give equal sums; pairs with the same ranks tie in both.
`SeenBefore` is the insertion order of a dict, which `sorted()` keeps among equals.
`Sorted` is what `sorted()` returns, without its algorithm: the elements, each once,
in an order given as an operator. It is written with CHOOSE, since the sorts of the
community modules are recursive or overridden and out of sight for proofs; that the
sequence exists, and that there is only one, are lemmas of `RankingProofs`. The
reranker answers with any number of results (`MaxReply` bounds it); they may name a
candidate again, lack an index or have one that is no candidate's. The code neither cuts
nor deduplicates what comes back, so that `hits` may be longer than `rerank_top_n` and
repeat a document when the reranker's answer does; `AnswerIsMeant` says that the mapping
adds nothing to that.

## Runs

Bounds are constants of the modules, used in guards and named in the `.cfg`.

| Run | Instance | Shows |
| --- | --- | --- |
| `SeedLocking` | 2 processes, 3 requests, one crash, one fault | `AtMostOneRun`, `RunningRowHasRun`, types |
| `SeedShutdown` | 2 processes, 2 requests, both operations, 2 pages, shutdown, expiring lock | `CheckpointSound`, `CompletedMeansAll`, and `KeepsCheckpoints`: `SeedTasks` refines `Checkpoints` |
| `SeedLiveness` | fairness, shutdown, fault, both operations | `EveryRequestEnds`, `LockFreed` |
| `IngestTasks` | three pages of 2, 2 and 1 rows, three jobs one after the other (both tasks, the reseed script, replace, load, dump), two interruptions, one failure | `ReseedIsWhole`, `CompletedIsLoaded`, and `KeepsSnapshots`: `Ingestion` refines `LiveTable` |
| `IngestOverlap` | two overlapping jobs of all nine kinds, twelve files, a readiness probe, one interruption | `ReadyTypeOK` (the live table is always there), `QuietMeansSearchable`, `ReadyIsRight`, `ImportAccepts`, `ReplaceIsWhole`, `DumpIsLive` |
| `Migrate` | 4 commands, 2 of them cut off, 2 documents in 2 collections | `SchemaIsVersion`, `IndexesAreThere`, `DocumentsSurvive`, types |
| `CacheRaces` | 2 searches, 2 writers, 2 keys, a fault; TTL | `StaleOnlyIfRaced`, `StaleAnswersAreRaced`, `StaleGoesAway`, types |
| `EmbedChunk` | 5 texts in 3 batches, 2 at a time, one retry on each level, as many errors as exhaust both, three answers to each batch: one too few, whole, one too many; fairness | `OwnVector`, `StoredOnce`, `InterruptedMeansExhausted`, `ChunkEnds`, types |
| `RankFusion` | 3 documents, `K = 60`, limits 1 and 3, up to 3 results of the reranker | `FusionAgrees`, `CutKeepsBest`, `LexicalSymmetric`, `AnswerIsMeant` |

The other three runs are refuted on purpose, see *Disagreements*.

Why the bounds are enough. The races of the task manager are between a run, the
shutdown that cancels it and one or two other requests; three requests in two
processes have all of them, and two pages give a checkpoint with a page before
and a page after it. A third request adds a second resumption, or a task that meets a dead owner's lock. That
`CheckpointSound` and `CompletedMeansAll` hold without Redis, with crashes and with
any number of faults is not left to a run: it is proved. The count of
`reseed` forgives one chunk, so the third page is where it must catch a missing
one; one interruption leaves a checkpoint, the second one abuses it; more jobs and
interruptions are the theorems' part. One replace is rejected after it has put documents
that no source has into the staging table, where the next job finds them. The files have
three or four entries in chunks of two: a duplicate or a bad record comes in a later
chunk, and a last chunk is short. Two jobs are enough for a swap next to a rebuild,
and five indexes for a probe between two of them. Four commands with two cut off
go up, down and up again with a failure on either side; two documents and two
collections have an id that comes twice. Two searches
and two writers show every order of retrieval, SET, commit, scan and delete on a
key, with two invalidations that overlap; a second key is what a scan may pass before it
meets the other, and separates the searches. More keys are proved to add nothing.
Symmetry is left out, since it is not sound for a liveness property. Two attempts with three batches, two
at a time, give batches left behind next to new ones of the same number, which
compete for two connections, and one that waits for the semaphore. A last batch of one
text makes a whole answer to the others one too many for it; flushes of three rows end
inside a batch. The answers have every length there is in relation to the batch, which
is what the check of the total tells apart, and so a shortfall in one batch that
another makes up for; the order inside a batch is always right in the run, since a batch that is
mixed up is excepted, and arbitrary in the theorem. Two limits and replies of three results are as long as, and longer
than, what was asked for. Three documents in two lists give a tie, a
winner and a loser, in every arrangement. What holds for all sizes is proved where
the table under *Theorems* says so.

Deadlock is not checked: requests, jobs, searches and commands are used up, and a system
in which all have ended really stops.

### Disagreements between code and documentation

Each is a run that TLC refutes; `PROJECT.json` quotes the line.

| Run | What happens |
| --- | --- |
| `SeedShutdownResumable` | a chunk callback during `cancel_running()` writes RUNNING over INTERRUPTED: the task is stuck |
| `SeedOwnerCheck` | an old run deletes the lock of the run that resumed its task (same value) |
| `IngestResume` | an interrupted RESEED resumes on the staging table an empty import has recreated, and publishes the source without its first page |

`ReseedPublishesAll` is what the docs promise. `ReseedIsWhole`, which `IngestTasks`
checks, is what the code keeps: it exempts a RESEED that lost its staging table to
another job or has an outdated checkpoint of two chunks, and no other.

The models contain more behaviours of this kind, for which no run is kept:

* `submit()` finds the interrupted row before it has the lock and does not look
  again, so that a task completed or cancelled in between is set to RUNNING
  (`Find`, `Acquire`, `MarkRunning`).
* `force` cancels the checkpoint before the lock is tried; refused, the request
  has lost the checkpoint and started nothing (`CancelOld`, `Acquire`).
* A RESEED cut off between the commit of a page and its checkpoint meets its own
  rows when it is resumed and fails on the primary key (`Insert`, pc
  `"duplicate"`).
* A RESEED that has fallen back to page 1 keeps the old checkpoint in its `TaskState`
  until it reports a page. If that is two chunks and it is interrupted again after it
  has committed page 1, the next run takes the rows of page 1 for enough and goes on
  with page 3 (`Outdated`). With a source of two pages (`TwoPages` in
  `IngestTasks.cfg`, without the exemption) this needs no other job: the first
  interruption comes after the swap. From a checkpoint of three on, page 1 is less
  than the count asks for, whatever the pages hold (`FirstPage` in `ResumeProofs`).
* With `DROP_BACKUP_AFTER_SWAP=false` (`DropBackup`), `ReadyIsRight` fails:
  `/health/ready` is "ready" although the live table has no index, because the
  backup has the names.
* A SEED that is resumed after another job has swapped the table in skips pages the
  new table may not have, and says COMPLETED (`robbed` in `CompletedIsLoaded`).
* `alembic downgrade` past 005 with an id in two collections drops the BM25 index,
  commits that, and fails; the version is still 006, so that `upgrade head` builds
  nothing. Only a RESEED does.
* An index build of 001 or 006 that is cut off leaves an invalid index. The next
  `upgrade` takes it for the index and stamps the version.
* `alembic downgrade base` next to a staging or backup table drops the indexes and then
  fails on `DROP FUNCTION`, since the generated column of that table needs it.
* Without `~job[j].shared` in `ReplaceIsWhole`, `IngestOverlap` finds a replace
  import that publishes rows of a RESEED: both fill the same staging table.

## Fairness

* `SeedTasks!Fairness`: weak fairness of each coroutine and of each shutdown. A
  coroutine at an await is resumed: calls to the source and the model servers have
  timeouts, and PostgreSQL and Redis are taken to answer or to raise. Redis drops
  a key at its TTL (`ExpireLeaked`). Nobody has to submit, shut down, crash,
  restart or lose a lock in use.
* `SearchCache!FairSpec`: only the TTL of a key.
* `EmbedChunks!FairSpec`: each batch and the chunk go on; a batch that waits for a
  connection needs only that the pool is not given to others for ever, and the
  number of batches and tries is finite.

## Theorems

Proved with TLAPS for all values of the constants that satisfy the ASSUMEs of the
modules: bounds are numbers, `None` is no request or search, `Ops` are operations, pages
have at most `ROWS_PER_CHUNK` rows, files are sequences of entries of any length
(`FilesAssumption`), batches are as many as the texts fill (`BatchesAssumption`), and
the replies of the embedding service are sequences of numbers (`RepliesAssumption`). TLC
evaluates each ASSUME on the instances of the runs.

| Theorem | Statement |
| --- | --- |
| `SeedTasksProofs!TypeCorrect` | `Spec => []TypeOK` |
| `SeedTasksProofs!CheckpointsSound` | `Spec => []CheckpointSound` |
| `SeedTasksProofs!CompletedSound` | `Spec => []CompletedMeansAll` |
| `SeedTasksProofs!ImplementsCheckpoints` | `Spec => KeepsCheckpoints` |
| `SeedTasksProofs!MutualExclusion` | `Spec => []AtMostOneRun` |
| `SeedTasksProofs!RunningRowsHaveRuns` | `Spec => []RunningRowHasRun` |
| `SearchCacheProofs!CacheTypes` | `Spec => []TypeOK` |
| `SearchCacheProofs!StaleIsRaced` | `Spec => []StaleOnlyIfRaced` |
| `SearchCacheProofs!AnswersAreRaced` | `Spec => []StaleAnswersAreRaced` |
| `MigrationsProofs!TypeCorrect` | `Spec => []TypeOK` |
| `MigrationsProofs!SchemaFollowsVersion` | `Spec => []SchemaIsVersion` |
| `MigrationsProofs!DocumentsKept` | `Spec => DocumentsSurvive` |
| `MigrationsProofs!IndexesKept` | `Spec => []IndexesAreThere` |
| `EmbedChunksProofs!TypeCorrect` | `Spec => []TypeOK` |
| `EmbedChunksProofs!OwnVectors` | `Spec => []OwnVector` |
| `EmbedChunksProofs!RowsStoredOnce` | `Spec => []StoredOnce` |
| `EmbedChunksProofs!InterruptedIsExhausted` | `Spec => []InterruptedMeansExhausted` |
| `IngestionProofs!TypeCorrect` | `Spec => []TypeOK` |
| `IngestionProofs!ImportsAccept` | `Spec => []ImportAccepts` |
| `IngestionProofs!DumpsAreLive` | `Spec => DumpIsLive` |
| `IngestionProofs!QuietIsSearchable` | `Spec => []QuietMeansSearchable` |
| `IngestionProofs!ReplacesWhole` | `Spec => ReplaceIsWhole` |
| `ResumeProofs!ReseedsAreWhole` | `Spec => ReseedIsWhole`, if `~Overlap` |
| `ResumeProofs!CompletedAreLoaded` | `Spec => CompletedIsLoaded`, if `~Overlap` |
| `ResumeProofs!ImplementsLiveTable` | `Spec => KeepsSnapshots`, if `~Overlap` |
| `ResumeProofs!DocumentsLast` | `Spec => Live!Lasting`, if `~Overlap` |
| `ReadinessProofs!ReadyTypeCorrect` | `ReadySpec => []ReadyTypeOK` |
| `ReadinessProofs!ReadyMeansIndexed` | `ReadySpec => [](DropBackup => ReadyIsRight)` |
| `RankingProofs!TypeCorrect` | `Spec => []TypeOK` |
| `RankingProofs!FusionsAgree` | `Spec => []FusionAgrees` |
| `RankingProofs!CutsKeepBest` | `Spec => []CutKeepsBest` |
| `RankingProofs!LexicalIsSymmetric` | `Spec => []LexicalSymmetric` |
| `RankingProofs!AnswersAreMeant` | `Spec => []AnswerIsMeant` |

The hypotheses are those the code needs. With `Overlap` the theorems of
`ResumeProofs` are false (two jobs fill one table), and a kept backup table makes
`ReadyIsRight` false, see *Disagreements*. Hypotheses that are part of a property
(`AtMostOneRun`, `RunningRowHasRun`, `QuietMeansSearchable`) are explained where it
is defined.

*Checkpoints.* `CheckpointSound` speaks of rows, but rows are written from three
places: the count in a `TaskState`, the snapshot `cancel_running()` takes before it
awaits, and the row a resumed request has read. The invariant of the proof
(`CheckpointInv`) says of each of them that pages `1..count` are committed for
its task, and adds that a run past its last page has them all, which is what COMPLETED
needs. `DrainInv` adds that a process that shuts down has no `submit()` left,
so that its `_state` still is the run it was when the snapshot was taken. None of
this mentions the lock: checkpoints stay sound with overlapping runs, expired
locks and without Redis, because pages of a task are only ever added and every
run starts at or below a sound count. The refinement follows from the same
invariant, action by action: a commit extends a prefix of pages, every write of a row
is a checkpoint within it, and everything else stutters.

*The lock.* `LockInv` says that a request between its SET NX and its release is the
one that set the key (`holder`), and that the key still has its task: two such
requests are then the same. It needs that nothing expires and nobody shuts down,
since the release compares tasks and not requests. `RowInv` follows a row instead: it
becomes RUNNING in the step in which its run begins, and a run that nothing kills
writes another status in its last step; a run that overlaps writes RUNNING only while
it is running itself.

*Cache.* An entry written after the deletion can be stale only if its search was in
flight when the scan began. The invariant (`CacheInv`) says that an unmarked
search in flight has read a version no older than any finished or ongoing
invalidation (`FlightSound`), that keys the scan has passed hold nothing older than
the change except what it has found or what a marked search stored (`ScanSound`),
and that the search of an entry is over (`EntrySound`), so that its mark stays.
`AnswerInv` adds that an entry is stored under the key of its search, so that an
old answer names a marked search of the same key.

*Migrations.* `Base` relates columns, tables and keys to the version (`Sound`), both
in what is committed and in the open transaction, and says how far a command with a
block has come (`GoalInv`): whatever is cut off, one of the two remains. `DocsInv`
says that the open transaction is one harmless step away from the committed
schema, which is what its commit needs. `IndexInv` adds the indexes: those of the
version, less those that the block still has to build or has dropped, as long as
nothing was `hurt`.

*Embedding.* `StoredInv` says that the rows are those of the first texts with the
vectors at their places, and that from the check on, `vectors` is what the batches of the
current attempt returned one after the other, of the right total. For `OwnVectors` the
rest is about lengths: if no batch is short or none has too many, and the total is
right, every batch has exactly its own (`Pieces`, `Flattened`), so that its vectors begin
where its texts do (`InPlace`); what remains is their order. `AttemptInv` says that each
attempt that was given up had a batch of its own with all its tries used, which holds
because `Raise` asks for the attempt: an error of a batch left behind changes the tries of
an earlier attempt only.

*Ingestion.* `Base` has, besides the types, how far an import has read: the entries
so far can be mapped and have keys of their own (`Unique`), which at the end of the
file is `Valid`, whatever the size of the chunks (`Reading`). That blank lines are
left out needs induction on a recursive function; `WithoutEntries` gets it from
minimal elements of a set of numbers (`LeastNumber`). `DumpInv` says that what a dump
has read is in the live table, since its lock keeps every swap away. `IndexInv` says
that the staging table, and a backup that is to be dropped, have no indexes (`Bare`), so
that the names are free for a rebuild. Where nothing was cut off and no call failed, it
also says of each of the five indexes that it is valid or some rebuild has not come past
it yet (`IndexKept`), and that an invalid one is just being built (`IndexBuilt`).
For `ReplaceIsWhole` two invariants are needed: jobs that share the staging table are
marked (`Alone`), and an unmarked import has there the keys it has read, less those it
still has to insert (`Filled`).

*Resumed runs.* `ResumeInv` says three things that keep each other true. A job has
put what it has read into the table it writes to, and when it has swapped or come
to its end, all of it is live (`Loaded`). A checkpoint that was saved and not robbed
matches the table (`SavedInv`): for SEED the pages are live; for RESEED it does
*whenever the row count accepts it* (`Held`), because otherwise the count makes the run
start afresh. And a RESEED has nothing else in its table than that and a part of the
next page (`Exact`); this is what makes the swap publish nothing but the source, and
what makes the count reject an outdated checkpoint: after a fallback the table has at
most page 1, fewer rows than three chunks ask for (`FirstPage`). Without the words
"whenever the count accepts it" the invariant is not inductive.

*The live table.* The refinement puts these together, swap by swap: a RESEED publishes
the source by `Loaded` and `Exact`, an import its file by `Filled`, and its `Reading` says that
the file is valid; `StoreInv` adds that the script's table has nothing but the
source, and that jobs which follow each other are never marked as sharing. Every other step adds rows or leaves
them, and none that changes rows changes the doubt. `DocumentsLast` then needs no
`Ingestion` any more: it follows from the abstract steps.

*Readiness.* A probe that found an index valid needs it to stay there: only a swap
takes indexes from the live table, and a swap sets `swapped`. `SeenInv` says this of
each index the probe has found. It needs backups to be dropped: the probe looks an index
up by its name, which may be one of a backup table; with `Bare` it cannot be.

*Ranking.* Fusion, cut and mapping are stated of `Sorted`, a CHOOSE, of which nothing is
known before there is such a sequence. That a finite set has one for every strict order
(`SortedExists`) looks like an induction, but can be had by counting: the place of a
document is the number of documents up to it, places differ since the order is strict,
and n different places within `1..n` are all of them (`FS_Injection`). The sort keys are
strict orders because scores compare as fractions (`Fractions`, `ByScore`); the sum of
two parts grows with either, which is all that `FusionAgrees` needs. The head of a
sequence that is in order has, with a document, everything before it (`CutIs`), from
which come `CutKeepsBest` and the part of `FusionAgrees` about what is cut off. Score
and best rank are symmetric in the two lists, and a CHOOSE from equal sets is equal, so
that `LexicalSymmetric` holds. For `AnswerIsMeant`, the places of the usable results are
sorted on both sides of `Mapped` in the same way (`MappedIsMeant`). The invariant itself
is plain: every list up to the candidates is without repetition (`ShapeInv`), and what
is fused and answered is what the operators gave (`ResultInv`).

Every inductive invariant was checked by TLC on the instance of the corresponding run
before it was proved.

Every invariant and every action property of a passing run has a theorem. Only
model-checked: the liveness properties `EveryRequestEnds`, `LockFreed`, `StaleGoesAway`
and `ChunkEnds`, which rest on fairness and so on ENABLED, out of the
prover's reach; and the three refuted properties, of which a run shows that they fail.

## Not modelled

* The query embedding service, the doctor script, configuration and logging: no
  state of their own that changes while something else runs.
* The pool of database connections, which is SQLAlchemy's. A statement that times out
  on it is one that fails.
* Migrations in offline mode (they only print SQL), and the service at work during a
  command: the deployment guide starts it when the migration has completed.
* The values and the metadata of import records, SQL of the two branches, HTTP details: one
  step that answers arbitrarily or fails.
* A source that changes while it is read; pages that contain one id twice.
* Text of progress messages, errors and logs.

## Plan

1. Done: `SeedTasks` with `Checkpoints` and its first theorems, `ImportReader`,
   `Ingestion` with loads and dumps, `Migrations`, `Readiness`, `SearchCache` with
   proofs, `EmbedChunks`, `Ranking`.
2. Left to model: a composition of `SeedTasks` and `Ingestion` in which the lock, not
   an assumption, keeps tasks apart, with the expiring lock.
3. Done, abstract specifications: `Checkpoints` for `SeedTasks`, `LiveTable` for
   `Ingestion` without overlap. Left: a lock service that the lock of `SeedTasks`
   implements as long as nothing expires and nobody shuts down, of which
   `MutualExclusion` is the main part.
4. Done, proofs: every invariant and action property of the passing runs, and both
   refinements. Left: `LiveTable` with overlapping jobs, where a RESEED that shares its
   staging table has to be in doubt as well.
