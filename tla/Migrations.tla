----------------------------- MODULE Migrations -----------------------------
(***************************************************************************)
(* The Alembic migrations 001..006 of alembic/versions, as alembic/env.py  *)
(* runs them: one connection, one transaction for all of them.  The CREATE *)
(* and DROP INDEX CONCURRENTLY of 001 and 006 cannot run in a transaction. *)
(* Their autocommit block commits what came before, works statement by     *)
(* statement, and opens a transaction for the rest; the version number of  *)
(* a migration is written in the transaction after its last statement.     *)
(*                                                                         *)
(* Between the commands the service works: documents are written, and      *)
(* RESEED (see Ingestion.tla, here in one step) replaces the table.        *)
(***************************************************************************)
EXTENDS Naturals, Sequences

CONSTANTS
    Collections,    \* collections of documents
    Default,        \* the one that migration 005 gives to old documents
    Ids,            \* document ids
    MaxCommands,    \* bound: alembic upgrade and downgrade commands
    MaxFaults       \* bound: commands that are killed or meet an error

ASSUME DefaultAssumption == Default \in Collections
ASSUME BoundsAssumption == MaxCommands \in Nat /\ MaxFaults \in Nat

Head6 == 6
NoCollection == "none"

(* The indexes, in the order in which rebuild_indexes builds them, and the *)
(* migration that introduces each.                                         *)
Rebuilt == <<"gin", "trgm", "bm25", "metadata", "hnsw">>
Indexes == {Rebuilt[n] : n \in 1..Len(Rebuilt)}
Since == [x \in Indexes |-> CASE x = "bm25" -> 6 [] x = "metadata" -> 4 [] OTHER -> 1]

VARIABLES
    db,     \* the schema and the documents, as committed
    work,   \* what the open transaction of the command makes of them
    cmd,    \* the alembic command
    used,   \* how much of each bound is used up
    hurt    \* history: an index build was cut off, or an index was dropped in vain

vars == <<db, work, cmd, used, hurt>>

(* db.others: tables that a RESEED has left behind; db.index[x] says where *)
(* the name of an index is: "elsewhere" is on the backup table.            *)
NoSchema == [version |-> 0, tables |-> {}, columns |-> {}, key |-> {}, rows |-> {},
             index |-> [x \in Indexes |-> "absent"], others |-> {}]
NoCommand == [pc |-> "idle", dir |-> "up", goal |-> 0, todo |-> << >>, dropped |-> FALSE]

Init ==
    /\ db = NoSchema /\ work = NoSchema
    /\ cmd = NoCommand
    /\ used = [commands |-> 0, faults |-> 0]
    /\ hurt = FALSE

----------------------------------------------------------------------------
(* The migrations *)

(* What migration n does to schema s outside of its autocommit block: the  *)
(* documents table is created before the block of 001, all else after it.  *)
Created(n, s) ==
    IF n = 1 /\ "documents" \notin s.tables
    THEN [s EXCEPT !.tables = @ \cup {"documents"}, !.columns = {}, !.key = {"id"}]
    ELSE s

(* 002 .. 005 in both directions; the old documents get the default        *)
(* collection, which is lost again with the column.                        *)
AddSeedingTasks(up, s) ==
    [s EXCEPT !.tables = IF up THEN @ \cup {"seeding_tasks"} ELSE @ \ {"seeding_tasks"}]
AddCreatedAt(up, s) ==
    [s EXCEPT !.columns = IF up THEN @ \cup {"created_at"} ELSE @ \ {"created_at"}]
AddMetadataIndex(up, s) ==
    [s EXCEPT !.index["metadata"] = IF up THEN "valid" ELSE "absent"]
AddCollections(up, s) ==
    [s EXCEPT !.columns = IF up THEN @ \cup {"collection"} ELSE @ \ {"collection"},
              !.key = IF up THEN {"collection", "id"} ELSE {"id"},
              !.rows = {<<IF up THEN Default ELSE NoCollection, row[2]>> : row \in @}]

(* The end of 001's downgrade; the indexes of a table go with it.          *)
DropDocuments(s) ==
    [s EXCEPT !.tables = @ \ {"documents"}, !.rows = {}, !.columns = {}, !.key = {},
              !.index = [x \in Indexes |-> IF @[x] = "elsewhere" THEN @[x] ELSE "absent"]]

Migrated(n, up, s) ==
    LET t == [s EXCEPT !.version = IF up THEN n ELSE n - 1]
    IN CASE n = 1 -> IF up THEN t ELSE DropDocuments(t)
         [] n = 2 -> AddSeedingTasks(up, t)
         [] n = 3 -> AddCreatedAt(up, t)
         [] n = 4 -> AddMetadataIndex(up, t)
         [] n = 5 -> AddCollections(up, t)
         [] n = 6 -> t

(* Mutant of Possible: the key on the id alone is not enforced. *)
PossibleLoosely(n, up, s) == n = 4 /\ ~up => s.index["metadata"] # "absent"

(* The statements that can fail on what they find: DROP INDEX without IF   *)
(* EXISTS, a key on the id alone, and DROP FUNCTION while another table    *)
(* has a column generated with it.                                         *)
Possible(n, up, s) ==
    /\ n = 4 /\ up => s.index["metadata"] = "absent"
    /\ n = 4 /\ ~up => s.index["metadata"] # "absent"
    /\ n = 5 /\ ~up => \A r1, r2 \in s.rows : r1[2] = r2[2] => r1 = r2
    /\ n = 1 /\ ~up => s.others = {}

(* The indexes that the autocommit block of migration n goes through.      *)
Block(n, up) ==
    CASE n = 1 /\ up -> <<"gin", "trgm", "hnsw">>
      [] n = 1 /\ ~up -> <<"hnsw", "trgm", "gin">>
      [] n = 6 -> <<"bm25">>

----------------------------------------------------------------------------
(* alembic upgrade head, alembic downgrade <goal> *)

Up == cmd.dir = "up"
Number == IF Up THEN work.version + 1 ELSE work.version
Pending == work.version # cmd.goal

Command(dir, goal) ==
    /\ cmd.pc = "idle"
    /\ used.commands < MaxCommands
    /\ used' = [used EXCEPT !.commands = @ + 1]
    /\ cmd' = [NoCommand EXCEPT !.pc = "run", !.dir = dir, !.goal = goal]
    /\ work' = db
    /\ UNCHANGED <<db, hurt>>

(* The error or the end of the process rolls the open transaction back.    *)
Abort ==
    /\ cmd' = NoCommand
    /\ work' = db
    /\ hurt' = (hurt \/ cmd.pc = "statement" \/ cmd.dropped)
    /\ UNCHANGED db

(* Mutant of Fault: what the transaction did to the table stays (MySQL). *)
FaultHalfway ==
    /\ cmd.pc # "idle" /\ used.faults < MaxFaults
    /\ used' = [used EXCEPT !.faults = @ + 1]
    /\ cmd' = NoCommand
    /\ db' = [work EXCEPT !.version = db.version]
    /\ work' = db'
    /\ UNCHANGED hurt

Fault ==
    /\ cmd.pc # "idle" /\ used.faults < MaxFaults
    /\ used' = [used EXCEPT !.faults = @ + 1]
    /\ Abort

(* autocommit_block() commits all that the command has done so far. *)
EnterBlock ==
    /\ cmd.pc = "run" /\ Pending /\ Number \in {1, 6}
    /\ db' = IF Up THEN Created(Number, work) ELSE work
    /\ work' = db'
    /\ cmd' = [cmd EXCEPT !.pc = "block", !.todo = Block(Number, Up)]
    /\ UNCHANGED <<used, hurt>>

(* The next statement of the block.  An index that is there, valid or not, *)
(* is not built again, and one that is not there need not be dropped.      *)
(* Otherwise it is not valid until the statement has ended.                *)
BeginStatement ==
    /\ cmd.pc = "block" /\ cmd.todo # << >>
    /\ LET x == Head(cmd.todo)
       IN IF Up # (db.index[x] = "absent")
          THEN /\ cmd' = [cmd EXCEPT !.todo = Tail(@)]
               /\ UNCHANGED db
          ELSE /\ cmd' = [cmd EXCEPT !.pc = "statement", !.dropped = ~Up]
               /\ db' = [db EXCEPT !.index[x] = IF @ = "elsewhere" THEN @ ELSE "invalid"]
    /\ work' = db'
    /\ UNCHANGED <<used, hurt>>

EndStatement ==
    /\ cmd.pc = "statement"
    /\ db' = [db EXCEPT !.index[Head(cmd.todo)] = IF Up THEN "valid" ELSE "absent"]
    /\ work' = db'
    /\ cmd' = [cmd EXCEPT !.pc = "block", !.todo = Tail(@)]
    /\ UNCHANGED <<used, hurt>>

(* Mutant of Migrate: 006 is stamped with the number of one to come. *)
MigrateAhead ==
    /\ \/ cmd.pc = "run" /\ Pending /\ Number \notin {1, 6}
       \/ cmd.pc = "block" /\ cmd.todo = << >>
    /\ work' = [Migrated(Number, Up, work) EXCEPT !.version = IF @ = Head6 THEN @ + 1 ELSE @]
    /\ cmd' = [cmd EXCEPT !.pc = "run"]
    /\ UNCHANGED <<db, used, hurt>>

(* A migration, or what is left of it after its block, and its version.    *)
Migrate ==
    /\ \/ cmd.pc = "run" /\ Pending /\ Number \notin {1, 6}
       \/ cmd.pc = "block" /\ cmd.todo = << >>
    /\ IF Possible(Number, Up, work)
       THEN /\ work' = Migrated(Number, Up, work)
            /\ cmd' = [cmd EXCEPT !.pc = "run"]
            /\ UNCHANGED <<db, hurt>>
       ELSE Abort
    /\ UNCHANGED used

(* The last commit.  Without a documents table there is nothing to hurt.   *)
Complete ==
    /\ cmd.pc = "run" /\ ~Pending
    /\ db' = work
    /\ cmd' = NoCommand
    /\ hurt' = (hurt /\ work.version # 0)
    /\ UNCHANGED <<work, used>>

----------------------------------------------------------------------------
(* The service between the commands *)

Quiet == cmd.pc = "idle" /\ db.version > 0

(* A document is written, by this release or by one without collections.   *)
Write(c, i) ==
    /\ Quiet
    /\ db' = [db EXCEPT !.rows = @ \cup
                 {<<IF "collection" \in db.columns THEN c ELSE NoCollection, i>>}]
    /\ work' = db'
    /\ UNCHANGED <<cmd, used, hurt>>

(* RESEED up to its swap.  recreate_staging copies the columns and adds    *)
(* the key; a backup table in the way makes the swap fail.                 *)
Stage ==
    /\ Quiet /\ db.version = Head6
    /\ db' = [db EXCEPT !.others = @ \cup {"staging"}]
    /\ work' = db'
    /\ UNCHANGED <<cmd, used, hurt>>

(* Mutant of SwapAndRebuild: the index of 006 is not in rebuild_indexes. *)
RebuildWithout006 ==
    /\ Quiet /\ db.version = Head6 /\ db.others = {"staging"}
    /\ db' = [db EXCEPT !.others = {},
                        !.index = [x \in Indexes |-> IF x = "bm25" THEN "absent" ELSE "valid"]]
    /\ work' = db'
    /\ hurt' = FALSE
    /\ UNCHANGED <<cmd, used>>

(* The swap drops the backup table with its indexes.  Then the first n are *)
(* built, and perhaps the next one is cut off.                             *)
SwapAndRebuild ==
    /\ Quiet /\ db.version = Head6 /\ db.others = {"staging"}
    /\ \E n \in 0..Len(Rebuilt), cut \in {"absent", "invalid"},
          rows \in SUBSET (Collections \X Ids) :
          /\ db' = [db EXCEPT !.others = {}, !.rows = rows,
                              !.index = [x \in Indexes |->
                                           IF x \in {Rebuilt[m] : m \in 1..n} THEN "valid"
                                           ELSE IF x = Rebuilt[n + 1] THEN cut ELSE "absent"]]
          /\ hurt' = (n < Len(Rebuilt))
    /\ work' = db'
    /\ UNCHANGED <<cmd, used>>

(* With DROP_BACKUP_AFTER_SWAP=false the backup keeps its indexes, and     *)
(* nothing is rebuilt.                                                     *)
SwapAndKeep ==
    /\ Quiet /\ db.version = Head6 /\ db.others = {"staging"}
    /\ \E rows \in SUBSET (Collections \X Ids) :
          db' = [db EXCEPT !.others = {"backup"}, !.rows = rows,
                           !.index = [x \in Indexes |-> IF @[x] = "absent" THEN "absent"
                                                        ELSE "elsewhere"]]
    /\ work' = db'
    /\ hurt' = TRUE
    /\ UNCHANGED <<cmd, used>>

(* "drop the backup and rerun if you want fresh indexes" *)
DropBackup ==
    /\ Quiet /\ "backup" \in db.others
    /\ db' = [db EXCEPT !.others = @ \ {"backup"},
                        !.index = [x \in Indexes |-> IF @[x] = "elsewhere" THEN "absent"
                                                     ELSE @[x]]]
    /\ work' = db'
    /\ UNCHANGED <<cmd, used, hurt>>

Service ==
    \/ \E c \in Collections, i \in Ids : Write(c, i)
    \/ Stage \/ SwapAndRebuild \/ SwapAndKeep \/ DropBackup

Alembic ==
    \/ Command("up", Head6)
    \/ \E goal \in 0..Head6 : goal < db.version /\ Command("down", goal)
    \/ EnterBlock \/ BeginStatement \/ EndStatement \/ Migrate \/ Complete \/ Fault

Next == Alembic \/ Service

Spec == Init /\ [][Next]_vars

----------------------------------------------------------------------------
(* Properties *)

Schema ==
    [version : 0..Head6, tables : SUBSET {"documents", "seeding_tasks"},
     columns : SUBSET {"created_at", "collection"}, key : SUBSET {"collection", "id"},
     rows : SUBSET ((Collections \cup {NoCollection}) \X Ids),
     index : [Indexes -> {"absent", "invalid", "valid", "elsewhere"}],
     others : SUBSET {"staging", "backup"}]

(* Every variable has its type; the version is one that there is. *)
TypeOK ==
    /\ db \in Schema /\ work \in Schema
    /\ cmd.pc \in {"idle", "run", "block", "statement"} /\ cmd.goal \in 0..Head6
    /\ used \in [commands : 0..MaxCommands, faults : 0..MaxFaults]
    /\ hurt \in BOOLEAN

(* The committed tables, columns and key are those of the committed        *)
(* version, wherever commands were cut off or failed: only the documents   *)
(* table of 001, which is committed ahead of its version, may be there at  *)
(* version 0 already.                                                      *)
SchemaIsVersion ==
    LET v == db.version
    IN /\ ("seeding_tasks" \in db.tables) = (v >= 2)
       /\ v >= 1 => "documents" \in db.tables
       /\ ("created_at" \in db.columns) = (v >= 3)
       /\ ("collection" \in db.columns) = (v >= 5)
       /\ "documents" \in db.tables =>
             db.key = IF v >= 5 THEN {"collection", "id"} ELSE {"id"}

(* "Creating the ID-only key intentionally fails without changing data     *)
(* when two collections contain the same ID" (005): no command merges or   *)
(* loses documents, except by dropping the table; and only the key that    *)
(* 005 replaces changes the collection of one.                             *)
DocumentsSurvive ==
    [][Alembic /\ "documents" \in db'.tables /\ "documents" \in db.tables =>
          /\ {row[2] : row \in db'.rows} = {row[2] : row \in db.rows}
          /\ db.key = db'.key => db'.rows = db.rows
          /\ db.key # db'.key => \A r1, r2 \in db.rows : r1[2] = r2[2] => r1 = r2]_vars

(* An index build that is cut off, and an index that is dropped by a       *)
(* downgrade that does not get to its goal, stay so.  Nothing else leaves  *)
(* the table without an index of its version: not a command killed between *)
(* two statements or before the version is written, nor a table that       *)
(* RESEED replaced and rebuilt, nor any upgrade after a downgrade.         *)
IndexesAreThere ==
    Quiet /\ ~hurt => \A x \in Indexes : Since[x] <= db.version => db.index[x] = "valid"
=============================================================================
