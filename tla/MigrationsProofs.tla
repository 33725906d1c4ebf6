-------------------------- MODULE MigrationsProofs --------------------------
(***************************************************************************)
(* Theorems about Migrations: types, the schema that goes with a version,  *)
(* the documents, and the indexes, for any number of commands and faults,  *)
(* any collections and any ids.                                            *)
(***************************************************************************)
EXTENDS Migrations, TLAPS

CmdType ==
    [pc : {"idle", "run", "block", "statement"}, dir : {"up", "down"}, goal : 0..Head6,
     todo : Seq(Indexes), dropped : BOOLEAN]

InBlock == cmd.pc \in {"block", "statement"}
Todo == {cmd.todo[m] : m \in 1..Len(cmd.todo)}

TypeInv ==
    /\ db \in Schema /\ work \in Schema /\ cmd \in CmdType
    /\ used \in [commands : 0..MaxCommands, faults : 0..MaxFaults]
    /\ hurt \in BOOLEAN

(* What SchemaIsVersion says of db, for any schema; and a documents table  *)
(* without collections holds documents without one.                        *)
Sound(s) ==
    /\ ("seeding_tasks" \in s.tables) = (s.version >= 2)
    /\ s.version >= 1 => "documents" \in s.tables
    /\ ("created_at" \in s.columns) = (s.version >= 3)
    /\ ("collection" \in s.columns) = (s.version >= 5)
    /\ "documents" \in s.tables =>
          s.key = IF s.version >= 5 THEN {"collection", "id"} ELSE {"id"}
    /\ "collection" \notin s.columns => \A row \in s.rows : row[1] = NoCollection

(* Where a command stands: what it has committed is on its way, it is in   *)
(* the block of the next migration, with the indexes of that migration.    *)
GoalInv ==
    /\ cmd.pc # "idle" =>
          /\ Up => cmd.goal = Head6 /\ db.version <= work.version
          /\ ~Up => cmd.goal <= work.version /\ work.version <= db.version
          /\ Up /\ work.version = 0 => work = db
    /\ InBlock =>
          /\ work = db /\ Pending /\ Number \in {1, 6}
          /\ Up => "documents" \in db.tables
          /\ \A x \in Todo : Since[x] = Number
    /\ cmd.pc = "statement" => cmd.todo # << >>

(* What DocumentsSurvive says of a step from s to t; the open transaction  *)
(* is such a step away from the committed schema.                          *)
IdsOf(s) == {row[2] : row \in s.rows}
OneOfEachId(s) == \A r1, r2 \in s.rows : r1[2] = r2[2] => r1 = r2
Keeps(s, t) ==
    "documents" \in t.tables /\ "documents" \in s.tables =>
        /\ IdsOf(t) = IdsOf(s)
        /\ s.key = t.key => t.rows = s.rows
        /\ s.key # t.key => OneOfEachId(s)
DocsInv == cmd.pc # "idle" => Keeps(db, work)

(* The indexes of schema s up to version v are there.                      *)
Indexed(s, v) == \A x \in Indexes : Since[x] <= v => s.index[x] = "valid"
(* No index is in a bad state, except the one a statement works on.        *)
Clean(s) ==
    \A x \in Indexes :
        s.index[x] \in {"absent", "valid"} \/ (cmd.pc = "statement" /\ x = Head(cmd.todo))
(* In the block of a downgrade, the indexes of the migration are going.    *)
Level == IF InBlock /\ ~Up THEN work.version - 1 ELSE work.version

(* As long as nothing was hurt: the open transaction has the indexes of    *)
(* its version, those of the next one are built or still to build, and the *)
(* committed ones are lost only by a downgrade that has dropped one.       *)
Indices ==
    /\ Clean(db) /\ Clean(work)
    /\ cmd.pc # "idle" => Indexed(work, Level)
    /\ cmd.pc = "idle" \/ Up \/ ~cmd.dropped => Indexed(db, db.version)
    /\ InBlock /\ Up =>
          \A x \in Indexes : Since[x] = Number => x \in Todo \/ db.index[x] = "valid"

(* A table that is gone has no index, and "elsewhere" is on the backup. *)
Emptied ==
    cmd.pc = "run" /\ ~Up /\ work.version = 0 => \A x \in Indexes : work.index[x] = "absent"
OnBackup(s) == \A x \in Indexes : s.index[x] = "elsewhere" => "backup" \in s.others

IndexInv ==
    /\ ~hurt => Indices
    /\ Emptied
    /\ OnBackup(db) /\ OnBackup(work)
    /\ cmd.pc = "statement" => cmd.dropped = ~Up

----------------------------------------------------------------------------
(* The operators of the model *)

(* The five indexes, by name. *)
LEMMA IndexNames == Indexes = {"gin", "trgm", "bm25", "metadata", "hnsw"}
<1>1. Len(Rebuilt) = 5
  BY DEF Rebuilt
<1>2. Rebuilt[1] = "gin" /\ Rebuilt[2] = "trgm" /\ Rebuilt[3] = "bm25" /\ Rebuilt[4] = "metadata"
      /\ Rebuilt[5] = "hnsw"
  BY DEF Rebuilt
<1>3. 1..Len(Rebuilt) = {1, 2, 3, 4, 5}
  BY <1>1
<1> QED
  BY <1>2, <1>3 DEF Indexes

(* The migration that introduces each. *)
LEMMA SinceNumbers ==
    /\ Since["gin"] = 1 /\ Since["trgm"] = 1 /\ Since["hnsw"] = 1
    /\ Since["metadata"] = 4 /\ Since["bm25"] = 6
    /\ \A x \in Indexes : Since[x] \in 1..6
BY IndexNames DEF Since

(* The first statement of a block and the ones after it. *)
LEMMA HeadAndTail ==
    ASSUME NEW q \in Seq(Indexes), q # << >>
    PROVE  /\ Head(q) \in Indexes /\ Tail(q) \in Seq(Indexes)
           /\ {q[m] : m \in 1..Len(q)} = {Head(q)} \cup {Tail(q)[m] : m \in 1..Len(Tail(q))}
<1>1. Len(q) \in Nat /\ Len(q) >= 1 /\ Len(Tail(q)) = Len(q) - 1 /\ Head(q) = q[1]
  OBVIOUS
<1>2. \A m \in 1..Len(Tail(q)) : Tail(q)[m] = q[m + 1] /\ m + 1 \in 1..Len(q)
  BY <1>1
<1>3. \A m \in 1..Len(q) : m = 1 \/ (m - 1 \in 1..Len(Tail(q)) /\ Tail(q)[m - 1] = q[m])
  BY <1>1
<1> QED
  BY <1>1, <1>2, <1>3

(* A block goes through the indexes of its migration, and all of them. *)
LEMMA BlockIndexes ==
    ASSUME NEW n \in {1, 6}, NEW up \in BOOLEAN
    PROVE  /\ Block(n, up) \in Seq(Indexes)
           /\ {Block(n, up)[m] : m \in 1..Len(Block(n, up))} = {x \in Indexes : Since[x] = n}
<1>1. CASE n = 6
  <2>1. Block(n, up) = <<"bm25">>
    BY <1>1 DEF Block
  <2>2. {x \in Indexes : Since[x] = n} = {"bm25"}
    BY <1>1, IndexNames, SinceNumbers
  <2> QED
    BY <2>1, <2>2, IndexNames
<1>2. CASE n = 1
  <2>1. {x \in Indexes : Since[x] = n} = {"gin", "trgm", "hnsw"}
    BY <1>2, IndexNames, SinceNumbers
  <2>2. CASE up
    <3>1. Block(n, up) = <<"gin", "trgm", "hnsw">>
      BY <1>2, <2>2 DEF Block
    <3>2. 1..Len(Block(n, up)) = {1, 2, 3}
      BY <3>1
    <3> QED
      BY <2>1, <3>1, <3>2, IndexNames
  <2>3. CASE ~up
    <3>1. Block(n, up) = <<"hnsw", "trgm", "gin">>
      BY <1>2, <2>3 DEF Block
    <3>2. 1..Len(Block(n, up)) = {1, 2, 3}
      BY <3>1
    <3> QED
      BY <2>1, <3>1, <3>2, IndexNames
  <2> QED
    BY <2>2, <2>3
<1> QED
  BY <1>1, <1>2

(* The migrations, one by one; the version they write. *)
Stamped(n, up, s) == [s EXCEPT !.version = IF up THEN n ELSE n - 1]

(* t is s with the version that migration n writes. *)
StampOf(t, n, up, s) ==
    /\ t \in Schema /\ t.version = (IF up THEN n ELSE n - 1) /\ t.others = s.others
    /\ t.tables = s.tables /\ t.columns = s.columns /\ t.key = s.key
    /\ t.rows = s.rows /\ t.index = s.index

LEMMA StampedParts ==
    ASSUME NEW s \in Schema, NEW n \in 1..6, NEW up \in BOOLEAN
    PROVE  StampOf(Stamped(n, up, s), n, up, s)
<1> DEFINE v == IF up THEN n ELSE n - 1
           t == Stamped(n, up, s)
<1>1. v \in 0..Head6 /\ t = [s EXCEPT !.version = v]
  BY DEF Head6, Stamped
<1> HIDE DEF v, t
<1>2. t \in Schema /\ t.version = v
  BY <1>1 DEF Schema
<1>3. /\ t.tables = s.tables /\ t.columns = s.columns /\ t.key = s.key
      /\ t.rows = s.rows /\ t.index = s.index /\ t.others = s.others
  BY <1>1 DEF Schema
<1>4. StampOf(t, n, up, s)
  BY <1>2, <1>3 DEF StampOf, v
<1> QED
  BY <1>4 DEF t

LEMMA MigrationOf ==
    ASSUME NEW s, NEW n \in 1..6, NEW up \in BOOLEAN, NEW t, t = Stamped(n, up, s)
    PROVE  /\ n = 1 /\ up => Migrated(n, up, s) = t
           /\ n = 1 /\ ~up => Migrated(n, up, s) = DropDocuments(t)
           /\ n = 2 => Migrated(n, up, s) = AddSeedingTasks(up, t)
           /\ n = 3 => Migrated(n, up, s) = AddCreatedAt(up, t)
           /\ n = 4 => Migrated(n, up, s) = AddMetadataIndex(up, t)
           /\ n = 5 => Migrated(n, up, s) = AddCollections(up, t)
           /\ n = 6 => Migrated(n, up, s) = t
BY DEF Migrated, Stamped

(* What the last part of 001's downgrade leaves of the indexes, and what   *)
(* 005 makes of the documents.                                             *)
Gone(index) == [x \in Indexes |-> IF index[x] = "elsewhere" THEN index[x] ELSE "absent"]
WithCollection(up, rows) == {<<IF up THEN Default ELSE NoCollection, row[2]>> : row \in rows}

LEMMA MigratedType ==
    ASSUME NEW s \in Schema, NEW n \in 1..6, NEW up \in BOOLEAN
    PROVE  /\ Migrated(n, up, s) \in Schema
           /\ Migrated(n, up, s).version = (IF up THEN n ELSE n - 1)
           /\ Migrated(n, up, s).others = s.others
<1> DEFINE t == Stamped(n, up, s)
           m == Migrated(n, up, s)
<1>1. t \in Schema /\ t.version = (IF up THEN n ELSE n - 1) /\ t.others = s.others
  <2>1. StampOf(t, n, up, s)
    BY StampedParts
  <2> QED
    BY <2>1 DEF StampOf
<1>2. /\ n = 1 /\ up => m = t
      /\ n = 1 /\ ~up => m = DropDocuments(t)
      /\ n = 2 => m = AddSeedingTasks(up, t)
      /\ n = 3 => m = AddCreatedAt(up, t)
      /\ n = 4 => m = AddMetadataIndex(up, t)
      /\ n = 5 => m = AddCollections(up, t)
      /\ n = 6 => m = t
  BY MigrationOf
<1> SUFFICES m \in Schema /\ m.version = t.version /\ m.others = t.others
  BY <1>1
<1> HIDE DEF t, m
<1>3. CASE m = t
  BY <1>1, <1>3
<1>4. CASE m = DropDocuments(t)
  <2>1. [x \in Indexes |-> IF (t.index)[x] = "elsewhere" THEN (t.index)[x] ELSE "absent"]
            \in [Indexes -> {"absent", "invalid", "valid", "elsewhere"}]
    OBVIOUS
  <2> QED
    BY <1>1, <1>4, <2>1 DEF DropDocuments, Schema
<1>5. CASE m = AddSeedingTasks(up, t)
  BY <1>1, <1>5 DEF AddSeedingTasks, Schema
<1>6. CASE m = AddCreatedAt(up, t)
  BY <1>1, <1>6 DEF AddCreatedAt, Schema
<1>7. CASE m = AddMetadataIndex(up, t)
  BY <1>1, <1>7, IndexNames DEF AddMetadataIndex, Schema
<1>8. CASE m = AddCollections(up, t)
  <2>1. ASSUME NEW row \in t.rows
        PROVE  <<IF up THEN Default ELSE NoCollection, row[2]>>
                   \in (Collections \cup {NoCollection}) \X Ids
    BY <1>1, DefaultAssumption DEF Schema
  <2>2. WithCollection(up, t.rows) \in SUBSET ((Collections \cup {NoCollection}) \X Ids)
    BY <2>1 DEF WithCollection
  <2>3. m = [t EXCEPT !.columns = IF up THEN @ \cup {"collection"} ELSE @ \ {"collection"},
                      !.key = IF up THEN {"collection", "id"} ELSE {"id"},
                      !.rows = WithCollection(up, t.rows)]
    BY <1>8 DEF AddCollections, WithCollection
  <2> QED
    BY <1>1, <2>2, <2>3 DEF Schema
<1> QED
  BY <1>2, <1>3, <1>4, <1>5, <1>6, <1>7, <1>8

(* The documents, their table and its key. *)
LEMMA MigratedRows ==
    ASSUME NEW s \in Schema, NEW n \in 1..6, NEW up \in BOOLEAN
    PROVE  /\ n = 1 /\ ~up => "documents" \notin Migrated(n, up, s).tables
                              /\ Migrated(n, up, s).rows = {}
           /\ n # 1 \/ up =>
                 ("documents" \in Migrated(n, up, s).tables) = ("documents" \in s.tables)
           /\ n = 5 => /\ Migrated(n, up, s).rows = WithCollection(up, s.rows)
                       /\ Migrated(n, up, s).key = IF up THEN {"collection", "id"} ELSE {"id"}
           /\ n \notin {1, 5} \/ (n = 1 /\ up) =>
                 Migrated(n, up, s).rows = s.rows /\ Migrated(n, up, s).key = s.key
<1> DEFINE t == Stamped(n, up, s)
           m == Migrated(n, up, s)
<1>1. t \in Schema /\ t.tables = s.tables /\ t.key = s.key /\ t.rows = s.rows
  <2>1. StampOf(t, n, up, s)
    BY StampedParts
  <2> QED
    BY <2>1 DEF StampOf
<1>2. /\ n = 1 /\ up => m = t
      /\ n = 1 /\ ~up => m = DropDocuments(t)
      /\ n = 2 => m = AddSeedingTasks(up, t)
      /\ n = 3 => m = AddCreatedAt(up, t)
      /\ n = 4 => m = AddMetadataIndex(up, t)
      /\ n = 5 => m = AddCollections(up, t)
      /\ n = 6 => m = t
  BY MigrationOf
<1> HIDE DEF t, m
<1> SUFFICES /\ n = 1 /\ ~up => "documents" \notin m.tables /\ m.rows = {}
             /\ n # 1 \/ up => ("documents" \in m.tables) = ("documents" \in t.tables)
             /\ n = 5 => /\ m.rows = WithCollection(up, t.rows)
                         /\ m.key = IF up THEN {"collection", "id"} ELSE {"id"}
             /\ n \notin {1, 5} \/ (n = 1 /\ up) => m.rows = t.rows /\ m.key = t.key
  BY <1>1 DEF m
<1>3. CASE m = t /\ (n = 6 \/ (n = 1 /\ up))
  BY <1>3
<1>4. CASE m = DropDocuments(t) /\ n = 1 /\ ~up
  BY <1>1, <1>4 DEF DropDocuments, Schema
<1>5. CASE m = AddSeedingTasks(up, t) /\ n = 2
  BY <1>1, <1>5 DEF AddSeedingTasks, Schema
<1>6. CASE m = AddCreatedAt(up, t) /\ n = 3
  BY <1>1, <1>6 DEF AddCreatedAt, Schema
<1>7. CASE m = AddMetadataIndex(up, t) /\ n = 4
  BY <1>1, <1>7 DEF AddMetadataIndex, Schema
<1>8. CASE m = AddCollections(up, t) /\ n = 5
  <2>1. m = [t EXCEPT !.columns = IF up THEN @ \cup {"collection"} ELSE @ \ {"collection"},
                      !.key = IF up THEN {"collection", "id"} ELSE {"id"},
                      !.rows = WithCollection(up, t.rows)]
    BY <1>8 DEF AddCollections, WithCollection
  <2> QED
    BY <1>1, <1>8, <2>1 DEF Schema
<1> QED
  BY <1>2, <1>3, <1>4, <1>5, <1>6, <1>7, <1>8

(* The indexes. *)
LEMMA MigratedIndexes ==
    ASSUME NEW s \in Schema, NEW n \in 1..6, NEW up \in BOOLEAN, NEW x \in Indexes
    PROVE  /\ n \notin {1, 4} \/ (n = 1 /\ up) \/ (n = 4 /\ x # "metadata") =>
                 Migrated(n, up, s).index[x] = s.index[x]
           /\ n = 1 /\ ~up => Migrated(n, up, s).index[x] = Gone(s.index)[x]
           /\ n = 4 /\ x = "metadata" =>
                 Migrated(n, up, s).index[x] = IF up THEN "valid" ELSE "absent"
<1> DEFINE t == Stamped(n, up, s)
           m == Migrated(n, up, s)
<1>1. t \in Schema /\ t.index = s.index
  <2>1. StampOf(t, n, up, s)
    BY StampedParts
  <2> QED
    BY <2>1 DEF StampOf
<1>2. /\ n = 1 /\ up => m = t
      /\ n = 1 /\ ~up => m = DropDocuments(t)
      /\ n = 2 => m = AddSeedingTasks(up, t)
      /\ n = 3 => m = AddCreatedAt(up, t)
      /\ n = 4 => m = AddMetadataIndex(up, t)
      /\ n = 5 => m = AddCollections(up, t)
      /\ n = 6 => m = t
  BY MigrationOf
<1> HIDE DEF t, m
<1> SUFFICES /\ n \notin {1, 4} \/ (n = 1 /\ up) \/ (n = 4 /\ x # "metadata") =>
                   m.index[x] = t.index[x]
             /\ n = 1 /\ ~up => m.index[x] = Gone(t.index)[x]
             /\ n = 4 /\ x = "metadata" => m.index[x] = IF up THEN "valid" ELSE "absent"
  BY <1>1 DEF m
<1>3. CASE m = t /\ (n = 6 \/ (n = 1 /\ up))
  BY <1>3
<1>4. CASE m = DropDocuments(t) /\ n = 1 /\ ~up
  BY <1>1, <1>4 DEF DropDocuments, Schema, Gone
<1>5. CASE m = AddSeedingTasks(up, t) /\ n = 2
  BY <1>1, <1>5 DEF AddSeedingTasks, Schema
<1>6. CASE m = AddCreatedAt(up, t) /\ n = 3
  BY <1>1, <1>6 DEF AddCreatedAt, Schema
<1>7. CASE m = AddMetadataIndex(up, t) /\ n = 4
  BY <1>1, <1>7, IndexNames DEF AddMetadataIndex, Schema
<1>8. CASE m = AddCollections(up, t) /\ n = 5
  BY <1>1, <1>8 DEF AddCollections, Schema
<1> QED
  BY <1>2, <1>3, <1>4, <1>5, <1>6, <1>7, <1>8

(* A migration leads from the schema of one version to that of the next or *)
(* of the one before.                                                      *)
LEMMA MigratedSound ==
    ASSUME NEW s \in Schema, Sound(s), NEW n \in 1..6, NEW up \in BOOLEAN,
           n = (IF up THEN s.version + 1 ELSE s.version),
           n = 1 /\ up => "documents" \in s.tables
    PROVE  Sound(Migrated(n, up, s))
<1> DEFINE t == Stamped(n, up, s)
           m == Migrated(n, up, s)
<1>1. /\ t \in Schema /\ t.version = (IF up THEN n ELSE n - 1) /\ t.tables = s.tables
      /\ t.columns = s.columns /\ t.key = s.key /\ t.rows = s.rows
  <2>1. StampOf(t, n, up, s)
    BY StampedParts
  <2> QED
    BY <2>1 DEF StampOf
<1>2. /\ n = 1 /\ up => m = t
      /\ n = 1 /\ ~up => m = DropDocuments(t)
      /\ n = 2 => m = AddSeedingTasks(up, t)
      /\ n = 3 => m = AddCreatedAt(up, t)
      /\ n = 4 => m = AddMetadataIndex(up, t)
      /\ n = 5 => m = AddCollections(up, t)
      /\ n = 6 => m = t
  BY MigrationOf
<1>3. s.version \in 0..6
  BY DEF Schema, Head6
<1> HIDE DEF t, m
<1> SUFFICES Sound(m)
  BY DEF m
<1>4. CASE m = t /\ (n = 6 \/ (n = 1 /\ up))
  BY <1>1, <1>3, <1>4 DEF Sound
<1>5. CASE m = DropDocuments(t) /\ n = 1 /\ ~up
  BY <1>1, <1>3, <1>5 DEF DropDocuments, Schema, Sound
<1>6. CASE m = AddSeedingTasks(up, t) /\ n = 2
  BY <1>1, <1>3, <1>6 DEF AddSeedingTasks, Schema, Sound
<1>7. CASE m = AddCreatedAt(up, t) /\ n = 3
  BY <1>1, <1>3, <1>7 DEF AddCreatedAt, Schema, Sound
<1>8. CASE m = AddMetadataIndex(up, t) /\ n = 4
  BY <1>1, <1>3, <1>8 DEF AddMetadataIndex, Schema, Sound
<1>9. CASE m = AddCollections(up, t) /\ n = 5
  BY <1>1, <1>3, <1>9 DEF AddCollections, Schema, Sound
<1> QED
  BY <1>2, <1>4, <1>5, <1>6, <1>7, <1>8, <1>9

----------------------------------------------------------------------------
(* Types, and where a command stands *)

Base == TypeInv /\ Sound(db) /\ Sound(work) /\ GoalInv

(* A command that has something to do has a next migration. *)
LEMMA NumberRange ==
    ASSUME Base, cmd.pc # "idle", Pending
    PROVE  Number \in 1..6 /\ work.version \in 0..6
<1>1. work.version \in 0..6 /\ cmd.goal \in 0..6 /\ work.version # cmd.goal
  BY DEF Base, TypeInv, Schema, CmdType, Pending, Head6
<1>2. (Up => cmd.goal = 6) /\ (~Up => cmd.goal <= work.version)
  BY DEF Base, GoalInv, Head6
<1>3. Up => Number = work.version + 1 /\ work.version # 6
  BY <1>1, <1>2 DEF Number
<1>4. ~Up => Number = work.version /\ work.version # 0
  BY <1>1, <1>2 DEF Number
<1> QED
  BY <1>1, <1>3, <1>4

LEMMA BaseInit ==
    ASSUME Init
    PROVE  Base
<1>1. NoSchema \in Schema
  BY DEF NoSchema, Schema, Head6
<1>2. Sound(NoSchema)
  BY DEF NoSchema, Sound
<1>3. NoCommand \in CmdType /\ NoCommand.pc = "idle"
  BY DEF NoCommand, CmdType, Head6
<1>4. used \in [commands : 0..MaxCommands, faults : 0..MaxFaults]
  BY BoundsAssumption DEF Init
<1> QED
  BY <1>1, <1>2, <1>3, <1>4 DEF Init, Base, TypeInv, GoalInv, InBlock

(* When a command ends, or none runs, only the schema counts. *)
LEMMA IdleBase ==
    ASSUME db' \in Schema, Sound(db)', work' = db', cmd' \in CmdType, cmd'.pc = "idle",
           used' \in [commands : 0..MaxCommands, faults : 0..MaxFaults], hurt' \in BOOLEAN
    PROVE  Base'
<1>1. Sound(work)'
  BY DEF Sound
<1> QED
  BY <1>1 DEF Base, TypeInv, GoalInv, InBlock

LEMMA BaseCommand ==
    ASSUME Base, NEW dir \in {"up", "down"}, NEW goal \in 0..Head6, Command(dir, goal),
           dir = "up" => goal = Head6, dir = "down" => goal < db.version
    PROVE  Base'
<1>1. cmd' \in CmdType /\ cmd'.pc = "run" /\ cmd'.dir = dir /\ cmd'.goal = goal
  <2>1. cmd' = [pc |-> "run", dir |-> dir, goal |-> goal, todo |-> << >>, dropped |-> FALSE]
    BY DEF Command, NoCommand
  <2> QED
    BY <2>1 DEF CmdType
<1>2. db' = db /\ work' = db /\ hurt' = hurt
  BY DEF Command
<1>3. used' \in [commands : 0..MaxCommands, faults : 0..MaxFaults]
  BY BoundsAssumption DEF Command, Base, TypeInv
<1>4. TypeInv' /\ Sound(db)' /\ Sound(work)'
  BY <1>1, <1>2, <1>3 DEF Base, TypeInv, Sound
<1>5. GoalInv'
  BY <1>1, <1>2 DEF Base, TypeInv, GoalInv, InBlock, Up, Schema, Head6
<1> QED
  BY <1>4, <1>5 DEF Base

LEMMA BaseAbort ==
    ASSUME Base, Abort, used' \in [commands : 0..MaxCommands, faults : 0..MaxFaults]
    PROVE  Base'
<1>1. cmd' \in CmdType /\ cmd'.pc = "idle"
  BY DEF Abort, NoCommand, CmdType, Head6
<1>2. Sound(db)'
  BY DEF Abort, Base, Sound
<1> QED
  BY <1>1, <1>2, IdleBase DEF Abort, Base, TypeInv

LEMMA BaseFault ==
    ASSUME Base, Fault
    PROVE  Base'
<1>1. used' \in [commands : 0..MaxCommands, faults : 0..MaxFaults]
  BY BoundsAssumption DEF Fault, Base, TypeInv
<1> QED
  BY <1>1, BaseAbort DEF Fault

LEMMA BaseEnterBlock ==
    ASSUME Base, EnterBlock
    PROVE  Base'
<1>1. Number \in {1, 6} /\ Pending /\ cmd.pc = "run" /\ cmd \in CmdType /\ work \in Schema
  BY DEF EnterBlock, Base, TypeInv
<1>2. cmd' = [cmd EXCEPT !.pc = "block", !.todo = Block(Number, Up)] /\ work' = db'
      /\ used' = used /\ hurt' = hurt
  BY DEF EnterBlock
<1>3. Up \in BOOLEAN
  BY DEF Up
<1>4. /\ Block(Number, Up) \in Seq(Indexes)
      /\ {Block(Number, Up)[m] : m \in 1..Len(Block(Number, Up))} = {x \in Indexes : Since[x] = Number}
  BY <1>1, <1>3, BlockIndexes
<1>5. /\ cmd' \in CmdType /\ cmd'.pc = "block" /\ cmd'.dir = cmd.dir /\ cmd'.goal = cmd.goal
      /\ cmd'.todo = Block(Number, Up)
  BY <1>1, <1>2, <1>4 DEF CmdType
<1>6. /\ db' \in Schema /\ db'.version = work.version /\ Sound(db)'
      /\ Up => "documents" \in db'.tables
  <2>1. CASE Up /\ Number = 1 /\ "documents" \notin work.tables
    <3>1. db' = [work EXCEPT !.tables = @ \cup {"documents"}, !.columns = {}, !.key = {"id"}]
      BY <2>1 DEF EnterBlock, Created
    <3>2. work.version = 0
      BY <2>1, <1>1 DEF Number, Schema, Head6
    <3>3. db' \in Schema
      BY <1>1, <3>1 DEF Schema
    <3>4. /\ db'.version = 0 /\ db'.tables = work.tables \cup {"documents"} /\ db'.columns = {}
          /\ db'.key = {"id"} /\ db'.rows = work.rows
      BY <1>1, <3>1, <3>2 DEF Schema
    <3>5. Sound(work)
      BY DEF Base
    <3> QED
      BY <3>2, <3>3, <3>4, <3>5 DEF Sound
  <2>2. CASE ~(Up /\ Number = 1 /\ "documents" \notin work.tables)
    <3>1. db' = work
      BY <2>2 DEF EnterBlock, Created
    <3>2. Up => "documents" \in work.tables
      BY <1>1, <2>2 DEF Base, Sound, Number, Schema, Head6
    <3> QED
      BY <1>1, <3>1, <3>2 DEF Base, Sound
  <2> QED
    BY <2>1, <2>2
<1>7. Up' = Up /\ Number' = Number /\ Pending'
  BY <1>1, <1>2, <1>5, <1>6 DEF Up, Number, Pending
<1>8. TypeInv' /\ Sound(db)' /\ Sound(work)'
  BY <1>2, <1>5, <1>6 DEF Base, TypeInv, Sound
<1>9. Todo' = {x \in Indexes : Since[x] = Number}
  BY <1>4, <1>5 DEF Todo
<1>10. GoalInv'
  <2>1. work'.version = work.version /\ cmd'.goal = cmd.goal
    BY <1>2, <1>5, <1>6
  <2>2. Up => cmd.goal = Head6
    BY <1>1 DEF Base, GoalInv
  <2>3. ~Up => cmd.goal <= work.version
    BY <1>1 DEF Base, GoalInv
  <2>4. work.version \in 0..Head6
    BY <1>1 DEF Schema
  <2> QED
    BY <1>1, <1>2, <1>5, <1>6, <1>7, <1>9, <2>1, <2>2, <2>3, <2>4 DEF GoalInv, InBlock, Head6
<1> QED
  BY <1>8, <1>10 DEF Base

(* A statement changes the state of an index, and nothing else of the      *)
(* schema.                                                                 *)
(* t is s with the state i of the index x. *)
ReIndexed(t, x, i, s) ==
    /\ t \in Schema /\ Sound(t) /\ t.version = s.version /\ t.tables = s.tables
    /\ t.key = s.key /\ t.rows = s.rows /\ t.others = s.others
    /\ t.index = [s.index EXCEPT ![x] = i]

LEMMA IndexOnly ==
    ASSUME NEW s \in Schema, Sound(s), NEW x \in Indexes,
           NEW i \in {"absent", "invalid", "valid", "elsewhere"}
    PROVE  ReIndexed([s EXCEPT !.index[x] = i], x, i, s)
<1> DEFINE t == [s EXCEPT !.index[x] = i]
<1>1. /\ t \in Schema /\ t.version = s.version /\ t.tables = s.tables /\ t.columns = s.columns
      /\ t.key = s.key /\ t.rows = s.rows /\ t.others = s.others
      /\ t.index = [s.index EXCEPT ![x] = i]
  BY DEF Schema
<1> HIDE DEF t
<1>2. Sound(t)
  BY <1>1 DEF Sound
<1>3. ReIndexed(t, x, i, s)
  BY <1>1, <1>2 DEF ReIndexed
<1> QED
  BY <1>3 DEF t

LEMMA BaseBeginStatement ==
    ASSUME Base, BeginStatement
    PROVE  Base'
<1> DEFINE x == Head(cmd.todo)
<1>1. /\ cmd.pc = "block" /\ cmd.todo # << >> /\ cmd \in CmdType /\ db \in Schema
      /\ cmd.todo \in Seq(Indexes) /\ work' = db' /\ used' = used /\ hurt' = hurt /\ Sound(db)
  BY DEF BeginStatement, Base, TypeInv, CmdType
<1>2. x \in Indexes /\ Tail(cmd.todo) \in Seq(Indexes)
      /\ {Tail(cmd.todo)[m] : m \in 1..Len(Tail(cmd.todo))} \subseteq Todo
  BY <1>1, HeadAndTail DEF Todo
<1>3. /\ cmd' \in CmdType /\ cmd'.pc \in {"block", "statement"} /\ cmd'.dir = cmd.dir
      /\ cmd'.goal = cmd.goal /\ Todo' \subseteq Todo
      /\ cmd'.pc = "statement" => cmd'.todo # << >>
  <2>1. CASE cmd' = [cmd EXCEPT !.todo = Tail(@)]
    BY <1>1, <1>2, <2>1 DEF CmdType, Todo
  <2>2. CASE cmd' = [cmd EXCEPT !.pc = "statement", !.dropped = ~Up]
    BY <1>1, <2>2 DEF CmdType, Todo, Up
  <2> QED
    BY <2>1, <2>2 DEF BeginStatement
<1>4. db' \in Schema /\ Sound(db)' /\ db'.version = db.version /\ db'.tables = db.tables
  <2>1. CASE db' = db
    BY <1>1, <2>1 DEF Sound
  <2>2. CASE db' = [db EXCEPT !.index[x] = IF @ = "elsewhere" THEN @ ELSE "invalid"]
    <3> DEFINE i == IF db.index[x] = "elsewhere" THEN db.index[x] ELSE "invalid"
    <3>1. i \in {"absent", "invalid", "valid", "elsewhere"}
      OBVIOUS
    <3>2. db' = [db EXCEPT !.index[x] = i]
      BY <2>2
    <3> HIDE DEF i, x
    <3>3. ReIndexed([db EXCEPT !.index[x] = i], x, i, db)
      BY <1>1, <1>2, <3>1, IndexOnly
    <3>4. ReIndexed(db', x, i, db)
      BY <3>2, <3>3
    <3> QED
      BY <3>4 DEF ReIndexed, Sound
  <2> QED
    BY <2>1, <2>2 DEF BeginStatement
<1> QED
  <2>1. TypeInv' /\ Sound(db)' /\ Sound(work)'
    BY <1>1, <1>3, <1>4 DEF Base, TypeInv, Sound
  <2>2. Up' = Up /\ Number' = Number /\ Pending' = Pending /\ work = db
    BY <1>1, <1>3, <1>4 DEF Up, Number, Pending, Base, GoalInv, InBlock
  <2>3. GoalInv'
    BY <1>1, <1>3, <1>4, <2>2 DEF Base, GoalInv, InBlock
  <2> QED
    BY <2>1, <2>3 DEF Base

LEMMA BaseEndStatement ==
    ASSUME Base, EndStatement
    PROVE  Base'
<1> DEFINE x == Head(cmd.todo)
           i == IF Up THEN "valid" ELSE "absent"
<1>1. /\ cmd.pc = "statement" /\ cmd.todo # << >> /\ cmd \in CmdType /\ db \in Schema
      /\ cmd.todo \in Seq(Indexes) /\ work' = db' /\ used' = used /\ hurt' = hurt /\ Sound(db)
      /\ cmd' = [cmd EXCEPT !.pc = "block", !.todo = Tail(@)]
      /\ db' = [db EXCEPT !.index[x] = i]
  BY DEF EndStatement, Base, TypeInv, CmdType, GoalInv
<1>2. x \in Indexes /\ Tail(cmd.todo) \in Seq(Indexes)
      /\ {Tail(cmd.todo)[m] : m \in 1..Len(Tail(cmd.todo))} \subseteq Todo
  BY <1>1, HeadAndTail DEF Todo
<1>3. /\ cmd' \in CmdType /\ cmd'.pc = "block" /\ cmd'.dir = cmd.dir
      /\ cmd'.goal = cmd.goal /\ Todo' \subseteq Todo
  BY <1>1, <1>2 DEF CmdType, Todo
<1>4. i \in {"absent", "invalid", "valid", "elsewhere"}
  OBVIOUS
<1>5. db' \in Schema /\ Sound(db)' /\ db'.version = db.version /\ db'.tables = db.tables
  <2> HIDE DEF i, x
  <2>1. ReIndexed([db EXCEPT !.index[x] = i], x, i, db)
    BY <1>1, <1>2, <1>4, IndexOnly
  <2>2. ReIndexed(db', x, i, db)
    BY <1>1, <2>1
  <2> QED
    BY <2>2 DEF ReIndexed, Sound
<1>6. TypeInv' /\ Sound(db)' /\ Sound(work)'
  BY <1>1, <1>3, <1>5 DEF Base, TypeInv, Sound
<1>7. Up' = Up /\ Number' = Number /\ Pending' = Pending /\ work = db
  BY <1>1, <1>3, <1>5 DEF Up, Number, Pending, Base, GoalInv, InBlock
<1>8. GoalInv'
  BY <1>1, <1>3, <1>5, <1>7 DEF Base, GoalInv, InBlock
<1> QED
  BY <1>6, <1>8 DEF Base

LEMMA BaseMigrate ==
    ASSUME Base, Migrate
    PROVE  Base'
<1>1. Number \in 1..6 /\ Pending /\ cmd.pc # "idle" /\ Up \in BOOLEAN
      /\ used' = used
  <2>1. cmd.pc # "idle" /\ Pending /\ used' = used
    BY DEF Migrate, Base, GoalInv, InBlock
  <2> QED
    BY <2>1, NumberRange DEF Up
<1>2. CASE Possible(Number, Up, work)
  <2>1. work' = Migrated(Number, Up, work) /\ cmd' = [cmd EXCEPT !.pc = "run"]
        /\ db' = db /\ hurt' = hurt
    BY <1>2 DEF Migrate
  <2>2. work \in Schema /\ Sound(work) /\ cmd \in CmdType /\ work.version \in 0..6
    BY DEF Base, TypeInv, Schema, Head6
  <2>3. Number = (IF Up THEN work.version + 1 ELSE work.version)
    BY DEF Number
  <2>4. Number = 1 /\ Up => "documents" \in work.tables
    <3>1. ASSUME Number = 1
          PROVE  cmd.pc = "block" /\ work = db
      BY <1>1, <3>1 DEF Migrate, Base, GoalInv, InBlock
    <3> QED
      BY <3>1 DEF Base, GoalInv, InBlock
  <2>5. work' \in Schema /\ work'.version = (IF Up THEN Number ELSE Number - 1)
    BY <1>1, <2>1, <2>2, MigratedType
  <2>6. Sound(work)'
    <3>1. Sound(Migrated(Number, Up, work))
      BY <1>1, <2>2, <2>3, <2>4, MigratedSound
    <3> QED
      BY <2>1, <3>1 DEF Sound
  <2>7. cmd' \in CmdType /\ cmd'.pc = "run" /\ cmd'.dir = cmd.dir /\ cmd'.goal = cmd.goal
    BY <2>1, <2>2 DEF CmdType
  <2>8. TypeInv' /\ Sound(db)'
    BY <1>1, <2>1, <2>5, <2>7 DEF Base, TypeInv, Sound
  <2>9. GoalInv'
    <3>1. cmd.goal \in 0..6 /\ db.version \in 0..6
      BY DEF Base, TypeInv, CmdType, Schema, Head6
    <3>2. CASE Up
      <4>1. work'.version = work.version + 1 /\ Up' /\ cmd.goal = Head6 /\ db.version <= work.version
        BY <1>1, <2>3, <2>5, <2>7, <3>2 DEF Up, Base, GoalInv
      <4> QED
        BY <2>1, <2>2, <2>7, <3>1, <4>1 DEF GoalInv, InBlock
    <3>3. CASE ~Up
      <4>1. /\ work'.version = work.version - 1 /\ ~Up' /\ cmd.goal <= work.version
            /\ work.version <= db.version /\ work.version # cmd.goal
        BY <1>1, <2>3, <2>5, <2>7, <3>3 DEF Up, Base, GoalInv, Pending
      <4> QED
        BY <2>1, <2>2, <2>7, <3>1, <4>1 DEF GoalInv, InBlock
    <3> QED
      BY <3>2, <3>3
  <2> QED
    BY <2>6, <2>8, <2>9 DEF Base
<1>3. CASE ~Possible(Number, Up, work)
  BY <1>1, <1>3, BaseAbort DEF Migrate, Base, TypeInv
<1> QED
  BY <1>2, <1>3

LEMMA BaseComplete ==
    ASSUME Base, Complete
    PROVE  Base'
<1>1. cmd' \in CmdType /\ cmd'.pc = "idle"
  BY DEF Complete, NoCommand, CmdType, Head6
<1>2. Sound(db)' /\ work' = db' /\ used' = used /\ db' \in Schema /\ hurt' \in BOOLEAN
  BY DEF Complete, Base, Sound, TypeInv
<1> QED
  BY <1>1, <1>2, IdleBase DEF Base, TypeInv

(* What the service does to the committed schema. *)
LEMMA BaseService ==
    ASSUME Base, Service
    PROVE  Base'
<1>1. Quiet /\ work' = db' /\ cmd' = cmd /\ used' = used /\ hurt' \in BOOLEAN
      /\ db \in Schema /\ Sound(db)
  <2>1. db \in Schema /\ Sound(db) /\ hurt \in BOOLEAN
    BY DEF Base, TypeInv
  <2>2. ASSUME NEW c \in Collections, NEW i \in Ids, Write(c, i)
        PROVE  Quiet /\ work' = db' /\ cmd' = cmd /\ used' = used /\ hurt' = hurt
    BY <2>2 DEF Write
  <2>3. CASE Stage
    BY <2>1, <2>3 DEF Stage
  <2>4. CASE SwapAndRebuild
    BY <2>1, <2>4 DEF SwapAndRebuild
  <2>5. CASE SwapAndKeep
    BY <2>1, <2>5 DEF SwapAndKeep
  <2>6. CASE DropBackup
    BY <2>1, <2>6 DEF DropBackup
  <2> QED
    BY <2>1, <2>2, <2>3, <2>4, <2>5, <2>6 DEF Service
<1> SUFFICES db' \in Schema /\ Sound(db')
  <2>1. Sound(db)' <=> Sound(db')
    BY DEF Sound
  <2> QED
    BY <1>1, <2>1, IdleBase DEF Base, TypeInv, Quiet
<1>2. ASSUME NEW c \in Collections, NEW i \in Ids, Write(c, i)
      PROVE  db' \in Schema /\ Sound(db')
  <2> DEFINE row == <<IF "collection" \in db.columns THEN c ELSE NoCollection, i>>
  <2>1. row \in (Collections \cup {NoCollection}) \X Ids
        /\ ("collection" \notin db.columns => row[1] = NoCollection)
    OBVIOUS
  <2>2. db' = [db EXCEPT !.rows = @ \cup {row}]
    BY <1>2 DEF Write
  <2> HIDE DEF row
  <2>3. /\ db' \in Schema /\ db'.rows = db.rows \cup {row} /\ db'.version = db.version
        /\ db'.tables = db.tables /\ db'.columns = db.columns /\ db'.key = db.key
    BY <1>1, <2>1, <2>2 DEF Schema
  <2> QED
    BY <1>1, <2>1, <2>3 DEF Sound
<1>3. CASE Stage
  <2>1. /\ db' \in Schema /\ db'.rows = db.rows /\ db'.version = db.version
        /\ db'.tables = db.tables /\ db'.columns = db.columns /\ db'.key = db.key
    BY <1>1, <1>3 DEF Stage, Schema
  <2> QED
    BY <1>1, <2>1 DEF Sound
<1>4. ASSUME NEW rows \in SUBSET (Collections \X Ids), db.version = Head6,
             NEW others \in SUBSET {"staging", "backup"},
             NEW index \in [Indexes -> {"absent", "invalid", "valid", "elsewhere"}],
             db' = [db EXCEPT !.others = others, !.rows = rows, !.index = index]
      PROVE  db' \in Schema /\ Sound(db')
  <2>1. rows \in SUBSET ((Collections \cup {NoCollection}) \X Ids)
    OBVIOUS
  <2>2. db' = [db EXCEPT !.others = others, !.rows = rows, !.index = index]
    BY <1>4
  <2>3. db' \in Schema
    BY <1>1, <2>1, <2>2 DEF Schema
  <2>4. /\ db'.version = db.version
        /\ db'.tables = db.tables /\ db'.columns = db.columns /\ db'.key = db.key
    BY <1>1, <2>2 DEF Schema
  <2>5. db.version = 6
    BY <1>4 DEF Head6
  <2> QED
    BY <1>1, <2>3, <2>4, <2>5 DEF Sound
<1>5. CASE SwapAndRebuild
  <2>1. PICK n \in 0..Len(Rebuilt), cut \in {"absent", "invalid"},
             rows \in SUBSET (Collections \X Ids) :
          /\ db' = [db EXCEPT !.others = {}, !.rows = rows,
                              !.index = [x \in Indexes |->
                                           IF x \in {Rebuilt[m] : m \in 1..n} THEN "valid"
                                           ELSE IF x = Rebuilt[n + 1] THEN cut ELSE "absent"]]
          /\ hurt' = (n < Len(Rebuilt))
    BY <1>5, Zenon DEF SwapAndRebuild
  <2>2. [x \in Indexes |-> IF x \in {Rebuilt[m] : m \in 1..n} THEN "valid"
                           ELSE IF x = Rebuilt[n + 1] THEN cut ELSE "absent"]
            \in [Indexes -> {"absent", "invalid", "valid", "elsewhere"}]
    OBVIOUS
  <2>3. db.version = Head6
    BY <1>5 DEF SwapAndRebuild
  <2> QED
    BY <1>4, <2>1, <2>2, <2>3
<1>6. CASE SwapAndKeep
  <2>1. PICK rows \in SUBSET (Collections \X Ids) :
          db' = [db EXCEPT !.others = {"backup"}, !.rows = rows,
                           !.index = [x \in Indexes |-> IF (db.index)[x] = "absent" THEN "absent"
                                                        ELSE "elsewhere"]]
    BY <1>6 DEF SwapAndKeep
  <2>2. [x \in Indexes |-> IF (db.index)[x] = "absent" THEN "absent" ELSE "elsewhere"]
            \in [Indexes -> {"absent", "invalid", "valid", "elsewhere"}]
    OBVIOUS
  <2>3. db.version = Head6
    BY <1>6 DEF SwapAndKeep
  <2> QED
    BY <1>4, <2>1, <2>2, <2>3
<1>7. CASE DropBackup
  <2>1. db' = [db EXCEPT !.others = db.others \ {"backup"},
                         !.index = [x \in Indexes |-> IF (db.index)[x] = "elsewhere" THEN "absent"
                                                      ELSE (db.index)[x]]]
    BY <1>7 DEF DropBackup
  <2>2. [x \in Indexes |-> IF (db.index)[x] = "elsewhere" THEN "absent" ELSE (db.index)[x]]
            \in [Indexes -> {"absent", "invalid", "valid", "elsewhere"}]
    BY <1>1 DEF Schema
  <2>3. /\ db' \in Schema /\ db'.rows = db.rows /\ db'.version = db.version
        /\ db'.tables = db.tables /\ db'.columns = db.columns /\ db'.key = db.key
    BY <1>1, <2>1, <2>2 DEF Schema
  <2> QED
    BY <1>1, <2>3 DEF Sound
<1> QED
  BY <1>2, <1>3, <1>5, <1>6, <1>7 DEF Service

LEMMA BaseStep ==
    ASSUME Base, [Next]_vars
    PROVE  Base'
<1>1. CASE Command("up", Head6)
  BY <1>1, BaseCommand DEF Head6
<1>2. ASSUME NEW goal \in 0..Head6, goal < db.version, Command("down", goal)
      PROVE  Base'
  BY <1>2, BaseCommand
<1>3. CASE EnterBlock \/ BeginStatement \/ EndStatement \/ Migrate \/ Complete \/ Fault
  BY <1>3, BaseEnterBlock, BaseBeginStatement, BaseEndStatement, BaseMigrate, BaseComplete, BaseFault
<1>4. CASE Service
  BY <1>4, BaseService
<1>5. CASE UNCHANGED vars
  BY <1>5 DEF vars, Base, TypeInv, Sound, GoalInv, InBlock, Up, Todo, Number, Pending
<1> QED
  BY <1>1, <1>2, <1>3, <1>4, <1>5 DEF Next, Alembic

(* Every variable has its type. *)
THEOREM TypeCorrect == Spec => []TypeOK
<1>1. Base => TypeOK
  BY DEF Base, TypeInv, TypeOK, CmdType
<1> QED
  BY BaseInit, BaseStep, <1>1, PTL DEF Spec

(* Whatever a command or an error leaves behind, the committed schema is   *)
(* the one of the committed version.                                       *)
THEOREM SchemaFollowsVersion == Spec => []SchemaIsVersion
<1>1. Base => SchemaIsVersion
  BY DEF Base, Sound, SchemaIsVersion
<1> QED
  BY BaseInit, BaseStep, <1>1, PTL DEF Spec

----------------------------------------------------------------------------
(* The documents *)

LEMMA KeepsItself ==
    ASSUME NEW s
    PROVE  Keeps(s, s)
BY DEF Keeps

(* The default collection, given or taken, leaves the ids as they are. *)
LEMMA SameIds ==
    ASSUME NEW s, NEW m, NEW up \in BOOLEAN, m.rows = WithCollection(up, s.rows)
    PROVE  IdsOf(m) = IdsOf(s)
<1>1. ASSUME NEW i \in IdsOf(s)
      PROVE  i \in IdsOf(m)
  <2>1. PICK row \in s.rows : i = row[2]
    BY <1>1 DEF IdsOf
  <2>2. <<IF up THEN Default ELSE NoCollection, row[2]>> \in m.rows
    BY DEF WithCollection
  <2>3. <<IF up THEN Default ELSE NoCollection, row[2]>>[2] = i
    BY <2>1
  <2> QED
    BY <2>2, <2>3 DEF IdsOf
<1>2. ASSUME NEW i \in IdsOf(m)
      PROVE  i \in IdsOf(s)
  <2>1. PICK new \in m.rows : i = new[2]
    BY <1>2 DEF IdsOf
  <2>2. PICK row \in s.rows : new = <<IF up THEN Default ELSE NoCollection, row[2]>>
    BY DEF WithCollection
  <2> QED
    BY <2>1, <2>2 DEF IdsOf
<1> QED
  BY <1>1, <1>2

(* The key of documents tells which side of migration 005 a schema is on. *)
LEMMA KeyOfVersion ==
    ASSUME NEW s \in Schema, Sound(s), "documents" \in s.tables
    PROVE  /\ s.version >= 5 => s.key = {"collection", "id"}
           /\ ~(s.version >= 5) => s.key = {"id"} /\ OneOfEachId(s)
<1>1. s.version >= 5 => s.key = {"collection", "id"}
  BY DEF Sound
<1>2. ~(s.version >= 5) => s.key = {"id"} /\ "collection" \notin s.columns
  BY DEF Sound
<1>3. ASSUME "collection" \notin s.columns, NEW r1 \in s.rows, NEW r2 \in s.rows, r1[2] = r2[2]
      PROVE  r1 = r2
  <2>1. r1[1] = NoCollection /\ r2[1] = NoCollection
    BY <1>3 DEF Sound
  <2>2. r1 \in (Collections \cup {NoCollection}) \X Ids /\ r2 \in (Collections \cup {NoCollection}) \X Ids
    BY DEF Schema
  <2>3. r1 = <<r1[1], r1[2]>> /\ r2 = <<r2[1], r2[2]>>
    BY <2>2
  <2> QED
    BY <1>3, <2>1, <2>3
<1> QED
  BY <1>1, <1>2, <1>3 DEF OneOfEachId

LEMMA KeepsMigrated ==
    ASSUME NEW s \in Schema, NEW w \in Schema, Sound(s), Sound(w), Keeps(s, w),
           NEW n \in 1..6, NEW up \in BOOLEAN,
           n = (IF up THEN w.version + 1 ELSE w.version), Possible(n, up, w),
           up => s.version <= w.version, ~up => w.version <= s.version
    PROVE  Keeps(s, Migrated(n, up, w))
<1> DEFINE m == Migrated(n, up, w)
<1>1. /\ n = 1 /\ ~up => "documents" \notin m.tables
      /\ n # 1 \/ up => ("documents" \in m.tables) = ("documents" \in w.tables)
      /\ n = 5 => /\ m.rows = WithCollection(up, w.rows)
                  /\ m.key = IF up THEN {"collection", "id"} ELSE {"id"}
      /\ n \notin {1, 5} \/ (n = 1 /\ up) => m.rows = w.rows /\ m.key = w.key
  BY MigratedRows
<1>2. s.version \in 0..6 /\ w.version \in 0..6
  BY DEF Schema, Head6
<1>3. Possible(n, up, w) /\ n = 5 /\ ~up => OneOfEachId(w)
  BY DEF Possible, OneOfEachId
<1> HIDE DEF m
<1> SUFFICES ASSUME "documents" \in m.tables, "documents" \in s.tables
             PROVE  /\ IdsOf(m) = IdsOf(s)
                    /\ s.key = m.key => m.rows = s.rows
                    /\ s.key # m.key => OneOfEachId(s)
  BY DEF Keeps, m
<1>4. "documents" \in w.tables /\ ~(n = 1 /\ ~up)
  BY <1>1
<1>5. /\ IdsOf(w) = IdsOf(s)
      /\ s.key = w.key => w.rows = s.rows
      /\ s.key # w.key => OneOfEachId(s)
  BY <1>4 DEF Keeps
<1>6. CASE n # 5
  <2>1. m.rows = w.rows /\ m.key = w.key
    BY <1>1, <1>4, <1>6
  <2> QED
    BY <1>5, <2>1 DEF IdsOf
<1>7. CASE n = 5
  <2>1. IdsOf(m) = IdsOf(w)
    BY <1>1, <1>7, SameIds
  <2>2. {"collection", "id"} # {"id"}
    OBVIOUS
  <2>3. CASE up
    <3>1. ~(w.version >= 5) /\ ~(s.version >= 5)
      BY <1>2, <1>7, <2>3
    <3>2. s.key = {"id"} /\ OneOfEachId(s) /\ m.key = {"collection", "id"}
      BY <1>1, <1>7, <2>3, <3>1, KeyOfVersion
    <3> QED
      BY <1>5, <2>1, <2>2, <3>2
  <2>4. CASE ~up
    <3>1. w.version >= 5 /\ s.version >= 5
      BY <1>2, <1>7, <2>4
    <3>2. s.key = {"collection", "id"} /\ w.key = s.key /\ m.key = {"id"}
      BY <1>1, <1>4, <1>7, <2>4, <3>1, KeyOfVersion
    <3>3. OneOfEachId(s)
      BY <1>3, <1>5, <1>7, <2>4, <3>2 DEF OneOfEachId
    <3> QED
      BY <1>5, <2>1, <2>2, <3>2, <3>3
  <2> QED
    BY <2>3, <2>4
<1> QED
  BY <1>6, <1>7

LEMMA DocsStep ==
    ASSUME Base, DocsInv, [Next]_vars
    PROVE  DocsInv'
<1> SUFFICES ASSUME cmd'.pc # "idle"
             PROVE  Keeps(db', work')
  BY DEF DocsInv, Keeps, IdsOf, OneOfEachId
<1>1. ASSUME work' = db'
      PROVE  Keeps(db', work')
  BY <1>1, KeepsItself
<1>2. ASSUME NEW dir, NEW goal, Command(dir, goal)
      PROVE  Keeps(db', work')
  BY <1>1, <1>2 DEF Command
<1>3. CASE EnterBlock \/ BeginStatement \/ EndStatement
  BY <1>1, <1>3 DEF EnterBlock, BeginStatement, EndStatement
<1>4. CASE Fault \/ Complete
  BY <1>4 DEF Fault, Abort, Complete, NoCommand
<1>5. CASE Migrate
  <2>1. Possible(Number, Up, work) /\ work' = Migrated(Number, Up, work) /\ db' = db
    BY <1>5 DEF Migrate, Abort, NoCommand
  <2>2. Number \in 1..6 /\ cmd.pc # "idle" /\ Up \in BOOLEAN
    <3>1. cmd.pc # "idle" /\ Pending
      BY <1>5 DEF Migrate, Base, GoalInv, InBlock
    <3> QED
      BY <3>1, NumberRange DEF Up
  <2>3. Number = (IF Up THEN work.version + 1 ELSE work.version)
    BY DEF Number
  <2>4. (Up => db.version <= work.version) /\ (~Up => work.version <= db.version)
    BY <2>2 DEF Base, GoalInv
  <2>5. Keeps(db, Migrated(Number, Up, work))
    <3>1. db \in Schema /\ work \in Schema /\ Sound(db) /\ Sound(work) /\ Keeps(db, work)
      BY <2>2 DEF Base, TypeInv, DocsInv
    <3> QED
      BY <2>1, <2>2, <2>3, <2>4, <3>1, KeepsMigrated
  <2> QED
    BY <2>1, <2>5
<1>6. CASE Service
  BY <1>6 DEF Service, Write, Stage, SwapAndRebuild, SwapAndKeep, DropBackup, Quiet
<1>7. CASE UNCHANGED vars
  BY <1>7 DEF vars, DocsInv
<1> QED
  BY <1>2, <1>3, <1>4, <1>5, <1>6, <1>7 DEF Next, Alembic

(* No command merges or loses a document, except with the table. *)
LEMMA AlembicKeeps ==
    ASSUME Base, DocsInv, Alembic
    PROVE  Keeps(db, db')
<1>1. ASSUME db' = db
      PROVE  Keeps(db, db')
  BY <1>1, KeepsItself
<1>2. ASSUME NEW dir, NEW goal, Command(dir, goal)
      PROVE  Keeps(db, db')
  BY <1>1, <1>2 DEF Command
<1>3. CASE Migrate \/ Fault
  BY <1>1, <1>3 DEF Migrate, Fault, Abort
<1>4. CASE Complete
  BY <1>4 DEF Complete, DocsInv
<1>5. CASE EnterBlock
  <2>1. cmd.pc = "run" /\ Keeps(db, work)
    BY <1>5 DEF EnterBlock, DocsInv
  <2>2. CASE Up /\ Number = 1 /\ "documents" \notin work.tables
    <3>1. work.version = 0
      BY <2>2 DEF Number, Base, TypeInv, Schema, Head6
    <3>2. work = db
      BY <2>1, <2>2, <3>1 DEF Base, GoalInv
    <3> QED
      BY <2>2, <3>2 DEF Keeps
  <2>3. CASE ~(Up /\ Number = 1 /\ "documents" \notin work.tables)
    <3>1. db' = work
      BY <1>5, <2>3 DEF EnterBlock, Created
    <3> QED
      BY <2>1, <3>1
  <2> QED
    BY <2>2, <2>3
<1>6. ASSUME NEW x, NEW i, db' = [db EXCEPT !.index[x] = i]
      PROVE  Keeps(db, db')
  <2>1. db'.tables = db.tables /\ db'.rows = db.rows /\ db'.key = db.key
    BY <1>6 DEF Base, TypeInv, Schema
  <2> QED
    BY <2>1 DEF Keeps, IdsOf
<1>7. CASE BeginStatement
  <2> DEFINE x == Head(cmd.todo)
  <2>1. db' = db \/ db' = [db EXCEPT !.index[x] = IF @ = "elsewhere" THEN @ ELSE "invalid"]
    BY <1>7 DEF BeginStatement
  <2> QED
    BY <1>1, <1>6, <2>1
<1>8. CASE EndStatement
  BY <1>6, <1>8 DEF EndStatement
<1> QED
  BY <1>2, <1>3, <1>4, <1>5, <1>7, <1>8 DEF Alembic

(* Upgrades and downgrades, whole, cut off or refused, keep the documents. *)
THEOREM DocumentsKept == Spec => DocumentsSurvive
<1>1. Init => DocsInv
  BY DEF Init, DocsInv, NoCommand
<1>2. Base /\ DocsInv /\ [Next]_vars => Base' /\ DocsInv'
  BY BaseStep, DocsStep
<1>3. Base /\ DocsInv /\ [Next]_vars =>
          [Alembic /\ "documents" \in db'.tables /\ "documents" \in db.tables =>
               /\ {row[2] : row \in db'.rows} = {row[2] : row \in db.rows}
               /\ db.key = db'.key => db'.rows = db.rows
               /\ db.key # db'.key => \A r1, r2 \in db.rows : r1[2] = r2[2] => r1 = r2]_vars
  BY AlembicKeeps DEF Keeps, IdsOf, OneOfEachId
<1> QED
  BY BaseInit, <1>1, <1>2, <1>3, PTL DEF Spec, DocumentsSurvive

----------------------------------------------------------------------------
(* The indexes *)

(* Between commands, and at the end of one. *)
LEMMA IdleIndexes ==
    ASSUME cmd'.pc = "idle", OnBackup(db'), work' = db',
           ~hurt' => Indexed(db', db'.version) /\ \A x \in Indexes : db'.index[x] \in {"absent", "valid"}
    PROVE  IndexInv'
BY DEF IndexInv, Indices, Emptied, OnBackup, Clean, InBlock, Indexed

LEMMA IndexCommand ==
    ASSUME Base, IndexInv, NEW dir \in {"up", "down"}, NEW goal \in 0..Head6, Command(dir, goal),
           dir = "up" => goal = Head6, dir = "down" => goal < db.version
    PROVE  IndexInv'
<1>1. /\ cmd'.pc = "run" /\ cmd'.dir = dir /\ cmd'.dropped = FALSE
      /\ db' = db /\ work' = db /\ hurt' = hurt /\ cmd.pc = "idle"
  BY DEF Command, NoCommand
<1>2. Level' = db.version
  BY <1>1 DEF Level, InBlock
<1>3. ~Up' => db.version # 0
  BY <1>1 DEF Up, Base, TypeInv, Schema, Head6
<1>4. ~hurt' => Indices'
  BY <1>1, <1>2 DEF IndexInv, Indices, Clean, Indexed, InBlock
<1> QED
  BY <1>1, <1>3, <1>4 DEF IndexInv, Emptied, OnBackup

LEMMA IndexAbort ==
    ASSUME Base, IndexInv, Abort, cmd.pc # "idle"
    PROVE  IndexInv'
<1>1. cmd'.pc = "idle" /\ db' = db /\ work' = db
  BY DEF Abort, NoCommand
<1>2. ~hurt' => ~hurt /\ cmd.pc # "statement" /\ ~cmd.dropped
  BY DEF Abort, Base, TypeInv
<1>3. ~hurt' => Indexed(db, db.version) /\ \A x \in Indexes : db.index[x] \in {"absent", "valid"}
  BY <1>2 DEF IndexInv, Indices, Clean
<1> QED
  BY <1>1, <1>3, IdleIndexes DEF IndexInv

LEMMA IndexEnterBlock ==
    ASSUME Base, IndexInv, EnterBlock
    PROVE  IndexInv'
<1>1. Number \in {1, 6} /\ Pending /\ cmd.pc = "run" /\ cmd \in CmdType /\ work \in Schema
      /\ work' = db' /\ hurt' = hurt
      /\ cmd' = [cmd EXCEPT !.pc = "block", !.todo = Block(Number, Up)]
  BY DEF EnterBlock, Base, TypeInv
<1>2. Up \in BOOLEAN
  BY DEF Up
<1>3. {Block(Number, Up)[m] : m \in 1..Len(Block(Number, Up))} = {x \in Indexes : Since[x] = Number}
      /\ Block(Number, Up) \in Seq(Indexes)
  BY <1>1, <1>2, BlockIndexes
<1>4. /\ cmd'.pc = "block" /\ cmd'.dir = cmd.dir /\ cmd'.dropped = cmd.dropped
      /\ cmd'.todo = Block(Number, Up)
  BY <1>1, <1>3 DEF CmdType
<1>5. db'.index = work.index /\ db'.version = work.version /\ db'.others = work.others
  BY <1>1 DEF EnterBlock, Created, Schema
<1>6. Up' = Up /\ Number' = Number /\ Todo' = {x \in Indexes : Since[x] = Number}
  BY <1>1, <1>3, <1>4, <1>5 DEF Up, Number, Todo
<1>7. ASSUME ~hurt'
      PROVE  Indices'
  <2>1. Indices /\ Level = work.version /\ work.version \in 0..6
    BY <1>1, <1>7 DEF IndexInv, Level, InBlock, Schema, Head6
  <2>2. Clean(db)' /\ Clean(work)'
    BY <1>1, <1>5, <2>1 DEF Indices, Clean
  <2>3. Indexed(work, work.version)
    BY <1>1, <2>1 DEF Indices
  <2>4. Level' = IF ~Up THEN work.version - 1 ELSE work.version
    BY <1>1, <1>4, <1>5, <1>6 DEF Level, InBlock
  <2>5. Indexed(work, Level)'
    BY <1>1, <1>5, <2>1, <2>3, <2>4, SinceNumbers DEF Indexed
  <2>6. Indexed(db, db.version)'
    BY <1>5, <2>3 DEF Indexed
  <2> QED
    BY <1>6, <2>2, <2>5, <2>6 DEF Indices
<1> QED
  BY <1>1, <1>4, <1>5, <1>7 DEF IndexInv, Emptied, OnBackup

LEMMA IndexBeginStatement ==
    ASSUME Base, IndexInv, BeginStatement
    PROVE  IndexInv'
<1> DEFINE x == Head(cmd.todo)
<1>1. /\ cmd.pc = "block" /\ cmd.todo # << >> /\ cmd \in CmdType /\ db \in Schema
      /\ cmd.todo \in Seq(Indexes) /\ work' = db' /\ hurt' = hurt /\ work = db
  BY DEF BeginStatement, Base, TypeInv, CmdType, GoalInv, InBlock
<1>2. x \in Indexes /\ x \in Todo /\ Tail(cmd.todo) \in Seq(Indexes)
      /\ Todo = {x} \cup {Tail(cmd.todo)[m] : m \in 1..Len(Tail(cmd.todo))}
  BY <1>1, HeadAndTail DEF Todo
<1>3. Since[x] = Number /\ work.version \in 0..6 /\ db.version = work.version
      /\ \A y \in Indexes : Since[y] \in 1..6
  BY <1>1, <1>2, SinceNumbers DEF Base, GoalInv, InBlock, Schema, Head6
<1> HIDE DEF x
<1>4. CASE Up # (db.index[x] = "absent")
  <2>1. cmd' = [cmd EXCEPT !.todo = Tail(@)] /\ db' = db
    BY <1>4 DEF BeginStatement, x
  <2>2. /\ cmd'.pc = "block" /\ cmd'.dir = cmd.dir /\ cmd'.dropped = cmd.dropped
        /\ Todo = {x} \cup Todo'
    BY <1>1, <1>2, <2>1 DEF CmdType, Todo
  <2>3. Up' = Up /\ Number' = Number /\ Level' = Level /\ Pending' = Pending
    BY <1>1, <2>1, <2>2 DEF Up, Number, Level, InBlock, Pending
  <2>4. ASSUME ~hurt'
        PROVE  Indices'
    <3>1. Indices
      BY <1>1, <2>4 DEF IndexInv
    <3>2. Up => db.index[x] = "valid"
      BY <1>1, <1>2, <1>4, <3>1 DEF Indices, Clean
    <3>3. Clean(db)' /\ Clean(work)'
      BY <1>1, <2>1, <3>1 DEF Indices, Clean
    <3>4. Indexed(work, Level)' /\ ((Up \/ ~cmd.dropped)' => Indexed(db, db.version)')
      BY <1>1, <2>1, <2>2, <2>3, <3>1 DEF Indices, Indexed
    <3>5. Up' => \A y \in Indexes : Since[y] = Number' => y \in Todo' \/ db'.index[y] = "valid"
      BY <1>1, <2>1, <2>2, <2>3, <3>1, <3>2 DEF Indices, InBlock
    <3> QED
      BY <2>2, <3>3, <3>4, <3>5 DEF Indices
  <2> QED
    BY <1>1, <2>1, <2>2, <2>4 DEF IndexInv, Emptied
<1>5. CASE Up = (db.index[x] = "absent")
  <2>1. /\ cmd' = [cmd EXCEPT !.pc = "statement", !.dropped = ~Up]
        /\ db' = [db EXCEPT !.index[x] = IF @ = "elsewhere" THEN @ ELSE "invalid"]
    BY <1>5 DEF BeginStatement, x, Up
  <2>2. /\ cmd'.pc = "statement" /\ cmd'.dir = cmd.dir /\ cmd'.dropped = ~Up
        /\ cmd'.todo = cmd.todo
    BY <1>1, <2>1 DEF CmdType
  <2>3. /\ db'.version = db.version /\ db'.others = db.others
        /\ \A y \in Indexes \ {x} : db'.index[y] = db.index[y]
        /\ db'.index[x] # "elsewhere" \/ db'.index[x] = db.index[x]
    BY <1>1, <1>2, <2>1 DEF Schema
  <2>4. Up' = Up /\ Number' = Number /\ Level' = Level /\ Todo' = Todo
    BY <1>1, <2>1, <2>2, <2>3 DEF Up, Number, Level, InBlock, Todo
  <2>5. ASSUME ~hurt'
        PROVE  Indices'
    <3>1. Indices
      BY <1>1, <2>5 DEF IndexInv
    <3>2. Clean(db)' /\ Clean(work)'
      BY <1>1, <2>2, <2>3, <3>1 DEF Indices, Clean, x
    <3>3. Indexed(db, Level) /\ Level < Number /\ Level \in Nat /\ Number \in Nat
      <4>1. Indexed(db, Level)
        BY <1>1, <3>1 DEF Indices
      <4>2. CASE Up
        BY <1>1, <1>3, <4>1, <4>2 DEF Level, Number, InBlock
      <4>3. CASE ~Up
        <5>1. Level = work.version - 1 /\ Number = work.version
          BY <1>1, <4>3 DEF Level, Number, InBlock
        <5>2. work.version \in 1..6
          BY <1>2, <1>3, <5>1
        <5> QED
          BY <4>1, <5>1, <5>2
      <4> QED
        BY <4>2, <4>3
    <3>4. Indexed(work, Level)'
      <4>1. ASSUME NEW y \in Indexes, Since[y] <= Level
            PROVE  db'.index[y] = "valid"
        BY <1>3, <2>3, <3>3, <4>1 DEF Indexed
      <4> QED
        BY <1>1, <2>4, <4>1 DEF Indexed
    <3>5. Up => Level = db.version
      BY <1>1 DEF Level, InBlock
    <3>6. (Up \/ ~cmd.dropped)' => Indexed(db, db.version)'
      BY <1>1, <2>2, <2>3, <2>4, <3>4, <3>5 DEF Indexed
    <3>7. Up' => \A y \in Indexes : Since[y] = Number' => y \in Todo' \/ db'.index[y] = "valid"
      BY <1>1, <1>2, <2>3, <2>4, <3>1 DEF Indices, InBlock
    <3> QED
      BY <2>2, <3>2, <3>4, <3>6, <3>7 DEF Indices
  <2>6. OnBackup(db)'
    BY <1>1, <2>3 DEF IndexInv, OnBackup
  <2> QED
    BY <1>1, <2>2, <2>4, <2>5, <2>6 DEF IndexInv, Emptied, OnBackup
<1> QED
  BY <1>4, <1>5 DEF Up

LEMMA IndexEndStatement ==
    ASSUME Base, IndexInv, EndStatement
    PROVE  IndexInv'
<1> DEFINE x == Head(cmd.todo)
<1>1. /\ cmd.pc = "statement" /\ cmd.todo # << >> /\ cmd \in CmdType /\ db \in Schema
      /\ cmd.todo \in Seq(Indexes) /\ work' = db' /\ hurt' = hurt /\ work = db
      /\ cmd' = [cmd EXCEPT !.pc = "block", !.todo = Tail(@)]
      /\ db' = [db EXCEPT !.index[x] = IF Up THEN "valid" ELSE "absent"]
  BY DEF EndStatement, Base, TypeInv, CmdType, GoalInv, InBlock
<1>2. x \in Indexes /\ x \in Todo /\ Tail(cmd.todo) \in Seq(Indexes)
      /\ Todo = {x} \cup {Tail(cmd.todo)[m] : m \in 1..Len(Tail(cmd.todo))}
  BY <1>1, HeadAndTail DEF Todo
<1>3. Since[x] = Number /\ work.version \in 0..6 /\ db.version = work.version
      /\ \A y \in Indexes : Since[y] \in 1..6
  BY <1>1, <1>2, SinceNumbers DEF Base, GoalInv, InBlock, Schema, Head6
<1>4. cmd.dropped = ~Up
  BY <1>1 DEF IndexInv
<1>5. /\ cmd'.pc = "block" /\ cmd'.dir = cmd.dir /\ cmd'.dropped = cmd.dropped
      /\ Todo = {x} \cup Todo'
  BY <1>1, <1>2 DEF CmdType, Todo
<1>6. ASSUME ~hurt
      PROVE  \A y \in Indexes \ {x} : db.index[y] \in {"absent", "valid"}
  BY <1>1, <1>6 DEF IndexInv, Indices, Clean
<1> HIDE DEF x
<1>7. /\ db'.version = db.version /\ db'.others = db.others
      /\ \A y \in Indexes \ {x} : db'.index[y] = db.index[y]
      /\ db'.index[x] = IF Up THEN "valid" ELSE "absent"
  BY <1>1, <1>2 DEF Schema
<1>8. Up' = Up /\ Number' = Number /\ Level' = Level
  BY <1>1, <1>5, <1>7 DEF Up, Number, Level, InBlock
<1>9. ASSUME ~hurt'
      PROVE  Indices'
  <2>1. Indices
    BY <1>1, <1>9 DEF IndexInv
  <2>2. Clean(db)' /\ Clean(work)'
    BY <1>1, <1>6, <1>7, <1>9 DEF Clean
  <2>3. Indexed(db, Level) /\ Level < Number /\ Level \in Nat /\ Number \in Nat
    <3>1. Indexed(db, Level)
      BY <1>1, <2>1 DEF Indices
    <3>2. CASE Up
      BY <1>1, <1>3, <3>1, <3>2 DEF Level, Number, InBlock
    <3>3. CASE ~Up
      <4>1. Level = work.version - 1 /\ Number = work.version
        BY <1>1, <3>3 DEF Level, Number, InBlock
      <4>2. work.version \in 1..6
        BY <1>2, <1>3, <4>1
      <4> QED
        BY <3>1, <4>1, <4>2
    <3> QED
      BY <3>2, <3>3
  <2>4. Indexed(work, Level)'
    <3>1. ASSUME NEW y \in Indexes, Since[y] <= Level
          PROVE  db'.index[y] = "valid"
      BY <1>3, <1>7, <2>3, <3>1 DEF Indexed
    <3> QED
      BY <1>1, <1>8, <3>1 DEF Indexed
  <2>5. Up => Level = db.version
    BY <1>1 DEF Level, InBlock
  <2>6. (Up \/ ~cmd.dropped)' => Indexed(db, db.version)'
    BY <1>1, <1>4, <1>5, <1>7, <1>8, <2>4, <2>5 DEF Indexed
  <2>7. Up' => \A y \in Indexes : Since[y] = Number' => y \in Todo' \/ db'.index[y] = "valid"
    BY <1>1, <1>5, <1>7, <1>8, <2>1 DEF Indices, InBlock
  <2> QED
    BY <1>5, <2>2, <2>4, <2>6, <2>7 DEF Indices
<1>10. OnBackup(db)'
  BY <1>1, <1>7 DEF IndexInv, OnBackup
<1> QED
  BY <1>1, <1>5, <1>9, <1>10 DEF IndexInv, Emptied, OnBackup

LEMMA IndexMigrate ==
    ASSUME Base, IndexInv, Migrate
    PROVE  IndexInv'
<1> DEFINE n == Number
           m == Migrated(Number, Up, work)
<1>1. cmd.pc \in {"run", "block"} /\ Pending /\ Up \in BOOLEAN /\ cmd \in CmdType
  BY DEF Migrate, Base, GoalInv, InBlock, Up, TypeInv
<1>2. n \in 1..6 /\ work.version \in 0..6
  BY <1>1, NumberRange
<1>3. CASE ~Possible(Number, Up, work)
  BY <1>1, <1>3, IndexAbort DEF Migrate
<1>4. CASE Possible(Number, Up, work)
  <2>1. work' = m /\ cmd' = [cmd EXCEPT !.pc = "run"] /\ db' = db /\ hurt' = hurt
    BY <1>4 DEF Migrate
  <2>2. cmd'.pc = "run" /\ cmd'.dir = cmd.dir /\ cmd'.dropped = cmd.dropped /\ Up' = Up
    BY <1>1, <2>1 DEF CmdType, Up
  <2>3. work \in Schema /\ OnBackup(work)
    BY DEF Base, TypeInv, IndexInv
  <2>4. m.version = (IF Up THEN n ELSE n - 1) /\ m.others = work.others
    BY <1>1, <1>2, <2>3, MigratedType
  <2>5. \A x \in Indexes :
            /\ n \notin {1, 4} \/ (n = 1 /\ Up) \/ (n = 4 /\ x # "metadata") =>
                  m.index[x] = work.index[x]
            /\ n = 1 /\ ~Up => m.index[x] = Gone(work.index)[x]
            /\ n = 4 /\ x = "metadata" => m.index[x] = IF Up THEN "valid" ELSE "absent"
    BY <1>1, <1>2, <2>3, MigratedIndexes
  <2>6. n = 1 /\ ~Up => \A x \in Indexes : m.index[x] = "absent"
    <3>1. n = 1 /\ ~Up => work.others = {}
      BY <1>4 DEF Possible
    <3> QED
      BY <2>3, <2>5, <3>1 DEF OnBackup, Gone
  <2>7. n = (IF Up THEN work.version + 1 ELSE work.version)
    BY DEF Number
  <2> HIDE DEF n, m
  <2>8. Emptied'
    <3>1. ~Up /\ m.version = 0 => n = 1
      BY <1>2, <2>4
    <3> QED
      BY <2>1, <2>2, <2>6, <3>1 DEF Emptied
  <2>9. OnBackup(work')
    BY <1>1, <1>2, <2>1, <2>3, <2>4, <2>5, <2>6 DEF OnBackup
  <2>10. ASSUME ~hurt'
         PROVE  Indices'
    <3>1. Indices
      BY <2>1, <2>10 DEF IndexInv
    <3>2. \A x \in Indexes : db.index[x] \in {"absent", "valid"} /\ work.index[x] \in {"absent", "valid"}
      BY <1>1, <3>1 DEF Indices, Clean
    <3>3. \A x \in Indexes : m.index[x] \in {"absent", "valid"}
      BY <1>1, <1>2, <2>5, <2>6, <3>2
    <3>4. Clean(db)' /\ Clean(work)'
      BY <2>1, <3>2, <3>3 DEF Clean
    <3>5. Level' = m.version
      BY <2>1, <2>2 DEF Level, InBlock
    <3>6. Indexed(work, Level)
      BY <1>1, <3>1 DEF Indices
    <3>7. ASSUME NEW x \in Indexes, Since[x] <= m.version
          PROVE  m.index[x] = "valid"
      <4>1. Since[x] \in 1..6 /\ (x = "metadata" => Since[x] = 4) /\ (x # "metadata" => Since[x] \in {1, 6})
        BY IndexNames, SinceNumbers
      <4>2. CASE Up /\ Since[x] = n
        <5>1. n = 4 => x = "metadata"
          BY <4>1, <4>2
        <5>2. CASE n = 4
          BY <2>5, <4>2, <5>1, <5>2
        <5>3. CASE n \in {1, 6}
          <6>1. cmd.pc = "block" /\ Todo = {} /\ work = db
            BY <1>1, <5>3 DEF Migrate, n, Base, GoalInv, InBlock, Todo
          <6>2. db.index[x] = "valid"
            BY <4>2, <6>1, <3>1 DEF Indices, InBlock, n
          <6> QED
            BY <2>5, <4>2, <5>3, <6>1, <6>2
        <5> QED
          BY <4>1, <4>2, <5>2, <5>3
      <4>3. CASE Up /\ Since[x] # n
        <5>1. Level = work.version
          BY <4>3 DEF Level
        <5>2. work.index[x] = "valid"
          BY <1>2, <2>4, <2>7, <3>6, <3>7, <4>1, <4>3, <5>1 DEF Indexed
        <5>3. ~(n = 4 /\ x = "metadata")
          BY <4>1, <4>3
        <5> QED
          BY <2>5, <4>3, <5>2, <5>3
      <4>4. CASE ~Up
        <5>1. Since[x] <= n - 1 /\ n # 1
          BY <1>2, <2>4, <3>7, <4>1, <4>4
        <5>2. Level = work.version \/ Level = work.version - 1
          BY DEF Level
        <5>3. work.index[x] = "valid"
          BY <1>2, <2>7, <3>6, <4>1, <4>4, <5>1, <5>2 DEF Indexed
        <5>4. ~(n = 4 /\ x = "metadata")
          BY <4>1, <5>1
        <5> QED
          BY <2>5, <5>1, <5>3, <5>4
      <4> QED
        BY <1>1, <4>2, <4>3, <4>4
    <3>8. Indexed(work, Level)'
      BY <2>1, <3>5, <3>7 DEF Indexed
    <3>9. (Up \/ ~cmd.dropped)' => Indexed(db, db.version)'
      BY <2>1, <2>2, <3>1 DEF Indices, Indexed
    <3> QED
      BY <2>2, <3>4, <3>8, <3>9 DEF Indices, InBlock
  <2> QED
    BY <2>1, <2>2, <2>8, <2>9, <2>10 DEF IndexInv, OnBackup
<1> QED
  BY <1>3, <1>4

LEMMA IndexComplete ==
    ASSUME Base, IndexInv, Complete
    PROVE  IndexInv'
<1>1. cmd'.pc = "idle" /\ db' = work /\ work' = work /\ cmd.pc = "run" /\ ~Pending
  BY DEF Complete, NoCommand
<1>2. ASSUME ~hurt
      PROVE  Indexed(work, work.version) /\ \A x \in Indexes : work.index[x] \in {"absent", "valid"}
  <2>1. Level = work.version
    BY <1>1 DEF Level, InBlock
  <2> QED
    BY <1>1, <1>2, <2>1 DEF IndexInv, Indices, Clean
<1>3. ASSUME hurt, ~hurt'
      PROVE  Indexed(work, work.version) /\ \A x \in Indexes : work.index[x] \in {"absent", "valid"}
  <2>1. work.version = 0
    BY <1>3 DEF Complete
  <2>2. ~Up
    BY <1>1, <2>1 DEF Pending, Base, GoalInv, Head6
  <2> QED
    BY <1>1, <2>1, <2>2, SinceNumbers DEF IndexInv, Emptied, Indexed
<1>4. OnBackup(db')
  BY <1>1 DEF IndexInv
<1> QED
  BY <1>1, <1>2, <1>3, <1>4, IdleIndexes

LEMMA IndexService ==
    ASSUME Base, IndexInv, Service
    PROVE  IndexInv'
<1>1. db \in Schema /\ OnBackup(db)
  BY DEF Base, TypeInv, IndexInv
<1>2. ASSUME cmd.pc = "idle", cmd' = cmd, work' = db', hurt' = hurt,
             db'.index = db.index, db'.version = db.version, db.others \subseteq db'.others
      PROVE  IndexInv'
  <2>1. ~hurt => Indexed(db, db.version) /\ \A x \in Indexes : db.index[x] \in {"absent", "valid"}
    BY <1>2 DEF IndexInv, Indices, Clean
  <2> QED
    BY <1>1, <1>2, <2>1, IdleIndexes DEF Indexed, OnBackup
<1>3. ASSUME NEW c \in Collections, NEW i \in Ids, Write(c, i)
      PROVE  IndexInv'
  <2> DEFINE row == <<IF "collection" \in db.columns THEN c ELSE NoCollection, i>>
  <2>1. db' = [db EXCEPT !.rows = @ \cup {row}] /\ cmd.pc = "idle" /\ cmd' = cmd /\ work' = db'
        /\ hurt' = hurt
    BY <1>3 DEF Write, Quiet
  <2> HIDE DEF row
  <2>2. db'.index = db.index /\ db'.version = db.version /\ db'.others = db.others
    BY <1>1, <2>1 DEF Schema
  <2> QED
    BY <1>2, <2>1, <2>2
<1>4. CASE Stage
  BY <1>1, <1>2, <1>4 DEF Stage, Quiet, Schema
<1>5. CASE SwapAndRebuild
  <2>1. PICK n \in 0..Len(Rebuilt), cut \in {"absent", "invalid"},
             rows \in SUBSET (Collections \X Ids) :
          /\ db' = [db EXCEPT !.others = {}, !.rows = rows,
                              !.index = [x \in Indexes |->
                                           IF x \in {Rebuilt[m] : m \in 1..n} THEN "valid"
                                           ELSE IF x = Rebuilt[n + 1] THEN cut ELSE "absent"]]
          /\ hurt' = (n < Len(Rebuilt))
    BY <1>5, Zenon DEF SwapAndRebuild
  <2>2. cmd.pc = "idle" /\ cmd' = cmd /\ work' = db'
    BY <1>5 DEF SwapAndRebuild, Quiet
  <2> DEFINE index == [x \in Indexes |-> IF x \in {Rebuilt[m] : m \in 1..n} THEN "valid"
                                         ELSE IF x = Rebuilt[n + 1] THEN cut ELSE "absent"]
  <2>3. \A x \in Indexes : index[x] # "elsewhere"
    OBVIOUS
  <2>4. ~hurt' => \A x \in Indexes : index[x] = "valid"
    <3>1. Len(Rebuilt) \in Nat
      BY DEF Rebuilt
    <3>2. n < Len(Rebuilt) \/ n = Len(Rebuilt)
      BY <3>1
    <3>3. ~hurt' => n = Len(Rebuilt)
      BY <2>1, <3>2, Zenon
    <3> QED
      BY <3>3 DEF Indexes
  <2>5. db' = [db EXCEPT !.others = {}, !.rows = rows, !.index = index]
    BY <2>1
  <2> HIDE DEF index
  <2>6. db'.index = index
    BY <1>1, <2>5 DEF Schema
  <2> QED
    BY <2>2, <2>3, <2>4, <2>6, IdleIndexes DEF Indexed, OnBackup
<1>6. CASE SwapAndKeep
  <2>1. cmd.pc = "idle" /\ cmd' = cmd /\ work' = db' /\ hurt' = TRUE /\ db'.others = {"backup"}
    BY <1>1, <1>6 DEF SwapAndKeep, Quiet, Schema
  <2> QED
    BY <2>1, IdleIndexes DEF OnBackup
<1>7. CASE DropBackup
  <2>1. cmd.pc = "idle" /\ cmd' = cmd /\ work' = db' /\ hurt' = hurt
    BY <1>7 DEF DropBackup, Quiet
  <2>2. /\ db'.version = db.version
        /\ \A x \in Indexes : db'.index[x] = IF db.index[x] = "elsewhere" THEN "absent" ELSE db.index[x]
    BY <1>1, <1>7 DEF DropBackup, Schema
  <2>3. ~hurt => Indexed(db, db.version) /\ \A x \in Indexes : db.index[x] \in {"absent", "valid"}
    BY <1>7 DEF IndexInv, Indices, Clean, DropBackup, Quiet
  <2> QED
    BY <2>1, <2>2, <2>3, IdleIndexes DEF Indexed, OnBackup
<1> QED
  BY <1>3, <1>4, <1>5, <1>6, <1>7 DEF Service

LEMMA IndexStep ==
    ASSUME Base, IndexInv, [Next]_vars
    PROVE  IndexInv'
<1>1. CASE Command("up", Head6)
  BY <1>1, IndexCommand DEF Head6
<1>2. ASSUME NEW goal \in 0..Head6, goal < db.version, Command("down", goal)
      PROVE  IndexInv'
  BY <1>2, IndexCommand
<1>3. CASE EnterBlock \/ BeginStatement \/ EndStatement \/ Migrate \/ Complete
  BY <1>3, IndexEnterBlock, IndexBeginStatement, IndexEndStatement, IndexMigrate, IndexComplete
<1>4. CASE Fault
  BY <1>4, IndexAbort DEF Fault
<1>5. CASE Service
  BY <1>5, IndexService
<1>6. CASE UNCHANGED vars
  BY <1>6 DEF vars, IndexInv, Indices, Emptied, OnBackup, Clean, Indexed, Level, InBlock, Up, Todo,
              Number
<1> QED
  BY <1>1, <1>2, <1>3, <1>4, <1>5, <1>6 DEF Next, Alembic

(* Only a build that was cut off, or an index dropped in vain, leaves the  *)
(* table without an index of its version.                                  *)
THEOREM IndexesKept == Spec => []IndexesAreThere
<1>1. Init => IndexInv
  <2>1. \A x \in Indexes : NoSchema.index[x] = "absent"
    BY DEF NoSchema
  <2>2. NoSchema.version = 0 /\ \A x \in Indexes : ~(Since[x] <= 0)
    BY SinceNumbers DEF NoSchema
  <2> QED
    BY <2>1, <2>2 DEF Init, NoCommand, IndexInv, Indices, Emptied, OnBackup, Clean, Indexed, InBlock
<1>2. Base /\ IndexInv /\ [Next]_vars => Base' /\ IndexInv'
  BY BaseStep, IndexStep
<1>3. IndexInv => IndexesAreThere
  BY DEF IndexInv, Indices, Indexed, IndexesAreThere, Quiet
<1> QED
  BY BaseInit, <1>1, <1>2, <1>3, PTL DEF Spec
=============================================================================
