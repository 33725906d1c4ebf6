\* Bounds: see the README, section on Ingestion.
CONSTANTS
  Jobs = {j1, j2}
  Kinds = {"SEED", "RESEED", "script", "replace", "upsert", "dry run", "load",
           "load upsert", "dump"}
  PageRows <- TwoPages
  RowsPerChunk = 2
  Files <- SomeFiles
  ImportChunk = 2
  GenerateIds = TRUE
  DefaultCollection = 1
  Before <- AnyTable
  DropBackup = TRUE
  Overlap = TRUE
  MaxFaults = 0
  MaxInterrupts = 1
  Backend = "bm25"
  EnableRerank = TRUE
  UseRedis = TRUE
SPECIFICATION ReadySpec
CHECK_DEADLOCK FALSE
SYMMETRY Symmetry
INVARIANTS
  ReadyTypeOK
  ImportAccepts
  QuietMeansSearchable
  ReadyIsRight
PROPERTIES
  ReplaceIsWhole
  DumpIsLive
