\* Bounds: see the README, section on Ingestion.
CONSTANTS
  Jobs = {j1, j2, j3}
  Kinds = {"SEED", "RESEED", "replace", "load", "dump", "script"}
  PageRows <- ThreePages
  RowsPerChunk = 2
  Files <- TaskFiles
  ImportChunk = 2
  GenerateIds = TRUE
  DefaultCollection = 1
  Before <- AnyTable
  DropBackup = TRUE
  Overlap = FALSE
  MaxFaults = 1
  MaxInterrupts = 2
SPECIFICATION Spec
CHECK_DEADLOCK FALSE
SYMMETRY Symmetry
PROPERTIES
  ReseedIsWhole
  CompletedIsLoaded
  KeepsSnapshots
