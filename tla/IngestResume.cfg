\* Bounds: see the README, section on Ingestion.
CONSTANTS
  Jobs = {j1, j2, j3}
  Kinds = {"RESEED", "replace"}
  PageRows <- ThreePages
  RowsPerChunk = 2
  Files <- ResumeFiles
  ImportChunk = 2
  GenerateIds = TRUE
  DefaultCollection = 1
  Before <- OldTable
  DropBackup = TRUE
  Overlap = FALSE
  MaxFaults = 0
  MaxInterrupts = 1
SPECIFICATION Spec
CHECK_DEADLOCK FALSE
SYMMETRY Symmetry
PROPERTIES
  ReseedPublishesAll
