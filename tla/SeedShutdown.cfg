\* A shutdown and a lock that expires under its owner: see the README,
\* section Runs.
CONSTANTS
  Instances = {i1, i2}
  Requests = {r1, r2}
  Ops = {"SEED", "RESEED"}
  NPages = 2
  UseRedis = TRUE
  MaxShutdowns = 1
  MaxCrashes = 0
  MaxExpiries = 1
  MaxFaults = 0
  None = None
SPECIFICATION Spec
CHECK_DEADLOCK FALSE
SYMMETRY Symmetry
INVARIANTS
  CheckpointSound
  CompletedMeansAll
PROPERTIES
  KeepsCheckpoints
