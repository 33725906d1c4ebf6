\* Bounds: see the README, section on SeedTasks.
CONSTANTS
  Instances = {i1}
  Requests = {r1, r2}
  Ops = {"SEED", "RESEED"}
  NPages = 1
  UseRedis = TRUE
  MaxShutdowns = 1
  MaxCrashes = 0
  MaxExpiries = 0
  MaxFaults = 1
  None = None
SPECIFICATION FairSpec
CHECK_DEADLOCK FALSE
PROPERTIES
  EveryRequestEnds
  LockFreed
