\* Bounds: see the README, section on SeedTasks.
CONSTANTS
  Instances = {i1, i2}
  Requests = {r1, r2}
  Ops = {"SEED"}
  NPages = 1
  UseRedis = TRUE
  MaxShutdowns = 1
  MaxCrashes = 0
  MaxExpiries = 0
  MaxFaults = 0
  None = None
SPECIFICATION Spec
CHECK_DEADLOCK FALSE
PROPERTIES
  OnlyOwnerReleases
