\* Three requests in two processes, of which one may be killed and one
\* statement may fail: see the README, section Runs.
CONSTANTS
  Instances = {i1, i2}
  Requests = {r1, r2, r3}
  Ops = {"SEED"}
  NPages = 1
  UseRedis = TRUE
  MaxShutdowns = 0
  MaxCrashes = 1
  MaxExpiries = 0
  MaxFaults = 1
  None = None
SPECIFICATION Spec
CHECK_DEADLOCK FALSE
SYMMETRY Symmetry
INVARIANTS
  TypeOK
  AtMostOneRun
  RunningRowHasRun
