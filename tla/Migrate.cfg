\* Bounds: see the README, section on Migrations.
CONSTANTS
  Collections = {c1, c2}
  Default = c1
  Ids = {d1, d2}
  MaxCommands = 4
  MaxFaults = 2
SPECIFICATION Spec
CHECK_DEADLOCK FALSE
INVARIANTS
  TypeOK
  SchemaIsVersion
  IndexesAreThere
PROPERTIES
  DocumentsSurvive
