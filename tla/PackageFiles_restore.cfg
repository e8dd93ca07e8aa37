SPECIFICATION Spec
CONSTANTS
  Requests = {r1, r2}
  Names = {a}
  Indexes = {x, y}
  MaxFiles = 2
  MaxSnapshots = 1
  Faults = {}
  None = None
PROPERTIES RestoresAreNotPartial
CHECK_DEADLOCK FALSE
