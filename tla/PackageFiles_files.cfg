SPECIFICATION Spec
CONSTANTS
  Requests = {r1, r2}
  Names = {a, b}
  Indexes = {x}
  MaxFiles = 3
  MaxSnapshots = 1
  Faults = {"crash", "disk"}
  None = None
SYMMETRY Symmetry
INVARIANTS UploadedRowsHaveTheirFile NothingIsLeftBehind SnapshotsKeepTheirFiles ChecksumsAreTrue
CHECK_DEADLOCK FALSE
CONSTRAINT QuietAfterAccidents
