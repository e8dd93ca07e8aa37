\* Two identities and two rows, network faults or other tabs that sign in and out.
SPECIFICATION PartSpec
CONSTANTS
  i1 = i1
  i2 = i2
  r1 = r1
  r2 = r2
  Identities <- BothIdentities
  Rows <- BothRows
  MaxEdits = 2
  MaxNews = 1
  MaxChanges = 3
  MaxRows = 1
  Faults = {"network", "expiry"}
  None = None
INVARIANTS TypeOK UnsavedEditsAreKept ShownIsStored RowsCrossOnlyBetweenSessions
PROPERTIES WaitingEnds QueueIsSentOrReported
CHECK_DEADLOCK FALSE
