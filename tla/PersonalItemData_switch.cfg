\* Does what one identity writes stay out of the record of another?
SPECIFICATION PartSpec
CONSTANTS
  i1 = i1
  i2 = i2
  r1 = r1
  r2 = r2
  Identities <- BothIdentities
  Rows <- BothRows
  MaxEdits = 2
  MaxNews = 1
  MaxChanges = 3
  MaxRows = 1
  Faults = {"network", "expiry"}
  None = None
INVARIANTS RowsStayWithTheirAuthor
CHECK_DEADLOCK FALSE
