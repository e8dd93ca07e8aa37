\* The item list of a package; the collections of one identity.
SPECIFICATION SpecPart
SYMMETRY Same
CONSTANTS
  c1 = c1
  c2 = c2
  Clients <- TwoClients
  Files <- TwoFiles
  Holds <- TwoItems
  Parts <- OnePart
  Budgets <- SomeBudgets
  MaxLists = 1
  MaxCreated = 2
  MaxVersion = 3
  Loads = {1}
  Rows = {r1}
  None = None
  Unset = Unset
INVARIANTS
  CatalogueTypeOK ListsShowThePackage NumbersAreOfOneMoment DraftRowsStayUnnumbered
  NothingAnsweredIsLost
PROPERTIES RenumberingCountsThePackage ChangesAreInformed
CHECK_DEADLOCK FALSE
