\* One page, another editor and a network that fails.
SPECIFICATION FairSpec
CONSTANTS
  MaxEdits = 3
  MaxVersion = 5
  Faults = {"network"}
  None = None
INVARIANTS EditsAreNotLostSilently NothingUnsentWhenLeaving ShownIsTheDraft
PROPERTIES OperationsEnd EditsAreSentOrReported
CHECK_DEADLOCK FALSE
