\* Two managers check and configure while the package changes.
SPECIFICATION Spec
CONSTANTS
  Managers = {m, n}
  Participants = {}
  Groups = {}
  Categories = {}
  Columns = {c1}
  UnlockedWriters = {}
  MaxVersion = 4
  MaxComments = 0
  MaxStamp = 1
  None = None
INVARIANTS ReadinessIsCurrent
PROPERTIES ActivationFollowsACheck
