\* Modes, groups and categories change while a comment refers to them, by the
\* review API alone or next to an unlocked writer.
SPECIFICATION PartSpec
CONSTANTS
  Managers = {m}
  Participants = {p, q}
  Groups = {g}
  Categories = {k}
  Columns = {c1}
  UnlockedWriters = {explorer}
  MaxVersion = 5
  MaxComments = 1
  MaxStamp = 0
  None = None
INVARIANTS CommentsKeepTheirReferences
PROPERTIES UngroupedStayHidden
SYMMETRY ParticipantSymmetry
CONSTRAINT NotOverwritten
