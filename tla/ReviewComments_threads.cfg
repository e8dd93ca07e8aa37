\* Replies to replies, deletions and votes, with a manager who participates.
SPECIFICATION ReadySpec
CONSTANTS
  Managers = {m}
  Participants = {m, p}
  Groups = {g}
  Categories = {}
  Columns = {c1}
  UnlockedWriters = {}
  MaxVersion = 2
  MaxComments = 3
  MaxStamp = 0
  None = None
INVARIANTS ThreadsHoldTogether VotesStand
