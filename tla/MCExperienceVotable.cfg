\* One experience submitted by the iOS app is enough.
CONSTANTS
  Workers = {w1}
  Ids = {i1}
  Contents = {c1}
  NoDoc = NoDoc
  NoField = NoField
  MaxSubmissions = 1
  MaxVotes = 1
SYMMETRY Symmetry
SPECIFICATION Spec
INVARIANT
  ExperiencesVotable
CHECK_DEADLOCK FALSE
