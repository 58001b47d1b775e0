\* Two workers vote on the one document.
CONSTANTS
  Workers = {w1, w2}
  Ids = {i1}
  Contents = {c1}
  NoDoc = NoDoc
  NoField = NoField
  MaxSubmissions = 1
  MaxVotes = 2
SYMMETRY Symmetry
SPECIFICATION Spec
PROPERTY
  VoteAddsOne
CHECK_DEADLOCK FALSE
