\* Two workers, one id that every submission of a collection draws, three votes
\* and those in flight when the third is written.
CONSTANTS
  Workers = {w1, w2}
  Ids = {i1}
  Contents = {c1, c2}
  NoDoc = NoDoc
  NoField = NoField
  MaxSubmissions = 2
  MaxVotes = 3
SYMMETRY Symmetry
SPECIFICATION Spec
INVARIANTS
  TypeOK
  CountBounds
  ExactUnlessOverlapped
PROPERTIES
  ContentKept
CHECK_DEADLOCK FALSE
