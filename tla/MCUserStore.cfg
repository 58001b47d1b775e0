\* Two users and three workers: two opposite requests and a third one of
\* either kind can overlap on the pair, next to two late registrations.
CONSTANTS
  NoField = NoField
  u1 = u1
  u2 = u2
  Uuids = {u1, u2}
  Workers = {w1, w2, w3}
  Names = {n1}
  Pairs <- OnePair
SYMMETRY Symmetry
SPECIFICATION Spec
INVARIANTS
  TypeOK
  SettledSymmetric
  UniqueUnlessRaced
PROPERTIES
  ProfilesKept
  OutSpec
  InSpec
