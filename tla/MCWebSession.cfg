\* Two people, three browsers and two workers: each can meet the session of
\* another on either worker, and be alone on the one beside two that share the
\* other.
CONSTANTS
  Browsers = {b1, b2, b3}
  Workers = {w1, w2}
  People = {p1, p2}
  Nobody = Nobody
SYMMETRY Symmetry
SPECIFICATION Spec
INVARIANTS
  TypeOK
  NamesHaveAccounts
  AttributionUnlessShared
PROPERTY
  SignedUpOnce
