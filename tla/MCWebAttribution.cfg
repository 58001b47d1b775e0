\* One worker is enough: two people share its session.
CONSTANTS
  Browsers = {b1, b2}
  Workers = {w1}
  People = {p1, p2}
  Nobody = Nobody
SYMMETRY Symmetry
SPECIFICATION Spec
INVARIANT
  Attribution
