SPECIFICATION FairSpec
CONSTANTS
  RowHeight = 4
  Height = 6
  Bounce = 3
  MaxSearches = 2
  MaxResults = 4
INVARIANTS
  TypeOK
  CellsMatch
  AtMostOnePlays
PROPERTY
  SearchShown
CHECK_DEADLOCK FALSE
