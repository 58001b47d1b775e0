\* Two workers; one reader that can follow two authors; two posts.
CONSTANTS
  NoField = NoField
  u1 = u1
  u2 = u2
  Uuids = {u1, u2}
  Workers = {w1, w2}
  Names = {n1}
  Pairs <- Readers
  MaxPosts = 2
SYMMETRY Symmetry
VIEW View
SPECIFICATION FeedSpec
INVARIANTS
  FeedTypeOK
  AuthorNamed
  TimelineExact
