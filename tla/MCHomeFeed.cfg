\* One reader and a second person whose address is not verified; up to three
\* fetches or posts in one run of the app, two home screens.
CONSTANTS
  a = a
  b = b
  p = p
  q = q
  Users = {a, b}
  Verified = {a}
  NoUser = NoUser
  Never = Never
  MaxSignIns = 2
  Posts = {p, q}
  Timeline <- Feeds
  MaxHomes = 2
  MaxListeners = 3
SPECIFICATION FairSpec
INVARIANTS
  TypeOK
  FeedExact
  RowsTold
  RepostNeedsSignIn
PROPERTY
  RowsCatchUp
CHECK_DEADLOCK FALSE
