\* Two people share the phone, one whose address is not verified; two profile
\* screens, up to three listeners in one run of the app, two sign-ins.
CONSTANTS
  a = a
  b = b
  f = f
  g = g
  Users = {a, b}
  Verified = {a}
  NoUser = NoUser
  Never = Never
  MaxSignIns = 2
  People = {f, g}
  Authors = {f}
  NoAuthor = NoAuthor
  MaxScreens = 2
  StartFollow <- Starts
  MaxListeners = 3
SPECIFICATION FairSpec
INVARIANTS
  TypeOK
  ButtonTruth
  ReplayNeedsSignIn
PROPERTY
  PressSent
CHECK_DEADLOCK FALSE
