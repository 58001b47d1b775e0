SPECIFICATION FairSpec
CONSTANTS
  w1 = w1
  w2 = w2
  f1 = f1
  f2 = f2
  blank = blank
  t1 = t1
  Blank = blank
  NoPost = NoPost
  Workers <- MCWorkers
  Keys <- MCKeys
  VideoKeys <- MCVideoKeys
  Titles <- MCTitles
  MaxVideos = 2
  MaxScreens = 2
INVARIANTS
  TypeOK
  OwnTitle
  StoresAgree
PROPERTY
  VideoArrives
  PublishedOnce
