SPECIFICATION FairSpec
CONSTANTS
  w1 = w1
  w2 = w2
  f1 = f1
  NoJob = NoJob
  Workers <- MCWorkers
  Names <- MCNames
  Sizes <- MCSizes
  MaxUploads = 3
INVARIANTS
  TypeOK
  OwnFile
  MkdirLosesFew
PROPERTY
  AnswerKept
  AnswersOnce
CHECK_DEADLOCK FALSE
