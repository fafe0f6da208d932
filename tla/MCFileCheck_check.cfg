\* Two instances of one path, three files of which two may be statted, a restart.
SPECIFICATION FairSpec
CONSTANTS
  i1 = i1
  i2 = i2
  p1 = p1
  f1 = f1
  f2 = f2
  f3 = f3
  Instance <- MCInstance
  Path <- MCPath
  PathOf <- MCPathOf
  File <- MCFile3
  Matches <- MCMatches3
  MAX_FILES_TO_STAT = 2
  Kinds <- AllKinds
  MaxTime = 1
  MaxChanges = 3
  MaxRestarts = 1
INVARIANTS AbsentExplained OldestReported EventsAlternate
PROPERTY EventuallyRight
