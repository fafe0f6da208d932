\* A reader between rename and close.
SPECIFICATION Spec
CONSTANTS
  w1 = w1
  w2 = w2
  f1 = f1
  f2 = f2
  NoFile = NoFile
  Nobody = Nobody
  N = 1
  Writers <- MCWriters1
  Files <- MCFiles1
  CacheFile <- MCOne
  Faults <- OnlyDown
  Staleness = 1
  MaxFetch = 1
  MaxTime = 1
  MaxFaults = 0
  MaxCrashes = 0
INVARIANT CacheFileIsJSON
