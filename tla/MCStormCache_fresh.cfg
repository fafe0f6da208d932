\* Two overlapping runs over two instances, the first without a
\* file, one outage or unexpected reply, one kill.
SPECIFICATION Spec
CONSTANTS
  w1 = w1
  w2 = w2
  f1 = f1
  f2 = f2
  NoFile = NoFile
  Nobody = Nobody
  N = 2
  Writers <- MCWriters2
  Files <- MCFiles1
  CacheFile <- MCSkip
  Faults <- AllFaults
  Staleness = 1
  MaxFetch = 1
  MaxTime = 2
  MaxFaults = 1
  MaxCrashes = 1
INVARIANT FreshReport
SYMMETRY RunSymmetry
