\* Two overlapping runs over two instances, one outage or unexpected reply, one kill.
\* The clock stands still: no property here is about ages.
SPECIFICATION FairSpec
CONSTANTS
  w1 = w1
  w2 = w2
  f1 = f1
  f2 = f2
  NoFile = NoFile
  Nobody = Nobody
  N = 2
  Writers <- MCWriters2
  Files <- MCFiles
  CacheFile <- MCTwo
  Faults <- AllFaults
  Staleness = 1
  MaxFetch = 1
  MaxTime = 0
  MaxFaults = 1
  MaxCrashes = 1
INVARIANTS TornExplained OwnReport
PROPERTIES CacheRecovers UnreachableClears
