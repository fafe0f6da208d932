CONSTANTS
  Dir <- MCDir
  TagsOf <- MCTagsOf
  NoMatch = NoMatch
  Recurse = TRUE
  File = {"f", "g"}
  Gone = Gone
  MaxChanges = 2

SPECIFICATION Spec

INVARIANTS
  TypeOK
  StillCountedOnce
  CountedWasThere
