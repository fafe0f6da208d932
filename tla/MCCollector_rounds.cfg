CONSTANTS
  Schedule <- MCSchedule
  Bucket = "bucket"
  Keys = 2
  Fitting = {1}
  PageSize = 1
  Instance = {"first", "second", "other"}
  Package = {"package"}
  PackageOf <- MCPackageOf
  Expected <- MCExpected
  None = None
  MaxVersion = 2
  MaxIncidents = 1
  MaxChanges = 1

SPECIFICATION FairSpec

INVARIANTS
  CriticalMeansMissing
  EventTellsLast

PROPERTIES
  RoundsGoOn
  MissingIsTold
  Settles
