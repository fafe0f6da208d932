CONSTANTS
  Schedule <- MCSchedule
  Deployments <- MCDeployments
  None = None
  MaxChanges = 2

SPECIFICATION ProbesFairSpec

INVARIANTS
  ProbesTypeOK
  OkIsWhole

PROPERTIES
  RoundsGoOn
  FailureTold
  RecoveryTold
