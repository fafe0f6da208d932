\* Two masters, the second of an old version, that fail, recover and elect.
SPECIFICATION FairSpec
CONSTANTS
  N = 2
  OldMasters = {2}
  Modes = {"up", "down", "null", "bad"}
  NoLeader = NoLeader
INVARIANT ClusterMetricsClaimed
PROPERTIES AllRecover RecoveryNeedsCompletedCheck
