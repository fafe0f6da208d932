\* Two hosts, two years, one restart.
SPECIFICATION Spec
CONSTANTS
  Year = 4
  Window = 1
  Ahead = 1
  Keep = 2
  MaxTime = 5
  MaxLines = 3
  MaxBoots = 1
INVARIANTS NoOldSegfault EverySegfault KillsSinceBoot
PROPERTY CriticalStays
