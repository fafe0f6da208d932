\* An instance of any roles, three changes in the course of a check.
SPECIFICATION FairSpec
CONSTANTS
  Levels = 6
  MaxChanges = 3
INVARIANTS HeldReported RaisedExplained
PROPERTY Recovers
