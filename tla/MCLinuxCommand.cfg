\* Up to two items of each kind, two of them come or go, one command fails.
CONSTANTS
  Item = {1, 2}
  Garbage = Garbage
  MaxChanges = 2
  MaxFailures = 1
SPECIFICATION Spec
INVARIANTS
  TypeOK
  SteadySample
  JoinersLeftOut
  OverrunMeansLoss
CHECK_DEADLOCK FALSE
