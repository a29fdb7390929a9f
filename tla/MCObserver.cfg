SPECIFICATION Spec
CONSTANTS
  N = 2
  Witness = {1, 2}
  MaxHeight = 3
  MaxRounds = 3
  MaxForks = 1
  Rounds = 60
  SweepValues <- MCSweepValues
INVARIANTS
  TornReadBounded
  TransitionsAreReal
  AnchoredReachedIsAReturn
  NoFalseAlarm
  MetricsMatchTracker
CHECK_DEADLOCK FALSE
