SPECIFICATION Spec
CONSTANTS
  MaxRuns = 2
  PollSlip = 1
  Rounds = 9
  SweepValues <- MCSweepValues
INVARIANTS
  
  FinallyReleases
  MeasuredOnWhatWasDeployed
PROPERTIES
  NoSilentNoOp
  EveryScriptEnds
CHECK_DEADLOCK FALSE
