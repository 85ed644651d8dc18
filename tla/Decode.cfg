SPECIFICATION Spec
CONSTANTS
  Nets <- SmallNets
  Outputs <- SmallOutputs
  Thresholds = {0, 1, 3}
CHECK_DEADLOCK FALSE
INVARIANTS
  TypeOK
  ReadsWithinOutput
  CollectedIsJustified
  NothingIsMissed
