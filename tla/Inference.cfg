SPECIFICATION Spec
CONSTANTS
  Models <- SmallModels
  YoloTypes = {1, 2, 3}
CHECK_DEADLOCK FALSE
INVARIANTS
  TypeOK
  ReadyToDetect
  FaultsAreKnown
  DecodesThisFrame
PROPERTIES
  LossesAreKnown
  KeepsPromise
  KeepsLife
