SPECIFICATION Spec
CONSTANTS
  AimKeys = {1, 2}
  AutoKeys = {1, 2}
  Delays = {1}
  Jitters = {0, 1}
  Models = {0, 1, 2, 3}
  Horizon = 2
INVARIANTS
  TypeOK
  ClicksAreSpaced
PROPERTIES
  HeldKeysClick
