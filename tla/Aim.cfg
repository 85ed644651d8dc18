SPECIFICATION Spec
CONSTANTS
  Manners = {0, 1, 2}
  Boxes <- SomeBoxes
  Positions = {0, 7}
  Scales <- SomeScales
  Reach = 300
  Gains <- SomeGains
  MaxPixels = {15, 400}
CHECK_DEADLOCK FALSE
INVARIANTS
  TypeOK
  OrdersAddUp
  StaysNear
  FaultsAreKnown
  InScopeIsOnBox
  IntegralIsBounded
PROPERTIES
  KeepsLife
