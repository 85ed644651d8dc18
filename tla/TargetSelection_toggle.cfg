SPECIFICATION Spec
CONSTANTS
  MaxBoxes = 2
  Distances = {0, 1}
  Classes = {0, 1}
INVARIANTS
  SubscriptAlwaysInBounds
