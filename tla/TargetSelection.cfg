SPECIFICATION Spec
CONSTANTS
  MaxBoxes = 3
  Distances = {0, 1}
  Classes = {0, 1, 4}
INVARIANTS
  TypeOK
  SubscriptInBounds
  AimsAtKeptBox
  AimsAtWantedClass
  AimsAtNearestInOrder
