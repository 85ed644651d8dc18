SPECIFICATION Spec
CONSTANTS
  MaxBoxes = 2
  Distances = {0, 1, 2}
  Classes = {0, 1}
INVARIANTS
  AimsAtNearest
