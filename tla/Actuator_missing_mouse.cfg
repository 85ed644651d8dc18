SPECIFICATION Spec
CONSTANTS
  CanFail = {}
  UiFrameTypes = {1}
  UiMousecTypes = {1, 2}
INVARIANTS
  MissingMouseIsAnError
