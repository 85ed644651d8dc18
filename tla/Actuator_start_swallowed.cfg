SPECIFICATION Spec
CONSTANTS
  CanFail = {"model"}
  UiFrameTypes = {1}
  UiMousecTypes = {2}
PROPERTIES
  StartSignalStartsThread
