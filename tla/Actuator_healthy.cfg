SPECIFICATION Spec
CONSTANTS
  CanFail = {}
  UiFrameTypes = {0, 1}
  UiMousecTypes = {2, 3}
INVARIANTS
  TypeOK
  NoFault
PROPERTIES
  StopNotForgotten
  ExitHonoured
  RestartHonoured
  KeepsPromise
