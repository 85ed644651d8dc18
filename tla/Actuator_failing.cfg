SPECIFICATION Spec
CONSTANTS
  CanFail = {"logger", "model", "fit", "capture", "mouse", "infer", "move", "toggle"}
  UiFrameTypes = {0, 1}
  UiMousecTypes = {0, 1, 2}
INVARIANTS
  LoopOwnsLiveObjects
  Ownership
  AbortsAreKnown
PROPERTIES
  ExitHonoured
  KeepsPromise
  KeepsLives
