CONSTANTS
  Scripts = {s1}
  NoScript = NoScript
  Diverging = {}
  MaxVC = 3
  MaxNodes = 1
SPECIFICATION Spec
INVARIANTS
  SceneHoldsOneScript
CHECK_DEADLOCK FALSE
