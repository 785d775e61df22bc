CONSTANTS
  Nodes = {n1, n2}
  Content = Content
  Positions = {p1, p2}
  Start = p1
  None = None
  MaxFrames = 1
  MaxChanges = 1
SPECIFICATION Spec
INVARIANTS
  NoIndexTrap
\* A trapped app takes no further step.
CHECK_DEADLOCK FALSE
