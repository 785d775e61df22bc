\* Three nodes: the smallest scene in which one child can leave between the
\* reads of two others.
CONSTANTS
  Nodes = {n1, n2, n3}
  Content = Content
  Positions = {p1, p2}
  Start = p1
  None = None
  MaxFrames = 1
  MaxChanges = 1
SYMMETRY NodeSymmetry
SPECIFICATION Spec
INVARIANTS
  PassIsExact
  TrapNeedsRemoval
PROPERTIES
  PassGoesForward
\* A trapped app takes no further step.
CHECK_DEADLOCK FALSE
