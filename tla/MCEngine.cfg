\* Four MainVCs: the initial one, then three choices of a script.
CONSTANTS
  Scripts = {s1, s2}
  NoScript = NoScript
  Diverging = {s2}
  MaxVC = 4
  MaxNodes = 2
SPECIFICATION FairSpec
INVARIANTS
  SdkBeforeScript
  EvaluationInOrder
  OnlyUnfinishedRunsLeak
  IInv
PROPERTIES
  EveryScriptFinishes
\* The user may stop choosing scripts, and a diverging script stops the queue.
CHECK_DEADLOCK FALSE
