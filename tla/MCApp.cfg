SPECIFICATION Spec
CONSTANTS
  None = None
  Animations = {a1, a2, a3}
  Nodes = {n1}
  Arguments = {"function", "null", "undefined"}
  Proxies = {k1, k2}
  Stored = {k1, k2}
  JSThreads = {t1, t2}
  Tokens = {t1, t2}
  Texts = {x1, x2}
  Unlisted = Unlisted
  MaxKey = 3
  MaxLists = 1
  MaxRequests = 2
  Base = 16
  Digits = 3
  Parts = 2
INVARIANTS
  CompletedOnce
  ImportsMeet
  ListsAreTrue
  TokenIsUniform
PROPERTIES
  ActionCallsBack
  RequestShowsStored
\* Each part may come to its end.
CHECK_DEADLOCK FALSE
