CONSTANTS
  h1 = h1
  h2 = h2
  Shows = {1}
  Handlers = {h1}
  MaxEntries = 2
  MaxLost = 0
SPECIFICATION Spec
INVARIANT NoDoublePost
CHECK_DEADLOCK FALSE
