CONSTANTS
  h1 = h1
  h2 = h2
  Shows = {1}
  Handlers = {h1, h2}
  MaxEntries = 2
  MaxLost = 1
SPECIFICATION Spec
SYMMETRY HandlerSymmetry
INVARIANTS CopiesAreRight HealedInOrder
CHECK_DEADLOCK FALSE
