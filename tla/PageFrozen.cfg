SPECIFICATION PageSpec
CONSTANTS
  Handlers = {h1}
  MaxActions = 1
INVARIANTS NeverFrozen
CHECK_DEADLOCK FALSE
