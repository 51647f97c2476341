SPECIFICATION Spec
CONSTANTS
  Clients = {1, 2}
  Packages = {main, b}
  Root = main
  MaxEdits = 1
  MaxMoves = 1
  Faults = {"refuse", "drop"}
  None = None
CHECK_DEADLOCK FALSE
INVARIANT PackagesApart
