SPECIFICATION Spec
CONSTANTS
  Clients = {c1, c2}
  Packages = {main, b}
  Root = main
  MaxEdits = 1
  MaxMoves = 1
  Faults = {"refuse", "drop"}
  None = None
SYMMETRY Symmetry
INVARIANT EditsInOrder
INVARIANT BroadcastWasAccepted
INVARIANT SettledPresence
INVARIANT EditsReachPeers
INVARIANT NoneIsStuck
CHECK_DEADLOCK FALSE
