SPECIFICATION Spec
CONSTANTS
  Calls = {c1, c2, c3}
  Children = {p, q}
  Items = {i}
  Kinds = {"load", "save_graph", "add", "drop", "install", "uninstall"}
  Faults = {"crash"}
  SlugLength = 39
  Old = Old
  None = None
SYMMETRY CallSymmetry
INVARIANT OneWriter
INVARIANT LegacyNeverReturns
PROPERTY AtomicUpdates
CHECK_DEADLOCK FALSE
