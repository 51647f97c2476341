SPECIFICATION FairSpec
CONSTANTS
  Calls = {c1, c2, c3}
  Children = {p}
  Items = {i}
  Kinds = {"save_graph", "delete", "create", "import"}
  Faults = {"crash"}
  SlugLength = 39
  Old = Old
  None = None
INVARIANT OneWriterBetweenDeletes
PROPERTY EveryCallEnds
CHECK_DEADLOCK FALSE
