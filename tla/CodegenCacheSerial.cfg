SPECIFICATION Spec
CONSTANTS
  Calls = {c1, c2, c3, c4, c5}
  Graphs = {g, h}
  Trees = {t, u}
  Markets = {m, n}
  Kinds = {"put_graph", "change_tree", "install", "create", "delete", "build", "regen"}
  Faults = {"fail", "crash"}
  None = None
SYMMETRY CacheSymmetry
PROPERTY GenerationIsFresh
PROPERTY SkipIsFresh
CHECK_DEADLOCK FALSE
