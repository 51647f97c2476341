SPECIFICATION Spec
CONSTANTS
  Calls = {c1, c2, c3, c4}
  Slugs = {main, a, b}
  Main = main
  Kinds = {"create", "rename", "delete", "save", "save_root"}
  FaultSets <- MCFaultSets
  MaxRequests <- MCMaxRequests
  Root = Root
  First = First
  None = None
SYMMETRY TreeSymmetry
INVARIANT TreeAlwaysValid
INVARIANT GraphFollowsPackage
INVARIANT NoStrayFolder
CHECK_DEADLOCK FALSE
