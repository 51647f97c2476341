SPECIFICATION Spec
CONSTANTS
  Runs = {r1, r2}
  Stops = {s1}
  Writes = {}
  StdinCap = 1
  Faults = {"overlap"}
  None = None
INVARIANT AtMostOneRun
CHECK_DEADLOCK FALSE
