SPECIFICATION FairSpec
CONSTANTS
  Runs = {r1, r2}
  Stops = {s1, s2}
  Writes = {w1, w2}
  StdinCap = 1
  Faults = {"overlap", "disconnect", "early_close", "kill_fails"}
  None = None
INVARIANT ExitAtMostOnce
INVARIANT ExitMeansDead
INVARIANT EntryIsWatched
PROPERTY ChildIsKept
PROPERTY DeadEntryIsRemoved
PROPERTY StopPublishesExit
CHECK_DEADLOCK FALSE
