SPECIFICATION FairSpec
CONSTANTS
  Calls = {c1, c2}
  Clients = {k1}
  MaxLines = 1
  Cap = 4
  Faults = {"leave", "bad_line"}
  None = None
INVARIANT StartFirstExitLast
INVARIANT BuildsDoNotMix
PROPERTY SlugIsFreed
PROPERTY ExitIsSeen
CHECK_DEADLOCK FALSE
