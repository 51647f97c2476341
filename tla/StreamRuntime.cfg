SPECIFICATION FairSpec
CONSTANTS
  Programs <- MCPrograms
  Classes = {"a", "b"}
  Cap = 2
  MaxBackoff = 2
  MaxEvents = 4
  MaxPanics = 2
  MaxTime = 3
INVARIANT InOrderOnce
INVARIANT LossBounded
INVARIANT WindowsAdvance
INVARIANT JoinIsComplete
INVARIANT PatternIsExact
PROPERTY Drained
CHECK_DEADLOCK FALSE
