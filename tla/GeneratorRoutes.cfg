SPECIFICATION Spec
CONSTANTS
  Seeds = {}
  Starts <- MCBlank
  Palette <- MCRoutePalette
  Imports = {}
  SortedSlugs <- MCSlugs
  Packages = {}
  Offers = {}
  MaxEdits = 3
  MaxHands = 0
  Faults = {}
INVARIANT RoutesAreMounted
CHECK_DEADLOCK FALSE
