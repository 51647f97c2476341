SPECIFICATION Spec
CONSTANTS
  Seeds <- MCSeeds
  Starts <- MCStarts
  Palette <- MCPalette
  Imports <- MCImports
  SortedSlugs <- MCSlugs
  Packages <- MCPackages
  Offers <- MCOffers
  MaxEdits = 3
  MaxHands = 1
  Faults = {"crash"}
INVARIANT OutputIsCurrent
INVARIANT DeclarationsResolve
INVARIANT TemplatesAgree
INVARIANT SavedGraphsEnd
INVARIANT SavedValuesMove
PROPERTY UserTextKept
PROPERTY RegenerationIsIdle
PROPERTY RoutesStayMounted
CHECK_DEADLOCK FALSE
