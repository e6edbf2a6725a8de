CONSTANTS
  Types <- GrowableTypes
  Shape <- MCShape
  Patterns <- AllPatterns
  Height <- MCHeight
  MaxDepth = 12
  PatternsOf <- OverlappingPatterns
  ValuesOf <- LongValues
  MaxArms = 1
  MaxGuarded = 0
SPECIFICATION MatchSpec
INVARIANT AcceptedMatchesSelect
CHECK_DEADLOCK FALSE
