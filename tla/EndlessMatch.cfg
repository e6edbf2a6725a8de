CONSTANTS
  Types <- EndlessTypes
  Shape <- MCShape
  Patterns <- AllPatterns
  Height <- MCHeight
  MaxDepth = 12
  PatternsOf <- MCPatterns
  ValuesOf <- MCValues
  MaxArms = 2
  MaxGuarded = 1
SPECIFICATION MatchSpec
INVARIANT AnalysisEnds
CHECK_DEADLOCK FALSE
