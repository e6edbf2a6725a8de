CONSTANTS
  p1 = p1
  p2 = p2
  p3 = p3
  p4 = p4
  p5 = p5
  None = None
  Pids = {p1, p2, p3, p4, p5}
  NameCount = 2
  NameOf <- TwoNames
  Selectors = {TRUE, FALSE}
  QueryMayFail = TRUE
  Wanted = {p2, p3}
  list_pointer = 4
  PageBytes = 8
  AddressBytes = 32
  InitialPages = 1
  MaxPages = 3
  Fields <- FieldNames
  Programs <- AllLists
  Order <- PolledFields
  Paths <- PathsAlike
  m = m
  address = address
  Modules = {m}
  Shapes = {"A", "B"}
  Groups <- Conditions
  Types <- SoundTypes
  Shape <- MCShape
  Patterns <- AllPatterns
  Height <- MCHeight
  MaxDepth = 12
  PatternsOf <- MCPatterns
  ValuesOf <- MCValues
  MaxArms = 3
  MaxGuarded = 1
  BareGlobals = {"kind", "x", "y", "d"}
  Dimensions = {"kind"}
  Variants = {"A", "B"}
  DebugGlobals = {"d"}
  Helpers = {"f", "g"}
  Scripts <- SoundScripts
SPECIFICATION PartsSpec
INVARIANTS NoHandleLeaked ListFitsMemory PolledInOrderOrReported PrefixesAreResolvedOnce
INVARIANTS AnalysisIsExact AcceptedMatchesSelect EndsWithExamples NoDefaultIsObserved
PROPERTIES WantedIsFound
CHECK_DEADLOCK FALSE
