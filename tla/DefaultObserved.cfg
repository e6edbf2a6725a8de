CONSTANTS
  BareGlobals = {"kind", "x", "y", "d"}
  Dimensions <- NoDimensions
  Variants = {"A", "B"}
  DebugGlobals = {"d"}
  Helpers = {"f", "g"}
  Scripts <- ModeScripts
SPECIFICATION ScopedSpec
INVARIANT NoDefaultIsObserved
CHECK_DEADLOCK FALSE
