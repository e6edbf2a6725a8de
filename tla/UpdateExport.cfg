CONSTANTS
  Actions <- AllActions
  HasAttemptGlobals = TRUE
  RequiresAttempt <- AllDependent
  Segments = 1
  p1 = p1
  p2 = p2
  game = game
  None = None
  Instances = {p1, p2}
  Names = {game}
  NameOf <- OneName
  Providers = {1}
  Multi = FALSE
  Accepts <- AcceptsAll
  Identity = {}
  Validated = {1}
  HasPreparation = FALSE
  HasAutomaticShape = FALSE
  HasOnAttach = FALSE
  AsyncWhileAttached = TRUE
  NeedsPointerSize = FALSE
  Lifetimes = 2
SPECIFICATION ExportSpec
INVARIANT DecisionsAreGated
PROPERTIES TransitionDelivered ImplementsHalves
CHECK_DEADLOCK TRUE
