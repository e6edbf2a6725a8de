CONSTANTS
  p1 = p1
  p2 = p2
  game = game
  emulator = emulator
  None = None
  Instances = {p1, p2}
  Names = {game, emulator}
  NameOf <- TwoNames
  Providers <- ThreeProviders
  Multi = TRUE
  Accepts <- AcceptsByName
  Identity = {3}
  Validated = {1}
  HasPreparation = TRUE
  HasAutomaticShape = TRUE
  HasOnAttach = TRUE
  AsyncWhileAttached = TRUE
  NeedsPointerSize = TRUE
  Lifetimes = 3
  Commands = {r, w}
  Releases = {r}
  Documents = {d}
  Nobody = Nobody
  NoSource = NoSource
  Sources <- MCSources
  MaxVersion = 3
  MaxRequests = 14
SPECIFICATION EitherSpec
INVARIANTS NothingOutlivesItsAttachment ContinuationHasOneOwner CadenceFollowsAttachment
INVARIANTS AnswersAreOwn RestingWatchIsCurrent
PROPERTIES RejectedUntilClosed LostMappingEndsAttachment ImplementsProtocol
PROPERTIES CancelledWatchWasSuperseded BuildsEnd
CHECK_DEADLOCK TRUE
