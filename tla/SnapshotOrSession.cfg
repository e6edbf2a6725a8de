CONSTANTS
  Fields <- AllFields
  Order <- FieldOrder
  Dependencies <- FieldDependencies
  Storage <- OwnSlots
  Discriminators = {"mode"}
  Conditional = {"item", "score"}
  Alternatives <- ShapeOf
  Filtered = {"hp"}
  Statics = {"instance"}
  ReadsStatic <- Through
  NoStatic = "none"
  Values = {"a", "b"}
  Variants = {"menu", "level"}
  Default = "default"
  Nothing = Nothing
  Failed = "failed"
  Unread = "unread"
  Assignable = {"hp"}
  AssignsWhenReady = FALSE
  MaxReloads = 2
  MaxRevision = 2
  MaxRequests = 1
  MaxSettings = 1
  MaxMessages = 1
  MaxFailures = 1
SPECIFICATION EitherSpec
CHECK_DEADLOCK FALSE
INVARIANTS NoSyntheticState DependenciesAreFresh ReadsAgree
INVARIANTS NoRuntimeIsForgotten SettingsSurvive NoFalseAlarm RestingRuntimeIsCurrent StopEndsRuntime
PROPERTIES ImplementsHistory OperationsEnd RequestsSettle
