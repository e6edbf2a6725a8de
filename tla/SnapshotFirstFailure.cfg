CONSTANTS
  Fields <- AllFields
  Order <- FieldOrder
  Dependencies <- FieldDependencies
  Storage <- OwnSlots
  Discriminators = {"mode"}
  Conditional = {"item", "score"}
  Alternatives <- ShapeOf
  Filtered = {"hp"}
  Statics = {"instance"}
  ReadsStatic <- Through
  NoStatic = "none"
  Values = {"a", "b"}
  Variants = {"menu", "level"}
  Default = "default"
  Nothing = Nothing
  Failed = "failed"
  Unread = "unread"
  Assignable = {"hp"}
  AssignsWhenReady = FALSE
SPECIFICATION SnapshotSpec
CHECK_DEADLOCK FALSE
INVARIANTS InitializationWaits
