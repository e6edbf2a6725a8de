CONSTANTS
  Commands = {r, w}
  Releases = {r}
  Documents = {d}
  Nobody = Nobody
  NoSource = NoSource
  Sources <- MCSources
  MaxVersion = 2
  MaxRequests = 8
SPECIFICATION TasksSpec
CHECK_DEADLOCK FALSE
INVARIANT LatestSaveIsBuilt
