CONSTANTS
  x = x
  y = y
  z = z
  Futures = {x, y, z}
  Main = Main
  None = None
  Programs <- AllPrograms
  MaxDuration = 2
  low = low
  high = high
  part = part
  hole = hole
  Kinds = {"scan", "scanOnce", "scanAny", "scanMemory", "scanMemoryAny"}
  Ranges = {low, high, part, hole}
  Size <- MCSize
  Lengths <- MCLengths
  Page = 2
  Window = 4
  Candidates <- MCCandidates
  Unreadables <- MCUnreadables
  Maps <- MCMaps
  MaxChanges = 2
  NoMatch = NoMatch
  Absent = Absent
SPECIFICATION AsyncSpec
INVARIANTS AwaitsGetTheirOwn AbsenceIsEvidence
PROPERTIES ResumedOncePerUpdate RaceIsLeftBiased ReadyBeatsDeadline TimeoutsEnd MatchesAreFound
CHECK_DEADLOCK FALSE
