CONSTANTS
  x = x
  y = y
  z = z
  Futures = {x, y, z}
  Main = Main
  None = None
  Programs <- ChangingAtOnce
  MaxDuration = 2
SPECIFICATION Spec
PROPERTIES FirstReadyWins
CHECK_DEADLOCK FALSE
