SPECIFICATION Spec
CONSTANTS
  Settings <- MCSettings
  Limits <- MCLimits
  Defaults <- MCDefaults
  InitDelay = 1
  WaitLimit = 1
  ClockTimes = {1}
  MaxTime = 5
  MaxStarts = 2
  MaxMoves = 0
INVARIANTS HeldForUpdate
CHECK_DEADLOCK FALSE
