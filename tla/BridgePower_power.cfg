SPECIFICATION FairSpec
CONSTANTS
  Settings <- MCSettings
  Limits <- MCLimits
  Defaults <- MCDefaults
  InitDelay = 1
  WaitLimit = 1
  ClockTimes = {1, 6}
  MaxTime = 11
  MaxStarts = 2
  MaxMoves = 1
INVARIANTS TypeOK  PoweredWhileHeld PowerRestored
CHECK_DEADLOCK FALSE
PROPERTIES TimerStopsWithPower
