CONSTANTS
  DayLength = 6
  HourLength = 1
  Windows <- MCWindows
  CallingDays <- MCCallingDays
  Zones <- MCZones
  MidnightHours = {0, 24}
  First = 30
  Last = 66
SPECIFICATION DialingSpec
INVARIANTS
  NextStartIsAllowed
  NextStartIsEarliest
CHECK_DEADLOCK FALSE
