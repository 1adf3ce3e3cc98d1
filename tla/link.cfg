CONSTANTS
  NaN = NaN
  Events <- MCEvents
  ClockLag <- MCClockLag
  PipeSize = 1
  MaxConns = 3
  MaxRestarts = 1
SPECIFICATION FairSpec
INVARIANTS
  TypeOK
  AtMostOnce
  OvertakesOnNewConnection
  ArrivesInFull
  OnlyValidHandled
PROPERTIES
  EventuallyWritten
  EventuallyHandled
CHECK_DEADLOCK FALSE
