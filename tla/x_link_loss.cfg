CONSTANTS
  NaN = NaN
  Events <- MCEvents
  ClockLag <- MCClockLag
  PipeSize = 1
  MaxConns = 2
  MaxRestarts = 0
SPECIFICATION Spec
INVARIANTS
  NothingIsLost
CHECK_DEADLOCK FALSE
