CONSTANTS
  haifa = haifa
  Threads = {1, 2}
  Tools = {}
  Customers <- MCCustomers
  CityNames = {haifa}
  Places <- MCPlaces
  Nowhere = Nowhere
  SecPerHour = 3600
  Feed <- MCFeed
  Commands <- NoCommands
  FirstDisk <- MCFirstDisk
  MaxLog = 4
  MaxRows = 2
  IOFaults = FALSE
  Overlap = FALSE
  NaN = NaN
  Events <- MCEvents
  ClockLag <- MCClockLag
  PipeSize = 1
  MaxConns = 2
  MaxRestarts = 1
SPECIFICATION SysFairSpec
INVARIANTS
  SessionsAreEvents
  ParkingsRecorded
PROPERTIES
  StartsReachBackup
CHECK_DEADLOCK FALSE
