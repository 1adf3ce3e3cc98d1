CONSTANTS
  haifa = haifa
  Threads = {1, 2}
  Tools = {}
  Customers <- MCCustomers
  CityNames = {haifa}
  Places <- MCPlaces
  Nowhere = Nowhere
  SecPerHour = 3600
  Feed <- MCFeed
  Commands <- NoCommands
  FirstDisk <- MCFirstDisk
  MaxLog = 4
  MaxRows = 2
  IOFaults = FALSE
  Overlap = FALSE
  NaN = NaN
  Events <- CrossedEvents
  ClockLag <- MCClockLag
  PipeSize = 1
  MaxConns = 2
  MaxRestarts = 1
SPECIFICATION SysSpec
INVARIANTS
  InOrderRecorded
CHECK_DEADLOCK FALSE
