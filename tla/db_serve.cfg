CONSTANTS
  t1 = t1
  t2 = t2
  u1 = u1
  u2 = u2
  c1 = c1
  c2 = c2
  haifa = haifa
  yafo = yafo
  Threads = {t1, t2}
  Tools = {}
  Customers = {c1, c2}
  CityNames = {haifa}
  Places <- MCPlaces
  Nowhere = Nowhere
  SecPerHour = 3
  Feed <- FeedTwo
  Commands <- NoCommands
  FirstDisk <- MCFirstDisk
  MaxLog = 2
  MaxRows = 2
  IOFaults = FALSE
  Overlap = FALSE
SPECIFICATION FairSpec
INVARIANTS
  TypeOK
  Durable
  DiskBehindRuntime
  BilledByTariff
PROPERTIES
  StoreSpec
  EventuallySaved
