CONSTANTS
  t1 = t1
  t2 = t2
  u1 = u1
  u2 = u2
  c1 = c1
  c2 = c2
  haifa = haifa
  yafo = yafo
  Threads = {t1}
  Tools = {u1}
  Customers = {c1, c2}
  CityNames = {haifa, yafo}
  Places <- MCPlaces
  Nowhere = Nowhere
  SecPerHour = 3
  Feed <- FeedOne
  Commands <- UpkeepCommands
  FirstDisk <- MCFirstDisk
  MaxLog = 1
  MaxRows = 3
  IOFaults = FALSE
  Overlap = FALSE
SPECIFICATION Spec
INVARIANTS
  Coherent
PROPERTIES
  CityRemovalIsWhole
  StoreSpec
