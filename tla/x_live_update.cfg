CONSTANTS
  t1 = t1
  t2 = t2
  u1 = u1
  u2 = u2
  c1 = c1
  c2 = c2
  haifa = haifa
  yafo = yafo
  Threads = {t1}
  Tools = {u1}
  Customers = {c1, c2}
  CityNames = {haifa}
  Places <- MCPlaces
  Nowhere = Nowhere
  SecPerHour = 3
  Feed <- FeedOne
  Commands <- OneCommand
  FirstDisk <- MCFirstDisk
  MaxLog = 1
  MaxRows = 2
  IOFaults = FALSE
  Overlap = TRUE
SPECIFICATION Spec
PROPERTIES
  LogAdvances
