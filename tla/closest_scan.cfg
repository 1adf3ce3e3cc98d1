CONSTANTS
  c1 = c1
  haifa = haifa
  Customers = {c1}
  CityNames = {haifa}
  Places <- MCPlaces
  Nowhere = Nowhere
  SecPerHour = 3
  Tables <- MCTables
  MaxDouble = 1000
SPECIFICATION Spec
INVARIANTS
  AnswersClosest
  ClosestSoFar
CHECK_DEADLOCK FALSE
