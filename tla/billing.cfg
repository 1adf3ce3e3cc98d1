CONSTANTS
  c1 = c1
  haifa = haifa
  Customers = {c1}
  CityNames = {haifa}
  Places <- MCPlaces
  Nowhere = Nowhere
  SecPerHour = 3
  Half = 16
  LotRows <- MCLotRows
SPECIFICATION Spec
INVARIANTS
  TypeOK
  DurationIsElapsed
  BackwardsIsFree
  BilledByFee
