CONSTANTS
  PARK_INTERVAL_MIN = 2
  PARK_INTERVAL_MAX = 3
  PARK_DURATION_MIN = 1
  PARK_DURATION_MAX = 3
  QueueSize = 16
  MaxUtc = 31
  START_UTC = 26
  MaxLoop = 3
SPECIFICATION FairSpec
INVARIANTS
  TypeOK
  OffersAreFresh
PROPERTIES
  Alternates
  DurationAsDrawn
  ParksAgain
