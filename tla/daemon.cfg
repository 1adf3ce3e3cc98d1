CONSTANTS
  ConfigFiles <- MCConfigFiles
  Texts <- MCTexts
  Buses <- MCBuses
  PipeSize = 1
SPECIFICATION FairSpec
INVARIANTS
  TypeOK
  ServiceInstallsNothing
  OneDaemon
  ConfigIsLegal
PROPERTIES
  RestartsWhenBothDie
CHECK_DEADLOCK FALSE
