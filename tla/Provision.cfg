SPECIFICATION FairSpec
CONSTANTS
  Worker = {1, 2}
  MaxSelects = 1
  MaxClicks = 4
  MaxToggles = 2
INVARIANTS
  TypeOK
  OneWorker
  ReportsFollowRuns
PROPERTIES
  ConfirmedIsReported
  ReadyIsShown
  ResultIsShown
  ConnectionReachesManager
CHECK_DEADLOCK FALSE
