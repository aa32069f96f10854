SPECIFICATION Spec
CONSTANTS
  N = 3
  Sound = {1, 3}
  Movable = {"cert"}
  MaxFailures = 1
  MaxMoves = 1
  MaxCrashes = 2
  Schemas = {{"serial_number", "onboarding"}, {"manufactured_date", "onboarding"}, {"onboarding", "other"},
             {"serial_number", "pai_cert", "cd_cert", "onboarding"}}
  Partial = {{"manufactured_date", "onboarding"}}
  MaxRuns = 3
INVARIANTS
  TypeOK
  SerialUnique
  DacUnique
  ReportSettlesDac
  RunsLeaveNothing
PROPERTY
  SettledNotInjected
CHECK_DEADLOCK FALSE
