SPECIFICATION Spec
CONSTANTS
  N = 2
  Sound = {1, 2}
  Movable = {}
  MaxFailures = 0
  MaxMoves = 0
  MaxCrashes = 1
  Schemas = {{"serial_number", "manufactured_date", "pai_cert", "cd_cert", "onboarding"}}
  Partial = {}
  MaxRuns = 2
PROPERTY PullSucceeds
CHECK_DEADLOCK FALSE
