SPECIFICATION Spec
CONSTANTS
  Model = {doorlock, thermostat}
  Station = {line1, line2}
  Dir = {reports}
  Own = own
  NoValue = NoValue
  Torn = Torn
  MaxSlips = 1
INVARIANTS
  TypeOK
  FinishedIsConfigured
  PassedStepsAreKept
  RuntimeFollowsModel
  SettingsAreKept
