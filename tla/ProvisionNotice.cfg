SPECIFICATION FairSpec
CONSTANTS
  Worker = {1, 2}
  MaxSelects = 1
  MaxClicks = 1
  MaxToggles = 1
PROPERTY ConnectionIsNoticed
CHECK_DEADLOCK FALSE
