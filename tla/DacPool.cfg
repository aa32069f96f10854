SPECIFICATION Spec
CONSTANTS
  N = 3
  Sound = {1, 3}
  Movable = {"cert"}
  MaxFailures = 2
  MaxMoves = 2
  MaxCrashes = 2
INVARIANTS
  SpentForGood
  HolderCanReport
  AtMostOneInProgress
  PoolInv
