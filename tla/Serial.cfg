SPECIFICATION Spec
CONSTANTS
  MaxOpens = 2
  MaxBytes = 4
  MaxChunk = 3
  Size = 2
  Absent = Absent
  Fine = Fine
  Bad = Bad
  Newline <- MCNewline
  CarriageReturn <- MCCarriageReturn
INVARIANTS
  StreamInv
  LogInv
  SuccessMeansAllSent
PROPERTIES
  TransitionEnds
