SPECIFICATION Spec
CONSTANTS
  Missing = Missing
  Torn = Torn
  MaxReports = 4
  MaxSeconds = 1
  MaxSlips = 2
INVARIANTS
  ReporterInv
  ReportsAreKept
