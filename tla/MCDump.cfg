CONSTANTS
  MaxLen = 8
  Lists <- ShortLists
  MaxCodons = 96
SPECIFICATION DumpSpec
INVARIANTS WholeText Fits
CHECK_DEADLOCK FALSE
