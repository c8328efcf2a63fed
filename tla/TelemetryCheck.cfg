\* The CRC of nine bytes: one report and one status take it to the check.
CONSTANTS
  StatusSize = 11
  DataSize = 12
  LongFlips = 0
  ShortFlips = 0
  MaxReports = 1
  MaxStatus = 1
  MaxRequests = 0
SPECIFICATION Spec
INVARIANT CheckValue
CHECK_DEADLOCK FALSE
