\* A status of fourteen bytes with every one or two of its bits changed, a
\* short one with up to three, cut anywhere, behind one to nine other bytes.
\* Three reports of gpsd, or one and two statuses and a request (Bounded).
CONSTANTS
  StatusSize = 14
  DataSize = 20
  LongFlips = 2
  ShortFlips = 3
  MaxReports = 3
  MaxStatus = 2
  MaxRequests = 1
SPECIFICATION Spec
CONSTRAINT Bounded
INVARIANT TypeOK
INVARIANT OneReport
INVARIANT NoOldReport
INVARIANT CrcIsRemainder
INVARIANT DamageDetected
INVARIANT ShiftRepaired
INVARIANT StartJustified
INVARIANT ServedWhole
INVARIANT DriftOfLastStatus
PROPERTY TimesInOrder
CHECK_DEADLOCK FALSE
