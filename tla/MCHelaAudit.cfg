SPECIFICATION HelaSpec
CONSTANTS
  Size = 4
  Limit = 3
  MaxRecords = 4
CHECK_DEADLOCK FALSE
INVARIANT EachRecordOnce
