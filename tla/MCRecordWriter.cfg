SPECIFICATION FairRecordSpec
CONSTANTS
  Record = {r1, r2, r3, r4}
  Writer = {w1, w2}
  Caller = {c1, c2}
  Capacity = 2
  MaxRecords = 1
  None = None
CHECK_DEADLOCK FALSE
INVARIANTS RecordTypeOK NoSendOnClosed
PROPERTIES PruneLeavesTheNewest StopReturns KeepsTheLog
