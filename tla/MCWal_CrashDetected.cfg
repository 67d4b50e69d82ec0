CONSTANTS
  t1 = t1
  t2 = t2
  Threads <- OneThread
  Batch = 2
  RingPlaces = 8
  FlushMayFail = FALSE
  WritesMayTear = FALSE
  MaxWrites = 3
  MaxSessions = 3
SPECIFICATION WalSpec
INVARIANT CrashDetected
CHECK_DEADLOCK FALSE
