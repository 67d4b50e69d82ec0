CONSTANTS
  t1 = t1
  t2 = t2
  Threads <- TwoThreads
  Batch = 2
  RingPlaces = 2
  FlushMayFail = TRUE
  WritesMayTear = TRUE
  MaxWrites = 3
  MaxSessions = 3
SPECIFICATION WalSpec
INVARIANTS WalTypeOK FreshLogDetection EntriesAccountedFor  MetadataNeverOvercounts
PROPERTY LossBounded
SYMMETRY ThreadSymmetry
CHECK_DEADLOCK FALSE
