CONSTANTS
  w = w
  a = a
  b = b
  balanced = balanced
  saver = saver
  broken = broken
  keep = keep
  Watcher <- w
  Callers <- TwoCallers
  Profiles <- AllProfiles
  ValidProfiles <- GoodProfiles
  DefaultProfile <- balanced
  Keep <- keep
  Contents <- SomeFiles
  MaxOps = 3
  MaxEdits = 4
  MaxTime = 5
  MaxSkew = 1
SPECIFICATION ConfigSpec
INVARIANTS OnlyValidSnapshots FeaturesFollowConfig NoLostUpdate WatcherTypeOK
PROPERTIES NeverOlder EditTakesEffect StopReturns
CHECK_DEADLOCK FALSE
