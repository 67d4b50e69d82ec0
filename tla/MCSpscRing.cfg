CONSTANTS
  p1 = p1
  p2 = p2
  v1 = v1
  v2 = v2
  Producers <- OneProducer
  Values <- TwoValues
  Capacity = 4
  MaxPushes = 6
  NoEntry = NoEntry
SPECIFICATION FairSpec
INVARIANTS FifoDelivery NoSlotRace
PROPERTIES ImplementsFifo EventuallyDelivered
CHECK_DEADLOCK FALSE
