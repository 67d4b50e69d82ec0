CONSTANTS
  p1 = p1
  p2 = p2
  v1 = v1
  v2 = v2
  Producers <- TwoProducers
  Values <- TwoValues
  Capacity = 4
  MaxPushes = 3
  NoEntry = NoEntry
SPECIFICATION Spec
INVARIANT FifoDelivery
CHECK_DEADLOCK FALSE
