CONSTANTS
  a = a
  b = b
  k1 = k1
  k2 = k2
  balanced = balanced
  saver = saver
  g = g
  none = none
  Threads <- OneThread
  Keys <- TwoKeys
  Profiles <- TwoProfiles
  DefaultProfile <- balanced
  Absent = Absent
  NoThread = NoThread
  MaxCreated = 0
  Recorders <- OneThread
  AppCommands <- IndexedDraw
  GraphicsPipelines <- GraphicsPipeline
  ComputePipelines = {}
  NoPipeline <- none
  MaxCommands = 1
SPECIFICATION LayerSpec
INVARIANT ForwardedAsIs
CHECK_DEADLOCK FALSE
