CONSTANTS
  a = a
  b = b
  k1 = k1
  k2 = k2
  balanced = balanced
  saver = saver
  g = g
  none = none
  Threads <- TwoThreads
  Keys <- TwoKeys
  Profiles <- TwoProfiles
  DefaultProfile <- balanced
  Absent = Absent
  NoThread = NoThread
  MaxCreated = 5
  Recorders <- TwoThreads
  AppCommands <- Draws
  GraphicsPipelines <- GraphicsPipeline
  ComputePipelines = {}
  NoPipeline <- none
  MaxCommands = 2
SPECIFICATION LayerSpec
INVARIANTS LookupExact NoStaleEntry RoutingTypeOK FallbackExact StateOnlyForLive CountersComplete
PROPERTY ProfileCarriesOver
SYMMETRY ThreadSymmetry
