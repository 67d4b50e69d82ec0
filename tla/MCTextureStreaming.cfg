CONSTANTS
  t1 = t1
  t2 = t2
  h1 = h1
  h2 = h2
  Threads <- TwoThreads
  Handles <- TwoHandles
  MipCount = 2
  LoadPct = 60
  EvictPct = 40
  MaxImages = 2
  MaxQueries = 3
SPECIFICATION Spec
INVARIANTS RegistryExact OnlySeededLoads FaultsAccounted
SYMMETRY ThreadSymmetry
