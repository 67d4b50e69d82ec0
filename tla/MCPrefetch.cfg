CONSTANTS
  t1 = t1
  t2 = t2
  small = small
  large = large
  huge = huge
  buffer = buffer
  Threads <- TwoThreads
  Resources <- FourResources
  Streamable <- Textures
  Size <- Sizes
  Capacity = 3
  Window = 1
  Grace = 0
  Bindings <- Draws
  MaxFrames = 2
  MaxDraws = 2
SPECIFICATION Spec
INVARIANTS SafeToExecute CacheExact PredictionsAccounted
SYMMETRY ThreadSymmetry
