CONSTANTS
  t1 = t1
  t2 = t2
  s1 = s1
  s2 = s2
  Threads <- TwoThreads
  Shaders <- TwoShaders
  Grace = 2
  Stay = 1
  MaxBuilds = 3
  Loaders = {1, 2}
  Readers = {"r"}
  MaxLoads = 6
SPECIFICATION ReloadSpec
INVARIANTS NoUseAfterFree NoShaderLost ModelServed
SYMMETRY ThreadSymmetry
