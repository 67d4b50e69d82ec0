CONSTANTS
  t1 = t1
  t2 = t2
  t3 = t3
  f = f
  g = g
  h = h
  c1 = c1
  c2 = c2
  owner = owner
  a = a
  b = b
  c = c
  Targets <- ThreeTargets
  Functions <- ThreeFunctions
  Genuine <- Originals
  Places = 2
  Cores <- TwoCores
  Core <- owner
  Others <- ThreeOthers
  MaxTransitions = 6
SPECIFICATION CoreSpec
INVARIANTS TableMatchesMemory GenuineRestored LoadedWhileNeeded OneWalk EveryTransitionLogged CountMatchesLog
PROPERTY OnlyValidMoves
SYMMETRY OtherSymmetry
CHECK_DEADLOCK FALSE
