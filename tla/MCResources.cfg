SPECIFICATION Spec
CONSTANTS
  c1 = c1
  c2 = c2
  s1 = s1
  s2 = s2
  s3 = s3
  Controllers = {c1, c2}
  Buffers = {b1}
  VgStates = {s1, s2, s3}
  ControllerOf <- MCControllerOf
  Hashes = {h1, h2}
  NoHash = NoHash
  GStates = {g1, g2}
  Initial = g1
  NoGState = NoGState
INVARIANTS
  TypeOK
  CountsAreExact
  NoUseAfterFree
  BuffersReachTheirControllers
  CacheIsAFunction
  NothingLeaks
CHECK_DEADLOCK FALSE
