CONSTANTS
  NULL = NULL
  user1 = user1
  sst1 = sst1
  user2 = user2
  Client = {user1, sst1, user2}
  Asid = {1, 2}
  asid <- AsidOf
  Key <- ThreePages
  STACK = 31
  FRAMES = 2
  Val = {0, 1}
  Initial <- Blocks
  Written <- Data
  Failing = {2}
SPECIFICATION PagerSpec
INVARIANTS TablesAgree OneFrameEach
PROPERTIES ImplementsMemory
SYMMETRY OfOne
CHECK_DEADLOCK FALSE
