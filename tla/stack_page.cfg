CONSTANTS
  NULL = NULL
  user1 = user1
  sst1 = sst1
  user2 = user2
  Client = {user1}
  Asid = {1}
  asid <- AsidOf
  Key <- WithStack
  STACK = 31
  FRAMES = 1
  Val = {0, 1}
  Initial <- Blocks
  Written <- WithStack
  Failing = {}
SPECIFICATION PagerSpec
PROPERTIES WrittenBack
CHECK_DEADLOCK FALSE
