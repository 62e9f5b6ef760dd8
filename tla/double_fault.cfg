CONSTANTS
  NULL = NULL
  user1 = user1
  sst1 = sst1
  user2 = user2
  Client = {user1, sst1}
  Asid = {1}
  asid <- AsidOf
  Key <- TwoPages
  STACK = 31
  FRAMES = 2
  Val = {0, 1}
  Initial <- Blocks
  Written <- Data
  Failing = {}
SPECIFICATION PagerSpec
PROPERTIES ReadsNewPage
CHECK_DEADLOCK FALSE
