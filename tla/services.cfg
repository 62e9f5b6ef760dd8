CONSTANTS
  NULL = NULL
  N = 2
  Char <- Letters
  Text <- Strings
  FINAL <- Final
  MaxRequests <- Requests
  Trapping = {1}
  Wild = {1}
  Faulty = {2}
  Failing <- FirstPrinter
SPECIFICATION SstFairSpec
INVARIANTS OutputExact NoLostAnswer PanicExplained
PROPERTIES ImplementsJoin EndsWhenAsked
CHECK_DEADLOCK FALSE
