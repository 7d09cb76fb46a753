CONSTANTS
  Contents <- MCContents
  Foreign <- MCForeign
  None = None
  NULL = NULL
  Cuts = {0, 5, 9}
  MaxOpen = 2
  MaxLost = 2
SPECIFICATION RSpec
INVARIANT TextIsTheStruct
CHECK_DEADLOCK FALSE
