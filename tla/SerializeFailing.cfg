CONSTANTS
  Addr = {a1, a2, a3, a4, a5, a6, a7}
  Null = Null
  Freed = Freed
  Uninit = Uninit
  Value = {0, 1, 2, 3, 4, 5, 6, 7, 8, 9, Null, a1, a2, a3, a4, a5, a6, a7}
  SlotMod = 10
  MayFail = TRUE
  ZeroMalloc = {"block", "null"}
  ZeroRealloc = {"block"}
  Layouts <- Mixed
  Word = {1, 2}
  ArrayLen = {0, 1, 2}
  PassesNull = TRUE
SPECIFICATION Spec
INVARIANTS RoundTripUnlessShort SizesAgree
PROPERTIES ObjectUntouched LeakOnlyWhenSizeWrong FaultsKnown
CHECK_DEADLOCK FALSE
