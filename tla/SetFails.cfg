CONSTANTS
  Addr = {a1, a2, a3, a4}
  Null = Null
  Freed = Freed
  Value = {v1, v2}
  Uninit = Uninit
  SlotMod = 4
  MayFail = TRUE
  ZeroMalloc = {"block", "null"}
  ZeroRealloc = {"block", "fail"}
  Field = {m, k}
  Mutable = {m}
  ArrayLen = {0, 1, 2}
  ResizeLen = {0, 1, 3, 4, 5}
  Index = {0, 1, 2}
  Exposed = {"set_count"}
  NullHandle = {"get", "get_item", "set", "set_item", "set_count", "destroy"}
  PassesLent = TRUE
  OutArg = OutArg
  NoField = NoField
  NoValue = NoValue
  MaxCopies = 1
  Absent = Absent
SPECIFICATION Spec
SYMMETRY Symmetric

PROPERTY FailedSetKeepsCount
CHECK_DEADLOCK FALSE
