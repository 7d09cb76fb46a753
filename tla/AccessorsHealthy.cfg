CONSTANTS
  Addr = {a1, a2, a3, a4, a5}
  Null = Null
  Freed = Freed
  Value = {v1, v2}
  Uninit = Uninit
  SlotMod = 4
  MayFail = FALSE
  ZeroMalloc = {"block"}
  ZeroRealloc = {"block"}
  Field = {m1, m2, k}
  Mutable = {m1, m2}
  ArrayLen = {0, 2}
  ResizeLen = {0, 1}
  Index = {0, 1}
  Exposed = {"set_count", "immutable_set_item"}
  NullHandle = {"set", "set_item", "set_count"}
  PassesLent = FALSE
  OutArg = OutArg
  NoField = NoField
  NoValue = NoValue
  MaxCopies = 1
  Absent = Absent
SPECIFICATION Spec
SYMMETRY Symmetric
INVARIANTS TypeOK AllFit NoFault NoLeak
PROPERTIES BorrowStable CopyFaithful ImplementsContract
