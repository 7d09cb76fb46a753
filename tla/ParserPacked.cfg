CONSTANTS
  Lines <- AllLines
  Builtin = {"int8", "int64"}
  SizeOf <- Sizes
  StableUpTo = 16
  None = None
  MaxLines = 7
SPECIFICATION Spec
INVARIANT PackedHonored
CHECK_DEADLOCK FALSE
