CONSTANTS
  Lines <- FittingLines
  Builtin = {"int8", "int40", "int64", "int72"}
  SizeOf <- Sizes
  Wide = {"int40", "int64", "int72"}
  LongAlign <- Aligned
  StableUpTo = 16
  Options <- Commands
  None = None
  Running = Running
  MaxLines = 4
SPECIFICATION CSpec
INVARIANT StructFits
CHECK_DEADLOCK FALSE
