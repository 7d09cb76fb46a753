CONSTANTS
  Lines <- FileLines
  Builtin = {"int8", "int40", "int64", "int72"}
  SizeOf <- Sizes
  Wide = {"int40", "int64", "int72"}
  LongAlign <- Aligned
  StableUpTo = 16
  Options <- Commands
  None = None
  Running = Running
  MaxLines = 6
SPECIFICATION CSpec
INVARIANTS CTypeOK HeaderMatches PlainCompiles ExitTruthful ShortOnlyUnlinked
PROPERTY CompilerEnds
CHECK_DEADLOCK FALSE
