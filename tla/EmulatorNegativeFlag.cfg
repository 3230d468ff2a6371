SPECIFICATION TraceSpec
CONSTANTS
  CharBit = 2
  Pow2 <- MCPow2
  ReverseByte <- MCReverseByte
  BitAnd <- MCAnd
  BitOr <- MCOr
  BitXor <- MCXor
  ShiftRange = 16
  MemSize = 24
  GpioStart = 128
  GpioEnd = 136
  GpioClear = 168
  GpioOn = 156
  Decode <- MCDecode
  UndefinedWords = {0, 16, 200}
  WildLatches <- MCWildLatches
  InputWords = {0, 255}
  InputStrings <- MCInputStrings
  Images <- MCImages
  NoResult = NoResult
  Program = {1, 2, 8}
  ProgramLength = 3
  EndingProgram = {}
INVARIANTS
  NegativeFlagIsLast
CHECK_DEADLOCK FALSE
