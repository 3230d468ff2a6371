SPECIFICATION FairNoStaleStoreSpec
CONSTANTS
  CharBit = 2
  Pow2 <- MCPow2
  ReverseByte <- MCReverseByte
  BitAnd <- MCAnd
  BitOr <- MCOr
  BitXor <- MCXor
  ShiftRange = 16
  MemSize = 24
  GpioStart = 128
  GpioEnd = 136
  GpioClear = 168
  GpioOn = 156
  Decode <- MCDecode
  UndefinedWords = {0, 16, 200}
  WildLatches <- MCWildLatches
  InputWords = {0, 255}
  InputStrings <- MCInputStrings
  Images <- MCAllImages
  NoResult = NoResult
  Program = {1, 2, 3, 4, 5, 6, 7, 10}
  ProgramLength = 3
  EndingProgram = {1, 3, 8, 17, 18}
INVARIANTS
  TraceTypeOK
  NothingStale
PROPERTIES
  RefinesDelaySlotMachine
  EndingProgramsEnd
CHECK_DEADLOCK FALSE
