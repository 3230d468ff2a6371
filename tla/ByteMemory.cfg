SPECIFICATION Spec
CONSTANTS
  CharBit = 2
  Pow2 <- MCPow2
  ReverseByte <- MCReverseByte
  BitAnd <- MCAnd
  BitOr <- MCOr
  BitXor <- MCXor
  ShiftRange = 16
  MemSize = 8
  GpioStart = 128
  GpioEnd = 136
  GpioClear = 168
  GpioOn = 156
  Decode <- MCDecode
  UndefinedWords = {}
  WildLatches = {}
  InputWords = {}
  InputStrings = {}
  Images <- MCImages
  Accesses <- MCAccesses
  StoredWords = {27}
INVARIANT TypeOK
PROPERTY RefinesFlatMemory
