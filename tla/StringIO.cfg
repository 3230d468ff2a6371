SPECIFICATION Spec
CONSTANTS
  CharBit = 2
  Pow2 <- MCPow2
  ReverseByte <- MCReverseByte
  BitAnd <- MCAnd
  BitOr <- MCOr
  BitXor <- MCXor
  ShiftRange = 16
  MemSize = 20
  GpioStart = 128
  GpioEnd = 136
  GpioClear = 168
  GpioOn = 156
  Decode <- MCDecode
  UndefinedWords = {}
  WildLatches = {}
  InputWords = {}
  InputStrings <- MCInputStrings
  Literals <- MCLiterals
  BACKSLASH = 2
  Places = {0, 4}
  ImmediateSize = 12
  MultiplyImmediates = {1, 8}
  Products = {6, 128}
INVARIANT TypeOK
PROPERTY LiteralPrintsBack
