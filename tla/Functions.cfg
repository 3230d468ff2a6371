SPECIFICATION CallsSpec
CONSTANTS
  BITS = 6
  Registers = {0, 7, 15}
  Constants = {0, 1, 9, 32644, 65284, 143, 144, 159, 160, 170, 255, 256, 257, 258, 260, 510, 576, 1020, 1088, 2304, 3072, 36864, 37376, 65280, 65281}
  Operands <- MCOperands
INVARIANTS
  FieldsOfReversedWord
  SignExtendKeepsValue
  RotateMovesEachBit
  DecodesToItsMeaning
  GroupsByPrecedence
