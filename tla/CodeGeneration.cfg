SPECIFICATION Spec
CONSTANTS
  BasicLines <- MCBasicLines
  Programs <- MCPrograms
  NUM_GP_REGISTERS = 5
  NumberOf <- MCNumberOf
  ArgumentOf <- MCArgumentOf
  StringVariables = {"S$", "L$"}
  Hash <- MCHash
  Lines = {1,2,3,4,5,6,7,8,9,10,11,12,13,14,15,16,17,18,19,20,21,22,23,24,25,26,27,28,29,30,31,32}
  Length = 2
  LongLines = {1,2,3,4,5,6,7,31,32}
INVARIANTS
  TypeOK
  VariablesKeepRegisters
  SafeExpressionsComputed
  ScratchReleased
  BranchesFindOneLabel
CHECK_DEADLOCK FALSE
