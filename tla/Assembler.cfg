SPECIFICATION FairSpec
CONSTANTS
  Programs <- MCPrograms
  LineNames = {"l1", "l2", "b1", "bne2", "b3", "ldr300", "ldr777", "ldr5", "add", "mov257",
               "mul", "printn", "invalid"}
  LastName = "andeq"
  Length = 3
  OldContents <- MCOld
  PoolLimit = 2
  Symbols = {"L1", "L2", "L3"}
  TABLE_SIZE = 2
  hash <- MCHash
INVARIANTS
  TypeOK
  PassesAgree
  BackwardBranchesHit
  LiteralsReached
PROPERTIES
  Terminates
CHECK_DEADLOCK FALSE
