SPECIFICATION Spec
CONSTANTS
  Programs <- MCPrograms
  LineNames = {"l1", "b1", "add"}
  LastName = "andeq"
  Length = 4
  OldContents <- MCNew
  PoolLimit = 2
  Symbols = {"L1", "L2", "L3"}
  TABLE_SIZE = 2
  hash <- MCHash
INVARIANTS
  ForwardBranchesHit
CHECK_DEADLOCK FALSE
