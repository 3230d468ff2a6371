SPECIFICATION Spec
CONSTANTS
  Symbols <- MCSymbols
  Addresses = {0, 4}
  TABLE_SIZE = 41
  hash <- MCHash
  ChecksNext = TRUE
PROPERTIES
  InsertedIsFound
