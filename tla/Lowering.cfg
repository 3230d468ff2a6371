SPECIFICATION Spec
CONSTANTS
  Programs <- MCPrograms
  StackRoom = 2
  Kinds = {"do", "loop", "while", "longwhile", "wend",
           "for", "longfor", "widefor", "badfor", "next", "nextY", "on",
           "mentionsON", "if", "label", "text", "end"}
  Length = 3
  LoopKinds = {"do", "loop", "while", "wend", "for", "next"}
  LoopLength = 5
INVARIANTS
  TypeOK
  LabelFamiliesApart
PROPERTIES
  RefinesStructuredProgram
CHECK_DEADLOCK FALSE
