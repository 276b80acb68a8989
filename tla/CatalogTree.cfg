SPECIFICATION CategorySpec
CONSTANTS
  e1 = e1
  MaxSequence = 1
  MaxClock = 3
  MaxDepth = 3
  Products = {}
  Editors = {e1}
  NoCategory = NoCategory
CHECK_DEADLOCK FALSE
INVARIANTS
  IdsGrow
  SubtreeByPath
