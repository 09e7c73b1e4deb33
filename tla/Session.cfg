SPECIFICATION FairSpec
CONSTANTS
  Size = 2
  Capacity = 2
  MaxCommands = 4
  MaxKills = 1
INVARIANT InStep
INVARIANT PhotoWhole
 
INVARIANT NoticesSoon
PROPERTY CommandEnds
CHECK_DEADLOCK FALSE
