SPECIFICATION FairSpec
CONSTANTS
  Lengths <- UpToThree
  MaxMessages = 3
  Capacity = 4
INVARIANT TypeOK
 
INVARIANT ResultTells
PROPERTY CallsReturn
CHECK_DEADLOCK FALSE
