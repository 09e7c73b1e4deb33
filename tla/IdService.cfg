SPECIFICATION FairSpec
CONSTANTS
  p1 = p1
  p2 = p2
  p3 = p3
  t1 = t1
  t2 = t2
  NoThread = NoThread
  Members <- ThreePeers
  Thread = {t1, t2}
  IdModulus = 3
  MaxServed = 3
  MaxGiveUps = 2
INVARIANT TypeOK
INVARIANT UniqueIds
 
PROPERTY ShutdownReachesAll
CHECK_DEADLOCK FALSE
