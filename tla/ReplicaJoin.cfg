SPECIFICATION FairSpec
CONSTANTS
  p1 = p1
  p2 = p2
  p3 = p3
  r1 = r1
  k1 = k1
  NoPeer = NoPeer
  NoRequest = NoRequest
  Peer = {p1, p2, p3}
  Members <- AllButJoiner
  Joiner = p3
  Request = {r1}
  Op = {"add", "keyword"}
  Target = {1, 2}
  Keyword = {k1}
  MAX_KEYWORDS = 2
  Preloaded = 2
  MaxCrashes = 1
INVARIANT TypeOK
INVARIANT JoinerHasOld
 
PROPERTY JoinerEnters
CHECK_DEADLOCK FALSE
