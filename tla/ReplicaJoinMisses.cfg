SPECIFICATION Spec
CONSTANTS
  p1 = p1
  p2 = p2
  p3 = p3
  r1 = r1
  k1 = k1
  NoPeer = NoPeer
  NoRequest = NoRequest
  Peer = {p1, p2, p3}
  Members <- AllButJoiner
  Joiner = p3
  Request = {r1}
  Op = {"add"}
  Target = {1, 2, 3}
  Keyword = {k1}
  MAX_KEYWORDS = 2
  Preloaded = 1
  MaxCrashes = 0
INVARIANT Convergence
CHECK_DEADLOCK FALSE
