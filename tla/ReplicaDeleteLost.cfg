SPECIFICATION Spec
CONSTANTS
  p1 = p1
  p2 = p2
  p3 = p3
  r1 = r1
  r2 = r2
  k1 = k1
  NoPeer = NoPeer
  NoRequest = NoRequest
  Peer = {p1, p2, p3}
  Members <- AllButJoiner
  Joiner = NoPeer
  Request = {r1, r2}
  Op = {"add", "delete"}
  Target = {1, 2, 3}
  Keyword = {k1}
  MAX_KEYWORDS = 2
  Preloaded = 0
  MaxCrashes = 0
SYMMETRY Symmetry
INVARIANT Convergence
CHECK_DEADLOCK FALSE
