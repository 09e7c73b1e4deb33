SPECIFICATION Spec
CONSTANTS
  p1 = p1
  p2 = p2
  p3 = p3
  r1 = r1
  r2 = r2
  k1 = k1
  k2 = k2
  NoPeer = NoPeer
  NoRequest = NoRequest
  Peer = {p1, p2, p3}
  Members <- AllButJoiner
  Joiner = NoPeer
  Request = {r1, r2}
  Op = {"add", "keyword", "delete"}
  Target = {1}
  Keyword = {k1, k2}
  MAX_KEYWORDS = 2
  Preloaded = 2
  MaxCrashes = 1
SYMMETRY Symmetry
INVARIANT Convergence
INVARIANT NoDuplicatePhoto
INVARIANT OneWalk
PROPERTY ToldAll
 
PROPERTY ImplementsGallery
CHECK_DEADLOCK FALSE
