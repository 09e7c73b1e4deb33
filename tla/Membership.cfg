SPECIFICATION FairSpec
CONSTANTS
  a = a
  b = b
  c = c
  Peer = {a, b, c}
  Founder = a
  NoPeer = NoPeer
  MaxEnds = 1
INVARIANT TypeOK
INVARIANT MutuallyKnown
INVARIANT Listed
INVARIANT OwnRing
CHECK_DEADLOCK FALSE
PROPERTY DeadForgotten
