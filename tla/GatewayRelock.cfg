SPECIFICATION FairSpec
CONSTANTS
  p1 = p1
  p2 = p2
  Peer = {p1, p2}
  NoPeer = NoPeer
  Datagram <- Joins
  Probes = {"online", "refused"}
  IdModulus = 3
  MaxRing = 2
PROPERTY ClientAnswered
CHECK_DEADLOCK FALSE
