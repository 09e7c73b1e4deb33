SPECIFICATION FairSpec
CONSTANTS
  p1 = p1
  p2 = p2
  p3 = p3
  Peer = {p1, p2, p3}
  NoPeer = NoPeer
  Datagram <- JoinsReports
  Probes = {"online"}
  IdModulus = 3
  MaxRing = 3
PROPERTY BroadcastEnds
CHECK_DEADLOCK FALSE
