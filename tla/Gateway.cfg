SPECIFICATION FairSpec
CONSTANTS
  p1 = p1
  p2 = p2
  Peer = {p1, p2}
  NoPeer = NoPeer
  Datagram <- AllDatagrams
  Probes = {"online", "refused", "error"}
  IdModulus = 2
  MaxRing = 3
INVARIANT TypeOK
INVARIANT LockHolder
INVARIANT CursorInRing
INVARIANT ListChecked
PROPERTY RemovedOnlyIfGone
PROPERTY BroadcastComplete
PROPERTY WalksEnd
PROPERTY ClientServed
PROPERTY RoundRobin
CHECK_DEADLOCK FALSE
