SPECIFICATION FairSpec
CONSTANT Arrivals <- MCArrivals
INVARIANTS
  Bookkeeping
PROPERTIES
  SentUnlessJoined
  PacketStable
  EveryoneFinishes
