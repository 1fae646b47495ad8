SPECIFICATION FairSpec
CONSTANTS
  MaxBytes = 2
  FaultSets = {{}, {"rst", "idle"}, {"rst"}}
  Hop <- MCHop
  EndToEnd = {"Accept"}
  MaxListed = 2
  MaxBody = 2
  Ids = {n1, n2, n3}
  MaxCrawls = 2
  Addrs = {"a", "b"}
  Scids = {"i1", "i2", "i3"}
  MaxAccepts = 2
  MaxCands = 2
  Ifs = {"wlan"}
  Peers = {"p"}
  Readers = {r1, r2, r3}
  Tries = 2
  MaxPackets = 2
  Tasks = {t1, t2}
  Topics = {"net"}
  MaxHandlers = 2
INVARIANTS
  EdgesTypeOK
  
  
  CleanMeansComplete
  
  
PROPERTIES
  SplicedReturns
  CrawlEnds
  
  OfferAnswered
  
CHECK_DEADLOCK FALSE
