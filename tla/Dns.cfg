SPECIFICATION FairSpec
CONSTANTS
  Names = {n1, n2, l1}
  LocalNames = {l1}
  Probe = probe
  Addrs = {a1}
  NServers = 3
  Workers = {w1, w2}
  MaxQueries = 2
  None = None
INVARIANTS
  TypeOK
  AddrMapSound
  
PROPERTIES
  EveryQueryEnds
CHECK_DEADLOCK FALSE
