SPECIFICATION FairSpec
CONSTANTS
  Conns = {c1, c2}
  Procs = {p1}
  Header = 2
  BufSize = 6
  Loads <- MCLoads
  None = None
INVARIANTS
  TypeOK
  
  TableExact
  SentToSubscribers

  
CHECK_DEADLOCK FALSE
