SPECIFICATION FairSpec
CONSTANTS
  Clients = {c1, c2}
  Dests = {d1, d2, d3}
  Ignored = {d2}
  Routed = {d3}
  ForwardTo = f
  Socks = {s1, s2}
  Workers = {w1, w2}
  Modes = {"forward", "tun", "tproxy"}
  Faults = {"listen", "resolve", "close"}
  MaxPackets = 2
  None = None
INVARIANTS
  TypeOK
  TableExact
  
PROPERTIES
  IdleFreed
CHECK_DEADLOCK FALSE
