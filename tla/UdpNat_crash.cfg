SPECIFICATION Spec
CONSTANTS
  Clients = {c1, c2}
  Dests = {d1}
  Ignored = {}
  Routed = {}
  ForwardTo = f
  Socks = {s1, s2}
  Workers = {w1}
  Modes = {"tun"}
  Faults = {"listen"}
  MaxPackets = 2
  None = None
INVARIANT NoCrash
CHECK_DEADLOCK FALSE
