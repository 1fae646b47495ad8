SPECIFICATION DiscSpec
CONSTANTS
  Ifs = {"wlan"}
  Peers = {"p"}
  Readers = {r1, r2, r3, r4, r5}
  Tries = 2
  MaxPackets = 0
INVARIANT OneListener
CHECK_DEADLOCK FALSE
