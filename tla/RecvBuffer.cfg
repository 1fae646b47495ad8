SPECIFICATION FairSpec
CONSTANTS
  Sizes = {1, 2}
  Reads = {1, 3}
  Ops = {"Read", "Recv", "RecvNB"}
  Faults = {"eof", "rst", "cancel", "deadline"}
  MaxBytes = 4
  MaxBacklog = 2
INVARIANTS
  TypeOK
  NothingLost
  NoStall
PROPERTIES
  ImplementsStream
  AllDelivered
CHECK_DEADLOCK FALSE
