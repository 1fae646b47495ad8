SPECIFICATION FairStream
CONSTANTS
  MaxBytes = 2
  FaultSets = {{}, {"rst", "idle"}, {"rst"}}
PROPERTIES
  ProxyToReturns
CHECK_DEADLOCK FALSE
