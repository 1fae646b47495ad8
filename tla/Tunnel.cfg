SPECIFICATION FairSpec
CONSTANTS
  MaxBytes = 2
  MaxHeader = 1
  HLens = {0, 1, 2}
  FaultSets = {{}, {"rst", "short"}, {"idle"}, {"quic"}, {"call"}}
INVARIANTS
  TypeOK
  NilMeansComplete
PROPERTIES
  BufferedFINPropagates
  ErrorTerminates
  FINsTerminate
  
CHECK_DEADLOCK FALSE
