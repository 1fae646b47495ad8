SPECIFICATION FairSpec
CONSTANTS
  MaxBytes = 1
  MaxHeader = 1
  HLens = {1}
  FaultSets = {{}}
PROPERTY FINPropagates
CHECK_DEADLOCK FALSE
