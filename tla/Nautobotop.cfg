SPECIFICATION FairSpec
CONSTANTS
  None = None
  Environments <- MCEnvironments
  MaxEdits = 2
  MaxDrift = 1
  MaxFaults = 1
INVARIANTS
  NeededFirst

  
  
  
