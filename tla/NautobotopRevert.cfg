SPECIFICATION Spec
CONSTANTS
  None = None
  Environments <- RevertEnvironments
  MaxEdits = 2
  MaxDrift = 0
  MaxFaults = 1
INVARIANT
  NoChangesIsTrue
