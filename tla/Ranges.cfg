SPECIFICATION MCSpec
CONSTANTS
  MaxId = 5
  MaxRanges = 3
  Defaults <- MCDefaults
  NoRange = NoRange
  s1 = s1
  s2 = s2
  SegmentRanges = {s1, s2}
  MaxNumber = 3
  RangeEnvs <- MCRangeEnvs
INVARIANTS
  NeverUsedIsLowest
  AllowedAvoidsNative
  RangesAddUp
CHECK_DEADLOCK FALSE
