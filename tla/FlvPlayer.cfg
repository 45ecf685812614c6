CONSTANTS
  Workers = {FALSE, TRUE}
  End = 3
  PartStart <- TwoParts
  Keyframes = {0, 2}
  LazyMax = 2
  Recover = 1
  MaxSeeks = 2
  MaxLag = 1
  None = None
SPECIFICATION FairSpec
CHECK_DEADLOCK FALSE
INVARIANTS TypeOK 
 
