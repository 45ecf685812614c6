\* Every loader on a file of three tags; two pauses or seeks and two broken
\* connections at any moment; chunks smaller and larger than the stash.
CONSTANTS
  Kinds = {"fetch", "moz", "range", "ws"}
  Size = 5
  Tags = {1, 3, 5}
  Keyframes = {1}
  MaxChunk = 3
  StashInitial = 1
  StashSizes = {4}
  InitBuf = 3
  Slack = 1
  MaxOps = 2
  MaxFaults = 2
  None = None
SPECIFICATION FairSpec
CHECK_DEADLOCK FALSE
INVARIANTS TypeOK InOrder
PROPERTIES PausedStops EndReported
