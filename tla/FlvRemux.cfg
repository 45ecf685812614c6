CONSTANTS
  File <- TwoParts
  PartStart <- TwoStarts
  Declared = {{"audio", "video"}, {"video"}}
  Ref <- Reference
  Tolerance = 1
  MaxChunk = 4
  MaxSeeks = 2
  MaxPauses = 2
  None = None
SPECIFICATION Spec
CHECK_DEADLOCK FALSE
INVARIANTS TypeOK EachOnce LoneLeft KeepsTime
