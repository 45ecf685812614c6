\* Two clicks of Start, one or two of Stop, and what comes in between.
CONSTANTS
  MaxStarts = 2
  MaxStops = 2
  MaxFrames = 7
  MaxChunks = 3
  MaxMimes = 2
  MaxDecodeStops = 1
SPECIFICATION WebSpec
CHECK_DEADLOCK FALSE
INVARIANTS WebTypes Throttle
PROPERTY FramesShown
