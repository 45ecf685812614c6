\* A /meb session whose peer stops reading, beside a subscriber with fout.
CONSTANTS
  Writers = {meb}
  Readers = {meb, sub}
  TimeoutOut = {sub}
  SizeCap = 3
  InitLen = 3
  BufLens = {2}
  Gap = 1
  Flock = TRUE
  MaxMsgs = 3
  NoOne = NoOne
  Stalled = {meb}
  meb = meb
  sub = sub
SPECIFICATION FairSpec
INVARIANT NoNilHead
  
CHECK_DEADLOCK FALSE
