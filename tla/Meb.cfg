\* Two /meb sessions store under the lock; one of them also reads.
CONSTANTS
  Writers = {m1, m2}
  Readers = {m1}
  TimeoutOut = {}
  SizeCap = 4
  InitLen = 4
  BufLens = {}
  Gap = 2
  Flock = TRUE
  MaxMsgs = 5
  NoOne = NoOne
  Stalled = {}
  m1 = m1
  m2 = m2
SPECIFICATION Spec
INVARIANTS TypeOK HoldsLastMessages
PROPERTY ImplementsFeed
CHECK_DEADLOCK FALSE
