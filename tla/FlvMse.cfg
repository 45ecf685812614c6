\* Two tracks of four segments in all, two seeks and a changed stream, with
\* the clean-up of old segments and a buffer with room for two.
CONSTANTS
  Defer = FALSE
  AutoCleanup = TRUE
  MaxBackward = 1
  MinBackward = 1
  Quota = 2
  MaxSegments = 4
  MaybeAudio = {2}
  Changing = {"video"}
  MaxSeeks = 2
  NoData = NoData
SPECIFICATION Spec
CHECK_DEADLOCK FALSE
INVARIANTS TypeOK NothingLost  WakeupComing
