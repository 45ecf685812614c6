\* A publisher, a meb session and a controller on a channel that managers close and delete.
CONSTANTS
  Sessions = {p1, m1, k1}
  Channels = {c1}
  Tracks = {t1}
  Kind <- PairKind
  Chn <- PairChn
  Trk <- PairTrk
  Multi = {}
  Static = {c1}
  NumPubs = 2
  NumSubs = 5
  Managed = TRUE
  None = None
  p1 = p1
  p2 = p2
  s1 = s1
  s2 = s2
  m1 = m1
  k1 = k1
  c1 = c1
  c2 = c2
  t1 = t1
SPECIFICATION FairSpec
INVARIANT OneTrack
PROPERTIES  ChannelsRest
CHECK_DEADLOCK FALSE
