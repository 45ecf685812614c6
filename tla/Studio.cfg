\* Two channels, one static, under a license for one publishing channel.
CONSTANTS
  Sessions = {p1, p2, s1, s2}
  Channels = {c1, c2}
  Tracks = {t1}
  Kind <- TwoKind
  Chn <- TwoChn
  Trk <- TwoTrk
  Multi = {}
  Static = {c1}
  NumPubs = 1
  NumSubs = 1
  Managed = FALSE
  None = None
  p1 = p1
  p2 = p2
  s1 = s1
  s2 = s2
  m1 = m1
  k1 = k1
  c1 = c1
  c2 = c2
  t1 = t1
SPECIFICATION Spec
INVARIANTS TypeOK UsingHasOwner OnKnownChannel Licenses
CHECK_DEADLOCK FALSE
