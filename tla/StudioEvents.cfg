\* A manager, a listener, a publisher and a monitor share the studio's events.
CONSTANTS
  Managers = {m1}
  Listeners = {e1}
  Publishers = {p1}
  Monitors = {o1}
  Cap = 2
  None = None
  m1 = m1
  m2 = m2
  e1 = e1
  e2 = e2
  p1 = p1
  o1 = o1
SPECIFICATION FairSpec
CHECK_DEADLOCK FALSE
INVARIANT TypeOK
PROPERTIES InOrder SendersGetOn EventsArrive
