\* A ping beside an event.
CONSTANTS
  Listeners = {e1, e2}
  Peers = {p1}
  Cap = 2
  Managed = FALSE
  None = None
  e1 = e1
  e2 = e2
  p1 = p1
SPECIFICATION Spec
CHECK_DEADLOCK FALSE
INVARIANT OneWriter
