\* A listener hears of two sessions on its channel, which a manager may delete.
CONSTANTS
  Listeners = {e1}
  Peers = {p1, p2}
  Cap = 2
  Managed = TRUE
  None = None
  e1 = e1
  p1 = p1
  p2 = p2
SPECIFICATION FairSpec
CHECK_DEADLOCK FALSE
INVARIANTS TypeOK  
PROPERTIES  BrokersEnd
