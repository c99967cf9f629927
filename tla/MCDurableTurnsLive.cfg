SPECIFICATION FairSpec
CONSTANTS
  Requests = {r1}
  Attempts = {a1, a2}
  Envs = {e1}
  Heroes = {h1}
  Nobody = Nobody
  Unbound = Unbound
  MaxBoots = 2
  MaxTimelines = 0
  MaxEvents = 2
PROPERTIES DisconnectFreesLane WaitingIsServed
CHECK_DEADLOCK FALSE
