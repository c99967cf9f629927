SPECIFICATION Spec
CONSTANTS
  Requests = {r1}
  Attempts = {a1, a2}
  Envs = {e1}
  Heroes = {h1}
  Nobody = Nobody
  Unbound = Unbound
  MaxBoots = 1
  MaxTimelines = 0
  MaxEvents = 1
INVARIANT RunningIsDelivered
CHECK_DEADLOCK FALSE
