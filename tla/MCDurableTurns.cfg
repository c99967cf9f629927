SPECIFICATION Spec
CONSTANTS
  Requests = {r1}
  Attempts = {a1, a2}
  Envs = {e1, e2}
  Heroes = {h1, h2}
  Nobody = Nobody
  Unbound = Unbound
  MaxBoots = 2
  MaxTimelines = 1
  MaxEvents = 2
SYMMETRY AttemptSymmetry
INVARIANTS TerminalAfterReceipt EngineWhereClaimed
PROPERTIES HistoryFrozen ImplementsReceipts
CHECK_DEADLOCK FALSE
