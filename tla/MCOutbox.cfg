SPECIFICATION Outbox
CONSTANTS
  GuestOps = {o1, o2}
  Callers = {c1, c2, c3}
  MaxSeatEpoch = 4
  OthersUntil = 0
  BansUntil = 1
  NoOp = NoOp
SYMMETRY Alike
INVARIANT IntentsKept
CHECK_DEADLOCK FALSE
