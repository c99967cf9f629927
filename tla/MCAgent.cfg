SPECIFICATION Agent
CONSTANTS
  c1 = c1
  c2 = c2
  c3 = c3
  Calls = {c1, c2}
  Kind <- StoryAndDie
  Plans <- Together
  Wanted = 2
  n1 = n1
  n2 = n2
  Rolls = {n1, n2}
  Unprepared = Unprepared
  MaxRounds = 2
  MaxResumes = 2
  MaxRevision = 2
  p = p
  q = q
  TableCampaigns = {p, q}
  TableTurns = {w}
  Tokens = {x}
  FullHp = 1
  MaxBouts = 2
  MemoryTurns = {u1, u2}
  MaxFacts = 3
SYMMETRY Alike
INVARIANTS ResumeConfirms ToldOneWay TableHolds MemoryOfTimeline
PROPERTIES NothingBeyondTheCommands RecordsFrozen
CHECK_DEADLOCK FALSE
