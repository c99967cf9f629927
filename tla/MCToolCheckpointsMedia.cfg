SPECIFICATION FairSpec
CONSTANTS
  c1 = c1
  c2 = c2
  c3 = c3
  Calls = {c1, c2, c3}
  Kind <- Illustrated
  Plans <- FightOrDie
  Wanted = 1
  Rolls = {n1, n2}
  Unprepared = Unprepared
  MaxRounds = 2
  MaxResumes = 2
  MaxRevision = 1
INVARIANTS EffectsAsConfirmed CompleteAndInOrder
PROPERTY TurnEnds
CHECK_DEADLOCK FALSE
