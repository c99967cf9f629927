SPECIFICATION Spec
CONSTANTS
  c1 = c1
  c2 = c2
  c3 = c3
  Calls = {c1}
  Kind <- OneFight
  Plans <- Together
  Wanted = 2
  Rolls = {n1, n2}
  Unprepared = Unprepared
  MaxRounds = 2
  MaxResumes = 1
  MaxRevision = 2
INVARIANT RefusedMeansNotApplied
CHECK_DEADLOCK FALSE
