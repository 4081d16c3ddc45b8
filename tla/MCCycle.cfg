SPECIFICATION CycleSpec
CONSTANTS
  p = p
  t1 = t1
  t2 = t2
  Members = {p}
  RoundEnd <- MCRoundEnd
  WeekendEnd <- MCWeekendEnd
  LastDay = 2
  Amounts = {1, 2}
  Tasks = {t1, t2}
  MaxResets = 2
  LegacyDays = {1}
  r1 = r1
  r2 = r2
  p1 = p1
  p2 = p2
  Recalcs = {r1, r2}
  Panels = {p1}
  Wars = {1, 2}
  Attacks = {1, 2}
  WarOf <- TwoAttacks
  Polled = {2}
  InitialRows <- SomeRows
  InitialJudged <- SomeJudged
  InitialGaps = {{}, {2}}
  MaxId = 3
  MaxEdits = 2
  Nobody = Nobody
  Sections = {"rounds", "raids", "recalculation"}
SYMMETRY Interchangeable
INVARIANT AccusedByLastAnswer
PROPERTY BoundaryMovesForward
PROPERTY OverspentOnlyWhenStale
INVARIANT OneViolationPerAttack
PROPERTY ExactIfUndisturbed
PROPERTY IncompleteStopsAll
