SPECIFICATION Spec
CONSTANTS
  r1 = r1
  r2 = r2
  p1 = p1
  p2 = p2
  Recalcs = {r1, r2}
  Panels = {p1}
  Wars = {1, 2}
  Attacks = {1, 2}
  WarOf <- TwoAttacks
  Polled = {2}
  InitialRows <- SomeRows
  InitialJudged <- SomeJudged
  InitialGaps = {{}, {2}}
  MaxId = 3
  MaxEdits = 2
  Nobody = Nobody
PROPERTY RecalculationKeepsManual
