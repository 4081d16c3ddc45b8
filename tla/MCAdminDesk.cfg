SPECIFICATION DeskSpec
CONSTANTS
  p = p
  q = q
  t1 = t1
  t2 = t2
  u1 = u1
  u2 = u2
  s1 = s1
  s2 = s2
  Tags = {p, q}
  Ids = {1, 2}
  Points = {1}
  Slots = {s1, s2}
  Budgets <- MCBudgets
  Users = {u1, u2}
  Players = {t1, t2}
  Workers = {s1, s2}
  MaxLinks = 2
  Sections = {"points", "links"}
SYMMETRY Interchangeable
INVARIANT PointsAsConfirmed
INVARIANT InheritedOnlyFromStale
PROPERTY StoredAgainOnlyOverlapping
INVARIANT SecondOwnerByTokenOrRace
INVARIANT RegistersOnceUnlessRace
