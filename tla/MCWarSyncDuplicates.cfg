SPECIFICATION Spec
CONSTANTS
  Window = 1
  NoQuota = NoQuota
  Admins = {1, 2}
  Roster <- FullRoster
  RosterViews <- FullView
  Moves <- FewMoves
  Quota = 2
  WarEnd = 2
  MaxAttacks = 2
  LastTick = 3
  MaxAborts = 1
  MaxLost = 0
INVARIANT NoDuplicates
