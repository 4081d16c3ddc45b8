SPECIFICATION FairSpec
CONSTANTS
  Window = 1
  NoQuota = NoQuota
  Admins = {1}
  Roster <- FullRoster
  RosterViews <- FullView
  Moves <- ChainMoves
  Quota = 2
  WarEnd = 2
  MaxAttacks = 3
  LastTick = 3
  MaxAborts = 1
  MaxLost = 0
INVARIANT RowsFollowRules
PROPERTY ImplementsLedger
PROPERTY EveryAttackStored
PROPERTY PendingIsSettled
