SPECIFICATION FairSpec
CONSTANTS
  Tags = {1, 2}
  Boundaries = {1, 2}
  LastDay = 2
  MaxId = 4
  MaxMoves = 3
  MaxCrashes = 1
INVARIANT MembershipMatchesPlayer
INVARIANT EveryReturnRecorded
INVARIANT AnnouncedOnce
PROPERTY PurgedAfterFullCycle
PROPERTY AbsentArePurged
