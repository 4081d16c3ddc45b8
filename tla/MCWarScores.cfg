SPECIFICATION ScoresSpec
CONSTANTS
  Window = 1
  NoQuota = NoQuota
  MaxAttacks = 4
  LastPoll = 2
  Lineup = {3, 4}
  Enemies = {1, 4, 9}
  Results <- MCResults
  Limits <- MCLimits
  Gifts = {1, 2}
  MaxGiven = 4
  MaxSnapshots = 4
  MaxSeasons = 2
  p = p
  q = q
  Orders <- MCOrders
  Handlers = {1, 2}
  Keyboards = {1, 2}
  PanelPage = 1
  MaxRequests = 4
  MaxChanges = 1
  Sections = {"verdicts", "scores", "donations", "lists", "panel"}
INVARIANT AgreesWithLoops
PROPERTY SettledStands
INVARIANT StarsCreditedOnce
INVARIANT FinedOnlyIfUnused
PROPERTY ScoresStand
INVARIANT NothingCountedTwice
INVARIANT AnswersWhatWasAsked
CHECK_DEADLOCK FALSE
