SPECIFICATION FairSpec
CONSTANTS
  Singles <- MCSingles
  Grouped <- MCGrouped
  Members <- MCMembers
  Series <- MCSeries
  Text = 99
  IndexHist = 2
  Scale = 2
  MaxShown = 1
  NoFile = NoFile
  MaxRuns = 3
INVARIANT HistoryIsOfItsRuns
INVARIANT OnlyAKillEmpties
INVARIANT AlarmsAreKept
PROPERTY RunsEnd
CHECK_DEADLOCK FALSE
