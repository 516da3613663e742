SPECIFICATION MCSpec
CONSTANTS
  Alphabet = {"a", "d"}
  SubLengths = {1, 2}
  Inputs <- MCInputs
  Lag = 1
  Lead = 1
  Profiles = {"p"}
  Fixed <- MCFixed
  Commands <- MCCommands
  SeriesFile <- MCSeriesFile
  SeriesOf <- MCSeriesOf
  ProfileFile <- MCProfileFile
  SearchLead = 3
  ShiftOf <- MCShiftOf
  SearchUnit = 12
  Tools = {"tsb", "basecomp", "scomp", "local"}
  Sizes <- MCSizes
  WordSamples = 4
  Section = 2
  SeriesWindow = 2
  SeriesUnit = 2
  Programs = {"saxutil", "tsb", "basecomp", "scomp", "local"}
  Curves <- MCCurves
  Symbol = 3
  Fwin = 2
INVARIANT SameAsSequential
INVARIANT DistancesMatchRecount
INVARIANT SearchedAsAlone
INVARIANT SeriesCompareTheirWindows
INVARIANT WordsShowTheShape
PROPERTY ScansEnd
CHECK_DEADLOCK FALSE
