SPECIFICATION StdevSpec
CONSTANTS
  Host = {"h"}
  Prop = {"load", "mem"}
  Hits <- MCHits
  Setups <- MCSetups
  MaxAge = 1
  FetchInt = 2
  RrdAge = 2
  MaxRows = 2
  Horizon = 2
  Hosts = {"a", "b"}
  Props = {"load", "temp"}
  Tables <- MCTables
  Values = {0, 99}
  Text = 99
  MaxStored = 1
  Window = 9
  Bound = 1
INVARIANT FewOddNever
INVARIANT AnomaliesOfTheirOwn
INVARIANT RrdOfOneSeries
INVARIANT PagesShowFreshGraphs
PROPERTY AloneGraphsShowTheirUpdate
PROPERTY AnswersAreFresh
CHECK_DEADLOCK FALSE
