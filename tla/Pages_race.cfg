CONSTANTS
  Host = {"h"}
  Prop = {"load"}
  Hits <- MCDetail
  Setups <- MCApart
  MaxAge = 1
  FetchInt = 2
  RrdAge = 2
  MaxRows = 1
  Horizon = 2
SPECIFICATION Spec
CHECK_DEADLOCK FALSE
PROPERTY GraphsShowTheirUpdate
