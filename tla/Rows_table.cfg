CONSTANTS
  Host = {"h"}
  Labels <- TwoLabels
  Output <- Says
  Table = "cikstats"
  AgeInt = 1
  MaxRows = 2
  MaxNet = 2
  Readings = {0, 1}
  Horizon = 3
SPECIFICATION Spec
CHECK_DEADLOCK FALSE
INVARIANT OldRowsAreGone
