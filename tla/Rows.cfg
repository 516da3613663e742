CONSTANTS
  Host = {"h"}
  Labels <- TwoLabels
  Output <- Says
  Table = "ukanstats"
  AgeInt = 1
  MaxRows = 2
  MaxNet = 2
  Readings = {0, 1}
  Horizon = 2
SPECIFICATION Spec
CHECK_DEADLOCK FALSE
INVARIANT RowsAreSamples
INVARIANT OldRowsAreGone
