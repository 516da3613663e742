SPECIFICATION Spec
CONSTANTS
  Alphabet = {"a", "d"}
  SubLengths = {1, 2}
  Inputs <- MCInputs
  Lag = 1
  Lead = 1
  Profiles = {}
  Fixed <- MCFixed
INVARIANT AdjustedIsRecounted
CHECK_DEADLOCK FALSE
