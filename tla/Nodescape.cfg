SPECIFICATION Spec
CONSTANTS
  cpu = cpu
  mem = mem
  fan = fan
  Attr <- MCAttr
  SentNode = {0, 1, 2}
  Value = {1, 2}
  MaxNode = 1
  MaxProp = 2
  SelTimeout = 1
  RefreshGap = 1
  BeginFade = 0
  FadeTime = 1
  MaxAhead = 1
  MaxSent = 3
  Horizon = 2
INVARIANT TypeOK
INVARIANT SlotPerAttribute
INVARIANT NewestWins
INVARIANT BoundsAreHull
PROPERTY KeepsLatestStatus
PROPERTY NoStatusGoesBack
PROPERTY LagOnlyInsideGap
SYMMETRY Symm
CHECK_DEADLOCK FALSE
