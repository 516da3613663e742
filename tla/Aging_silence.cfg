SPECIFICATION FairSpec
CONSTANTS
  cpu = cpu
  mem = mem
  Attr <- MCAttr
  Node = {0}
  SelTimeout = 2
  RefreshGap = 4
  BeginFade = 1
  FadeTime = 7
PROPERTY SilenceShows
