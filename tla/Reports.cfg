CONSTANTS
  Hosts <- TwoHosts
  Props <- TwoProps
  Listing <- Seven
  Sizes = {3, 4}
  Windows = 4
  Lead = 2
  Offset = 1
  Peaks = {2}
  Damages <- Damaged
  Failing <- Undrawn
  HostFiles <- OldHosts
  PagePairs <- ThreePairs
  PageListing <- FourFiles
  OldFiles <- Earlier
  PageDamages <- FallDamaged
  Runs <- SomeRuns
  OldFile <- OldColumns
  LengthName <- LengthNames
SPECIFICATION ReportsSpec
CHECK_DEADLOCK FALSE
INVARIANT HostPlotsShowTheirColumns
INVARIANT HostPagesAreTheirOwn
INVARIANT ImagesAreOfTheirRun
INVARIANT PicturesShowTheirAnalysis
INVARIANT StoredWithinTheirWindow
PROPERTY ReportsEnd
