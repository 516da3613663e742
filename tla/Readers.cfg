SPECIFICATION FairSpec
CONSTANTS
  CommandFiles <- MCCommandFiles
  Room = 1
  Width = 4
  LabelSize = 5
  TextSize = 8
  Letters = {"e", "s", "p", "b"}
  Digits = {"1"}
  OtherBytes = {}
  Documents <- Docs
  RawFiles <- Raw
  MainName <- MCMainName
  BuiltinName = "b"
  ServerKey <- S
  PollKey <- P
  FrontFiles <- MCFrontFiles
  FrontNumbers <- MCFrontNumbers
  FrontFractions <- MCFrontFractions
  GroupNames = {".cs", ".kaos"}
  SaxFiles <- MCSaxFiles
  SaxNumbers <- MCSaxNumbers
  WordLengths <- MCWordLengths
  SampleFiles <- MCSampleFiles
  SampleBlank = " "
  SampleNumbers = {"1", "2"}
INVARIANT CommandsKept
INVARIANT DocumentsReadBack
INVARIANT ListsAreWhole
INVARIANT OptionsAreOfTheirLines
INVARIANT SamplesReadBack
PROPERTY TerminatedFilesEnd
CHECK_DEADLOCK FALSE
