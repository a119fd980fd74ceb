CONSTANTS
  Stream = {s1, s2}
  Configurations <- MCConfigurations
  FileSizes <- MCFileSizes
  DelayAfter <- MCDelayAfter
  Paths <- MCPaths
  Requests <- MCRequests
  DecodeBuf = 4
  RespSize = 2
  Word <- MCWord
  GenLimit <- MCGenLimit
SPECIFICATION FairSpec
CHECK_DEADLOCK FALSE
INVARIANTS
  TypeOK
  NoTruncation
  ProcessedOnce
  SomeoneInCharge
  TimerHasStream
  OwnFile
  AssertionsHold
PROPERTIES
  ImplementsResponse
  ResponseEnds
