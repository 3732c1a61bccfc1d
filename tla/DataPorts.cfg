CONSTANTS
  Capacity = 6
  Packets <- MCPackets
  Limits <- MCLimits
  Junk <- MCJunk
  nFrames = 2
  nFrameCap = 16
  MaxFrameSize = 2
  nBufMax = 3
  MaxFrames = 6
  nRows = 2
  nCapacity = 8
  MaxRows = 12
  Text <- MCTexts
  Default = none
  NoText = none
  Torn = torn
  Path <- MCTexts
  NoPath = none
  Mixed = torn
  MaxRequests = 3
  MaxResets = 2
  File <- MCFiles
  NoFile = none
  Sample <- MCSamples
  NULL = NULL
  MaxPlays = 3
  MaxFails = 1
  none = none
  a = a
  b = b
SPECIFICATION PortsSpec
INVARIANTS
  LaidOut
  PortsTypeOK
  SourceReads
  CopyReads
  PictureWhole
  ClearShown
  TextShown
  PathSettles
  SamplesOwned
  RequestedPlays
PROPERTIES
  ImplementsQueue
  PathArrives
  RequestsSettle
CHECK_DEADLOCK FALSE
