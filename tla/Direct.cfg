SPECIFICATION FairSpec
CONSTANTS
  Links <- AllLinks
  kSendQueueDepth = 3
  kTelemetryQueueCeiling = 2
  MaxPeers = 3
  MaxGeneration = 8
INVARIANTS TypeOK QueueIsOfThisPeer GenerationNamesSession ReserveIsKept
PROPERTY StreamFramesLeave
CHECK_DEADLOCK FALSE
