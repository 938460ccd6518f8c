SPECIFICATION FairSpec
CONSTANTS
  NoInst = NoInst
  Traces <- MCVector
  InitConfig <- A
  NumToFetch = 2
  IBufCapacity = 3
  FetchBufferSize = 2
  ICacheQueueSize = 2
  CacheLatency = 1
  CacheLines = 1
  L1AlwaysHit = FALSE
  L2Credits = 1
  VLEN = 32
  NumToDecode = 2
  FetchQueueSize = 6
  FusionEnable = TRUE
  FusionMaxGroupSize = 2
  FusionMaxLatency = 1
  WaitingAtStart = {FALSE}
  UopQueueSize = 3
  MaxFlushes = 1
INVARIANTS TraceInOrder VsetBlocks ConfigExact
PROPERTIES TraceDecoded
