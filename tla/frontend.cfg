SPECIFICATION Spec
CONSTANTS
  NoInst = NoInst
  Traces <- MCScalar
  InitConfig <- A
  NumToFetch = 2
  IBufCapacity = 3
  FetchBufferSize = 2
  ICacheQueueSize = 2
  CacheLatency = 1
  CacheLines = 1
  L1AlwaysHit = FALSE
  L2Credits = 1
  VLEN = 32
  NumToDecode = 2
  FetchQueueSize = 2
  FusionEnable = FALSE
  FusionMaxGroupSize = 0
  FusionMaxLatency = 0
  WaitingAtStart = {FALSE}
  UopQueueSize = 2
  MaxFlushes = 2
INVARIANTS TraceInOrder FetchedFirst CreditsConserved OneFillPerLine
