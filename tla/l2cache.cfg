SPECIFICATION FairSpec
CONSTANTS
  NoReq = NoReq
  Lines = {1, 2, 3}
  ICacheMisses = 2
  ReqQueueSize = 1
  BIUReqQueueSize = 2
  BIURespQueueSize = 1
  RespQueueSize = 1
  PipelineQueueSize = 1
  MissBufferSize = 3
  NumStages = 2
  L2Lines = 1
  L2AlwaysHit = FALSE
  BIUQueueSize = 1
  BIULatency = 0
  MSSLatency = 1
INVARIANTS RequestsExact QueuesBounded
PROPERTIES EveryRequestAnswered ImplementsService
