SPECIFICATION FairSpec
CONSTANTS
  Pipes <- MCPipes
  PipeMapping <- MCMapping
  Programs <- MCPrograms
  Files = {"int", "vec"}
  Adders = 4
  UIntSize = 65536
  SchedulerSize = 3
INVARIANTS QueueExact ReadyExact PipesExact
PROPERTIES TraceCompletes
