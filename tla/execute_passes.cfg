SPECIFICATION Spec
CONSTANTS
  Pipes <- MCPipes
  PipeMapping <- MCMapping
  Programs <- MCVectorFlush
  Files = {"int", "vec"}
  Adders = 4
  UIntSize = 65536
  SchedulerSize = 3
INVARIANTS NoPassTooMany
