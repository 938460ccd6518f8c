SPECIFICATION Spec
CONSTANTS
  x1 = x1  x2 = x2  f0 = f0
  p1 = p1  p2 = p2  p3 = p3  p4 = p4  q0 = q0  q1 = q1
  NoReg = NoReg
  RegFiles = {"INT", "FLOAT"}
  ARegs <- MCARegs
  PRegs <- MCPRegs
  AFile <- MCAFile
  PFile <- MCPFile
  InitMap <- MCInitMap
  InitFree <- MCInitFree
  Ops <- MCOpsFiles
  RenameQueueDepth = 2
  NumToRename = 2
  DispatchQueueDepth = 2
  PartialRename = FALSE
  MoveElimination = FALSE
  MaxUid = 4
INVARIANTS AssertionsHold NoLostWakeup
