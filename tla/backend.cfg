SPECIFICATION FairSpec
CONSTANTS
  NoFlush = NoFlush
  Units <- MCUnits
  Dispatchers <- MCDispatchers
  UnitSize <- MCUnitSize
  DispatchQueueDepth = 2
  NumToDispatch = 2
  RetireQueueDepth = 3
  NumToRetire = 2
  NumInstsToRetire = 5
  Traces <- MCTraces
  NumToRename = 2
INVARIANTS RenameContract InProgramOrder CreditsConserved NoLostWakeup
PROPERTIES TraceRetires
