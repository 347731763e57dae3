\* The debug translation of the upper 4K half of an 8K page.
CONSTANTS
  MemInit <- MCMemInit
  UrpInit <- MCUrpInit
  SrpInit <- MCSrpInit
  RootVals <- MCRootVals
  TtrVals <- MCTtrVals
  AccessVAs <- MCAccessVAs
  AccessSizes <- MCAccessSizes
  MovecTtrRegs <- MCMovecTtrRegs
  TcVals <- MCTcVals8K
SPECIFICATION MmuSpec
INVARIANT DebugPageExact
