\* A walk through an indirect page descriptor rewrites it.
CONSTANTS
  MemInit <- MCMemInit
  UrpInit <- MCUrpInit
  SrpInit <- MCSrpInit
  RootVals <- MCRootVals
  TtrVals <- MCTtrVals
  AccessVAs <- MCAccessVAs
  AccessSizes <- MCAccessSizes
  MovecTtrRegs <- MCMovecTtrRegs
  TcVals <- MCTcVals
SPECIFICATION MmuSpec
INVARIANT HistoryOnly
