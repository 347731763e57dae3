\* PTEST with TC.E clear installs a translation from the tables.
CONSTANTS
  MemInit <- MCMemInit
  UrpInit <- MCUrpInit
  SrpInit <- MCSrpInit
  RootVals <- MCRootVals
  TtrVals <- MCTtrVals
  AccessVAs <- MCAccessVAs
  AccessSizes <- MCAccessSizes
  MovecTtrRegs <- MCMovecTtrRegs
  TcVals <- MCTcValsOff
SPECIFICATION MmuSpec
INVARIANT TlbCoherent
