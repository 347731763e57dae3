\* A load fills a writable TLB entry for a page whose M bit is clear.
CONSTANTS
  MemInit <- MCMemInit
  UrpInit <- MCUrpInit
  SrpInit <- MCSrpInit
  RootVals <- MCRootVals
  TtrVals <- MCTtrVals
  AccessVAs <- MCAccessVAs
  AccessSizes <- MCAccessSizes
  MovecTtrRegs <- MCMovecTtrRegs
  TcVals <- MCTcVals
SPECIFICATION MmuSpec
INVARIANT DirtyBeforeWritable
