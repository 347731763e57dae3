\* The 68040 MMU with translation enabled (4K and 8K pages), over the
\* tables of MCM68kMmu.
CONSTANTS
  MemInit <- MCMemInit
  UrpInit <- MCUrpInit
  SrpInit <- MCSrpInit
  RootVals <- MCRootVals
  TcVals <- MCTcVals
  TtrVals <- MCTtrVals
  AccessVAs <- MCAccessVAs
  AccessSizes <- MCAccessSizes
  MovecTtrRegs <- MCMovecTtrRegs
SPECIFICATION MmuSpec
INVARIANT TranslateExact
INVARIANT AtcHistory
VIEW MmuView
