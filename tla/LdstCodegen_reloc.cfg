\* Generation of a block whose slow-path branch does not fit the REL14
\* displacement of a conditional branch.
CONSTANTS
  a1 = a1
  a2 = a2
  junk = junk
  Addrs <- MCAddrs
  Vals <- MCVals
  Junk <- junk
  OpStreams <- MCOpStreams
  Reach14 <- MCReach14Short
  FillLen <- MCFillLen
  CpuTempBufNLongs <- MCCpuTempBufNLongs
  StaticCallArgsSize <- MCStaticCallArgsSize
SPECIFICATION Spec
INVARIANT GenerationSucceeds
