\* The guarded memory-access pipeline: main pass, slow-path finalize pass
\* and repeated execution of the block against a changing TLB.
CONSTANTS
  a1 = a1
  a2 = a2
  junk = junk
  Addrs <- MCAddrs
  Vals <- MCVals
  Junk <- junk
  OpStreams <- MCOpStreams
  Reach14 <- MCReach14
  FillLen <- MCFillLen
  CpuTempBufNLongs <- MCCpuTempBufNLongs
  StaticCallArgsSize <- MCStaticCallArgsSize
SPECIFICATION Spec
INVARIANT ResumeContract
INVARIANT SlowPathCallArgs
INVARIANT FrameRestored
INVARIANT UnwindExact
INVARIANT FrameFits
PROPERTY OpCompletes
