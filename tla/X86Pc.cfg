\* get_pc against the fetch address, in every mode.
CONSTANTS
  ByteBits <- MCByteBits
  Modes <- MCModes
  SelVals <- MCSelVals
  PcAddrs <- MCPcAddrs
SPECIFICATION Spec
INVARIANT PcReported
