\* uc_emu_start(begin): does the CPU start at begin?
CONSTANTS
  ByteBits <- MCByteBits
  Modes <- MCModes
  SelVals <- MCSelVals
  PcAddrs <- MCPcAddrs
SPECIFICATION Spec
PROPERTY SetPcStartsAtBegin
