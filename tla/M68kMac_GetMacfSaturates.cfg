CONSTANTS
  ByteBits <- MCByteBits
  AccInit <- MCAccInit
  SrInit <- MCSrInit
  MacsrVals <- MCMacsrVals
  ExtVals <- MCExtVals
  MulOps <- MCMulOps
  Bit50 <- MCBit50
  Bit53 <- MCBit53
  Accs <- MCAccs
SPECIFICATION Spec
INVARIANT GetMacfSaturates
