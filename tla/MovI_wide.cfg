\* The scenario of spec section 8: a wide constant on a 64-bit host.
CONSTANTS
  DBits <- MCDBits
  WBits <- MCWBits
  HBits <- MCHBits
  CodeGenPtrs <- MCCodeGenPtrs
  WideConst <- MCWideConst
SPECIFICATION Spec
INVARIANT WideConstMultiInsn
\* A behaviour is one call: after it nothing is left to do.
CHECK_DEADLOCK FALSE
