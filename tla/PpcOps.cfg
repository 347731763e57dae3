\* One TCG op lowered by tcg_out_op or tcg_out_movi, on both host widths.
CONSTANTS
  DBits <- MCDBits
  WBits <- MCWBits
  HBits <- MCHBits
  CodeGenPtrs <- MCCodeGenPtrs
  WideConst <- MCWideConst
  OperandVals <- MCOperandVals
  Consts64 <- MCConsts64
SPECIFICATION OpsSpec
INVARIANT LoweringExact
\* A behaviour is one op: after it nothing is left to do.
CHECK_DEADLOCK FALSE
