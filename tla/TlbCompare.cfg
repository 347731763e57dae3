CONSTANTS
  WordBits <- MCWordBits
  PageBits <- MCPageBits
  FlagBits <- MCFlagBits
  MaxSizeBits <- MCMaxSizeBits
  TlbBits <- MCTlbBits
SPECIFICATION Spec
INVARIANT FastPathExact
\* A behaviour is a single access: once the branch is decided the gate
\* has done its work, so the final state has no successor.
CHECK_DEADLOCK FALSE
