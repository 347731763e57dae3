CONSTANTS
  WordBits <- MCWordBits
  Size <- MCSize
  Operands <- MCOperands
SPECIFICATION Spec
INVARIANT CcrExact
