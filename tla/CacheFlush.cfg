\* Code generation and re-linking with concurrent fetch on hosts whose data
\* and instruction blocks agree.
CONSTANTS
  MemSize <- MCMemSize
  HostLines <- MCSameLines
  Vals <- MCVals
  Nil = Nil
SPECIFICATION Spec
INVARIANT FetchCoherent
