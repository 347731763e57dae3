\* Code generation and re-linking with concurrent fetch on hosts whose data
\* and instruction blocks differ.
CONSTANTS
  MemSize <- MCMemSize
  HostLines <- MCMixedLines
  Vals <- MCVals
  Nil = Nil
SPECIFICATION Spec
INVARIANT FetchCoherent
