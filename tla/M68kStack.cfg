\* Stack banking with MOVEC restricted to the banks A7 does not stand for
\* (what supervisor code does to set up user and interrupt stacks).
CONSTANTS
  noRead = noRead
  Vals <- MCVals
  NoRead <- noRead
  MovecActive = FALSE
SPECIFICATION Spec
INVARIANT StackMatchesMode
PROPERTY Refines
