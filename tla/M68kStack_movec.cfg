\* Stack banking with MOVEC of any bank, the active one included.
CONSTANTS
  noRead = noRead
  Vals <- MCVals
  NoRead <- noRead
  MovecActive = TRUE
SPECIFICATION Spec
PROPERTY Refines
