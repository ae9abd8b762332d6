\* The same calls: a body that is too long for the buffer it is posted from.
CONSTANTS
  Parts <- ManyUrls
  Lengths <- ManyLengths
  Names <- Known
  None = None
  Prefix <- Vendors
  Digit <- HexDigit
SPECIFICATION TextSpec
INVARIANTS
  UnlimitedData
CHECK_DEADLOCK FALSE
