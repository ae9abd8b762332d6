\* 1,800 URLs, among them every length around the limit, with bodies around what
\* fits; every pair of last groups of an address, behind four beginnings.
CONSTANTS
  Parts <- ManyUrls
  Lengths <- ManyLengths
  Names <- Known
  None = None
  Prefix <- Vendors
  Digit <- HexDigit
SPECIFICATION TextSpec
INVARIANTS
  HeadNamesParts
  ConnectsToHost
  KnownHostFound
  BuffersHold
  SharedIds
CHECK_DEADLOCK FALSE
