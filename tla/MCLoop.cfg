\* Two values of disk and memory, up to one container, one deploy thread.
CONSTANTS
  low = low
  high = high
  img = img
  Thread = {t1}
  Image <- OneImage
  Junk = Junk
  MaxContainers = 1
  Value <- TwoValues
  Null = Null
SPECIFICATION FairSpec
INVARIANTS
  TypeOK
  NoLostReport
PROPERTIES
  SettledUsageIsReported
  QuietWhenUnchanged
CHECK_DEADLOCK FALSE
