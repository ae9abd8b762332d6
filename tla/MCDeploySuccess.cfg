\* Is an image that was reported as downloaded there?
CONSTANTS
  low = low
  high = high
  img = img
  Thread = {t1}
  Image <- OneImage
  Junk = Junk
  MaxContainers = 1
  Value <- TwoValues
  Null = Null
SPECIFICATION Spec
INVARIANTS
  DownloadSuccess
CHECK_DEADLOCK FALSE
