\* Does the client sleep between two samples?
CONSTANTS
  low = low
  high = high
  img = img
  Thread = {t1}
  Image <- OneImage
  Junk = Junk
  MaxContainers = 1
  Value <- TwoValues
  Null = Null
SPECIFICATION Spec
PROPERTIES
  MonitorInterval
CHECK_DEADLOCK FALSE
