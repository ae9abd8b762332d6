\* Two values of disk and memory, up to one container, and no thread to deploy
\* with; one change of any of them, or of the directive, by the world outside.
CONSTANTS
  low = low
  high = high
  img = img
  Thread = {}
  Image <- OneImage
  Junk = Junk
  MaxContainers = 1
  Value <- TwoValues
  Null = Null
  Handler = {h1, h2}
  Mixed = Mixed
  MaxChanges = 1
SPECIFICATION HumanFairSpec
INVARIANTS
  HumanTypeOK
  TrustedAnswerIsShown
PROPERTIES
  ImplementsTimeControl
  SettledUsageIsShown
CHECK_DEADLOCK FALSE
