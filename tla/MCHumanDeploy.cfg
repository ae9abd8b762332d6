\* Usage that does not change, no container, one thread to deploy with; the
\* directive changes twice.
CONSTANTS
  low = low
  high = high
  img = img
  Thread = {t1}
  Image <- OneImage
  Junk = Junk
  MaxContainers = 0
  Value <- OneValue
  Null = Null
  Handler = {h1, h2}
  Mixed = Mixed
  MaxChanges = 2
SYMMETRY Alike
SPECIFICATION HumanSpec
INVARIANTS
  DirectiveInForce
CHECK_DEADLOCK FALSE
