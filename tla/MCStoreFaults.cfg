\* Two handlers of one machine, every kind of body, two faults of MySQL, a
\* directive file that stays as it is, or missing.
CONSTANTS
  m1 = m1
  m2 = m2
  img1 = img1
  img2 = img2
  Request = {r1, r2}
  Id = {m1}
  NoId = NoId
  Payloads <- OneMachine
  MaxConn = 2
  MaxFaults = 2
  Image <- OneImage
  Null = Null
  Absent = Absent
  Files <- TwoFiles
  MaxWrites = 0
SPECIFICATION ServletFairSpec
INVARIANTS
  RecentConnection
PROPERTIES
  ImplementsReportStore
  EveryPostAnswered
CHECK_DEADLOCK FALSE
