\* Two handlers of one machine, one or two rewritings of the directive file, one
\* fault of MySQL.
CONSTANTS
  m1 = m1
  m2 = m2
  img1 = img1
  img2 = img2
  Request = {r1, r2}
  Id = {m1, m2}
  NoId = NoId
  Payloads <- Bodies
  MaxConn = 1
  MaxFaults = 1
  Image <- TwoImages
  Null = Null
  Absent = Absent
  Files <- SomeFiles
  MaxWrites = 1
SPECIFICATION ServletSpec
SYMMETRY Symmetry
INVARIANTS
  ServletTypeOK
  AnswerCurrent
  AnswerVouches
CHECK_DEADLOCK FALSE
