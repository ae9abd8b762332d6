\* Three overlapping handlers of two machines, one connection to go round,
\* one fault of MySQL.
CONSTANTS
  m1 = m1
  m2 = m2
  Request = {r1, r2, r3}
  Id = {m1, m2}
  NoId = NoId
  Payloads <- TwoMachines
  MaxConn = 1
  MaxFaults = 1
SPECIFICATION Spec
SYMMETRY Symmetry
INVARIANTS
  TypeOK
  ExactSnapshot
  NoStaleRow
  SomeReportSurvives
PROPERTIES
  ImplementsReportStore
CHECK_DEADLOCK FALSE
