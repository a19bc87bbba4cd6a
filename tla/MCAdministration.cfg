SPECIFICATION AdministrationSpec
CONSTANTS
  Unset = Unset
  Login = {l1, l2}
  Source = {a1, a2}
  Preparer = {r1}
  Password = {p1, p2}
  EntryLimit = 1
  SharedLimit = 2
  Threshold <- MCThreshold
  Permits = 1
  MaxChanges = 1
  MaxTroubles = 1
  Job = {j1, j2}
  Slot = {w1, w2}
  File = {f1, f2}
  NoJob = NoJob
  MaxTrouble = 2
  MaxOperator = 2
INVARIANTS
  SessionsMatchPassword
  FailuresBounded
  RestorableIsComplete
PROPERTIES
  ImplementsLifecycle
  PurgeEnds
  RightPasswordGetsIn
CHECK_DEADLOCK FALSE
