SPECIFICATION QueueSpec
CONSTANTS
  j1 = j1
  w1 = w1
  w2 = w2
  pixiv = pixiv
  t1 = t1
  t2 = t2
  Job <- MCJob
  Slot <- MCSlot
  Account <- MCAccount
  AccountOf <- MCAccountOf
  MediaJob <- MCMediaJob
  NoJob = NoJob
  NoAccount = NoAccount
  BackoffLength = 1
  MaxDisturbances = 2
  Task <- MCTask
  Weights <- MCWeights
  MaxReady = 1
  MaxLosses = 1
INVARIANTS
  AttemptLedger
  WaitIsBounded
PROPERTIES
  NoStaleWrite
  ImplementsLedger
  JobsSettle
CHECK_DEADLOCK FALSE
