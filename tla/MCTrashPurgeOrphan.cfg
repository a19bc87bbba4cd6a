SPECIFICATION Spec
CONSTANTS
  Job = {j1}
  Slot = {s1}
  File = {f1, f2}
  NoJob = NoJob
  MaxTrouble = 0
  MaxOperator = 1
PROPERTY PurgeRemovesEveryRecordedFile
CHECK_DEADLOCK FALSE
