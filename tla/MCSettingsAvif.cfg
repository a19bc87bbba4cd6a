SPECIFICATION SettingsSpec
CONSTANTS
  Client = {"b1", "b2"}
  Batch <- MCBatch
  Candidate <- MCCandidate
  Default <- MCDefault
  JobKind = {"import_work"}
  MaxSeconds = 4
  Avif = TRUE
  MaxSaves = 2
  MaxMishaps = 1
INVARIANT EveryReaderGoesOn
CHECK_DEADLOCK FALSE
