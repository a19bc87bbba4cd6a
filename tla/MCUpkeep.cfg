SPECIFICATION UpkeepSpec
CONSTANTS
  Client = {"b1", "b2"}
  Batch <- MCBatch
  Candidate <- MCCandidate
  Default <- MCDefault
  JobKind = {"import_work"}
  MaxSeconds = 4
  Avif = TRUE
  MaxSaves = 2
  MaxMishaps = 1
  UsageRequest = {u1, u2}
  MaxFailedWalks = 2
  Page = {p1, p2}
  MaxRevision = 1
  Content = {a}
  Download = {d1}
  Regeneration = {}
  Slot = {s1}
  MaxTrouble = 1
  MaxOperator = 1
  NoJob = NoJob
  NoSlot = NoSlot
  NoContent = NoContent
  NoPath = NoPath
PROPERTIES
  NothingUnseenIsOverwritten
  SavesEnd
  AskersAreAnswered
  LeftoversGo
CHECK_DEADLOCK FALSE
