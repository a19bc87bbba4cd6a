SPECIFICATION CollectingSpec
CONSTANTS
  MaxRuns = 3
  Source = {daily, weekly}
  SavesCursor = TRUE
  MaxAsks = 3
  MaxFailures = 1
  MaxOperator = 1
  None = None
  Missing = Missing
  Rule = {r1, r2}
  Editor = {e1, e2}
  MaxTexts = 3
  Word <- MCWord
  Narrow <- MCNarrow
  Lower <- MCLower
  Matching <- MCMatching
  Option <- MCOption
  Day = 2
  Reach = 3
  Definition <- MCDefinition
  Work <- MCWork
  Now = 3
INVARIANTS
  RunFollowsUnits
  PendingHasCarrier
  RowMatchesVersion
  DecidesAsMeant
PROPERTIES
  BackfillKept
  RunsEnd
  NoLostUpdate
CHECK_DEADLOCK FALSE
