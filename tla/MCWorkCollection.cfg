SPECIFICATION FairSpec
CONSTANTS
  Work = {w1}
  MaxPages = 3
  Rule <- MCRule
  Import = {imported}
  WorkImport = {imported}
  Forced = {}
  Unit = {unit}
  Target <- MCTarget
  Download = {1, 2}
  MaxChanges = 1
  MaxFailures = 1
  MaxOperator = 2
INVARIANTS MarkerExcludesWork ImportAgreesWithJob
PROPERTY ImportsEnd
CHECK_DEADLOCK FALSE
