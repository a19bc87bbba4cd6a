SPECIFICATION Spec
CONSTANTS
  Page = {p1}
  MaxRevision = 2
  Content = {a, b}
  Download = {d1, d2}
  Regeneration = {g1}
  Slot = {s1, s2}
  MaxTrouble = 2
  MaxOperator = 1
  NoJob = NoJob
  NoSlot = NoSlot
  NoContent = NoContent
  NoPath = NoPath
SYMMETRY Symmetry
INVARIANTS OwnsIntent RecordedIsIntact
CHECK_DEADLOCK FALSE
