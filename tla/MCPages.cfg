SPECIFICATION PagesSpec
CONSTANTS
  w1 = w1
  w2 = w2
  w3 = w3
  a1 = a1
  a2 = a2
  t1 = t1
  t2 = t2
  s1 = s1
  me = me
  other = other
  Missing = Missing
  Viewer = me
  Empty = ""
  Limit = 1
  Sooner = 1
  Later = 2
  MaxInFlight = 2
  Work <- MCWork
  Context <- MCContext
  Rank <- MCRank
  Word <- MCWord
  Lower <- MCLower
  Trimmed <- MCTrimmed
  Collation <- MCCollation
  Like <- MCLike
  ContextWords <- MCContextWords
  About <- MCAbout
  Described <- MCDescribed
  Opening <- MCOpening
  Searches <- MCSearches
  Budget <- MCBudget
  Event = {e1, e2}
  BatchLimit = 1
  MaxTrouble = 1
  Request = {r1, r2}
  MaxOperator = 1
  NoVersion = NoVersion
INVARIANTS
  NothingLeftBehind
  NoneSkipped
  ShowsNewest
  MarksAgree
  FilterOppositesDivide
PROPERTIES
  TrashesWhatWasCounted
  PageCatchesUp
CHECK_DEADLOCK FALSE
