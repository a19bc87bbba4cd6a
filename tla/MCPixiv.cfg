SPECIFICATION PixivSpec
CONSTANTS
  alice = alice
  bob = bob
  old = old
  new = new
  other = other
  download = download
  c1 = c1
  c2 = c2
  w1 = w1
  a1 = a1
  a2 = a2
  User <- MCUser
  Cookie <- MCCookie
  UserOf <- MCUserOf
  Job <- MCJob
  JobUser <- MCJobUser
  Call <- MCCall
  NoUser = NoUser
  NoCookie = NoCookie
  MaxRevision = 5
  Work <- MCWork
  Artist <- MCArtist
  Command = {m1}
  Refresher = {unit, web}
  PageSize = 1
  MaxChanges = 4
  MaxFailures = 1
  GateRequest = {r1, r2, r3, r4}
  Concurrency = 1
  Interval = 2
  Horizon = 4
INVARIANTS
  StoredCookieWasAccepted
  ClearsWhatWasSeen
  SettledMirrors
  NoBurst
PROPERTIES
  ExclusionOutlivesListing
  MirrorCatchesUp
CHECK_DEADLOCK FALSE
