CONSTANTS
  alice = alice
  bob = bob
  old = old
  new = new
  other = other
  download = download
  c1 = c1
  c2 = c2
  c3 = c3
  User <- MCUser
  Cookie <- MCCookie
  UserOf <- MCUserOf
  Job <- MCJob
  JobUser <- MCJobUser
  Call <- MCCall
  NoUser = NoUser
  NoCookie = NoCookie
  MaxRevision = 5
SPECIFICATION Spec
CHECK_DEADLOCK FALSE
PROPERTIES UpdateReleasesJobs
