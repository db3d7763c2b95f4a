SPECIFICATION FairSpec
CONSTANTS
  Caller = {h1, h2}
  Identity = {h1, h2}
  id <- Hostname
  NoHolder = NoHolder
  NoLease = NoLease
  Durations = {1, 3}
  Backdate = 2
  AgeCap = 4

INVARIANTS
  ReleasedIsObtainable
