CONSTANTS
  Tokens = {t1, t2}
  Objects = {o1, o2, o3}
  NoObject = none
  Loop = loop
  Cleaner = cleaner
  Pollers = {p1}
  Refreshers = {b1}
  TTL = 1
  MaxTime = 2
  MaxCrashes = 1
  DbFaults = TRUE
SPECIFICATION FairSpec
INVARIANTS OpenSessionsAreStored LogoutIsFinal
PROPERTIES ExpiredAreForgotten
